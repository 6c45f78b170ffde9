------------------------ MODULE GenerationQueueProofs ------------------------
(***************************************************************************)
(* Proofs about GenerationQueue, for every number of runs, workers, stages *)
(* and attempts.                                                           *)
(***************************************************************************)
EXTENDS GenerationQueue, TLAPS

LEMMA InitQueueInv == Init => QueueInv
<1> SUFFICES ASSUME Init PROVE QueueInv
  OBVIOUS
<1> USE QueueAssumption
<1>1. TypeOK
  BY DEF Init, TypeOK, RunRow, RunStatus, NotCreated, NoLease, NoPatch, Fresh, Leasing,
         WorkerState, WorkerPc, Scanning
<1>2. LeaseMatchesStatus
  BY DEF Init, LeaseMatchesStatus, Leased, NotCreated, NoLease
<1>3. GrantsAreDistinct /\ PlanPosition
  BY DEF Init, GrantsAreDistinct, PlanPosition, Fresh, Leasing, InStage
<1>4. PatchEndsExecution /\ CancelPreventsPatch /\ AttemptBudget
  BY DEF Init, PatchEndsExecution, CancelPreventsPatch, AttemptBudget, NotCreated
<1>5. OneOutcomePerAttempt
  BY DEF Init, OneOutcomePerAttempt
<1> QED
  BY <1>1, <1>2, <1>3, <1>4, <1>5 DEF QueueInv

(***************************************************************************)
(* What the helpers of the actions do to the row and the worker they name. *)
(***************************************************************************)
LEMMA FreshType ==
  ASSUME NEW pc \in WorkerPc
  PROVE  Fresh(pc) \in WorkerState
BY DEF Fresh, Leasing, WorkerState

LEMMA ReleaseType ==
  ASSUME TypeOK, NEW w \in Workers, NEW pc \in WorkerPc, Release(w, pc)
  PROVE  worker' \in [Workers -> WorkerState]
BY FreshType DEF TypeOK, Release, SetWorker

LEMMA GotoType ==
  ASSUME TypeOK, NEW w \in Workers, NEW pc \in WorkerPc, Goto(w, pc)
  PROVE  worker' \in [Workers -> WorkerState]
<1>1. [worker[w] EXCEPT !.pc = pc] \in WorkerState
  BY DEF TypeOK, WorkerState
<1> QED
  BY <1>1 DEF TypeOK, Goto, SetWorker

LEMMA TakeLeaseType ==
  ASSUME TypeOK, NEW w \in Workers, NEW r \in Runs, NEW pc \in WorkerPc,
         TakeLease(w, r, pc)
  PROVE  worker' \in [Workers -> WorkerState]
<1>1. Leasing(pc, r, run[r].epoch + 1) \in WorkerState
  BY DEF TypeOK, RunRow, Leasing, WorkerState
<1> QED
  BY <1>1 DEF TypeOK, TakeLease, SetWorker

LEMMA AppendEventType ==
  ASSUME TypeOK, NEW r \in Runs, NEW type \in EventType, NEW n \in Nat,
         AppendEvent(r, type, n)
  PROVE  events' \in [Runs -> Seq(EventRow)]
<1> DEFINE e == [type |-> type, attempt |-> n]
<1>1. e \in EventRow
  BY DEF EventRow
<1>2. Append(events[r], e) \in Seq(EventRow)
  BY <1>1 DEF TypeOK
<1> QED
  BY <1>2 DEF TypeOK, AppendEvent

LEMMA AppendTerminalType ==
  ASSUME TypeOK, NEW r \in Runs, NEW type \in TerminalEventTypes,
         AppendTerminalEvent(r, type)
  PROVE  events' \in [Runs -> Seq(EventRow)]
<1>1. type \in EventType
  BY DEF TerminalEventTypes, EventType, RunEvents
<1>2. run[r].attempt \in Nat
  BY DEF TypeOK, RunRow
<1>3. CASE TerminalRecorded(r, run[r].attempt)
  BY <1>3 DEF AppendTerminalEvent, TypeOK
<1>4. CASE ~TerminalRecorded(r, run[r].attempt)
  BY <1>1, <1>2, <1>4, AppendEventType DEF AppendTerminalEvent
<1> QED
  BY <1>3, <1>4

LEMMA FinishType ==
  ASSUME TypeOK, NEW r \in Runs, NEW status \in RunStatus,
         NEW error \in {"none", "retryable", "final"}, Finish(r, status, error)
  PROVE  run' \in [Runs -> RunRow]
<1>1. [run[r] EXCEPT !.status = status, !.lease = NoLease, !.error = error]
       \in RunRow
  BY DEF TypeOK, RunRow
<1> QED
  BY <1>1 DEF TypeOK, Finish, SetRun

LEMMA SetRunType ==
  ASSUME TypeOK, NEW r \in Runs, NEW row \in RunRow, SetRun(r, row)
  PROVE  run' \in [Runs -> RunRow]
BY DEF TypeOK, SetRun

LEMMA SetWorkerType ==
  ASSUME TypeOK, NEW w \in Workers, NEW state \in WorkerState,
         SetWorker(w, state)
  PROVE  worker' \in [Workers -> WorkerState]
BY DEF TypeOK, SetWorker

\* Who passes the fence names an existing run.
LEMMA FencedRun ==
  ASSUME TypeOK, NEW w \in Workers, NEW S, Fenced(w, S)
  PROVE  worker[w].run \in Runs
BY DEF TypeOK, Fenced, HoldsLease, WorkerState

LEMMA RewriteType ==
  ASSUME TypeOK, NEW w \in Workers, worker[w].run \in Runs,
         NEW old, NEW new \in SUBSET StageRow, Rewrite(w, old, new)
  PROVE  stages' \in [Runs -> SUBSET StageRow]
BY DEF TypeOK, Rewrite

LEMMA FailStageType ==
  ASSUME TypeOK, NEW w \in Workers, worker[w].run \in Runs, FailStage(w)
  PROVE  stages' \in [Runs -> SUBSET StageRow]
<1> DEFINE active == {s \in Checkpoint(w) : s.status = "running"}
           failed == {[s EXCEPT !.status = "failed"] : s \in active}
<1>1. active \in SUBSET StageRow
  BY DEF TypeOK, Checkpoint
<1>2. failed \in SUBSET StageRow
  BY <1>1 DEF StageRow
<1>3. CASE worker[w].begun
  <2>1. Rewrite(w, active, failed)
    BY <1>3 DEF FailStage
  <2> HIDE DEF active, failed
  <2> QED
    BY <1>2, <2>1, RewriteType
<1>4. CASE ~worker[w].begun
  BY <1>4 DEF FailStage, TypeOK
<1> QED
  BY <1>3, <1>4

LEMMA StartedRowType ==
  ASSUME TypeOK, PlanPosition, NEW w \in Workers,
         worker[w].run \in Runs, worker[w].pc = "begin"
  PROVE  StartedRow(w) \in StageRow
<1>1. Step(w) \in 1..NumStages
  BY QueueAssumption DEF PlanPosition, InStage, Step, TypeOK, WorkerState
<1>2. worker[w].outputs \in Seq(Nat)
  BY DEF TypeOK, WorkerState
<1>3. Checkpoint(w) \subseteq StageRow
  BY DEF TypeOK, Checkpoint
<1> DEFINE n == IF Checkpoint(w) = {} THEN 1
                ELSE (CHOOSE s \in Checkpoint(w) : TRUE).attempt + 1
<1>4. n \in Nat
  <2>1. CASE Checkpoint(w) = {}
    BY <2>1
  <2>2. CASE Checkpoint(w) # {}
    <3>1. (CHOOSE s \in Checkpoint(w) : TRUE) \in StageRow
      BY <2>2, <1>3
    <3> QED
      BY <2>2, <3>1 DEF StageRow
  <2> QED
    BY <2>1, <2>2
<1> QED
  BY <1>1, <1>2, <1>4 DEF StartedRow, StageRow

LEMMA NextStageType ==
  ASSUME TypeOK, NEW w \in Workers, NextStage(w)
  PROVE  worker' \in [Workers -> WorkerState]
<1>1. AdvanceTo(w) \in WorkerPc
  BY DEF AdvanceTo, WorkerPc, Processing, InStage
<1>2. Append(worker[w].outputs, worker[w].result) \in Seq(Nat)
  BY DEF TypeOK, WorkerState
<1>3. [worker[w] EXCEPT !.pc = AdvanceTo(w), !.begun = FALSE,
                        !.outputs = Append(@, worker[w].result),
                        !.result = 0] \in WorkerState
  BY <1>1, <1>2 DEF TypeOK, WorkerState
<1> QED
  BY <1>3 DEF NextStage, SetWorker, TypeOK

------------------------------------------------------------------------------
(* Type correctness.                                                       *)

LEMMA ClientType ==
  ASSUME TypeOK, NEW r \in Runs, Client(r)
  PROVE  TypeOK'
<1> USE DEF RunRow, RunStatus, NoLease
<1>0. run[r] \in RunRow
  BY DEF TypeOK
<1>1. CASE CreateRun(r)
  <2>1. [run[r] EXCEPT !.status = "queued"] \in RunRow
    BY <1>0
  <2> QED
    BY <1>1, <2>1, SetRunType DEF TypeOK, CreateRun
<1>2. CASE CancelQueued(r)
  <2>1. [run[r] EXCEPT !.status = "cancelled", !.cancel = TRUE] \in RunRow
    BY <1>0
  <2> QED
    BY <1>2, <2>1, SetRunType, AppendTerminalType
    DEF TypeOK, CancelQueued, TerminalEventTypes
<1>3. CASE CancelRunning(r)
  <2>1. [run[r] EXCEPT !.cancel = TRUE] \in RunRow
    BY <1>0
  <2> QED
    BY <1>3, <2>1, SetRunType DEF TypeOK, CancelRunning
<1>4. CASE RetryRun(r)
  <2>1. [run[r] EXCEPT !.status = "queued", !.cancel = FALSE,
                       !.error = "none"] \in RunRow
    BY <1>0
  <2>2. events' \in [Runs -> Seq(EventRow)]
    BY <1>0, <1>4, AppendEventType DEF RetryRun, EventType, RunEvents
  <2> QED
    BY <1>4, <2>1, <2>2, SetRunType DEF TypeOK, RetryRun
<1> QED
  BY <1>1, <1>2, <1>3, <1>4 DEF Client

LEMMA ScanType ==
  ASSUME TypeOK, NEW w \in Workers, Scan(w)
  PROVE  TypeOK'
<1>a. {"finishing", "start", "recover", "terminalize", "claim"} \subseteq WorkerPc
  BY DEF WorkerPc, Processing, Scanning
<1>b. "running" \in RunStatus /\ "failed" \in RunStatus
  BY DEF RunStatus
<1>c. \A n \in Nat : n + 1 \in Nat
  OBVIOUS
<1>d. LeaseTicks \in {NoLease} \cup Nat
  BY QueueAssumption
<1>1. ASSUME NEW r \in Runs, RecoverPatchReady(w, r) PROVE TypeOK'
  <2>1. run[r] \in RunRow
    BY DEF TypeOK
  <2>2. [run[r] EXCEPT !.epoch = @ + 1, !.lease = LeaseTicks] \in RunRow
    BY <1>c, <1>d, <2>1 DEF RunRow
  <2> QED
    BY <1>1, <1>a, <2>2, SetRunType, TakeLeaseType DEF TypeOK, RecoverPatchReady
<1>2. ASSUME NEW r \in Runs, TerminalizeExhausted(w, r) PROVE TypeOK'
  BY <1>2, <1>b, FinishType, AppendTerminalType
  DEF TypeOK, TerminalizeExhausted, TerminalEventTypes
<1>3. ASSUME NEW r \in Runs, ClaimRun(w, r) PROVE TypeOK'
  <2>1. run[r] \in RunRow
    BY DEF TypeOK
  <2>2. [run[r] EXCEPT !.status = "running", !.attempt = @ + 1,
                       !.epoch = @ + 1, !.lease = LeaseTicks] \in RunRow
    BY <1>b, <1>c, <1>d, <2>1 DEF RunRow
  <2>3. events' \in [Runs -> Seq(EventRow)]
    BY <1>3, <2>1, AppendEventType DEF ClaimRun, EventType, RunEvents, RunRow
  <2> QED
    BY <1>3, <1>a, <2>2, <2>3, SetRunType, TakeLeaseType DEF TypeOK, ClaimRun
<1>4. ASSUME ScanDone(w) PROVE TypeOK'
  BY <1>4, <1>a, GotoType DEF TypeOK, ScanDone, NextScan
<1> QED
  BY <1>1, <1>2, <1>3, <1>4 DEF Scan

\* The steps of process_claimed_run that write to the run table.
LEMMA ProcessWriteType ==
  ASSUME TypeOK, PlanPosition, NEW w \in Workers,
         \/ FinalizeCancelled(w) \/ BeginStage(w) \/ CompleteStage(w)
         \/ FailRun(w) \/ PersistPatch(w) \/ CompleteRun(w)
         \/ ReportProgress(w) \/ RenewLease(w)
  PROVE  TypeOK'
<1> DEFINE r == worker[w].run
<1> USE QueueAssumption
<1>0. r \in Runs
  BY FencedRun DEF FinalizeCancelled, BeginStage, CompleteStage, FailRun,
                   PersistPatch, CompleteRun, ReportProgress, RenewLease
<1>1. run[r] \in RunRow /\ worker[w] \in WorkerState
  BY <1>0 DEF TypeOK
<1>2. run[r].attempt \in Nat /\ run[r].error \in {"none", "retryable", "final"}
  BY <1>1 DEF RunRow
<1>3. \A n \in Nat : \A type \in EventType :
        AppendEvent(r, type, n) => events' \in [Runs -> Seq(EventRow)]
  BY <1>0, AppendEventType
<1>4. {"recover", "complete", "executing", "down"} \subseteq WorkerPc
  BY DEF WorkerPc, Scanning, Processing, InStage
<1>5. {"completed", "failed", "cancelled"} \subseteq RunStatus
  BY DEF RunStatus
<1>6. {"stage.started", "stage.progress", "patch.ready"} \subseteq EventType
  BY DEF EventType
<1> HIDE DEF r
<1>7. CASE FinalizeCancelled(w)
  BY <1>7, <1>0, <1>2, <1>4, <1>5, FinishType, FailStageType, ReleaseType,
     AppendTerminalType
  DEF FinalizeCancelled, TypeOK, TerminalEventTypes, r
<1>8. CASE BeginStage(w)
  <2>1. StartedRow(w) \in StageRow
    BY <1>8, <1>0, StartedRowType DEF BeginStage, r
  <2>2. stages' \in [Runs -> SUBSET StageRow]
    BY <1>8, <1>0, <2>1, RewriteType DEF BeginStage, r
  <2>3. [worker[w] EXCEPT !.pc = "executing", !.begun = TRUE] \in WorkerState
    BY <1>1, <1>4 DEF WorkerState
  <2> QED
    BY <1>8, <2>2, <2>3, <1>2, <1>3, <1>6, SetWorkerType
    DEF BeginStage, TypeOK, r
<1>9. CASE CompleteStage(w)
  <2>1. PICK s \in Checkpoint(w) :
          Rewrite(w, {s}, {[s EXCEPT !.status = "completed",
                                     !.output = worker[w].result]})
    BY <1>9 DEF CompleteStage
  <2>2. s \in StageRow
    BY <1>0 DEF Checkpoint, TypeOK, r
  <2>3. [s EXCEPT !.status = "completed", !.output = worker[w].result]
          \in StageRow
    BY <2>2, <1>1 DEF StageRow, WorkerState
  <2>4. stages' \in [Runs -> SUBSET StageRow]
    BY <1>0, <2>1, <2>3, RewriteType DEF r
  <2> QED
    BY <1>9, <2>4, <1>2, <1>3, <1>6, NextStageType
    DEF CompleteStage, TypeOK, r
<1>10. CASE FailRun(w)
  <2>1. PersistedError(w) \in {"none", "retryable", "final"}
    BY DEF PersistedError
  <2> QED
    BY <1>10, <1>0, <1>4, <1>5, <2>1, FinishType, FailStageType, ReleaseType,
       AppendTerminalType
    DEF FailRun, TypeOK, TerminalEventTypes, r
<1>11. CASE PersistPatch(w)
  <2>1. [run[r] EXCEPT !.status = "patch_ready"] \in RunRow
    BY <1>1 DEF RunRow, RunStatus
  <2>2. run' \in [Runs -> RunRow]
    BY <1>11, <1>0, <2>1, SetRunType DEF PersistPatch, r
  <2>3. patch' \in [Runs -> Seq(Nat)]
    BY <1>11, <1>0, <1>1 DEF PersistPatch, TypeOK, WorkerState, r
  <2> QED
    BY <1>11, <2>2, <2>3, <1>2, <1>3, <1>4, <1>6, GotoType
    DEF PersistPatch, TypeOK, r
<1>12. CASE CompleteRun(w)
  BY <1>12, <1>0, <1>2, <1>4, <1>5, FinishType, ReleaseType, AppendTerminalType
  DEF CompleteRun, TypeOK, TerminalEventTypes, r
<1>13. CASE ReportProgress(w)
  BY <1>13, <1>2, <1>3, <1>6 DEF ReportProgress, TypeOK, r
<1>14. CASE RenewLease(w)
  <2>1. [run[r] EXCEPT !.lease = LeaseTicks] \in RunRow
    BY <1>1 DEF RunRow
  <2> QED
    BY <1>14, <1>0, <2>1, SetRunType DEF RenewLease, TypeOK, r
<1> QED
  BY <1>7, <1>8, <1>9, <1>10, <1>11, <1>12, <1>13, <1>14

\* The steps that change nothing but the memory of one worker.
Private(w) ==
  \/ StartRun(w) \/ ContinueUncancelled(w) \/ ReuseStage(w) \/ ExecuteStage(w)
  \/ AcceptReused(w) \/ StageRaises(w) \/ RejectPatchOutput(w) \/ LoseLease(w)
  \/ Restart(w) \/ Crash(w) \/ ScanDone(w) \/ SkipLocked(w)

LEMMA PrivateFrame ==
  ASSUME NEW w \in Workers, Private(w)
  PROVE  UNCHANGED <<run, stages, patch, events>>
BY DEF Private, StartRun, ContinueUncancelled, ReuseStage, ExecuteStage,
       AcceptReused, StageRaises, RejectPatchOutput, LoseLease, Restart, Crash,
       ScanDone, SkipLocked, NextScan

LEMMA PrivateType ==
  ASSUME TypeOK, NEW w \in Workers, Private(w)
  PROVE  TypeOK'
<1>0. worker[w] \in WorkerState
  BY DEF TypeOK
<1>1. {"check", "begin", "checkpoint", "reused", "observe", "failing", "down",
       "recover", "terminalize", "claim"} \subseteq WorkerPc
  BY DEF WorkerPc, Scanning, Processing, InStage
<1>2. worker' \in [Workers -> WorkerState]
  <2>1. CASE StartRun(w) \/ ContinueUncancelled(w) \/ ScanDone(w)
              \/ SkipLocked(w)
    BY <2>1, <1>1, GotoType DEF StartRun, ContinueUncancelled, ScanDone,
       SkipLocked, NextScan
  <2>2. CASE ReuseStage(w)
    <3>1. PICK s \in Checkpoint(w) :
            SetWorker(w, [worker[w] EXCEPT !.pc = "reused", !.begun = TRUE,
                                           !.result = s.output])
      BY <2>2 DEF ReuseStage
    <3>2. worker[w].run \in Runs
      BY <2>2, FencedRun DEF ReuseStage
    <3>3. s.output \in Nat
      BY <3>2 DEF Checkpoint, TypeOK, StageRow
    <3>4. [worker[w] EXCEPT !.pc = "reused", !.begun = TRUE,
                            !.result = s.output] \in WorkerState
      BY <3>3, <1>0, <1>1 DEF WorkerState
    <3> QED
      BY <3>1, <3>4, SetWorkerType
  <2>3. CASE ExecuteStage(w)
    <3>1. [worker[w] EXCEPT !.pc = "observe", !.result = worker[w].epoch]
            \in WorkerState
      BY <1>0, <1>1 DEF WorkerState
    <3> QED
      BY <2>3, <3>1, SetWorkerType DEF ExecuteStage
  <2>4. CASE AcceptReused(w)
    BY <2>4, NextStageType DEF AcceptReused
  <2>5. CASE StageRaises(w) \/ RejectPatchOutput(w)
    <3>1. PICK b \in BOOLEAN :
            SetWorker(w, [worker[w] EXCEPT !.pc = "failing", !.retryable = b])
      BY <2>5 DEF StageRaises, RejectPatchOutput
    <3>2. [worker[w] EXCEPT !.pc = "failing", !.retryable = b] \in WorkerState
      BY <1>0, <1>1 DEF WorkerState
    <3> QED
      BY <3>1, <3>2, SetWorkerType
  <2>6. CASE LoseLease(w) \/ Restart(w) \/ Crash(w)
    BY <2>6, <1>1, ReleaseType DEF LoseLease, Restart, Crash
  <2> QED
    BY <2>1, <2>2, <2>3, <2>4, <2>5, <2>6 DEF Private
<1>3. UNCHANGED <<run, stages, patch, events>>
  BY PrivateFrame
<1>4. faults' = faults \/ faults' = faults + 1
  BY DEF Private, StartRun, ContinueUncancelled, ReuseStage, ExecuteStage,
         AcceptReused, StageRaises, RejectPatchOutput, LoseLease, Restart, Crash,
         ScanDone, SkipLocked, NextScan
<1>5. faults' \in Nat
  BY <1>4 DEF TypeOK
<1> QED
  BY <1>2, <1>3, <1>5 DEF TypeOK

LEMMA TimeType ==
  ASSUME TypeOK, NEW r \in Runs, TimePasses(r)
  PROVE  TypeOK'
<1>0. run[r] \in RunRow
  BY DEF TypeOK
<1>1. run[r].lease - 1 \in Nat
  BY <1>0 DEF RunRow, TimePasses, NoLease
<1>2. [run[r] EXCEPT !.lease = @ - 1] \in RunRow
  BY <1>0, <1>1 DEF RunRow
<1>3. faults' \in Nat
  BY DEF TimePasses, TypeOK
<1> QED
  BY <1>2, <1>3, SetRunType DEF TypeOK, TimePasses

LEMMA TypeStep == TypeOK /\ PlanPosition /\ [Next]_vars => TypeOK'
<1> SUFFICES ASSUME TypeOK, PlanPosition, [Next]_vars PROVE TypeOK'
  OBVIOUS
<1>1. ASSUME NEW r \in Runs, Client(r) PROVE TypeOK'
  BY <1>1, ClientType
<1>2. ASSUME NEW r \in Runs, TimePasses(r) PROVE TypeOK'
  BY <1>2, TimeType
<1>3. ASSUME NEW w \in Workers,
             WorkerStep(w) \/ ReportProgress(w) \/ RenewLease(w) \/ Crash(w)
               \/ SkipLocked(w)
      PROVE  TypeOK'
  BY <1>3, ScanType, ProcessWriteType, PrivateType
  DEF WorkerStep, Process, Private
<1>4. CASE UNCHANGED vars
  BY <1>4 DEF vars, TypeOK
<1> QED
  BY <1>1, <1>2, <1>3, <1>4 DEF Next

------------------------------------------------------------------------------
(* The parts of the invariant that relate a run's row to its patch.        *)

RowInv(row, p) ==
  /\ row.status \in Leased <=> row.lease # NoLease
  /\ row.attempt <= MaxAttempts
  /\ row.status \in {NotCreated, "queued"} => row.attempt < MaxAttempts
  /\ p # NoPatch => \/ row.status \in {"patch_ready", "completed"}
                    \/ row.status = "failed" /\ row.error = "final"
  /\ row.cancel => /\ row.status \notin {"patch_ready", "completed"}
                   /\ p = NoPatch

RowsInv ==
  LeaseMatchesStatus /\ AttemptBudget /\ PatchEndsExecution /\ CancelPreventsPatch

LEMMA RowsInvByRow == RowsInv <=> \A r \in Runs : RowInv(run[r], patch[r])
BY DEF RowsInv, RowInv, LeaseMatchesStatus, AttemptBudget, PatchEndsExecution,
       CancelPreventsPatch

LEMMA RowsInvByRowNext ==
  RowsInv' <=> \A r \in Runs : RowInv(run'[r], patch'[r])
BY DEF RowsInv, RowInv, LeaseMatchesStatus, AttemptBudget, PatchEndsExecution,
       CancelPreventsPatch

\* A step that rewrites one row keeps the rows' invariant if that row has it.
LEMMA SetRunRowsInv ==
  ASSUME TypeOK, RowsInv, NEW r \in Runs, NEW row, SetRun(r, row),
         RowInv(row, patch'[r]),
         \A q \in Runs \ {r} : patch'[q] = patch[q]
  PROVE  RowsInv'
<1>1. ASSUME NEW q \in Runs PROVE RowInv(run'[q], patch'[q])
  <2>1. CASE q = r
    <3>1. run'[q] = row
      BY <2>1 DEF SetRun, TypeOK
    <3> QED
      BY <2>1, <3>1
  <2>2. CASE q # r
    <3>1. run'[q] = run[q] /\ patch'[q] = patch[q]
      BY <2>2 DEF SetRun, TypeOK
    <3> QED
      BY <3>1, RowsInvByRow
  <2> QED
    BY <2>1, <2>2
<1> QED
  BY <1>1, RowsInvByRowNext

LEMMA RunStepRowsInv ==
  ASSUME TypeOK, RowsInv, NEW r \in Runs,
         \/ Client(r) \/ TimePasses(r)
         \/ \E w \in Workers : \/ RecoverPatchReady(w, r)
                               \/ TerminalizeExhausted(w, r)
                               \/ ClaimRun(w, r)
  PROVE  RowsInv'
<1> USE QueueAssumption DEF NoLease, Leased, NotCreated
<1>0. run[r] \in RunRow /\ RowInv(run[r], patch[r]) /\ patch' = patch
  BY RowsInvByRow DEF TypeOK, Client, CreateRun, CancelQueued, CancelRunning,
     RetryRun, TimePasses, RecoverPatchReady, TerminalizeExhausted, ClaimRun
<1>a. \A row : SetRun(r, row) /\ RowInv(row, patch[r]) => RowsInv'
  BY <1>0, SetRunRowsInv
<1>1. CASE CreateRun(r)
  <2> DEFINE row == [run[r] EXCEPT !.status = "queued"]
  <2>1. RowInv(row, patch[r])
    BY <1>0, <1>1 DEF RowInv, CreateRun, RunRow
  <2> QED
    BY <1>1, <1>a, <2>1 DEF CreateRun
<1>2. CASE CancelQueued(r)
  <2> DEFINE row == [run[r] EXCEPT !.status = "cancelled", !.cancel = TRUE]
  <2>1. RowInv(row, patch[r])
    BY <1>0, <1>2 DEF RowInv, CancelQueued, RunRow
  <2> QED
    BY <1>2, <1>a, <2>1 DEF CancelQueued
<1>3. CASE CancelRunning(r)
  <2> DEFINE row == [run[r] EXCEPT !.cancel = TRUE]
  <2>1. RowInv(row, patch[r])
    BY <1>0, <1>3 DEF RowInv, CancelRunning, RunRow
  <2> QED
    BY <1>3, <1>a, <2>1 DEF CancelRunning
<1>4. CASE RetryRun(r)
  <2> DEFINE row == [run[r] EXCEPT !.status = "queued", !.cancel = FALSE,
                                   !.error = "none"]
  <2>1. RowInv(row, patch[r])
    BY <1>0, <1>4 DEF RowInv, RetryRun, RunRow
  <2> QED
    BY <1>4, <1>a, <2>1 DEF RetryRun
<1>5. CASE TimePasses(r)
  <2> DEFINE row == [run[r] EXCEPT !.lease = @ - 1]
  <2>1. RowInv(row, patch[r])
    BY <1>0, <1>5 DEF RowInv, TimePasses, RunRow
  <2> QED
    BY <1>5, <1>a, <2>1 DEF TimePasses
<1>6. ASSUME NEW w \in Workers, RecoverPatchReady(w, r) PROVE RowsInv'
  <2> DEFINE row == [run[r] EXCEPT !.epoch = @ + 1, !.lease = LeaseTicks]
  <2>1. RowInv(row, patch[r])
    BY <1>0, <1>6 DEF RowInv, RecoverPatchReady, Recoverable, RunRow
  <2> QED
    BY <1>6, <1>a, <2>1 DEF RecoverPatchReady
<1>7. ASSUME NEW w \in Workers, TerminalizeExhausted(w, r) PROVE RowsInv'
  <2> DEFINE row == [run[r] EXCEPT !.status = "failed", !.lease = NoLease,
                                   !.error = "final"]
  <2>1. RowInv(row, patch[r])
    BY <1>0, <1>7 DEF RowInv, TerminalizeExhausted, Exhausted, RunRow
  <2> QED
    BY <1>7, <1>a, <2>1 DEF TerminalizeExhausted, Finish
<1>8. ASSUME NEW w \in Workers, ClaimRun(w, r) PROVE RowsInv'
  <2> DEFINE row == [run[r] EXCEPT !.status = "running", !.attempt = @ + 1,
                                   !.epoch = @ + 1, !.lease = LeaseTicks]
  <2>1. RowInv(row, patch[r])
    BY <1>0, <1>8 DEF RowInv, ClaimRun, Claimable, RunRow
  <2> QED
    BY <1>8, <1>a, <2>1 DEF ClaimRun
<1> QED
  BY <1>1, <1>2, <1>3, <1>4, <1>5, <1>6, <1>7, <1>8 DEF Client

LEMMA WorkerStepRowsInv ==
  ASSUME TypeOK, RowsInv, NEW w \in Workers,
         \/ FinalizeCancelled(w) \/ FailRun(w) \/ CompleteRun(w)
         \/ PersistPatch(w) \/ RenewLease(w)
  PROVE  RowsInv'
<1> DEFINE r == worker[w].run
<1> USE QueueAssumption DEF NoLease, Leased, NotCreated
<1>0. r \in Runs
  BY FencedRun DEF FinalizeCancelled, FailRun, PersistPatch, CompleteRun,
                   RenewLease
<1>1. run[r] \in RunRow /\ RowInv(run[r], patch[r])
  BY <1>0, RowsInvByRow DEF TypeOK
<1> HIDE DEF r
<1>a. \A row : SetRun(r, row) /\ RowInv(row, patch[r]) /\ patch' = patch
                 => RowsInv'
  BY <1>0, SetRunRowsInv
<1>2. CASE FinalizeCancelled(w)
  <2> DEFINE row == [run[r] EXCEPT !.status = "cancelled", !.lease = NoLease,
                                   !.error = run[r].error]
  <2>1. RowInv(row, patch[r])
    BY <1>1, <1>2 DEF RowInv, FinalizeCancelled, Fenced, RunRow, r
  <2> QED
    BY <1>2, <1>a, <2>1 DEF FinalizeCancelled, Finish, r
<1>3. CASE FailRun(w)
  <2> DEFINE row == [run[r] EXCEPT !.status = "failed", !.lease = NoLease,
                                   !.error = PersistedError(w)]
  <2>1. RowInv(row, patch[r])
    BY <1>1, <1>3 DEF RowInv, FailRun, Fenced, RunRow, r
  <2> QED
    BY <1>3, <1>a, <2>1 DEF FailRun, Finish, r
<1>4. CASE CompleteRun(w)
  <2> DEFINE row == [run[r] EXCEPT !.status = "completed", !.lease = NoLease,
                                   !.error = run[r].error]
  <2>1. RowInv(row, patch[r])
    BY <1>1, <1>4 DEF RowInv, CompleteRun, Fenced, RunRow, r
  <2> QED
    BY <1>4, <1>a, <2>1 DEF CompleteRun, Finish, r
<1>5. CASE PersistPatch(w)
  <2> DEFINE row == [run[r] EXCEPT !.status = "patch_ready"]
  <2>1. RowInv(row, patch'[r])
    BY <1>1, <1>5 DEF RowInv, PersistPatch, Fenced, RunRow, r
  <2>2. \A q \in Runs \ {r} : patch'[q] = patch[q]
    BY <1>5 DEF PersistPatch, TypeOK, r
  <2>3. SetRun(r, row)
    BY <1>5 DEF PersistPatch, r
  <2> QED
    BY <1>0, <2>1, <2>2, <2>3, SetRunRowsInv
<1>6. CASE RenewLease(w)
  <2> DEFINE row == [run[r] EXCEPT !.lease = LeaseTicks]
  <2>1. RowInv(row, patch[r])
    BY <1>1, <1>6 DEF RowInv, RenewLease, Fenced, RunRow, r
  <2> QED
    BY <1>6, <1>a, <2>1 DEF RenewLease, r
<1> QED
  BY <1>2, <1>3, <1>4, <1>5, <1>6

LEMMA RowsInvStep == TypeOK /\ RowsInv /\ [Next]_vars => RowsInv'
<1> SUFFICES ASSUME TypeOK, RowsInv, [Next]_vars PROVE RowsInv'
  OBVIOUS
<1>0. UNCHANGED <<run, patch>> => RowsInv'
  BY DEF RowsInv, LeaseMatchesStatus, AttemptBudget, PatchEndsExecution,
         CancelPreventsPatch
<1>1. ASSUME NEW r \in Runs, Client(r) \/ TimePasses(r) PROVE RowsInv'
  BY <1>1, RunStepRowsInv
<1>2. ASSUME NEW w \in Workers,
             WorkerStep(w) \/ ReportProgress(w) \/ RenewLease(w) \/ Crash(w)
               \/ SkipLocked(w)
      PROVE  RowsInv'
  <2>1. CASE Private(w)
    BY <1>0, <2>1, PrivateFrame
  <2>2. CASE BeginStage(w) \/ CompleteStage(w) \/ ReportProgress(w)
    BY <1>0, <2>2 DEF BeginStage, CompleteStage, ReportProgress
  <2> QED
    BY <1>2, <2>1, <2>2, RunStepRowsInv, WorkerStepRowsInv
    DEF WorkerStep, Scan, Process, Private
<1>3. CASE UNCHANGED vars
  BY <1>0, <1>3 DEF vars
<1> QED
  BY <1>1, <1>2, <1>3 DEF Next

------------------------------------------------------------------------------
(* Grants: an epoch a worker remembers was handed to that worker only.     *)

\* A step that grants nothing: no epoch moves, and each worker remembers the
\* grant it had or none.
EpochsKept == \A r \in Runs : run'[r].epoch = run[r].epoch

MemoryKept ==
  \A w \in Workers : \/ worker'[w].run = NoRun
                     \/ /\ worker'[w].run = worker[w].run
                        /\ worker'[w].epoch = worker[w].epoch

LEMMA KeepsGrantsDistinct ==
  ASSUME TypeOK, GrantsAreDistinct, EpochsKept, MemoryKept
  PROVE  GrantsAreDistinct'
<1>1. \A w \in Workers : worker[w].run \in Runs \cup {NoRun}
  BY DEF TypeOK, WorkerState
<1> QED
  BY <1>1 DEF GrantsAreDistinct, EpochsKept, MemoryKept

LEMMA SetRunEpochs ==
  ASSUME TypeOK, NEW r \in Runs, NEW row, SetRun(r, row),
         row.epoch = run[r].epoch
  PROVE  EpochsKept
BY DEF TypeOK, SetRun, EpochsKept

LEMMA SetWorkerGrants ==
  ASSUME TypeOK, NEW w \in Workers, NEW state, SetWorker(w, state),
         \/ state.run = NoRun
         \/ state.run = worker[w].run /\ state.epoch = worker[w].epoch
  PROVE  MemoryKept
BY DEF TypeOK, SetWorker, MemoryKept

LEMMA ReleaseGrants ==
  ASSUME TypeOK, NEW w \in Workers, NEW pc, Release(w, pc)
  PROVE  MemoryKept
<1>1. Fresh(pc).run = NoRun
  BY DEF Fresh, Leasing
<1> QED
  BY <1>1, SetWorkerGrants DEF Release

LEMMA GotoGrants ==
  ASSUME TypeOK, NEW w \in Workers, NEW pc, Goto(w, pc)
  PROVE  MemoryKept
<1> DEFINE state == [worker[w] EXCEPT !.pc = pc]
<1>1. state.run = worker[w].run /\ state.epoch = worker[w].epoch
  BY DEF TypeOK, WorkerState
<1>2. SetWorker(w, state)
  BY DEF Goto
<1> HIDE DEF state
<1> QED
  BY <1>1, <1>2, SetWorkerGrants

LEMMA NextStageGrants ==
  ASSUME TypeOK, NEW w \in Workers, NextStage(w)
  PROVE  MemoryKept
<1> DEFINE state == [worker[w] EXCEPT !.pc = AdvanceTo(w), !.begun = FALSE,
                       !.outputs = Append(@, worker[w].result), !.result = 0]
<1>1. state.run = worker[w].run /\ state.epoch = worker[w].epoch
  BY DEF TypeOK, WorkerState
<1>2. SetWorker(w, state)
  BY DEF NextStage
<1> HIDE DEF state
<1> QED
  BY <1>1, <1>2, SetWorkerGrants

LEMMA FinishEpochs ==
  ASSUME TypeOK, NEW r \in Runs, NEW status, NEW error,
         Finish(r, status, error)
  PROVE  EpochsKept
<1> DEFINE row == [run[r] EXCEPT !.status = status, !.lease = NoLease,
                                 !.error = error]
<1>1. row.epoch = run[r].epoch
  BY DEF TypeOK, RunRow
<1>2. SetRun(r, row)
  BY DEF Finish
<1> HIDE DEF row
<1> QED
  BY <1>1, <1>2, SetRunEpochs

\* A new grant is ahead of every grant of that run anyone remembers.
LEMMA TakeLeaseDistinct ==
  ASSUME TypeOK, GrantsAreDistinct, NEW w \in Workers, NEW r \in Runs,
         NEW pc, TakeLease(w, r, pc), NEW row, SetRun(r, row),
         row.epoch = run[r].epoch + 1
  PROVE  GrantsAreDistinct'
<1>1. run'[r].epoch = run[r].epoch + 1 /\ run[r].epoch \in Nat
  BY DEF TypeOK, SetRun, RunRow
<1>2. \A q \in Runs \ {r} : run'[q].epoch = run[q].epoch
  BY DEF TypeOK, SetRun
<1>3. worker'[w].run = r /\ worker'[w].epoch = run[r].epoch + 1
  BY DEF TypeOK, TakeLease, SetWorker, Leasing
<1>4. \A v \in Workers \ {w} : worker'[v] = worker[v]
  BY DEF TypeOK, TakeLease, SetWorker
<1>5. \A v \in Workers : /\ worker[v].run \in Runs \cup {NoRun}
                         /\ worker[v].epoch \in Nat
  BY DEF TypeOK, WorkerState
<1>6. \A q \in Runs : run[q].epoch \in Nat
  BY DEF TypeOK, RunRow
<1> SUFFICES ASSUME NEW v \in Workers, worker'[v].run # NoRun
             PROVE  /\ worker'[v].epoch <= run'[worker'[v].run].epoch
                    /\ \A u \in Workers \ {v} :
                         worker'[u].run = worker'[v].run
                           => worker'[u].epoch # worker'[v].epoch
  BY DEF GrantsAreDistinct
<1>7. CASE v = w
  <2>1. ASSUME NEW u \in Workers \ {w}, worker'[u].run = r
        PROVE  worker'[u].epoch # run[r].epoch + 1
    <3>1. worker[u].run = r /\ worker'[u].epoch = worker[u].epoch
      BY <1>4, <2>1
    <3>2. worker[u].epoch <= run[r].epoch
      BY <3>1, QueueAssumption DEF GrantsAreDistinct
    <3> QED
      BY <1>1, <1>5, <3>1, <3>2
  <2> QED
    BY <1>1, <1>3, <1>7, <2>1
<1>8. CASE v # w
  <2>1. worker'[v] = worker[v] /\ worker[v].run \in Runs
    BY <1>4, <1>5, <1>8
  <2>2. worker[v].epoch <= run[worker[v].run].epoch
    BY <2>1, QueueAssumption DEF GrantsAreDistinct
  <2>3. worker[v].epoch <= run'[worker[v].run].epoch
    BY <1>1, <1>2, <1>5, <1>6, <2>1, <2>2
  <2>4. ASSUME NEW u \in Workers \ {v}, worker'[u].run = worker'[v].run
        PROVE  worker'[u].epoch # worker'[v].epoch
    <3>1. CASE u = w
      <4>1. worker[v].run = r /\ worker[v].epoch <= run[r].epoch
        BY <1>3, <2>1, <2>2, <2>4, <3>1
      <4> QED
        BY <1>1, <1>3, <1>5, <2>1, <3>1, <4>1
    <3>2. CASE u # w
      <4>1. worker'[u] = worker[u]
        BY <1>4, <3>2
      <4> QED
        BY <2>1, <2>4, <4>1, QueueAssumption DEF GrantsAreDistinct
    <3> QED
      BY <3>1, <3>2
  <2> QED
    BY <2>1, <2>3, <2>4
<1> QED
  BY <1>7, <1>8

LEMMA UnchangedGrants ==
  /\ UNCHANGED run => EpochsKept
  /\ UNCHANGED worker => MemoryKept
BY DEF EpochsKept, MemoryKept

LEMMA RunStepGrants ==
  ASSUME TypeOK, GrantsAreDistinct, NEW r \in Runs,
         \/ Client(r) \/ TimePasses(r)
         \/ \E w \in Workers : TerminalizeExhausted(w, r)
  PROVE  GrantsAreDistinct'
<1>0. UNCHANGED worker
  BY DEF Client, CreateRun, CancelQueued, CancelRunning, RetryRun, TimePasses,
         TerminalizeExhausted
<1>1. run[r] \in RunRow
  BY DEF TypeOK
<1>2. \A row : SetRun(r, row) /\ row.epoch = run[r].epoch => EpochsKept
  BY SetRunEpochs
<1>3. EpochsKept
  <2>1. CASE CreateRun(r)
    BY <1>1, <1>2, <2>1 DEF CreateRun, RunRow
  <2>2. CASE CancelQueued(r)
    BY <1>1, <1>2, <2>2 DEF CancelQueued, RunRow
  <2>3. CASE CancelRunning(r)
    BY <1>1, <1>2, <2>3 DEF CancelRunning, RunRow
  <2>4. CASE RetryRun(r)
    BY <1>1, <1>2, <2>4 DEF RetryRun, RunRow
  <2>5. CASE TimePasses(r)
    BY <1>1, <1>2, <2>5 DEF TimePasses, RunRow
  <2>6. CASE \E w \in Workers : TerminalizeExhausted(w, r)
    BY <2>6, FinishEpochs DEF TerminalizeExhausted
  <2> QED
    BY <2>1, <2>2, <2>3, <2>4, <2>5, <2>6 DEF Client
<1> QED
  BY <1>0, <1>3, UnchangedGrants, KeepsGrantsDistinct

LEMMA TakeoverGrants ==
  ASSUME TypeOK, GrantsAreDistinct, NEW w \in Workers, NEW r \in Runs,
         RecoverPatchReady(w, r) \/ ClaimRun(w, r)
  PROVE  GrantsAreDistinct'
<1>0. run[r] \in RunRow
  BY DEF TypeOK
<1>1. CASE RecoverPatchReady(w, r)
  <2> DEFINE row == [run[r] EXCEPT !.epoch = @ + 1, !.lease = LeaseTicks]
  <2>1. row.epoch = run[r].epoch + 1
    BY <1>0 DEF RunRow
  <2>2. SetRun(r, row) /\ TakeLease(w, r, "finishing")
    BY <1>1 DEF RecoverPatchReady
  <2> HIDE DEF row
  <2> QED
    BY <2>1, <2>2, TakeLeaseDistinct
<1>2. CASE ClaimRun(w, r)
  <2> DEFINE row == [run[r] EXCEPT !.status = "running", !.attempt = @ + 1,
                                   !.epoch = @ + 1, !.lease = LeaseTicks]
  <2>1. row.epoch = run[r].epoch + 1
    BY <1>0 DEF RunRow
  <2>2. SetRun(r, row) /\ TakeLease(w, r, "start")
    BY <1>2 DEF ClaimRun
  <2> HIDE DEF row
  <2> QED
    BY <2>1, <2>2, TakeLeaseDistinct
<1> QED
  BY <1>1, <1>2

LEMMA PrivateMemory ==
  ASSUME TypeOK, NEW w \in Workers, Private(w)
  PROVE  MemoryKept
<1>0. worker[w] \in WorkerState
  BY DEF TypeOK
<1>1. \A state : /\ SetWorker(w, state)
                 /\ state.run = worker[w].run
                 /\ state.epoch = worker[w].epoch
                 => MemoryKept
  BY SetWorkerGrants
<1>2. CASE StartRun(w) \/ ContinueUncancelled(w) \/ ScanDone(w)
              \/ SkipLocked(w)
  BY <1>2, GotoGrants DEF StartRun, ContinueUncancelled, ScanDone,
       SkipLocked, NextScan
<1>3. CASE LoseLease(w) \/ Restart(w) \/ Crash(w)
  BY <1>3, ReleaseGrants DEF LoseLease, Restart, Crash
<1>4. CASE ReuseStage(w)
  <2>1. PICK n : SetWorker(w, [worker[w] EXCEPT !.pc = "reused",
                                                !.begun = TRUE, !.result = n])
    BY <1>4 DEF ReuseStage
  <2> QED
    BY <1>0, <1>1, <2>1 DEF WorkerState
<1>5. CASE ExecuteStage(w)
  BY <1>0, <1>1, <1>5 DEF ExecuteStage, WorkerState
<1>6. CASE AcceptReused(w)
  BY <1>6, NextStageGrants DEF AcceptReused
<1>7. CASE StageRaises(w) \/ RejectPatchOutput(w)
  <2>1. PICK b \in BOOLEAN :
          SetWorker(w, [worker[w] EXCEPT !.pc = "failing", !.retryable = b])
    BY <1>7 DEF StageRaises, RejectPatchOutput
  <2> QED
    BY <1>0, <1>1, <2>1 DEF WorkerState
<1> QED
  BY <1>2, <1>3, <1>4, <1>5, <1>6, <1>7 DEF Private

LEMMA WorkerStepGrants ==
  ASSUME TypeOK, GrantsAreDistinct, NEW w \in Workers,
         \/ FinalizeCancelled(w) \/ BeginStage(w) \/ CompleteStage(w)
         \/ FailRun(w) \/ PersistPatch(w) \/ CompleteRun(w)
         \/ ReportProgress(w) \/ RenewLease(w) \/ Private(w)
  PROVE  GrantsAreDistinct'
<1> DEFINE r == worker[w].run
<1>0. worker[w] \in WorkerState
  BY DEF TypeOK
<1>1. r \in Runs => run[r] \in RunRow
  BY DEF TypeOK
<1>2. CASE Private(w)
  BY <1>2, PrivateFrame, PrivateMemory, UnchangedGrants, KeepsGrantsDistinct
<1>3. CASE FinalizeCancelled(w) \/ FailRun(w) \/ CompleteRun(w)
  <2>1. r \in Runs
    BY <1>3, FencedRun DEF FinalizeCancelled, FailRun, CompleteRun
  <2>2. EpochsKept
    BY <1>3, <2>1, FinishEpochs DEF FinalizeCancelled, FailRun, CompleteRun
  <2>3. MemoryKept
    BY <1>3, ReleaseGrants DEF FinalizeCancelled, FailRun, CompleteRun
  <2> QED
    BY <2>2, <2>3, KeepsGrantsDistinct
<1>4. CASE BeginStage(w)
  <2> DEFINE state == [worker[w] EXCEPT !.pc = "executing", !.begun = TRUE]
  <2>1. SetWorker(w, state) /\ UNCHANGED run
    BY <1>4 DEF BeginStage
  <2>2. state.run = worker[w].run /\ state.epoch = worker[w].epoch
    BY <1>0 DEF WorkerState
  <2> HIDE DEF state
  <2> QED
    BY <2>1, <2>2, SetWorkerGrants, UnchangedGrants, KeepsGrantsDistinct
<1>5. CASE CompleteStage(w)
  BY <1>5, NextStageGrants, UnchangedGrants, KeepsGrantsDistinct
  DEF CompleteStage
<1>6. CASE PersistPatch(w)
  <2> DEFINE row == [run[r] EXCEPT !.status = "patch_ready"]
  <2>1. r \in Runs /\ SetRun(r, row) /\ Goto(w, "complete")
    BY <1>6, FencedRun DEF PersistPatch
  <2>2. row.epoch = run[r].epoch
    BY <1>1, <2>1 DEF RunRow
  <2> HIDE DEF row
  <2> QED
    BY <2>1, <2>2, SetRunEpochs, GotoGrants, KeepsGrantsDistinct
<1>7. CASE ReportProgress(w)
  BY <1>7, UnchangedGrants, KeepsGrantsDistinct DEF ReportProgress
<1>8. CASE RenewLease(w)
  <2> DEFINE row == [run[r] EXCEPT !.lease = LeaseTicks]
  <2>1. r \in Runs /\ SetRun(r, row) /\ UNCHANGED worker
    BY <1>8, FencedRun DEF RenewLease
  <2>2. row.epoch = run[r].epoch
    BY <1>1, <2>1 DEF RunRow
  <2> HIDE DEF row
  <2> QED
    BY <2>1, <2>2, SetRunEpochs, UnchangedGrants, KeepsGrantsDistinct
<1> QED
  BY <1>2, <1>3, <1>4, <1>5, <1>6, <1>7, <1>8

LEMMA GrantsStep ==
  TypeOK /\ GrantsAreDistinct /\ [Next]_vars => GrantsAreDistinct'
<1> SUFFICES ASSUME TypeOK, GrantsAreDistinct, [Next]_vars
             PROVE  GrantsAreDistinct'
  OBVIOUS
<1>1. ASSUME NEW r \in Runs, Client(r) \/ TimePasses(r)
      PROVE  GrantsAreDistinct'
  BY <1>1, RunStepGrants
<1>2. ASSUME NEW w \in Workers,
             WorkerStep(w) \/ ReportProgress(w) \/ RenewLease(w) \/ Crash(w)
               \/ SkipLocked(w)
      PROVE  GrantsAreDistinct'
  BY <1>2, RunStepGrants, TakeoverGrants, WorkerStepGrants
  DEF WorkerStep, Scan, Process, Private
<1>3. CASE UNCHANGED vars
  BY <1>3, UnchangedGrants, KeepsGrantsDistinct DEF vars
<1> QED
  BY <1>1, <1>2, <1>3 DEF Next

------------------------------------------------------------------------------
(* The position of a worker in the stage plan.                             *)

PositionOK(state) ==
  /\ state.pc = "start" => state.outputs = <<>>
  /\ state.pc \in InStage => Len(state.outputs) < NumStages
  /\ state.pc = "persist" => Len(state.outputs) = NumStages

LEMMA PlanPositionByWorker ==
  /\ PlanPosition <=> \A w \in Workers : PositionOK(worker[w])
  /\ PlanPosition' <=> \A w \in Workers : PositionOK(worker'[w])
BY DEF PlanPosition, PositionOK

LEMMA SetWorkerPosition ==
  ASSUME TypeOK, PlanPosition, NEW w \in Workers, NEW state,
         SetWorker(w, state), PositionOK(state)
  PROVE  PlanPosition'
<1>1. ASSUME NEW v \in Workers PROVE PositionOK(worker'[v])
  <2>1. worker'[v] = IF v = w THEN state ELSE worker[v]
    BY DEF SetWorker, TypeOK
  <2> QED
    BY <2>1, PlanPositionByWorker
<1> QED
  BY <1>1, PlanPositionByWorker

LEMMA LeasingPosition ==
  ASSUME NEW pc, NEW r, NEW n, pc \notin InStage \cup {"persist"}
  PROVE  PositionOK(Leasing(pc, r, n))
BY DEF PositionOK, Leasing

LEMMA ReleasePosition ==
  ASSUME TypeOK, PlanPosition, NEW w \in Workers,
         NEW pc \in {"down", "recover"}, Release(w, pc)
  PROVE  PlanPosition'
<1>1. PositionOK(Fresh(pc))
  BY LeasingPosition DEF Fresh, InStage
<1> QED
  BY <1>1, SetWorkerPosition DEF Release

\* A change of pc alone: to a step where the position does not matter, or
\* between steps of the same stage.
LEMMA GotoPosition ==
  ASSUME TypeOK, PlanPosition, NEW w \in Workers, NEW pc, Goto(w, pc),
         \/ pc \notin InStage \cup {"start", "persist"}
         \/ pc \in InStage /\ worker[w].pc \in InStage \cup {"start"}
  PROVE  PlanPosition'
<1> DEFINE state == [worker[w] EXCEPT !.pc = pc]
<1>1. worker[w] \in WorkerState /\ PositionOK(worker[w])
  BY PlanPositionByWorker DEF TypeOK
<1>2. state.pc = pc /\ state.outputs = worker[w].outputs
  BY <1>1 DEF WorkerState
<1>3. PositionOK(state)
  <2>1. CASE pc \notin InStage \cup {"start", "persist"}
    BY <1>2, <2>1 DEF PositionOK
  <2>2. CASE pc \in InStage /\ worker[w].pc \in InStage \cup {"start"}
    <3>1. Len(worker[w].outputs) < NumStages
      BY <1>1, <2>2, QueueAssumption DEF PositionOK
    <3>2. pc \notin {"start", "persist"}
      BY <2>2 DEF InStage
    <3> QED
      BY <1>2, <3>1, <3>2 DEF PositionOK
  <2> QED
    BY <2>1, <2>2
<1>4. SetWorker(w, state)
  BY DEF Goto
<1> HIDE DEF state
<1> QED
  BY <1>3, <1>4, SetWorkerPosition

LEMMA NextStagePosition ==
  ASSUME TypeOK, PlanPosition, NEW w \in Workers, NextStage(w),
         worker[w].pc \in InStage
  PROVE  PlanPosition'
<1> DEFINE state == [worker[w] EXCEPT !.pc = AdvanceTo(w), !.begun = FALSE,
                       !.outputs = Append(@, worker[w].result), !.result = 0]
<1>1. worker[w] \in WorkerState /\ PositionOK(worker[w])
  BY PlanPositionByWorker DEF TypeOK
<1>2. /\ state.pc = AdvanceTo(w)
      /\ state.outputs = Append(worker[w].outputs, worker[w].result)
  BY <1>1 DEF WorkerState
<1>3. Len(state.outputs) = Len(worker[w].outputs) + 1
  BY <1>1, <1>2 DEF WorkerState
<1>4. Len(worker[w].outputs) < NumStages /\ Len(worker[w].outputs) \in Nat
  BY <1>1 DEF PositionOK, WorkerState
<1>5. SetWorker(w, state)
  BY DEF NextStage
<1> HIDE DEF state
<1>6. PositionOK(state)
  BY <1>2, <1>3, <1>4, QueueAssumption
  DEF PositionOK, AdvanceTo, Step, InStage
<1> QED
  BY <1>5, <1>6, SetWorkerPosition

\* The steps that leave the stage in progress where it is.
LEMMA SameStagePosition ==
  ASSUME TypeOK, PlanPosition, NEW w \in Workers, worker[w].pc \in InStage,
         NEW state, SetWorker(w, state), state.outputs = worker[w].outputs,
         state.pc \in InStage \cup {"failing"}
  PROVE  PlanPosition'
<1>1. Len(worker[w].outputs) < NumStages
  BY DEF PlanPosition
<1>2. state.pc \notin {"start", "persist"}
  BY DEF InStage
<1>3. PositionOK(state)
  BY <1>1, <1>2 DEF PositionOK
<1> QED
  BY <1>3, SetWorkerPosition

LEMMA PrivatePosition ==
  ASSUME TypeOK, PlanPosition, NEW w \in Workers, Private(w)
  PROVE  PlanPosition'
<1>0. worker[w] \in WorkerState
  BY DEF TypeOK
<1>1. CASE StartRun(w) \/ ContinueUncancelled(w) \/ ScanDone(w)
              \/ SkipLocked(w)
  <2>1. CASE StartRun(w)
    BY <2>1, GotoPosition DEF StartRun, InStage
  <2>2. CASE ContinueUncancelled(w)
    BY <2>2, GotoPosition DEF ContinueUncancelled, InStage
  <2>3. CASE ScanDone(w) \/ SkipLocked(w)
    BY <2>3, GotoPosition DEF ScanDone, SkipLocked, NextScan, InStage
  <2> QED
    BY <1>1, <2>1, <2>2, <2>3
<1>2. CASE LoseLease(w) \/ Restart(w) \/ Crash(w)
  BY <1>2, ReleasePosition DEF LoseLease, Restart, Crash
<1>3. CASE ReuseStage(w)
  <2>1. PICK n : SetWorker(w, [worker[w] EXCEPT !.pc = "reused",
                                                !.begun = TRUE, !.result = n])
    BY <1>3 DEF ReuseStage
  <2> DEFINE state == [worker[w] EXCEPT !.pc = "reused", !.begun = TRUE,
                                        !.result = n]
  <2>2. state.outputs = worker[w].outputs /\ state.pc = "reused"
    BY <1>0 DEF WorkerState
  <2>3. worker[w].pc \in InStage /\ "reused" \in InStage
    BY <1>3 DEF ReuseStage, InStage
  <2> HIDE DEF state
  <2> QED
    BY <2>1, <2>2, <2>3, SameStagePosition DEF state
<1>4. CASE ExecuteStage(w)
  <2> DEFINE state == [worker[w] EXCEPT !.pc = "observe",
                                        !.result = worker[w].epoch]
  <2>1. SetWorker(w, state)
    BY <1>4 DEF ExecuteStage
  <2>2. state.outputs = worker[w].outputs /\ state.pc = "observe"
    BY <1>0 DEF WorkerState
  <2>3. worker[w].pc \in InStage /\ "observe" \in InStage
    BY <1>4 DEF ExecuteStage, InStage
  <2> HIDE DEF state
  <2> QED
    BY <2>1, <2>2, <2>3, SameStagePosition
<1>5. CASE AcceptReused(w)
  BY <1>5, NextStagePosition DEF AcceptReused, InStage
<1>6. CASE StageRaises(w) \/ RejectPatchOutput(w)
  <2>1. PICK b \in BOOLEAN :
          SetWorker(w, [worker[w] EXCEPT !.pc = "failing", !.retryable = b])
    BY <1>6 DEF StageRaises, RejectPatchOutput
  <2> DEFINE state == [worker[w] EXCEPT !.pc = "failing", !.retryable = b]
  <2>2. state.pc = "failing"
    BY <1>0 DEF WorkerState
  <2>3. PositionOK(state)
    BY <2>2 DEF PositionOK, InStage
  <2>4. SetWorker(w, state)
    BY <2>1
  <2> HIDE DEF state
  <2> QED
    BY <2>3, <2>4, SetWorkerPosition
<1> QED
  BY <1>1, <1>2, <1>3, <1>4, <1>5, <1>6 DEF Private

LEMMA PlanPositionStep ==
  TypeOK /\ PlanPosition /\ [Next]_vars => PlanPosition'
<1> SUFFICES ASSUME TypeOK, PlanPosition, [Next]_vars PROVE PlanPosition'
  OBVIOUS
<1>0. UNCHANGED worker => PlanPosition'
  BY DEF PlanPosition
<1>1. ASSUME NEW r \in Runs, Client(r) \/ TimePasses(r) PROVE PlanPosition'
  BY <1>0, <1>1 DEF Client, CreateRun, CancelQueued, CancelRunning, RetryRun,
                    TimePasses
<1>2. ASSUME NEW w \in Workers, NEW r \in Runs,
             \/ RecoverPatchReady(w, r) \/ TerminalizeExhausted(w, r)
             \/ ClaimRun(w, r)
      PROVE  PlanPosition'
  <2>1. CASE TerminalizeExhausted(w, r)
    BY <1>0, <2>1 DEF TerminalizeExhausted
  <2>2. \A pc \in {"finishing", "start"} :
          PositionOK(Leasing(pc, r, run[r].epoch + 1))
    BY LeasingPosition DEF InStage
  <2> QED
    BY <1>2, <2>1, <2>2, SetWorkerPosition
    DEF RecoverPatchReady, ClaimRun, TakeLease
<1>3. ASSUME NEW w \in Workers,
             Process(w) \/ Private(w) \/ ReportProgress(w) \/ RenewLease(w)
      PROVE  PlanPosition'
  <2>1. CASE Private(w)
    BY <2>1, PrivatePosition
  <2>2. CASE FinalizeCancelled(w) \/ FailRun(w) \/ CompleteRun(w)
    BY <2>2, ReleasePosition DEF FinalizeCancelled, FailRun, CompleteRun
  <2>3. CASE BeginStage(w)
    <3> DEFINE state == [worker[w] EXCEPT !.pc = "executing", !.begun = TRUE]
    <3>1. worker[w] \in WorkerState
      BY DEF TypeOK
    <3>2. state.outputs = worker[w].outputs /\ state.pc = "executing"
      BY <3>1 DEF WorkerState
    <3>3. SetWorker(w, state) /\ worker[w].pc \in InStage
      BY <2>3 DEF BeginStage, InStage
    <3>4. "executing" \in InStage
      BY DEF InStage
    <3> HIDE DEF state
    <3> QED
      BY <3>2, <3>3, <3>4, SameStagePosition
  <2>4. CASE CompleteStage(w)
    BY <2>4, NextStagePosition DEF CompleteStage, InStage
  <2>5. CASE PersistPatch(w)
    BY <2>5, GotoPosition DEF PersistPatch, InStage
  <2>6. CASE ReportProgress(w) \/ RenewLease(w)
    BY <1>0, <2>6 DEF ReportProgress, RenewLease
  <2> QED
    BY <1>3, <2>1, <2>2, <2>3, <2>4, <2>5, <2>6 DEF Process, Private
<1>4. CASE UNCHANGED vars
  BY <1>0, <1>4 DEF vars
<1> QED
  BY <1>1, <1>2, <1>3, <1>4 DEF Next, WorkerStep, Scan, Private

------------------------------------------------------------------------------
(* Outcomes in the event log.                                              *)

OneOutcome(log) ==
  \A i, j \in DOMAIN log :
    /\ log[i].type \in TerminalEventTypes
    /\ log[j].type \in TerminalEventTypes
    /\ log[i].attempt = log[j].attempt
    => i = j

LEMMA OneOutcomeByLog ==
  /\ OneOutcomePerAttempt <=> \A r \in Runs : OneOutcome(events[r])
  /\ OneOutcomePerAttempt' <=> \A r \in Runs : OneOutcome(events'[r])
BY DEF OneOutcomePerAttempt, OneOutcome

\* Appending keeps the outcomes distinct when the new row is no outcome, or
\* when the log has none for its attempt.
LEMMA AppendOneOutcome ==
  ASSUME NEW log \in Seq(EventRow), OneOutcome(log), NEW e \in EventRow,
         e.type \in TerminalEventTypes =>
           \A i \in DOMAIN log : ~ /\ log[i].type \in TerminalEventTypes
                                   /\ log[i].attempt = e.attempt
  PROVE  OneOutcome(Append(log, e))
<1> DEFINE new == Append(log, e)
<1>1. Len(log) \in Nat /\ DOMAIN log = 1..Len(log)
  OBVIOUS
<1>2. DOMAIN new = 1..(Len(log) + 1) /\ new[Len(log) + 1] = e
  OBVIOUS
<1>3. \A i \in DOMAIN log : new[i] = log[i]
  OBVIOUS
<1> HIDE DEF new
<1> SUFFICES ASSUME NEW i \in DOMAIN new, NEW j \in DOMAIN new,
                    new[i].type \in TerminalEventTypes,
                    new[j].type \in TerminalEventTypes,
                    new[i].attempt = new[j].attempt
             PROVE  i = j
  BY DEF OneOutcome, new
<1>4. CASE i \in DOMAIN log /\ j \in DOMAIN log
  BY <1>3, <1>4 DEF OneOutcome
<1>5. CASE i = Len(log) + 1 /\ j \in DOMAIN log
  BY <1>2, <1>3, <1>5
<1>6. CASE j = Len(log) + 1 /\ i \in DOMAIN log
  BY <1>2, <1>3, <1>6
<1>7. CASE i = Len(log) + 1 /\ j = Len(log) + 1
  BY <1>7
<1> QED
  BY <1>1, <1>2, <1>4, <1>5, <1>6, <1>7

LEMMA AppendEventOutcome ==
  ASSUME TypeOK, OneOutcomePerAttempt, NEW r \in Runs, NEW type \in EventType,
         NEW n \in Nat, AppendEvent(r, type, n),
         type \in TerminalEventTypes => ~TerminalRecorded(r, n)
  PROVE  OneOutcomePerAttempt'
<1> DEFINE e == [type |-> type, attempt |-> n]
<1>1. e \in EventRow /\ e.type = type /\ e.attempt = n
  BY DEF EventRow
<1>2. ASSUME NEW q \in Runs PROVE OneOutcome(events'[q])
  <2>1. events[q] \in Seq(EventRow) /\ OneOutcome(events[q])
    BY OneOutcomeByLog DEF TypeOK
  <2>2. CASE q # r
    <3>1. events'[q] = events[q]
      BY <2>2 DEF AppendEvent, TypeOK
    <3> QED
      BY <2>1, <3>1
  <2>3. CASE q = r
    <3>1. events'[q] = Append(events[r], e)
      BY <2>3 DEF AppendEvent, TypeOK
    <3>2. type \in TerminalEventTypes =>
            \A i \in DOMAIN events[r] :
              ~ /\ events[r][i].type \in TerminalEventTypes
                /\ events[r][i].attempt = n
      BY DEF TerminalRecorded
    <3> HIDE DEF e
    <3> QED
      BY <1>1, <2>1, <2>3, <3>1, <3>2, AppendOneOutcome
  <2> QED
    BY <2>2, <2>3
<1> QED
  BY <1>2, OneOutcomeByLog

LEMMA AppendTerminalOutcome ==
  ASSUME TypeOK, OneOutcomePerAttempt, NEW r \in Runs,
         NEW type \in TerminalEventTypes, AppendTerminalEvent(r, type)
  PROVE  OneOutcomePerAttempt'
<1>1. type \in EventType
  BY DEF TerminalEventTypes, EventType, RunEvents
<1>2. run[r].attempt \in Nat
  BY DEF TypeOK, RunRow
<1>3. CASE TerminalRecorded(r, run[r].attempt)
  BY <1>3 DEF AppendTerminalEvent, OneOutcomePerAttempt
<1>4. CASE ~TerminalRecorded(r, run[r].attempt)
  BY <1>1, <1>2, <1>4, AppendEventOutcome DEF AppendTerminalEvent
<1> QED
  BY <1>3, <1>4

LEMMA OneOutcomeStep ==
  TypeOK /\ OneOutcomePerAttempt /\ [Next]_vars => OneOutcomePerAttempt'
<1> SUFFICES ASSUME TypeOK, OneOutcomePerAttempt, [Next]_vars
             PROVE  OneOutcomePerAttempt'
  OBVIOUS
<1>0. UNCHANGED events => OneOutcomePerAttempt'
  BY DEF OneOutcomePerAttempt
<1>a. \A r \in Runs : run[r].attempt \in Nat /\ run[r].attempt + 1 \in Nat
  BY DEF TypeOK, RunRow
<1>b. \A r \in Runs, n \in Nat,
        type \in EventType \ TerminalEventTypes :
          AppendEvent(r, type, n) => OneOutcomePerAttempt'
  BY AppendEventOutcome
<1>c. {"run.started", "run.resumed", "run.retry_requested", "stage.started",
       "stage.progress", "patch.ready"} \subseteq EventType \ TerminalEventTypes
  BY DEF EventType, TerminalEventTypes, RunEvents
<1>d. {"run.completed", "run.failed", "run.cancelled"}
        \subseteq TerminalEventTypes
  BY DEF TerminalEventTypes
<1>1. ASSUME NEW r \in Runs, Client(r) \/ TimePasses(r)
      PROVE  OneOutcomePerAttempt'
  <2>1. CASE CancelQueued(r)
    BY <2>1, <1>d, AppendTerminalOutcome DEF CancelQueued
  <2>2. CASE RetryRun(r)
    BY <2>2, <1>a, <1>b, <1>c DEF RetryRun
  <2>3. CASE CreateRun(r) \/ CancelRunning(r) \/ TimePasses(r)
    BY <1>0, <2>3 DEF CreateRun, CancelRunning, TimePasses
  <2> QED
    BY <1>1, <2>1, <2>2, <2>3 DEF Client
<1>2. ASSUME NEW w \in Workers, NEW r \in Runs,
             \/ RecoverPatchReady(w, r) \/ TerminalizeExhausted(w, r)
             \/ ClaimRun(w, r)
      PROVE  OneOutcomePerAttempt'
  <2>1. CASE RecoverPatchReady(w, r)
    BY <1>0, <2>1 DEF RecoverPatchReady
  <2>2. CASE TerminalizeExhausted(w, r)
    BY <2>2, <1>d, AppendTerminalOutcome DEF TerminalizeExhausted
  <2>3. CASE ClaimRun(w, r)
    BY <2>3, <1>a, <1>b, <1>c DEF ClaimRun
  <2> QED
    BY <1>2, <2>1, <2>2, <2>3
<1>3. ASSUME NEW w \in Workers,
             Process(w) \/ Private(w) \/ ReportProgress(w) \/ RenewLease(w)
      PROVE  OneOutcomePerAttempt'
  <2>1. CASE Private(w)
    BY <1>0, <2>1, PrivateFrame
  <2>2. CASE FinalizeCancelled(w) \/ FailRun(w) \/ CompleteRun(w)
    BY <2>2, <1>d, FencedRun, AppendTerminalOutcome
    DEF FinalizeCancelled, FailRun, CompleteRun
  <2>3. CASE \/ BeginStage(w) \/ CompleteStage(w) \/ PersistPatch(w)
             \/ ReportProgress(w)
    BY <2>3, <1>a, <1>b, <1>c, FencedRun
    DEF BeginStage, CompleteStage, PersistPatch, ReportProgress
  <2>4. CASE RenewLease(w)
    BY <1>0, <2>4 DEF RenewLease
  <2> QED
    BY <1>3, <2>1, <2>2, <2>3, <2>4 DEF Process, Private
<1>4. CASE UNCHANGED vars
  BY <1>0, <1>4 DEF vars
<1> QED
  BY <1>1, <1>2, <1>3, <1>4 DEF Next, WorkerStep, Scan, Private

------------------------------------------------------------------------------
(* The inductive invariant, and the safety properties it implies.          *)

LEMMA QueueInvStep == QueueInv /\ [Next]_vars => QueueInv'
<1> SUFFICES ASSUME QueueInv, [Next]_vars PROVE QueueInv'
  OBVIOUS
<1>1. TypeOK' /\ GrantsAreDistinct' /\ PlanPosition' /\ OneOutcomePerAttempt'
  BY TypeStep, GrantsStep, PlanPositionStep, OneOutcomeStep DEF QueueInv
<1>2. RowsInv'
  BY RowsInvStep DEF QueueInv, RowsInv
<1> QED
  BY <1>1, <1>2 DEF QueueInv, RowsInv

\* Every reachable state of the queue has the inductive invariant: typed rows,
\* leases exactly on leased rows, distinct grants, no patch outside the end of
\* execution, the attempt budget, the plan position, one outcome per attempt.
THEOREM QueueInvariant == Spec => []QueueInv
<1>1. Init => QueueInv
  BY InitQueueInv
<1>2. QueueInv /\ [Next]_vars => QueueInv'
  BY QueueInvStep
<1> QED
  BY <1>1, <1>2, PTL DEF Spec

\* The rows, checkpoints, events and workers keep their types.
THEOREM TypeCorrect == Spec => []TypeOK
<1>1. QueueInv => TypeOK
  BY DEF QueueInv
<1> QED
  BY <1>1, QueueInvariant, PTL

\* At most one worker passes the fence of a run: an epoch names one grant, and
\* the fence asks for the epoch of the row.
THEOREM AtMostOneWriter == Spec => []SingleWriter
<1>1. QueueInv => SingleWriter
  <2> SUFFICES ASSUME QueueInv,
                      NEW v \in Workers, NEW w \in Workers,
                      Fenced(v, Leased), Fenced(w, Leased),
                      worker[v].run = worker[w].run
               PROVE  v = w
    BY DEF SingleWriter
  <2>1. worker[v].epoch = worker[w].epoch /\ worker[v].run # NoRun
    BY DEF Fenced, HoldsLease
  <2> QED
    BY <2>1 DEF QueueInv, GrantsAreDistinct
<1> QED
  BY <1>1, QueueInvariant, PTL

\* A cancellation accepted while the run executes is never overtaken by the
\* finalization: a run with cancel_requested_at has no patch.
THEOREM CancellationWins == Spec => []CancelPreventsPatch
<1>1. QueueInv => CancelPreventsPatch
  BY DEF QueueInv
<1> QED
  BY <1>1, QueueInvariant, PTL

\* No attempt of a run ever has two outcomes in the event log.
THEOREM OutcomesAreUnique == Spec => []OneOutcomePerAttempt
<1>1. QueueInv => OneOutcomePerAttempt
  BY DEF QueueInv
<1> QED
  BY <1>1, QueueInvariant, PTL

------------------------------------------------------------------------------
(* Leases change hands only after they expire.                             *)

TakeoverOK(row, next) ==
  row.lease # NoLease =>
    /\ next.epoch # row.epoch => row.lease = 0
    /\ row.lease = 0 /\ next.epoch = row.epoch => next.lease \in {0, NoLease}

LEMMA SetRunTakeover ==
  ASSUME TypeOK, NEW r \in Runs, NEW row, SetRun(r, row),
         TakeoverOK(run[r], row)
  PROVE  \A q \in Runs : TakeoverOK(run[q], run'[q])
BY DEF TypeOK, SetRun, TakeoverOK

LEMMA FinishTakeover ==
  ASSUME TypeOK, NEW r \in Runs, NEW status, NEW error,
         Finish(r, status, error)
  PROVE  \A q \in Runs : TakeoverOK(run[q], run'[q])
<1> DEFINE row == [run[r] EXCEPT !.status = status, !.lease = NoLease,
                                 !.error = error]
<1>1. row.epoch = run[r].epoch /\ row.lease = NoLease
  BY DEF TypeOK, RunRow
<1>2. SetRun(r, row)
  BY DEF Finish
<1> HIDE DEF row
<1>3. TakeoverOK(run[r], row)
  BY <1>1 DEF TakeoverOK
<1> QED
  BY <1>2, <1>3, SetRunTakeover

LEMMA TakeoverStep ==
  ASSUME TypeOK, LeaseMatchesStatus, [Next]_vars
  PROVE  \A q \in Runs : TakeoverOK(run[q], run'[q])
<1> DEFINE Goal == \A q \in Runs : TakeoverOK(run[q], run'[q])
<1>0. UNCHANGED run => Goal
  BY DEF TakeoverOK, NoLease
<1>a. \A r \in Runs : \A row : SetRun(r, row) /\ TakeoverOK(run[r], row) => Goal
  BY SetRunTakeover
<1>b. \A r \in Runs : run[r] \in RunRow
  BY DEF TypeOK
<1> HIDE DEF Goal
<1>1. ASSUME NEW r \in Runs, Client(r) \/ TimePasses(r) PROVE Goal
  <2>1. CASE CreateRun(r)
    <3>1. TakeoverOK(run[r], [run[r] EXCEPT !.status = "queued"])
      BY <1>b DEF TakeoverOK, RunRow
    <3> QED
      BY <1>a, <2>1, <3>1 DEF CreateRun
  <2>2. CASE CancelQueued(r)
    <3>1. TakeoverOK(run[r], [run[r] EXCEPT !.status = "cancelled",
                                            !.cancel = TRUE])
      BY <1>b DEF TakeoverOK, RunRow
    <3> QED
      BY <1>a, <2>2, <3>1 DEF CancelQueued
  <2>3. CASE CancelRunning(r)
    <3>1. TakeoverOK(run[r], [run[r] EXCEPT !.cancel = TRUE])
      BY <1>b DEF TakeoverOK, RunRow
    <3> QED
      BY <1>a, <2>3, <3>1 DEF CancelRunning
  <2>4. CASE RetryRun(r)
    <3>1. TakeoverOK(run[r], [run[r] EXCEPT !.status = "queued",
                                            !.cancel = FALSE, !.error = "none"])
      BY <1>b DEF TakeoverOK, RunRow
    <3> QED
      BY <1>a, <2>4, <3>1 DEF RetryRun
  <2>5. CASE TimePasses(r)
    <3>1. TakeoverOK(run[r], [run[r] EXCEPT !.lease = @ - 1])
      BY <1>b, <2>5 DEF TakeoverOK, RunRow, TimePasses
    <3> QED
      BY <1>a, <2>5, <3>1 DEF TimePasses
  <2> QED
    BY <1>1, <2>1, <2>2, <2>3, <2>4, <2>5 DEF Client
<1>2. ASSUME NEW w \in Workers, NEW r \in Runs,
             \/ RecoverPatchReady(w, r) \/ TerminalizeExhausted(w, r)
             \/ ClaimRun(w, r)
      PROVE  Goal
  <2>1. CASE RecoverPatchReady(w, r)
    <3>1. TakeoverOK(run[r], [run[r] EXCEPT !.epoch = @ + 1,
                                            !.lease = LeaseTicks])
      BY <1>b, <2>1
      DEF TakeoverOK, RunRow, RecoverPatchReady, Recoverable, Expired
    <3> QED
      BY <1>a, <2>1, <3>1 DEF RecoverPatchReady
  <2>2. CASE TerminalizeExhausted(w, r)
    BY <2>2, FinishTakeover DEF TerminalizeExhausted, Goal
  <2>3. CASE ClaimRun(w, r)
    <3>1. run[r].lease \in {0, NoLease}
      BY <1>b, <2>3
      DEF ClaimRun, Claimable, Expired, LeaseMatchesStatus, Leased
    <3>2. TakeoverOK(run[r], [run[r] EXCEPT !.status = "running",
                                !.attempt = @ + 1, !.epoch = @ + 1,
                                !.lease = LeaseTicks])
      BY <1>b, <3>1 DEF TakeoverOK, RunRow
    <3> QED
      BY <1>a, <2>3, <3>2 DEF ClaimRun
  <2> QED
    BY <1>2, <2>1, <2>2, <2>3
<1>3. ASSUME NEW w \in Workers,
             Process(w) \/ Private(w) \/ ReportProgress(w) \/ RenewLease(w)
      PROVE  Goal
  <2>1. CASE Private(w)
    BY <1>0, <2>1, PrivateFrame
  <2>2. CASE FinalizeCancelled(w) \/ FailRun(w) \/ CompleteRun(w)
    BY <2>2, FencedRun, FinishTakeover
    DEF FinalizeCancelled, FailRun, CompleteRun, Goal
  <2>3. CASE BeginStage(w) \/ CompleteStage(w) \/ ReportProgress(w)
    BY <1>0, <2>3 DEF BeginStage, CompleteStage, ReportProgress
  <2>4. CASE PersistPatch(w)
    <3> DEFINE r == worker[w].run
    <3>1. r \in Runs /\ SetRun(r, [run[r] EXCEPT !.status = "patch_ready"])
      BY <2>4, FencedRun DEF PersistPatch
    <3>2. TakeoverOK(run[r], [run[r] EXCEPT !.status = "patch_ready"])
      BY <1>b, <3>1 DEF TakeoverOK, RunRow
    <3> QED
      BY <1>a, <3>1, <3>2
  <2>5. CASE RenewLease(w)
    <3> DEFINE r == worker[w].run
    <3>1. r \in Runs /\ SetRun(r, [run[r] EXCEPT !.lease = LeaseTicks])
      BY <2>5, FencedRun DEF RenewLease
    <3>2. run[r].lease > 0
      BY <2>5 DEF RenewLease, Fenced, LiveLease
    <3>3. TakeoverOK(run[r], [run[r] EXCEPT !.lease = LeaseTicks])
      BY <1>b, <3>1, <3>2 DEF TakeoverOK, RunRow
    <3> QED
      BY <1>a, <3>1, <3>3
  <2> QED
    BY <1>3, <2>1, <2>2, <2>3, <2>4, <2>5 DEF Process, Private
<1>4. CASE UNCHANGED vars
  BY <1>0, <1>4 DEF vars, Goal
<1> QED
  BY <1>1, <1>2, <1>3, <1>4 DEF Next, WorkerStep, Scan, Private, Goal

\* A lease changes hands only once it has expired, and an expired lease is
\* never revived.
THEOREM TakeoverNeedsExpiry == Spec => TakeoverAfterExpiry
<1> DEFINE A == \A r \in Runs :
                  run[r].lease # NoLease =>
                    /\ run'[r].epoch # run[r].epoch => run[r].lease = 0
                    /\ run[r].lease = 0 /\ run'[r].epoch = run[r].epoch
                         => run'[r].lease \in {0, NoLease}
<1>1. QueueInv /\ [Next]_vars => [A]_run
  BY TakeoverStep DEF QueueInv, TakeoverOK
<1>2. Spec => [][A]_run
  BY <1>1, QueueInvariant, PTL DEF Spec
<1> QED
  BY <1>2 DEF TakeoverAfterExpiry

------------------------------------------------------------------------------
(* The queue implements RunLifecycle.  The abstract state of a run is a    *)
(* function of its row and its patch.                                      *)

Status == [r \in Runs |-> run[r].status]
Attempts == [r \in Runs |-> run[r].attempt]
Built == [r \in Runs |-> patch[r] # NoPatch]

\* What a step that rewrites the row of r does to the abstract state.
LEMMA SetRunLifecycle ==
  ASSUME TypeOK, NEW r \in Runs, NEW row \in RunRow, SetRun(r, row)
  PROVE  /\ Status' = [Status EXCEPT ![r] = row.status]
         /\ Attempts' = [Attempts EXCEPT ![r] = row.attempt]
BY DEF TypeOK, SetRun, Status, Attempts

LEMMA PatchLifecycle == UNCHANGED patch => UNCHANGED Built
BY DEF Built

LEMMA RunLifecycleStutter ==
  UNCHANGED <<run, patch>> => UNCHANGED <<Status, Attempts, Built>>
BY DEF Status, Attempts, Built

LEMMA SameStatus ==
  ASSUME NEW r \in Runs
  PROVE  /\ [Status EXCEPT ![r] = run[r].status] = Status
         /\ [Attempts EXCEPT ![r] = run[r].attempt] = Attempts
BY DEF Status, Attempts

AbstractStep ==
  \/ Lifecycle!LifecycleNext
  \/ UNCHANGED <<Status, Attempts, Built>>

LEMMA ClientLifecycle ==
  ASSUME QueueInv, NEW r \in Runs, Client(r) \/ TimePasses(r)
  PROVE  AbstractStep
<1> USE DEF RunRow, RunStatus, NoLease, NotCreated
<1>0. run[r] \in RunRow /\ RowInv(run[r], patch[r]) /\ TypeOK
  BY RowsInvByRow DEF QueueInv, RowsInv, TypeOK
<1>a. UNCHANGED patch
  BY DEF Client, CreateRun, CancelQueued, CancelRunning, RetryRun, TimePasses
<1>b. UNCHANGED Built
  BY <1>a, PatchLifecycle
<1>c. /\ Status[r] = run[r].status
      /\ Attempts[r] = run[r].attempt
      /\ Built[r] = (patch[r] # NoPatch)
  BY DEF Status, Attempts, Built
<1>1. CASE CreateRun(r)
  <2> DEFINE row == [run[r] EXCEPT !.status = "queued"]
  <2>1. row \in RunRow /\ row.status = "queued" /\ row.attempt = run[r].attempt
    BY <1>0
  <2>2. SetRun(r, row) /\ run[r].status = "not_created"
    BY <1>1 DEF CreateRun
  <2> HIDE DEF row
  <2>3. Status' = [Status EXCEPT ![r] = "queued"] /\ UNCHANGED Attempts
    BY <1>0, <2>1, <2>2, SetRunLifecycle, SameStatus
  <2>4. Lifecycle!Create(r)
    BY <1>b, <1>c, <2>2, <2>3
    DEF Lifecycle!Create, Lifecycle!Move, Status, Attempts, Built
  <2> QED
    BY <2>4 DEF AbstractStep, Lifecycle!LifecycleNext
<1>2. CASE CancelQueued(r)
  <2> DEFINE row == [run[r] EXCEPT !.status = "cancelled", !.cancel = TRUE]
  <2>1. /\ row \in RunRow /\ row.status = "cancelled"
        /\ row.attempt = run[r].attempt
    BY <1>0
  <2>2. SetRun(r, row) /\ run[r].status = "queued"
    BY <1>2 DEF CancelQueued
  <2> HIDE DEF row
  <2>3. Status' = [Status EXCEPT ![r] = "cancelled"] /\ UNCHANGED Attempts
    BY <1>0, <2>1, <2>2, SetRunLifecycle, SameStatus
  <2>4. Lifecycle!Cancel(r)
    BY <1>b, <1>c, <2>2, <2>3
    DEF Lifecycle!Cancel, Lifecycle!Move, Status, Attempts, Built
  <2> QED
    BY <2>4 DEF AbstractStep, Lifecycle!LifecycleNext
<1>3. CASE CancelRunning(r)
  <2> DEFINE row == [run[r] EXCEPT !.cancel = TRUE]
  <2>1. /\ row \in RunRow /\ row.status = run[r].status
        /\ row.attempt = run[r].attempt
    BY <1>0
  <2>2. SetRun(r, row)
    BY <1>3 DEF CancelRunning
  <2> HIDE DEF row
  <2> QED
    BY <1>0, <1>b, <2>1, <2>2, SetRunLifecycle, SameStatus DEF AbstractStep
<1>4. CASE RetryRun(r)
  <2> DEFINE row == [run[r] EXCEPT !.status = "queued", !.cancel = FALSE,
                                   !.error = "none"]
  <2>1. row \in RunRow /\ row.status = "queued" /\ row.attempt = run[r].attempt
    BY <1>0
  <2>2. /\ SetRun(r, row) /\ run[r].status = "failed"
        /\ run[r].attempt < MaxAttempts /\ run[r].error = "retryable"
    BY <1>4 DEF RetryRun
  <2> HIDE DEF row
  <2>3. Status' = [Status EXCEPT ![r] = "queued"] /\ UNCHANGED Attempts
    BY <1>0, <2>1, <2>2, SetRunLifecycle, SameStatus
  <2>4. patch[r] = NoPatch
    BY <1>0, <2>2 DEF RowInv
  <2>5. Lifecycle!Retry(r)
    BY <1>b, <1>c, <2>2, <2>3, <2>4
    DEF Lifecycle!Retry, Lifecycle!Move, Status, Attempts, Built
  <2> QED
    BY <2>5 DEF AbstractStep, Lifecycle!LifecycleNext
<1>5. CASE TimePasses(r)
  <2> DEFINE row == [run[r] EXCEPT !.lease = @ - 1]
  <2>0. run[r].lease - 1 \in Nat
    BY <1>0, <1>5 DEF TimePasses
  <2>1. /\ row \in RunRow /\ row.status = run[r].status
        /\ row.attempt = run[r].attempt
    BY <1>0, <2>0
  <2>2. SetRun(r, row)
    BY <1>5 DEF TimePasses
  <2> HIDE DEF row
  <2> QED
    BY <1>0, <1>b, <2>1, <2>2, SetRunLifecycle, SameStatus DEF AbstractStep
<1> QED
  BY <1>1, <1>2, <1>3, <1>4, <1>5 DEF Client

LEMMA ScanLifecycle ==
  ASSUME QueueInv, NEW w \in Workers, NEW r \in Runs,
         \/ RecoverPatchReady(w, r) \/ TerminalizeExhausted(w, r)
         \/ ClaimRun(w, r)
  PROVE  AbstractStep
<1> USE QueueAssumption DEF RunRow, RunStatus, NoLease, NotCreated
<1>0. run[r] \in RunRow /\ RowInv(run[r], patch[r]) /\ TypeOK
  BY RowsInvByRow DEF QueueInv, RowsInv, TypeOK
<1>a. UNCHANGED patch
  BY DEF RecoverPatchReady, TerminalizeExhausted, ClaimRun
<1>b. UNCHANGED Built
  BY <1>a, PatchLifecycle
<1>c. Status[r] = run[r].status /\ Attempts[r] = run[r].attempt
  BY DEF Status, Attempts
<1>d. \A n \in Nat : n + 1 \in Nat
  OBVIOUS
<1>1. CASE RecoverPatchReady(w, r)
  <2> DEFINE row == [run[r] EXCEPT !.epoch = @ + 1, !.lease = LeaseTicks]
  <2>1. /\ row \in RunRow /\ row.status = run[r].status
        /\ row.attempt = run[r].attempt
    BY <1>0, <1>d
  <2>2. SetRun(r, row)
    BY <1>1 DEF RecoverPatchReady
  <2> HIDE DEF row
  <2> QED
    BY <1>0, <1>b, <2>1, <2>2, SetRunLifecycle, SameStatus DEF AbstractStep
<1>2. CASE TerminalizeExhausted(w, r)
  <2> DEFINE row == [run[r] EXCEPT !.status = "failed", !.lease = NoLease,
                                   !.error = "final"]
  <2>1. row \in RunRow /\ row.status = "failed" /\ row.attempt = run[r].attempt
    BY <1>0
  <2>2. SetRun(r, row)
    BY <1>2 DEF TerminalizeExhausted, Finish
  <2> HIDE DEF row
  <2>3. Status' = [Status EXCEPT ![r] = "failed"] /\ UNCHANGED Attempts
    BY <1>0, <2>1, <2>2, SetRunLifecycle, SameStatus
  <2>4. /\ run[r].attempt = MaxAttempts
        /\ run[r].status \in {"running", "patch_ready"}
    BY <1>0, <1>2 DEF TerminalizeExhausted, Exhausted, Leased, RowInv
  <2>5. Lifecycle!Poison(r)
    BY <1>b, <1>c, <2>3, <2>4
    DEF Lifecycle!Poison, Lifecycle!Move, Status, Attempts, Built
  <2> QED
    BY <2>5 DEF AbstractStep, Lifecycle!LifecycleNext
<1>3. CASE ClaimRun(w, r)
  <2> DEFINE row == [run[r] EXCEPT !.status = "running", !.attempt = @ + 1,
                                   !.epoch = @ + 1, !.lease = LeaseTicks]
  <2>1. /\ row \in RunRow /\ row.status = "running"
        /\ row.attempt = run[r].attempt + 1
    BY <1>0, <1>d
  <2>2. /\ SetRun(r, row) /\ run[r].attempt < MaxAttempts
        /\ run[r].status \in {"queued", "running"}
    BY <1>3 DEF ClaimRun, Claimable
  <2> HIDE DEF row
  <2>3. /\ Status' = [Status EXCEPT ![r] = "running"]
        /\ Attempts' = [Attempts EXCEPT ![r] = run[r].attempt + 1]
    BY <1>0, <2>1, <2>2, SetRunLifecycle
  <2>4. Lifecycle!Attempt(r)
    BY <1>b, <1>c, <2>2, <2>3
    DEF Lifecycle!Attempt, Lifecycle!Move, Status, Attempts, Built
  <2> QED
    BY <2>4 DEF AbstractStep, Lifecycle!LifecycleNext
<1> QED
  BY <1>1, <1>2, <1>3

LEMMA ProcessLifecycle ==
  ASSUME QueueInv, NEW w \in Workers,
         \/ FinalizeCancelled(w) \/ FailRun(w) \/ CompleteRun(w)
         \/ PersistPatch(w) \/ RenewLease(w)
  PROVE  AbstractStep
<1> DEFINE r == worker[w].run
<1> USE QueueAssumption DEF NoLease, NotCreated
<1>0. TypeOK /\ r \in Runs /\ worker[w] \in WorkerState
  BY FencedRun DEF FinalizeCancelled, FailRun, PersistPatch, CompleteRun,
                   RenewLease, QueueInv, TypeOK
<1>1. run[r] \in RunRow
  BY <1>0 DEF TypeOK
<1>c. Status[r] = run[r].status /\ Attempts[r] = run[r].attempt
  BY <1>0 DEF Status, Attempts
<1>2. CASE FinalizeCancelled(w) \/ FailRun(w) \/ CompleteRun(w)
  <2>0. UNCHANGED Built
    BY <1>2, PatchLifecycle DEF FinalizeCancelled, FailRun, CompleteRun
  <2>1. ASSUME NEW status \in {"cancelled", "failed", "completed"},
               NEW error \in {"none", "retryable", "final"},
               Finish(r, status, error)
        PROVE  Status' = [Status EXCEPT ![r] = status] /\ UNCHANGED Attempts
    <3> DEFINE row == [run[r] EXCEPT !.status = status, !.lease = NoLease,
                                     !.error = error]
    <3>1. row \in RunRow /\ row.status = status /\ row.attempt = run[r].attempt
      BY <1>1 DEF RunRow, RunStatus
    <3>2. SetRun(r, row)
      BY <2>1 DEF Finish
    <3> HIDE DEF row, r
    <3> QED
      BY <1>0, <3>1, <3>2, SetRunLifecycle, SameStatus
  <2>2. run[r].error \in {"none", "retryable", "final"}
    BY <1>1 DEF RunRow
  <2>3. PersistedError(w) \in {"none", "retryable", "final"}
    BY DEF PersistedError
  <2>4. CASE FinalizeCancelled(w)
    <3>1. Status[r] = "running"
      BY <1>c, <2>4 DEF FinalizeCancelled, Fenced
    <3>2. Lifecycle!Cancel(r)
      BY <2>0, <2>1, <2>2, <2>4, <3>1
      DEF FinalizeCancelled, Lifecycle!Cancel, Lifecycle!Move, Status,
          Attempts, Built
    <3> QED
      BY <1>0, <3>2 DEF AbstractStep, Lifecycle!LifecycleNext, Lifecycle!Cancel,
                      Lifecycle!Move, Status, Attempts, Built
  <2>5. CASE FailRun(w)
    <3>1. Status[r] = "running"
      BY <1>c, <2>5 DEF FailRun, Fenced
    <3>2. Lifecycle!Fail(r)
      BY <2>0, <2>1, <2>3, <2>5, <3>1
      DEF FailRun, Lifecycle!Fail, Lifecycle!Move, Status, Attempts, Built
    <3> QED
      BY <1>0, <3>2 DEF AbstractStep, Lifecycle!LifecycleNext, Lifecycle!Fail,
                      Lifecycle!Move, Status, Attempts, Built
  <2>6. CASE CompleteRun(w)
    <3>1. Status[r] = "patch_ready"
      BY <1>c, <2>6 DEF CompleteRun, Fenced
    <3>2. Lifecycle!Complete(r)
      BY <2>0, <2>1, <2>2, <2>6, <3>1
      DEF CompleteRun, Lifecycle!Complete, Lifecycle!Move, Status, Attempts,
          Built
    <3> QED
      BY <1>0, <3>2 DEF AbstractStep, Lifecycle!LifecycleNext, Lifecycle!Complete,
                      Lifecycle!Move, Status, Attempts, Built
  <2> QED
    BY <1>2, <2>4, <2>5, <2>6
<1>3. CASE PersistPatch(w)
  <2> DEFINE row == [run[r] EXCEPT !.status = "patch_ready"]
  <2>1. /\ row \in RunRow /\ row.status = "patch_ready"
        /\ row.attempt = run[r].attempt
    BY <1>1 DEF RunRow, RunStatus
  <2>2. SetRun(r, row) /\ Status[r] = "running"
    BY <1>3, <1>c DEF PersistPatch, Fenced
  <2>3. Len(worker[w].outputs) = NumStages /\ worker[w].outputs # NoPatch
    BY <1>0, <1>3 DEF PersistPatch, QueueInv, PlanPosition, NoPatch
  <2>4. patch' = [patch EXCEPT ![r] = IF @ = NoPatch THEN worker[w].outputs
                                                     ELSE @]
    BY <1>3 DEF PersistPatch
  <2>5. Built' = [Built EXCEPT ![r] = TRUE]
    BY <1>0, <2>3, <2>4 DEF Built, TypeOK
  <2> HIDE DEF row, r
  <2>6. Status' = [Status EXCEPT ![r] = "patch_ready"] /\ UNCHANGED Attempts
    BY <1>0, <2>1, <2>2, SetRunLifecycle, SameStatus
  <2>7. Lifecycle!Build(r)
    BY <2>2, <2>5, <2>6
    DEF Lifecycle!Build, Lifecycle!Move, Status, Attempts, Built
  <2> QED
    BY <1>0, <2>7 DEF AbstractStep, Lifecycle!LifecycleNext, Lifecycle!Build,
                      Lifecycle!Move, Status, Attempts, Built
<1>4. CASE RenewLease(w)
  <2> DEFINE row == [run[r] EXCEPT !.lease = LeaseTicks]
  <2>1. /\ row \in RunRow /\ row.status = run[r].status
        /\ row.attempt = run[r].attempt
    BY <1>1 DEF RunRow
  <2>2. SetRun(r, row) /\ UNCHANGED patch
    BY <1>4 DEF RenewLease
  <2> HIDE DEF row, r
  <2> QED
    BY <1>0, <2>1, <2>2, PatchLifecycle, SetRunLifecycle, SameStatus
    DEF AbstractStep
<1> QED
  BY <1>2, <1>3, <1>4

LEMMA LifecycleStep ==
  ASSUME QueueInv, [Next]_vars
  PROVE  AbstractStep
<1>0. UNCHANGED <<run, patch>> => AbstractStep
  BY RunLifecycleStutter DEF AbstractStep
<1>1. ASSUME NEW r \in Runs, Client(r) \/ TimePasses(r) PROVE AbstractStep
  BY <1>1, ClientLifecycle
<1>2. ASSUME NEW w \in Workers,
             WorkerStep(w) \/ ReportProgress(w) \/ RenewLease(w) \/ Crash(w)
               \/ SkipLocked(w)
      PROVE  AbstractStep
  <2>1. CASE Private(w)
    BY <1>0, <2>1, PrivateFrame
  <2>2. CASE BeginStage(w) \/ CompleteStage(w) \/ ReportProgress(w)
    BY <1>0, <2>2 DEF BeginStage, CompleteStage, ReportProgress
  <2> QED
    BY <1>2, <2>1, <2>2, ScanLifecycle, ProcessLifecycle
    DEF WorkerStep, Scan, Process, Private
<1>3. CASE UNCHANGED vars
  BY <1>0, <1>3 DEF vars
<1> QED
  BY <1>1, <1>2, <1>3 DEF Next

LEMMA LifecycleInitially == Init => Lifecycle!LifecycleInit
<1> SUFFICES ASSUME Init PROVE Lifecycle!LifecycleInit
  OBVIOUS
<1>1. \A r \in Runs : run[r].status = "not_created" /\ run[r].attempt = 0
  BY DEF Init, NotCreated
<1>2. \A r \in Runs : (patch[r] # NoPatch) = FALSE
  BY DEF Init
<1> QED
  BY <1>1, <1>2 DEF Lifecycle!LifecycleInit

\* With all its workers, leases, crashes and retries, the queue shows each run
\* only the moves of the job state machine: RunLifecycle is implemented.
THEOREM QueueImplementsLifecycle == Spec => ImplementsLifecycle
<1>1. Init => Lifecycle!LifecycleInit
  BY LifecycleInitially
<1>2. QueueInv /\ [Next]_vars
        => [Lifecycle!LifecycleNext]_(Lifecycle!lifecycleVars)
  BY LifecycleStep
  DEF AbstractStep, Lifecycle!lifecycleVars, Status, Attempts, Built
<1> QED
  BY <1>1, <1>2, QueueInvariant, PTL
  DEF Spec, ImplementsLifecycle, Lifecycle!LifecycleSpec

==============================================================================
