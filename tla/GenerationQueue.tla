--------------------------- MODULE GenerationQueue ---------------------------
(***************************************************************************)
(* The durable generation queue: the run table, the stage checkpoints, the *)
(* candidate patches and the per-run event rows kept in PostgreSQL, the    *)
(* worker processes that claim and execute runs under a fenced lease, and  *)
(* the HTTP requests that create, cancel and retry a run.                  *)
(*                                                                         *)
(* One action is one database transaction, or one step of a worker between *)
(* two transactions.  A transaction that finds its lease lost rolls back,  *)
(* so it changes only the worker (LoseLease).                              *)
(***************************************************************************)
EXTENDS Integers, Sequences

CONSTANTS
  Runs,         \* identifiers of GenerationRun rows
  Workers,      \* worker processes
  MaxAttempts,  \* GenerationRun.max_attempts
  NumStages,    \* length of the run's stage plan
  LeaseTicks,   \* a granted lease lasts this many ticks of the clock
  MaxFaults,    \* bound: crashes, and leases that expire under their holder
  NoRun         \* the run of a worker that holds no lease

ASSUME QueueAssumption ==
  /\ MaxAttempts \in Nat \ {0}
  /\ NumStages \in Nat \ {0}
  /\ LeaseTicks \in Nat \ {0}
  /\ MaxFaults \in Nat
  /\ NoRun \notin Runs

VARIABLES
  run,      \* GenerationRun rows
  stages,   \* GenerationStage rows of each run
  patch,    \* GraphPatch row of each run: the outputs it was built from
  events,   \* GenerationEvent rows of each run, in run_sequence order
  worker,   \* the memory of each worker process
  faults    \* faults taken so far, at most MaxFaults

vars == <<run, stages, patch, events, worker, faults>>

------------------------------------------------------------------------------
(* Rows.                                                                   *)

NotCreated == "not_created"
RunStatus == {NotCreated, "queued", "running", "patch_ready",
              "completed", "failed", "cancelled"}
Leased == {"running", "patch_ready"}
Terminal == {"completed", "failed", "cancelled"}

\* lease: NoLease when the four lease columns are null, otherwise the ticks
\* left until lease_expires_at (0: the deadline has passed).  The triple
\* (worker_id, lease_token, lease_epoch) is renewed only as a whole, with a
\* fresh uuid and epoch + 1, so the epoch alone stands for it.
NoLease == -1
RunRow == [status  : RunStatus,
           attempt : Nat,
           epoch   : Nat,
           lease   : {NoLease} \cup Nat,
           cancel  : BOOLEAN,
           error   : {"none", "retryable", "final"}]

\* A checkpoint is looked up by (run, name, input_hash); the hash covers the
\* outputs of the stages before it.  An output is named by the lease epoch
\* that produced it (0: none yet).
StageRow == [step    : 1..NumStages,
             input   : Seq(Nat),
             status  : {"running", "completed", "failed"},
             attempt : Nat,
             output  : Nat]

NoPatch == <<>>

RunEvents == {"run.started", "run.resumed", "run.retry_requested",
              "run.completed", "run.failed", "run.cancelled"}
TerminalEventTypes == {"run.completed", "run.failed", "run.cancelled"}
EventType == RunEvents \cup {"stage.started", "stage.progress", "patch.ready"}
EventRow == [type : EventType, attempt : Nat]

------------------------------------------------------------------------------
(* Workers.  pc names what the process does next.                          *)

Scanning == {"recover", "terminalize", "claim"}
InStage == {"check", "begin", "executing", "reused", "observe", "checkpoint"}
Processing == InStage \cup {"start", "failing", "persist", "complete"}
WorkerPc == {"down", "finishing"} \cup Scanning \cup Processing

WorkerState == [pc        : WorkerPc,
                run       : Runs \cup {NoRun},
                epoch     : Nat,        \* the lease it believes it holds
                outputs   : Seq(Nat),   \* prior_outputs
                result    : Nat,        \* result of the stage in progress
                begun     : BOOLEAN,    \* checkpoint is not None
                retryable : BOOLEAN]    \* error.retryable, when failing

\* A worker with nothing executed yet, under the lease on r with this epoch;
\* and one that holds no lease.
Leasing(pc, r, epoch) ==
  [pc |-> pc, run |-> r, epoch |-> epoch, outputs |-> <<>>,
   result |-> 0, begun |-> FALSE, retryable |-> FALSE]

Fresh(pc) == Leasing(pc, NoRun, 0)

SetRun(r, row) == run' = [run EXCEPT ![r] = row]
SetWorker(w, state) == worker' = [worker EXCEPT ![w] = state]

Goto(w, pc) == SetWorker(w, [worker[w] EXCEPT !.pc = pc])
Release(w, pc) == SetWorker(w, Fresh(pc))

Init ==
  /\ run = [r \in Runs |-> [status |-> NotCreated, attempt |-> 0, epoch |-> 0,
                            lease |-> NoLease, cancel |-> FALSE,
                            error |-> "none"]]
  /\ stages = [r \in Runs |-> {}]
  /\ patch = [r \in Runs |-> NoPatch]
  /\ events = [r \in Runs |-> <<>>]
  /\ worker = [w \in Workers |-> Fresh("recover")]
  /\ faults = 0

------------------------------------------------------------------------------
(* Events: append_event_locked, without and with terminal_once.            *)

AppendEvent(r, type, n) ==
  events' = [events EXCEPT ![r] = Append(@, [type |-> type, attempt |-> n])]

TerminalRecorded(r, n) ==
  \E i \in DOMAIN events[r] : /\ events[r][i].type \in TerminalEventTypes
                              /\ events[r][i].attempt = n

\* Seeded fault: terminal_once is not passed.
AppendRepeatedOutcome(r, type) == AppendEvent(r, type, run[r].attempt)

AppendTerminalEvent(r, type) ==
  IF TerminalRecorded(r, run[r].attempt)
    THEN UNCHANGED events
    ELSE AppendEvent(r, type, run[r].attempt)

\* Seeded fault: the lease columns are left out of update_fields.
FinishKeepingLease(r, status, error) ==
  SetRun(r, [run[r] EXCEPT !.status = status, !.error = error])

\* The run leaves the queue: every terminal write clears the lease columns.
Finish(r, status, error) ==
  SetRun(r, [run[r] EXCEPT !.status = status, !.lease = NoLease,
                           !.error = error])

------------------------------------------------------------------------------
(* HTTP requests.                                                          *)

CreateRun(r) ==
  /\ run[r].status = NotCreated
  /\ SetRun(r, [run[r] EXCEPT !.status = "queued"])
  /\ UNCHANGED <<stages, patch, events, worker, faults>>

CancelQueued(r) ==
  /\ run[r].status = "queued"
  /\ SetRun(r, [run[r] EXCEPT !.status = "cancelled", !.cancel = TRUE])
  /\ AppendTerminalEvent(r, "run.cancelled")
  /\ UNCHANGED <<stages, patch, worker, faults>>

CancelRunning(r) ==
  /\ run[r].status = "running"
  /\ ~run[r].cancel
  /\ SetRun(r, [run[r] EXCEPT !.cancel = TRUE])
  /\ UNCHANGED <<stages, patch, events, worker, faults>>

RetryRun(r) ==
  /\ run[r].status = "failed"
  /\ run[r].error = "retryable"
  /\ run[r].lease = NoLease
  /\ run[r].attempt < MaxAttempts
  /\ SetRun(r, [run[r] EXCEPT !.status = "queued", !.cancel = FALSE,
                              !.error = "none"])
  /\ AppendEvent(r, "run.retry_requested", run[r].attempt)
  /\ UNCHANGED <<stages, patch, worker, faults>>

------------------------------------------------------------------------------
(* claim_run: three scans, each a loop of transactions over eligible rows. *)
(* skip_locked lets a scan take any eligible row, not only the oldest.     *)

Expired(r) == run[r].lease = 0

Recoverable(r) ==
  /\ run[r].status = "patch_ready"
  /\ Expired(r)
  /\ patch[r] # NoPatch

Exhausted(r) ==
  /\ run[r].attempt >= MaxAttempts
  /\ \/ run[r].status = "queued"
     \/ run[r].status \in Leased /\ Expired(r)

\* Seeded faults: claim_run forgets max_attempts; it forgets expired leases.
ClaimableForever(r) ==
  \/ run[r].status = "queued"
  \/ run[r].status = "running" /\ Expired(r)

ClaimableQueued(r) == run[r].attempt < MaxAttempts /\ run[r].status = "queued"

Claimable(r) ==
  /\ run[r].attempt < MaxAttempts
  /\ \/ run[r].status = "queued"
     \/ run[r].status = "running" /\ Expired(r)

TakeLease(w, r, pc) ==
  SetWorker(w, Leasing(pc, r, run[r].epoch + 1))

RecoverPatchReady(w, r) ==
  /\ worker[w].pc = "recover"
  /\ Recoverable(r)
  /\ SetRun(r, [run[r] EXCEPT !.epoch = @ + 1, !.lease = LeaseTicks])
  /\ TakeLease(w, r, "finishing")
  /\ UNCHANGED <<stages, patch, events, faults>>

TerminalizeExhausted(w, r) ==
  /\ worker[w].pc = "terminalize"
  /\ Exhausted(r)
  /\ Finish(r, "failed", "final")
  /\ AppendTerminalEvent(r, "run.failed")
  /\ UNCHANGED <<stages, patch, worker, faults>>

ClaimRun(w, r) ==
  /\ worker[w].pc = "claim"
  /\ Claimable(r)
  /\ SetRun(r, [run[r] EXCEPT !.status = "running", !.attempt = @ + 1,
                              !.epoch = @ + 1, !.lease = LeaseTicks])
  /\ TakeLease(w, r, "start")
  /\ AppendEvent(r, IF run[r].status = "running" \/ run[r].attempt > 0
                      THEN "run.resumed" ELSE "run.started",
                 run[r].attempt + 1)
  /\ UNCHANGED <<stages, patch, faults>>

\* The rows that the scan at hand looks for.
Due(w) ==
  {r \in Runs : \/ worker[w].pc = "recover" /\ Recoverable(r)
                \/ worker[w].pc = "terminalize" /\ Exhausted(r)
                \/ worker[w].pc = "claim" /\ Claimable(r)}

\* After the last scan the worker sleeps for the poll interval and starts over.
NextScan(w) ==
  \/ worker[w].pc = "recover" /\ Goto(w, "terminalize")
  \/ worker[w].pc = "terminalize" /\ Goto(w, "claim")
  \/ worker[w].pc = "claim" /\ Goto(w, "recover")

\* A scan that finds no row moves on.
ScanDone(w) ==
  /\ Due(w) = {}
  /\ NextScan(w)
  /\ UNCHANGED <<run, stages, patch, events, faults>>

\* So does one that passes over rows which other transactions have locked
\* (skip_locked).  That all of them are locked at that instant is a fault.
SkipLocked(w) ==
  /\ Due(w) # {}
  /\ faults < MaxFaults
  /\ faults' = faults + 1
  /\ NextScan(w)
  /\ UNCHANGED <<run, stages, patch, events>>

------------------------------------------------------------------------------
(* The fence.                                                              *)

\* Seeded fault: rows are matched by primary key alone.
NamesRun(w) == worker[w].run # NoRun

HoldsLease(w) == /\ worker[w].run # NoRun
                 /\ run[worker[w].run].epoch = worker[w].epoch

LiveLease(r) == run[r].lease > 0

\* lock_fenced_run(lease, statuses), with the live lease every caller asks for
Fenced(w, statuses) ==
  /\ HoldsLease(w)
  /\ run[worker[w].run].status \in statuses
  /\ LiveLease(worker[w].run)

FenceStatuses(pc) ==
  IF pc \in {"finishing", "complete"} THEN {"patch_ready"} ELSE {"running"}

\* LeaseLostError.  process_claimed_run returns to the worker loop, except
\* from its first transaction; that one and the recovery of claim_run let
\* the exception end the process.
LoseLease(w) ==
  /\ worker[w].pc \in {"finishing"} \cup (Processing \ {"reused"})
  /\ ~Fenced(w, FenceStatuses(worker[w].pc))
  /\ Release(w, IF worker[w].pc \in {"finishing", "start"}
                  THEN "down" ELSE "recover")
  /\ UNCHANGED <<run, stages, patch, events, faults>>

\* Seeded fault: the heartbeat does not ask for lease_expires_at > now().
RenewExpiredLease(w) ==
  /\ worker[w].pc \in Processing
  /\ HoldsLease(w)
  /\ run[worker[w].run].status = "running"
  /\ SetRun(worker[w].run, [run[worker[w].run] EXCEPT !.lease = LeaseTicks])
  /\ UNCHANGED <<stages, patch, events, worker, faults>>

\* LeaseKeeper: the heartbeat thread beside process_claimed_run.
RenewLease(w) ==
  /\ worker[w].pc \in Processing
  /\ Fenced(w, {"running"})
  /\ run[worker[w].run].lease < LeaseTicks
  /\ SetRun(worker[w].run, [run[worker[w].run] EXCEPT !.lease = LeaseTicks])
  /\ UNCHANGED <<stages, patch, events, worker, faults>>

------------------------------------------------------------------------------
(* process_claimed_run.                                                    *)

StartRun(w) ==
  /\ worker[w].pc = "start"
  /\ Fenced(w, {"running"})
  /\ Goto(w, "check")
  /\ UNCHANGED <<run, stages, patch, events, faults>>

Step(w) == Len(worker[w].outputs) + 1

\* the checkpoint rows of the stage in progress: same name, same input_hash
Checkpoint(w) ==
  {s \in stages[worker[w].run] : /\ s.step = Step(w)
                                 /\ s.input = worker[w].outputs}

Rewrite(w, old, new) ==
  stages' = [stages EXCEPT ![worker[w].run] = (@ \ old) \cup new]

\* _finalize_cancelled_run and _fail_run mark the stage in progress failed
FailStage(w) ==
  LET active == {s \in Checkpoint(w) : s.status = "running"}
  IN  IF worker[w].begun
        THEN Rewrite(w, active, {[s EXCEPT !.status = "failed"] : s \in active})
        ELSE UNCHANGED stages

\* _cancel_if_requested, before a stage begins and when its result is valid,
\* and the same read under the lock of the finalization
FinalizeCancelled(w) ==
  /\ worker[w].pc \in {"check", "observe", "persist"}
  /\ Fenced(w, {"running"})
  /\ run[worker[w].run].cancel
  /\ Finish(worker[w].run, "cancelled", run[worker[w].run].error)
  /\ FailStage(w)
  /\ AppendTerminalEvent(worker[w].run, "run.cancelled")
  /\ Release(w, "recover")
  /\ UNCHANGED <<patch, faults>>

ContinueUncancelled(w) ==
  /\ worker[w].pc \in {"check", "observe"}
  /\ Fenced(w, {"running"})
  /\ ~run[worker[w].run].cancel
  /\ Goto(w, IF worker[w].pc = "check" THEN "begin" ELSE "checkpoint")
  /\ UNCHANGED <<run, stages, patch, events, faults>>

\* Seeded fault: the completed stage is run again for the worker's own use.
RecomputeStage(w) ==
  /\ worker[w].pc = "begin"
  /\ Fenced(w, {"running"})
  /\ \E s \in Checkpoint(w) : s.status = "completed"
  /\ SetWorker(w, [worker[w] EXCEPT !.pc = "reused", !.begun = TRUE,
                                    !.result = worker[w].epoch])
  /\ UNCHANGED <<run, stages, patch, events, faults>>

\* _begin_stage: a completed checkpoint is reused, any other is started over
ReuseStage(w) ==
  /\ worker[w].pc = "begin"
  /\ Fenced(w, {"running"})
  /\ \E s \in Checkpoint(w) :
       /\ s.status = "completed"
       /\ SetWorker(w, [worker[w] EXCEPT !.pc = "reused", !.begun = TRUE,
                                         !.result = s.output])
  /\ UNCHANGED <<run, stages, patch, events, faults>>

\* The row a new or restarted stage gets.
StartedRow(w) ==
  [step    |-> Step(w),
   input   |-> worker[w].outputs,
   status  |-> "running",
   attempt |-> IF Checkpoint(w) = {} THEN 1
               ELSE (CHOOSE s \in Checkpoint(w) : TRUE).attempt + 1,
   output  |-> 0]

\* Seeded fault: the lookup of a completed checkpoint is skipped.
RestartStage(w) ==
  /\ worker[w].pc = "begin"
  /\ Fenced(w, {"running"})
  /\ Rewrite(w, Checkpoint(w), {StartedRow(w)})
  /\ AppendEvent(worker[w].run, "stage.started", run[worker[w].run].attempt)
  /\ SetWorker(w, [worker[w] EXCEPT !.pc = "executing", !.begun = TRUE])
  /\ UNCHANGED <<run, patch, faults>>

BeginStage(w) ==
  /\ worker[w].pc = "begin"
  /\ Fenced(w, {"running"})
  /\ \A s \in Checkpoint(w) : s.status # "completed"
  /\ Rewrite(w, Checkpoint(w), {StartedRow(w)})
  /\ AppendEvent(worker[w].run, "stage.started", run[worker[w].run].attempt)
  /\ SetWorker(w, [worker[w] EXCEPT !.pc = "executing", !.begun = TRUE])
  /\ UNCHANGED <<run, patch, faults>>

\* Seeded fault: progress is appended without locking the fenced run.
ReportUnfencedProgress(w) ==
  /\ worker[w].pc = "executing"
  /\ AppendEvent(worker[w].run, "stage.progress", run[worker[w].run].attempt)
  /\ Len(events[worker[w].run]) < 8
  /\ UNCHANGED <<run, stages, patch, worker, faults>>

\* _append_progress_event, the executor's callback; bound: while the stage's
\* own stage.started is the newest event, so at most one per execution
ReportProgress(w) ==
  /\ worker[w].pc = "executing"
  /\ Fenced(w, {"running"})
  /\ LET log == events[worker[w].run]
     IN  log # <<>> /\ log[Len(log)].type = "stage.started"
  /\ AppendEvent(worker[w].run, "stage.progress", run[worker[w].run].attempt)
  /\ UNCHANGED <<run, stages, patch, worker, faults>>

\* executor.execute returns and the output validates; no transaction is open
ExecuteStage(w) ==
  /\ worker[w].pc = "executing"
  /\ SetWorker(w, [worker[w] EXCEPT !.pc = "observe",
                                    !.result = worker[w].epoch])
  /\ UNCHANGED <<run, stages, patch, events, faults>>

AdvanceTo(w) == IF Step(w) = NumStages THEN "persist" ELSE "check"

NextStage(w) ==
  SetWorker(w, [worker[w] EXCEPT !.pc = AdvanceTo(w), !.begun = FALSE,
                                 !.outputs = Append(@, worker[w].result),
                                 !.result = 0])

AcceptReused(w) ==
  /\ worker[w].pc = "reused"
  /\ NextStage(w)
  /\ UNCHANGED <<run, stages, patch, events, faults>>

CompleteStage(w) ==
  /\ worker[w].pc = "checkpoint"
  /\ Fenced(w, {"running"})
  /\ \E s \in Checkpoint(w) :
       /\ s.status = "running"
       /\ Rewrite(w, {s}, {[s EXCEPT !.status = "completed",
                                     !.output = worker[w].result]})
  /\ AppendEvent(worker[w].run, "stage.progress", run[worker[w].run].attempt)
  /\ NextStage(w)
  /\ UNCHANGED <<run, patch, faults>>

\* An exception inside the stage loop.  Only the executor and the validator
\* raise a StageExecutionError; everything else is recorded as retryable.
StageRaises(w) ==
  /\ worker[w].pc \in InStage
  /\ \E retryable \in (IF worker[w].pc \in {"executing", "reused"}
                         THEN BOOLEAN ELSE {TRUE}) :
       SetWorker(w, [worker[w] EXCEPT !.pc = "failing",
                                      !.retryable = retryable])
  /\ UNCHANGED <<run, stages, patch, events, faults>>

\* the final output is missing, malformed or for another canvas revision
RejectPatchOutput(w) ==
  /\ worker[w].pc = "persist"
  /\ SetWorker(w, [worker[w] EXCEPT !.pc = "failing", !.retryable = FALSE])
  /\ UNCHANGED <<run, stages, patch, events, faults>>

PersistedError(w) ==
  IF worker[w].retryable /\ run[worker[w].run].attempt < MaxAttempts
    THEN "retryable" ELSE "final"

FailRun(w) ==
  /\ worker[w].pc = "failing"
  /\ Fenced(w, {"running"})
  /\ Finish(worker[w].run, "failed", PersistedError(w))
  /\ FailStage(w)
  /\ AppendTerminalEvent(worker[w].run, "run.failed")
  /\ Release(w, "recover")
  /\ UNCHANGED <<patch, faults>>

\* Seeded fault: cancel_requested_at is not read again under the lock.
PersistDespiteCancel(w) ==
  LET r == worker[w].run IN
  /\ worker[w].pc = "persist"
  /\ Fenced(w, {"running"})
  /\ patch' = [patch EXCEPT ![r] = IF @ = NoPatch THEN worker[w].outputs ELSE @]
  /\ SetRun(r, [run[r] EXCEPT !.status = "patch_ready"])
  /\ AppendEvent(r, "patch.ready", run[r].attempt)
  /\ Goto(w, "complete")
  /\ UNCHANGED <<stages, faults>>

\* _persist_patch_then_complete, first transaction
PersistPatch(w) ==
  LET r == worker[w].run IN
  /\ worker[w].pc = "persist"
  /\ Fenced(w, {"running"})
  /\ ~run[r].cancel
  /\ patch' = [patch EXCEPT ![r] = IF @ = NoPatch THEN worker[w].outputs ELSE @]
  /\ SetRun(r, [run[r] EXCEPT !.status = "patch_ready"])
  /\ AppendEvent(r, "patch.ready", run[r].attempt)
  /\ Goto(w, "complete")
  /\ UNCHANGED <<stages, faults>>

\* _persist_patch_then_complete, second transaction, and the same write by
\* finalize_expired_patch_ready_runs under its recovery lease
CompleteRun(w) ==
  /\ worker[w].pc \in {"complete", "finishing"}
  /\ Fenced(w, {"patch_ready"})
  /\ Finish(worker[w].run, "completed", run[worker[w].run].error)
  /\ AppendTerminalEvent(worker[w].run, "run.completed")
  /\ Release(w, "recover")
  /\ UNCHANGED <<stages, patch, faults>>

------------------------------------------------------------------------------
(* The environment.                                                        *)

\* The process dies, is killed, or exits to be recycled; what it had not
\* committed is gone.  The supervisor starts it again.
Crash(w) ==
  /\ worker[w].pc # "down"
  /\ faults < MaxFaults
  /\ faults' = faults + 1
  /\ Release(w, "down")
  /\ UNCHANGED <<run, stages, patch, events>>

Restart(w) ==
  /\ worker[w].pc = "down"
  /\ Release(w, "recover")
  /\ UNCHANGED <<run, stages, patch, events, faults>>

\* The clock approaches the deadline of r's lease.  Expiring under the
\* worker that holds it (a stalled process or heartbeat) counts as a fault.
Held(r) == \E w \in Workers : worker[w].run = r /\ HoldsLease(w)

TimePasses(r) ==
  /\ run[r].lease > 0
  /\ SetRun(r, [run[r] EXCEPT !.lease = @ - 1])
  /\ IF run[r].lease = 1 /\ Held(r)
       THEN faults < MaxFaults /\ faults' = faults + 1
       ELSE UNCHANGED faults
  /\ UNCHANGED <<stages, patch, events, worker>>

------------------------------------------------------------------------------
Client(r) == CreateRun(r) \/ CancelQueued(r) \/ CancelRunning(r) \/ RetryRun(r)

Scan(w) ==
  \/ \E r \in Runs : \/ RecoverPatchReady(w, r)
                     \/ TerminalizeExhausted(w, r)
                     \/ ClaimRun(w, r)
  \/ ScanDone(w)

Process(w) ==
  \/ StartRun(w) \/ FinalizeCancelled(w) \/ ContinueUncancelled(w)
  \/ ReuseStage(w) \/ BeginStage(w) \/ ExecuteStage(w)
  \/ AcceptReused(w) \/ CompleteStage(w) \/ StageRaises(w)
  \/ RejectPatchOutput(w) \/ FailRun(w) \/ PersistPatch(w) \/ CompleteRun(w)
  \/ LoseLease(w)

WorkerStep(w) == Scan(w) \/ Process(w) \/ Restart(w)

Next ==
  \/ \E r \in Runs : Client(r) \/ TimePasses(r)
  \/ \E w \in Workers : WorkerStep(w) \/ ReportProgress(w)
                        \/ RenewLease(w) \/ Crash(w) \/ SkipLocked(w)

Spec == Init /\ [][Next]_vars

\* The supervisor restarts a process that ended and a running process keeps
\* going; a lease that nobody renews runs out.
Fairness ==
  /\ \A w \in Workers : WF_vars(WorkerStep(w))
  /\ \A r \in Runs : WF_vars(~Held(r) /\ TimePasses(r))

FairSpec == Spec /\ Fairness

------------------------------------------------------------------------------
TypeOK ==
  /\ run \in [Runs -> RunRow]
  /\ stages \in [Runs -> SUBSET StageRow]
  /\ patch \in [Runs -> Seq(Nat)]
  /\ events \in [Runs -> Seq(EventRow)]
  /\ worker \in [Workers -> WorkerState]
  /\ faults \in Nat

------------------------------------------------------------------------------
(* Properties.                                                             *)

\* However often a run changes hands (claim, takeover, recovery of an
\* expired patch_ready run), at most one process passes lock_fenced_run for
\* it: a worker that lost its lease cannot write beside its successor.
SingleWriter ==
  \A v, w \in Workers :
    /\ Fenced(v, Leased)
    /\ Fenced(w, Leased)
    /\ worker[v].run = worker[w].run
    => v = w

\* A lease is present exactly while the run is running or patch_ready
\* (ck_run_lease_state), whichever of the eight writes moved the run there.
LeaseMatchesStatus ==
  \A r \in Runs : run[r].status \in Leased <=> run[r].lease # NoLease

\* Every lease a worker remembers was granted: its epoch is not ahead of the
\* run's, and no two workers ever remember the same grant.
GrantsAreDistinct ==
  \A w \in Workers : worker[w].run # NoRun =>
    /\ worker[w].epoch <= run[worker[w].run].epoch
    /\ \A v \in Workers \ {w} :
         worker[v].run = worker[w].run => worker[v].epoch # worker[w].epoch

\* A patch exists only for a run that is past execution, and a run that
\* failed with a patch cannot be retried.
PatchEndsExecution ==
  \A r \in Runs : patch[r] # NoPatch =>
    \/ run[r].status \in {"patch_ready", "completed"}
    \/ run[r].status = "failed" /\ run[r].error = "final"

\* A queued run, and one still to be created, always has an attempt left.
AttemptBudget ==
  \A r \in Runs :
    /\ run[r].attempt <= MaxAttempts
    /\ run[r].status \in {NotCreated, "queued"} => run[r].attempt < MaxAttempts

\* A worker has one output for each stage before the one it is in, and for
\* the whole stage plan when it builds the patch.
PlanPosition ==
  \A w \in Workers :
    /\ worker[w].pc = "start" => worker[w].outputs = <<>>
    /\ worker[w].pc \in InStage => Len(worker[w].outputs) < NumStages
    /\ worker[w].pc = "persist" => Len(worker[w].outputs) = NumStages

\* A run changes hands only when its lease has expired, and an expired lease
\* is never revived: the heartbeat of a worker that was slow to renew cannot
\* bring back a lease that another worker may already be taking over.
TakeoverAfterExpiry ==
  [][\A r \in Runs :
       run[r].lease # NoLease =>
         /\ run'[r].epoch # run[r].epoch => run[r].lease = 0
         /\ run[r].lease = 0 /\ run'[r].epoch = run[r].epoch
              => run'[r].lease \in {0, NoLease}]_run

\* Attempts resume from the checkpoints: a completed stage keeps its output
\* through crashes, takeovers, failures and retries, and never runs again.
CheckpointsAreFinal ==
  [][\A r \in Runs : \A s \in stages[r] :
       s.status = "completed" => s \in stages'[r]]_stages

\* The k-th stage of r, completed once only, on the outputs of those before.
CompletedStage(r, k) ==
  {s \in stages[r] : s.step = k /\ s.status = "completed"}

\* The candidate patch is built from exactly one completed checkpoint per
\* stage, whichever attempts produced them: the worker that persists it
\* never mixes in an output of its own that another worker has replaced.
PatchFromCheckpoints ==
  \A r \in Runs : patch[r] # NoPatch =>
    /\ Len(patch[r]) = NumStages
    /\ \A k \in 1..NumStages :
         \A s \in stages[r] :
           s.step = k => /\ s.status = "completed"
                         /\ s.output = patch[r][k]
                         /\ s.input = SubSeq(patch[r], 1, k - 1)
    /\ \A k \in 1..NumStages : CompletedStage(r, k) # {}

\* A cancellation accepted while the run executes wins against the
\* finalization racing it: the run produces no patch and does not complete.
CancelPreventsPatch ==
  \A r \in Runs :
    run[r].cancel => /\ run[r].status \notin {"patch_ready", "completed"}
                     /\ patch[r] = NoPatch

\* A stream reader sees at most one outcome for each attempt, although the
\* worker, its successor, the exhaustion scan and a cancelling client may
\* all try to record one.
OneOutcomePerAttempt ==
  \A r \in Runs : \A i, j \in DOMAIN events[r] :
    /\ events[r][i].type \in TerminalEventTypes
    /\ events[r][j].type \in TerminalEventTypes
    /\ events[r][i].attempt = events[r][j].attempt
    => i = j

OutcomeEvent(status) ==
  CASE status = "completed" -> "run.completed"
    [] status = "failed" -> "run.failed"
    [] status = "cancelled" -> "run.cancelled"

EndsWithOutcome(r) ==
  /\ events[r] # <<>>
  /\ events[r][Len(events[r])] = [type |-> OutcomeEvent(run[r].status),
                                  attempt |-> run[r].attempt]

\* The log of a completed or failed run ends with its outcome: no stage or
\* progress event of a worker that lost its lease comes after it.
OutcomeClosesLog ==
  \A r \in Runs :
    run[r].status \in {"completed", "failed"} => EndsWithOutcome(r)

\* The inductive invariant: together these parts are preserved by every step.
QueueInv ==
  /\ TypeOK
  /\ LeaseMatchesStatus
  /\ GrantsAreDistinct
  /\ PatchEndsExecution
  /\ CancelPreventsPatch
  /\ AttemptBudget
  /\ PlanPosition
  /\ OneOutcomePerAttempt

\* What design.md 20.3 says of cancellation, "one run.cancelled event", read
\* for every cancelled run.  The code violates it: see the README.
CancelledEventRecorded ==
  \A r \in Runs : run[r].status = "cancelled" => EndsWithOutcome(r)

\* What design.md 15.2 says of patch_ready, "the run then becomes
\* completed": a run whose patch is durable does not fail.  The code
\* violates it: see the README.
DurablePatchCompletes ==
  \A r \in Runs : patch[r] # NoPatch => run[r].status # "failed"

\* The run table implements the job state machine of RunLifecycle.
Lifecycle == INSTANCE RunLifecycle WITH
  status  <- [r \in Runs |-> run[r].status],
  attempt <- [r \in Runs |-> run[r].attempt],
  built   <- [r \in Runs |-> patch[r] # NoPatch]

ImplementsLifecycle == Lifecycle!LifecycleSpec

\* Every run that was accepted reaches an outcome, whatever crashes: a dead
\* worker's lease runs out, its run is taken over, recovered or given up.
EveryRunSettles ==
  \A r \in Runs :
    run[r].status \in {"queued"} \cup Leased ~> run[r].status \in Terminal

==============================================================================
