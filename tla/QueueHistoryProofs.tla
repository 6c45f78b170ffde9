-------------------------- MODULE QueueHistoryProofs --------------------------
(***************************************************************************)
(* Proofs of what the rows of the queue say of its past: the event log of  *)
(* a run ends with its outcome, completed checkpoints stay, and a patch is *)
(* made of them.  The invariants build on QueueInv.                        *)
(***************************************************************************)
EXTENDS GenerationQueueProofs

------------------------------------------------------------------------------
(* The log of a run ends with its outcome.                                 *)

NoOutcome(log, n) ==
  \A i \in DOMAIN log : ~ /\ log[i].type \in TerminalEventTypes
                          /\ log[i].attempt = n

\* What a log says of its row: no event is of an attempt still to come, an
\* attempt that executes has no outcome yet, and one that ended has the last
\* event for its outcome.
LogFits(row, log) ==
  /\ \A i \in DOMAIN log : log[i].attempt <= row.attempt
  /\ row.status \in Leased => NoOutcome(log, row.attempt)
  /\ row.status \in {"completed", "failed"} =>
       /\ log # <<>>
       /\ log[Len(log)] = [type |-> OutcomeEvent(row.status),
                           attempt |-> row.attempt]

LogsFit == \A r \in Runs : LogFits(run[r], events[r])

\* The row changes alone, and neither starts nor ends an execution.
LEMMA SameLogFits ==
  ASSUME NEW row, NEW log, NEW next, LogFits(row, log),
         next.attempt = row.attempt,
         next.status \in Leased => row.status \in Leased,
         next.status \in {"completed", "failed"} => next.status = row.status
  PROVE  LogFits(next, log)
BY DEF LogFits

\* An event that is no outcome is appended, and the row has not ended.
LEMMA GrownLogFits ==
  ASSUME NEW row \in RunRow, NEW log \in Seq(EventRow), NEW next \in RunRow,
         NEW e \in EventRow, LogFits(row, log),
         e.type \notin TerminalEventTypes,
         e.attempt <= next.attempt, row.attempt <= next.attempt,
         next.status \notin {"completed", "failed"},
         next.status \in Leased =>
           \/ row.status \in Leased /\ next.attempt = row.attempt
           \/ row.attempt < next.attempt
  PROVE  LogFits(next, Append(log, e))
<1> DEFINE new == Append(log, e)
<1>1. Len(log) \in Nat /\ DOMAIN log = 1..Len(log)
  OBVIOUS
<1>2. DOMAIN new = 1..(Len(log) + 1) /\ new[Len(log) + 1] = e
  OBVIOUS
<1>3. \A i \in DOMAIN log : new[i] = log[i] /\ log[i] \in EventRow
  OBVIOUS
<1>4. \A i \in DOMAIN new : i \in DOMAIN log \/ new[i] = e
  BY <1>1, <1>2
<1> HIDE DEF new
<1>5. row.attempt \in Nat /\ next.attempt \in Nat
  BY DEF RunRow
<1>6. \A i \in DOMAIN log : log[i].attempt \in Nat
                            /\ log[i].attempt <= row.attempt
  BY <1>3 DEF LogFits, EventRow
<1>7. \A i \in DOMAIN new : new[i].attempt <= next.attempt
  BY <1>3, <1>4, <1>5, <1>6
<1>8. next.status \in Leased => NoOutcome(log, next.attempt)
  <2>1. CASE row.status \in Leased /\ next.attempt = row.attempt
    BY <2>1 DEF LogFits
  <2>2. CASE row.attempt < next.attempt
    <3>1. \A i \in DOMAIN log : log[i].attempt # next.attempt
      BY <1>5, <1>6, <2>2
    <3> QED
      BY <3>1 DEF NoOutcome
  <2> QED
    BY <2>1, <2>2
<1>9. next.status \in Leased => NoOutcome(new, next.attempt)
  BY <1>3, <1>4, <1>8 DEF NoOutcome
<1> QED
  BY <1>7, <1>9 DEF LogFits, new

\* The attempt ends, and its last event is the outcome.
LEMMA ClosedLogFits ==
  ASSUME NEW row \in RunRow, NEW log \in Seq(EventRow), NEW next,
         NEW e \in EventRow, LogFits(row, log),
         e.attempt = row.attempt, next.attempt = row.attempt,
         next.status \notin Leased,
         next.status \in {"completed", "failed"} =>
           e.type = OutcomeEvent(next.status)
  PROVE  LogFits(next, Append(log, e))
<1> DEFINE new == Append(log, e)
<1>1. Len(log) \in Nat /\ DOMAIN log = 1..Len(log)
  OBVIOUS
<1>2. /\ DOMAIN new = 1..(Len(log) + 1) /\ new[Len(log) + 1] = e
      /\ Len(new) = Len(log) + 1 /\ new # <<>>
  OBVIOUS
<1>3. \A i \in DOMAIN log : new[i] = log[i]
  OBVIOUS
<1>4. \A i \in DOMAIN new : i \in DOMAIN log \/ new[i] = e
  BY <1>1, <1>2
<1> HIDE DEF new
<1>5. row.attempt \in Nat
  BY DEF RunRow
<1>6. \A i \in DOMAIN new : new[i].attempt <= next.attempt
  BY <1>3, <1>4, <1>5 DEF LogFits
<1>7. next.status \in {"completed", "failed"} =>
        e = [type |-> OutcomeEvent(next.status), attempt |-> next.attempt]
  BY DEF EventRow
<1> QED
  BY <1>2, <1>6, <1>7 DEF LogFits, new

\* A step concerns one run; the logs fit when that run's does.
LEMMA OneLogMoves ==
  ASSUME LogsFit, NEW r \in Runs,
         \A q \in Runs \ {r} : run'[q] = run[q] /\ events'[q] = events[q],
         LogFits(run'[r], events'[r])
  PROVE  LogsFit'
<1>1. ASSUME NEW q \in Runs PROVE LogFits(run'[q], events'[q])
  <2>1. CASE q = r
    BY <2>1
  <2>2. CASE q # r
    <3>1. run'[q] = run[q] /\ events'[q] = events[q]
      BY <2>2
    <3>2. LogFits(run[q], events[q])
      BY DEF LogsFit
    <3> QED
      BY <3>1, <3>2
  <2> QED
    BY <2>1, <2>2
<1> QED
  BY <1>1 DEF LogsFit

LEMMA SetRunRow ==
  ASSUME TypeOK, NEW r \in Runs, NEW row, SetRun(r, row)
  PROVE  run'[r] = row /\ \A q \in Runs \ {r} : run'[q] = run[q]
BY DEF TypeOK, SetRun

LEMMA AppendEventLog ==
  ASSUME TypeOK, NEW r \in Runs, NEW type, NEW n, AppendEvent(r, type, n)
  PROVE  /\ events'[r] = Append(events[r], [type |-> type, attempt |-> n])
         /\ \A q \in Runs \ {r} : events'[q] = events[q]
BY DEF TypeOK, AppendEvent

\* A write that leaves the log alone.
LEMMA SilentStep ==
  ASSUME TypeOK, LogsFit, NEW r \in Runs, NEW row, SetRun(r, row),
         UNCHANGED events, row.attempt = run[r].attempt,
         row.status \in Leased => run[r].status \in Leased,
         row.status \in {"completed", "failed"} => row.status = run[r].status
  PROVE  LogsFit'
<1>1. run'[r] = row /\ \A q \in Runs \ {r} : run'[q] = run[q]
  BY SetRunRow
<1>2. LogFits(row, events[r])
  BY SameLogFits DEF LogsFit
<1>3. LogFits(run'[r], events'[r])
  BY <1>1, <1>2
<1> QED
  BY <1>1, <1>3, OneLogMoves

\* A write that appends an event other than an outcome.
LEMMA EventStep ==
  ASSUME TypeOK, TypeOK', LogsFit, NEW r \in Runs, NEW n \in Nat,
         NEW type \in EventType \ TerminalEventTypes,
         AppendEvent(r, type, n),
         \A q \in Runs \ {r} : run'[q] = run[q],
         n <= run'[r].attempt, run[r].attempt <= run'[r].attempt,
         run'[r].status \notin {"completed", "failed"},
         run'[r].status \in Leased =>
           \/ run[r].status \in Leased /\ run'[r].attempt = run[r].attempt
           \/ run[r].attempt < run'[r].attempt
  PROVE  LogsFit'
<1> DEFINE e == [type |-> type, attempt |-> n]
<1>1. /\ events'[r] = Append(events[r], e)
      /\ \A q \in Runs \ {r} : events'[q] = events[q]
  BY AppendEventLog
<1>2. e \in EventRow /\ e.type = type /\ e.attempt = n
  BY DEF EventRow
<1>3. /\ run[r] \in RunRow /\ run'[r] \in RunRow
      /\ events[r] \in Seq(EventRow) /\ LogFits(run[r], events[r])
  BY DEF TypeOK, LogsFit
<1> HIDE DEF e
<1>4. LogFits(run'[r], Append(events[r], e))
  BY <1>2, <1>3, GrownLogFits
<1> QED
  BY <1>1, <1>4, OneLogMoves

\* A write that records the outcome of an attempt that was executing, or that
\* cancels a run.
LEMMA OutcomeStep ==
  ASSUME TypeOK, LogsFit, NEW r \in Runs, NEW type \in TerminalEventTypes,
         NEW row, SetRun(r, row), AppendTerminalEvent(r, type),
         row.attempt = run[r].attempt, row.status \notin Leased,
         \/ row.status = "cancelled"
         \/ run[r].status \in Leased /\ row.status \in {"completed", "failed"}
            /\ type = OutcomeEvent(row.status)
  PROVE  LogsFit'
<1>1. run'[r] = row /\ \A q \in Runs \ {r} : run'[q] = run[q]
  BY SetRunRow
<1>2. /\ run[r] \in RunRow /\ events[r] \in Seq(EventRow)
      /\ LogFits(run[r], events[r]) /\ run[r].attempt \in Nat
  BY DEF TypeOK, LogsFit, RunRow
<1>3. CASE TerminalRecorded(r, run[r].attempt)
  <2>1. UNCHANGED events
    BY <1>3 DEF AppendTerminalEvent
  <2>2. run[r].status \notin Leased
    BY <1>2, <1>3 DEF LogFits, NoOutcome, TerminalRecorded
  <2>3. row.status = "cancelled"
    BY <2>2
  <2> QED
    BY <2>1, <2>3, SilentStep
<1>4. CASE ~TerminalRecorded(r, run[r].attempt)
  <2> DEFINE e == [type |-> type, attempt |-> run[r].attempt]
  <2>1. /\ events'[r] = Append(events[r], e)
        /\ \A q \in Runs \ {r} : events'[q] = events[q]
    BY <1>4, AppendEventLog DEF AppendTerminalEvent
  <2>2. e \in EventRow /\ e.type = type /\ e.attempt = run[r].attempt
    BY <1>2 DEF EventRow, EventType, RunEvents, TerminalEventTypes
  <2>3. row.status \in {"completed", "failed"} =>
          type = OutcomeEvent(row.status)
    OBVIOUS
  <2> HIDE DEF e
  <2>4. LogFits(row, Append(events[r], e))
    BY <1>2, <2>2, <2>3, ClosedLogFits
  <2> QED
    BY <1>1, <2>1, <2>4, OneLogMoves
<1> QED
  BY <1>3, <1>4

\* A terminal write clears the lease and keeps the attempt.
LEMMA FinishOutcome ==
  ASSUME TypeOK, LogsFit, NEW r \in Runs, NEW type \in TerminalEventTypes,
         NEW status \in {"completed", "failed", "cancelled"}, NEW error,
         Finish(r, status, error), AppendTerminalEvent(r, type),
         run[r].status \in Leased, type = OutcomeEvent(status)
  PROVE  LogsFit'
<1> DEFINE row == [run[r] EXCEPT !.status = status, !.lease = NoLease,
                                 !.error = error]
<1>1. row.status = status /\ row.attempt = run[r].attempt
  BY DEF TypeOK, RunRow
<1>2. SetRun(r, row)
  BY DEF Finish
<1>3. row.status \notin Leased
  BY <1>1 DEF Leased
<1> HIDE DEF row
<1> QED
  BY <1>1, <1>2, <1>3, OutcomeStep

LEMMA ClientLogs ==
  ASSUME TypeOK, TypeOK', LogsFit, NEW r \in Runs, Client(r) \/ TimePasses(r)
  PROVE  LogsFit'
<1>0. run[r] \in RunRow /\ run[r].attempt \in Nat
  BY DEF TypeOK, RunRow
<1>1. CASE CreateRun(r)
  <2> DEFINE row == [run[r] EXCEPT !.status = "queued"]
  <2>1. row.status = "queued" /\ row.attempt = run[r].attempt
    BY <1>0 DEF RunRow
  <2>2. SetRun(r, row) /\ UNCHANGED events
    BY <1>1 DEF CreateRun
  <2>3. row.status \notin Leased
    BY <2>1 DEF Leased
  <2> HIDE DEF row
  <2> QED
    BY <2>1, <2>2, <2>3, SilentStep
<1>2. CASE CancelQueued(r)
  <2> DEFINE row == [run[r] EXCEPT !.status = "cancelled", !.cancel = TRUE]
  <2>1. row.status = "cancelled" /\ row.attempt = run[r].attempt
    BY <1>0 DEF RunRow
  <2>2. SetRun(r, row) /\ AppendTerminalEvent(r, "run.cancelled")
    BY <1>2 DEF CancelQueued
  <2>3. row.status \notin Leased /\ "run.cancelled" \in TerminalEventTypes
    BY <2>1 DEF Leased, TerminalEventTypes
  <2> HIDE DEF row
  <2> QED
    BY <2>1, <2>2, <2>3, OutcomeStep
<1>3. CASE CancelRunning(r)
  <2> DEFINE row == [run[r] EXCEPT !.cancel = TRUE]
  <2>1. row.status = run[r].status /\ row.attempt = run[r].attempt
    BY <1>0 DEF RunRow
  <2>2. SetRun(r, row) /\ UNCHANGED events
    BY <1>3 DEF CancelRunning
  <2> HIDE DEF row
  <2> QED
    BY <2>1, <2>2, SilentStep
<1>4. CASE RetryRun(r)
  <2> DEFINE row == [run[r] EXCEPT !.status = "queued", !.cancel = FALSE,
                                   !.error = "none"]
  <2>1. row.status = "queued" /\ row.attempt = run[r].attempt
    BY <1>0 DEF RunRow
  <2>2. /\ SetRun(r, row)
        /\ AppendEvent(r, "run.retry_requested", run[r].attempt)
    BY <1>4 DEF RetryRun
  <2> HIDE DEF row
  <2>3. run'[r] = row /\ \A q \in Runs \ {r} : run'[q] = run[q]
    BY <2>2, SetRunRow
  <2>4. "run.retry_requested" \in EventType \ TerminalEventTypes
    BY DEF EventType, RunEvents, TerminalEventTypes
  <2>5. run'[r].status \notin Leased
    BY <2>1, <2>3 DEF Leased
  <2>6. run'[r].attempt = run[r].attempt
    BY <2>1, <2>3
  <2> QED
    BY <1>0, <2>1, <2>2, <2>3, <2>4, <2>5, <2>6, EventStep
<1>5. CASE TimePasses(r)
  <2> DEFINE row == [run[r] EXCEPT !.lease = @ - 1]
  <2>1. row.status = run[r].status /\ row.attempt = run[r].attempt
    BY <1>0 DEF RunRow
  <2>2. SetRun(r, row) /\ UNCHANGED events
    BY <1>5 DEF TimePasses
  <2> HIDE DEF row
  <2> QED
    BY <2>1, <2>2, SilentStep
<1> QED
  BY <1>1, <1>2, <1>3, <1>4, <1>5 DEF Client

LEMMA ScanLogs ==
  ASSUME TypeOK, TypeOK', AttemptBudget, LogsFit,
         NEW w \in Workers, NEW r \in Runs,
         \/ RecoverPatchReady(w, r) \/ TerminalizeExhausted(w, r)
         \/ ClaimRun(w, r)
  PROVE  LogsFit'
<1>0. run[r] \in RunRow /\ run[r].attempt \in Nat /\ MaxAttempts \in Nat
  BY QueueAssumption DEF TypeOK, RunRow
<1>1. CASE RecoverPatchReady(w, r)
  <2> DEFINE row == [run[r] EXCEPT !.epoch = @ + 1, !.lease = LeaseTicks]
  <2>1. row.status = run[r].status /\ row.attempt = run[r].attempt
    BY <1>0 DEF RunRow
  <2>2. SetRun(r, row) /\ UNCHANGED events
    BY <1>1 DEF RecoverPatchReady
  <2> HIDE DEF row
  <2> QED
    BY <2>1, <2>2, SilentStep
\* a queued run has an attempt left, so the run given up was executing
<1>2. CASE TerminalizeExhausted(w, r)
  <2>1. run[r].attempt >= MaxAttempts
    BY <1>2 DEF TerminalizeExhausted, Exhausted
  <2>2. run[r].status # "queued"
    BY <1>0, <2>1 DEF AttemptBudget
  <2>3. run[r].status \in Leased
    BY <1>2, <2>2 DEF TerminalizeExhausted, Exhausted
  <2>4. /\ Finish(r, "failed", "final")
        /\ AppendTerminalEvent(r, "run.failed")
    BY <1>2 DEF TerminalizeExhausted
  <2>5. /\ "run.failed" \in TerminalEventTypes
        /\ "run.failed" = OutcomeEvent("failed")
    BY DEF TerminalEventTypes, OutcomeEvent
  <2> QED
    BY <2>3, <2>4, <2>5, FinishOutcome
<1>3. CASE ClaimRun(w, r)
  <2> DEFINE row == [run[r] EXCEPT !.status = "running", !.attempt = @ + 1,
                                   !.epoch = @ + 1, !.lease = LeaseTicks]
             type == IF run[r].status = "running" \/ run[r].attempt > 0
                       THEN "run.resumed" ELSE "run.started"
  <2>1. row.status = "running" /\ row.attempt = run[r].attempt + 1
    BY <1>0 DEF RunRow
  <2>2. SetRun(r, row) /\ AppendEvent(r, type, run[r].attempt + 1)
    BY <1>3 DEF ClaimRun
  <2>3. type \in EventType \ TerminalEventTypes
    BY DEF EventType, RunEvents, TerminalEventTypes
  <2> HIDE DEF row, type
  <2>4. run'[r] = row /\ \A q \in Runs \ {r} : run'[q] = run[q]
    BY <2>2, SetRunRow
  <2>5. run'[r].status = "running" /\ run'[r].attempt = run[r].attempt + 1
    BY <2>1, <2>4
  <2>6. /\ run[r].attempt + 1 \in Nat
        /\ run[r].attempt + 1 <= run'[r].attempt
        /\ run[r].attempt < run'[r].attempt
        /\ run[r].attempt <= run'[r].attempt
    BY <1>0, <2>5
  <2> QED
    BY <2>2, <2>3, <2>4, <2>5, <2>6, EventStep
<1> QED
  BY <1>1, <1>2, <1>3

\* An event of a worker that passes the fence, and changes no row.
LEMMA FencedEventLogs ==
  ASSUME TypeOK, TypeOK', LogsFit, NEW w \in Workers, Fenced(w, {"running"}),
         NEW type \in EventType \ TerminalEventTypes,
         AppendEvent(worker[w].run, type, run[worker[w].run].attempt),
         UNCHANGED run
  PROVE  LogsFit'
<1>1. PICK r \in Runs : r = worker[w].run
  BY FencedRun
<1>2. run[r].status = "running"
  BY <1>1 DEF Fenced
<1>3. run[r].attempt \in Nat /\ run[r].attempt <= run[r].attempt
  BY DEF TypeOK, RunRow
<1>4. AppendEvent(r, type, run[r].attempt)
  BY <1>1
<1>5. run[r].status \in Leased /\ run[r].status \notin {"completed", "failed"}
  BY <1>2 DEF Leased
<1> QED
  BY <1>3, <1>4, <1>5, EventStep

LEMMA WorkerLogs ==
  ASSUME TypeOK, TypeOK', LogsFit, NEW w \in Workers,
         Process(w) \/ Private(w) \/ ReportProgress(w) \/ RenewLease(w)
  PROVE  LogsFit'
<1>1. CASE Private(w)
  <2>1. UNCHANGED <<run, events>>
    BY <1>1, PrivateFrame
  <2> QED
    BY <2>1 DEF LogsFit
<1>2. CASE FinalizeCancelled(w) \/ FailRun(w) \/ CompleteRun(w)
  <2>1. PICK r \in Runs : r = worker[w].run
    BY <1>2, FencedRun DEF FinalizeCancelled, FailRun, CompleteRun
  <2>2. run[r].status \in Leased
    BY <1>2, <2>1 DEF FinalizeCancelled, FailRun, CompleteRun, Fenced, Leased
  <2>3. PICK type, status, error :
          /\ type \in TerminalEventTypes
          /\ status \in {"completed", "failed", "cancelled"}
          /\ Finish(r, status, error) /\ AppendTerminalEvent(r, type)
          /\ type = OutcomeEvent(status)
    <3>1. /\ OutcomeEvent("completed") = "run.completed"
          /\ OutcomeEvent("failed") = "run.failed"
          /\ OutcomeEvent("cancelled") = "run.cancelled"
          /\ {"run.completed", "run.failed", "run.cancelled"}
               \subseteq TerminalEventTypes
      BY DEF OutcomeEvent, TerminalEventTypes
    <3> QED
      BY <1>2, <2>1, <3>1 DEF FinalizeCancelled, FailRun, CompleteRun
  <2> QED
    BY <2>2, <2>3, FinishOutcome
<1>3. CASE BeginStage(w) \/ CompleteStage(w) \/ ReportProgress(w)
  <2>1. {"stage.started", "stage.progress"}
          \subseteq EventType \ TerminalEventTypes
    BY DEF EventType, RunEvents, TerminalEventTypes
  <2> QED
    BY <1>3, <2>1, FencedEventLogs
    DEF BeginStage, CompleteStage, ReportProgress
<1>4. CASE PersistPatch(w)
  <2>1. PICK r \in Runs : r = worker[w].run
    BY <1>4, FencedRun DEF PersistPatch
  <2> DEFINE row == [run[r] EXCEPT !.status = "patch_ready"]
  <2>2. run[r] \in RunRow /\ run[r].attempt \in Nat
    BY DEF TypeOK, RunRow
  <2>3. row.status = "patch_ready" /\ row.attempt = run[r].attempt
    BY <2>2 DEF RunRow
  <2>4. SetRun(r, row) /\ AppendEvent(r, "patch.ready", run[r].attempt)
    BY <1>4, <2>1 DEF PersistPatch
  <2> HIDE DEF row
  <2>5. run'[r] = row /\ \A q \in Runs \ {r} : run'[q] = run[q]
    BY <2>4, SetRunRow
  <2>6. run'[r].status = "patch_ready" /\ run'[r].attempt = run[r].attempt
    BY <2>3, <2>5
  <2>7. run[r].status \in Leased
    BY <1>4, <2>1 DEF PersistPatch, Fenced, Leased
  <2>8. "patch.ready" \in EventType \ TerminalEventTypes
    BY DEF EventType, RunEvents, TerminalEventTypes
  <2>9. run[r].attempt <= run'[r].attempt
    BY <2>2, <2>6
  <2> QED
    BY <2>2, <2>4, <2>5, <2>6, <2>7, <2>8, <2>9, EventStep
<1>5. CASE RenewLease(w)
  <2>1. PICK r \in Runs : r = worker[w].run
    BY <1>5, FencedRun DEF RenewLease
  <2> DEFINE row == [run[r] EXCEPT !.lease = LeaseTicks]
  <2>2. row.status = run[r].status /\ row.attempt = run[r].attempt
    BY DEF TypeOK, RunRow
  <2>3. SetRun(r, row) /\ UNCHANGED events
    BY <1>5, <2>1 DEF RenewLease
  <2> HIDE DEF row
  <2> QED
    BY <2>2, <2>3, SilentStep
<1> QED
  BY <1>1, <1>2, <1>3, <1>4, <1>5 DEF Process, Private

LEMMA LogsFitStep ==
  QueueInv /\ QueueInv' /\ LogsFit /\ [Next]_vars => LogsFit'
<1> SUFFICES ASSUME QueueInv, QueueInv', LogsFit, [Next]_vars
             PROVE  LogsFit'
  OBVIOUS
<1>0. TypeOK /\ TypeOK' /\ AttemptBudget
  BY DEF QueueInv
<1>1. ASSUME NEW r \in Runs, Client(r) \/ TimePasses(r) PROVE LogsFit'
  BY <1>0, <1>1, ClientLogs
<1>2. ASSUME NEW w \in Workers, NEW r \in Runs,
             \/ RecoverPatchReady(w, r) \/ TerminalizeExhausted(w, r)
             \/ ClaimRun(w, r)
      PROVE  LogsFit'
  BY <1>0, <1>2, ScanLogs
<1>3. ASSUME NEW w \in Workers,
             Process(w) \/ Private(w) \/ ReportProgress(w) \/ RenewLease(w)
      PROVE  LogsFit'
  BY <1>0, <1>3, WorkerLogs
<1>4. CASE UNCHANGED vars
  BY <1>4 DEF vars, LogsFit
<1> QED
  BY <1>1, <1>2, <1>3, <1>4 DEF Next, WorkerStep, Scan, Private

LEMMA LogsFitInitially == Init => LogsFit
<1> SUFFICES ASSUME Init, NEW r \in Runs PROVE LogFits(run[r], events[r])
  BY DEF LogsFit
<1>1. events[r] = <<>> /\ run[r].status = NotCreated
  BY DEF Init
<1>2. run[r].status \notin Leased
  BY <1>1 DEF NotCreated, Leased
<1>3. run[r].status \notin {"completed", "failed"}
  BY <1>1 DEF NotCreated
<1>4. \A i \in DOMAIN events[r] : events[r][i].attempt <= run[r].attempt
  BY <1>1
<1> QED
  BY <1>2, <1>3, <1>4 DEF LogFits

\* The log of a run that completed or failed ends with that outcome: a worker
\* that lost the run cannot append after it, and no attempt that executes has
\* an outcome already that would keep its own from being recorded.
THEOREM OutcomesCloseLogs == Spec => []OutcomeClosesLog
<1>1. Init => LogsFit
  BY LogsFitInitially
<1>2. QueueInv /\ QueueInv' /\ LogsFit /\ [Next]_vars => LogsFit'
  BY LogsFitStep
<1>3. LogsFit => OutcomeClosesLog
  BY DEF LogsFit, LogFits, OutcomeClosesLog, EndsWithOutcome
<1> QED
  BY <1>1, <1>2, <1>3, QueueInvariant, PTL DEF Spec

------------------------------------------------------------------------------
(* The outputs a worker and a patch are made of.                           *)

\* A completed checkpoint of stage k has this output.
Made(rows, k, output) ==
  \E t \in rows : t.step = k /\ t.status = "completed" /\ t.output = output

AllMade(rows, outputs) ==
  \A k \in 1..Len(outputs) : Made(rows, k, outputs[k])

\* One checkpoint for each stage, on outputs of completed ones: the hash of
\* its input cannot differ from the one another worker looks up.
OneChain(rows) ==
  /\ \A s, t \in rows : s.step = t.step => s = t
  /\ \A s \in rows : Len(s.input) = s.step - 1 /\ AllMade(rows, s.input)

PatchMade(built, rows) ==
  built # NoPatch => Len(built) = NumStages /\ AllMade(rows, built)

\* It holds of workers that lost their lease, too: what they remember was
\* completed before.
MemoryMade(state, rows) ==
  state.run \in Runs =>
    /\ AllMade(rows[state.run], state.outputs)
    /\ state.pc = "reused" =>
         Made(rows[state.run], Len(state.outputs) + 1, state.result)

CheckpointInv ==
  /\ \A r \in Runs : OneChain(stages[r]) /\ PatchMade(patch[r], stages[r])
  /\ \A w \in Workers : MemoryMade(worker[w], stages)

KeepsCompleted(rows, new) ==
  \A s \in rows : s.status = "completed" => s \in new

LEMMA MadeStays ==
  ASSUME NEW rows, NEW new, KeepsCompleted(rows, new)
  PROVE  /\ \A k, output : Made(rows, k, output) => Made(new, k, output)
         /\ \A outputs : AllMade(rows, outputs) => AllMade(new, outputs)
<1>1. \A k, output : Made(rows, k, output) => Made(new, k, output)
  BY DEF Made, KeepsCompleted
<1> QED
  BY <1>1 DEF AllMade

\* What a step has to keep.
ChainsKept ==
  \A r \in Runs : KeepsCompleted(stages[r], stages'[r]) /\ OneChain(stages'[r])

PatchesKept ==
  \A r \in Runs : patch'[r] = patch[r] \/ PatchMade(patch'[r], stages'[r])

MemoriesKept ==
  \A w \in Workers :
    worker'[w] = worker[w] \/ MemoryMade(worker'[w], stages')

LEMMA CheckpointFrame ==
  ASSUME CheckpointInv, ChainsKept, PatchesKept, MemoriesKept
  PROVE  CheckpointInv'
<1>1. ASSUME NEW r \in Runs
      PROVE  OneChain(stages'[r]) /\ PatchMade(patch'[r], stages'[r])
  <2>1. OneChain(stages'[r]) /\ KeepsCompleted(stages[r], stages'[r])
    BY DEF ChainsKept
  <2>2. PatchMade(patch[r], stages[r])
    BY DEF CheckpointInv
  <2>3. PatchMade(patch[r], stages'[r])
    BY <2>1, <2>2, MadeStays DEF PatchMade
  <2> QED
    BY <2>1, <2>3 DEF PatchesKept
<1>2. ASSUME NEW w \in Workers PROVE MemoryMade(worker'[w], stages')
  <2>1. MemoryMade(worker[w], stages)
    BY DEF CheckpointInv
  <2>2. MemoryMade(worker[w], stages')
    <3>1. CASE worker[w].run \in Runs
      <4>1. KeepsCompleted(stages[worker[w].run], stages'[worker[w].run])
        BY <3>1 DEF ChainsKept
      <4> QED
        BY <2>1, <3>1, <4>1, MadeStays DEF MemoryMade
    <3>2. CASE worker[w].run \notin Runs
      BY <3>2 DEF MemoryMade
    <3> QED
      BY <3>1, <3>2
  <2> QED
    BY <2>2 DEF MemoriesKept
<1> QED
  BY <1>1, <1>2 DEF CheckpointInv

LEMMA ChainsUnchanged ==
  ASSUME CheckpointInv, UNCHANGED stages
  PROVE  ChainsKept
BY DEF CheckpointInv, ChainsKept, KeepsCompleted

LEMMA PatchesUnchanged == UNCHANGED patch => PatchesKept
BY DEF PatchesKept

LEMMA MemoriesUnchanged == UNCHANGED worker => MemoriesKept
BY DEF MemoriesKept

LEMMA SetWorkerMemory ==
  ASSUME TypeOK, NEW w \in Workers, NEW state, SetWorker(w, state),
         MemoryMade(state, stages')
  PROVE  MemoriesKept
BY DEF TypeOK, SetWorker, MemoriesKept

LEMMA LeasingMemory ==
  ASSUME TypeOK, NEW w \in Workers, NEW pc, pc # "reused", NEW r, NEW n,
         SetWorker(w, Leasing(pc, r, n))
  PROVE  MemoriesKept
<1> DEFINE state == Leasing(pc, r, n)
<1>1. state.pc = pc /\ state.outputs = <<>>
  BY DEF Leasing
<1>2. SetWorker(w, state)
  OBVIOUS
<1> HIDE DEF state
<1>3. MemoryMade(state, stages')
  BY <1>1 DEF MemoryMade, AllMade
<1> QED
  BY <1>2, <1>3, SetWorkerMemory

LEMMA ReleaseMemory ==
  ASSUME TypeOK, NEW w \in Workers, NEW pc, pc # "reused", Release(w, pc)
  PROVE  MemoriesKept
BY LeasingMemory DEF Release, Fresh

\* The worker moves on with the outputs it has.
LEMMA SameMemory ==
  ASSUME TypeOK, CheckpointInv, ChainsKept, NEW w \in Workers, NEW state,
         SetWorker(w, state), state.run = worker[w].run,
         state.outputs = worker[w].outputs, state.pc # "reused"
  PROVE  MemoriesKept
<1>1. ASSUME state.run \in Runs
      PROVE  AllMade(stages'[state.run], state.outputs)
  <2>1. AllMade(stages[state.run], state.outputs)
    BY <1>1 DEF CheckpointInv, MemoryMade
  <2>2. KeepsCompleted(stages[state.run], stages'[state.run])
    BY <1>1 DEF ChainsKept
  <2> QED
    BY <2>1, <2>2, MadeStays
<1>2. MemoryMade(state, stages')
  BY <1>1 DEF MemoryMade
<1> QED
  BY <1>2, SetWorkerMemory

LEMMA GotoMemory ==
  ASSUME TypeOK, CheckpointInv, ChainsKept, NEW w \in Workers, NEW pc,
         Goto(w, pc), pc # "reused"
  PROVE  MemoriesKept
<1> DEFINE state == [worker[w] EXCEPT !.pc = pc]
<1>1. /\ state.run = worker[w].run /\ state.outputs = worker[w].outputs
      /\ state.pc = pc
  BY DEF TypeOK, WorkerState
<1>2. SetWorker(w, state)
  BY DEF Goto
<1> HIDE DEF state
<1> QED
  BY <1>1, <1>2, SameMemory

\* The result of a stage with a completed checkpoint joins the outputs.
LEMMA NextStageMemory ==
  ASSUME TypeOK, CheckpointInv, ChainsKept, NEW w \in Workers, NextStage(w),
         worker[w].run \in Runs =>
           Made(stages'[worker[w].run], Step(w), worker[w].result)
  PROVE  MemoriesKept
<1> DEFINE outputs == Append(worker[w].outputs, worker[w].result)
           state == [worker[w] EXCEPT !.pc = AdvanceTo(w), !.begun = FALSE,
                       !.outputs = outputs, !.result = 0]
<1>1. /\ worker[w].outputs \in Seq(Nat) /\ worker[w].result \in Nat
      /\ Len(worker[w].outputs) \in Nat
  BY DEF TypeOK, WorkerState
<1>2. /\ state.run = worker[w].run /\ state.outputs = outputs
      /\ state.pc = AdvanceTo(w)
  BY DEF TypeOK, WorkerState
<1>3. state.pc # "reused"
  BY <1>2 DEF AdvanceTo
<1>4. SetWorker(w, state)
  BY DEF NextStage
<1>5. /\ Len(outputs) = Len(worker[w].outputs) + 1
      /\ outputs[Len(worker[w].outputs) + 1] = worker[w].result
      /\ \A k \in 1..Len(worker[w].outputs) : outputs[k] = worker[w].outputs[k]
  BY <1>1
<1> HIDE DEF state, outputs
<1>6. ASSUME worker[w].run \in Runs
      PROVE  AllMade(stages'[worker[w].run], outputs)
  <2> DEFINE rows == stages'[worker[w].run]
  <2>1. AllMade(stages[worker[w].run], worker[w].outputs)
    BY <1>6 DEF CheckpointInv, MemoryMade
  <2>2. KeepsCompleted(stages[worker[w].run], rows)
    BY <1>6 DEF ChainsKept
  <2>3. AllMade(rows, worker[w].outputs)
    BY <2>1, <2>2, MadeStays
  <2>4. Made(rows, Len(worker[w].outputs) + 1, worker[w].result)
    BY <1>6 DEF Step
  <2> HIDE DEF rows
  <2>5. ASSUME NEW k \in 1..Len(outputs) PROVE Made(rows, k, outputs[k])
    <3>1. CASE k \in 1..Len(worker[w].outputs)
      BY <1>5, <2>3, <3>1 DEF AllMade
    <3>2. CASE k = Len(worker[w].outputs) + 1
      BY <1>5, <2>4, <3>2
    <3> QED
      BY <1>1, <1>5, <3>1, <3>2
  <2> QED
    BY <2>5 DEF AllMade, rows
<1>7. MemoryMade(state, stages')
  BY <1>2, <1>3, <1>6 DEF MemoryMade
<1> QED
  BY <1>4, <1>7, SetWorkerMemory

\* Two sequences of outputs of a chain, of one length, are the same.
LEMMA OneHistory ==
  ASSUME NEW rows, OneChain(rows), NEW a \in Seq(Nat), NEW b \in Seq(Nat),
         AllMade(rows, a), AllMade(rows, b), Len(a) = Len(b)
  PROVE  a = b
<1>1. ASSUME NEW k \in 1..Len(a) PROVE a[k] = b[k]
  <2>1. Made(rows, k, a[k]) /\ Made(rows, k, b[k])
    BY DEF AllMade
  <2> QED
    BY <2>1 DEF Made, OneChain
<1> QED
  BY <1>1

\* The checkpoints a worker looks up by its input are all those of its stage.
LEMMA CheckpointIsStep ==
  ASSUME TypeOK, CheckpointInv, NEW w \in Workers, worker[w].run \in Runs
  PROVE  Checkpoint(w) = {s \in stages[worker[w].run] : s.step = Step(w)}
<1> DEFINE rows == stages[worker[w].run]
<1>1. worker[w].outputs \in Seq(Nat) /\ Len(worker[w].outputs) \in Nat
  BY DEF TypeOK, WorkerState
<1>2. OneChain(rows) /\ AllMade(rows, worker[w].outputs)
  BY DEF CheckpointInv, MemoryMade
<1>3. ASSUME NEW s \in rows, s.step = Step(w)
      PROVE  s.input = worker[w].outputs
  <2>1. s \in StageRow
    BY DEF TypeOK
  <2>2. s.input \in Seq(Nat)
    BY <2>1 DEF StageRow
  <2>3. Len(s.input) = s.step - 1 /\ AllMade(rows, s.input)
    BY <1>2 DEF OneChain
  <2>4. Len(s.input) = Len(worker[w].outputs)
    BY <1>1, <1>3, <2>3 DEF Step
  <2> QED
    BY <1>1, <1>2, <2>2, <2>3, <2>4, OneHistory
<1> QED
  BY <1>3 DEF Checkpoint

\* A rewrite of one run's rows keeps every chain if it keeps that one.
LEMMA RewriteChains ==
  ASSUME TypeOK, CheckpointInv, NEW w \in Workers, worker[w].run \in Runs,
         NEW old, NEW new, Rewrite(w, old, new),
         KeepsCompleted(stages[worker[w].run],
                        (stages[worker[w].run] \ old) \cup new),
         OneChain((stages[worker[w].run] \ old) \cup new)
  PROVE  ChainsKept
<1> DEFINE r == worker[w].run
<1>1. stages'[r] = (stages[r] \ old) \cup new
      /\ \A q \in Runs \ {r} : stages'[q] = stages[q]
  BY DEF TypeOK, Rewrite
<1>2. \A q \in Runs : OneChain(stages[q])
  BY DEF CheckpointInv
<1>3. ASSUME NEW q \in Runs
      PROVE  KeepsCompleted(stages[q], stages'[q]) /\ OneChain(stages'[q])
  <2>1. CASE q = r
    BY <1>1, <2>1
  <2>2. CASE q # r
    <3>1. stages'[q] = stages[q]
      BY <1>1, <2>2
    <3> QED
      BY <1>2, <3>1 DEF KeepsCompleted
  <2> QED
    BY <2>1, <2>2
<1> QED
  BY <1>3 DEF ChainsKept

\* Rows that are not completed are replaced by rows of the same stages.
LEMMA ReplacedChain ==
  ASSUME NEW rows, NEW old, NEW new, OneChain(rows),
         \A s \in old : s.status # "completed",
         \A t \in new : Len(t.input) = t.step - 1 /\ AllMade(rows, t.input),
         \A t \in new, s \in rows \ old : t.step # s.step,
         \A t, u \in new : t.step = u.step => t = u
  PROVE  LET now == (rows \ old) \cup new
         IN  KeepsCompleted(rows, now) /\ OneChain(now)
<1> DEFINE now == (rows \ old) \cup new
<1>1. KeepsCompleted(rows, now)
  BY DEF KeepsCompleted
<1>2. \A s \in now : Len(s.input) = s.step - 1 /\ AllMade(rows, s.input)
  BY DEF OneChain
<1>3. \A s \in now : AllMade(now, s.input)
  BY <1>1, <1>2, MadeStays
<1>4. \A s, t \in now : s.step = t.step => s = t
  BY DEF OneChain
<1> HIDE DEF now
<1>5. OneChain(now)
  BY <1>2, <1>3, <1>4 DEF OneChain
<1> QED
  BY <1>1, <1>5 DEF now

\* A stage begins: no checkpoint of it is completed, and all of them make
\* room for the one row that starts over.
LEMMA BeginStageChains ==
  ASSUME TypeOK, PlanPosition, CheckpointInv, NEW w \in Workers, BeginStage(w)
  PROVE  ChainsKept
<1> DEFINE rows == stages[worker[w].run]
<1>1. worker[w].run \in Runs
  BY FencedRun DEF BeginStage
<1>2. OneChain(rows) /\ AllMade(rows, worker[w].outputs)
  BY <1>1 DEF CheckpointInv, MemoryMade
<1>3. Checkpoint(w) = {s \in rows : s.step = Step(w)}
  BY <1>1, CheckpointIsStep
<1>4. /\ StartedRow(w).step = Step(w)
      /\ StartedRow(w).input = worker[w].outputs
  BY DEF StartedRow
<1>5. Len(worker[w].outputs) = Step(w) - 1
  BY DEF TypeOK, WorkerState, Step
<1>6. /\ \A s \in Checkpoint(w) : s.status # "completed"
      /\ Rewrite(w, Checkpoint(w), {StartedRow(w)})
  BY DEF BeginStage
<1> HIDE DEF rows
<1>7. LET now == (rows \ Checkpoint(w)) \cup {StartedRow(w)}
      IN  KeepsCompleted(rows, now) /\ OneChain(now)
  <2>1. \A s \in rows \ Checkpoint(w) : StartedRow(w).step # s.step
    BY <1>3, <1>4
  <2> QED
    BY <1>2, <1>4, <1>5, <1>6, <2>1, ReplacedChain
<1> QED
  BY <1>1, <1>6, <1>7, RewriteChains DEF rows

\* The stage in progress is marked failed.
LEMMA FailStageChains ==
  ASSUME TypeOK, CheckpointInv, NEW w \in Workers, worker[w].run \in Runs,
         FailStage(w)
  PROVE  ChainsKept
<1> DEFINE rows == stages[worker[w].run]
           active == {s \in Checkpoint(w) : s.status = "running"}
           failed == {[s EXCEPT !.status = "failed"] : s \in active}
<1>1. CASE ~worker[w].begun
  BY <1>1, ChainsUnchanged DEF FailStage
<1>2. CASE worker[w].begun
  <2>1. Rewrite(w, active, failed)
    BY <1>2 DEF FailStage
  <2>2. OneChain(rows) /\ active \subseteq rows
    BY DEF CheckpointInv, Checkpoint
  <2>3. \A s \in active : s \in StageRow /\ s.status = "running"
    BY DEF Checkpoint, TypeOK
  <2>4. \A t \in failed : \E s \in active :
          t = [s EXCEPT !.status = "failed"] /\ t.step = s.step
          /\ t.input = s.input
    BY <2>3 DEF StageRow
  <2> HIDE DEF rows, active, failed
  <2>5. \A s \in active : s.status # "completed"
    BY <2>3
  <2>6. \A t \in failed : Len(t.input) = t.step - 1 /\ AllMade(rows, t.input)
    BY <2>2, <2>4 DEF OneChain
  <2>7. \A t \in failed, s \in rows \ active : t.step # s.step
    BY <2>2, <2>4 DEF OneChain
  <2>8. \A t, u \in failed : t.step = u.step => t = u
    BY <2>2, <2>4 DEF OneChain
  <2>9. LET now == (rows \ active) \cup failed
        IN  KeepsCompleted(rows, now) /\ OneChain(now)
    BY <2>2, <2>5, <2>6, <2>7, <2>8, ReplacedChain
  <2> QED
    BY <2>1, <2>9, RewriteChains DEF rows
<1> QED
  BY <1>1, <1>2

\* The checkpoint completes with the worker's result.
LEMMA CompleteStageChains ==
  ASSUME TypeOK, CheckpointInv, NEW w \in Workers, CompleteStage(w)
  PROVE  /\ ChainsKept
         /\ worker[w].run \in Runs
         /\ Made(stages'[worker[w].run], Step(w), worker[w].result)
<1> DEFINE rows == stages[worker[w].run]
<1>1. worker[w].run \in Runs
  BY FencedRun DEF CompleteStage
<1>2. PICK s \in Checkpoint(w) :
        /\ s.status = "running"
        /\ Rewrite(w, {s}, {[s EXCEPT !.status = "completed",
                                      !.output = worker[w].result]})
  BY DEF CompleteStage
<1> DEFINE t == [s EXCEPT !.status = "completed", !.output = worker[w].result]
<1>3. s \in rows /\ s \in StageRow /\ s.step = Step(w)
  BY <1>1 DEF Checkpoint, TypeOK
<1>4. /\ t.step = s.step /\ t.input = s.input /\ t.status = "completed"
      /\ t.output = worker[w].result
  BY <1>3 DEF StageRow
<1>5. OneChain(rows)
  BY <1>1 DEF CheckpointInv
<1>6. Rewrite(w, {s}, {t})
  BY <1>2
<1>7. stages'[worker[w].run] = (rows \ {s}) \cup {t}
  BY <1>1, <1>6 DEF TypeOK, Rewrite
<1> HIDE DEF rows, t
<1>8. LET now == (rows \ {s}) \cup {t}
      IN  KeepsCompleted(rows, now) /\ OneChain(now)
  <2>1. Len(t.input) = t.step - 1 /\ AllMade(rows, t.input)
    BY <1>3, <1>4, <1>5 DEF OneChain
  <2>2. \A u \in rows \ {s} : t.step # u.step
    BY <1>3, <1>4, <1>5 DEF OneChain
  <2>3. s.status # "completed"
    BY <1>2
  <2> QED
    BY <1>5, <2>1, <2>2, <2>3, ReplacedChain
<1>9. ChainsKept
  BY <1>1, <1>6, <1>8, RewriteChains DEF rows
<1>10. Made(stages'[worker[w].run], Step(w), worker[w].result)
  BY <1>3, <1>4, <1>7 DEF Made
<1> QED
  BY <1>1, <1>9, <1>10

------------------------------------------------------------------------------
\* A step keeps the chains, and with them what is made of them.
CheckpointStep == ChainsKept /\ PatchesKept /\ MemoriesKept

LEMMA RunCheckpoints ==
  ASSUME TypeOK, CheckpointInv, NEW r \in Runs,
         \/ Client(r) \/ TimePasses(r)
         \/ \E w \in Workers : \/ RecoverPatchReady(w, r)
                               \/ TerminalizeExhausted(w, r)
                               \/ ClaimRun(w, r)
  PROVE  CheckpointStep
<1>1. CASE Client(r) \/ TimePasses(r)
  <2>1. UNCHANGED <<stages, patch, worker>>
    BY <1>1 DEF Client, CreateRun, CancelQueued, CancelRunning, RetryRun,
                TimePasses
  <2> QED
    BY <2>1, ChainsUnchanged, PatchesUnchanged, MemoriesUnchanged
    DEF CheckpointStep
<1>2. ASSUME NEW w \in Workers,
             \/ RecoverPatchReady(w, r) \/ TerminalizeExhausted(w, r)
             \/ ClaimRun(w, r)
      PROVE  CheckpointStep
  <2>1. UNCHANGED <<stages, patch>>
    BY <1>2 DEF RecoverPatchReady, TerminalizeExhausted, ClaimRun
  <2>2. MemoriesKept
    <3>1. CASE TerminalizeExhausted(w, r)
      BY <3>1, MemoriesUnchanged DEF TerminalizeExhausted
    <3>2. CASE RecoverPatchReady(w, r) \/ ClaimRun(w, r)
      BY <3>2, LeasingMemory DEF RecoverPatchReady, ClaimRun, TakeLease
    <3> QED
      BY <1>2, <3>1, <3>2
  <2> QED
    BY <2>1, <2>2, ChainsUnchanged, PatchesUnchanged DEF CheckpointStep
<1> QED
  BY <1>1, <1>2

LEMMA PrivateCheckpoints ==
  ASSUME TypeOK, CheckpointInv, NEW w \in Workers, Private(w)
  PROVE  CheckpointStep
<1>0. worker[w] \in WorkerState
  BY DEF TypeOK
<1>1. UNCHANGED <<stages, patch>>
  BY PrivateFrame
<1>2. ChainsKept /\ PatchesKept
  BY <1>1, ChainsUnchanged, PatchesUnchanged
<1>3. CASE StartRun(w) \/ ContinueUncancelled(w) \/ ScanDone(w)
              \/ SkipLocked(w)
  <2>1. PICK pc : Goto(w, pc) /\ pc # "reused"
    BY <1>3 DEF StartRun, ContinueUncancelled, ScanDone, SkipLocked,
             NextScan
  <2> QED
    BY <1>2, <2>1, GotoMemory DEF CheckpointStep
<1>4. CASE LoseLease(w) \/ Restart(w) \/ Crash(w)
  <2>1. PICK pc : Release(w, pc) /\ pc # "reused"
    BY <1>4 DEF LoseLease, Restart, Crash
  <2> QED
    BY <1>2, <2>1, ReleaseMemory DEF CheckpointStep
<1>5. CASE ExecuteStage(w) \/ StageRaises(w) \/ RejectPatchOutput(w)
  <2>1. PICK state : /\ SetWorker(w, state) /\ state.pc # "reused"
                     /\ state.run = worker[w].run
                     /\ state.outputs = worker[w].outputs
    <3>1. CASE ExecuteStage(w)
      <4> DEFINE state == [worker[w] EXCEPT !.pc = "observe",
                                            !.result = worker[w].epoch]
      <4>1. /\ state.pc = "observe" /\ state.run = worker[w].run
            /\ state.outputs = worker[w].outputs
        BY <1>0 DEF WorkerState
      <4>2. SetWorker(w, state)
        BY <3>1 DEF ExecuteStage
      <4> HIDE DEF state
      <4> QED
        BY <4>1, <4>2
    <3>2. CASE StageRaises(w) \/ RejectPatchOutput(w)
      <4>1. PICK b : SetWorker(w, [worker[w] EXCEPT !.pc = "failing",
                                                    !.retryable = b])
        BY <3>2 DEF StageRaises, RejectPatchOutput
      <4> DEFINE state == [worker[w] EXCEPT !.pc = "failing", !.retryable = b]
      <4>2. /\ state.pc = "failing" /\ state.run = worker[w].run
            /\ state.outputs = worker[w].outputs
        BY <1>0 DEF WorkerState
      <4>3. SetWorker(w, state)
        BY <4>1
      <4> HIDE DEF state
      <4> QED
        BY <4>2, <4>3
    <3> QED
      BY <1>5, <3>1, <3>2
  <2> QED
    BY <1>2, <2>1, SameMemory DEF CheckpointStep
<1>6. CASE ReuseStage(w)
  <2>1. worker[w].run \in Runs
    BY <1>6, FencedRun DEF ReuseStage
  <2>2. PICK s \in Checkpoint(w) :
          /\ s.status = "completed"
          /\ SetWorker(w, [worker[w] EXCEPT !.pc = "reused", !.begun = TRUE,
                                            !.result = s.output])
    BY <1>6 DEF ReuseStage
  <2> DEFINE state == [worker[w] EXCEPT !.pc = "reused", !.begun = TRUE,
                                        !.result = s.output]
  <2>3. /\ state.run = worker[w].run /\ state.outputs = worker[w].outputs
        /\ state.result = s.output
    BY <1>0 DEF WorkerState
  <2>4. SetWorker(w, state)
    BY <2>2
  <2> HIDE DEF state
  <2>5. Made(stages[worker[w].run], Len(worker[w].outputs) + 1, s.output)
    BY <2>2 DEF Made, Checkpoint, Step
  <2>6. AllMade(stages[worker[w].run], worker[w].outputs)
    BY <2>1 DEF CheckpointInv, MemoryMade
  <2>7. MemoryMade(state, stages')
    BY <1>1, <2>3, <2>5, <2>6 DEF MemoryMade
  <2> QED
    BY <1>2, <2>4, <2>7, SetWorkerMemory DEF CheckpointStep
<1>7. CASE AcceptReused(w)
  <2>1. worker[w].run \in Runs =>
          Made(stages[worker[w].run], Step(w), worker[w].result)
    BY <1>7 DEF AcceptReused, CheckpointInv, MemoryMade, Step
  <2> QED
    BY <1>1, <1>2, <1>7, <2>1, NextStageMemory DEF AcceptReused, CheckpointStep
<1> QED
  BY <1>3, <1>4, <1>5, <1>6, <1>7 DEF Private

LEMMA WriteCheckpoints ==
  ASSUME TypeOK, PlanPosition, CheckpointInv, NEW w \in Workers,
         \/ FinalizeCancelled(w) \/ FailRun(w) \/ CompleteRun(w)
         \/ BeginStage(w) \/ CompleteStage(w) \/ PersistPatch(w)
         \/ ReportProgress(w) \/ RenewLease(w)
  PROVE  CheckpointStep
<1>1. CASE FinalizeCancelled(w) \/ FailRun(w)
  <2>1. worker[w].run \in Runs /\ FailStage(w) /\ UNCHANGED patch
        /\ Release(w, "recover")
    BY <1>1, FencedRun DEF FinalizeCancelled, FailRun
  <2> QED
    BY <2>1, FailStageChains, PatchesUnchanged, ReleaseMemory
    DEF CheckpointStep
<1>2. CASE CompleteRun(w)
  BY <1>2, ChainsUnchanged, PatchesUnchanged, ReleaseMemory
  DEF CompleteRun, CheckpointStep
<1>3. CASE BeginStage(w)
  <2> DEFINE state == [worker[w] EXCEPT !.pc = "executing", !.begun = TRUE]
  <2>1. /\ state.pc = "executing" /\ state.run = worker[w].run
        /\ state.outputs = worker[w].outputs
    BY DEF TypeOK, WorkerState
  <2>2. SetWorker(w, state) /\ UNCHANGED patch
    BY <1>3 DEF BeginStage
  <2>3. ChainsKept
    BY <1>3, BeginStageChains
  <2> HIDE DEF state
  <2> QED
    BY <2>1, <2>2, <2>3, SameMemory, PatchesUnchanged DEF CheckpointStep
<1>4. CASE CompleteStage(w)
  <2>1. NextStage(w) /\ UNCHANGED patch
    BY <1>4 DEF CompleteStage
  <2>2. ChainsKept /\ Made(stages'[worker[w].run], Step(w), worker[w].result)
    BY <1>4, CompleteStageChains
  <2> QED
    BY <2>1, <2>2, NextStageMemory, PatchesUnchanged DEF CheckpointStep
<1>5. CASE PersistPatch(w)
  <2> DEFINE r == worker[w].run
  <2>1. /\ r \in Runs /\ UNCHANGED stages /\ Goto(w, "complete")
        /\ patch' = [patch EXCEPT ![r] = IF @ = NoPatch THEN worker[w].outputs
                                                        ELSE @]
    BY <1>5, FencedRun DEF PersistPatch
  <2>2. Len(worker[w].outputs) = NumStages
    BY <1>5 DEF PersistPatch, PlanPosition
  <2>3. AllMade(stages[r], worker[w].outputs)
    BY <2>1 DEF CheckpointInv, MemoryMade
  <2>4. PatchMade(worker[w].outputs, stages[r])
    BY <2>2, <2>3 DEF PatchMade
  <2>5. \A q \in Runs : \/ patch'[q] = patch[q]
                        \/ q = r /\ patch'[q] = worker[w].outputs
    BY <2>1 DEF TypeOK
  <2>6. PatchesKept
    BY <2>1, <2>4, <2>5 DEF PatchesKept
  <2>7. ChainsKept
    BY <2>1, ChainsUnchanged
  <2>8. MemoriesKept
    BY <2>1, <2>7, GotoMemory
  <2> QED
    BY <2>6, <2>7, <2>8 DEF CheckpointStep
<1>6. CASE ReportProgress(w) \/ RenewLease(w)
  BY <1>6, ChainsUnchanged, PatchesUnchanged, MemoriesUnchanged
  DEF ReportProgress, RenewLease, CheckpointStep
<1> QED
  BY <1>1, <1>2, <1>3, <1>4, <1>5, <1>6

LEMMA NextCheckpoints ==
  ASSUME QueueInv, CheckpointInv, [Next]_vars
  PROVE  CheckpointStep
<1>0. TypeOK /\ PlanPosition
  BY DEF QueueInv
<1>1. ASSUME NEW r \in Runs, Client(r) \/ TimePasses(r) PROVE CheckpointStep
  BY <1>0, <1>1, RunCheckpoints
<1>2. ASSUME NEW w \in Workers,
             WorkerStep(w) \/ ReportProgress(w) \/ RenewLease(w) \/ Crash(w)
               \/ SkipLocked(w)
      PROVE  CheckpointStep
  BY <1>0, <1>2, RunCheckpoints, PrivateCheckpoints, WriteCheckpoints
  DEF WorkerStep, Scan, Process, Private
<1>3. CASE UNCHANGED vars
  BY <1>3, ChainsUnchanged, PatchesUnchanged, MemoriesUnchanged
  DEF vars, CheckpointStep
<1> QED
  BY <1>1, <1>2, <1>3 DEF Next

LEMMA InitCheckpoints == Init => CheckpointInv
<1> SUFFICES ASSUME Init PROVE CheckpointInv
  OBVIOUS
<1>1. ASSUME NEW r \in Runs
      PROVE  OneChain(stages[r]) /\ PatchMade(patch[r], stages[r])
  BY DEF Init, OneChain, PatchMade
<1>2. ASSUME NEW w \in Workers PROVE MemoryMade(worker[w], stages)
  <2>1. worker[w].outputs = <<>> /\ worker[w].pc = "recover"
    BY DEF Init, Fresh, Leasing
  <2> QED
    BY <2>1 DEF MemoryMade, AllMade
<1> QED
  BY <1>1, <1>2 DEF CheckpointInv

\* A run has one checkpoint per stage, each on outputs of completed ones, and
\* the outputs that workers and patches hold are those of completed ones: a
\* worker without its lease remembers nothing else.
THEOREM CheckpointsHold == Spec => []CheckpointInv
<1>1. Init => CheckpointInv
  BY InitCheckpoints
<1>2. QueueInv /\ CheckpointInv /\ [Next]_vars => CheckpointInv'
  BY NextCheckpoints, CheckpointFrame DEF CheckpointStep
<1> QED
  BY <1>1, <1>2, QueueInvariant, PTL DEF Spec

\* A patch of a chain is made of its completed checkpoints, one per stage.
LEMMA ChainMakesPatch ==
  ASSUME TypeOK, CheckpointInv, NEW r \in Runs, patch[r] # NoPatch
  PROVE  /\ Len(patch[r]) = NumStages
         /\ \A k \in 1..NumStages :
              \A s \in stages[r] :
                s.step = k => /\ s.status = "completed"
                              /\ s.output = patch[r][k]
                              /\ s.input = SubSeq(patch[r], 1, k - 1)
         /\ \A k \in 1..NumStages : CompletedStage(r, k) # {}
<1>1. /\ OneChain(stages[r]) /\ Len(patch[r]) = NumStages
      /\ AllMade(stages[r], patch[r]) /\ patch[r] \in Seq(Nat)
  BY DEF CheckpointInv, PatchMade, TypeOK
<1>2. \A k \in 1..NumStages : Made(stages[r], k, patch[r][k])
  BY <1>1 DEF AllMade
<1>3. ASSUME NEW k \in 1..NumStages, NEW s \in stages[r], s.step = k
      PROVE  /\ s.status = "completed" /\ s.output = patch[r][k]
             /\ s.input = SubSeq(patch[r], 1, k - 1)
  <2>1. s.status = "completed" /\ s.output = patch[r][k]
    BY <1>1, <1>2, <1>3 DEF Made, OneChain
  <2> DEFINE before == SubSeq(patch[r], 1, k - 1)
  <2>2. NumStages \in Nat
    BY QueueAssumption
  <2>3. /\ before \in Seq(Nat) /\ Len(before) = k - 1
        /\ \A i \in 1..(k - 1) : before[i] = patch[r][i]
    BY <1>1, <2>2
  <2>4. s.input \in Seq(Nat) /\ Len(s.input) = k - 1
        /\ AllMade(stages[r], s.input)
    BY <1>1, <1>3 DEF TypeOK, StageRow, OneChain
  <2> HIDE DEF before
  <2>5. AllMade(stages[r], before)
    BY <1>2, <2>2, <2>3 DEF AllMade
  <2>6. s.input = before
    BY <1>1, <2>3, <2>4, <2>5, OneHistory
  <2> QED
    BY <2>1, <2>6 DEF before
<1>4. ASSUME NEW k \in 1..NumStages PROVE CompletedStage(r, k) # {}
  BY <1>2 DEF Made, CompletedStage
<1> QED
  BY <1>1, <1>3, <1>4

\* A candidate patch is built from one completed checkpoint per stage, each on
\* the outputs of those before it, however many attempts and workers made them.
THEOREM PatchIsOfCheckpoints == Spec => []PatchFromCheckpoints
<1>1. QueueInv /\ CheckpointInv => PatchFromCheckpoints
  BY ChainMakesPatch DEF QueueInv, PatchFromCheckpoints
<1> QED
  BY <1>1, QueueInvariant, CheckpointsHold, PTL

\* A completed stage keeps its output whatever is started over after it.
THEOREM CheckpointsStay == Spec => CheckpointsAreFinal
<1> DEFINE A == \A r \in Runs : \A s \in stages[r] :
                  s.status = "completed" => s \in stages'[r]
<1>1. QueueInv /\ CheckpointInv /\ [Next]_vars => A
  BY NextCheckpoints DEF CheckpointStep, ChainsKept, KeepsCompleted
<1> HIDE DEF A
<1>2. Spec => [][A]_stages
  <2>1. QueueInv /\ CheckpointInv /\ [Next]_vars => [A]_stages
    BY <1>1
  <2> QED
    BY <2>1, QueueInvariant, CheckpointsHold, PTL DEF Spec
<1> QED
  BY <1>2 DEF CheckpointsAreFinal, A

==============================================================================
