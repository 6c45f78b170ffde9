---------------------------- MODULE DemoSessions ----------------------------
(***************************************************************************)
(* Anonymous demo sessions: the session rows with their hybrid quota, the  *)
(* canvas each owns, the generation runs it creates, the reset by its      *)
(* visitor and the cleanup of expired sessions, beside the workers that    *)
(* hold leases on the runs.                                                *)
(*                                                                         *)
(* An action is one transaction, except for the reset and the cleanup of a *)
(* session: these lock the session and the runs they list first (Begin..), *)
(* and write later, so that what they did not lock may change in between.  *)
(***************************************************************************)
EXTENDS Integers, FiniteSets

CONSTANTS
  Sessions,         \* identifiers of DemoSession rows
  Runs,             \* identifiers of GenerationRun rows
  Cleaners,         \* processes that run cleanup_expired_demo_sessions
  NoSession,        \* the session of a run row that does not exist
  MaxAttempts,      \* GenerationRun.max_attempts
  SessionTicks,     \* DEMO_SESSION_SECONDS
  WindowTicks,      \* DEMO_QUOTA_WINDOW_SECONDS
  HourTicks,        \* a clock hour
  HybridLimit,      \* DEMO_SESSION_HYBRID_RUN_LIMIT
  ConcurrentLimit,  \* DEMO_SESSION_CONCURRENT_RUN_LIMIT
  GlobalLimit,      \* DEMO_GLOBAL_HYBRID_RUN_LIMIT
  BatchSize,        \* DEMO_CLEANUP_BATCH_SIZE
  MaxClock,         \* bound: the last tick of the clock
  MaxResets,        \* bound: resets of a session
  MaxAborts         \* bound: transactions that fail halfway

ASSUME DemoAssumption ==
  /\ NoSession \notin Sessions
  /\ IsFiniteSet(Runs)
  /\ {"none", "reset"} \cap Cleaners = {}
  /\ {MaxAttempts, SessionTicks, WindowTicks, HourTicks} \subseteq Nat \ {0}
  /\ {HybridLimit, ConcurrentLimit, GlobalLimit, BatchSize} \subseteq Nat \ {0}
  /\ {MaxClock, MaxResets, MaxAborts} \subseteq Nat

VARIABLES
  clock,      \* the time, in ticks
  session,    \* DemoSession rows
  canvases,   \* canvases of demo sessions that exist: <<session, number>>
  run,        \* GenerationRun rows
  hourly,     \* DemoGlobalQuotaWindow.hybrid_run_count, by clock hour
  txn,        \* the open reset or cleanup of each session
  attempted,  \* of each cleaner's pass, the sessions it has inspected
  authorized, \* runs for which a cancel or retry request passed authorize_run
  created,    \* history: by whom and when each run was created
  aborts      \* transactions aborted so far, at most MaxAborts

vars == <<clock, session, canvases, run, hourly, txn, attempted, authorized,
          created, aborts>>

------------------------------------------------------------------------------
(* Rows.                                                                   *)

Clock == 0..MaxClock
SessionRow == [state   : {"none", "open", "deleted"},
               canvas  : 0..MaxResets,   \* its active canvas, by number
               created : Clock,
               window  : Clock,          \* quota_window_started_at
               count   : Nat]            \* hybrid_run_count

\* lease: "none" when the lease columns are null, else whether
\* lease_expires_at lies ahead.
RunStatus == {"absent", "queued", "running", "patch_ready",
              "completed", "failed", "cancelled"}
NonTerminal == {"queued", "running", "patch_ready"}
RunRow == [status    : RunStatus,
           session   : Sessions \cup {NoSession},
           canvas    : 0..MaxResets,
           hybrid    : BOOLEAN,
           attempt   : 0..MaxAttempts,
           lease     : {"none", "live", "expired"},
           cancel    : BOOLEAN,
           retryable : BOOLEAN]

Absent == [status |-> "absent", session |-> NoSession, canvas |-> 0,
           hybrid |-> FALSE, attempt |-> 0, lease |-> "none",
           cancel |-> FALSE, retryable |-> FALSE]

\* owner: who holds the session row; listed: the run rows it locked; live:
\* those of them that had a live lease at the instant it read as `now`.
Txn == [owner  : Cleaners \cup {"none", "reset"},
        listed : SUBSET Runs,
        live   : SUBSET Runs]
NoTxn == [owner |-> "none", listed |-> {}, live |-> {}]

Creation == [session : Sessions \cup {NoSession}, hybrid : BOOLEAN, at : Clock]
NotCreated == [session |-> NoSession, hybrid |-> FALSE, at |-> 0]

Init ==
  /\ clock = 0
  /\ session = [s \in Sessions |-> [state |-> "none", canvas |-> 0,
                                    created |-> 0, window |-> 0, count |-> 0]]
  /\ canvases = {}
  /\ run = [r \in Runs |-> Absent]
  /\ hourly = [h \in Clock |-> 0]
  /\ txn = [s \in Sessions |-> NoTxn]
  /\ attempted = [c \in Cleaners |-> {}]
  /\ authorized = {}
  /\ created = [r \in Runs |-> NotCreated]
  /\ aborts = 0

Open(s) == session[s].state = "open"
Expired(s) == session[s].created + SessionTicks <= clock
SessionLocked(s) == txn[s].owner # "none"
RunLocked(r) == \E s \in Sessions : r \in txn[s].listed
RunsOf(s) == {r \in Runs : run[r].session = s}

SetRun(r, row) == run' = [run EXCEPT ![r] = row]
SetSession(s, row) == session' = [session EXCEPT ![s] = row]

------------------------------------------------------------------------------
(* The visitor: a session, and runs within its quota.                      *)

\* The bound leaves every session the time to expire.
Bootstrap(s) ==
  /\ session[s].state = "none"
  /\ clock + SessionTicks <= MaxClock
  /\ SetSession(s, [state |-> "open", canvas |-> 0, created |-> clock,
                    window |-> clock, count |-> 0])
  /\ canvases' = canvases \cup {<<s, 0>>}
  /\ UNCHANGED <<clock, run, hourly, txn, attempted, authorized, created, aborts>>

WindowOver(s) == clock >= session[s].window + WindowTicks
CountNow(s) == IF WindowOver(s) THEN 0 ELSE session[s].count
WindowNow(s) == IF WindowOver(s) THEN clock ELSE session[s].window
Hour == clock \div HourTicks

ActiveHybrid(s) ==
  {r \in RunsOf(s) : run[r].hybrid /\ run[r].status \in {"queued", "running"}}

\* consume_hybrid_quota: a refusal raises and rolls everything back
ConsumeHybridQuota(s) ==
  /\ Cardinality(ActiveHybrid(s)) < ConcurrentLimit
  /\ CountNow(s) < HybridLimit
  /\ hourly[Hour] < GlobalLimit
  /\ SetSession(s, [session[s] EXCEPT !.window = WindowNow(s),
                                      !.count = CountNow(s) + 1])
  /\ hourly' = [hourly EXCEPT ![Hour] = @ + 1]

\* Seeded fault: the session's canvas is not compared under the lock.
MayCreateAnywhere(s, canvas) ==
  /\ Open(s)
  /\ ~SessionLocked(s)
  /\ ~Expired(s)

\* The canvas is the one the request was authorized for, before the lock.
MayCreate(s, canvas) ==
  /\ Open(s)
  /\ ~SessionLocked(s)
  /\ ~Expired(s)
  /\ session[s].canvas = canvas

Queued(s, canvas, hybrid) ==
  [status |-> "queued", session |-> s, canvas |-> canvas, hybrid |-> hybrid,
   attempt |-> 0, lease |-> "none", cancel |-> FALSE, retryable |-> FALSE]

\* a fresh uuid: no row has it, none has had it
InsertRun(r, s, canvas, hybrid) ==
  /\ run[r].status = "absent"
  /\ created[r] = NotCreated
  /\ SetRun(r, Queued(s, canvas, hybrid))
  /\ created' = [created EXCEPT ![r] =
                   [session |-> s, hybrid |-> hybrid, at |-> clock]]
  /\ UNCHANGED <<clock, canvases, txn, attempted, authorized, aborts>>

\* create_generation_run, and regenerate_graph_patch with the same checks
CreateHybridRun(r, s, canvas) ==
  /\ MayCreate(s, canvas)
  /\ ConsumeHybridQuota(s)
  /\ InsertRun(r, s, canvas, TRUE)

CreateReplayRun(r, s, canvas) ==
  /\ MayCreate(s, canvas)
  /\ InsertRun(r, s, canvas, FALSE)
  /\ UNCHANGED <<session, hourly>>

\* authorize_run reads without a lock; the request acts later, or is dropped.
Authorize(r) ==
  /\ \E s \in Sessions : /\ run[r].session = s
                         /\ Open(s)
                         /\ ~Expired(s)
  /\ r \notin authorized
  /\ authorized' = authorized \cup {r}
  /\ UNCHANGED <<clock, session, canvases, run, hourly, txn, attempted, created,
                 aborts>>

Answered(r) ==
  /\ r \in authorized
  /\ authorized' = authorized \ {r}
  /\ UNCHANGED <<clock, session, canvases, hourly, txn, attempted, created, aborts>>

\* an answer that changes nothing (404, 409, or the outcome is there already),
\* or a request that died
DropRequest(r) == Answered(r) /\ UNCHANGED run

CancelRun(r) ==
  /\ Answered(r)
  /\ ~RunLocked(r)
  /\ \/ /\ run[r].status = "queued"
        /\ SetRun(r, [run[r] EXCEPT !.status = "cancelled", !.cancel = TRUE])
     \/ /\ run[r].status = "running"
        /\ SetRun(r, [run[r] EXCEPT !.cancel = TRUE])

RetryRun(r) ==
  /\ Answered(r)
  /\ ~RunLocked(r)
  /\ run[r].status = "failed"
  /\ run[r].retryable
  /\ run[r].lease = "none"
  /\ run[r].attempt < MaxAttempts
  /\ SetRun(r, [run[r] EXCEPT !.status = "queued", !.cancel = FALSE,
                              !.retryable = FALSE])

------------------------------------------------------------------------------
(* The workers, as far as the run's row shows them.                        *)

WorkerWrites(r, row) ==
  /\ ~RunLocked(r)
  /\ SetRun(r, row)
  /\ UNCHANGED <<clock, session, canvases, hourly, txn, attempted, authorized,
                 created, aborts>>

Left(r, status) == [run[r] EXCEPT !.status = status, !.lease = "none"]

\* Seeded fault: the claim forgets max_attempts.
ClaimAlways(r) ==
  /\ \/ run[r].status = "queued"
     \/ run[r].status = "running" /\ run[r].lease = "expired"
  /\ WorkerWrites(r, [run[r] EXCEPT !.status = "running", !.lease = "live",
                                    !.attempt = @ + 1])

ClaimRun(r) ==
  /\ run[r].attempt < MaxAttempts
  /\ \/ run[r].status = "queued"
     \/ run[r].status = "running" /\ run[r].lease = "expired"
  /\ WorkerWrites(r, [run[r] EXCEPT !.status = "running", !.lease = "live",
                                    !.attempt = @ + 1])

FinalizeCancelled(r) ==
  /\ run[r].status = "running"
  /\ run[r].lease = "live"
  /\ run[r].cancel
  /\ WorkerWrites(r, Left(r, "cancelled"))

FailRun(r) ==
  /\ run[r].status = "running"
  /\ run[r].lease = "live"
  /\ \E retryable \in BOOLEAN :
       /\ retryable => run[r].attempt < MaxAttempts
       /\ WorkerWrites(r, [Left(r, "failed") EXCEPT !.retryable = retryable])

PersistPatch(r) ==
  /\ run[r].status = "running"
  /\ run[r].lease = "live"
  /\ ~run[r].cancel
  /\ WorkerWrites(r, [run[r] EXCEPT !.status = "patch_ready"])

CompleteRun(r) ==
  /\ run[r].status = "patch_ready"
  /\ run[r].lease = "live"
  /\ WorkerWrites(r, Left(r, "completed"))

RecoverPatchReady(r) ==
  /\ run[r].status = "patch_ready"
  /\ run[r].lease = "expired"
  /\ WorkerWrites(r, [run[r] EXCEPT !.lease = "live"])

TerminalizeExhausted(r) ==
  /\ run[r].attempt >= MaxAttempts
  /\ \/ run[r].status = "queued"
     \/ run[r].status \in {"running", "patch_ready"} /\ run[r].lease = "expired"
  /\ WorkerWrites(r, Left(r, "failed"))

------------------------------------------------------------------------------
(* Reset and cleanup.                                                      *)

\* fence_and_terminalize_run
Fenced(row, status) ==
  [row EXCEPT !.status = status, !.lease = "none",
              !.cancel = @ \/ status = "cancelled"]

\* delete_canvas: the database deletes the canvas's runs with it
WithoutCanvas(rows, s, canvas) ==
  [r \in Runs |-> IF rows[r].session = s /\ rows[r].canvas = canvas
                    THEN Absent ELSE rows[r]]

Close(s) == txn' = [txn EXCEPT ![s] = NoTxn]

BeginReset(s) ==
  /\ Open(s)
  /\ ~SessionLocked(s)
  /\ ~Expired(s)
  /\ session[s].canvas < MaxResets
  /\ txn' = [txn EXCEPT ![s] =
               [owner |-> "reset", live |-> {},
                listed |-> {r \in RunsOf(s) : /\ run[r].canvas = session[s].canvas
                                              /\ run[r].status \in NonTerminal}]]
  /\ UNCHANGED <<clock, session, canvases, run, hourly, attempted, authorized,
                 created, aborts>>

\* Seeded fault: the reset restores the quota.
EndResetWithQuota(s) ==
  LET old == session[s].canvas IN
  /\ txn[s].owner = "reset"
  /\ SetSession(s, [session[s] EXCEPT !.canvas = old + 1, !.count = 0])
  /\ canvases' = (canvases \ {<<s, old>>}) \cup {<<s, old + 1>>}
  /\ run' = WithoutCanvas(run, s, old)
  /\ Close(s)
  /\ UNCHANGED <<clock, hourly, attempted, authorized, created, aborts>>

EndReset(s) ==
  LET old == session[s].canvas
      ended == [r \in Runs |-> IF r \in txn[s].listed
                                 THEN Fenced(run[r], "cancelled") ELSE run[r]]
  IN
  /\ txn[s].owner = "reset"
  /\ SetSession(s, [session[s] EXCEPT !.canvas = old + 1])
  /\ canvases' = (canvases \ {<<s, old>>}) \cup {<<s, old + 1>>}
  /\ run' = WithoutCanvas(ended, s, old)
  /\ Close(s)
  /\ UNCHANGED <<clock, hourly, attempted, authorized, created, aborts>>

\* cleanup_expired_demo_sessions: the oldest expired sessions first, rows that
\* another transaction holds are skipped, no session twice in a pass.
Idle(c) == \A s \in Sessions : txn[s].owner # c

Candidates(c) ==
  {s \in Sessions \ attempted[c] : Open(s) /\ Expired(s) /\ ~SessionLocked(s)}

\* Seeded fault: the filter by session is forgotten.
ListedEverywhere(s) == {r \in Runs : run[r].status \in NonTerminal}

Listed(s) ==
  {r \in RunsOf(s) : run[r].status \in NonTerminal}

BeginCleanup(c, s) ==
  /\ Idle(c)
  /\ Cardinality(attempted[c]) < BatchSize
  /\ s \in Candidates(c)
  /\ \A t \in Candidates(c) : session[s].created <= session[t].created
  /\ attempted' = [attempted EXCEPT ![c] = @ \cup {s}]
  /\ txn' = [txn EXCEPT ![s] =
               [owner |-> c, listed |-> Listed(s),
                live |-> {r \in Listed(s) : run[r].lease = "live"}]]
  /\ UNCHANGED <<clock, session, canvases, run, hourly, authorized, created, aborts>>

EndPass(c) ==
  /\ Idle(c)
  /\ Candidates(c) = {} \/ Cardinality(attempted[c]) >= BatchSize
  /\ attempted' = [attempted EXCEPT ![c] = {}]
  /\ UNCHANGED <<clock, session, canvases, run, hourly, txn, authorized, created,
                 aborts>>

\* Seeded fault: a live owner is not asked to stop.
SweptSilently(s) ==
  [r \in Runs |->
     IF r \in txn[s].listed \ txn[s].live
       THEN Fenced(run[r], IF run[r].status = "patch_ready" THEN "completed"
                                                           ELSE "cancelled")
       ELSE run[r]]

\* The rows after the loop of _cleanup_locked_session.
Swept(s) ==
  [r \in Runs |->
     IF r \in txn[s].live
       THEN [run[r] EXCEPT !.cancel = TRUE]
     ELSE IF r \in txn[s].listed
       THEN Fenced(run[r], IF run[r].status = "patch_ready" THEN "completed"
                                                           ELSE "cancelled")
       ELSE run[r]]

KeepSession(s) ==
  /\ txn[s].owner \in Cleaners
  /\ txn[s].live # {}
  /\ run' = Swept(s)
  /\ Close(s)
  /\ UNCHANGED <<clock, session, canvases, hourly, attempted, authorized, created,
                 aborts>>

DeleteSession(s) ==
  /\ txn[s].owner \in Cleaners
  /\ txn[s].live = {}
  /\ SetSession(s, [session[s] EXCEPT !.state = "deleted"])
  /\ canvases' = canvases \ {<<s, session[s].canvas>>}
  /\ run' = WithoutCanvas(Swept(s), s, session[s].canvas)
  /\ Close(s)
  /\ UNCHANGED <<clock, hourly, attempted, authorized, created, aborts>>

------------------------------------------------------------------------------
(* The environment.                                                        *)

TimePasses ==
  /\ clock < MaxClock
  /\ clock' = clock + 1
  /\ UNCHANGED <<session, canvases, run, hourly, txn, attempted, authorized,
                 created, aborts>>

LeaseExpires(r) ==
  /\ run[r].lease = "live"
  /\ SetRun(r, [run[r] EXCEPT !.lease = "expired"])
  /\ UNCHANGED <<clock, session, canvases, hourly, txn, attempted, authorized,
                 created, aborts>>

\* A reset or cleanup dies and rolls back; a cleaner starts a new pass.
Abort(s) ==
  /\ SessionLocked(s)
  /\ aborts < MaxAborts
  /\ aborts' = aborts + 1
  /\ attempted' = [c \in Cleaners |-> IF c = txn[s].owner THEN {} ELSE attempted[c]]
  /\ Close(s)
  /\ UNCHANGED <<clock, session, canvases, run, hourly, authorized, created>>

------------------------------------------------------------------------------

Visitor(r) ==
  \/ \E s \in Sessions, canvas \in 0..MaxResets :
       CreateHybridRun(r, s, canvas) \/ CreateReplayRun(r, s, canvas)
  \/ Authorize(r) \/ CancelRun(r) \/ RetryRun(r) \/ DropRequest(r)

WorkerEnds(r) == FinalizeCancelled(r) \/ FailRun(r) \/ CompleteRun(r)

Worker(r) ==
  \/ ClaimRun(r) \/ PersistPatch(r) \/ WorkerEnds(r)
  \/ RecoverPatchReady(r) \/ TerminalizeExhausted(r)

Finish(s) == EndReset(s) \/ KeepSession(s) \/ DeleteSession(s)

Pass(c) == EndPass(c) \/ \E s \in Sessions : BeginCleanup(c, s)

Next ==
  \/ \E s \in Sessions : Bootstrap(s) \/ BeginReset(s) \/ Finish(s) \/ Abort(s)
  \/ \E r \in Runs : Visitor(r) \/ Worker(r) \/ LeaseExpires(r)
  \/ \E c \in Cleaners : Pass(c)
  \/ TimePasses

Spec == Init /\ [][Next]_vars

\* Processes that run the cleanup go on with it, an open transaction ends, and
\* a worker that was asked to stop does so or loses its lease.  Completing a
\* run whose patch is ready takes one transaction, which a recovery tries again
\* and again and another's lock only delays.  Nothing is assumed of claims,
\* retries or the clock.
Fairness ==
  /\ \A c \in Cleaners : WF_vars(Pass(c))
  /\ \A s \in Sessions : WF_vars(Finish(s))
  /\ \A r \in Runs : /\ WF_vars(/\ run[r].status = "running" /\ run[r].cancel
                                /\ WorkerEnds(r) \/ LeaseExpires(r))
                     /\ SF_vars(CompleteRun(r))

FairSpec == Spec /\ Fairness

------------------------------------------------------------------------------
(* Properties.                                                             *)

\* Types of every variable.
TypeOK ==
  /\ clock \in Clock
  /\ session \in [Sessions -> SessionRow]
  /\ canvases \subseteq Sessions \X (0..MaxResets)
  /\ run \in [Runs -> RunRow]
  /\ hourly \in [Clock -> Nat]
  /\ txn \in [Sessions -> Txn]
  /\ attempted \in [Cleaners -> SUBSET Sessions]
  /\ authorized \subseteq Runs
  /\ created \in [Runs -> Creation]
  /\ aborts \in 0..MaxAborts

\* Every run row belongs to an existing session and lies on its active canvas,
\* and the canvases that exist are the active ones.  Deletion relies on it: the
\* rows of a session go only with its canvas, and one that stayed would make
\* session.delete() fail on the foreign key, in this pass and in all to come.
RowsBelongToSession ==
  /\ \A r \in Runs : run[r].status # "absent" =>
       \E s \in Sessions : /\ run[r].session = s
                           /\ Open(s)
                           /\ run[r].canvas = session[s].canvas
  /\ canvases = {<<s, session[s].canvas>> : s \in {t \in Sessions : Open(t)}}

\* What an open reset or cleanup holds does not move under it: the session is
\* still open, and the run rows it listed are there and belong to that session,
\* so that it ends no other visitor's work and writes to no deleted row.
LockedRowsStay ==
  \A s \in Sessions :
    /\ txn[s].live \subseteq txn[s].listed
    /\ \A r \in txn[s].listed : run[r].status # "absent" /\ run[r].session = s
    /\ SessionLocked(s) => Open(s)
    /\ txn[s].owner = "reset" => session[s].canvas < MaxResets

Admitted(s, from, to) ==
  {r \in Runs : /\ created[r].session = s
                /\ created[r].hybrid
                /\ created[r].at \in from..to}

AdmittedInWindow(s) == Admitted(s, session[s].window, clock)

AdmittedInHour(h) ==
  {r \in Runs : created[r].hybrid /\ created[r].at \div HourTicks = h}

\* A session's counter is the number of hybrid runs it created since its window
\* began, whatever resets and deletions came in between, and the counter of a
\* clock hour is the number that all sessions, deleted ones too, created in it;
\* neither exceeds its limit (consume_hybrid_quota).
QuotasHold ==
  /\ \A s \in Sessions : Open(s) =>
       /\ session[s].count = Cardinality(AdmittedInWindow(s))
       /\ session[s].count <= HybridLimit
  /\ \A h \in Clock : /\ hourly[h] = Cardinality(AdmittedInHour(h))
                      /\ hourly[h] <= GlobalLimit

\* Every expired session is deleted in the end, whatever its runs are doing,
\* and also when a pass inspects fewer sessions than have expired.
ExpiredSessionsDeleted ==
  \A s \in Sessions : Open(s) /\ Expired(s) ~> session[s].state = "deleted"

\* README.md:250 "at most two active hybrid runs per session": refuted, since
\* retry_generation_run queues a failed run without the check of a creation.
ConcurrentRunLimit ==
  \A s \in Sessions : Cardinality(ActiveHybrid(s)) <= ConcurrentLimit

\* README.md:252 "a live worker receives cancellation and retains ownership until
\* its lease is safely fenced.  Only then are the canvas and session deleted":
\* refuted by a failed run, which the cleanup does not lock, that is retried and
\* claimed between its query and its deletion.
DeletedOnlyFenced ==
  [][\A s \in Sessions :
       Open(s) /\ session'[s].state = "deleted" =>
         \A r \in RunsOf(s) : run[r].lease # "live"]_vars

==============================================================================
