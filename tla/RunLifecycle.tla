----------------------------- MODULE RunLifecycle -----------------------------
(***************************************************************************)
(* What the generation queue promises of each run, with no workers, leases *)
(* or crashes: the job state machine of the run table.  GenerationQueue is *)
(* shown to implement it.                                                  *)
(***************************************************************************)
EXTENDS Naturals

CONSTANTS Runs, MaxAttempts

VARIABLES
  status,   \* the run's status
  attempt,  \* how often a worker has claimed it
  built     \* whether its candidate patch exists

lifecycleVars == <<status, attempt, built>>

LifecycleInit ==
  /\ status = [r \in Runs |-> "not_created"]
  /\ attempt = [r \in Runs |-> 0]
  /\ built = [r \in Runs |-> FALSE]

Move(r, from, to) ==
  /\ status[r] \in from
  /\ status' = [status EXCEPT ![r] = to]

Create(r) ==
  /\ Move(r, {"not_created"}, "queued")
  /\ UNCHANGED <<attempt, built>>

\* a first claim, a retry, or a takeover from a worker that lost its lease
Attempt(r) ==
  /\ attempt[r] < MaxAttempts
  /\ Move(r, {"queued", "running"}, "running")
  /\ attempt' = [attempt EXCEPT ![r] = @ + 1]
  /\ UNCHANGED built

Build(r) ==
  /\ Move(r, {"running"}, "patch_ready")
  /\ built' = [built EXCEPT ![r] = TRUE]
  /\ UNCHANGED attempt

Complete(r) ==
  /\ Move(r, {"patch_ready"}, "completed")
  /\ UNCHANGED <<attempt, built>>

Fail(r) ==
  /\ Move(r, {"running"}, "failed")
  /\ UNCHANGED <<attempt, built>>

\* no attempt is left: the run fails wherever it stands
Poison(r) ==
  /\ attempt[r] = MaxAttempts
  /\ Move(r, {"running", "patch_ready"}, "failed")
  /\ UNCHANGED <<attempt, built>>

Cancel(r) ==
  /\ Move(r, {"queued", "running"}, "cancelled")
  /\ UNCHANGED <<attempt, built>>

Retry(r) ==
  /\ attempt[r] < MaxAttempts
  /\ ~built[r]
  /\ Move(r, {"failed"}, "queued")
  /\ UNCHANGED <<attempt, built>>

LifecycleNext ==
  \E r \in Runs : \/ Create(r) \/ Attempt(r) \/ Build(r) \/ Complete(r)
                  \/ Fail(r) \/ Poison(r) \/ Cancel(r) \/ Retry(r)

LifecycleSpec == LifecycleInit /\ [][LifecycleNext]_lifecycleVars

==============================================================================
