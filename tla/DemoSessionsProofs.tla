------------------------- MODULE DemoSessionsProofs -------------------------
(***************************************************************************)
(* Theorems about DemoSessions: what holds of its rows and its quotas for  *)
(* all sets of sessions, runs and cleaners and all limits.                 *)
(***************************************************************************)
EXTENDS DemoSessions, FiniteSetTheorems, TLAPS

\* Rows, canvases and locks of sessions, together: inductive.
RowsInv == TypeOK /\ RowsBelongToSession /\ LockedRowsStay

------------------------------------------------------------------------------
(* Initial states.                                                         *)

LEMMA InitRows == ASSUME Init PROVE RowsInv
<1>1. TypeOK
  BY DemoAssumption DEF Init, TypeOK, Clock, SessionRow, RunRow, RunStatus, Absent,
     Txn, NoTxn, Creation, NotCreated
<1>2. RowsBelongToSession
  BY DEF Init, RowsBelongToSession, Absent, Open
<1>3. LockedRowsStay
  BY DEF Init, LockedRowsStay, NoTxn, SessionLocked
<1>4. QED  BY <1>1, <1>2, <1>3 DEF RowsInv

------------------------------------------------------------------------------
(* Actions that write one run row.                                         *)

\* A row that is rewritten in place stays where it was.
LEMMA RewriteRow ==
  ASSUME RowsInv, NEW r \in Runs, NEW row \in RunRow,
         row.session = run[r].session, row.canvas = run[r].canvas,
         run[r].status # "absent" => row.status # "absent",
         run[r].status = "absent" => row.status = "absent",
         SetRun(r, row), UNCHANGED <<session, canvases, txn>>
  PROVE  RowsBelongToSession' /\ LockedRowsStay' /\ run' \in [Runs -> RunRow]
<1>1. run' \in [Runs -> RunRow]
  BY DEF RowsInv, TypeOK, SetRun
<1>2. \A q \in Runs : /\ run'[q].session = run[q].session
                      /\ run'[q].canvas = run[q].canvas
                      /\ (run'[q].status = "absent") <=> (run[q].status = "absent")
  BY DEF RowsInv, TypeOK, SetRun
<1>3. RowsBelongToSession'
  BY <1>2 DEF RowsInv, RowsBelongToSession, Open
<1>4. LockedRowsStay'
  BY <1>2 DEF RowsInv, LockedRowsStay, TypeOK, Txn, SessionLocked, Open
<1>5. QED  BY <1>1, <1>3, <1>4

LEMMA WorkerRewrites ==
  ASSUME RowsInv, NEW r \in Runs, NEW row \in RunRow,
         row.session = run[r].session, row.canvas = run[r].canvas,
         run[r].status # "absent", row.status # "absent", WorkerWrites(r, row)
  PROVE  RowsInv'
BY RewriteRow DEF WorkerWrites, RowsInv, TypeOK

LEMMA WorkerKeepsRows ==
  ASSUME RowsInv, NEW r \in Runs, Worker(r)
  PROVE  RowsInv'
<1>t. run[r] \in RunRow
  BY DEF RowsInv, TypeOK
<1>n. MaxAttempts \in Nat
  BY DemoAssumption
<1>1. CASE ClaimRun(r)
  <2> DEFINE row == [run[r] EXCEPT !.status = "running", !.lease = "live",
                                   !.attempt = @ + 1]
  <2>0. run[r].attempt + 1 \in 0..MaxAttempts
    <3>1. run[r].attempt < MaxAttempts
      BY <1>1 DEF ClaimRun
    <3>2. QED  BY <1>t, <1>n, <3>1 DEF RunRow
  <2>1. row \in RunRow /\ row.status # "absent" /\ row.session = run[r].session
        /\ row.canvas = run[r].canvas
    BY <1>t, <1>n, <2>0 DEF RunRow, RunStatus
  <2>2. run[r].status # "absent" /\ WorkerWrites(r, row)
    BY <1>1 DEF ClaimRun
  <2>3. QED  BY <2>1, <2>2, WorkerRewrites
<1>2. CASE PersistPatch(r)
  <2> DEFINE row == [run[r] EXCEPT !.status = "patch_ready"]
  <2>1. row \in RunRow /\ row.status # "absent" /\ row.session = run[r].session
        /\ row.canvas = run[r].canvas
    BY <1>t DEF RunRow, RunStatus
  <2>2. run[r].status # "absent" /\ WorkerWrites(r, row)
    BY <1>2 DEF PersistPatch
  <2>3. QED  BY <2>1, <2>2, WorkerRewrites
<1>3. ASSUME NEW status \in {"failed", "cancelled", "completed"},
             run[r].status # "absent", WorkerWrites(r, Left(r, status))
      PROVE  RowsInv'
  <2>1. /\ Left(r, status) \in RunRow
        /\ Left(r, status).status # "absent"
        /\ Left(r, status).session = run[r].session
        /\ Left(r, status).canvas = run[r].canvas
    BY <1>t, <1>3 DEF Left, RunRow, RunStatus
  <2>2. QED  BY <1>3, <2>1, WorkerRewrites
<1>4. CASE FinalizeCancelled(r)
  BY <1>3, <1>4 DEF FinalizeCancelled
<1>5. CASE FailRun(r)
  <2>1. PICK retryable \in BOOLEAN :
          WorkerWrites(r, [Left(r, "failed") EXCEPT !.retryable = retryable])
    BY <1>5 DEF FailRun
  <2> DEFINE row == [Left(r, "failed") EXCEPT !.retryable = retryable]
  <2>2. row \in RunRow /\ row.status # "absent" /\ row.session = run[r].session
        /\ row.canvas = run[r].canvas
    BY <1>t DEF Left, RunRow, RunStatus
  <2>3. run[r].status # "absent"
    BY <1>5 DEF FailRun
  <2>4. QED  BY <2>1, <2>2, <2>3, WorkerRewrites
<1>6. CASE CompleteRun(r)
  BY <1>3, <1>6 DEF CompleteRun
<1>7. CASE RecoverPatchReady(r)
  <2> DEFINE row == [run[r] EXCEPT !.lease = "live"]
  <2>1. row \in RunRow /\ row.status = run[r].status
        /\ row.session = run[r].session /\ row.canvas = run[r].canvas
    BY <1>t DEF RunRow, RunStatus
  <2>2. run[r].status # "absent" /\ WorkerWrites(r, row)
    BY <1>7 DEF RecoverPatchReady
  <2>3. QED  BY <2>1, <2>2, WorkerRewrites
<1>8. CASE TerminalizeExhausted(r)
  BY <1>3, <1>8 DEF TerminalizeExhausted
<1>9. QED
  BY <1>1, <1>2, <1>4, <1>5, <1>6, <1>7, <1>8 DEF Worker, WorkerEnds

LEMMA LeaseExpiryKeepsRows ==
  ASSUME RowsInv, NEW r \in Runs, LeaseExpires(r)
  PROVE  RowsInv'
<1> DEFINE row == [run[r] EXCEPT !.lease = "expired"]
<1>1. row \in RunRow /\ row.status = run[r].status /\ row.session = run[r].session
      /\ row.canvas = run[r].canvas
  BY DEF RowsInv, TypeOK, RunRow
<1>2. SetRun(r, row) /\ UNCHANGED <<session, canvases, txn>>
  BY DEF LeaseExpires
<1>3. RowsBelongToSession' /\ LockedRowsStay' /\ run' \in [Runs -> RunRow]
  <2> HIDE DEF row
  <2> QED  BY <1>1, <1>2, RewriteRow
<1>4. QED
  BY <1>3 DEF LeaseExpires, RowsInv, TypeOK

\* Cancel and retry act on a run that exists.
LEMMA RequestKeepsRows ==
  ASSUME RowsInv, NEW r \in Runs, CancelRun(r) \/ RetryRun(r)
  PROVE  RowsInv'
<1>t. run[r] \in RunRow
  BY DEF RowsInv, TypeOK
<1>1. ASSUME NEW row \in RunRow, run[r].status # "absent", row.status # "absent",
             row.session = run[r].session, row.canvas = run[r].canvas,
             Answered(r), SetRun(r, row)
      PROVE  RowsInv'
  <2>1. RowsBelongToSession' /\ LockedRowsStay' /\ run' \in [Runs -> RunRow]
    BY <1>1, RewriteRow DEF Answered
  <2>2. QED  BY <1>1, <2>1 DEF Answered, RowsInv, TypeOK
<1>2. CASE CancelRun(r) /\ run[r].status = "queued"
  <2> DEFINE row == [run[r] EXCEPT !.status = "cancelled", !.cancel = TRUE]
  <2>1. row \in RunRow /\ row.status # "absent" /\ row.session = run[r].session
        /\ row.canvas = run[r].canvas
    BY <1>t DEF RunRow, RunStatus
  <2>2. Answered(r) /\ SetRun(r, row) /\ run[r].status # "absent"
    BY <1>2 DEF CancelRun
  <2>3. QED  BY <1>1, <2>1, <2>2
<1>3. CASE CancelRun(r) /\ run[r].status = "running"
  <2> DEFINE row == [run[r] EXCEPT !.cancel = TRUE]
  <2>1. row \in RunRow /\ row.status = run[r].status /\ row.session = run[r].session
        /\ row.canvas = run[r].canvas
    BY <1>t DEF RunRow, RunStatus
  <2>2. Answered(r) /\ SetRun(r, row) /\ run[r].status # "absent"
    BY <1>3 DEF CancelRun
  <2>3. QED  BY <1>1, <2>1, <2>2
<1>4. CASE RetryRun(r)
  <2> DEFINE row == [run[r] EXCEPT !.status = "queued", !.cancel = FALSE,
                                   !.retryable = FALSE]
  <2>1. row \in RunRow /\ row.status # "absent" /\ row.session = run[r].session
        /\ row.canvas = run[r].canvas
    BY <1>t DEF RunRow, RunStatus
  <2>2. Answered(r) /\ SetRun(r, row) /\ run[r].status # "absent"
    BY <1>4 DEF RetryRun
  <2>3. QED  BY <1>1, <2>1, <2>2
<1>5. QED  BY <1>2, <1>3, <1>4 DEF CancelRun

------------------------------------------------------------------------------
(* The visitor's other actions.                                            *)

LEMMA BootstrapKeepsRows ==
  ASSUME RowsInv, NEW s \in Sessions, Bootstrap(s)
  PROVE  RowsInv'
<1> DEFINE fresh == [state |-> "open", canvas |-> 0, created |-> clock,
                     window |-> clock, count |-> 0]
<1>1. fresh \in SessionRow /\ fresh.state = "open" /\ fresh.canvas = 0
  BY DemoAssumption DEF RowsInv, TypeOK, SessionRow
<1>2. /\ session' = [session EXCEPT ![s] = fresh]
      /\ session[s].state = "none"
      /\ canvases' = canvases \cup {<<s, 0>>}
      /\ UNCHANGED <<clock, run, hourly, txn, attempted, authorized, created, aborts>>
  BY DEF Bootstrap, SetSession
<1> HIDE DEF fresh
<1>3. session' \in [Sessions -> SessionRow] /\ session'[s] = fresh
      /\ \A t \in Sessions \ {s} : session'[t] = session[t]
  BY <1>1, <1>2 DEF RowsInv, TypeOK
<1>4. TypeOK'
  BY <1>2, <1>3, DemoAssumption DEF RowsInv, TypeOK
<1>5. ASSUME NEW r \in Runs, run'[r].status # "absent"
      PROVE  \E t \in Sessions : /\ run'[r].session = t
                                 /\ session'[t].state = "open"
                                 /\ run'[r].canvas = session'[t].canvas
  BY <1>2, <1>3, <1>5 DEF RowsInv, RowsBelongToSession, Open
<1>6. canvases' = {<<t, session'[t].canvas>> :
                     t \in {u \in Sessions : session'[u].state = "open"}}
  BY <1>1, <1>2, <1>3 DEF RowsInv, RowsBelongToSession, Open
<1>7. RowsBelongToSession'
  BY <1>5, <1>6 DEF RowsBelongToSession, Open
<1>8. LockedRowsStay'
  BY <1>1, <1>2, <1>3 DEF RowsInv, LockedRowsStay, SessionLocked, Open
<1>9. QED  BY <1>4, <1>7, <1>8 DEF RowsInv

\* A new row lies on the canvas that its session has under the lock.
LEMMA InsertionKeepsRows ==
  ASSUME RowsInv, NEW r \in Runs, NEW s \in Sessions, NEW canvas \in 0..MaxResets,
         NEW hybrid \in BOOLEAN, MayCreate(s, canvas), InsertRun(r, s, canvas, hybrid),
         session' \in [Sessions -> SessionRow],
         \A t \in Sessions : /\ session'[t].state = session[t].state
                             /\ session'[t].canvas = session[t].canvas,
         hourly' \in [Clock -> Nat]
  PROVE  RowsInv'
<1> DEFINE row == Queued(s, canvas, hybrid)
           creation == [session |-> s, hybrid |-> hybrid, at |-> clock]
<1>1. /\ row \in RunRow
      /\ row.status # "absent"
      /\ row.session = s
      /\ row.canvas = canvas
  BY DemoAssumption DEF Queued, RunRow, RunStatus
<1>2. creation \in Creation
  BY DEF RowsInv, TypeOK, Creation
<1>3. /\ run' = [run EXCEPT ![r] = row]
      /\ created' = [created EXCEPT ![r] = creation]
      /\ UNCHANGED <<clock, canvases, txn, attempted, authorized, aborts>>
      /\ run[r].status = "absent"
      /\ session[s].state = "open"
      /\ session[s].canvas = canvas
  BY DEF InsertRun, SetRun, MayCreate, Open
<1> HIDE DEF row, creation
<1>4. run' \in [Runs -> RunRow] /\ run'[r] = row
      /\ \A q \in Runs \ {r} : run'[q] = run[q]
  BY <1>1, <1>3 DEF RowsInv, TypeOK
<1>5. TypeOK'
  BY <1>2, <1>3, <1>4 DEF RowsInv, TypeOK, Clock
<1>6. ASSUME NEW q \in Runs, run'[q].status # "absent"
      PROVE  \E t \in Sessions : /\ run'[q].session = t
                                 /\ session'[t].state = "open"
                                 /\ run'[q].canvas = session'[t].canvas
  BY <1>1, <1>3, <1>4, <1>6 DEF RowsInv, RowsBelongToSession, Open
<1>7. RowsBelongToSession'
  BY <1>3, <1>6 DEF RowsInv, RowsBelongToSession, Open
<1>8. LockedRowsStay'
  BY <1>3, <1>4 DEF RowsInv, LockedRowsStay, SessionLocked, Open, TypeOK, Txn
<1>9. QED  BY <1>5, <1>7, <1>8 DEF RowsInv

------------------------------------------------------------------------------
(* Reset and cleanup.                                                      *)

\* Taking the lock on a session, with rows of its own.
LEMMA LockKeepsRows ==
  ASSUME RowsInv, NEW s \in Sessions, NEW owner \in Cleaners \cup {"reset"},
         NEW listed \in SUBSET Runs, NEW live \in SUBSET listed,
         Open(s), owner = "reset" => session[s].canvas < MaxResets,
         \A r \in listed : run[r].status # "absent" /\ run[r].session = s,
         txn' = [txn EXCEPT ![s] = [owner |-> owner, listed |-> listed, live |-> live]],
         UNCHANGED <<session, canvases, run>>
  PROVE  RowsBelongToSession' /\ LockedRowsStay' /\ txn' \in [Sessions -> Txn]
<1> DEFINE held == [owner |-> owner, listed |-> listed, live |-> live]
<1>1. held \in Txn /\ held.owner = owner /\ held.listed = listed /\ held.live = live
  BY DEF Txn
<1>2. txn' = [txn EXCEPT ![s] = held]
  OBVIOUS
<1> HIDE DEF held
<1>3. txn' \in [Sessions -> Txn] /\ txn'[s] = held
      /\ \A t \in Sessions \ {s} : txn'[t] = txn[t]
  BY <1>1, <1>2 DEF RowsInv, TypeOK
<1>4. RowsBelongToSession'
  BY DEF RowsInv, RowsBelongToSession, Open
<1>5. LockedRowsStay'
  BY <1>1, <1>3 DEF RowsInv, LockedRowsStay, SessionLocked, Open
<1>6. QED  BY <1>3, <1>4, <1>5

\* Giving it back, with nothing changed.
LEMMA UnlockKeepsLocks ==
  ASSUME RowsInv, NEW s \in Sessions, Close(s)
  PROVE  /\ txn' \in [Sessions -> Txn]
         /\ txn'[s].owner = "none" /\ txn'[s].listed = {} /\ txn'[s].live = {}
         /\ \A t \in Sessions \ {s} : txn'[t] = txn[t]
<1>1. NoTxn \in Txn /\ NoTxn.owner = "none" /\ NoTxn.listed = {} /\ NoTxn.live = {}
  BY DEF NoTxn, Txn
<1>2. QED  BY <1>1 DEF Close, RowsInv, TypeOK

LEMMA AbortKeepsRows ==
  ASSUME RowsInv, NEW s \in Sessions, Abort(s)
  PROVE  RowsInv'
<1>1. Close(s) /\ UNCHANGED <<clock, session, canvases, run, hourly, authorized, created>>
  BY DEF Abort
<1>2. TypeOK'
  BY <1>1, UnlockKeepsLocks, DemoAssumption DEF Abort, RowsInv, TypeOK
<1>3. RowsBelongToSession'
  BY <1>1 DEF RowsInv, RowsBelongToSession, Open
<1>4. LockedRowsStay'
  BY <1>1, UnlockKeepsLocks DEF RowsInv, LockedRowsStay, SessionLocked, Open
<1>5. QED  BY <1>2, <1>3, <1>4 DEF RowsInv

LEMMA BeginResetKeepsRows ==
  ASSUME RowsInv, NEW s \in Sessions, BeginReset(s)
  PROVE  RowsInv'
<1> DEFINE listed == {r \in RunsOf(s) : /\ run[r].canvas = session[s].canvas
                                        /\ run[r].status \in NonTerminal}
<1>1. /\ txn' = [txn EXCEPT ![s] = [owner |-> "reset", listed |-> listed, live |-> {}]]
      /\ Open(s)
      /\ session[s].canvas < MaxResets
      /\ UNCHANGED <<clock, session, canvases, run, hourly, attempted, authorized,
                     created, aborts>>
  BY DEF BeginReset
<1>2. /\ listed \in SUBSET Runs
      /\ \A r \in listed : run[r].status # "absent" /\ run[r].session = s
  BY DEF RunsOf, NonTerminal
<1> HIDE DEF listed
<1>3. RowsBelongToSession' /\ LockedRowsStay' /\ txn' \in [Sessions -> Txn]
  <2>1. "reset" \in Cleaners \cup {"reset"} /\ {} \in SUBSET listed
    OBVIOUS
  <2>2. UNCHANGED <<session, canvases, run>>
    BY <1>1
  <2>3. QED  BY <1>1, <1>2, <2>1, <2>2, LockKeepsRows
<1>4. QED  BY <1>1, <1>3 DEF RowsInv, TypeOK

LEMMA BeginCleanupKeepsRows ==
  ASSUME RowsInv, NEW c \in Cleaners, NEW s \in Sessions, BeginCleanup(c, s)
  PROVE  RowsInv'
<1> DEFINE listed == Listed(s)
           live == {r \in listed : run[r].lease = "live"}
<1>1. /\ txn' = [txn EXCEPT ![s] = [owner |-> c, listed |-> listed, live |-> live]]
      /\ Open(s)
      /\ attempted' = [attempted EXCEPT ![c] = @ \cup {s}]
      /\ UNCHANGED <<clock, session, canvases, run, hourly, authorized, created, aborts>>
  BY DEF BeginCleanup, Candidates
<1>2. /\ listed \in SUBSET Runs
      /\ live \in SUBSET listed
      /\ \A r \in listed : run[r].status # "absent" /\ run[r].session = s
  BY DEF Listed, RunsOf, NonTerminal
<1>3. c \in Cleaners \cup {"reset"} /\ c # "reset"
  BY DemoAssumption
<1> HIDE DEF listed, live
<1>4. RowsBelongToSession' /\ LockedRowsStay' /\ txn' \in [Sessions -> Txn]
  BY <1>1, <1>2, <1>3, LockKeepsRows
<1>5. QED  BY <1>1, <1>4 DEF RowsInv, TypeOK

\* What ending or cancelling the listed rows may do to any row.
KeepsPlace(rows) ==
  /\ rows \in [Runs -> RunRow]
  /\ \A r \in Runs : /\ rows[r].session = run[r].session
                     /\ rows[r].canvas = run[r].canvas
                     /\ (rows[r].status = "absent") <=> (run[r].status = "absent")

LEMMA FencedRow ==
  ASSUME NEW row \in RunRow, NEW status \in RunStatus
  PROVE  /\ Fenced(row, status) \in RunRow
         /\ Fenced(row, status).session = row.session
         /\ Fenced(row, status).canvas = row.canvas
         /\ Fenced(row, status).status = status
BY DEF Fenced, RunRow

LEMMA SweptKeepsPlace ==
  ASSUME RowsInv, NEW s \in Sessions
  PROVE  KeepsPlace(Swept(s))
<1>1. ASSUME NEW r \in Runs
      PROVE  /\ Swept(s)[r] \in RunRow
             /\ Swept(s)[r].session = run[r].session
             /\ Swept(s)[r].canvas = run[r].canvas
             /\ (Swept(s)[r].status = "absent") <=> (run[r].status = "absent")
  <2>t. run[r] \in RunRow
    BY DEF RowsInv, TypeOK
  <2>1. CASE r \in txn[s].live
    <3>1. Swept(s)[r] = [run[r] EXCEPT !.cancel = TRUE]
      BY <2>1 DEF Swept
    <3>2. QED  BY <2>t, <3>1 DEF RunRow
  <2>2. CASE r \notin txn[s].live /\ r \in txn[s].listed
    <3> DEFINE status == IF run[r].status = "patch_ready" THEN "completed"
                                                          ELSE "cancelled"
    <3>1. Swept(s)[r] = Fenced(run[r], status)
      BY <2>2 DEF Swept
    <3>2. status \in RunStatus /\ status # "absent" /\ run[r].status # "absent"
      BY <2>2 DEF RunStatus, RowsInv, LockedRowsStay
    <3> HIDE DEF status
    <3>3. QED  BY <2>t, <3>1, <3>2, FencedRow
  <2>3. CASE r \notin txn[s].live /\ r \notin txn[s].listed
    BY <2>t, <2>3 DEF Swept
  <2>4. QED  BY <2>1, <2>2, <2>3
<1>2. Swept(s) \in [Runs -> RunRow]
  <2>1. Swept(s) = [r \in Runs |-> Swept(s)[r]]
    BY DEF Swept
  <2>2. QED  BY <1>1, <2>1
<1>3. QED  BY <1>1, <1>2 DEF KeepsPlace

LEMMA KeepSessionKeepsRows ==
  ASSUME RowsInv, NEW s \in Sessions, KeepSession(s)
  PROVE  RowsInv'
<1>1. /\ Close(s)
      /\ KeepsPlace(run')
      /\ UNCHANGED <<clock, session, canvases, hourly, attempted, authorized, created,
                     aborts>>
  BY SweptKeepsPlace DEF KeepSession
<1>2. TypeOK'
  BY <1>1, UnlockKeepsLocks DEF KeepsPlace, RowsInv, TypeOK
<1>3. RowsBelongToSession'
  BY <1>1 DEF KeepsPlace, RowsInv, RowsBelongToSession, Open
<1>4. LockedRowsStay'
  <2>1. ASSUME NEW t \in Sessions, NEW r \in txn'[t].listed
        PROVE  run'[r].status # "absent" /\ run'[r].session = t
    <3>1. t # s /\ r \in txn[t].listed
      BY <1>1, <2>1, UnlockKeepsLocks
    <3>2. r \in Runs /\ run[r].status # "absent" /\ run[r].session = t
      BY <3>1 DEF RowsInv, LockedRowsStay, TypeOK, Txn
    <3>3. QED  BY <1>1, <3>2 DEF KeepsPlace
  <2>2. QED
    BY <1>1, <2>1, UnlockKeepsLocks DEF RowsInv, LockedRowsStay, SessionLocked, Open
<1>5. QED  BY <1>2, <1>3, <1>4 DEF RowsInv

\* With its active canvas a session loses all its runs, and no other does.
LEMMA CanvasDeletion ==
  ASSUME RowsInv, NEW s \in Sessions, Open(s), NEW rows, KeepsPlace(rows),
         NEW after, after = WithoutCanvas(rows, s, session[s].canvas)
  PROVE  /\ after \in [Runs -> RunRow]
         /\ \A r \in Runs :
              \/ after[r].status = "absent" /\ run[r].session = s
              \/ /\ run[r].session # s \/ run[r].status = "absent"
                 /\ after[r].session = run[r].session
                 /\ after[r].canvas = run[r].canvas
                 /\ (after[r].status = "absent") <=> (run[r].status = "absent")
<1>1. Absent \in RunRow /\ Absent.status = "absent"
  BY DemoAssumption DEF Absent, RunRow, RunStatus
<1>2. \A r \in Runs : after[r] = IF rows[r].session = s /\ rows[r].canvas = session[s].canvas
                                   THEN Absent ELSE rows[r]
  BY DEF WithoutCanvas
<1>3. after \in [Runs -> RunRow]
  BY <1>1 DEF WithoutCanvas, KeepsPlace
<1>4. ASSUME NEW r \in Runs
      PROVE  \/ after[r].status = "absent" /\ run[r].session = s
             \/ /\ run[r].session # s \/ run[r].status = "absent"
                /\ after[r].session = run[r].session
                /\ after[r].canvas = run[r].canvas
                /\ (after[r].status = "absent") <=> (run[r].status = "absent")
  <2>1. run[r].status # "absent" /\ run[r].session = s => run[r].canvas = session[s].canvas
    BY DEF RowsInv, RowsBelongToSession
  <2>2. QED  BY <1>1, <1>2, <2>1 DEF KeepsPlace
<1>5. QED  BY <1>3, <1>4

LEMMA DeleteSessionKeepsRows ==
  ASSUME RowsInv, NEW s \in Sessions, DeleteSession(s)
  PROVE  RowsInv'
<1> DEFINE gone == [session[s] EXCEPT !.state = "deleted"]
<1>o. Open(s)
  BY DemoAssumption DEF DeleteSession, RowsInv, LockedRowsStay, SessionLocked
<1>1. /\ Close(s)
      /\ session' = [session EXCEPT ![s] = gone]
      /\ canvases' = canvases \ {<<s, session[s].canvas>>}
      /\ UNCHANGED <<clock, hourly, attempted, authorized, created, aborts>>
  BY DEF DeleteSession, SetSession
<1>2. gone \in SessionRow /\ gone.state = "deleted"
  BY DEF RowsInv, TypeOK, SessionRow
<1> HIDE DEF gone
<1>3. session' \in [Sessions -> SessionRow] /\ session'[s] = gone
      /\ \A t \in Sessions \ {s} : session'[t] = session[t]
  BY <1>1, <1>2 DEF RowsInv, TypeOK
<1>4. /\ run' \in [Runs -> RunRow]
      /\ \A r \in Runs :
           \/ run'[r].status = "absent" /\ run[r].session = s
           \/ /\ run[r].session # s \/ run[r].status = "absent"
              /\ run'[r].session = run[r].session
              /\ run'[r].canvas = run[r].canvas
              /\ (run'[r].status = "absent") <=> (run[r].status = "absent")
  BY <1>o, SweptKeepsPlace, CanvasDeletion DEF DeleteSession
<1>5. TypeOK'
  BY <1>1, <1>3, <1>4, UnlockKeepsLocks DEF RowsInv, TypeOK
<1>6. ASSUME NEW r \in Runs, run'[r].status # "absent"
      PROVE  \E t \in Sessions : /\ run'[r].session = t
                                 /\ session'[t].state = "open"
                                 /\ run'[r].canvas = session'[t].canvas
  BY <1>3, <1>4, <1>6 DEF RowsInv, RowsBelongToSession, Open
<1>7. canvases' = {<<t, session'[t].canvas>> :
                     t \in {u \in Sessions : session'[u].state = "open"}}
  BY <1>1, <1>2, <1>3 DEF RowsInv, RowsBelongToSession, Open
<1>8. RowsBelongToSession'
  BY <1>6, <1>7 DEF RowsBelongToSession, Open
<1>9. LockedRowsStay'
  <2>1. ASSUME NEW t \in Sessions, NEW r \in txn'[t].listed
        PROVE  run'[r].status # "absent" /\ run'[r].session = t
    <3>1. t # s /\ r \in txn[t].listed
      BY <1>1, <2>1, UnlockKeepsLocks
    <3>2. r \in Runs /\ run[r].status # "absent" /\ run[r].session = t
      BY <3>1 DEF RowsInv, LockedRowsStay, TypeOK, Txn
    <3>3. QED  BY <1>4, <3>1, <3>2
  <2>2. QED
    BY <1>1, <1>3, <2>1, UnlockKeepsLocks
       DEF RowsInv, LockedRowsStay, SessionLocked, Open
<1>10. QED  BY <1>5, <1>8, <1>9 DEF RowsInv

LEMMA EndResetKeepsRows ==
  ASSUME RowsInv, NEW s \in Sessions, EndReset(s)
  PROVE  RowsInv'
<1> DEFINE old == session[s].canvas
           moved == [session[s] EXCEPT !.canvas = old + 1]
           ended == [r \in Runs |-> IF r \in txn[s].listed
                                      THEN Fenced(run[r], "cancelled") ELSE run[r]]
<1>o. Open(s) /\ old < MaxResets
  BY DEF EndReset, RowsInv, LockedRowsStay, SessionLocked
<1>1. /\ Close(s)
      /\ session' = [session EXCEPT ![s] = moved]
      /\ canvases' = (canvases \ {<<s, old>>}) \cup {<<s, old + 1>>}
      /\ run' = WithoutCanvas(ended, s, old)
      /\ UNCHANGED <<clock, hourly, attempted, authorized, created, aborts>>
  BY DEF EndReset, SetSession
<1>2. /\ moved \in SessionRow
      /\ moved.state = "open"
      /\ moved.canvas = old + 1
      /\ old + 1 \in 0..MaxResets
  BY <1>o, DemoAssumption DEF RowsInv, TypeOK, SessionRow, Open
<1>e. KeepsPlace(ended)
  <2>1. ASSUME NEW r \in Runs
        PROVE  /\ ended[r] \in RunRow
               /\ ended[r].session = run[r].session
               /\ ended[r].canvas = run[r].canvas
               /\ (ended[r].status = "absent") <=> (run[r].status = "absent")
    <3>t. run[r] \in RunRow /\ "cancelled" \in RunStatus
      BY DEF RowsInv, TypeOK, RunStatus
    <3>1. CASE r \in txn[s].listed
      BY <3>t, <3>1, FencedRow DEF RowsInv, LockedRowsStay
    <3>2. CASE r \notin txn[s].listed
      BY <3>t, <3>2
    <3>3. QED  BY <3>1, <3>2
  <2>2. QED  BY <2>1 DEF KeepsPlace
<1> HIDE DEF moved, ended
<1>3. session' \in [Sessions -> SessionRow] /\ session'[s] = moved
      /\ \A t \in Sessions \ {s} : session'[t] = session[t]
  BY <1>1, <1>2 DEF RowsInv, TypeOK
<1>4. /\ run' \in [Runs -> RunRow]
      /\ \A r \in Runs :
           \/ run'[r].status = "absent" /\ run[r].session = s
           \/ /\ run[r].session # s \/ run[r].status = "absent"
              /\ run'[r].session = run[r].session
              /\ run'[r].canvas = run[r].canvas
              /\ (run'[r].status = "absent") <=> (run[r].status = "absent")
  BY <1>o, <1>e, <1>1, CanvasDeletion
<1>5. TypeOK'
  BY <1>1, <1>2, <1>3, <1>4, UnlockKeepsLocks DEF RowsInv, TypeOK
<1>6. ASSUME NEW r \in Runs, run'[r].status # "absent"
      PROVE  \E t \in Sessions : /\ run'[r].session = t
                                 /\ session'[t].state = "open"
                                 /\ run'[r].canvas = session'[t].canvas
  BY <1>3, <1>4, <1>6 DEF RowsInv, RowsBelongToSession, Open
<1>7. canvases' = {<<t, session'[t].canvas>> :
                     t \in {u \in Sessions : session'[u].state = "open"}}
  BY <1>o, <1>1, <1>2, <1>3 DEF RowsInv, RowsBelongToSession, Open
<1>8. RowsBelongToSession'
  BY <1>6, <1>7 DEF RowsBelongToSession, Open
<1>9. LockedRowsStay'
  BY <1>1, <1>3, <1>4, UnlockKeepsLocks
     DEF RowsInv, LockedRowsStay, SessionLocked, Open, TypeOK, Txn
<1>10. QED  BY <1>5, <1>8, <1>9 DEF RowsInv

------------------------------------------------------------------------------
(* Every step keeps the rows together.                                     *)

LEMMA ConsumedSession ==
  ASSUME RowsInv, NEW s \in Sessions, ConsumeHybridQuota(s)
  PROVE  /\ session' \in [Sessions -> SessionRow]
         /\ session'[s].window = WindowNow(s)
         /\ session'[s].count = CountNow(s) + 1
         /\ \A t \in Sessions : /\ session'[t].state = session[t].state
                                /\ session'[t].canvas = session[t].canvas
                                /\ t # s => session'[t] = session[t]
         /\ hourly' \in [Clock -> Nat]
<1> DEFINE w == WindowNow(s)
           n == CountNow(s) + 1
           row == [session[s] EXCEPT !.window = w, !.count = n]
<1>1. n \in Nat /\ w \in Clock
  BY DEF CountNow, WindowNow, RowsInv, TypeOK, SessionRow
<1>3. session' = [session EXCEPT ![s] = row]
  BY DEF ConsumeHybridQuota, SetSession
<1> HIDE DEF w, n
<1>2. /\ row \in SessionRow
      /\ row.state = session[s].state
      /\ row.canvas = session[s].canvas
      /\ row.window = w
      /\ row.count = n
  BY <1>1 DEF RowsInv, TypeOK, SessionRow
<1>4. hourly' \in [Clock -> Nat]
  <2>1. hourly' = [hourly EXCEPT ![Hour] = @ + 1]
    BY DEF ConsumeHybridQuota
  <2>2. hourly \in [Clock -> Nat]
    BY DEF RowsInv, TypeOK
  <2>3. ASSUME NEW k \in Clock
        PROVE  hourly'[k] \in Nat
    BY <2>1, <2>2
  <2>4. hourly' = [k \in Clock |-> hourly'[k]]
    BY <2>1, <2>2
  <2>5. QED  BY <2>3, <2>4
<1> HIDE DEF row
<1>5. QED  BY <1>2, <1>3, <1>4 DEF RowsInv, TypeOK, w, n

LEMMA VisitorKeepsRows ==
  ASSUME RowsInv, NEW r \in Runs, Visitor(r)
  PROVE  RowsInv'
<1>1. ASSUME NEW s \in Sessions, NEW canvas \in 0..MaxResets,
             CreateHybridRun(r, s, canvas)
      PROVE  RowsInv'
  <2>1. MayCreate(s, canvas) /\ ConsumeHybridQuota(s) /\ InsertRun(r, s, canvas, TRUE)
    BY <1>1 DEF CreateHybridRun
  <2>2. QED  BY <2>1, ConsumedSession, InsertionKeepsRows
<1>2. ASSUME NEW s \in Sessions, NEW canvas \in 0..MaxResets,
             CreateReplayRun(r, s, canvas)
      PROVE  RowsInv'
  <2>1. /\ MayCreate(s, canvas) /\ InsertRun(r, s, canvas, FALSE)
        /\ session' = session /\ hourly' = hourly
    BY <1>2 DEF CreateReplayRun
  <2>2. session' \in [Sessions -> SessionRow] /\ hourly' \in [Clock -> Nat]
    BY <2>1 DEF RowsInv, TypeOK
  <2>3. QED  BY <2>1, <2>2, InsertionKeepsRows
<1>3. ASSUME Authorize(r) \/ DropRequest(r)
      PROVE  RowsInv'
  <2>1. /\ authorized' \subseteq Runs
        /\ UNCHANGED <<clock, session, canvases, run, hourly, txn, attempted, created,
                       aborts>>
    BY <1>3 DEF Authorize, DropRequest, Answered, RowsInv, TypeOK
  <2>2. QED
    BY <2>1 DEF RowsInv, TypeOK, RowsBelongToSession, LockedRowsStay, SessionLocked, Open
<1>4. QED  BY <1>1, <1>2, <1>3, RequestKeepsRows DEF Visitor

LEMMA RowsStep ==
  ASSUME RowsInv, [Next]_vars
  PROVE  RowsInv'
<1>1. ASSUME NEW s \in Sessions, Bootstrap(s) \/ BeginReset(s) \/ Finish(s) \/ Abort(s)
      PROVE  RowsInv'
  BY <1>1, BootstrapKeepsRows, BeginResetKeepsRows, EndResetKeepsRows,
     KeepSessionKeepsRows, DeleteSessionKeepsRows, AbortKeepsRows DEF Finish
<1>2. ASSUME NEW r \in Runs, Visitor(r) \/ Worker(r) \/ LeaseExpires(r)
      PROVE  RowsInv'
  BY <1>2, VisitorKeepsRows, WorkerKeepsRows, LeaseExpiryKeepsRows
<1>3. ASSUME NEW c \in Cleaners, EndPass(c)
      PROVE  RowsInv'
  BY <1>3 DEF EndPass, RowsInv, TypeOK, RowsBelongToSession, LockedRowsStay,
              SessionLocked, Open
<1>4. ASSUME NEW c \in Cleaners, NEW s \in Sessions, BeginCleanup(c, s)
      PROVE  RowsInv'
  BY <1>4, BeginCleanupKeepsRows
<1>5. CASE TimePasses
  <2>1. clock' \in Clock
    BY <1>5, DemoAssumption DEF TimePasses, RowsInv, TypeOK, Clock
  <2>2. QED
    BY <1>5, <2>1 DEF TimePasses, RowsInv, TypeOK, RowsBelongToSession,
                      LockedRowsStay, SessionLocked, Open
<1>6. CASE UNCHANGED vars
  BY <1>6 DEF vars, RowsInv, TypeOK, RowsBelongToSession, LockedRowsStay,
              SessionLocked, Open
<1>7. QED  BY <1>1, <1>2, <1>3, <1>4, <1>5, <1>6 DEF Next, Pass

\* The invariant of the rows holds in every reachable state.
THEOREM RowsInvariant == Spec => []RowsInv
<1>1. Init => RowsInv
  BY InitRows
<1>2. RowsInv /\ [Next]_vars => RowsInv'
  BY RowsStep
<1>3. QED  BY <1>1, <1>2, PTL DEF Spec

\* Types are kept by every step.
THEOREM DemoTypeCorrect == Spec => []TypeOK
<1>1. RowsInv => TypeOK
  BY DEF RowsInv
<1>2. QED  BY <1>1, RowsInvariant, PTL

\* No run row and no canvas is ever left without its session, so the deletion
\* of a session never fails on a row that still refers to it.
THEOREM NoRowOutlivesItsSession == Spec => []RowsBelongToSession
<1>1. RowsInv => RowsBelongToSession
  BY DEF RowsInv
<1>2. QED  BY <1>1, RowsInvariant, PTL

\* A reset or cleanup holds rows of its own session only, and they stay.
THEOREM LocksAreOwn == Spec => []LockedRowsStay
<1>1. RowsInv => LockedRowsStay
  BY DEF RowsInv
<1>2. QED  BY <1>1, RowsInvariant, PTL

------------------------------------------------------------------------------
(* Quotas.                                                                 *)

\* When hybrid runs were created: never ahead of the clock, by a session that
\* existed, and before the end of that session's current window.
AdmissionTimes ==
  /\ \A s \in Sessions : Open(s) => session[s].window <= clock
  /\ \A r \in Runs : created[r].hybrid => created[r].at <= clock
  /\ \A r \in Runs, s \in Sessions :
       created[r].hybrid /\ created[r].session = s =>
         /\ session[s].state # "none"
         /\ Open(s) => created[r].at < session[s].window + WindowTicks

QuotaInv == RowsInv /\ QuotasHold /\ AdmissionTimes

LEMMA AdmissionsFinite ==
  /\ \A s, from, to : IsFiniteSet(Admitted(s, from, to))
  /\ \A h : IsFiniteSet(AdmittedInHour(h))
<1>1. \A s, from, to : Admitted(s, from, to) \subseteq Runs
  BY DEF Admitted
<1>2. \A h : AdmittedInHour(h) \subseteq Runs
  BY DEF AdmittedInHour
<1>3. QED  BY <1>1, <1>2, DemoAssumption, FS_Subset

LEMMA InitQuotas == ASSUME Init PROVE QuotaInv
<1>1. RowsInv
  BY InitRows
<1>2. \A r \in Runs : created[r].hybrid = FALSE
  BY DEF Init, NotCreated
<1>3. \A h : AdmittedInHour(h) = {}
  BY <1>2 DEF AdmittedInHour
<1>4. QuotasHold
  <2>1. \A s \in Sessions : session[s].state = "none"
    BY DEF Init
  <2>2. \A h \in Clock : hourly[h] = 0
    BY DEF Init
  <2>3. GlobalLimit \in Nat
    BY DemoAssumption
  <2>4. QED  BY <1>3, <2>1, <2>2, <2>3, FS_EmptySet DEF QuotasHold, Open
<1>5. AdmissionTimes
  BY <1>2 DEF Init, AdmissionTimes, Open
<1>6. QED  BY <1>1, <1>4, <1>5 DEF QuotaInv

\* A step that admits no hybrid run and touches no open session's account.
LEMMA AccountsKept ==
  ASSUME QuotaInv, clock' = clock, hourly' = hourly,
         \A r \in Runs : /\ created'[r].hybrid = created[r].hybrid
                         /\ created[r].hybrid => created'[r] = created[r],
         \A s \in Sessions :
           /\ session'[s].state = "open" => /\ session[s].state = "open"
                                            /\ session'[s].window = session[s].window
                                            /\ session'[s].count = session[s].count
           /\ session'[s].state = "none" => session[s].state = "none"
  PROVE  QuotasHold' /\ AdmissionTimes'
<1>1. ASSUME NEW s \in Sessions, Open(s)'
      PROVE  AdmittedInWindow(s)' = AdmittedInWindow(s)
  <2>1. session'[s].window = session[s].window
    BY <1>1 DEF Open
  <2>2. AdmittedInWindow(s)' =
          {r \in Runs : /\ created'[r].session = s
                        /\ created'[r].hybrid
                        /\ created'[r].at \in session[s].window..clock}
    BY <2>1 DEF AdmittedInWindow, Admitted
  <2>3. QED  BY <2>2 DEF AdmittedInWindow, Admitted
<1>2. \A h \in Clock : AdmittedInHour(h)' = AdmittedInHour(h)
  BY DEF AdmittedInHour
<1>3. QuotasHold'
  <2>1. ASSUME NEW s \in Sessions, Open(s)'
        PROVE  /\ session'[s].count = Cardinality(AdmittedInWindow(s)')
               /\ session'[s].count <= HybridLimit
    BY <1>1, <2>1 DEF QuotaInv, QuotasHold, Open
  <2>2. ASSUME NEW h \in Clock
        PROVE  /\ hourly'[h] = Cardinality(AdmittedInHour(h)')
               /\ hourly'[h] <= GlobalLimit
    BY <1>2 DEF QuotaInv, QuotasHold
  <2>3. QED  BY <2>1, <2>2 DEF QuotasHold
<1>4. AdmissionTimes'
  BY DEF QuotaInv, AdmissionTimes, Open
<1>5. QED  BY <1>3, <1>4

LEMMA TimeKeepsQuotas ==
  ASSUME QuotaInv, TimePasses
  PROVE  QuotasHold' /\ AdmissionTimes'
<1>1. /\ clock' = clock + 1 /\ clock \in Nat
      /\ UNCHANGED <<session, hourly, created>>
  BY DemoAssumption DEF TimePasses, QuotaInv, RowsInv, TypeOK, Clock
<1>t. /\ \A r \in Runs : created[r].at \in Nat
      /\ \A s \in Sessions : session[s].window \in Nat
  BY DEF QuotaInv, RowsInv, TypeOK, Creation, SessionRow, Clock
<1>2. ASSUME NEW s \in Sessions
      PROVE  AdmittedInWindow(s)' = AdmittedInWindow(s)
  <2>1. \A r \in Runs : created[r].hybrid =>
          (created[r].at \in session[s].window..clock
            <=> created[r].at \in session[s].window..(clock + 1))
    BY <1>1, <1>t DEF QuotaInv, AdmissionTimes
  <2>2. QED  BY <1>1, <2>1 DEF AdmittedInWindow, Admitted
<1>3. \A h \in Clock : AdmittedInHour(h)' = AdmittedInHour(h)
  BY <1>1 DEF AdmittedInHour
<1>4. QuotasHold'
  BY <1>1, <1>2, <1>3 DEF QuotaInv, QuotasHold, Open
<1>5. AdmissionTimes'
  BY <1>1, <1>t DEF QuotaInv, AdmissionTimes, Open
<1>6. QED  BY <1>4, <1>5

LEMMA BootstrapKeepsQuotas ==
  ASSUME QuotaInv, NEW s \in Sessions, Bootstrap(s)
  PROVE  QuotasHold' /\ AdmissionTimes'
<1> DEFINE fresh == [state |-> "open", canvas |-> 0, created |-> clock,
                     window |-> clock, count |-> 0]
<1>1. /\ session' = [session EXCEPT ![s] = fresh]
      /\ session[s].state = "none"
      /\ UNCHANGED <<clock, hourly, created>>
  BY DEF Bootstrap, SetSession
<1>2. fresh.window = clock /\ fresh.count = 0 /\ fresh.state = "open"
  OBVIOUS
<1> HIDE DEF fresh
<1>3. session'[s] = fresh /\ \A t \in Sessions \ {s} : session'[t] = session[t]
  BY <1>1 DEF QuotaInv, RowsInv, TypeOK
<1>4. AdmittedInWindow(s)' = {}
  BY <1>1 DEF AdmittedInWindow, Admitted, QuotaInv, AdmissionTimes
<1>5. \A t \in Sessions \ {s} :
        AdmittedInWindow(t)' = AdmittedInWindow(t)
  BY <1>1, <1>3 DEF AdmittedInWindow, Admitted
<1>6. \A h \in Clock : AdmittedInHour(h)' = AdmittedInHour(h)
  BY <1>1 DEF AdmittedInHour
<1>7. QuotasHold'
  <2>1. ASSUME NEW t \in Sessions, Open(t)'
        PROVE  /\ session'[t].count = Cardinality(AdmittedInWindow(t)')
               /\ session'[t].count <= HybridLimit
    <3>1. CASE t = s
      BY <1>2, <1>3, <1>4, <3>1, FS_EmptySet, DemoAssumption
    <3>2. CASE t # s
      BY <1>3, <1>5, <2>1, <3>2 DEF QuotaInv, QuotasHold, Open
    <3>3. QED  BY <3>1, <3>2
  <2>2. QED  BY <1>1, <1>6, <2>1 DEF QuotaInv, QuotasHold
<1>8. AdmissionTimes'
  <2>1. clock \in Nat
    BY DEF QuotaInv, RowsInv, TypeOK, Clock
  <2>2. QED  BY <1>1, <1>2, <1>3, <2>1 DEF QuotaInv, AdmissionTimes, Open
<1>9. QED  BY <1>7, <1>8

LEMMA HybridRunKeepsQuotas ==
  ASSUME QuotaInv, NEW r \in Runs, NEW s \in Sessions, NEW canvas,
         CreateHybridRun(r, s, canvas)
  PROVE  QuotasHold' /\ AdmissionTimes'
<1> DEFINE creation == [session |-> s, hybrid |-> TRUE, at |-> clock]
           before == Admitted(s, WindowNow(s), clock)
<1>1. /\ created' = [created EXCEPT ![r] = creation]
      /\ created[r].hybrid = FALSE
      /\ clock' = clock
      /\ session[s].state = "open"
  BY DEF CreateHybridRun, InsertRun, MayCreate, Open, NotCreated
<1>2. creation.session = s /\ creation.hybrid = TRUE /\ creation.at = clock
  OBVIOUS
<1>c. /\ ConsumeHybridQuota(s)
      /\ CountNow(s) < HybridLimit
      /\ hourly[Hour] < GlobalLimit
      /\ hourly' = [hourly EXCEPT ![Hour] = @ + 1]
  BY DEF CreateHybridRun, ConsumeHybridQuota
<1>t. /\ clock \in Nat
      /\ \A q \in Runs : created[q].at \in Nat
      /\ \A t \in Sessions : session[t].window \in Nat /\ session[t].count \in Nat
      /\ hourly \in [Clock -> Nat]
      /\ \A q \in Runs : created[q].hybrid \in BOOLEAN
  BY DEF QuotaInv, RowsInv, TypeOK, Creation, SessionRow, Clock
<1>l. WindowTicks \in Nat /\ WindowTicks > 0 /\ HybridLimit \in Nat /\ GlobalLimit \in Nat
  BY DemoAssumption
<1> HIDE DEF creation
<1>3. created'[r] = creation /\ \A q \in Runs \ {r} : created'[q] = created[q]
  BY <1>1 DEF QuotaInv, RowsInv, TypeOK
<1>4. /\ session'[s].window = WindowNow(s)
      /\ session'[s].count = CountNow(s) + 1
      /\ \A t \in Sessions : /\ session'[t].state = session[t].state
                             /\ t # s => session'[t] = session[t]
  BY <1>c, ConsumedSession DEF QuotaInv
<1>5. Cardinality(before) = CountNow(s)
  <2>1. CASE WindowOver(s)
    <3>1. before = {}
      BY <1>1, <1>t, <1>l, <2>1
         DEF AdmittedInWindow, Admitted, WindowNow, WindowOver, QuotaInv, AdmissionTimes, Open
    <3>2. CountNow(s) = 0
      BY <2>1 DEF CountNow
    <3>3. QED  BY <3>1, <3>2, FS_EmptySet
  <2>2. CASE ~WindowOver(s)
    BY <1>1, <2>2
       DEF WindowNow, CountNow, QuotaInv, QuotasHold, Open, AdmittedInWindow
  <2>3. QED  BY <2>1, <2>2
<1>6. WindowNow(s) \in Nat /\ WindowNow(s) <= clock /\ clock < WindowNow(s) + WindowTicks
  BY <1>1, <1>t, <1>l DEF WindowNow, WindowOver, QuotaInv, AdmissionTimes, Open
<1>7. AdmittedInWindow(s)' = before \cup {r} /\ r \notin before
  <2>1. r \notin before
    BY <1>1 DEF AdmittedInWindow, Admitted
  <2>2. AdmittedInWindow(s)' =
          {q \in Runs : /\ created'[q].session = s
                        /\ created'[q].hybrid
                        /\ created'[q].at \in WindowNow(s)..clock}
    BY <1>1, <1>4 DEF AdmittedInWindow, Admitted
  <2>3. clock \in WindowNow(s)..clock
    BY <1>6, <1>t
  <2>4. QED
    BY <1>2, <1>3, <2>1, <2>2, <2>3 DEF AdmittedInWindow, Admitted
<1>8. ASSUME NEW t \in Sessions \ {s}
      PROVE  AdmittedInWindow(t)' = AdmittedInWindow(t)
  BY <1>1, <1>2, <1>3, <1>4 DEF AdmittedInWindow, Admitted
<1>9. ASSUME NEW t \in Sessions, Open(t)'
      PROVE  /\ session'[t].count = Cardinality(AdmittedInWindow(t)')
             /\ session'[t].count <= HybridLimit
  <2>1. CASE t = s
    <3>1. Cardinality(before \cup {r}) = Cardinality(before) + 1
      BY <1>7, AdmissionsFinite, FS_AddElement
    <3>2. CountNow(s) \in Nat
      BY <1>t DEF CountNow
    <3>3. /\ session'[s].count = Cardinality(AdmittedInWindow(s)')
          /\ session'[s].count <= HybridLimit
      <4>1. AdmittedInWindow(s)' = before \cup {r}
        BY <1>7
      <4>2. session'[s].count = CountNow(s) + 1
        BY <1>4
      <4>3. Cardinality(AdmittedInWindow(s)') = CountNow(s) + 1
        BY <1>5, <3>1, <4>1
      <4>4. CountNow(s) + 1 <= HybridLimit
        BY <1>c, <1>l, <3>2
      <4>5. QED  BY <4>2, <4>3, <4>4
    <3>4. QED  BY <2>1, <3>3
  <2>2. CASE t # s
    BY <1>4, <1>8, <1>9, <2>2 DEF QuotaInv, QuotasHold, Open
  <2>3. QED  BY <2>1, <2>2
<1>10. ASSUME NEW h \in Clock
       PROVE  hourly'[h] = Cardinality(AdmittedInHour(h)') /\ hourly'[h] <= GlobalLimit
  <2>1. hourly[h] = Cardinality(AdmittedInHour(h)) /\ hourly[h] <= GlobalLimit
    BY DEF QuotaInv, QuotasHold
  <2>2. CASE h = Hour
    <3>1. AdmittedInHour(h)' = AdmittedInHour(h) \cup {r}
      BY <1>1, <1>2, <1>3, <2>2 DEF AdmittedInHour, Hour
    <3>2. r \notin AdmittedInHour(h)
      BY <1>1 DEF AdmittedInHour
    <3>3. Cardinality(AdmittedInHour(h)') = Cardinality(AdmittedInHour(h)) + 1
      BY <3>1, <3>2, AdmissionsFinite, FS_AddElement
    <3>4. hourly'[h] = hourly[h] + 1 /\ hourly[h] \in Nat
      BY <1>c, <1>t, <2>2
    <3>5. QED  BY <1>c, <1>l, <2>1, <2>2, <3>3, <3>4
  <2>3. CASE h # Hour
    <3>1. AdmittedInHour(h)' = AdmittedInHour(h)
      BY <1>1, <1>2, <1>3, <2>3 DEF AdmittedInHour, Hour
    <3>2. hourly'[h] = hourly[h]
      BY <1>c, <1>t, <2>3
    <3>3. QED  BY <2>1, <3>1, <3>2
  <2>4. QED  BY <2>2, <2>3
<1>11. QuotasHold'
  BY <1>9, <1>10 DEF QuotasHold
<1>12. AdmissionTimes'
  <2>1. \A t \in Sessions : Open(t)' => session'[t].window <= clock'
    BY <1>1, <1>4, <1>6 DEF QuotaInv, AdmissionTimes, Open
  <2>2. \A q \in Runs : created'[q].hybrid => created'[q].at <= clock'
    BY <1>1, <1>2, <1>3, <1>t DEF QuotaInv, AdmissionTimes
  <2>3. ASSUME NEW q \in Runs, NEW t \in Sessions,
               created'[q].hybrid, created'[q].session = t
        PROVE  /\ session'[t].state # "none"
               /\ Open(t)' => created'[q].at < session'[t].window + WindowTicks
    <3>1. CASE t = s
      BY <1>1, <1>2, <1>3, <1>4, <1>6, <1>t, <1>l, <2>2, <2>3, <3>1
    <3>2. CASE t # s
      BY <1>1, <1>2, <1>3, <1>4, <2>3, <3>2 DEF QuotaInv, AdmissionTimes, Open
    <3>3. QED  BY <3>1, <3>2
  <2>4. QED  BY <2>1, <2>2, <2>3 DEF AdmissionTimes
<1>13. QED  BY <1>11, <1>12

\* Steps that leave sessions, history and hour counters as they are.
LEMMA OthersKeepQuotas ==
  ASSUME QuotaInv, UNCHANGED <<clock, session, hourly, created>>
  PROVE  QuotasHold' /\ AdmissionTimes'
BY AccountsKept

LEMMA ReplayRunKeepsQuotas ==
  ASSUME QuotaInv, NEW r \in Runs, NEW s \in Sessions, NEW canvas,
         CreateReplayRun(r, s, canvas)
  PROVE  QuotasHold' /\ AdmissionTimes'
<1> DEFINE creation == [session |-> s, hybrid |-> FALSE, at |-> clock]
<1>1. /\ created' = [created EXCEPT ![r] = creation]
      /\ created[r].hybrid = FALSE
      /\ UNCHANGED <<clock, session, hourly>>
  BY DEF CreateReplayRun, InsertRun, NotCreated
<1>2. creation.hybrid = FALSE
  OBVIOUS
<1> HIDE DEF creation
<1>3. \A q \in Runs : /\ created'[q].hybrid = created[q].hybrid
                      /\ created[q].hybrid => created'[q] = created[q]
  BY <1>1, <1>2 DEF QuotaInv, RowsInv, TypeOK
<1>4. QED  BY <1>1, <1>3, AccountsKept

LEMMA EndResetKeepsQuotas ==
  ASSUME QuotaInv, NEW s \in Sessions, EndReset(s)
  PROVE  QuotasHold' /\ AdmissionTimes'
<1> DEFINE row == [session[s] EXCEPT !.canvas = session[s].canvas + 1]
<1>1. session' = [session EXCEPT ![s] = row] /\ UNCHANGED <<clock, hourly, created>>
  BY DEF EndReset, SetSession
<1>2. /\ row.state = session[s].state
      /\ row.window = session[s].window
      /\ row.count = session[s].count
  BY DEF QuotaInv, RowsInv, TypeOK, SessionRow
<1> HIDE DEF row
<1>3. \A t \in Sessions : /\ session'[t].state = session[t].state
                          /\ session'[t].window = session[t].window
                          /\ session'[t].count = session[t].count
  BY <1>1, <1>2 DEF QuotaInv, RowsInv, TypeOK
<1>4. QED  BY <1>1, <1>3, AccountsKept

LEMMA DeletionKeepsQuotas ==
  ASSUME QuotaInv, NEW s \in Sessions, DeleteSession(s)
  PROVE  QuotasHold' /\ AdmissionTimes'
<1> DEFINE row == [session[s] EXCEPT !.state = "deleted"]
<1>1. session' = [session EXCEPT ![s] = row] /\ UNCHANGED <<clock, hourly, created>>
  BY DEF DeleteSession, SetSession
<1>2. row.state = "deleted"
  BY DEF QuotaInv, RowsInv, TypeOK, SessionRow
<1> HIDE DEF row
<1>3. session'[s] = row /\ \A t \in Sessions \ {s} : session'[t] = session[t]
  BY <1>1 DEF QuotaInv, RowsInv, TypeOK
<1>4. \A t \in Sessions :
        /\ session'[t].state = "open" => session'[t] = session[t]
        /\ session'[t].state = "none" => session[t].state = "none"
  BY <1>2, <1>3
<1>5. QED  BY <1>1, <1>4, AccountsKept

LEMMA VisitorKeepsQuotas ==
  ASSUME QuotaInv, NEW r \in Runs, Visitor(r)
  PROVE  QuotasHold' /\ AdmissionTimes'
<1>1. CASE Authorize(r)
  BY <1>1, OthersKeepQuotas DEF Authorize
<1>2. CASE CancelRun(r) \/ RetryRun(r) \/ DropRequest(r)
  BY <1>2, OthersKeepQuotas DEF CancelRun, RetryRun, DropRequest, Answered
<1>3. QED
  BY <1>1, <1>2, HybridRunKeepsQuotas, ReplayRunKeepsQuotas DEF Visitor

LEMMA WorkerKeepsQuotas ==
  ASSUME QuotaInv, NEW r \in Runs, Worker(r) \/ LeaseExpires(r)
  PROVE  QuotasHold' /\ AdmissionTimes'
<1>1. UNCHANGED <<clock, session, hourly, created>>
  BY DEF Worker, WorkerEnds, ClaimRun, PersistPatch, FinalizeCancelled, FailRun,
         CompleteRun, RecoverPatchReady, TerminalizeExhausted, WorkerWrites,
         LeaseExpires
<1>2. QED  BY <1>1, OthersKeepQuotas

LEMMA QuotaStep ==
  ASSUME QuotaInv, [Next]_vars
  PROVE  QuotaInv'
<1>r. RowsInv'
  BY RowsStep DEF QuotaInv
<1>1. ASSUME NEW s \in Sessions, Bootstrap(s) \/ BeginReset(s) \/ Finish(s) \/ Abort(s)
      PROVE  QuotasHold' /\ AdmissionTimes'
  <2>1. CASE BeginReset(s) \/ KeepSession(s) \/ Abort(s)
    BY <2>1, OthersKeepQuotas DEF BeginReset, KeepSession, Abort
  <2>2. QED
    BY <1>1, <2>1, BootstrapKeepsQuotas, EndResetKeepsQuotas, DeletionKeepsQuotas
       DEF Finish
<1>2. ASSUME NEW r \in Runs, Visitor(r) \/ Worker(r) \/ LeaseExpires(r)
      PROVE  QuotasHold' /\ AdmissionTimes'
  BY <1>2, VisitorKeepsQuotas, WorkerKeepsQuotas
<1>3. ASSUME NEW c \in Cleaners, Pass(c)
      PROVE  QuotasHold' /\ AdmissionTimes'
  BY <1>3, OthersKeepQuotas DEF Pass, EndPass, BeginCleanup
<1>4. ASSUME TimePasses
      PROVE  QuotasHold' /\ AdmissionTimes'
  BY <1>4, TimeKeepsQuotas
<1>5. ASSUME UNCHANGED vars
      PROVE  QuotasHold' /\ AdmissionTimes'
  BY <1>5, OthersKeepQuotas DEF vars
<1>6. QuotasHold' /\ AdmissionTimes'
  BY <1>1, <1>2, <1>3, <1>4, <1>5 DEF Next
<1>7. QED  BY <1>r, <1>6 DEF QuotaInv

\* The counters agree with the history in every reachable state.
THEOREM QuotaInvariant == Spec => []QuotaInv
<1>1. Init => QuotaInv
  BY InitQuotas
<1>2. QuotaInv /\ [Next]_vars => QuotaInv'
  BY QuotaStep
<1>3. QED  BY <1>1, <1>2, PTL DEF Spec

\* No session exceeds its allowance in a window and all sessions together none
\* in a clock hour, through resets, retries, deletions and aborted transactions.
THEOREM QuotasAreKept == Spec => []QuotasHold
<1>1. QuotaInv => QuotasHold
  BY DEF QuotaInv
<1>2. QED  BY <1>1, QuotaInvariant, PTL

==============================================================================
