---------------------------- MODULE CanvasEvents ----------------------------
(***************************************************************************)
(* The progress of a canvas, from the transactions that append its         *)
(* GenerationEvent rows to the run cards of a browser tab.  Transactions   *)
(* of different runs interleave and share the canvas's event cursor; the   *)
(* SSE endpoint polls the committed rows; the tab reads the stream, drops  *)
(* and reopens it, is reloaded, and also receives snapshots of runs as     *)
(* answers to its own requests.                                            *)
(***************************************************************************)
EXTENDS Integers, FiniteSets, SequencesExt

CONSTANTS
  Runs,            \* the generation runs of the canvas
  BatchSize,       \* rows read by one poll of the stream
  MaxSequence,     \* bound: events of the canvas, one less for a page that
                   \* has been loaded again or has sent a request
  MaxDisconnects,  \* bound: times the connection breaks
  MaxReloads,      \* bound: times the page is loaded again
  MaxRequests      \* bound: runs the user creates, cancels or retries

ASSUME EventsAssumption ==
  /\ BatchSize \in Nat \ {0}
  /\ {MaxSequence, MaxDisconnects, MaxReloads, MaxRequests} \subseteq Nat

VARIABLES
  status,   \* GenerationRun.status of each run, as committed
  last,     \* CanvasEventCursor.last_sequence, as committed
  log,      \* the committed GenerationEvent rows of the canvas
  txn,      \* the open transaction of each run, under the lock of its row
  stream,   \* the SSE connection
  tab,      \* the state of the page
  requests, \* the request about each run that the tab waits for
  spent     \* what the bounds count

vars == <<status, last, log, txn, stream, tab, requests, spent>>

------------------------------------------------------------------------------
Status == {"queued", "running", "patch_ready", "completed", "failed",
           "cancelled"}
Loading == {"queued", "running"}
Settled == {"completed", "failed", "cancelled"}

\* The transitions of a run that append an event (the events that only carry
\* research material are progress).
Moves ==
  [type : {"run.started"}, from : {"queued"}, to : {"running"}]
  \cup [type : {"run.resumed", "stage.started", "stage.progress"},
        from : {"running"}, to : {"running"}]
  \cup [type : {"patch.ready"}, from : {"running"}, to : {"patch_ready"}]
  \cup [type : {"run.completed"}, from : {"patch_ready"}, to : {"completed"}]
  \cup [type : {"run.failed"}, from : {"running", "patch_ready"},
        to : {"failed"}]
  \cup [type : {"run.cancelled"}, from : Loading, to : {"cancelled"}]
  \cup [type : {"run.retry_requested"}, from : {"failed"}, to : {"queued"}]

EventType == {m.type : m \in Moves}

\* place: run_sequence
EventRow == [sequence : Nat, place : Nat, run : Runs, type : EventType]

\* status: what the transaction has set; pending: the rows it has inserted.
\* From its first row on it holds the cursor row's lock.
Idle == [open |-> FALSE, status |-> "queued", pending |-> <<>>]
Open(now, rows) == [open |-> TRUE, status |-> now, pending |-> rows]

\* cursor, batch: the endpoint's generator; wire: sent, not yet received
Closed == [open |-> FALSE, cursor |-> 0, batch |-> <<>>, wire |-> <<>>]
OpenAfter(n) == [open |-> TRUE, cursor |-> n, batch |-> <<>>, wire |-> <<>>]

\* A run the tab has no card for.
Unknown == "unknown"

\* ref: generationCursor.current; cursor, runs: the reducer's state;
\* dispatched: actions not yet reduced; effect: the cursor that the effect
\* of the latest rendering will write to ref (NoEffect: it has run)
NoEffect == -1
EmptyTab == [ref |-> 0, cursor |-> 0, runs |-> [r \in Runs |-> Unknown],
             dispatched |-> <<>>, effect |-> NoEffect]

\* The requests about a run that come back with a snapshot of it, and the
\* statuses that a snapshot can carry: getGenerationRun when the page is
\* loaded, createGenerationRun, cancelGenerationRun, retryGenerationRun.
\* answer: NoAnswer until the server has read the run
Answers == [get |-> Status, create |-> {"queued"},
            cancel |-> {"running", "cancelled"}, retry |-> {"queued"}]
NoAnswer == "none"
NoRequest == [kind |-> "none", answer |-> NoAnswer]

Init ==
  /\ status = [r \in Runs |-> "queued"]
  /\ last = 0
  /\ log = {}
  /\ txn = [r \in Runs |-> Idle]
  /\ stream = Closed
  /\ tab = EmptyTab
  /\ requests = [r \in Runs |-> NoRequest]
  /\ spent = [disconnects |-> 0, reloads |-> 0, requests |-> 0]

Spend(what, bound) ==
  /\ spent[what] < bound
  /\ spent' = [spent EXCEPT ![what] = @ + 1]

Quiet == spent.reloads = 0 /\ spent.requests = 0

------------------------------------------------------------------------------
(* append_event_locked, in the transactions of the workers and requests.   *)

Begin(r) ==
  /\ ~txn[r].open
  /\ txn' = [txn EXCEPT ![r] = Open(status[r], <<>>)]
  /\ UNCHANGED <<status, last, log, stream, tab, requests, spent>>

HoldsCursor(r) == txn[r].pending # <<>>

\* last_sequence as the transaction of r reads it
ReadCursor(r) ==
  IF HoldsCursor(r) THEN txn[r].pending[Len(txn[r].pending)].sequence ELSE last

\* bound: whether reloads and requests may still come
MayDisturb == \A r \in Runs : ReadCursor(r) < MaxSequence

\* Seeded fault: the transaction's own rows are not counted.
CountCommitted(r) == Cardinality({e \in log : e.run = r}) + 1

\* Max(run_sequence) + 1 over the rows of r the transaction can see: one more
\* than there are, as their numbering is dense (RunSequenceAgrees).
NextPlace(r) ==
  Cardinality({e \in log : e.run = r}) + Len(txn[r].pending) + 1

Insert(r, move) ==
  /\ txn[r].open
  /\ txn[r].status = move.from
  /\ ReadCursor(r) < (IF Quiet THEN MaxSequence ELSE MaxSequence - 1)
  /\ LET row == [sequence |-> ReadCursor(r) + 1, place |-> NextPlace(r),
                 run |-> r, type |-> move.type]
     IN  txn' = [txn EXCEPT ![r] = Open(move.to, Append(@.pending, row))]
  /\ UNCHANGED <<status, last, log, stream, tab, requests, spent>>

\* Seeded fault: the cursor row is read without FOR UPDATE.
AppendUnlocked(r) == \E move \in Moves : Insert(r, move)

AppendEvent(r) ==
  /\ \A q \in Runs \ {r} : ~HoldsCursor(q)
  /\ \E move \in Moves : Insert(r, move)

Commit(r) ==
  /\ HoldsCursor(r)
  /\ status' = [status EXCEPT ![r] = txn[r].status]
  /\ last' = ReadCursor(r)
  /\ log' = log \cup ToSet(txn[r].pending)
  /\ txn' = [txn EXCEPT ![r] = Idle]
  /\ UNCHANGED <<stream, tab, requests, spent>>

Rollback(r) ==
  /\ txn[r].open
  /\ txn' = [txn EXCEPT ![r] = Idle]
  /\ UNCHANGED <<status, last, log, stream, tab, requests, spent>>

------------------------------------------------------------------------------
(* canvas_event_stream.                                                    *)

After(cursor) == {e \in log : e.sequence > cursor}

\* The i-th of the rows in S, in the order of their numbers.
Nth(S, i) ==
  CHOOSE e \in S : Cardinality({d \in S : d.sequence <= e.sequence}) = i

BatchLen(cursor) == Min({BatchSize, Cardinality(After(cursor))})

\* Seeded fault: the slice takes the newest rows.
NewestRows(cursor) ==
  LET skipped == Cardinality(After(cursor)) - BatchLen(cursor)
  IN  [i \in 1..BatchLen(cursor) |-> Nth(After(cursor), skipped + i)]

NextRows(cursor) ==
  [i \in 1..BatchLen(cursor) |-> Nth(After(cursor), i)]

FetchBatch ==
  /\ stream.open
  /\ stream.batch = <<>>
  /\ After(stream.cursor) # {}
  /\ stream' = [stream EXCEPT !.batch = NextRows(stream.cursor)]
  /\ UNCHANGED <<status, last, log, txn, tab, requests, spent>>

YieldEvent ==
  /\ stream.open
  /\ stream.batch # <<>>
  /\ stream' = [stream EXCEPT !.cursor = Head(stream.batch).sequence,
                              !.batch = Tail(@),
                              !.wire = Append(@, Head(stream.batch))]
  /\ UNCHANGED <<status, last, log, txn, tab, requests, spent>>

------------------------------------------------------------------------------
(* The page: App.tsx and the reducer of generation.ts.                     *)

\* Seeded fault: onerror closes the source and sets no timer.
ConnectOnce ==
  /\ ~stream.open
  /\ spent.disconnects = 0
  /\ stream' = OpenAfter(tab.ref)
  /\ UNCHANGED <<status, last, log, txn, tab, requests, spent>>

\* Seeded fault: the stream is asked for what follows the next event.
ConnectAhead ==
  /\ ~stream.open
  /\ stream' = OpenAfter(tab.ref + 1)
  /\ UNCHANGED <<status, last, log, txn, tab, requests, spent>>

\* connect(), at load and when the reconnect timer fires
Connect ==
  /\ ~stream.open
  /\ stream' = OpenAfter(tab.ref)
  /\ UNCHANGED <<status, last, log, txn, tab, requests, spent>>

\* what was sent and not received is lost
Disconnect ==
  /\ stream.open
  /\ Spend("disconnects", MaxDisconnects)
  /\ stream' = Closed
  /\ UNCHANGED <<status, last, log, txn, tab, requests>>

Dispatch(action) == [tab EXCEPT !.dispatched = Append(@, action)]

ReceiveEvent ==
  /\ stream.wire # <<>>
  /\ LET e == Head(stream.wire)
     IN  tab' = [Dispatch([kind |-> "event", event |-> e])
                   EXCEPT !.ref = Max({@, e.sequence})]
  /\ stream' = [stream EXCEPT !.wire = Tail(@)]
  /\ UNCHANGED <<status, last, log, txn, requests, spent>>

Ask(kind) == [kind |-> kind, answer |-> NoAnswer]

\* The buttons of a card offer what its status allows.
Click(r) ==
  /\ requests[r] = NoRequest
  /\ MayDisturb
  /\ Spend("requests", MaxRequests)
  /\ \E kind \in {"create", "cancel", "retry"} :
       /\ tab.runs[r] \in CASE kind = "create" -> {Unknown}
                            [] kind = "cancel" -> Loading
                            [] kind = "retry"  -> {"failed"}
       /\ requests' = [requests EXCEPT ![r] = Ask(kind)]
  /\ UNCHANGED <<status, last, log, txn, stream, tab>>

\* The server answers with the run as its transaction read it; what a cancel
\* or a retry writes, under the row's lock, is among the transactions above.
ReadRun(r) ==
  /\ requests[r] # NoRequest
  /\ requests[r].answer = NoAnswer
  /\ status[r] \in Answers[requests[r].kind]
  /\ requests[r].kind # "get" => ~txn[r].open
  /\ requests[r].kind = "create" => \A e \in log : e.run # r
  /\ requests' = [requests EXCEPT ![r].answer = status[r]]
  /\ UNCHANGED <<status, last, log, txn, stream, tab, spent>>

\* the request fails, or the server refuses it
FailRequest(r) ==
  /\ requests[r] # NoRequest
  /\ requests[r].answer = NoAnswer
  /\ requests' = [requests EXCEPT ![r] = NoRequest]
  /\ UNCHANGED <<status, last, log, txn, stream, tab, spent>>

\* The page tracks a run it has created and reconciles any other.
ReceiveRun(r) ==
  /\ requests[r].answer # NoAnswer
  /\ tab' = Dispatch([kind   |-> IF requests[r].kind = "create"
                                   THEN "track" ELSE "reconcile",
                      run    |-> r,
                      status |-> requests[r].answer])
  /\ requests' = [requests EXCEPT ![r] = NoRequest]
  /\ UNCHANGED <<status, last, log, txn, stream, spent>>

\* applyEvent: the status of a run's card after an event; a run without a
\* card gets one that says running
Shown(current, type) ==
  CASE type \in {"run.started", "run.resumed", "stage.started"} -> "running"
    [] type = "run.retry_requested" -> "queued"
    [] type = "patch.ready" -> "patch_ready"
    [] type = "run.completed" -> "completed"
    [] type = "run.failed" -> "failed"
    [] type = "run.cancelled" -> "cancelled"
    [] OTHER -> IF current = Unknown THEN "running" ELSE current

\* Seeded fault: an event the card has already seen is applied again.
ReduceRepeated(state, e) ==
  [state EXCEPT !.cursor = Max({@, e.sequence}),
                !.runs[e.run] = Shown(@, e.type)]

\* generationProgressReducer on an event and on a snapshot
ReduceEvent(state, e) ==
  IF e.sequence <= state.cursor
    THEN state
    ELSE [state EXCEPT !.cursor = e.sequence,
                       !.runs[e.run] = Shown(@, e.type)]

ReduceTrack(state, r, s) ==
  [state EXCEPT !.runs[r] = IF @ = Unknown THEN s ELSE @]

ReduceReconcile(state, r, s) == [state EXCEPT !.runs[r] = s]

Reduced(state, action) ==
  CASE action.kind = "event" -> ReduceEvent(state, action.event)
    [] action.kind = "track" -> ReduceTrack(state, action.run, action.status)
    [] action.kind = "reconcile" ->
         ReduceReconcile(state, action.run, action.status)

\* React reduces one action and renders; the effects of the rendering before
\* have run.
Reduce ==
  /\ tab.dispatched # <<>>
  /\ tab.effect = NoEffect
  /\ LET next == Reduced([tab EXCEPT !.dispatched = Tail(@)],
                         Head(tab.dispatched))
     IN  tab' = [next EXCEPT !.effect = IF next.cursor # tab.cursor
                                          THEN next.cursor ELSE NoEffect]
  /\ UNCHANGED <<status, last, log, txn, stream, requests, spent>>

\* useEffect on generationProgress.cursor; events received since the
\* rendering are ahead of what it writes
SyncCursor ==
  /\ tab.effect # NoEffect
  /\ tab' = [tab EXCEPT !.ref = tab.effect, !.effect = NoEffect]
  /\ UNCHANGED <<status, last, log, txn, stream, requests, spent>>

\* The page starts over; the runs its cards showed as loading are retained in
\* local storage, tracked again as queued, and asked for.
Retained == {r \in Runs : tab.runs[r] \in Loading}

Reload ==
  /\ MayDisturb
  /\ Spend("reloads", MaxReloads)
  /\ tab' = [EmptyTab EXCEPT !.runs =
               [r \in Runs |-> IF r \in Retained THEN "queued" ELSE Unknown]]
  /\ stream' = Closed
  /\ requests' = [r \in Runs |-> IF r \in Retained THEN Ask("get")
                                                   ELSE NoRequest]
  /\ UNCHANGED <<status, last, log, txn>>

------------------------------------------------------------------------------
Server == \E r \in Runs : Begin(r) \/ AppendEvent(r) \/ Commit(r) \/ Rollback(r)

Deliver == FetchBatch \/ YieldEvent \/ Connect \/ ReceiveEvent \/ Reduce
           \/ SyncCursor

Next ==
  \/ Server \/ Deliver
  \/ Disconnect \/ Reload
  \/ \E r \in Runs : Click(r) \/ ReadRun(r) \/ FailRequest(r) \/ ReceiveRun(r)

Spec == Init /\ [][Next]_vars

\* The generator polls, the browser delivers and renders, the reconnect timer
\* fires.  Nothing is assumed of the workers and of the user.
Fairness ==
  /\ WF_vars(FetchBatch) /\ WF_vars(YieldEvent) /\ WF_vars(Connect)
  /\ WF_vars(ReceiveEvent) /\ WF_vars(Reduce) /\ WF_vars(SyncCursor)

FairSpec == Spec /\ Fairness

------------------------------------------------------------------------------
Action == [kind : {"event"}, event : EventRow]
          \cup [kind : {"track", "reconcile"}, run : Runs, status : Status]

TypeOK ==
  /\ status \in [Runs -> Status]
  /\ last \in Nat
  /\ log \subseteq EventRow
  /\ txn \in [Runs -> [open : BOOLEAN, status : Status, pending : Seq(EventRow)]]
  /\ stream \in [open : BOOLEAN, cursor : Nat, batch : Seq(EventRow),
                 wire : Seq(EventRow)]
  /\ tab \in [ref : Nat, cursor : Nat, runs : [Runs -> Status \cup {Unknown}],
              dispatched : Seq(Action), effect : Nat \cup {NoEffect}]
  /\ requests \in [Runs -> [kind : DOMAIN Answers \cup {"none"},
                            answer : Status \cup {NoAnswer}]]
  /\ spent \in [{"disconnects", "reloads", "requests"} -> Nat]

------------------------------------------------------------------------------
(* Properties.                                                             *)

\* Whatever transactions of different runs interleave, commit or roll back,
\* the committed events carry the numbers 1..last_sequence, each once: a
\* reader that has seen a number will never find a smaller one commit later.
SequenceIsDense ==
  /\ {e.sequence : e \in log} = 1..last
  /\ \A d, e \in log : d.sequence = e.sequence => d = e

\* One transaction at a time numbers events, from the committed cursor on.
PendingFollows ==
  /\ \A q, r \in Runs : HoldsCursor(q) /\ HoldsCursor(r) => q = r
  /\ \A r \in Runs : \A i \in DOMAIN txn[r].pending :
       txn[r].pending[i].sequence = last + i

IsEvent(t, i, n) == /\ t.dispatched[i].kind = "event"
                    /\ t.dispatched[i].event.sequence = n

\* The reducer of page t has applied event n or will, before it reduces action
\* number k.
AppliedBefore(t, k, n) ==
  n <= t.cursor \/ \E i \in DOMAIN t.dispatched : i < k /\ IsEvent(t, i, n)

Received(t, n) == AppliedBefore(t, Len(t.dispatched) + 1, n)

\* Wherever an event is on its way, the one before it is further on its way:
\* the page, its ref and the stream's cursor never get ahead by two.
NothingSkipped ==
  /\ \A k \in DOMAIN tab.dispatched :
       tab.dispatched[k].kind = "event" =>
         AppliedBefore(tab, k, tab.dispatched[k].event.sequence - 1)
  /\ \A k \in DOMAIN stream.wire :
       \/ Received(tab, stream.wire[k].sequence - 1)
       \/ \E i \in 1..(k - 1) :
            stream.wire[i].sequence = stream.wire[k].sequence - 1
  /\ \/ Received(tab, stream.cursor)
     \/ \E i \in DOMAIN stream.wire : stream.wire[i].sequence = stream.cursor
  /\ \A k \in DOMAIN stream.batch :
       stream.batch[k].sequence = stream.cursor + k
  /\ Received(tab, tab.ref)
  /\ tab.effect \in {NoEffect, tab.cursor}

\* What is on its way was committed.
SentFromLog ==
  /\ \A k \in DOMAIN tab.dispatched :
       tab.dispatched[k].kind = "event" => tab.dispatched[k].event \in log
  /\ ToSet(stream.wire) \subseteq log
  /\ ToSet(stream.batch) \subseteq log

\* The inductive invariant behind ImplementsFeed.
EventsInv ==
  TypeOK /\ SequenceIsDense /\ PendingFollows /\ NothingSkipped /\ SentFromLog

\* run_sequence counts the events of a run, in the order of the canvas.
RunSequenceAgrees ==
  \A e \in log :
    e.place = Cardinality({d \in log : d.run = e.run /\ d.sequence <= e.sequence})

\* What the log up to position n says of run r: the status after the last of
\* its events that changes one.
Changing(r, n) == {e \in log : /\ e.run = r /\ e.sequence <= n
                               /\ e.type # "stage.progress"}

SaidOf(r, n) ==
  Shown(Unknown,
        (CHOOSE e \in Changing(r, n) :
           \A d \in Changing(r, n) : d.sequence <= e.sequence).type)

\* As long as the page has neither been reloaded nor sent a request, a run's
\* card says what the log says up to the tab's cursor: reconnecting behind the
\* cursor, which happens when an effect writes an older cursor to the ref,
\* replays events without reviving what they said.
CardFollowsLog ==
  Quiet =>
    \A r \in Runs :
      Changing(r, tab.cursor) # {} => tab.runs[r] = SaidOf(r, tab.cursor)

\* The stream implements the abstract feed: between two loads of the page its
\* reducer applies every event once, in order, with no gap.
Feed == INSTANCE EventFeed WITH published <- log, shown <- tab.cursor

ImplementsFeed == Feed!FeedSpec

\* Every committed event reaches the reducer, through broken connections and
\* reloads: as the canvas has finitely many, the page catches up with the log
\* again and again.
EveryEventShown == []<>(tab.cursor = last)

\* Nothing is on its way to the tab.
CaughtUp ==
  /\ tab.cursor = last
  /\ tab.dispatched = <<>>
  /\ \A r \in Runs : requests[r] = NoRequest

\* What README.md:409 says of the canvas, "Failed, cancelled, lease-lost, or
\* retried runs clear ephemeral loading state": once the tab has caught up, a
\* settled run's card is not loading.  The code violates it: see the README.
SettledRunsClearLoading ==
  CaughtUp => \A r \in Runs : status[r] \in Settled => tab.runs[r] \notin Loading

==============================================================================
