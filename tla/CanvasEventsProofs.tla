-------------------------- MODULE CanvasEventsProofs --------------------------
(***************************************************************************)
(* Proofs about CanvasEvents, for every number of runs and events, batches *)
(* of any size, and any number of broken connections, reloads and requests.*)
(***************************************************************************)
EXTENDS CanvasEvents, FunctionTheorems, FiniteSetTheorems,
        SequenceTheorems, TLAPS

(***************************************************************************)
(* Helpers.                                                                *)
(***************************************************************************)
LEMMA MinOfTwo ==
  ASSUME NEW a \in Nat, NEW b \in Nat
  PROVE  Min({a, b}) = IF a <= b THEN a ELSE b
<1>1. CASE a <= b
  <2> SUFFICES ASSUME NEW x \in {a, b}, \A y \in {a, b} : x =< y PROVE x = a
    BY <1>1 DEF Min
  <2> QED
    BY <1>1
<1>2. CASE b < a
  <2> SUFFICES ASSUME NEW x \in {a, b}, \A y \in {a, b} : x =< y PROVE x = b
    BY <1>2 DEF Min
  <2> QED
    BY <1>2
<1> QED
  BY <1>1, <1>2

LEMMA MaxOfTwo ==
  ASSUME NEW a \in Nat, NEW b \in Nat
  PROVE  Max({a, b}) = IF a >= b THEN a ELSE b
<1>1. CASE a >= b
  <2> SUFFICES ASSUME NEW x \in {a, b}, \A y \in {a, b} : x >= y PROVE x = a
    BY <1>1 DEF Max
  <2> QED
    BY <1>1
<1>2. CASE a < b
  <2> SUFFICES ASSUME NEW x \in {a, b}, \A y \in {a, b} : x >= y PROVE x = b
    BY <1>2 DEF Max
  <2> QED
    BY <1>2
<1> QED
  BY <1>1, <1>2

LEMMA MovesTyped ==
  ASSUME NEW move \in Moves
  PROVE  move.type \in EventType /\ move.from \in Status /\ move.to \in Status
BY DEF Moves, EventType, Status, Loading

\* Between two positions of a dense log there are as many rows as numbers.
LEMMA RowsBetween ==
  ASSUME last \in Nat, log \subseteq EventRow, SequenceIsDense,
         NEW a \in Nat, NEW b \in Nat, a <= b, b <= last
  PROVE  LET S == {e \in log : e.sequence > a /\ e.sequence <= b}
         IN  IsFiniteSet(S) /\ Cardinality(S) = b - a
<1> DEFINE S == {e \in log : e.sequence > a /\ e.sequence <= b}
           row(n) == CHOOSE e \in log : e.sequence = n
           I == (a + 1)..b
           f == [n \in I |-> row(n)]
<1>1. ASSUME NEW n \in I PROVE row(n) \in S /\ row(n).sequence = n
  <2>1. \E e \in log : e.sequence = n
    BY DEF SequenceIsDense
  <2>2. row(n) \in log /\ row(n).sequence = n
    BY <2>1
  <2> QED
    BY <2>2
<1>2. ASSUME NEW e \in S PROVE e.sequence \in I /\ row(e.sequence) = e
  <2>1. e.sequence \in I
    BY DEF EventRow
  <2>2. row(e.sequence) \in log /\ row(e.sequence).sequence = e.sequence
    BY <1>1, <2>1
  <2> QED
    BY <2>1, <2>2 DEF SequenceIsDense
<1> HIDE DEF S, row, I
<1>3. f \in [I -> S]
  BY <1>1
<1>4. \A m, n \in I : f[m] = f[n] => m = n
  BY <1>1
<1>5. \A e \in S : \E n \in I : f[n] = e
  BY <1>2
<1>6. f \in Bijection(I, S)
  <2>1. f \in Injection(I, S)
    BY <1>3, <1>4, Fun_IsInj
  <2>2. f \in Surjection(I, S)
    BY <1>3, <1>5, Fun_IsSurj
  <2> QED
    BY <2>1, <2>2 DEF Bijection
<1>7. ExistsBijection(I, S)
  BY <1>6, Fun_ExistsBij
<1>8. IsFiniteSet(I) /\ Cardinality(I) = b - a
  <2>1. a + 1 \in Int /\ b \in Int
    OBVIOUS
  <2>2. /\ IsFiniteSet((a + 1)..b)
        /\ Cardinality((a + 1)..b) = IF a + 1 > b THEN 0 ELSE b - (a + 1) + 1
    BY <2>1, FS_Interval, Zenon
  <2> QED
    BY <2>2 DEF I
<1> QED
  BY <1>7, <1>8, FS_Bijection DEF S

LEMMA LogIsFinite ==
  ASSUME last \in Nat, log \subseteq EventRow, SequenceIsDense
  PROVE  IsFiniteSet(log)
<1> DEFINE S == {e \in log : e.sequence > 0 /\ e.sequence <= last}
<1>1. IsFiniteSet(S)
  BY RowsBetween, 0 \in Nat, 0 <= last
<1>2. log = S
  BY DEF EventRow, SequenceIsDense
<1> QED
  BY <1>1, <1>2

\* A poll reads the rows that follow its cursor, in order and with no gap.
LEMMA NextRowsFollow ==
  ASSUME last \in Nat, log \subseteq EventRow, SequenceIsDense,
         NEW c \in Nat, c <= last
  PROVE  /\ NextRows(c) \in Seq(EventRow)
         /\ \A k \in DOMAIN NextRows(c) : /\ NextRows(c)[k] \in log
                                          /\ NextRows(c)[k].sequence = c + k
<1> DEFINE S == After(c)
<1>1. IsFiniteSet(S) /\ Cardinality(S) = last - c
  <2>1. S = {e \in log : e.sequence > c /\ e.sequence <= last}
    BY DEF After, SequenceIsDense
  <2> QED
    BY <2>1, RowsBetween
<1>2. BatchLen(c) \in Nat /\ BatchLen(c) <= last - c
  <2>1. last - c \in Nat /\ BatchSize \in Nat
    BY EventsAssumption
  <2> QED
    BY <1>1, <2>1, MinOfTwo DEF BatchLen
<1>3. ASSUME NEW e \in S
      PROVE  Cardinality({d \in S : d.sequence <= e.sequence}) = e.sequence - c
  <2>1. /\ e.sequence \in Nat /\ c <= e.sequence /\ e.sequence <= last
    BY DEF After, EventRow, SequenceIsDense
  <2>2. {d \in S : d.sequence <= e.sequence}
          = {d \in log : d.sequence > c /\ d.sequence <= e.sequence}
    BY DEF After
  <2> QED
    BY <2>1, <2>2, RowsBetween
<1>4. ASSUME NEW i \in 1..BatchLen(c)
      PROVE  Nth(S, i) \in S /\ Nth(S, i).sequence = c + i
  <2>1. c + i \in 1..last
    BY <1>2
  <2>2. PICK e \in log : e.sequence = c + i
    BY <2>1 DEF SequenceIsDense
  <2>3. e \in S /\ Cardinality({d \in S : d.sequence <= e.sequence}) = i
    BY <2>2, <1>3 DEF After
  <2>4. /\ Nth(S, i) \in S
        /\ Cardinality({d \in S : d.sequence <= Nth(S, i).sequence}) = i
    BY <2>3 DEF Nth
  <2>5. Nth(S, i).sequence - c = i
    BY <2>4, <1>3
  <2>6. Nth(S, i).sequence \in Nat
    BY <2>4 DEF After, EventRow
  <2> QED
    BY <2>4, <2>5, <2>6
<1>5. S \subseteq log
  BY DEF After
<1>6. ASSUME NEW i \in 1..BatchLen(c)
      PROVE  Nth(S, i) \in EventRow
  BY <1>4, <1>5
<1>7. NextRows(c) = [i \in 1..BatchLen(c) |-> Nth(S, i)]
  BY DEF NextRows
<1> QED
  BY <1>2, <1>4, <1>5, <1>6, <1>7

(***************************************************************************)
(* The initial states.                                                     *)
(***************************************************************************)
LEMMA InitEvents == Init => EventsInv
<1> SUFFICES ASSUME Init PROVE EventsInv
  OBVIOUS
<1> USE DEF Init, Idle, Closed, EmptyTab, NoEffect
<1>1. TypeOK
  <2>1. requests \in [Runs -> [kind : DOMAIN Answers \cup {"none"},
                               answer : Status \cup {NoAnswer}]]
    BY DEF NoRequest
  <2>2. /\ status \in [Runs -> Status] /\ last \in Nat /\ log \subseteq EventRow
        /\ spent \in [{"disconnects", "reloads", "requests"} -> Nat]
    BY DEF Status
  <2>3. txn \in [Runs -> [open : BOOLEAN, status : Status,
                          pending : Seq(EventRow)]]
    BY DEF Status
  <2>4. stream \in [open : BOOLEAN, cursor : Nat, batch : Seq(EventRow),
                    wire : Seq(EventRow)]
    OBVIOUS
  <2>5. tab \in [ref : Nat, cursor : Nat,
                 runs : [Runs -> Status \cup {Unknown}],
                 dispatched : Seq(Action), effect : Nat \cup {NoEffect}]
    OBVIOUS
  <2> QED
    BY <2>1, <2>2, <2>3, <2>4, <2>5 DEF TypeOK
<1>2. SequenceIsDense
  BY DEF SequenceIsDense
<1>3. PendingFollows
  BY DEF PendingFollows, HoldsCursor
<1>4. NothingSkipped
  BY DEF NothingSkipped, Received, AppliedBefore
<1>5. SentFromLog
  BY DEF SentFromLog, ToSet
<1> QED
  BY <1>1, <1>2, <1>3, <1>4, <1>5 DEF EventsInv

(***************************************************************************)
(* The transactions.                                                       *)
(***************************************************************************)
TxnType == [Runs -> [open : BOOLEAN, status : Status, pending : Seq(EventRow)]]

\* Rows are only ever added to the log; what is on its way to the page stays
\* in it.
LEMMA LogGrows ==
  ASSUME NothingSkipped, SentFromLog, log \subseteq log',
         UNCHANGED <<tab, stream>>
  PROVE  NothingSkipped' /\ SentFromLog'
<1>1. NothingSkipped'
  BY DEF NothingSkipped, Received, AppliedBefore, IsEvent
<1>2. SentFromLog'
  BY DEF SentFromLog, ToSet
<1> QED
  BY <1>1, <1>2

\* A transaction reads the committed cursor plus the rows it has inserted.
LEMMA ReadCursorIs ==
  ASSUME EventsInv, NEW r \in Runs
  PROVE  /\ txn[r].pending \in Seq(EventRow)
         /\ ReadCursor(r) = last + Len(txn[r].pending)
         /\ NextPlace(r) \in Nat
<1>1. txn[r].pending \in Seq(EventRow) /\ last \in Nat /\ log \subseteq EventRow
  BY DEF EventsInv, TypeOK
<1>2. ReadCursor(r) = last + Len(txn[r].pending)
  BY <1>1 DEF EventsInv, PendingFollows, ReadCursor, HoldsCursor
<1>3. IsFiniteSet({e \in log : e.run = r})
  BY <1>1, LogIsFinite, FS_Subset DEF EventsInv
<1>4. NextPlace(r) \in Nat
  BY <1>1, <1>3, FS_CardinalityType DEF NextPlace
<1> QED
  BY <1>1, <1>2, <1>4

LEMMA BeginEvents ==
  ASSUME EventsInv, NEW r \in Runs, Begin(r)
  PROVE  EventsInv'
<1> USE DEF Begin, Open
<1>1. txn \in TxnType /\ status[r] \in Status
  BY DEF EventsInv, TypeOK, TxnType
<1>2. txn' \in TxnType
  BY <1>1 DEF TxnType
<1>3. TypeOK'
  BY <1>2 DEF EventsInv, TypeOK, TxnType
<1>4. \A q \in Runs : txn'[q].pending = IF q = r THEN <<>> ELSE txn[q].pending
  BY <1>1 DEF TxnType
<1>5. PendingFollows'
  BY <1>4 DEF EventsInv, PendingFollows, HoldsCursor
<1>6. SequenceIsDense'
  BY DEF EventsInv, SequenceIsDense
<1> QED
  BY <1>3, <1>5, <1>6, LogGrows DEF EventsInv

LEMMA RollbackEvents ==
  ASSUME EventsInv, NEW r \in Runs, Rollback(r)
  PROVE  EventsInv'
<1> USE DEF Rollback, Idle
<1>1. txn \in TxnType
  BY DEF EventsInv, TypeOK, TxnType
<1>2. txn' \in TxnType
  BY <1>1 DEF TxnType, Status
<1>3. TypeOK'
  BY <1>2 DEF EventsInv, TypeOK, TxnType
<1>4. \A q \in Runs : txn'[q].pending = IF q = r THEN <<>> ELSE txn[q].pending
  BY <1>1 DEF TxnType
<1>5. PendingFollows'
  BY <1>4 DEF EventsInv, PendingFollows, HoldsCursor
<1>6. SequenceIsDense'
  BY DEF EventsInv, SequenceIsDense
<1> QED
  BY <1>3, <1>5, <1>6, LogGrows DEF EventsInv

LEMMA AppendEvents ==
  ASSUME EventsInv, NEW r \in Runs, AppendEvent(r)
  PROVE  EventsInv'
<1> PICK move \in Moves : Insert(r, move)
  BY DEF AppendEvent
<1> DEFINE row == [sequence |-> ReadCursor(r) + 1, place |-> NextPlace(r),
                   run |-> r, type |-> move.type]
<1>1. txn \in TxnType /\ last \in Nat
  BY DEF EventsInv, TypeOK, TxnType
<1>2. row \in EventRow /\ row.sequence = last + Len(txn[r].pending) + 1
  BY <1>1, ReadCursorIs, MovesTyped DEF EventRow
<1>3. txn' = [txn EXCEPT ![r] = Open(move.to, Append(txn[r].pending, row))]
  BY DEF Insert
<1> HIDE DEF row
<1>4. txn' \in TxnType
  BY <1>1, <1>2, <1>3, MovesTyped DEF TxnType, Open
<1>5. TypeOK'
  BY <1>4 DEF EventsInv, TypeOK, TxnType, Insert
<1>6. \A q \in Runs : txn'[q].pending = IF q = r THEN Append(txn[r].pending, row)
                                                 ELSE txn[q].pending
  BY <1>1, <1>3 DEF TxnType, Open
<1>7. PendingFollows'
  <2>1. \A p, q \in Runs : HoldsCursor(p)' /\ HoldsCursor(q)' => p = q
    BY <1>6 DEF AppendEvent, HoldsCursor
  <2>2. ASSUME NEW q \in Runs, NEW i \in DOMAIN txn'[q].pending
        PROVE  txn'[q].pending[i].sequence = last' + i
    <3>1. last' = last
      BY DEF Insert
    <3>2. CASE q # r
      BY <1>6, <3>1, <3>2 DEF EventsInv, PendingFollows
    <3>3. CASE q = r
      <4> DEFINE pending == txn[r].pending
                 longer == Append(pending, row)
      <4>1. pending \in Seq(EventRow) /\ Len(pending) \in Nat
        BY ReadCursorIs
      <4>2. i \in DOMAIN longer /\ txn'[q].pending[i] = longer[i]
        BY <1>6, <3>3
      <4>3. row \in EventRow /\ row.sequence = last + (Len(pending) + 1)
        BY <1>1, <1>2, <4>1
      <4>4. \A j \in 1..Len(pending) : pending[j].sequence = last + j
        BY <4>1 DEF EventsInv, PendingFollows
      <4> HIDE DEF pending
      <4>5. /\ DOMAIN longer = 1..(Len(pending) + 1)
            /\ longer[Len(pending) + 1] = row
            /\ \A j \in 1..Len(pending) : longer[j] = pending[j]
        BY <4>1, <4>3, AppendProperties
      <4> HIDE DEF longer
      <4>6. CASE i = Len(pending) + 1
        BY <3>1, <4>2, <4>3, <4>5, <4>6
      <4>7. CASE i \in 1..Len(pending)
        BY <3>1, <4>2, <4>4, <4>5, <4>7
      <4> QED
        BY <4>1, <4>2, <4>5, <4>6, <4>7
    <3> QED
      BY <3>2, <3>3
  <2> QED
    BY <2>1, <2>2 DEF PendingFollows
<1>8. SequenceIsDense'
  BY DEF EventsInv, SequenceIsDense, Insert
<1> QED
  BY <1>5, <1>7, <1>8, LogGrows DEF EventsInv, Insert

LEMMA CommitEvents ==
  ASSUME EventsInv, NEW r \in Runs, Commit(r)
  PROVE  EventsInv'
<1> DEFINE pending == txn[r].pending
<1>1. /\ txn \in TxnType /\ last \in Nat /\ log \subseteq EventRow
      /\ status \in [Runs -> Status]
  BY DEF EventsInv, TypeOK, TxnType
<1>2. /\ pending \in Seq(EventRow) /\ Len(pending) \in Nat
      /\ last' = last + Len(pending)
      /\ log' = log \cup {pending[i] : i \in DOMAIN pending}
      /\ \A i \in DOMAIN pending : /\ pending[i] \in EventRow
                                   /\ pending[i].sequence = last + i
      /\ DOMAIN pending = 1..Len(pending)
  <2>1. pending \in Seq(EventRow) /\ last' = last + Len(pending)
    BY ReadCursorIs DEF Commit
  <2>2. log' = log \cup {pending[i] : i \in DOMAIN pending}
    BY DEF Commit, ToSet
  <2>3. \A i \in DOMAIN pending : pending[i].sequence = last + i
    BY DEF EventsInv, PendingFollows
  <2> QED
    BY <2>1, <2>2, <2>3
<1>3. \A q \in Runs : txn'[q].pending = <<>>
  <2>1. \A q \in Runs : txn'[q].pending = IF q = r THEN <<>> ELSE txn[q].pending
    BY <1>1 DEF TxnType, Commit, Idle
  <2>2. \A q \in Runs \ {r} : txn[q].pending = <<>>
    BY DEF EventsInv, PendingFollows, HoldsCursor, Commit
  <2> QED
    BY <2>1, <2>2
<1>4. TypeOK'
  <2>1. txn' \in TxnType /\ status' \in [Runs -> Status]
    BY <1>1 DEF TxnType, Commit, Idle, Status
  <2>2. last' \in Nat /\ log' \subseteq EventRow
    BY <1>1, <1>2
  <2> QED
    BY <2>1, <2>2 DEF EventsInv, TypeOK, TxnType, Commit
<1>5. SequenceIsDense'
  <2> HIDE DEF pending
  <2>1. \A e \in log : e.sequence \in 1..last
    BY DEF EventsInv, SequenceIsDense
  <2>2. \A n \in 1..last' : \E e \in log' : e.sequence = n
    <3> TAKE n \in 1..last'
    <3>1. CASE n <= last
      <4>1. n \in {e.sequence : e \in log}
        BY <1>1, <1>2, <3>1 DEF EventsInv, SequenceIsDense
      <4> QED
        BY <4>1, <1>2
    <3>2. CASE n > last
      <4>1. n - last \in DOMAIN pending /\ last + (n - last) = n
        BY <1>1, <1>2, <3>2
      <4> QED
        BY <4>1, <1>2
    <3> QED
      BY <1>1, <1>2, <3>1, <3>2
  <2>3. \A e \in log' : e.sequence \in 1..last'
    BY <1>1, <1>2, <2>1
  <2>4. \A d, e \in log' : d.sequence = e.sequence => d = e
    <3>1. \A d, e \in log : d.sequence = e.sequence => d = e
      BY DEF EventsInv, SequenceIsDense
    <3> QED
      BY <1>1, <1>2, <2>1, <3>1
  <2> QED
    BY <2>2, <2>3, <2>4 DEF SequenceIsDense
<1>6. PendingFollows'
  BY <1>3 DEF PendingFollows, HoldsCursor
<1>7. NothingSkipped' /\ SentFromLog'
  BY LogGrows DEF EventsInv, Commit
<1> QED
  BY <1>4, <1>5, <1>6, <1>7 DEF EventsInv

(***************************************************************************)
(* The stream.                                                             *)
(***************************************************************************)
StreamType == [open : BOOLEAN, cursor : Nat, batch : Seq(EventRow),
               wire : Seq(EventRow)]

TabType == [ref : Nat, cursor : Nat, runs : [Runs -> Status \cup {Unknown}],
            dispatched : Seq(Action), effect : Nat \cup {NoEffect}]

\* What a step that leaves the transactions and the log alone has to show.
LEMMA LogUnchanged ==
  ASSUME EventsInv, UNCHANGED <<status, last, log, txn>>,
         stream' \in StreamType, tab' \in TabType,
         requests' \in [Runs -> [kind : DOMAIN Answers \cup {"none"},
                                 answer : Status \cup {NoAnswer}]],
         spent' \in [{"disconnects", "reloads", "requests"} -> Nat],
         NothingSkipped', SentFromLog'
  PROVE  EventsInv'
<1>1. TypeOK'
  BY DEF EventsInv, TypeOK, StreamType, TabType
<1>2. SequenceIsDense' /\ PendingFollows'
  BY DEF EventsInv, SequenceIsDense, PendingFollows, HoldsCursor
<1> QED
  BY <1>1, <1>2 DEF EventsInv

LEMMA Typed ==
  ASSUME EventsInv
  PROVE  /\ stream \in StreamType /\ tab \in TabType
         /\ last \in Nat /\ log \subseteq EventRow /\ status \in [Runs -> Status]
         /\ requests \in [Runs -> [kind : DOMAIN Answers \cup {"none"},
                                   answer : Status \cup {NoAnswer}]]
         /\ spent \in [{"disconnects", "reloads", "requests"} -> Nat]
BY DEF EventsInv, TypeOK, StreamType, TabType

LEMMA SpendTyped ==
  ASSUME EventsInv, NEW what \in {"disconnects", "reloads", "requests"},
         NEW bound \in Nat, Spend(what, bound)
  PROVE  spent' \in [{"disconnects", "reloads", "requests"} -> Nat]
BY Typed DEF Spend

LEMMA FetchEvents ==
  ASSUME EventsInv, FetchBatch
  PROVE  EventsInv'
<1> USE DEF FetchBatch
<1> DEFINE rows == NextRows(stream.cursor)
<1>1. stream.cursor \in Nat /\ stream.cursor <= last
  <2>1. PICK e \in log : e.sequence > stream.cursor
    BY DEF After
  <2>2. e.sequence \in 1..last
    BY DEF EventsInv, SequenceIsDense
  <2>3. stream.cursor \in Nat /\ last \in Nat
    BY Typed DEF StreamType
  <2> QED
    BY <2>1, <2>2, <2>3
<1>2. /\ rows \in Seq(EventRow)
      /\ \A k \in DOMAIN rows : rows[k] \in log
                                /\ rows[k].sequence = stream.cursor + k
  BY <1>1, NextRowsFollow, Typed DEF EventsInv
<1>3. stream' = [stream EXCEPT !.batch = rows]
  OBVIOUS
<1> HIDE DEF rows
<1>4. /\ stream' \in StreamType /\ stream'.batch = rows
      /\ stream'.cursor = stream.cursor /\ stream'.wire = stream.wire
  BY <1>2, <1>3, Typed DEF StreamType
<1>5. NothingSkipped'
  BY <1>2, <1>4 DEF EventsInv, NothingSkipped, Received, AppliedBefore, IsEvent
<1>6. SentFromLog'
  BY <1>2, <1>4 DEF EventsInv, SentFromLog, ToSet
<1> QED
  BY <1>4, <1>5, <1>6, LogUnchanged, Typed

LEMMA YieldEvents ==
  ASSUME EventsInv, YieldEvent
  PROVE  EventsInv'
<1> DEFINE e == Head(stream.batch)
           batch == stream.batch
           wire == stream.wire
           rest == Tail(batch)
           more == Append(wire, e)
<1>1. /\ batch \in Seq(EventRow) /\ wire \in Seq(EventRow) /\ batch # <<>>
      /\ stream.cursor \in Nat /\ Len(batch) \in Nat /\ Len(wire) \in Nat
  BY Typed DEF StreamType, YieldEvent
<1>2. stream' = [stream EXCEPT !.cursor = e.sequence, !.batch = rest,
                               !.wire = more]
  BY DEF YieldEvent
<1>3. /\ \A k \in DOMAIN batch : batch[k] \in log
                                 /\ batch[k].sequence = stream.cursor + k
      /\ \A k \in DOMAIN wire : wire[k] \in log
  BY DEF EventsInv, NothingSkipped, SentFromLog, ToSet
<1>4. /\ \A k \in DOMAIN wire : \/ Received(tab, wire[k].sequence - 1)
                                \/ \E i \in 1..(k - 1) :
                                     wire[i].sequence = wire[k].sequence - 1
      /\ \/ Received(tab, stream.cursor)
         \/ \E i \in DOMAIN wire : wire[i].sequence = stream.cursor
  BY DEF EventsInv, NothingSkipped
<1>5. stream \in StreamType
  BY Typed
<1> HIDE DEF batch, wire
<1>6. e = batch[1] /\ 1 \in DOMAIN batch
  BY <1>1 DEF batch
<1> HIDE DEF e
<1>7. e \in EventRow /\ e \in log /\ e.sequence = stream.cursor + 1
  BY <1>1, <1>3, <1>6
<1>8. /\ rest \in Seq(EventRow)
      /\ \A k \in DOMAIN rest : /\ k + 1 \in DOMAIN batch
                                       /\ rest[k] = batch[k + 1]
  BY <1>1
<1>9. /\ more \in Seq(EventRow)
      /\ DOMAIN more = 1..(Len(wire) + 1)
      /\ DOMAIN wire = 1..Len(wire)
      /\ more[Len(wire) + 1] = e
      /\ \A k \in DOMAIN wire : more[k] = wire[k]
  BY <1>1, <1>7, AppendProperties
<1>10. /\ stream' \in StreamType /\ stream'.cursor = e.sequence
       /\ stream'.batch = rest /\ stream'.wire = more
  <2> HIDE DEF rest, more
  <2>1. stream' = [open |-> stream.open, cursor |-> e.sequence, batch |-> rest,
                   wire |-> more]
    BY <1>2, <1>5 DEF StreamType
  <2>2. stream.open \in BOOLEAN /\ e.sequence \in Nat
    BY <1>5, <1>7 DEF StreamType, EventRow
  <2> QED
    BY <2>1, <2>2, <1>8, <1>9 DEF StreamType
<1> HIDE DEF rest, more
<1>11. \A n : Received(tab', n) <=> Received(tab, n)
  BY DEF Received, AppliedBefore, IsEvent, YieldEvent
<1>12. NothingSkipped'
  <2>1. \A k \in DOMAIN stream'.batch :
          stream'.batch[k].sequence = stream'.cursor + k
    <3> TAKE k \in DOMAIN stream'.batch
    <3>1. k \in DOMAIN rest /\ stream'.batch[k] = batch[k + 1]
      BY <1>8, <1>10
    <3>2. batch[k + 1].sequence = stream.cursor + (k + 1)
      BY <1>3, <1>8, <3>1
    <3>3. k \in Nat
      BY <1>8, <3>1
    <3>4. \A n, m \in Nat : n + (m + 1) = (n + 1) + m
      OBVIOUS
    <3>5. stream.cursor + (k + 1) = (stream.cursor + 1) + k
      BY <1>1, <3>3, <3>4, Zenon
    <3> QED
      BY <1>7, <1>10, <3>1, <3>2, <3>5
  <2>2. \A k \in DOMAIN stream'.wire :
          \/ Received(tab, stream'.wire[k].sequence - 1)
          \/ \E i \in 1..(k - 1) :
               stream'.wire[i].sequence = stream'.wire[k].sequence - 1
    <3> TAKE k \in DOMAIN stream'.wire
    <3>1. CASE k \in DOMAIN wire
      <4>1. stream'.wire[k] = wire[k] /\ \A i \in 1..(k - 1) : stream'.wire[i] = wire[i]
        BY <1>1, <1>9, <1>10, <3>1
      <4> QED
        BY <1>4, <3>1, <4>1
    <3>2. CASE k = Len(wire) + 1
      <4>1. stream'.wire[k] = e /\ \A i \in DOMAIN wire : stream'.wire[i] = wire[i]
        BY <1>9, <1>10, <3>2
      <4>2. 1..(k - 1) = DOMAIN wire
        BY <1>1, <1>9, <3>2
      <4>3. e.sequence - 1 = stream.cursor
        BY <1>1, <1>7
      <4> QED
        BY <1>4, <4>1, <4>2, <4>3
    <3> QED
      BY <1>1, <1>9, <1>10, <3>1, <3>2
  <2>3. \E i \in DOMAIN stream'.wire : stream'.wire[i].sequence = stream'.cursor
    BY <1>1, <1>9, <1>10
  <2>4. UNCHANGED tab
    BY DEF YieldEvent
  <2> QED
    BY <1>11, <2>1, <2>2, <2>3, <2>4
    DEF EventsInv, NothingSkipped, AppliedBefore, IsEvent
<1>13. SentFromLog'
  <2>1. \A k \in DOMAIN stream'.wire : stream'.wire[k] \in log
    BY <1>1, <1>3, <1>7, <1>9, <1>10
  <2>2. \A k \in DOMAIN stream'.batch : stream'.batch[k] \in log
    BY <1>3, <1>8, <1>10
  <2> QED
    BY <2>1, <2>2 DEF EventsInv, SentFromLog, ToSet, YieldEvent
<1> QED
  BY <1>10, <1>12, <1>13, LogUnchanged, Typed DEF YieldEvent

\* The connection starts where the page says, and is empty.
LEMMA ConnectEvents ==
  ASSUME EventsInv, Connect
  PROVE  EventsInv'
<1> USE DEF Connect
<1>1. tab \in TabType /\ tab.ref \in Nat
  BY Typed DEF TabType
<1>2. /\ stream' \in StreamType /\ stream'.cursor = tab.ref
      /\ stream'.batch = <<>> /\ stream'.wire = <<>>
  BY <1>1 DEF StreamType, OpenAfter
<1>3. NothingSkipped'
  BY <1>2 DEF EventsInv, NothingSkipped, Received, AppliedBefore, IsEvent
<1>4. SentFromLog'
  BY <1>2 DEF EventsInv, SentFromLog, ToSet
<1> QED
  BY <1>2, <1>3, <1>4, LogUnchanged, Typed

LEMMA DisconnectEvents ==
  ASSUME EventsInv, Disconnect
  PROVE  EventsInv'
<1> USE DEF Disconnect
<1>1. tab \in TabType /\ tab.cursor \in Nat
  BY Typed DEF TabType
<1>2. /\ stream' \in StreamType /\ stream'.cursor = 0
      /\ stream'.batch = <<>> /\ stream'.wire = <<>>
  BY DEF StreamType, Closed
<1>3. Received(tab', 0)
  BY <1>1 DEF Received, AppliedBefore
<1>4. NothingSkipped'
  BY <1>2, <1>3 DEF EventsInv, NothingSkipped, Received, AppliedBefore, IsEvent
<1>5. SentFromLog'
  BY <1>2 DEF EventsInv, SentFromLog, ToSet
<1>6. spent' \in [{"disconnects", "reloads", "requests"} -> Nat]
  BY SpendTyped, EventsAssumption
<1> QED
  BY <1>2, <1>4, <1>5, <1>6, LogUnchanged, Typed

(***************************************************************************)
(* The page.                                                               *)
(***************************************************************************)

\* Dispatching an action adds it behind those that wait.
LEMMA Dispatched ==
  ASSUME EventsInv, NEW a \in Action, tab' \in TabType,
         tab'.dispatched = Append(tab.dispatched, a), tab'.cursor = tab.cursor
  PROVE  /\ Len(tab.dispatched) \in Nat
         /\ DOMAIN tab.dispatched = 1..Len(tab.dispatched)
         /\ DOMAIN tab'.dispatched = 1..(Len(tab.dispatched) + 1)
         /\ tab'.dispatched[Len(tab.dispatched) + 1] = a
         /\ \A k \in DOMAIN tab.dispatched : tab'.dispatched[k] = tab.dispatched[k]
         /\ \A n : Received(tab, n) => Received(tab', n)
         /\ \A k \in DOMAIN tab'.dispatched : \A n :
              AppliedBefore(tab, k, n) => AppliedBefore(tab', k, n)
         /\ a.kind = "event" => Received(tab', a.event.sequence)
<1> DEFINE old == tab.dispatched
           new == tab'.dispatched
<1>1. old \in Seq(Action) /\ Len(old) \in Nat /\ DOMAIN old = 1..Len(old)
  BY Typed DEF TabType
<1>2. /\ Len(new) = Len(old) + 1 /\ DOMAIN new = 1..(Len(old) + 1)
      /\ new[Len(old) + 1] = a
      /\ \A k \in DOMAIN old : new[k] = old[k]
  <2> HIDE DEF old
  <2>1. new = Append(old, a)
    BY DEF old
  <2> QED
    BY <1>1, <2>1, AppendProperties
<1> HIDE DEF old, new
<1>3. \A k, n : AppliedBefore(tab, k, n) => AppliedBefore(tab', k, n)
  BY <1>1, <1>2 DEF AppliedBefore, IsEvent, old, new
<1>4. \A n : Received(tab, n) => Received(tab', n)
  <2> SUFFICES ASSUME NEW n, AppliedBefore(tab, Len(old) + 1, n)
               PROVE  AppliedBefore(tab', Len(new) + 1, n)
    BY DEF Received, old, new
  <2> QED
    BY <1>1, <1>2 DEF AppliedBefore, IsEvent, old, new
<1>5. a.kind = "event" => Received(tab', a.event.sequence)
  <2> HAVE a.kind = "event"
  <2>1. IsEvent(tab', Len(old) + 1, a.event.sequence)
    BY <1>2 DEF IsEvent, new
  <2> QED
    BY <1>1, <1>2, <2>1 DEF Received, AppliedBefore, old, new
<1> QED
  BY <1>1, <1>2, <1>3, <1>4, <1>5 DEF old, new

LEMMA DispatchTyped ==
  ASSUME tab \in TabType, NEW a \in Action
  PROVE  /\ Dispatch(a) \in TabType /\ Dispatch(a).ref = tab.ref
         /\ Dispatch(a).cursor = tab.cursor /\ Dispatch(a).effect = tab.effect
         /\ Dispatch(a).dispatched = Append(tab.dispatched, a)
<1> DEFINE more == Append(tab.dispatched, a)
<1>1. Dispatch(a) = [tab EXCEPT !.dispatched = more]
  BY DEF Dispatch
<1>2. more \in Seq(Action)
  BY DEF TabType
<1> HIDE DEF more
<1>3. /\ Dispatch(a) \in TabType /\ Dispatch(a).ref = tab.ref
      /\ Dispatch(a).cursor = tab.cursor /\ Dispatch(a).effect = tab.effect
      /\ Dispatch(a).dispatched = more
  BY <1>1, <1>2 DEF TabType
<1> QED
  BY <1>3 DEF more

LEMMA ReceiveEventEvents ==
  ASSUME EventsInv, ReceiveEvent
  PROVE  EventsInv'
<1> DEFINE wire == stream.wire
           e == Head(wire)
           rest == Tail(wire)
           action == [kind |-> "event", event |-> e]
           last0 == Len(tab.dispatched)
<1>1. /\ wire \in Seq(EventRow) /\ Len(wire) \in Nat /\ wire # <<>>
      /\ stream \in StreamType /\ tab \in TabType
  BY Typed DEF StreamType, ReceiveEvent
<1>2. /\ stream' = [stream EXCEPT !.wire = rest]
      /\ tab' = [Dispatch(action) EXCEPT !.ref = Max({@, e.sequence})]
  BY DEF ReceiveEvent
<1>3. /\ \A k \in DOMAIN wire : wire[k] \in log
      /\ \A k \in DOMAIN wire : \/ Received(tab, wire[k].sequence - 1)
                                \/ \E i \in 1..(k - 1) :
                                     wire[i].sequence = wire[k].sequence - 1
      /\ \/ Received(tab, stream.cursor)
         \/ \E i \in DOMAIN wire : wire[i].sequence = stream.cursor
  BY DEF EventsInv, NothingSkipped, SentFromLog, ToSet
<1> HIDE DEF wire
<1>4. e = wire[1] /\ 1 \in DOMAIN wire /\ DOMAIN wire = 1..Len(wire)
  BY <1>1
<1>5. /\ rest \in Seq(EventRow)
      /\ \A k \in DOMAIN rest : k + 1 \in DOMAIN wire /\ rest[k] = wire[k + 1]
      /\ \A k \in DOMAIN wire : k # 1 => k - 1 \in DOMAIN rest
      /\ DOMAIN rest \subseteq Nat
  BY <1>1
<1> HIDE DEF e, rest
<1>6. e \in EventRow /\ e \in log /\ e.sequence \in Nat
  <2>1. e \in log
    BY <1>3, <1>4
  <2>2. e \in EventRow
    BY <2>1, Typed
  <2> QED
    BY <2>1, <2>2 DEF EventRow
<1>7. /\ stream' \in StreamType /\ stream'.wire = rest
      /\ stream'.cursor = stream.cursor /\ stream'.batch = stream.batch
  BY <1>1, <1>2, <1>5 DEF StreamType
<1>8. action \in Action /\ action.kind = "event" /\ action.event = e
  BY <1>6 DEF Action
<1> HIDE DEF action
<1>9. /\ Dispatch(action) \in TabType /\ Dispatch(action).ref = tab.ref
      /\ Dispatch(action).cursor = tab.cursor
      /\ Dispatch(action).effect = tab.effect
      /\ Dispatch(action).dispatched = Append(tab.dispatched, action)
  BY <1>1, <1>8, DispatchTyped
<1>10. Max({tab.ref, e.sequence}) \in {tab.ref, e.sequence}
  <2>1. tab.ref \in Nat
    BY <1>1 DEF TabType
  <2> QED
    BY <1>6, <2>1, MaxOfTwo
<1>11. /\ tab' \in TabType /\ tab'.ref \in {tab.ref, e.sequence}
       /\ tab'.cursor = tab.cursor /\ tab'.effect = tab.effect
       /\ tab'.dispatched = Append(tab.dispatched, action)
  <2>1. Max({tab.ref, e.sequence}) \in Nat
    BY <1>1, <1>6, <1>10 DEF TabType
  <2> QED
    BY <1>2, <1>9, <1>10, <2>1 DEF TabType
<1>12. /\ last0 \in Nat /\ DOMAIN tab.dispatched = 1..last0
       /\ DOMAIN tab'.dispatched = 1..(last0 + 1)
       /\ tab'.dispatched[last0 + 1] = action
       /\ \A k \in DOMAIN tab.dispatched : tab'.dispatched[k] = tab.dispatched[k]
       /\ \A n : Received(tab, n) => Received(tab', n)
       /\ \A k \in DOMAIN tab'.dispatched : \A n :
            AppliedBefore(tab, k, n) => AppliedBefore(tab', k, n)
       /\ Received(tab', e.sequence)
  BY <1>8, <1>11, Dispatched
<1>13. NothingSkipped'
  <2>1. ASSUME NEW k \in DOMAIN tab'.dispatched,
               tab'.dispatched[k].kind = "event"
        PROVE  AppliedBefore(tab', k, tab'.dispatched[k].event.sequence - 1)
    <3>1. CASE k \in DOMAIN tab.dispatched
      BY <1>12, <2>1, <3>1 DEF EventsInv, NothingSkipped
    <3>2. CASE k = last0 + 1
      <4>1. tab'.dispatched[k].event.sequence - 1 = e.sequence - 1
        BY <1>8, <1>12, <3>2
      <4>2. Received(tab, e.sequence - 1)
        BY <1>3, <1>4
      <4>3. AppliedBefore(tab, k, e.sequence - 1)
        BY <3>2, <4>2 DEF Received
      <4> QED
        BY <1>12, <4>1, <4>3
    <3> QED
      BY <1>12, <3>1, <3>2
  <2>2. ASSUME NEW k \in DOMAIN rest
        PROVE  \/ Received(tab', rest[k].sequence - 1)
               \/ \E i \in 1..(k - 1) : rest[i].sequence = rest[k].sequence - 1
    <3>1. k + 1 \in DOMAIN wire /\ rest[k] = wire[k + 1] /\ k \in Nat
      BY <1>5
    <3>2. CASE Received(tab, rest[k].sequence - 1)
      BY <1>12, <3>2
    <3>3. CASE \E i \in 1..k : wire[i].sequence = rest[k].sequence - 1
      <4>1. PICK i \in 1..k : wire[i].sequence = rest[k].sequence - 1
        BY <3>3
      <4>2. CASE i = 1
        BY <1>4, <1>12, <4>1, <4>2
      <4>3. CASE i # 1
        <5>1. i \in DOMAIN wire
          BY <1>1, <1>4, <3>1
        <5>2. i - 1 \in DOMAIN rest /\ (i - 1) + 1 = i /\ i - 1 \in 1..(k - 1)
          BY <1>5, <3>1, <4>3, <5>1
        <5>3. rest[i - 1] = wire[i]
          BY <1>5, <5>2
        <5> QED
          BY <4>1, <5>2, <5>3
      <4> QED
        BY <4>2, <4>3
    <3>4. (k + 1) - 1 = k
      BY <3>1
    <3> QED
      BY <1>3, <3>1, <3>2, <3>3, <3>4
  <2>3. \/ Received(tab', stream.cursor)
        \/ \E i \in DOMAIN rest : rest[i].sequence = stream.cursor
    <3>1. CASE Received(tab, stream.cursor)
      BY <1>12, <3>1
    <3>2. CASE \E i \in DOMAIN wire : wire[i].sequence = stream.cursor
      <4>1. PICK i \in DOMAIN wire : wire[i].sequence = stream.cursor
        BY <3>2
      <4>2. CASE i = 1
        BY <1>4, <1>12, <4>1, <4>2
      <4>3. CASE i # 1
        <5>1. i - 1 \in DOMAIN rest /\ (i - 1) + 1 = i
          BY <1>1, <1>4, <1>5, <4>3
        <5>2. rest[i - 1] = wire[i]
          BY <1>5, <5>1
        <5> QED
          BY <4>1, <5>1, <5>2
      <4> QED
        BY <4>2, <4>3
    <3> QED
      BY <1>3, <3>1, <3>2
  <2>4. Received(tab', tab'.ref)
    BY <1>11, <1>12 DEF EventsInv, NothingSkipped
  <2>5. /\ tab'.effect \in {NoEffect, tab'.cursor}
        /\ \A k \in DOMAIN stream'.batch :
             stream'.batch[k].sequence = stream'.cursor + k
    BY <1>7, <1>11 DEF EventsInv, NothingSkipped
  <2> QED
    BY <1>7, <2>1, <2>2, <2>3, <2>4, <2>5 DEF NothingSkipped
<1>14. SentFromLog'
  <2>1. log' = log
    BY DEF ReceiveEvent
  <2>2. \A k \in DOMAIN tab'.dispatched :
          tab'.dispatched[k].kind = "event" => tab'.dispatched[k].event \in log'
    <3> TAKE k \in DOMAIN tab'.dispatched
    <3>1. CASE k \in DOMAIN tab.dispatched
      BY <1>12, <2>1, <3>1 DEF EventsInv, SentFromLog
    <3>2. CASE k = last0 + 1
      BY <1>6, <1>8, <1>12, <2>1, <3>2
    <3> QED
      BY <1>12, <3>1, <3>2
  <2>3. \A k \in DOMAIN rest : rest[k] \in log'
    BY <1>3, <1>5, <2>1
  <2>4. ToSet(stream'.batch) \subseteq log'
    BY <1>7, <2>1 DEF EventsInv, SentFromLog
  <2> QED
    BY <1>7, <2>2, <2>3, <2>4 DEF SentFromLog, ToSet
<1> QED
  BY <1>7, <1>11, <1>13, <1>14, LogUnchanged, Typed DEF ReceiveEvent

RequestsType == [Runs -> [kind : DOMAIN Answers \cup {"none"},
                          answer : Status \cup {NoAnswer}]]

\* Asking, and the server's answers, disturb nothing else.
LEMMA RequestsChange ==
  ASSUME EventsInv, UNCHANGED <<status, last, log, txn, stream, tab>>,
         requests' \in RequestsType,
         spent' \in [{"disconnects", "reloads", "requests"} -> Nat]
  PROVE  EventsInv'
<1>1. NothingSkipped' /\ SentFromLog'
  BY DEF EventsInv, NothingSkipped, SentFromLog
<1> QED
  BY <1>1, Typed, LogUnchanged DEF RequestsType

LEMMA ClickEvents ==
  ASSUME EventsInv, NEW r \in Runs, Click(r)
  PROVE  EventsInv'
<1>1. PICK kind \in {"create", "cancel", "retry"} :
        requests' = [requests EXCEPT ![r] = Ask(kind)]
  BY DEF Click
<1>2. requests' \in RequestsType
  BY <1>1, Typed DEF RequestsType, Ask, Answers
<1>3. spent' \in [{"disconnects", "reloads", "requests"} -> Nat]
  BY SpendTyped, EventsAssumption DEF Click
<1> QED
  BY <1>2, <1>3, RequestsChange DEF Click

LEMMA ReadRunEvents ==
  ASSUME EventsInv, NEW r \in Runs, ReadRun(r)
  PROVE  EventsInv'
<1>1. requests' \in RequestsType
  BY Typed DEF RequestsType, ReadRun
<1> QED
  BY <1>1, Typed, RequestsChange DEF ReadRun

LEMMA FailRequestEvents ==
  ASSUME EventsInv, NEW r \in Runs, FailRequest(r)
  PROVE  EventsInv'
<1>1. requests' \in RequestsType
  BY Typed DEF RequestsType, FailRequest, NoRequest
<1> QED
  BY <1>1, Typed, RequestsChange DEF FailRequest

LEMMA ReceiveRunEvents ==
  ASSUME EventsInv, NEW r \in Runs, ReceiveRun(r)
  PROVE  EventsInv'
<1> DEFINE kind == IF requests[r].kind = "create" THEN "track" ELSE "reconcile"
           action == [kind |-> kind, run |-> r, status |-> requests[r].answer]
           last0 == Len(tab.dispatched)
<1>1. action \in Action /\ action.kind # "event"
  <2>1. requests[r].answer \in Status /\ kind \in {"track", "reconcile"}
    BY Typed DEF ReceiveRun
  <2> QED
    BY <2>1 DEF Action
<1>2. tab' = Dispatch(action) /\ requests' = [requests EXCEPT ![r] = NoRequest]
  BY DEF ReceiveRun
<1> HIDE DEF action
<1>3. requests' \in RequestsType
  BY <1>2, Typed DEF RequestsType, NoRequest
<1>4. /\ tab' \in TabType /\ tab'.ref = tab.ref
      /\ tab'.cursor = tab.cursor /\ tab'.effect = tab.effect
      /\ tab'.dispatched = Append(tab.dispatched, action)
  BY <1>1, <1>2, Typed, DispatchTyped
<1>5. /\ last0 \in Nat /\ DOMAIN tab.dispatched = 1..last0
      /\ DOMAIN tab'.dispatched = 1..(last0 + 1)
      /\ tab'.dispatched[last0 + 1] = action
      /\ \A k \in DOMAIN tab.dispatched : tab'.dispatched[k] = tab.dispatched[k]
      /\ \A n : Received(tab, n) => Received(tab', n)
      /\ \A k \in DOMAIN tab'.dispatched : \A n :
           AppliedBefore(tab, k, n) => AppliedBefore(tab', k, n)
  BY <1>1, <1>4, Dispatched
<1>6. stream' = stream /\ log' = log
  BY DEF ReceiveRun
<1>7. ASSUME NEW k \in DOMAIN tab'.dispatched, tab'.dispatched[k].kind = "event"
      PROVE  /\ k \in DOMAIN tab.dispatched
             /\ tab'.dispatched[k] = tab.dispatched[k]
  BY <1>1, <1>5, <1>7
<1>8. NothingSkipped'
  <2>1. \A k \in DOMAIN tab'.dispatched :
          tab'.dispatched[k].kind = "event" =>
            AppliedBefore(tab', k, tab'.dispatched[k].event.sequence - 1)
    BY <1>5, <1>7 DEF EventsInv, NothingSkipped
  <2> QED
    BY <1>4, <1>5, <1>6, <2>1 DEF EventsInv, NothingSkipped
<1>9. SentFromLog'
  BY <1>6, <1>7 DEF EventsInv, SentFromLog
<1> QED
  BY <1>3, <1>4, <1>8, <1>9, LogUnchanged, Typed DEF ReceiveRun, RequestsType

\* What the reducer does to the page, the cards aside.
LEMMA ReducedTyped ==
  ASSUME NEW state \in TabType, NEW action \in Action
  PROVE  /\ Reduced(state, action) \in TabType
         /\ Reduced(state, action).ref = state.ref
         /\ Reduced(state, action).dispatched = state.dispatched
         /\ Reduced(state, action).effect = state.effect
         /\ Reduced(state, action).cursor =
              IF action.kind = "event" /\ ~(action.event.sequence <= state.cursor)
                THEN action.event.sequence ELSE state.cursor
<1>1. CASE action.kind = "event"
  <2> DEFINE e == action.event
             card == Shown(state.runs[e.run], e.type)
  <2>1. e \in EventRow
    BY <1>1 DEF Action
  <2>2. Reduced(state, action) = ReduceEvent(state, e)
    BY <1>1 DEF Reduced
  <2>3. CASE e.sequence <= state.cursor
    BY <1>1, <2>2, <2>3 DEF ReduceEvent
  <2>4. CASE ~(e.sequence <= state.cursor)
    <3>1. card \in Status \cup {Unknown}
      BY <2>1 DEF Shown, Status, TabType, EventRow
    <3>2. ReduceEvent(state, e) = [state EXCEPT !.cursor = e.sequence,
                                                !.runs[e.run] = card]
      BY <2>4 DEF ReduceEvent
    <3> HIDE DEF card, e
    <3>3. ReduceEvent(state, e) =
            [ref |-> state.ref, cursor |-> e.sequence,
             runs |-> [state.runs EXCEPT ![e.run] = card],
             dispatched |-> state.dispatched, effect |-> state.effect]
      BY <3>2 DEF TabType
    <3>4. e.sequence \in Nat /\ e.run \in Runs
      BY <2>1 DEF EventRow
    <3>5. [state.runs EXCEPT ![e.run] = card] \in [Runs -> Status \cup {Unknown}]
      BY <3>1, <3>4 DEF TabType
    <3> QED
      BY <1>1, <2>2, <2>4, <3>3, <3>4, <3>5 DEF TabType, e
  <2> QED
    BY <2>3, <2>4
<1>2. CASE action.kind # "event"
  <2>1. action.run \in Runs /\ action.status \in Status
        /\ action.kind \in {"track", "reconcile"}
    BY <1>2 DEF Action
  <2>2. PICK card \in Status \cup {Unknown} :
          Reduced(state, action) = [state EXCEPT !.runs[action.run] = card]
    BY <2>1 DEF Reduced, ReduceTrack, ReduceReconcile, TabType
  <2>3. Reduced(state, action) =
          [ref |-> state.ref, cursor |-> state.cursor,
           runs |-> [state.runs EXCEPT ![action.run] = card],
           dispatched |-> state.dispatched, effect |-> state.effect]
    BY <2>2 DEF TabType
  <2>4. [state.runs EXCEPT ![action.run] = card] \in [Runs -> Status \cup {Unknown}]
    BY <2>1 DEF TabType
  <2> QED
    BY <1>2, <2>3, <2>4 DEF TabType
<1> QED
  BY <1>1, <1>2

\* A page after the first waiting action of tab has been reduced.
Follows(t) ==
  /\ t.dispatched = Tail(tab.dispatched)
  /\ t.cursor \in Nat /\ tab.cursor <= t.cursor
  /\ \A n \in Int : IsEvent(tab, 1, n) => n <= t.cursor

\* What was received stays received; the actions move up by one.
LEMMA Dropped ==
  ASSUME EventsInv, tab.dispatched # <<>>, NEW t, Follows(t)
  PROVE  /\ \A k \in DOMAIN t.dispatched :
              /\ k \in Nat /\ k + 1 \in DOMAIN tab.dispatched
              /\ t.dispatched[k] = tab.dispatched[k + 1]
         /\ \A n \in Int : Received(tab, n) => Received(t, n)
         /\ \A k \in DOMAIN t.dispatched : \A n \in Int :
              AppliedBefore(tab, k + 1, n) => AppliedBefore(t, k, n)
<1> DEFINE old == tab.dispatched
           new == t.dispatched
<1>1. /\ old \in Seq(Action) /\ Len(old) \in Nat /\ DOMAIN old = 1..Len(old)
      /\ old # <<>> /\ new = Tail(old)
      /\ tab.cursor \in Nat /\ t.cursor \in Nat /\ tab.cursor <= t.cursor
  BY Typed DEF TabType, Follows
<1>2. \A n \in Int : IsEvent(tab, 1, n) => n <= t.cursor
  BY DEF Follows
<1> HIDE DEF old, new
<1>3. /\ Len(new) = Len(old) - 1 /\ DOMAIN new = 1..(Len(old) - 1)
      /\ \A k \in DOMAIN new : new[k] = old[k + 1]
  BY <1>1
<1>4. \A k \in DOMAIN new : k \in Nat /\ k + 1 \in DOMAIN old
  BY <1>1, <1>3
<1>5. ASSUME NEW k \in 1..Len(old), NEW n \in Int, AppliedBefore(tab, k + 1, n)
      PROVE  AppliedBefore(t, k, n)
  <2>1. CASE n <= tab.cursor
    BY <1>1, <2>1 DEF AppliedBefore
  <2>2. CASE \E i \in DOMAIN old : i < k + 1 /\ IsEvent(tab, i, n)
    <3>1. PICK i \in DOMAIN old : i < k + 1 /\ IsEvent(tab, i, n)
      BY <2>2
    <3>2. CASE i = 1
      BY <1>2, <3>1, <3>2 DEF AppliedBefore
    <3>3. CASE i # 1
      <4>1. /\ i - 1 \in DOMAIN new /\ i - 1 < k /\ (i - 1) + 1 = i
        BY <1>1, <1>3, <3>1, <3>3
      <4>2. new[i - 1] = old[i]
        BY <1>3, <4>1
      <4>3. IsEvent(t, i - 1, n)
        BY <3>1, <4>2 DEF IsEvent, old, new
      <4> QED
        BY <4>1, <4>3 DEF AppliedBefore, new
    <3> QED
      BY <3>2, <3>3
  <2> QED
    BY <1>5, <2>1, <2>2 DEF AppliedBefore, old
<1>6. ASSUME NEW n \in Int, Received(tab, n) PROVE Received(t, n)
  <2>1. Len(old) \in 1..Len(old)
    <3>1. Len(old) # 0
      BY <1>1
    <3> QED
      BY <1>1, <3>1
  <2>2. AppliedBefore(tab, Len(old) + 1, n)
    BY <1>6 DEF Received, old
  <2>3. AppliedBefore(t, Len(old), n)
    BY <1>5, <2>1, <2>2
  <2>4. Len(new) + 1 = Len(old)
    BY <1>1, <1>3
  <2> QED
    BY <2>3, <2>4 DEF Received, new
<1> QED
  BY <1>1, <1>3, <1>4, <1>5, <1>6 DEF old, new

\* What the step of the reducer makes of the page.
LEMMA ReduceIs ==
  ASSUME EventsInv, Reduce
  PROVE  /\ tab' \in TabType /\ tab'.ref = tab.ref /\ Follows(tab')
         /\ tab'.effect \in {NoEffect, tab'.cursor}
         /\ tab'.cursor # tab.cursor =>
              /\ tab.dispatched[1].kind = "event"
              /\ tab'.cursor = tab.dispatched[1].event.sequence
              /\ tab'.cursor = tab.cursor + 1
<1> DEFINE action == Head(tab.dispatched)
           rest == Tail(tab.dispatched)
           state == [tab EXCEPT !.dispatched = rest]
           next == Reduced(state, action)
<1>1. tab' = [next EXCEPT !.effect = IF next.cursor # tab.cursor
                                       THEN next.cursor ELSE NoEffect]
  BY DEF Reduce
<1>2. tab \in TabType /\ tab.cursor \in Nat
  BY Typed DEF TabType
<1>3. /\ tab.dispatched # <<>> /\ tab.dispatched \in Seq(Action)
      /\ action = tab.dispatched[1] /\ 1 \in DOMAIN tab.dispatched
      /\ action \in Action /\ rest \in Seq(Action)
  BY <1>2 DEF TabType, Reduce
<1> HIDE DEF action, rest
<1>4. /\ state \in TabType /\ state.ref = tab.ref /\ state.dispatched = rest
      /\ state.cursor = tab.cursor
  BY <1>2, <1>3 DEF TabType
<1> HIDE DEF state
<1>5. /\ next \in TabType /\ next.ref = tab.ref /\ next.dispatched = rest
      /\ next.cursor =
           IF action.kind = "event" /\ ~(action.event.sequence <= tab.cursor)
             THEN action.event.sequence ELSE tab.cursor
  BY <1>3, <1>4, ReducedTyped
<1> HIDE DEF next
<1>6. /\ tab' \in TabType /\ tab'.ref = tab.ref /\ tab'.dispatched = rest
      /\ tab'.cursor = next.cursor /\ tab'.effect \in {NoEffect, tab'.cursor}
  BY <1>1, <1>5 DEF TabType
<1>7. ASSUME action.kind = "event"
      PROVE  /\ action.event.sequence \in Nat
             /\ action.event.sequence - 1 <= tab.cursor
  <2>1. action.event \in EventRow
    BY <1>3, <1>7 DEF Action
  <2>2. AppliedBefore(tab, 1, action.event.sequence - 1)
    BY <1>3, <1>7 DEF EventsInv, NothingSkipped
  <2>3. ~ \E i \in DOMAIN tab.dispatched : i < 1
    BY <1>3
  <2> QED
    BY <2>1, <2>2, <2>3 DEF AppliedBefore, EventRow
<1>8. Follows(tab')
  <2>1. tab.cursor <= tab'.cursor /\ tab'.cursor \in Nat
    BY <1>2, <1>5, <1>6, <1>7
  <2>2. \A n \in Int : IsEvent(tab, 1, n) => n <= tab'.cursor
    BY <1>2, <1>3, <1>5, <1>6, <1>7 DEF IsEvent
  <2> QED
    BY <1>6, <2>1, <2>2 DEF Follows, rest
<1>9. tab'.cursor # tab.cursor =>
        action.kind = "event" /\ tab'.cursor = action.event.sequence
        /\ tab'.cursor = tab.cursor + 1
  BY <1>2, <1>5, <1>6, <1>7
<1> QED
  BY <1>3, <1>6, <1>8, <1>9

LEMMA ReduceEvents ==
  ASSUME EventsInv, Reduce
  PROVE  EventsInv'
<1>1. /\ tab' \in TabType /\ tab'.ref = tab.ref
      /\ tab'.effect \in {NoEffect, tab'.cursor}
  BY ReduceIs
<1>2. /\ \A k \in DOMAIN tab'.dispatched :
           /\ k \in Nat /\ k + 1 \in DOMAIN tab.dispatched
           /\ tab'.dispatched[k] = tab.dispatched[k + 1]
      /\ \A n \in Int : Received(tab, n) => Received(tab', n)
      /\ \A k \in DOMAIN tab'.dispatched : \A n \in Int :
           AppliedBefore(tab, k + 1, n) => AppliedBefore(tab', k, n)
  <2>1. Follows(tab') /\ tab.dispatched # <<>>
    BY ReduceIs DEF Reduce
  <2> QED
    BY <2>1, Dropped, Zenon
<1>3. stream' = stream /\ log' = log
  BY DEF Reduce
<1>4. NothingSkipped'
  <2>1. ASSUME NEW k \in DOMAIN tab'.dispatched,
               tab'.dispatched[k].kind = "event"
        PROVE  AppliedBefore(tab', k, tab'.dispatched[k].event.sequence - 1)
    <3> DEFINE e == tab.dispatched[k + 1].event
    <3>1. tab.dispatched[k + 1].kind = "event" /\ k + 1 \in DOMAIN tab.dispatched
      BY <1>2, <2>1
    <3>2. AppliedBefore(tab, k + 1, e.sequence - 1)
      BY <3>1 DEF EventsInv, NothingSkipped
    <3>3. e \in log
      BY <3>1 DEF EventsInv, SentFromLog
    <3>4. e.sequence - 1 \in Int
      BY <3>3, Typed DEF EventRow
    <3> QED
      BY <1>2, <3>2, <3>4
  <2>2. \A k \in DOMAIN stream.wire : stream.wire[k].sequence - 1 \in Int
    <3>1. \A k \in DOMAIN stream.wire : stream.wire[k] \in log
      BY DEF EventsInv, SentFromLog, ToSet
    <3> QED
      BY <3>1, Typed DEF EventRow
  <2>3. stream.cursor \in Int /\ tab.ref \in Int
    BY Typed DEF StreamType, TabType
  <2>4. Received(tab', tab'.ref)
    BY <1>1, <1>2, <2>3 DEF EventsInv, NothingSkipped
  <2> QED
    BY <1>1, <1>2, <1>3, <2>1, <2>2, <2>3, <2>4 DEF EventsInv, NothingSkipped
<1>5. SentFromLog'
  BY <1>2, <1>3 DEF EventsInv, SentFromLog
<1> QED
  BY <1>1, <1>4, <1>5, LogUnchanged, Typed DEF Reduce

LEMMA SyncCursorEvents ==
  ASSUME EventsInv, SyncCursor
  PROVE  EventsInv'
<1> USE DEF SyncCursor
<1>1. tab \in TabType /\ tab.effect = tab.cursor /\ tab.cursor \in Nat
  BY Typed DEF TabType, EventsInv, NothingSkipped
<1>2. tab' = [ref |-> tab.cursor, cursor |-> tab.cursor, runs |-> tab.runs,
              dispatched |-> tab.dispatched, effect |-> NoEffect]
  BY <1>1 DEF TabType
<1>3. /\ tab' \in TabType /\ tab'.ref = tab.cursor /\ tab'.cursor = tab.cursor
      /\ tab'.dispatched = tab.dispatched /\ tab'.effect = NoEffect
  BY <1>1, <1>2 DEF TabType
<1>4. /\ \A k, n : AppliedBefore(tab, k, n) <=> AppliedBefore(tab', k, n)
      /\ \A n : Received(tab, n) <=> Received(tab', n)
      /\ Received(tab', tab'.ref)
  BY <1>1, <1>3 DEF AppliedBefore, Received, IsEvent
<1>5. NothingSkipped'
  BY <1>3, <1>4 DEF EventsInv, NothingSkipped
<1>6. SentFromLog'
  BY <1>3 DEF EventsInv, SentFromLog
<1> QED
  BY <1>3, <1>5, <1>6, LogUnchanged, Typed

LEMMA ReloadEvents ==
  ASSUME EventsInv, Reload
  PROVE  EventsInv'
<1>1. stream' \in StreamType /\ stream'.cursor = 0
      /\ stream'.batch = <<>> /\ stream'.wire = <<>>
  BY DEF Closed, StreamType, Reload
<1> DEFINE cards == [r \in Runs |-> IF r \in Retained THEN "queued" ELSE Unknown]
<1>2. /\ tab' = [ref |-> 0, cursor |-> 0, runs |-> cards, dispatched |-> <<>>,
                 effect |-> NoEffect]
      /\ cards \in [Runs -> Status \cup {Unknown}]
  BY DEF EmptyTab, Status, Reload
<1> HIDE DEF cards
<1>3. tab' \in TabType /\ tab'.ref = 0 /\ tab'.cursor = 0
      /\ tab'.dispatched = <<>> /\ tab'.effect = NoEffect
  BY <1>2 DEF TabType
<1>4. requests' \in RequestsType
  BY DEF RequestsType, Ask, NoRequest, Answers, Reload
<1>5. spent' \in [{"disconnects", "reloads", "requests"} -> Nat]
  BY SpendTyped, EventsAssumption DEF Reload
<1>6. NothingSkipped'
  BY <1>1, <1>3 DEF NothingSkipped, Received, AppliedBefore
<1>7. SentFromLog'
  BY <1>1, <1>3 DEF SentFromLog, ToSet
<1> QED
  BY <1>1, <1>3, <1>4, <1>5, <1>6, <1>7, LogUnchanged, Typed DEF RequestsType, Reload

(***************************************************************************)
(* The theorems.                                                           *)
(***************************************************************************)
LEMMA NextEvents ==
  ASSUME EventsInv, [Next]_vars
  PROVE  EventsInv'
<1>1. ASSUME NEW r \in Runs, Begin(r) \/ AppendEvent(r) \/ Commit(r) \/ Rollback(r)
      PROVE  EventsInv'
  BY <1>1, BeginEvents, AppendEvents, CommitEvents, RollbackEvents
<1>2. CASE Deliver
  BY <1>2, FetchEvents, YieldEvents, ConnectEvents, ReceiveEventEvents,
     ReduceEvents, SyncCursorEvents DEF Deliver
<1>3. CASE Disconnect \/ Reload
  BY <1>3, DisconnectEvents, ReloadEvents
<1>4. ASSUME NEW r \in Runs,
             Click(r) \/ ReadRun(r) \/ FailRequest(r) \/ ReceiveRun(r)
      PROVE  EventsInv'
  BY <1>4, ClickEvents, ReadRunEvents, FailRequestEvents, ReceiveRunEvents
<1>5. CASE UNCHANGED vars
  <2>1. UNCHANGED <<status, last, log, txn, stream, tab>>
    BY <1>5 DEF vars
  <2>2. requests' \in RequestsType
        /\ spent' \in [{"disconnects", "reloads", "requests"} -> Nat]
    BY <1>5, Typed DEF vars, RequestsType
  <2> QED
    BY <2>1, <2>2, RequestsChange
<1> QED
  BY <1>1, <1>2, <1>3, <1>4, <1>5 DEF Next, Server

\* However the transactions of the runs interleave, the stream is cut and the
\* page reloaded: events are numbered 1..last_sequence, one transaction at a
\* time numbers them, and nothing on its way to the page has lost its
\* predecessor.  The types of the state are part of it.
THEOREM EventsInvariant == Spec => []EventsInv
<1>1. Init => EventsInv
  BY InitEvents
<1>2. EventsInv /\ [Next]_vars => EventsInv'
  BY NextEvents
<1> QED
  BY <1>1, <1>2, PTL DEF Spec

\* The state of the server, the stream and the page keeps its types.
THEOREM EventsTypeCorrect == Spec => []TypeOK
<1>1. EventsInv => TypeOK
  BY DEF EventsInv
<1> QED
  BY <1>1, EventsInvariant, PTL

\* The committed events of a canvas are numbered 1..last_sequence, each number
\* once, whatever transactions commit or roll back: the cursor of a reader
\* never passes an event that commits later.
THEOREM SequenceStaysDense == Spec => []SequenceIsDense
<1>1. EventsInv => SequenceIsDense
  BY DEF EventsInv
<1> QED
  BY <1>1, EventsInvariant, PTL

\* A transaction publishes events numbered above all the others.
LEMMA CommitPublishes ==
  ASSUME EventsInv, NEW r \in Runs, Commit(r)
  PROVE  Feed!Publish
<1> DEFINE pending == txn[r].pending
<1>1. /\ pending \in Seq(EventRow) /\ last \in Nat
      /\ \A i \in DOMAIN pending : pending[i].sequence = last + i
  BY ReadCursorIs, Typed DEF EventsInv, PendingFollows
<1>2. log' = log \cup {pending[i] : i \in DOMAIN pending} /\ tab' = tab
  BY DEF Commit, ToSet
<1>3. ASSUME NEW e \in log' \ log, NEW old \in log
      PROVE  e.sequence > old.sequence
  <2>1. PICK i \in DOMAIN pending : e = pending[i]
    BY <1>2
  <2>2. old.sequence \in 1..last
    BY DEF EventsInv, SequenceIsDense
  <2>3. i \in Nat /\ i > 0
    BY <1>1
  <2>4. e.sequence = last + i
    BY <1>1, <2>1
  <2> HIDE DEF pending
  <2> QED
    BY <1>1, <2>2, <2>3, <2>4
<1> QED
  BY <1>2, <1>3 DEF Feed!Publish

\* The reducer shows the next event, or nothing new.
LEMMA ReduceShows ==
  ASSUME EventsInv, Reduce
  PROVE  Feed!Show \/ UNCHANGED Feed!feedVars
<1>1. log' = log
  BY DEF Reduce
<1>2. CASE tab'.cursor = tab.cursor
  BY <1>1, <1>2 DEF Feed!feedVars
<1>3. CASE tab'.cursor # tab.cursor
  <2> DEFINE e == tab.dispatched[1].event
  <2>1. /\ tab.dispatched[1].kind = "event" /\ tab'.cursor = e.sequence
        /\ tab'.cursor = tab.cursor + 1
    BY <1>3, ReduceIs
  <2>2. 1 \in DOMAIN tab.dispatched
    BY Typed DEF TabType, Reduce
  <2>3. e \in log
    BY <2>1, <2>2 DEF EventsInv, SentFromLog
  <2> QED
    BY <1>1, <2>1, <2>3 DEF Feed!Show, Feed!Numbers
<1> QED
  BY <1>2, <1>3

LEMMA NextImplementsFeed ==
  ASSUME EventsInv, [Next]_vars
  PROVE  [Feed!FeedNext]_(Feed!feedVars)
<1>1. ASSUME UNCHANGED <<log, tab>> PROVE UNCHANGED Feed!feedVars
  BY <1>1 DEF Feed!feedVars
<1>2. ASSUME NEW r \in Runs, Begin(r) \/ AppendEvent(r) \/ Rollback(r)
      PROVE  UNCHANGED <<log, tab>>
  BY <1>2 DEF Begin, AppendEvent, Insert, Rollback
<1>3. ASSUME NEW r \in Runs, Commit(r) PROVE Feed!FeedNext
  BY <1>3, CommitPublishes DEF Feed!FeedNext
<1>4. CASE FetchBatch \/ YieldEvent \/ Connect \/ Disconnect
  BY <1>1, <1>4 DEF FetchBatch, YieldEvent, Connect, Disconnect
<1>5. CASE Reduce
  BY <1>5, ReduceShows DEF Feed!FeedNext
<1>6. CASE ReceiveEvent
  <2>1. tab'.cursor = tab.cursor /\ log' = log
    <3> DEFINE seen == Max({tab.ref, Head(stream.wire).sequence})
               action == [kind |-> "event", event |-> Head(stream.wire)]
    <3>1. tab' = [Dispatch(action) EXCEPT !.ref = Max({@, Head(stream.wire).sequence})]
      BY <1>6 DEF ReceiveEvent
    <3>2. stream.wire \in Seq(EventRow) /\ stream.wire # <<>>
      BY <1>6, Typed DEF StreamType, ReceiveEvent
    <3>3. action \in Action
      BY <3>2 DEF Action
    <3> HIDE DEF action
    <3>4. Dispatch(action) \in TabType /\ Dispatch(action).cursor = tab.cursor
      BY <3>3, Typed, DispatchTyped
    <3> QED
      BY <1>6, <3>1, <3>4 DEF TabType, ReceiveEvent
  <2> QED
    BY <2>1 DEF Feed!feedVars
<1>7. CASE SyncCursor
  BY <1>7, Typed DEF SyncCursor, TabType, Feed!feedVars
<1>8. CASE Reload
  BY <1>8 DEF Reload, EmptyTab, Feed!FeedNext, Feed!ReloadPage
<1>9. ASSUME NEW r \in Runs, Click(r) \/ ReadRun(r) \/ FailRequest(r)
      PROVE  UNCHANGED <<log, tab>>
  BY <1>9 DEF Click, ReadRun, FailRequest
<1>10. ASSUME NEW r \in Runs, ReceiveRun(r)
       PROVE  UNCHANGED Feed!feedVars
  BY <1>10, Typed DEF ReceiveRun, Dispatch, TabType, Feed!feedVars
<1>11. CASE UNCHANGED vars
  BY <1>1, <1>11 DEF vars
<1> QED
  BY <1>1, <1>2, <1>3, <1>4, <1>5, <1>6, <1>7, <1>8, <1>9, <1>10, <1>11
  DEF Next, Server, Deliver

\* The stream and the reducer implement the abstract feed: between two loads
\* of the page every event is applied once, in order, with no gap.
THEOREM StreamImplementsFeed == Spec => ImplementsFeed
<1>1. Init => Feed!FeedInit
  BY DEF Init, EmptyTab, Feed!FeedInit
<1>2. EventsInv /\ [Next]_vars => [Feed!FeedNext]_(Feed!feedVars)
  BY NextImplementsFeed
<1> QED
  BY <1>1, <1>2, EventsInvariant, PTL DEF Spec, ImplementsFeed, Feed!FeedSpec

(***************************************************************************)
(* run_sequence.                                                           *)
(***************************************************************************)
OfRun(r) == {e \in log : e.run = r}

\* The rows of an open transaction count on from the committed ones: nobody
\* else can commit rows before it, for it holds the cursor.
PendingCounts ==
  \A r \in Runs : \A i \in DOMAIN txn[r].pending :
    /\ txn[r].pending[i].run = r
    /\ txn[r].pending[i].place = Cardinality(OfRun(r)) + i

PlacesInv == RunSequenceAgrees /\ PendingCounts

LEMMA OfRunFinite ==
  ASSUME EventsInv, NEW r \in Runs
  PROVE  /\ OfRun(r) \subseteq log /\ IsFiniteSet(OfRun(r))
         /\ Cardinality(OfRun(r)) \in Nat
<1>1. IsFiniteSet(log)
  BY Typed, LogIsFinite DEF EventsInv
<1> QED
  BY <1>1, FS_Subset, FS_CardinalityType DEF OfRun

LEMMA AppendPlaces ==
  ASSUME EventsInv, PlacesInv, NEW r \in Runs, AppendEvent(r)
  PROVE  PlacesInv'
<1> PICK move \in Moves : Insert(r, move)
  BY DEF AppendEvent
<1> DEFINE row == [sequence |-> ReadCursor(r) + 1, place |-> NextPlace(r),
                   run |-> r, type |-> move.type]
           pending == txn[r].pending
           longer == Append(pending, row)
<1>1. /\ pending \in Seq(EventRow) /\ Len(pending) \in Nat
      /\ Cardinality(OfRun(r)) \in Nat
  BY ReadCursorIs, OfRunFinite
<1>2. /\ row.run = r
      /\ row.place = Cardinality(OfRun(r)) + (Len(pending) + 1)
  BY <1>1 DEF NextPlace, OfRun
<1>3. txn' = [txn EXCEPT ![r] = Open(move.to, longer)] /\ log' = log
  BY DEF Insert
<1>4. /\ DOMAIN longer = 1..(Len(pending) + 1)
      /\ longer[Len(pending) + 1] = row
      /\ \A j \in DOMAIN pending : longer[j] = pending[j]
      /\ DOMAIN pending = 1..Len(pending)
  BY <1>1
<1> HIDE DEF row, longer
<1>5. \A q \in Runs : txn'[q].pending = IF q = r THEN longer
                                                 ELSE txn[q].pending
  BY <1>3 DEF EventsInv, TypeOK, Open
<1>6. \A q \in Runs : OfRun(q)' = OfRun(q)
  BY <1>3 DEF OfRun
<1>7. ASSUME NEW q \in Runs, NEW i \in DOMAIN txn'[q].pending
      PROVE  /\ txn'[q].pending[i].run = q
             /\ txn'[q].pending[i].place = Cardinality(OfRun(q)) + i
  <2>1. CASE q # r
    BY <1>5, <2>1 DEF PlacesInv, PendingCounts
  <2>2. CASE q = r
    <3>1. i \in 1..(Len(pending) + 1) /\ txn'[q].pending[i] = longer[i]
      BY <1>4, <1>5, <2>2
    <3>2. CASE i = Len(pending) + 1
      BY <1>2, <1>4, <2>2, <3>1, <3>2
    <3>3. CASE i \in DOMAIN pending
      <4>1. longer[i] = pending[i]
        BY <1>4, <3>3
      <4> QED
        BY <2>2, <3>1, <3>3, <4>1 DEF PlacesInv, PendingCounts
    <3> QED
      BY <1>1, <1>4, <3>1, <3>2, <3>3
  <2> QED
    BY <2>1, <2>2
<1>8. PendingCounts'
  BY <1>6, <1>7 DEF PendingCounts
<1>9. RunSequenceAgrees'
  BY <1>3 DEF PlacesInv, RunSequenceAgrees
<1> QED
  BY <1>8, <1>9 DEF PlacesInv

\* The first i rows of a transaction are i rows.
LEMMA PendingRows ==
  ASSUME EventsInv, NEW r \in Runs, NEW i \in 1..Len(txn[r].pending)
  PROVE  LET S == {txn[r].pending[j] : j \in 1..i}
         IN  IsFiniteSet(S) /\ Cardinality(S) = i
<1> DEFINE pending == txn[r].pending
           S == {pending[j] : j \in 1..i}
           f == [j \in 1..i |-> pending[j]]
<1>1. /\ pending \in Seq(EventRow) /\ Len(pending) \in Nat /\ last \in Nat
      /\ DOMAIN pending = 1..Len(pending) /\ i \in Nat
  BY ReadCursorIs, Typed
<1>2. \A j \in 1..i : pending[j].sequence = last + j
  BY <1>1 DEF EventsInv, PendingFollows
<1> HIDE DEF pending
<1>3. \A j, k \in 1..i : f[j] = f[k] => j = k
  <2> TAKE j, k \in 1..i
  <2> HAVE f[j] = f[k]
  <2>1. last + j = last + k
    BY <1>2
  <2> QED
    BY <1>1, <2>1
<1>4. f \in [1..i -> S]
  OBVIOUS
<1>5. f \in Injection(1..i, S)
  BY <1>3, <1>4, Fun_IsInj
<1>6. f \in Surjection(1..i, S)
  BY <1>4, Fun_IsSurj
<1>7. ExistsBijection(1..i, S)
  BY <1>5, <1>6, Fun_ExistsBij DEF Bijection
<1>8. IsFiniteSet(1..i) /\ Cardinality(1..i) = i
  BY <1>1, FS_Interval
<1> QED
  BY <1>7, <1>8, FS_Bijection DEF pending

LEMMA CommitPlaces ==
  ASSUME EventsInv, PlacesInv, NEW r \in Runs, Commit(r)
  PROVE  PlacesInv'
<1> DEFINE pending == txn[r].pending
           Upto(rows, e) == {d \in rows : d.run = e.run
                                          /\ d.sequence <= e.sequence}
<1>1. /\ pending \in Seq(EventRow) /\ Len(pending) \in Nat /\ last \in Nat
      /\ DOMAIN pending = 1..Len(pending)
      /\ log \subseteq EventRow
      /\ log' = log \cup {pending[i] : i \in DOMAIN pending}
  BY ReadCursorIs, Typed DEF Commit, ToSet
<1>2. \A i \in DOMAIN pending :
        /\ pending[i].sequence = last + i /\ pending[i].run = r
        /\ pending[i].place = Cardinality(OfRun(r)) + i
  BY DEF EventsInv, PendingFollows, PlacesInv, PendingCounts
<1>3. \A e \in log : e.sequence \in 1..last
  BY DEF EventsInv, SequenceIsDense
<1>4. ASSUME NEW e \in log PROVE Upto(log', e) = Upto(log, e)
  <2>1. \A i \in DOMAIN pending : ~(pending[i].sequence <= e.sequence)
    BY <1>1, <1>2, <1>3
  <2> QED
    BY <1>1, <2>1
<1>5. ASSUME NEW i \in DOMAIN pending
      PROVE  Cardinality(Upto(log', pending[i])) = Cardinality(OfRun(r)) + i
  <2> DEFINE S == {pending[j] : j \in 1..i}
  <2>1. IsFiniteSet(S) /\ Cardinality(S) = i /\ i \in Nat
    BY <1>1, PendingRows
  <2>2. Upto(log', pending[i]) = OfRun(r) \cup S
    <3>1. \A e \in log : e.sequence <= last + i
      BY <1>1, <1>3
    <3>2. \A j \in DOMAIN pending : last + j <= last + i <=> j \in 1..i
      BY <1>1
    <3>3. \A j \in 1..i : j \in DOMAIN pending
      BY <1>1
    <3> HIDE DEF pending
    <3>4. \A e \in log : e \in Upto(log', pending[i]) <=> e \in OfRun(r)
      BY <1>1, <1>2, <3>1 DEF OfRun
    <3>5. \A j \in DOMAIN pending :
            pending[j] \in Upto(log', pending[i]) <=> j \in 1..i
      BY <1>1, <1>2, <3>2
    <3>6. \A x \in Upto(log', pending[i]) : x \in OfRun(r) \cup S
      BY <1>1, <3>4, <3>5
    <3>7. \A x \in S : x \in Upto(log', pending[i])
      BY <3>3, <3>5
    <3>8. \A x \in OfRun(r) : x \in Upto(log', pending[i])
      BY <3>4 DEF OfRun
    <3> QED
      BY <3>6, <3>7, <3>8
  <2>3. OfRun(r) \cap S = {}
    <3>1. \A j \in 1..i : pending[j].sequence = last + j
      BY <1>1, <1>2
    <3>2. \A e \in OfRun(r) : e.sequence \in 1..last
      BY <1>3 DEF OfRun
    <3> HIDE DEF pending
    <3> QED
      BY <1>1, <3>1, <3>2
  <2>4. /\ IsFiniteSet(OfRun(r)) /\ Cardinality(OfRun(r)) \in Nat
    BY OfRunFinite
  <2> HIDE DEF S, Upto, pending
  <2>5. Cardinality(OfRun(r) \cup S)
          = Cardinality(OfRun(r)) + Cardinality(S)
            - Cardinality(OfRun(r) \cap S)
    BY <2>1, <2>4, FS_Union
  <2>6. Cardinality({}) = 0
    BY FS_EmptySet
  <2>7. Cardinality(OfRun(r) \cup S) = Cardinality(OfRun(r)) + i
    <3>1. Cardinality(OfRun(r) \cap S) = 0
      BY <2>3, <2>6
    <3> QED
      BY <2>1, <2>4, <2>5, <3>1
  <2> QED
    BY <2>2, <2>7, Zenon
<1>6. \A e \in log' : e.place = Cardinality(Upto(log', e))
  <2>1. \A e \in log : e.place = Cardinality(Upto(log, e))
    BY DEF PlacesInv, RunSequenceAgrees
  <2> HIDE DEF Upto, pending
  <2> QED
    BY <1>1, <1>2, <1>4, <1>5, <2>1
<1>7. RunSequenceAgrees'
  BY <1>6 DEF RunSequenceAgrees
<1>8. \A q \in Runs : txn'[q].pending = <<>>
  <2>1. \A q \in Runs : txn'[q].pending = IF q = r THEN <<>>
                                                   ELSE txn[q].pending
    BY DEF EventsInv, TypeOK, Commit, Idle
  <2>2. \A q \in Runs \ {r} : txn[q].pending = <<>>
    BY DEF EventsInv, PendingFollows, HoldsCursor, Commit
  <2> QED
    BY <2>1, <2>2
<1>9. PendingCounts'
  BY <1>8 DEF PendingCounts
<1> QED
  BY <1>7, <1>9 DEF PlacesInv

\* The log stays, and a transaction keeps its rows or has none.
LEMMA OtherPlaces ==
  ASSUME PlacesInv, log' = log,
         \A q \in Runs : \/ txn'[q].pending = txn[q].pending
                         \/ txn'[q].pending = <<>>
  PROVE  PlacesInv'
<1>1. RunSequenceAgrees'
  BY DEF PlacesInv, RunSequenceAgrees
<1>2. \A q \in Runs : OfRun(q)' = OfRun(q)
  BY DEF OfRun
<1>3. PendingCounts'
  BY <1>2 DEF PlacesInv, PendingCounts
<1> QED
  BY <1>1, <1>3 DEF PlacesInv

LEMMA NextPlaces ==
  ASSUME EventsInv, PlacesInv, [Next]_vars
  PROVE  PlacesInv'
<1>1. ASSUME UNCHANGED <<log, txn>> PROVE PlacesInv'
  BY <1>1, OtherPlaces
<1>2. ASSUME NEW r \in Runs, Begin(r) \/ Rollback(r) PROVE PlacesInv'
  <2>1. \A q \in Runs : \/ txn'[q].pending = txn[q].pending
                        \/ txn'[q].pending = <<>>
    <3>1. txn \in TxnType
      BY DEF EventsInv, TypeOK, TxnType
    <3>2. CASE Begin(r)
      BY <3>1, <3>2 DEF TxnType, Begin, Open
    <3>3. CASE Rollback(r)
      BY <3>1, <3>3 DEF TxnType, Rollback, Idle
    <3> QED
      BY <1>2, <3>2, <3>3
  <2>2. log' = log
    BY <1>2 DEF Begin, Rollback
  <2> QED
    BY <2>1, <2>2, OtherPlaces
<1>3. ASSUME NEW r \in Runs, AppendEvent(r) \/ Commit(r) PROVE PlacesInv'
  BY <1>3, AppendPlaces, CommitPlaces
<1>4. CASE Deliver \/ Disconnect \/ Reload
  BY <1>1, <1>4 DEF Deliver, FetchBatch, YieldEvent, Connect, ReceiveEvent,
                    Reduce, SyncCursor, Disconnect, Reload
<1>5. ASSUME NEW r \in Runs,
             Click(r) \/ ReadRun(r) \/ FailRequest(r) \/ ReceiveRun(r)
      PROVE  PlacesInv'
  BY <1>1, <1>5 DEF Click, ReadRun, FailRequest, ReceiveRun
<1>6. CASE UNCHANGED vars
  BY <1>1, <1>6 DEF vars
<1> QED
  BY <1>2, <1>3, <1>4, <1>5, <1>6 DEF Next, Server

\* run_sequence counts the events of a run in the order of the canvas, although
\* a transaction counts what it sees: its own rows and the committed ones.
THEOREM PlacesAgree == Spec => []RunSequenceAgrees
<1>1. Init => PlacesInv
  BY DEF Init, Idle, PlacesInv, RunSequenceAgrees, PendingCounts
<1>2. EventsInv /\ PlacesInv /\ [Next]_vars => PlacesInv'
  BY NextPlaces
<1>3. PlacesInv => RunSequenceAgrees
  BY DEF PlacesInv
<1> QED
  BY <1>1, <1>2, <1>3, EventsInvariant, PTL DEF Spec

(***************************************************************************)
(* The cards.                                                              *)
(***************************************************************************)
\* While nobody reloads or clicks, only events come to the reducer.
OnlyEvents ==
  /\ \A r \in Runs : requests[r] = NoRequest
  /\ \A k \in DOMAIN tab.dispatched : tab.dispatched[k].kind = "event"

CardsSay ==
  \A r \in Runs :
    Changing(r, tab.cursor) # {} =>
      tab.runs[r] = SaidOf(r, tab.cursor) /\ tab.runs[r] # Unknown

CardInv == tab.cursor <= last /\ (Quiet => OnlyEvents /\ CardsSay)

LEMMA CardsStay ==
  ASSUME CardsSay, tab'.cursor = tab.cursor, tab'.runs = tab.runs,
         \A e \in log : e \in log',
         \A e \in log' \ log : ~(e.sequence <= tab.cursor)
  PROVE  CardsSay'
<1> SUFFICES ASSUME NEW r \in Runs
             PROVE  /\ Changing(r, tab.cursor)' = Changing(r, tab.cursor)
                    /\ SaidOf(r, tab.cursor)' = SaidOf(r, tab.cursor)
  BY DEF CardsSay
<1>1. Changing(r, tab.cursor)' = Changing(r, tab.cursor)
  BY DEF Changing
<1>2. QED  BY <1>1 DEF SaidOf

LEMMA ShownOf ==
  ASSUME NEW type \in EventType, NEW current
  PROVE  IF type = "stage.progress"
         THEN Shown(current, type) = (IF current = Unknown THEN "running"
                                      ELSE current)
         ELSE /\ Shown(current, type) = Shown(Unknown, type)
              /\ Shown(current, type) # Unknown
<1>1. type \in {"run.started", "run.resumed", "stage.started", "stage.progress",
                "patch.ready", "run.completed", "run.failed", "run.cancelled",
                "run.retry_requested"}
  BY DEF EventType, Moves
<1>2. QED  BY <1>1 DEF Shown, Unknown

\* The event that the reducer comes to is the next one or an old one, and the
\* card of its run says from then on what it says.
LEMMA ReduceSays ==
  ASSUME EventsInv, tab.cursor <= last, OnlyEvents, CardsSay, Reduce
  PROVE  tab'.cursor <= last /\ OnlyEvents' /\ CardsSay'
<1> DEFINE action == Head(tab.dispatched)
           e == action.event
           rest == Tail(tab.dispatched)
           state == [tab EXCEPT !.dispatched = rest]
           next == Reduced(state, action)
<1>1. /\ tab \in TabType /\ tab.cursor \in Nat /\ tab.dispatched # <<>>
      /\ tab.dispatched \in Seq(Action)
      /\ UNCHANGED <<log, last, requests>>
  BY Typed DEF TabType, Reduce
<1>2. 1 \in DOMAIN tab.dispatched /\ action = tab.dispatched[1]
  BY <1>1
<1>3. action.kind = "event" /\ e \in log
  BY <1>2 DEF OnlyEvents, EventsInv, SentFromLog
<1>4. e.sequence \in Nat /\ e.run \in Runs /\ e.type \in EventType
  BY <1>3, Typed DEF EventRow
<1> HIDE DEF e
<1>5. /\ state \in TabType /\ state.cursor = tab.cursor
      /\ state.runs = tab.runs /\ tab.runs \in [Runs -> Status \cup {Unknown}]
      /\ state.dispatched = rest
  <2>1. rest \in Seq(Action)
    BY <1>1
  <2> HIDE DEF rest
  <2>2. QED  BY <1>1, <2>1 DEF TabType
<1>5a. \A k \in DOMAIN rest : rest[k].kind = "event"
  BY <1>1 DEF OnlyEvents
<1>6. next = ReduceEvent(state, e)
  BY <1>3 DEF Reduced, e
<1>7. tab' = [next EXCEPT !.effect = IF next.cursor # tab.cursor
                                       THEN next.cursor ELSE NoEffect]
  BY DEF Reduce
<1> HIDE DEF rest, state, next, action
<1>8. CASE e.sequence <= tab.cursor
  <2>1. next = state
    BY <1>5, <1>6, <1>8 DEF ReduceEvent
  <2>2. /\ tab'.cursor = tab.cursor /\ tab'.runs = tab.runs
        /\ tab'.dispatched = rest
    BY <1>5, <1>7, <2>1 DEF TabType
  <2>3. CardsSay'
    BY <1>1, <2>2, CardsStay
  <2>4. OnlyEvents'
    BY <1>1, <1>5a, <2>2 DEF OnlyEvents
  <2>5. QED  BY <2>2, <2>3, <2>4
<1>9. CASE ~(e.sequence <= tab.cursor)
  <2> DEFINE r == e.run
  <2>1. next = [state EXCEPT !.cursor = e.sequence,
                             !.runs[r] = Shown(@, e.type)]
    BY <1>5, <1>6, <1>9 DEF ReduceEvent
  <2>2. /\ tab'.cursor = e.sequence
        /\ tab'.runs = [tab.runs EXCEPT ![r] = Shown(@, e.type)]
        /\ tab'.dispatched = rest
    BY <1>5, <1>7, <2>1 DEF TabType
  <2>3. tab'.cursor = tab.cursor + 1
    BY <1>1, <1>4, <1>9, <2>2, ReduceIs
  <2>4. OnlyEvents'
    BY <1>1, <1>5a, <2>2 DEF OnlyEvents
  <2>5. tab'.cursor <= last
    BY <1>3, <2>2 DEF EventsInv, SequenceIsDense
  <2>6. \A d \in log : d.sequence <= e.sequence <=>
                         d.sequence <= tab.cursor \/ d = e
    <3> SUFFICES ASSUME NEW d \in log
                 PROVE  d.sequence <= e.sequence <=>
                          d.sequence <= tab.cursor \/ d = e
      OBVIOUS
    <3>1. d.sequence \in Nat
      BY Typed DEF EventRow
    <3>2. d.sequence = e.sequence => d = e
      BY <1>3 DEF EventsInv, SequenceIsDense
    <3>3. e.sequence = tab.cursor + 1
      BY <2>2, <2>3
    <3>4. QED  BY <1>1, <3>1, <3>2, <3>3
  <2>7. ASSUME NEW q \in Runs, q # r \/ e.type = "stage.progress"
        PROVE  /\ Changing(q, tab.cursor)' = Changing(q, tab.cursor)
               /\ SaidOf(q, tab.cursor)' = SaidOf(q, tab.cursor)
    <3>1. Changing(q, tab.cursor)' = Changing(q, tab.cursor)
      BY <1>1, <2>2, <2>6, <2>7 DEF Changing
    <3>2. QED  BY <3>1 DEF SaidOf
  <2>8. ASSUME NEW q \in Runs, Changing(q, tab.cursor)' # {}
        PROVE  /\ tab'.runs[q] = SaidOf(q, tab.cursor)'
               /\ tab'.runs[q] # Unknown
    <3>1. CASE q # r
      <4>1. tab'.runs[q] = tab.runs[q]
        BY <1>5, <2>2, <3>1
      <4>2. QED  BY <2>7, <2>8, <3>1, <4>1 DEF CardsSay
    <3>2. CASE q = r /\ e.type = "stage.progress"
      <4>1. tab.runs[r] = SaidOf(r, tab.cursor) /\ tab.runs[r] # Unknown
        BY <2>7, <2>8, <3>2 DEF CardsSay
      <4>2. tab'.runs[r] = tab.runs[r]
        BY <1>4, <1>5, <2>2, <3>2, <4>1, ShownOf
      <4>3. QED  BY <2>7, <3>2, <4>1, <4>2
    <3>3. CASE q = r /\ e.type # "stage.progress"
      <4>1. /\ tab'.runs[r] = Shown(Unknown, e.type)
            /\ tab'.runs[r] # Unknown
        BY <1>4, <1>5, <2>2, <3>3, ShownOf
      <4> DEFINE said == Changing(q, tab.cursor)'
      <4>2. said = {d \in log : /\ d.run = q /\ d.sequence <= e.sequence
                                /\ d.type # "stage.progress"}
        BY <1>1, <2>2 DEF Changing
      <4>2a. e.sequence <= e.sequence
        BY <1>4
      <4>2b. /\ e \in said /\ said \subseteq log
             /\ \A d \in said : d.sequence <= e.sequence
        BY <1>3, <3>3, <4>2, <4>2a
      <4>3. \A x \in said : (\A d \in said : d.sequence <= x.sequence) => x = e
        <5> SUFFICES ASSUME NEW x \in said,
                            \A d \in said : d.sequence <= x.sequence
                     PROVE  x = e
          OBVIOUS
        <5>1. e.sequence <= x.sequence /\ x.sequence <= e.sequence /\ x \in log
          BY <4>2b
        <5>1a. x.sequence \in Nat
          BY <5>1, Typed DEF EventRow
        <5>2. x.sequence = e.sequence
          BY <1>4, <5>1, <5>1a
        <5>3. QED  BY <1>3, <5>1, <5>2 DEF EventsInv, SequenceIsDense
      <4>4. SaidOf(q, tab.cursor)' =
              Shown(Unknown, (CHOOSE x \in said :
                \A d \in said : d.sequence <= x.sequence).type)
        BY DEF SaidOf
      <4> HIDE DEF said
      <4>5. (CHOOSE x \in said : \A d \in said : d.sequence <= x.sequence) = e
        BY <4>2b, <4>3
      <4>6. QED  BY <3>3, <4>1, <4>4, <4>5
    <3>4. QED  BY <3>1, <3>2, <3>3
  <2>9. QED  BY <2>4, <2>5, <2>8 DEF CardsSay
<1>10. QED  BY <1>8, <1>9

LEMMA NextCards ==
  ASSUME EventsInv, CardInv, [Next]_vars
  PROVE  CardInv'
<1>1. /\ tab \in TabType /\ tab.cursor \in Nat /\ last \in Nat
      /\ stream \in StreamType
      /\ spent \in [{"disconnects", "reloads", "requests"} -> Nat]
  BY Typed DEF TabType
\* A step that leaves the reducer's state, and what comes to it.
<1>2. ASSUME tab'.cursor = tab.cursor, tab'.runs = tab.runs,
             last <= last', last' \in Nat,
             \A e \in log : e \in log',
             \A e \in log' \ log : ~(e.sequence <= tab.cursor),
             Quiet' => Quiet /\ (OnlyEvents => OnlyEvents')
      PROVE  CardInv'
  BY <1>1, <1>2, CardsStay DEF CardInv
<1>3. ASSUME UNCHANGED <<tab, last, log, requests, spent>>
      PROVE  CardInv'
  <2>1. Quiet' => Quiet /\ (OnlyEvents => OnlyEvents')
    BY <1>3 DEF Quiet, OnlyEvents
  <2>2. QED  BY <1>1, <1>2, <1>3, <2>1
<1>4. ASSUME NEW r \in Runs, Begin(r) \/ AppendEvent(r) \/ Rollback(r)
      PROVE  CardInv'
  BY <1>3, <1>4 DEF Begin, AppendEvent, Insert, Rollback
<1>5. ASSUME NEW r \in Runs, Commit(r)
      PROVE  CardInv'
  <2>1. UNCHANGED <<tab, requests, spent>>
    BY <1>5 DEF Commit
  <2>2. \A e \in log' \ log : ~(e.sequence <= tab.cursor)
    <3>1. log' = log \cup {txn[r].pending[i] : i \in DOMAIN txn[r].pending}
      BY <1>5 DEF Commit, ToSet
    <3>2. \A i \in DOMAIN txn[r].pending :
            /\ i \in Nat /\ i > 0
            /\ txn[r].pending[i].sequence = last + i
      BY ReadCursorIs DEF EventsInv, PendingFollows
    <3>3. QED  BY <1>1, <3>1, <3>2 DEF CardInv
  <2>3. last' = last + Len(txn[r].pending) /\ txn[r].pending \in Seq(EventRow)
    BY <1>5, ReadCursorIs DEF Commit
  <2>4. log \subseteq log'
    BY <1>5 DEF Commit
  <2>5. Quiet' => Quiet /\ (OnlyEvents => OnlyEvents')
    BY <2>1 DEF Quiet, OnlyEvents
  <2>6. QED  BY <1>1, <1>2, <2>1, <2>2, <2>3, <2>4, <2>5
<1>6. ASSUME FetchBatch \/ YieldEvent \/ Connect
      PROVE  CardInv'
  BY <1>3, <1>6 DEF FetchBatch, YieldEvent, Connect
<1>7. ASSUME SyncCursor
      PROVE  CardInv'
  <2>1. /\ tab'.cursor = tab.cursor /\ tab'.runs = tab.runs
        /\ tab'.dispatched = tab.dispatched
        /\ UNCHANGED <<last, log, requests, spent>>
    BY <1>1, <1>7 DEF SyncCursor, TabType
  <2>2. Quiet' => Quiet /\ (OnlyEvents => OnlyEvents')
    BY <2>1 DEF Quiet, OnlyEvents
  <2>3. QED  BY <1>1, <1>2, <2>1, <2>2
<1>8. ASSUME ReceiveEvent
      PROVE  CardInv'
  <2> DEFINE new == [kind |-> "event", event |-> Head(stream.wire)]
  <2>1. /\ tab'.cursor = tab.cursor /\ tab'.runs = tab.runs
        /\ tab'.dispatched = Append(tab.dispatched, new)
        /\ UNCHANGED <<last, log, requests, spent>>
    BY <1>1, <1>8 DEF ReceiveEvent, Dispatch, TabType
  <2>2. tab.dispatched \in Seq(Action) /\ new.kind = "event"
    BY <1>1 DEF TabType
  <2> HIDE DEF new
  <2>3. OnlyEvents => OnlyEvents'
    <3>1. /\ DOMAIN tab'.dispatched = 1..(Len(tab.dispatched) + 1)
          /\ \A k \in DOMAIN tab'.dispatched :
               tab'.dispatched[k] = IF k = Len(tab.dispatched) + 1 THEN new
                                    ELSE tab.dispatched[k]
          /\ DOMAIN tab.dispatched = 1..Len(tab.dispatched)
          /\ Len(tab.dispatched) \in Nat
      BY <2>1, <2>2
    <3>2. QED  BY <2>1, <2>2, <3>1 DEF OnlyEvents
  <2>4. Quiet' => Quiet /\ (OnlyEvents => OnlyEvents')
    BY <2>1, <2>3 DEF Quiet
  <2>5. QED  BY <1>1, <1>2, <2>1, <2>4
<1>9. ASSUME Reduce
      PROVE  CardInv'
  <2>1. UNCHANGED <<last, log, requests, spent>>
    BY <1>9 DEF Reduce
  <2>2. tab'.cursor <= last
    <3>1. CASE tab'.cursor = tab.cursor
      BY <3>1 DEF CardInv
    <3>2. CASE tab'.cursor # tab.cursor
      <4>1. /\ tab.dispatched[1].kind = "event"
            /\ tab'.cursor = tab.dispatched[1].event.sequence
        BY <1>9, <3>2, ReduceIs
      <4>2. 1 \in DOMAIN tab.dispatched
        BY <1>1, <1>9 DEF TabType, Reduce
      <4>3. QED  BY <4>1, <4>2 DEF EventsInv, SentFromLog, SequenceIsDense
    <3>3. QED  BY <3>1, <3>2
  <2>3. Quiet' => Quiet
    BY <2>1 DEF Quiet
  <2>4. Quiet => OnlyEvents' /\ CardsSay'
    BY <1>9, ReduceSays DEF CardInv
  <2>5. QED  BY <2>1, <2>2, <2>3, <2>4 DEF CardInv
<1>10. ASSUME Disconnect
       PROVE  CardInv'
  <2>1. UNCHANGED <<tab, last, log, requests>>
    BY <1>10 DEF Disconnect
  <2>2. Quiet' => Quiet
    BY <1>1, <1>10 DEF Disconnect, Spend, Quiet
  <2>3. OnlyEvents => OnlyEvents'
    BY <2>1 DEF OnlyEvents
  <2>4. QED  BY <1>1, <1>2, <2>1, <2>2, <2>3
<1>11. ASSUME Reload
       PROVE  CardInv'
  <2>1. ~Quiet'
    BY <1>1, <1>11 DEF Reload, Spend, Quiet
  <2>2. tab'.cursor = 0 /\ last' = last
    BY <1>11 DEF Reload, EmptyTab
  <2>3. QED  BY <1>1, <2>1, <2>2 DEF CardInv
<1>12. ASSUME NEW r \in Runs, Click(r)
       PROVE  CardInv'
  <2>1. ~Quiet'
    BY <1>1, <1>12 DEF Click, Spend, Quiet
  <2>2. tab' = tab /\ last' = last
    BY <1>12 DEF Click
  <2>3. QED  BY <2>1, <2>2 DEF CardInv
\* Without a request there is nothing to answer.
<1>13. ASSUME NEW r \in Runs, ReadRun(r) \/ FailRequest(r) \/ ReceiveRun(r)
       PROVE  CardInv'
  <2>1. /\ tab'.cursor = tab.cursor /\ tab'.runs = tab.runs
        /\ UNCHANGED <<last, log, spent>>
    BY <1>1, <1>13
    DEF ReadRun, FailRequest, ReceiveRun, Dispatch, TabType
  <2>2. requests[r] # NoRequest
    BY <1>13 DEF ReadRun, FailRequest, ReceiveRun, NoRequest
  <2>3. Quiet' => Quiet /\ (OnlyEvents => OnlyEvents')
    BY <2>1, <2>2 DEF Quiet, OnlyEvents
  <2>4. QED  BY <1>1, <1>2, <2>1, <2>3
<1>14. CASE UNCHANGED vars
  BY <1>3, <1>14 DEF vars
<1>15. QED
  BY <1>4, <1>5, <1>6, <1>7, <1>8, <1>9, <1>10, <1>11, <1>12, <1>13, <1>14
  DEF Next, Server, Deliver

\* While the page is neither reloaded nor sent a request, the card of a run
\* says what the log says up to the reducer's cursor: a reconnection behind the
\* cursor replays events without reviving what they said (applyEvent and
\* generationProgressReducer of generation.ts).
THEOREM CardsFollowTheLog == Spec => []CardFollowsLog
<1>1. Init => CardInv
  BY DEF Init, CardInv, OnlyEvents, CardsSay, Changing, EmptyTab
<1>2. EventsInv /\ CardInv /\ [Next]_vars => CardInv'
  BY NextCards
<1>3. CardInv => CardFollowsLog
  BY DEF CardInv, CardsSay, CardFollowsLog
<1> QED
  BY <1>1, <1>2, <1>3, EventsInvariant, PTL DEF Spec
=============================================================================
