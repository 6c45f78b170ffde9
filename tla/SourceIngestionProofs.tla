------------------------ MODULE SourceIngestionProofs ------------------------
(***************************************************************************)
(* Theorems about SourceIngestion: for all sets of handlers, keys, URLs    *)
(* and texts and all lengths of a lease, a key has one flight at a time    *)
(* and makes at most one source; and a source, from the cache or not, says *)
(* truthfully where its content was found, whatever redirects led there.   *)
(***************************************************************************)
EXTENDS SourceIngestion, TLAPS

\* What a handler at work for a reservation holds of it.
Holds(h) ==
  LET row == request[handler[h].key] IN
  /\ row.status # "none"
  /\ handler[h].asked = row.asked
  /\ handler[h].epoch <= row.epoch
  /\ row.status = "running" =>
       /\ handler[h].epoch = row.epoch => handler[h].until = row.until
       /\ handler[h].epoch < row.epoch =>
            handler[h].until + LeaseTicks <= row.until

\* What a handler has in hand.
Carries(h) ==
  /\ handler[h].key \in Keys
  /\ handler[h].asked \in Envelopes
  /\ LeaseTicks <= handler[h].until
  /\ handler[h].phase = "fetching" => handler[h].url \in Urls
  /\ handler[h].phase = "fetched" =>
       /\ handler[h].content \in Contents
       /\ handler[h].url # None => handler[h].content \in Versions

HandlersFit ==
  \A h \in Handlers : Busy(h) => Carries(h) /\ (canvas = "open" => Holds(h))

\* Strengthens IngestionInv: inductive.
FlightInv == TypeOK /\ LifecycleHolds /\ SingleFlight /\ HandlersFit

------------------------------------------------------------------------------
(* Records.                                                                 *)

LEMMA RowType ==
  ASSUME NEW status \in {"none", "running", "completed", "failed"},
         NEW asked \in Envelopes \cup {None}, NEW owner \in Handlers \cup {None},
         NEW epoch \in Nat, NEW until \in Nat, NEW source \in Nat
  PROVE  /\ Row(status, asked, owner, epoch, until, source) \in Rows
         /\ Row(status, asked, owner, epoch, until, source).status = status
         /\ Row(status, asked, owner, epoch, until, source).asked = asked
         /\ Row(status, asked, owner, epoch, until, source).owner = owner
         /\ Row(status, asked, owner, epoch, until, source).epoch = epoch
         /\ Row(status, asked, owner, epoch, until, source).until = until
         /\ Row(status, asked, owner, epoch, until, source).source = source
BY DEF Row, Rows

LEMMA IdleType == Idle \in Works /\ Idle.phase = "idle"
BY DEF Idle, Works

------------------------------------------------------------------------------
(* Initial states.                                                          *)

LEMMA InitFlight == ASSUME Init PROVE FlightInv
<1>1. \A k \in Keys : request[k] = Row("none", None, None, 0, 0, 0)
  BY DEF Init, NoRequests
<1>2. Row("none", None, None, 0, 0, 0) \in Rows
  BY RowType
<1>3. request \in [Keys -> Rows]
  BY <1>1, <1>2 DEF Init, NoRequests
<1>4. shown \subseteq Urls \X Answers \X Clock
  BY IngestionAssumption DEF Init, Clock
<1>5. TypeOK
  BY <1>3, <1>4, IdleType, IngestionAssumption DEF Init, TypeOK, Clock
<1>6. LifecycleHolds
  BY <1>1, RowType DEF LifecycleHolds
<1>7. \A h \in Handlers : ~Busy(h)
  BY IdleType DEF Init, Busy
<1>8. QED  BY <1>5, <1>6, <1>7 DEF FlightInv, SingleFlight, HandlersFit

------------------------------------------------------------------------------
(* Steps that leave the reservations alone.                                 *)

\* A handler that goes on keeps its lease and carries what its phase needs.
LEMMA GoOn ==
  ASSUME FlightInv, NEW h \in Handlers, NEW w \in Works,
         handler' = [handler EXCEPT ![h] = w],
         UNCHANGED <<canvas, request>>,
         w.phase # "idle" =>
           /\ Busy(h)
           /\ w.key = handler[h].key /\ w.asked = handler[h].asked
           /\ w.epoch = handler[h].epoch /\ w.until = handler[h].until
           /\ w.phase = "fetching" => w.url \in Urls
           /\ w.phase = "fetched" =>
                w.content \in Contents /\ (w.url # None => w.content \in Versions)
  PROVE  SingleFlight' /\ HandlersFit' /\ handler' \in [Handlers -> Works]
<1>1. \A g \in Handlers : handler'[g] = IF g = h THEN w ELSE handler[g]
  BY DEF FlightInv, TypeOK
<1>2. \A g \in Handlers : Busy(g)' =>
        /\ Busy(g)
        /\ handler'[g].key = handler[g].key /\ handler'[g].asked = handler[g].asked
        /\ handler'[g].epoch = handler[g].epoch
        /\ handler'[g].until = handler[g].until
  BY <1>1 DEF Busy
<1>3. SingleFlight'
  BY <1>2 DEF FlightInv, SingleFlight
<1>4. ASSUME NEW g \in Handlers, Busy(g)'
      PROVE  Carries(g)' /\ (canvas' = "open" => Holds(g)')
  <2>1. Carries(g) /\ (canvas = "open" => Holds(g))
    BY <1>2, <1>4 DEF FlightInv, HandlersFit
  <2>2. canvas' = "open" => Holds(g)'
    BY <2>1, <1>2, <1>4 DEF Holds
  <2>3. Carries(g)'
    BY <2>1, <1>1, <1>2, <1>4 DEF Carries, Busy
  <2>4. QED  BY <2>2, <2>3
<1>5. handler' \in [Handlers -> Works]
  BY DEF FlightInv, TypeOK
<1>6. QED  BY <1>3, <1>4, <1>5 DEF HandlersFit

LEMMA SameRows ==
  ASSUME FlightInv, UNCHANGED request
  PROVE  LifecycleHolds'
BY DEF FlightInv, LifecycleHolds

\* A handler reads the clock after its reservation, and not ahead of it.
LEMMA BegunType ==
  ASSUME FlightInv, NEW h \in Handlers, Busy(h), NEW began \in Begun(h)
  PROVE  began \in Nat /\ began <= clock
<1>1. handler[h] \in Works /\ clock \in Nat /\ LeaseTicks \in Nat
  BY IngestionAssumption DEF FlightInv, TypeOK, Clock
<1>2. handler[h].until \in Nat /\ LeaseTicks <= handler[h].until
  BY <1>1 DEF FlightInv, HandlersFit, Carries, Works
<1>3. QED  BY <1>1, <1>2 DEF Begun

LEMMA ReceiveTextFlight ==
  ASSUME FlightInv, NEW h \in Handlers, ReceiveText(h)
  PROVE  FlightInv'
<1>b. Busy(h) /\ handler[h] \in Works
  BY DEF ReceiveText, Busy, FlightInv, TypeOK
<1>1. PICK began \in Begun(h) :
        handler' = [handler EXCEPT ![h] = Document(h, None, Asked(h), began, FALSE)]
  BY DEF ReceiveText
<1>2. began \in Nat /\ Asked(h) \in Contents
  BY <1>b, BegunType DEF ReceiveText, Contents
<1> DEFINE w == Document(h, None, Asked(h), began, FALSE)
<1>3. w \in Works /\ w.phase = "fetched" /\ w.key = handler[h].key
        /\ w.asked = handler[h].asked /\ w.epoch = handler[h].epoch
        /\ w.until = handler[h].until /\ w.content = Asked(h) /\ w.url = None
  BY <1>2, <1>b DEF Document, Works
<1>4. handler' = [handler EXCEPT ![h] = w]
  BY <1>1
<1> HIDE DEF w
<1>5. SingleFlight' /\ HandlersFit' /\ handler' \in [Handlers -> Works]
  BY <1>2, <1>3, <1>4, <1>b, GoOn DEF ReceiveText
<1>6. QED  BY <1>5, SameRows DEF ReceiveText, FlightInv, TypeOK

LEMMA LinkUrl ==
  ASSUME NEW link \in Links
  PROVE  Normalized(link) \in Urls
BY DEF Links, Normalized

LEMMA LookFlight ==
  ASSUME FlightInv, NEW h \in Handlers, Look(h)
  PROVE  FlightInv'
<1>u. Normalized(Asked(h)) \in Urls
  BY LinkUrl DEF Look
<1>b. Busy(h) /\ handler[h] \in Works
  BY DEF Look, Busy, FlightInv, TypeOK
<1>s. UNCHANGED <<clock, page, shown, canvas, request, sources, cache>>
  BY DEF Look
<1>0. ASSUME SingleFlight', HandlersFit', handler' \in [Handlers -> Works]
      PROVE  FlightInv'
  BY <1>0, <1>s, SameRows DEF FlightInv, TypeOK
<1>1. ASSUME NEW url \in Urls, Reuse(h, url)
      PROVE  FlightInv'
  <2>1. PICK row \in Newest(Usable(url)) :
          handler' = [handler EXCEPT ![h] = Document(h, url, row.content, row.at, TRUE)]
    BY <1>1 DEF Reuse
  <2>2. row \in cache
    BY DEF Newest, Usable
  <2>3. row.content \in Versions /\ row.at \in Nat /\ row.content \in Contents
    BY <2>2 DEF FlightInv, TypeOK, Contents
  <2> DEFINE w == Document(h, url, row.content, row.at, TRUE)
  <2>4. w \in Works /\ w.phase = "fetched" /\ w.key = handler[h].key
          /\ w.asked = handler[h].asked /\ w.epoch = handler[h].epoch
          /\ w.until = handler[h].until /\ w.content = row.content
    BY <2>3, <1>b DEF Document, Works
  <2>5. handler' = [handler EXCEPT ![h] = w]
    BY <2>1
  <2> HIDE DEF w
  <2>6. QED  BY <2>3, <2>4, <2>5, <1>b, <1>s, <1>0, GoOn
<1>2. ASSUME NEW url \in Urls, Fetch(h, url)
      PROVE  FlightInv'
  <2>1. PICK began \in Begun(h) :
          handler' = [handler EXCEPT ![h] = Fetching(h, url, began)]
    BY <1>2 DEF Fetch
  <2>2. began \in Nat
    BY <1>b, BegunType
  <2> DEFINE w == Fetching(h, url, began)
  <2>3. w \in Works /\ w.phase = "fetching" /\ w.key = handler[h].key
          /\ w.asked = handler[h].asked /\ w.epoch = handler[h].epoch
          /\ w.until = handler[h].until /\ w.url = url
    BY <2>2, <1>b DEF Fetching, Works
  <2>4. handler' = [handler EXCEPT ![h] = w]
    BY <2>1
  <2> HIDE DEF w
  <2>5. QED  BY <2>3, <2>4, <1>b, <1>s, <1>0, GoOn
<1>3. QED  BY <1>u, <1>1, <1>2 DEF Look

LEMMA RedirectedFlight ==
  ASSUME FlightInv, NEW h \in Handlers, Redirected(h)
  PROVE  FlightInv'
<1>b. Busy(h) /\ handler[h] \in Works
  BY DEF Redirected, Busy, FlightInv, TypeOK
<1>s. UNCHANGED <<clock, page, shown, canvas, request, sources, cache>>
  BY DEF Redirected
<1>1. handler[h].redirects + 1 \in Nat
  <2>1. handler[h].redirects \in Nat
    BY <1>b DEF Works
  <2>2. QED  BY <2>1
<1>2. PICK next \in Urls : handler' = [handler EXCEPT ![h] = SentOn(h, next)]
  BY DEF Redirected
<1> DEFINE w == SentOn(h, next)
<1>3. w \in Works
  BY <1>1, <1>b DEF SentOn, Works
<1>4. w.phase = "fetching" /\ w.key = handler[h].key
        /\ w.asked = handler[h].asked /\ w.epoch = handler[h].epoch
        /\ w.until = handler[h].until /\ w.url = next
  BY <1>b DEF SentOn, Works, Redirected
<1>5. handler' = [handler EXCEPT ![h] = w]
  BY <1>2
<1> HIDE DEF w
<1>6. SingleFlight' /\ HandlersFit' /\ handler' \in [Handlers -> Works]
  BY <1>3, <1>4, <1>5, <1>b, <1>s, GoOn
<1>7. QED  BY <1>6, <1>s, SameRows DEF FlightInv, TypeOK

LEMMA RetrieveFlight ==
  ASSUME FlightInv, NEW h \in Handlers, Retrieve(h)
  PROVE  FlightInv'
<1> DEFINE url == handler[h].url
           version == page[url]
<1>b. Busy(h) /\ handler[h] \in Works
  BY DEF Retrieve, Busy, FlightInv, TypeOK
<1>1. url \in Urls /\ handler[h].at \in Nat
  BY <1>b DEF Retrieve, FlightInv, HandlersFit, Carries, Works
<1>2. version \in Versions /\ version \in Contents
  BY DEF Retrieve, Contents
<1> HIDE DEF version
<1> DEFINE w == Document(h, url, version, handler[h].at, FALSE)
<1>3. w \in Works /\ w.phase = "fetched" /\ w.key = handler[h].key
        /\ w.asked = handler[h].asked /\ w.epoch = handler[h].epoch
        /\ w.until = handler[h].until /\ w.content = version
  BY <1>1, <1>2, <1>b DEF Document, Works
<1>4. handler' = [handler EXCEPT ![h] = w]
  BY DEF Retrieve, version
<1> HIDE DEF w
<1>5. SingleFlight' /\ HandlersFit' /\ handler' \in [Handlers -> Works]
  BY <1>1, <1>2, <1>3, <1>4, <1>b, GoOn DEF Retrieve
<1>6. QED  BY <1>5, SameRows DEF Retrieve, FlightInv, TypeOK

LEMMA FailRetrievalFlight ==
  ASSUME FlightInv, NEW h \in Handlers, FailRetrieval(h)
  PROVE  FlightInv'
<1>t. handler[h] \in Works /\ Busy(h)
  BY DEF FlightInv, TypeOK, FailRetrieval, Busy
<1> DEFINE w == [handler[h] EXCEPT !.phase = "failed"]
<1>1. w \in Works /\ w.phase = "failed" /\ w.key = handler[h].key
        /\ w.asked = handler[h].asked /\ w.epoch = handler[h].epoch
        /\ w.until = handler[h].until
  BY <1>t DEF Works
<1>2. handler' = [handler EXCEPT ![h] = w]
  BY DEF FailRetrieval
<1> HIDE DEF w
<1>3. SingleFlight' /\ HandlersFit' /\ handler' \in [Handlers -> Works]
  BY <1>1, <1>2, <1>t, GoOn DEF FailRetrieval
<1>4. QED  BY <1>3, SameRows DEF FailRetrieval, FlightInv, TypeOK

LEMMA GiveUpFlight ==
  ASSUME FlightInv, NEW h \in Handlers, GiveUp(h)
  PROVE  FlightInv'
<1>1. SingleFlight' /\ HandlersFit' /\ handler' \in [Handlers -> Works]
  BY IdleType, GoOn DEF GiveUp
<1>2. QED  BY <1>1, SameRows DEF GiveUp, FlightInv, TypeOK

------------------------------------------------------------------------------
(* Steps that write a reservation.                                          *)

LEMMA ReserveFlight ==
  ASSUME FlightInv, NEW h \in Handlers, NEW k \in Keys, NEW envelope \in Envelopes,
         Reserve(h, k, envelope)
  PROVE  FlightInv'
<1> DEFINE epoch == request[k].epoch + 1
           until == clock + LeaseTicks
           row == Row("running", envelope, h, epoch, until, 0)
           w == [Idle EXCEPT !.phase = "reserved", !.key = k, !.asked = envelope,
                             !.epoch = epoch, !.until = until]
<1>1. epoch \in Nat /\ until \in Nat /\ clock \in Nat /\ LeaseTicks \in Nat
        /\ request[k] \in Rows
  BY IngestionAssumption DEF FlightInv, TypeOK, Rows, Clock
<1>2. row \in Rows /\ row.status = "running" /\ row.asked = envelope /\ row.owner = h
        /\ row.epoch = epoch /\ row.until = until /\ row.source = 0
  BY <1>1 DEF Row, Rows
<1>3. w \in Works /\ w.phase = "reserved" /\ w.key = k /\ w.asked = envelope
        /\ w.epoch = epoch /\ w.until = until
  BY <1>1 DEF Works, Idle
<1>4. request' = [request EXCEPT ![k] = row] /\ handler' = [handler EXCEPT ![h] = w]
  BY DEF Reserve
<1>5. request[k].status \in {"none", "running"} /\ request[k].epoch \in Nat
        /\ request[k].until \in Nat
        /\ (request[k].status = "running" =>
              request[k].until <= clock /\ request[k].asked = envelope)
  BY <1>1 DEF Reserve, Free, Rows
<1> HIDE DEF row, w
<1>6. \A j \in Keys : request'[j] = IF j = k THEN row ELSE request[j]
  BY <1>4 DEF FlightInv, TypeOK
<1>7. \A g \in Handlers : handler'[g] = IF g = h THEN w ELSE handler[g]
  BY <1>4 DEF FlightInv, TypeOK
<1>8. TypeOK'
  BY <1>2, <1>3, <1>4 DEF FlightInv, TypeOK, Reserve
<1>9. LifecycleHolds'
  BY <1>2, <1>6, IngestionAssumption DEF FlightInv, LifecycleHolds
\* The others at work for the key had an earlier lease, which has run out.
<1>10. ASSUME NEW g \in Handlers, g # h, Busy(g), handler[g].key = k
       PROVE  /\ handler[g].epoch \in Nat /\ handler[g].epoch < epoch
              /\ handler[g].until \in Nat /\ handler[g].until + LeaseTicks <= until
              /\ handler[g].asked = envelope
  <2>1. handler[g] \in Works
    BY DEF FlightInv, TypeOK
  <2>2. handler[g].epoch \in Nat /\ handler[g].until \in Nat
    BY <2>1 DEF Works
  <2>3. Holds(g)
    BY <1>10 DEF FlightInv, HandlersFit, Reserve
  <2>4. handler[g].epoch <= request[k].epoch /\ request[k].status = "running"
          /\ handler[g].asked = request[k].asked
    BY <2>3, <1>10, <1>5 DEF Holds
  <2>5. handler[g].until <= clock
    BY <2>2, <2>3, <2>4, <1>10, <1>5, <1>1 DEF Holds
  <2>6. QED  BY <2>2, <2>4, <2>5, <1>1, <1>5
<1> DEFINE e == epoch
           u == until
<1>11. e \in Nat /\ u \in Nat
  BY <1>1
<1>12. ASSUME NEW g \in Handlers, NEW i \in Handlers, Busy(g)', Busy(i)',
              handler'[g].key = handler'[i].key
       PROVE  /\ handler'[g].epoch = handler'[i].epoch => g = i
              /\ handler'[g].epoch < handler'[i].epoch =>
                   handler'[g].until + LeaseTicks <= handler'[i].until
  <2>1. CASE g # h /\ i # h
    BY <2>1, <1>12, <1>7 DEF FlightInv, SingleFlight, Busy
  <2>2. CASE g = h /\ i = h
    BY <2>2, <1>7, <1>3, <1>11
  <2>3. CASE g = h /\ i # h
    <3>1. handler[i].key = k /\ Busy(i)
      BY <2>3, <1>12, <1>7, <1>3 DEF Busy
    <3>2. handler[i].epoch \in Nat /\ handler[i].epoch < epoch
      BY <3>1, <2>3, <1>10
    <3>3. handler'[g].epoch = epoch /\ handler'[i].epoch = handler[i].epoch
      BY <2>3, <1>7, <1>3
    <3>4. QED  BY <3>2, <3>3, <1>1
  <2>4. CASE g # h /\ i = h
    <3>1. handler[g].key = k /\ Busy(g)
      BY <2>4, <1>12, <1>7, <1>3 DEF Busy
    <3>2. /\ handler[g].epoch \in Nat /\ handler[g].epoch < epoch
          /\ handler[g].until \in Nat /\ handler[g].until + LeaseTicks <= until
      BY <3>1, <2>4, <1>10
    <3>3. /\ handler'[i].epoch = epoch /\ handler'[g].epoch = handler[g].epoch
          /\ handler'[i].until = until /\ handler'[g].until = handler[g].until
      BY <2>4, <1>7, <1>3
    <3>4. QED  BY <3>2, <3>3, <1>1
  <2>5. QED  BY <2>1, <2>2, <2>3, <2>4
<1>13. ASSUME NEW g \in Handlers, Busy(g)'
       PROVE  Carries(g)' /\ Holds(g)'
  <2>1. CASE g = h
    <3>1. Carries(g)'
      BY <2>1, <1>7, <1>3, <1>1 DEF Carries
    <3>2. Holds(g)'
      BY <2>1, <1>7, <1>6, <1>3, <1>2, <1>11 DEF Holds
    <3>3. QED  BY <3>1, <3>2
  <2>2. CASE g # h
    <3>1. handler'[g] = handler[g] /\ Busy(g)
      BY <2>2, <1>13, <1>7 DEF Busy
    <3>2. Carries(g) /\ Holds(g)
      BY <3>1 DEF FlightInv, HandlersFit, Reserve
    <3>3. Carries(g)'
      BY <3>1, <3>2 DEF Carries
    <3>4. CASE handler[g].key = k
      <4>1. /\ handler[g].epoch \in Nat /\ handler[g].epoch < epoch
            /\ handler[g].until \in Nat /\ handler[g].until + LeaseTicks <= until
            /\ handler[g].asked = envelope
        BY <3>4, <3>1, <2>2, <1>10
      <4>2. request'[handler'[g].key] = row
        BY <3>4, <3>1, <1>6
      <4>3. QED  BY <4>1, <4>2, <3>1, <3>3, <1>2, <1>1 DEF Holds
    <3>5. CASE handler[g].key # k
      <4>1. request'[handler'[g].key] = request[handler[g].key]
        BY <3>5, <3>1, <3>2, <1>6 DEF Carries
      <4>2. QED  BY <4>1, <3>1, <3>2, <3>3 DEF Holds
    <3>6. QED  BY <3>4, <3>5
  <2>3. QED  BY <2>1, <2>2
<1>14. HandlersFit'
  BY <1>13 DEF HandlersFit
<1>15. \A g \in Handlers : Busy(g)' => handler'[g].epoch <= request'[handler'[g].key].epoch
  BY <1>13 DEF Holds
<1>16. SingleFlight'
  BY <1>12, <1>15 DEF SingleFlight
<1>17. QED  BY <1>8, <1>9, <1>14, <1>16 DEF FlightInv

\* The owner settles its reservation and is done.
LEMMA SettleFlight ==
  ASSUME FlightInv, NEW h \in Handlers, Busy(h), canvas = "open", Fenced(h),
         NEW status \in {"completed", "failed"}, NEW source \in Nat,
         status = "completed" <=> source # 0,
         request' = Settled(h, status, source),
         handler' = [handler EXCEPT ![h] = Idle], UNCHANGED canvas
  PROVE  /\ LifecycleHolds' /\ SingleFlight' /\ HandlersFit'
         /\ request' \in [Keys -> Rows] /\ handler' \in [Handlers -> Works]
<1> DEFINE key == handler[h].key
           row == Row(status, request[key].asked, None, request[key].epoch, 0, source)
<1>1. key \in Keys /\ request[key] \in Rows
  BY DEF FlightInv, HandlersFit, Carries, TypeOK
<1>2. row \in Rows /\ row.status = status /\ row.asked = request[key].asked
        /\ row.owner = None /\ row.epoch = request[key].epoch /\ row.source = source
  BY <1>1 DEF Row, Rows
<1>3. request' = [request EXCEPT ![key] = row]
  BY DEF Settled
<1> HIDE DEF row
<1>4. \A j \in Keys : request'[j] = IF j = key THEN row ELSE request[j]
  BY <1>3 DEF FlightInv, TypeOK
<1>5. \A g \in Handlers : handler'[g] = IF g = h THEN Idle ELSE handler[g]
  BY DEF FlightInv, TypeOK
<1>6. request' \in [Keys -> Rows] /\ handler' \in [Handlers -> Works]
  BY <1>2, <1>3, IdleType DEF FlightInv, TypeOK
<1>7. LifecycleHolds'
  BY <1>2, <1>4 DEF FlightInv, LifecycleHolds
<1>8. ASSUME NEW g \in Handlers, Busy(g)'
      PROVE  Busy(g) /\ handler'[g] = handler[g] /\ Carries(g)' /\ Holds(g)'
  <2>1. g # h /\ handler'[g] = handler[g] /\ Busy(g)
    BY <1>8, <1>5, IdleType DEF Busy
  <2>2. Carries(g) /\ Holds(g)
    BY <2>1 DEF FlightInv, HandlersFit
  <2>3. Carries(g)'
    BY <2>1, <2>2 DEF Carries
  <2>4. request'[handler'[g].key] = IF handler[g].key = key THEN row
                                    ELSE request[handler[g].key]
    BY <2>1, <2>2, <1>4 DEF Carries
  <2>5. Holds(g)'
    BY <2>1, <2>2, <2>4, <1>2 DEF Holds
  <2>6. QED  BY <2>1, <2>3, <2>5
<1>9. HandlersFit'
  BY <1>8 DEF HandlersFit
<1>10. \A g \in Handlers : Busy(g)' => handler'[g].epoch <= request'[handler'[g].key].epoch
  BY <1>8 DEF Holds
<1>11. SingleFlight'
  BY <1>8, <1>10 DEF FlightInv, SingleFlight
<1>12. QED  BY <1>6, <1>7, <1>9, <1>11

LEMMA FinalizeSuccessFlight ==
  ASSUME FlightInv, NEW h \in Handlers, FinalizeSuccess(h)
  PROVE  FlightInv'
<1>b. Busy(h) /\ Carries(h) /\ handler[h] \in Works /\ clock \in Nat
  BY IngestionAssumption
     DEF FinalizeSuccess, Busy, FlightInv, HandlersFit, TypeOK, Clock
<1>n. Len(sources) \in Nat
  BY DEF FlightInv, TypeOK
<1> DEFINE n == Len(sources) + 1
<1>m. n \in Nat /\ n # 0
  BY <1>n
<1>1. request' = Settled(h, "completed", n)
  BY DEF FinalizeSuccess
<1> HIDE DEF n
<1>2. /\ LifecycleHolds' /\ SingleFlight' /\ HandlersFit'
      /\ request' \in [Keys -> Rows] /\ handler' \in [Handlers -> Works]
  BY <1>b, <1>m, <1>1, SettleFlight DEF FinalizeSuccess
<1> DEFINE source == [key |-> handler[h].key, asked |-> Asked(h),
                      url |-> handler[h].url, content |-> handler[h].content,
                      at |-> handler[h].at, hit |-> handler[h].hit]
           Source == [key : Keys, asked : Envelopes, url : Urls \cup {None},
                      content : Contents, at : Nat, hit : BOOLEAN]
<1>3. source \in Source
  BY <1>b DEF FinalizeSuccess, Carries, Works, Asked
<1>4. sources' = Append(sources, source) /\ sources \in Seq(Source)
  BY DEF FinalizeSuccess, FlightInv, TypeOK
<1> HIDE DEF source, Source
<1>5. sources' \in Seq(Source)
  BY <1>3, <1>4
<1>6. cache' \subseteq [url : Urls, content : Versions, at : Nat, fresh : Nat,
                        expires : Nat]
  <2> DEFINE Cells == [url : Urls, content : Versions, at : Nat, fresh : Nat,
                       expires : Nat]
             cell == [url |-> handler[h].url, content |-> handler[h].content,
                      at |-> handler[h].at, fresh |-> clock + FreshTicks,
                      expires |-> clock + ExpiryTicks]
  <2>1. cache \subseteq Cells
    BY DEF FlightInv, TypeOK
  <2>2. handler[h].url # None => cell \in Cells
    BY <1>b, IngestionAssumption DEF FinalizeSuccess, Carries, Works
  <2>3. \/ Cached(h) = cache
        \/ handler[h].url # None /\ Cached(h) \subseteq cache \cup {cell}
    BY DEF Cached, Filed
  <2> HIDE DEF Cells, cell
  <2>4. Cached(h) \subseteq Cells
    BY <2>1, <2>2, <2>3
  <2>5. QED  BY <2>4 DEF FinalizeSuccess, Cells
<1>7. TypeOK'
  BY <1>2, <1>5, <1>6 DEF FinalizeSuccess, FlightInv, TypeOK, Source
<1>8. QED  BY <1>2, <1>7 DEF FlightInv

LEMMA FinalizeFailureFlight ==
  ASSUME FlightInv, NEW h \in Handlers, FinalizeFailure(h)
  PROVE  FlightInv'
<1>1. Busy(h)
  BY DEF FinalizeFailure, Busy
<1>2. /\ LifecycleHolds' /\ SingleFlight' /\ HandlersFit'
      /\ request' \in [Keys -> Rows] /\ handler' \in [Handlers -> Works]
  BY <1>1, SettleFlight DEF FinalizeFailure
<1>3. QED  BY <1>2 DEF FinalizeFailure, FlightInv, TypeOK

------------------------------------------------------------------------------
(* The other steps, and the invariant.                                      *)

LEMMA SameHandlers ==
  ASSUME FlightInv, UNCHANGED <<canvas, request, handler>>
  PROVE  LifecycleHolds' /\ SingleFlight' /\ HandlersFit'
BY DEF FlightInv, LifecycleHolds, SingleFlight, HandlersFit, Busy, Carries, Holds

LEMMA TickFlight == ASSUME FlightInv, Tick PROVE FlightInv'
<1>1. clock + 1 \in Clock
  BY IngestionAssumption DEF Tick, FlightInv, TypeOK, Clock
<1>2. shown' \subseteq Urls \X Answers \X Clock
  BY <1>1 DEF Tick, FlightInv, TypeOK
<1>3. QED  BY <1>1, <1>2, SameHandlers DEF Tick, FlightInv, TypeOK

LEMMA ChangePageFlight ==
  ASSUME FlightInv, NEW url \in Urls, NEW answer \in Answers, ChangePage(url, answer)
  PROVE  FlightInv'
BY SameHandlers DEF ChangePage, FlightInv, TypeOK

LEMMA SweepFlight == ASSUME FlightInv, Sweep PROVE FlightInv'
BY SameHandlers DEF Sweep, FlightInv, TypeOK

LEMMA DeleteCanvasFlight == ASSUME FlightInv, DeleteCanvas PROVE FlightInv'
<1>1. \A k \in Keys : NoRequests[k] = Row("none", None, None, 0, 0, 0)
  BY DEF NoRequests
<1>2. Row("none", None, None, 0, 0, 0) \in Rows
  BY RowType
<1>3. request' \in [Keys -> Rows]
  BY <1>1, <1>2 DEF DeleteCanvas, NoRequests
<1>4. TypeOK'
  BY <1>3 DEF DeleteCanvas, FlightInv, TypeOK
<1>n. \A k \in Keys : /\ NoRequests[k].status = "none" /\ NoRequests[k].owner = None
                      /\ NoRequests[k].source = 0
  BY <1>1, RowType
<1>5. LifecycleHolds'
  BY <1>n DEF DeleteCanvas, LifecycleHolds
<1>6. SingleFlight' /\ HandlersFit'
  BY DEF DeleteCanvas, FlightInv, SingleFlight, HandlersFit, Busy, Carries
<1>7. QED  BY <1>4, <1>5, <1>6 DEF FlightInv

LEMMA NextFlight == ASSUME FlightInv, [Next]_vars PROVE FlightInv'
<1>1. ASSUME NEW h \in Handlers, NEW k \in Keys, NEW envelope \in Envelopes,
             Reserve(h, k, envelope)
      PROVE  FlightInv'
  BY <1>1, ReserveFlight
<1>2. ASSUME NEW h \in Handlers,
             ReceiveText(h) \/ Look(h) \/ Redirected(h) \/ Retrieve(h)
               \/ FailRetrieval(h) \/ FinalizeSuccess(h) \/ FinalizeFailure(h)
               \/ GiveUp(h)
      PROVE  FlightInv'
  BY <1>2, ReceiveTextFlight, LookFlight, RedirectedFlight, RetrieveFlight,
     FailRetrievalFlight, FinalizeSuccessFlight, FinalizeFailureFlight, GiveUpFlight
<1>3. CASE \E url \in Urls, answer \in Answers : ChangePage(url, answer)
  BY <1>3, ChangePageFlight
<1>4. CASE Tick
  BY <1>4, TickFlight
<1>5. CASE Sweep
  BY <1>5, SweepFlight
<1>6. CASE DeleteCanvas
  BY <1>6, DeleteCanvasFlight
<1>7. CASE UNCHANGED vars
  BY <1>7, SameHandlers DEF vars, FlightInv, TypeOK
<1>8. QED  BY <1>1, <1>2, <1>3, <1>4, <1>5, <1>6, <1>7 DEF Next

THEOREM SpecFlight == Spec => []FlightInv
<1>1. Init => FlightInv
  BY InitFlight
<1>2. FlightInv /\ [Next]_vars => FlightInv'
  BY NextFlight
<1>3. QED  BY <1>1, <1>2, PTL DEF Spec

\* Types, the database's check on a reservation, and one flight at a time for
\* a key, whatever leases run out and whoever takes them over
\* (source_ingestion.py:98-234).
THEOREM IngestionHolds == Spec => []IngestionInv
<1>1. FlightInv => IngestionInv
  BY DEF FlightInv, IngestionInv
<1>2. QED  BY <1>1, SpecFlight, PTL

------------------------------------------------------------------------------
(* One source per key.                                                      *)

\* A reservation that the next step leaves as it is, or that has made nothing
\* and still makes nothing, stays in step with the sources.
LEMMA SourcesStay ==
  ASSUME OneSourcePerKey, UNCHANGED sources,
         \A k \in Keys : \/ request'[k] = request[k]
                         \/ /\ request[k].status # "completed"
                            /\ request'[k].status # "completed",
         \A i \in DOMAIN sources : sources[i].key \in Keys
  PROVE  OneSourcePerKey'
<1>1. ASSUME NEW k \in Keys, request'[k].status = "completed"
      PROVE  /\ request'[k].source \in DOMAIN sources'
             /\ sources'[request'[k].source].key = k
             /\ sources'[request'[k].source].asked = request'[k].asked
  <2>1. request'[k] = request[k]
    BY <1>1
  <2>2. QED  BY <2>1, <1>1 DEF OneSourcePerKey
<1>2. ASSUME NEW i \in DOMAIN sources'
      PROVE  /\ request'[sources'[i].key].status = "completed"
             /\ request'[sources'[i].key].source = i
  <2>1. request[sources[i].key].status = "completed" /\ sources[i].key \in Keys
    BY <1>2 DEF OneSourcePerKey
  <2>2. request'[sources[i].key] = request[sources[i].key]
    BY <2>1
  <2>3. QED  BY <2>2, <1>2 DEF OneSourcePerKey
<1>3. QED  BY <1>1, <1>2 DEF OneSourcePerKey

LEMMA SourceKeys ==
  ASSUME TypeOK
  PROVE  \A i \in DOMAIN sources : sources[i].key \in Keys
<1> DEFINE Source == [key : Keys, asked : Envelopes, url : Urls \cup {None},
                      content : Contents, at : Nat, hit : BOOLEAN]
<1>1. sources \in Seq(Source)
  BY DEF TypeOK
<1>2. \A source \in Source : source.key \in Keys
  OBVIOUS
<1> HIDE DEF Source
<1>3. \A i \in DOMAIN sources : sources[i] \in Source
  BY <1>1
<1>4. QED  BY <1>2, <1>3

LEMMA ReserveOne ==
  ASSUME FlightInv, OneSourcePerKey, NEW h \in Handlers, NEW k \in Keys,
         NEW envelope \in Envelopes, Reserve(h, k, envelope)
  PROVE  OneSourcePerKey'
<1> DEFINE row == Row("running", envelope, h, request[k].epoch + 1,
                      clock + LeaseTicks, 0)
<1>1. row.status = "running"
  BY DEF Row
<1>2. request' = [request EXCEPT ![k] = row]
  BY DEF Reserve
<1> HIDE DEF row
<1>3. \A j \in Keys : request'[j] = IF j = k THEN row ELSE request[j]
  BY <1>2 DEF FlightInv, TypeOK
<1>4. request[k].status # "completed"
  BY DEF Reserve, Free
<1>5. QED  BY <1>1, <1>3, <1>4, SourcesStay, SourceKeys DEF FlightInv, Reserve

LEMMA FinalizeFailureOne ==
  ASSUME FlightInv, OneSourcePerKey, NEW h \in Handlers, FinalizeFailure(h)
  PROVE  OneSourcePerKey'
<1> DEFINE key == handler[h].key
           row == Row("failed", request[key].asked, None, request[key].epoch, 0, 0)
<1>1. row.status = "failed"
  BY DEF Row
<1>2. request' = [request EXCEPT ![key] = row]
  BY DEF FinalizeFailure, Settled
<1> HIDE DEF row
<1>3. \A j \in Keys : request'[j] = IF j = key THEN row ELSE request[j]
  BY <1>2 DEF FlightInv, TypeOK
<1>4. request[key].status # "completed"
  BY DEF FinalizeFailure, Fenced
<1>5. QED
  BY <1>1, <1>3, <1>4, SourcesStay, SourceKeys DEF FlightInv, FinalizeFailure

\* The fence: what is finalized was still running, so it has made no source.
LEMMA FinalizeSuccessOne ==
  ASSUME FlightInv, OneSourcePerKey, NEW h \in Handlers, FinalizeSuccess(h)
  PROVE  OneSourcePerKey'
<1> DEFINE key == handler[h].key
           n == Len(sources) + 1
           row == Row("completed", request[key].asked, None, request[key].epoch, 0, n)
           source == [key |-> key, asked |-> Asked(h),
                      url |-> handler[h].url, content |-> handler[h].content,
                      at |-> handler[h].at, hit |-> handler[h].hit]
           Source == [key : Keys, asked : Envelopes, url : Urls \cup {None},
                      content : Contents, at : Nat, hit : BOOLEAN]
<1>1. row.status = "completed" /\ row.asked = request[key].asked /\ row.source = n
  BY DEF Row
<1>2. Busy(h)
  BY DEF FinalizeSuccess, Busy
<1>3. key \in Keys /\ handler[h].asked = request[key].asked
  BY <1>2 DEF FinalizeSuccess, FlightInv, HandlersFit, Carries, Holds
<1>4. request[key].status = "running"
  BY DEF FinalizeSuccess, Fenced
<1>5. request' = [request EXCEPT ![key] = row]
  BY DEF FinalizeSuccess, Settled
<1>6. sources' = Append(sources, source) /\ sources \in Seq(Source)
  BY DEF FinalizeSuccess, FlightInv, TypeOK
<1>7. source.key = key /\ source.asked = request[key].asked
  BY <1>3 DEF Asked
<1>8. source \in Source
  <2>1. handler[h] \in Works
    BY DEF FlightInv, TypeOK
  <2>2. Carries(h)
    BY <1>2 DEF FlightInv, HandlersFit
  <2>3. QED  BY <2>1, <2>2 DEF FinalizeSuccess, Carries, Works, Asked
<1> HIDE DEF row, source, Source
<1>9. \A j \in Keys : request'[j] = IF j = key THEN row ELSE request[j]
  BY <1>5 DEF FlightInv, TypeOK
<1>10. /\ DOMAIN sources' = 1..n /\ DOMAIN sources = 1..(n - 1) /\ n \in Nat
       /\ \A i \in 1..(n - 1) : sources'[i] = sources[i]
       /\ sources'[n] = source
  BY <1>6, <1>8
<1>11. \A i \in DOMAIN sources : sources[i].key \in Keys
  BY SourceKeys DEF FlightInv
\* No source has the key yet.
<1>12. \A i \in DOMAIN sources : sources[i].key # key
  BY <1>4 DEF OneSourcePerKey
<1>13. ASSUME NEW k \in Keys, request'[k].status = "completed"
       PROVE  /\ request'[k].source \in DOMAIN sources'
              /\ sources'[request'[k].source].key = k
              /\ sources'[request'[k].source].asked = request'[k].asked
  <2>1. CASE k = key
    BY <2>1, <1>1, <1>7, <1>9, <1>10
  <2>2. CASE k # key
    <3>1. request'[k] = request[k]
      BY <2>2, <1>9
    <3>2. /\ request[k].source \in DOMAIN sources
          /\ sources[request[k].source].key = k
          /\ sources[request[k].source].asked = request[k].asked
      BY <3>1, <1>13 DEF OneSourcePerKey
    <3>3. request[k].source \in 1..(n - 1) /\ request[k].source \in 1..n
      BY <3>2, <1>10
    <3>4. QED  BY <3>1, <3>2, <3>3, <1>10
  <2>3. QED  BY <2>1, <2>2
<1>14. ASSUME NEW i \in DOMAIN sources'
       PROVE  /\ request'[sources'[i].key].status = "completed"
              /\ request'[sources'[i].key].source = i
  <2>1. CASE i = n
    BY <2>1, <1>1, <1>3, <1>7, <1>9, <1>10
  <2>2. CASE i # n
    <3>1. i \in DOMAIN sources /\ sources'[i] = sources[i]
      BY <2>2, <1>14, <1>10
    <3>2. request'[sources[i].key] = request[sources[i].key]
      BY <3>1, <1>9, <1>11, <1>12
    <3>3. QED  BY <3>1, <3>2 DEF OneSourcePerKey
  <2>3. QED  BY <2>1, <2>2
<1>15. QED  BY <1>13, <1>14 DEF OneSourcePerKey

LEMMA DeleteCanvasOne ==
  ASSUME DeleteCanvas
  PROVE  OneSourcePerKey'
<1>1. \A k \in Keys : NoRequests[k].status = "none"
  BY DEF NoRequests, Row
<1>2. request' = NoRequests /\ sources' = <<>>
  BY DEF DeleteCanvas
<1>3. \A k \in Keys : request'[k].status # "completed"
  BY <1>1, <1>2
<1>4. DOMAIN sources' = {}
  BY <1>2
<1>5. QED  BY <1>3, <1>4 DEF OneSourcePerKey

LEMMA SameSources ==
  ASSUME OneSourcePerKey, UNCHANGED <<request, sources>>
  PROVE  OneSourcePerKey'
BY DEF OneSourcePerKey

LEMMA HandlerSteps ==
  ASSUME NEW h \in Handlers,
         ReceiveText(h) \/ Look(h) \/ Redirected(h) \/ Retrieve(h)
           \/ FailRetrieval(h) \/ GiveUp(h)
  PROVE  UNCHANGED <<clock, page, shown, canvas, request, sources, cache>>
<1>1. CASE ReceiveText(h)
  BY <1>1 DEF ReceiveText
<1>2. CASE Look(h)
  BY <1>2 DEF Look
<1>3. CASE Redirected(h) \/ Retrieve(h)
  BY <1>3 DEF Redirected, Retrieve
<1>4. CASE FailRetrieval(h) \/ GiveUp(h)
  BY <1>4 DEF FailRetrieval, GiveUp
<1>5. QED  BY <1>1, <1>2, <1>3, <1>4

LEMMA NextOne ==
  ASSUME FlightInv, OneSourcePerKey, [Next]_vars
  PROVE  OneSourcePerKey'
<1>1. ASSUME NEW h \in Handlers, NEW k \in Keys, NEW envelope \in Envelopes,
             Reserve(h, k, envelope)
      PROVE  OneSourcePerKey'
  BY <1>1, ReserveOne
<1>2. ASSUME NEW h \in Handlers,
             ReceiveText(h) \/ Look(h) \/ Redirected(h) \/ Retrieve(h)
               \/ FailRetrieval(h) \/ GiveUp(h)
      PROVE  OneSourcePerKey'
  BY <1>2, HandlerSteps, SameSources
<1>3. ASSUME NEW h \in Handlers, FinalizeSuccess(h) \/ FinalizeFailure(h)
      PROVE  OneSourcePerKey'
  BY <1>3, FinalizeSuccessOne, FinalizeFailureOne
<1>4. CASE \E url \in Urls, answer \in Answers : ChangePage(url, answer)
  BY <1>4, SameSources DEF ChangePage
<1>5. CASE Tick \/ Sweep \/ UNCHANGED vars
  BY <1>5, SameSources DEF Tick, Sweep, vars
<1>6. CASE DeleteCanvas
  BY <1>6, DeleteCanvasOne
<1>7. QED  BY <1>1, <1>2, <1>3, <1>4, <1>5, <1>6 DEF Next

\* A key makes at most one source, the one its completed reservation answers
\* with: the fence of _locked_fenced_ingestion lets no earlier owner finish
\* what was taken over, or finished already (source_ingestion.py:209-394).
THEOREM OneSource == Spec => []OneSourcePerKey
<1>1. Init => OneSourcePerKey
  <2> SUFFICES ASSUME Init PROVE OneSourcePerKey
    OBVIOUS
  <2>1. \A k \in Keys : request[k].status # "completed"
    BY DEF Init, NoRequests, Row
  <2>2. DOMAIN sources = {}
    BY DEF Init
  <2>3. QED  BY <2>1, <2>2 DEF OneSourcePerKey
<1>2. FlightInv /\ OneSourcePerKey /\ [Next]_vars => OneSourcePerKey'
  BY NextOne
<1>3. QED  BY <1>1, <1>2, SpecFlight, PTL DEF Spec

------------------------------------------------------------------------------
(* Where the content of a source comes from.                                *)

\* A source was retrieved from the page, with this content at this time.
Retrieved(url, content, at) ==
  \E j \in DOMAIN sources :
    /\ ~sources[j].hit
    /\ sources[j].url = url
    /\ sources[j].content = content
    /\ sources[j].at = at

\* A handler that is retrieving was led to where it is.
OnItsWay(h) ==
  /\ Asked(h) \in Links
  /\ handler[h].at <= clock
  /\ handler[h].redirects <= MaxRedirects
  /\ Hops(handler[h].redirects, Normalized(Asked(h)), handler[h].url, handler[h].at)

\* What a document, in a handler's hand or made a source, says of itself.
Honest(d) ==
  IF d.asked \in Links
    THEN /\ d.hit => d.url = Normalized(d.asked)
         /\ AnsweredSince(d.url, d.content, d.at)
         /\ LedTo(Normalized(d.asked), d.url, d.at)
    ELSE d.url = None /\ ~d.hit

\* The document in hand: from the cache it repeats a source.
HandTrue(h) ==
  /\ Honest(handler[h])
  /\ (canvas = "open" /\ handler[h].hit) =>
       Retrieved(handler[h].url, handler[h].content, handler[h].at)

Repeats(i) ==
  \E j \in 1..(i - 1) :
    /\ ~sources[j].hit
    /\ sources[j].url = sources[i].url
    /\ sources[j].content = sources[i].content
    /\ sources[j].at = sources[i].at

SourcesTrue ==
  \A i \in DOMAIN sources :
    Honest(sources[i]) /\ (sources[i].hit => Repeats(i))

\* Strengthens HitsAreTrue: inductive beside FlightInv.
TruthInv ==
  /\ \A u \in Urls : <<u, page[u], clock>> \in shown
  /\ \A h \in Handlers : handler[h].phase = "fetching" => OnItsWay(h)
  /\ \A h \in Handlers : handler[h].phase = "fetched" => HandTrue(h)
  /\ \A row \in cache : Retrieved(row.url, row.content, row.at)
  /\ SourcesTrue

LEMMA TruthSuffices == TruthInv => HitsAreTrue
BY DEF TruthInv, SourcesTrue, Repeats, Honest, HitsAreTrue

------------------------------------------------------------------------------
(* Chains of redirects.                                                     *)

LEMMA NoHop ==
  ASSUME NEW url \in Urls, NEW at
  PROVE  Hops(0, url, url, at)
<1> DEFINE path == [i \in 0..0 |-> url]
<1>1. path \in [0..0 -> Urls] /\ path[0] = url /\ 0..(0 - 1) = {}
  OBVIOUS
<1>2. QED  BY <1>1 DEF Hops

LEMMA OneHop ==
  ASSUME NEW n \in Nat, NEW first, NEW last, NEW next \in Urls, NEW at,
         Hops(n, first, last, at), AnsweredSince(last, next, at)
  PROVE  Hops(n + 1, first, next, at)
<1>1. PICK path \in [0..n -> Urls] :
        /\ path[0] = first
        /\ path[n] = last
        /\ \A i \in 0..(n - 1) : AnsweredSince(path[i], path[i + 1], at)
  BY DEF Hops
<1> DEFINE longer == [i \in 0..(n + 1) |-> IF i = n + 1 THEN next ELSE path[i]]
<1>2. /\ longer \in [0..(n + 1) -> Urls]
      /\ longer[n + 1] = next
      /\ \A i \in 0..n : longer[i] = path[i]
  BY <1>1
<1> HIDE DEF longer
<1>3. longer[0] = first
  BY <1>1, <1>2
<1>4. ASSUME NEW i \in 0..(n + 1 - 1)
      PROVE  AnsweredSince(longer[i], longer[i + 1], at)
  <2>1. CASE i = n
    BY <2>1, <1>1, <1>2
  <2>2. CASE i # n
    <3>1. i \in 0..(n - 1) /\ i \in 0..n /\ i + 1 \in 0..n
      BY <2>2
    <3>2. longer[i] = path[i] /\ longer[i + 1] = path[i + 1]
      BY <3>1, <1>2
    <3>3. QED  BY <3>1, <3>2, <1>1
  <2>3. QED  BY <2>1, <2>2
<1>5. n + 1 \in Nat
  OBVIOUS
<1>6. QED  BY <1>2, <1>3, <1>4, <1>5 DEF Hops

\* What was answered stays so, and with it every chain of redirects.
LEMMA AnswersStay ==
  ASSUME shown \subseteq shown', NEW url, NEW answer, NEW at,
         AnsweredSince(url, answer, at)
  PROVE  AnsweredSince(url, answer, at)'
BY DEF AnsweredSince

LEMMA HopsStay ==
  ASSUME shown \subseteq shown', NEW n, NEW first, NEW last, NEW at,
         Hops(n, first, last, at)
  PROVE  Hops(n, first, last, at)'
<1>1. PICK path \in [0..n -> Urls] :
        /\ path[0] = first
        /\ path[n] = last
        /\ \A i \in 0..(n - 1) : AnsweredSince(path[i], path[i + 1], at)
  BY DEF Hops
<1>2. ASSUME NEW i \in 0..(n - 1)
      PROVE  AnsweredSince(path[i], path[i + 1], at)'
  BY <1>1, AnswersStay
<1>3. QED  BY <1>1, <1>2 DEF Hops

LEMMA HonestStays ==
  ASSUME shown \subseteq shown', NEW d, Honest(d)
  PROVE  Honest(d)'
<1>1. CASE d.asked \in Links
  <2>1. /\ d.hit => d.url = Normalized(d.asked)
        /\ AnsweredSince(d.url, d.content, d.at)'
    BY <1>1, AnswersStay DEF Honest
  <2>2. PICK n \in 0..MaxRedirects : Hops(n, Normalized(d.asked), d.url, d.at)
    BY <1>1 DEF Honest, LedTo
  <2>3. Hops(n, Normalized(d.asked), d.url, d.at)'
    BY <2>2, HopsStay
  <2>4. LedTo(Normalized(d.asked), d.url, d.at)'
    BY <2>3 DEF LedTo
  <2>5. QED  BY <1>1, <2>1, <2>4 DEF Honest
<1>2. CASE d.asked \notin Links
  BY <1>2 DEF Honest
<1>3. QED  BY <1>1, <1>2

\* A source of the cached page was retrieved there.
LEMMA RetrievedAnswered ==
  ASSUME SourcesTrue, NEW url \in Urls, NEW content, NEW at,
         Retrieved(url, content, at)
  PROVE  AnsweredSince(url, content, at)
<1>1. PICK j \in DOMAIN sources :
        /\ sources[j].url = url
        /\ sources[j].content = content
        /\ sources[j].at = at
  BY DEF Retrieved
<1>2. Honest(sources[j])
  BY DEF SourcesTrue
<1>3. sources[j].asked \in Links
  BY <1>1, <1>2, IngestionAssumption DEF Honest
<1>4. QED  BY <1>1, <1>2, <1>3 DEF Honest

------------------------------------------------------------------------------
(* Facts about one record, whatever variable holds it.                      *)

LEMMA HandlerHonest ==
  ASSUME NEW h, NEW d, handler'[h] = d, Honest(d)'
  PROVE  Honest(handler[h])'
BY DEF Honest, AnsweredSince, LedTo, Hops

LEMMA SourceHonest ==
  ASSUME NEW i, NEW d, sources'[i] = d, Honest(d)'
  PROVE  Honest(sources[i])'
BY DEF Honest, AnsweredSince, LedTo, Hops

LEMMA HandNow ==
  ASSUME NEW h, NEW d, handler'[h] = d, Honest(d)',
         (canvas' = "open" /\ d.hit) => Retrieved(d.url, d.content, d.at)'
  PROVE  HandTrue(h)'
<1>1. Honest(handler[h])'
  BY HandlerHonest
<1>2. (canvas' = "open" /\ handler'[h].hit) =>
        Retrieved(handler[h].url, handler[h].content, handler[h].at)'
  BY DEF Retrieved
<1>3. QED  BY <1>1, <1>2 DEF HandTrue

LEMMA WayNow ==
  ASSUME NEW h, NEW d, handler'[h] = d, d.asked \in Links, d.at <= clock',
         d.redirects <= MaxRedirects,
         Hops(d.redirects, Normalized(d.asked), d.url, d.at)'
  PROVE  OnItsWay(h)'
BY DEF OnItsWay, Asked, Hops, AnsweredSince

------------------------------------------------------------------------------
(* What a step must leave true.                                             *)

LEMMA StepTruth ==
  ASSUME FlightInv, TruthInv,
         clock' \in Nat, clock <= clock', shown \subseteq shown',
         canvas' = "open" => canvas = "open",
         \A url, content, at :
           (canvas' = "open" /\ Retrieved(url, content, at)) =>
             Retrieved(url, content, at)',
         \A u \in Urls : <<u, page'[u], clock'>> \in shown',
         \A row \in cache' : Retrieved(row.url, row.content, row.at)',
         SourcesTrue',
         \A h \in Handlers :
           \/ handler'[h] = handler[h]
           \/ /\ handler'[h].phase = "fetching" => OnItsWay(h)'
              /\ handler'[h].phase = "fetched" => HandTrue(h)'
  PROVE  TruthInv'
<1>t. clock \in Nat /\ handler \in [Handlers -> Works]
  BY IngestionAssumption DEF FlightInv, TypeOK, Clock
<1>1. ASSUME NEW h \in Handlers, handler'[h] = handler[h],
             handler'[h].phase = "fetching"
      PROVE  OnItsWay(h)'
  <2>1. PICK d : d = handler[h] /\ d = handler'[h]
    BY <1>1
  <2>2. OnItsWay(h)
    BY <1>1 DEF TruthInv
  <2>3. d.at \in Nat
    BY <2>1, <1>t DEF Works
  <2>4. d.asked \in Links /\ d.at <= clock' /\ d.redirects <= MaxRedirects
    BY <2>1, <2>2, <2>3, <1>t DEF OnItsWay, Asked
  <2>5. Hops(d.redirects, Normalized(d.asked), d.url, d.at)
    BY <2>1, <2>2 DEF OnItsWay, Asked
  <2>6. Hops(d.redirects, Normalized(d.asked), d.url, d.at)'
    BY <2>5, HopsStay
  <2>7. QED  BY <2>1, <2>4, <2>6, WayNow
<1>2. ASSUME NEW h \in Handlers, handler'[h] = handler[h],
             handler'[h].phase = "fetched"
      PROVE  HandTrue(h)'
  <2>1. PICK d : d = handler[h] /\ d = handler'[h]
    BY <1>2
  <2>2. HandTrue(h)
    BY <1>2 DEF TruthInv
  <2>3. Honest(d)'
    BY <2>1, <2>2, HonestStays DEF HandTrue
  <2>4. (canvas' = "open" /\ d.hit) => Retrieved(d.url, d.content, d.at)
    BY <2>1, <2>2 DEF HandTrue
  <2>5. (canvas' = "open" /\ d.hit) => Retrieved(d.url, d.content, d.at)'
    BY <2>4
  <2>6. QED  BY <2>1, <2>3, <2>5, HandNow
<1>3. QED  BY <1>1, <1>2 DEF TruthInv

LEMMA SameSourcesTrue ==
  ASSUME SourcesTrue, UNCHANGED sources, shown \subseteq shown'
  PROVE  SourcesTrue'
<1>1. ASSUME NEW i \in DOMAIN sources
      PROVE  Honest(sources[i])' /\ (sources'[i].hit => Repeats(i)')
  <2>1. PICK d : d = sources[i] /\ d = sources'[i]
    OBVIOUS
  <2>2. Honest(d)
    BY <2>1 DEF SourcesTrue
  <2>3. Honest(sources[i])'
    BY <2>1, <2>2, HonestStays, SourceHonest
  <2>4. sources'[i].hit => Repeats(i)'
    BY DEF SourcesTrue, Repeats
  <2>5. QED  BY <2>3, <2>4
<1>2. QED  BY <1>1 DEF SourcesTrue

\* A step of one handler that touches nothing else.
LEMMA HandlerTruth ==
  ASSUME FlightInv, TruthInv, UNCHANGED <<clock, page, shown, canvas, sources, cache>>,
         NEW h \in Handlers, \A g \in Handlers : g # h => handler'[g] = handler[g],
         handler'[h].phase = "fetching" => OnItsWay(h)',
         handler'[h].phase = "fetched" => HandTrue(h)'
  PROVE  TruthInv'
<1>1. clock' \in Nat /\ clock <= clock'
  BY IngestionAssumption DEF FlightInv, TypeOK, Clock
<1>2. SourcesTrue'
  BY SameSourcesTrue DEF TruthInv
<1>3. \A url, content, at :
        Retrieved(url, content, at) => Retrieved(url, content, at)'
  BY DEF Retrieved
<1>4. \A row \in cache' : Retrieved(row.url, row.content, row.at)'
  BY <1>3 DEF TruthInv
<1>5. \A u \in Urls : <<u, page'[u], clock'>> \in shown'
  BY DEF TruthInv
<1>6. QED  BY <1>1, <1>2, <1>3, <1>4, <1>5, StepTruth

------------------------------------------------------------------------------
(* The steps.                                                               *)

LEMMA ReserveTruth ==
  ASSUME FlightInv, TruthInv, NEW h \in Handlers, NEW k \in Keys,
         NEW envelope \in Envelopes, Reserve(h, k, envelope)
  PROVE  TruthInv'
<1>1. /\ handler'[h].phase = "reserved"
      /\ \A g \in Handlers : g # h => handler'[g] = handler[g]
  BY DEF Reserve, FlightInv, TypeOK, Idle
<1>2. UNCHANGED <<clock, page, shown, canvas, sources, cache>>
  BY DEF Reserve
<1>3. QED  BY <1>1, <1>2, HandlerTruth

\* The handler takes a document in hand that tells the truth.
LEMMA DocumentTruth ==
  ASSUME FlightInv, TruthInv, UNCHANGED <<clock, page, shown, canvas, sources, cache>>,
         NEW h \in Handlers, NEW url, NEW content, NEW at, NEW hit \in BOOLEAN,
         handler' = [handler EXCEPT ![h] = Document(h, url, content, at, hit)],
         IF Asked(h) \in Links
           THEN /\ hit => url = Normalized(Asked(h))
                /\ AnsweredSince(url, content, at)
                /\ LedTo(Normalized(Asked(h)), url, at)
           ELSE url = None /\ ~hit,
         hit => Retrieved(url, content, at)
  PROVE  TruthInv'
<1>t. handler[h] \in Works /\ handler \in [Handlers -> Works]
  BY DEF FlightInv, TypeOK
<1>1. PICK d : d = Document(h, url, content, at, hit)
  OBVIOUS
<1>2. /\ d.phase = "fetched" /\ d.asked = Asked(h) /\ d.url = url
      /\ d.content = content /\ d.at = at /\ d.hit = hit
  BY <1>1, <1>t DEF Document, Asked, Works
<1>3. handler'[h] = d /\ \A g \in Handlers : g # h => handler'[g] = handler[g]
  BY <1>1, <1>t
<1>4. Honest(d)
  BY <1>2 DEF Honest
<1>5. d.hit => Retrieved(d.url, d.content, d.at)'
  BY <1>2 DEF Retrieved
<1>6. HandTrue(h)'
  BY <1>3, <1>4, <1>5, HonestStays, HandNow
<1>7. QED  BY <1>2, <1>3, <1>6, HandlerTruth

\* The handler is on its way to where its hops have led it.
LEMMA WayTruth ==
  ASSUME FlightInv, TruthInv, UNCHANGED <<clock, page, shown, canvas, sources, cache>>,
         NEW h \in Handlers, NEW d,
         handler' = [handler EXCEPT ![h] = d],
         d.phase = "fetching", d.asked \in Links, d.at <= clock,
         d.redirects <= MaxRedirects,
         Hops(d.redirects, Normalized(d.asked), d.url, d.at)
  PROVE  TruthInv'
<1>1. handler'[h] = d /\ \A g \in Handlers : g # h => handler'[g] = handler[g]
  BY DEF FlightInv, TypeOK
<1>2. Hops(d.redirects, Normalized(d.asked), d.url, d.at)'
  BY HopsStay
<1>3. OnItsWay(h)'
  BY <1>1, <1>2, WayNow
<1>4. QED  BY <1>1, <1>3, HandlerTruth

LEMMA ReceiveTextTruth ==
  ASSUME FlightInv, TruthInv, NEW h \in Handlers, ReceiveText(h)
  PROVE  TruthInv'
<1>1. PICK began \in Begun(h) :
        handler' = [handler EXCEPT ![h] = Document(h, None, Asked(h), began, FALSE)]
  BY DEF ReceiveText
<1>2. Asked(h) \notin Links
  BY IngestionAssumption DEF ReceiveText, Links
<1>3. UNCHANGED <<clock, page, shown, canvas, request, sources, cache>>
  BY HandlerSteps
<1>4. PICK content : content = Asked(h)
  OBVIOUS
<1>5. QED  BY <1>1, <1>2, <1>3, <1>4, DocumentTruth

LEMMA LookTruth ==
  ASSUME FlightInv, TruthInv, NEW h \in Handlers, Look(h)
  PROVE  TruthInv'
<1>s. UNCHANGED <<clock, page, shown, canvas, request, sources, cache>>
  BY HandlerSteps
<1>a. Asked(h) \in Links /\ handler[h] \in Works /\ Busy(h)
  BY DEF Look, FlightInv, TypeOK, Busy
<1>1. PICK url \in Urls : url = Normalized(Asked(h)) /\ (Reuse(h, url) \/ Fetch(h, url))
  BY <1>a, LinkUrl DEF Look
<1>2. \A at : LedTo(url, url, at)
  BY NoHop, IngestionAssumption DEF LedTo
<1>3. CASE Reuse(h, url)
  <2>1. PICK row \in Newest(Usable(url)) :
          handler' = [handler EXCEPT ![h] = Document(h, url, row.content, row.at, TRUE)]
    BY <1>3 DEF Reuse
  <2>2. row \in cache /\ row.url = url
    BY DEF Newest, Usable
  <2>3. Retrieved(url, row.content, row.at)
    BY <2>2 DEF TruthInv
  <2>4. AnsweredSince(url, row.content, row.at)
    BY <2>3, RetrievedAnswered DEF TruthInv
  <2>5. QED  BY <1>a, <1>s, <1>1, <1>2, <2>1, <2>3, <2>4, DocumentTruth
<1>4. CASE Fetch(h, url)
  <2>1. PICK began \in Begun(h) :
          handler' = [handler EXCEPT ![h] = Fetching(h, url, began)]
    BY <1>4 DEF Fetch
  <2>2. began <= clock
    BY <1>a, BegunType
  <2>3. 0 <= MaxRedirects
    BY IngestionAssumption
  <2>4. PICK d : d = Fetching(h, url, began)
    OBVIOUS
  <2>5. /\ d.phase = "fetching" /\ d.asked = Asked(h) /\ d.at = began
        /\ d.url = url /\ d.redirects = 0
    BY <2>4, <1>a DEF Fetching, Asked, Works
  <2>6. Hops(d.redirects, Normalized(d.asked), d.url, d.at)
    BY <2>5, <1>1, NoHop
  <2>7. QED
    BY <2>1, <2>2, <2>3, <2>4, <2>5, <2>6, <1>a, <1>s, WayTruth
<1>5. QED  BY <1>1, <1>3, <1>4

LEMMA RedirectedTruth ==
  ASSUME FlightInv, TruthInv, NEW h \in Handlers, Redirected(h)
  PROVE  TruthInv'
<1>s. UNCHANGED <<clock, page, shown, canvas, request, sources, cache>>
  BY HandlerSteps
<1>t. /\ handler[h] \in Works /\ Busy(h) /\ clock \in Clock
      /\ handler[h].redirects \in Nat /\ handler[h].at \in Nat
  BY DEF FlightInv, TypeOK, Busy, Works, Redirected
<1>1. OnItsWay(h)
  BY DEF Redirected, TruthInv
<1>2. PICK here, n, at, next : /\ here = handler[h].url /\ n = handler[h].redirects
                               /\ at = handler[h].at /\ next = page[handler[h].url]
  OBVIOUS
<1>3. /\ n \in Nat /\ n + 1 \in Nat /\ at \in Nat /\ here \in Urls /\ next \in Urls
      /\ n < MaxRedirects /\ at <= clock
  BY <1>1, <1>2, <1>t DEF Redirected, OnItsWay, FlightInv, HandlersFit, Carries
<1>4. <<here, next, clock>> \in shown
  BY <1>2, <1>3 DEF TruthInv
<1>5. clock >= at
  BY <1>3, <1>t, IngestionAssumption DEF Clock
<1>6. AnsweredSince(here, next, at)
  BY <1>4, <1>5, <1>t DEF AnsweredSince
<1>7. Hops(n, Normalized(Asked(h)), here, at)
  BY <1>1, <1>2 DEF OnItsWay
<1>8. PICK first : first = Normalized(Asked(h))
  OBVIOUS
<1>9. Hops(n + 1, first, next, at)
  BY <1>3, <1>6, <1>7, <1>8, OneHop
<1>10. PICK d : d = SentOn(h, next)
  OBVIOUS
<1>11. /\ d.phase = "fetching" /\ d.asked = Asked(h) /\ d.at = at
       /\ d.url = next /\ d.redirects = n + 1
  BY <1>2, <1>10, <1>t DEF SentOn, Asked, Works, Redirected
<1>12. d.asked \in Links /\ d.at <= clock
  BY <1>1, <1>3, <1>11 DEF OnItsWay
<1>13. d.redirects <= MaxRedirects
  BY <1>3, <1>11, IngestionAssumption
<1>14. Hops(d.redirects, Normalized(d.asked), d.url, d.at)
  BY <1>8, <1>9, <1>11
<1>15. handler' = [handler EXCEPT ![h] = d]
  BY <1>2, <1>10 DEF Redirected
<1>16. QED  BY <1>s, <1>11, <1>12, <1>13, <1>14, <1>15, WayTruth

LEMMA RetrieveTruth ==
  ASSUME FlightInv, TruthInv, NEW h \in Handlers, Retrieve(h)
  PROVE  TruthInv'
<1>s. UNCHANGED <<clock, page, shown, canvas, request, sources, cache>>
  BY HandlerSteps
<1>t. /\ handler[h] \in Works /\ Busy(h) /\ clock \in Clock
      /\ handler[h].redirects \in Nat /\ handler[h].at \in Nat
  BY DEF FlightInv, TypeOK, Busy, Works, Retrieve
<1>1. OnItsWay(h)
  BY DEF Retrieve, TruthInv
<1>2. PICK here, at, content : /\ here = handler[h].url /\ at = handler[h].at
                               /\ content = page[handler[h].url]
  OBVIOUS
<1>3. at \in Nat /\ here \in Urls /\ at <= clock
  BY <1>1, <1>2, <1>t DEF Retrieve, OnItsWay, FlightInv, HandlersFit, Carries
<1>4. <<here, content, clock>> \in shown
  BY <1>2, <1>3 DEF TruthInv
<1>5. clock >= at
  BY <1>3, <1>t, IngestionAssumption DEF Clock
<1>6. AnsweredSince(here, content, at)
  BY <1>4, <1>5, <1>t DEF AnsweredSince
<1>7. LedTo(Normalized(Asked(h)), here, at)
  <2>1. handler[h].redirects \in 0..MaxRedirects
    BY <1>1, <1>t, IngestionAssumption DEF OnItsWay
  <2>2. Hops(handler[h].redirects, Normalized(Asked(h)), here, at)
    BY <1>1, <1>2 DEF OnItsWay
  <2>3. QED  BY <2>1, <2>2 DEF LedTo
<1>8. Asked(h) \in Links
  BY <1>1 DEF OnItsWay
<1>9. handler' = [handler EXCEPT ![h] = Document(h, here, content, at, FALSE)]
  BY <1>2 DEF Retrieve
<1>10. QED  BY <1>s, <1>6, <1>7, <1>8, <1>9, DocumentTruth

LEMMA DropTruth ==
  ASSUME FlightInv, TruthInv, NEW h \in Handlers, FailRetrieval(h) \/ GiveUp(h)
  PROVE  TruthInv'
<1>t. handler[h] \in Works /\ handler \in [Handlers -> Works]
  BY DEF FlightInv, TypeOK
<1>1. /\ handler'[h].phase \in {"failed", "idle"}
      /\ \A g \in Handlers : g # h => handler'[g] = handler[g]
  BY <1>t, IdleType DEF FailRetrieval, GiveUp, Works
<1>2. UNCHANGED <<clock, page, shown, canvas, request, sources, cache>>
  BY HandlerSteps
<1>3. QED  BY <1>1, <1>2, HandlerTruth

LEMMA FinalizeFailureTruth ==
  ASSUME FlightInv, TruthInv, NEW h \in Handlers, FinalizeFailure(h)
  PROVE  TruthInv'
<1>1. /\ handler'[h].phase = "idle"
      /\ \A g \in Handlers : g # h => handler'[g] = handler[g]
  BY IdleType DEF FinalizeFailure, FlightInv, TypeOK
<1>2. UNCHANGED <<clock, page, shown, canvas, sources, cache>>
  BY DEF FinalizeFailure
<1>3. QED  BY <1>1, <1>2, HandlerTruth

\* The new source says what its handler had in hand; the others stay.
LEMMA FinalizeSuccessTruth ==
  ASSUME FlightInv, TruthInv, NEW h \in Handlers, FinalizeSuccess(h)
  PROVE  TruthInv'
<1>n. PICK n : n = Len(sources) + 1
  OBVIOUS
<1> DEFINE made == [key |-> handler[h].key, asked |-> Asked(h),
                    url |-> handler[h].url, content |-> handler[h].content,
                    at |-> handler[h].at, hit |-> handler[h].hit]
           Source == [key : Keys, asked : Envelopes, url : Urls \cup {None},
                      content : Contents, at : Nat, hit : BOOLEAN]
<1>1. made \in Source
  <2>1. handler[h] \in Works
    BY DEF FlightInv, TypeOK
  <2>2. Carries(h)
    BY DEF FinalizeSuccess, Busy, FlightInv, HandlersFit
  <2>3. QED  BY <2>1, <2>2 DEF FinalizeSuccess, Carries, Works, Asked
<1>d. PICK d : d = made
  OBVIOUS
<1>2. /\ d.asked = Asked(h) /\ d.url = handler[h].url /\ d.at = handler[h].at
      /\ d.content = handler[h].content /\ d.hit = handler[h].hit
  BY <1>d
<1>3. sources' = Append(sources, made) /\ sources \in Seq(Source)
  BY DEF FinalizeSuccess, FlightInv, TypeOK
<1> HIDE DEF made, Source
<1>4. /\ DOMAIN sources' = 1..n /\ DOMAIN sources = 1..(n - 1) /\ n \in Nat
      /\ n \in 1..n
      /\ \A i \in 1..(n - 1) : sources'[i] = sources[i]
      /\ sources'[n] = d
  BY <1>1, <1>3, <1>d, <1>n
<1>5. \A url, content, at :
        Retrieved(url, content, at) => Retrieved(url, content, at)'
  <2> SUFFICES ASSUME NEW url, NEW content, NEW at, Retrieved(url, content, at)
               PROVE  Retrieved(url, content, at)'
    OBVIOUS
  <2>1. PICK j \in 1..(n - 1) : /\ ~sources[j].hit /\ sources[j].url = url
                                /\ sources[j].content = content /\ sources[j].at = at
    BY <1>4 DEF Retrieved
  <2>2. j \in DOMAIN sources' /\ sources'[j] = sources[j]
    BY <2>1, <1>4
  <2>3. QED  BY <2>1, <2>2 DEF Retrieved
<1>6. HandTrue(h) /\ canvas = "open"
  BY DEF FinalizeSuccess, TruthInv
<1>7. shown \subseteq shown'
  BY DEF FinalizeSuccess
<1>8. ASSUME NEW row \in cache'
      PROVE  Retrieved(row.url, row.content, row.at)'
  <2>1. CASE row \in cache
    BY <2>1, <1>5 DEF TruthInv
  <2>2. CASE row \notin cache
    <3>1. /\ ~d.hit /\ row.url = d.url /\ row.content = d.content /\ row.at = d.at
      BY <2>2, <1>8, <1>2 DEF FinalizeSuccess, Cached, Filed
    <3>2. QED  BY <3>1, <1>4 DEF Retrieved
  <2>3. QED  BY <2>1, <2>2
<1>9. SourcesTrue'
  <2>1. ASSUME NEW i \in 1..(n - 1)
        PROVE  Honest(sources[i])' /\ (sources'[i].hit => Repeats(i)')
    <3>1. PICK e : e = sources[i] /\ e = sources'[i]
      BY <1>4
    <3>2. Honest(e) /\ (e.hit => Repeats(i))
      BY <3>1, <1>4 DEF TruthInv, SourcesTrue
    <3>3. Honest(sources[i])'
      BY <3>1, <3>2, <1>7, HonestStays, SourceHonest
    <3>4. \A j \in 1..(i - 1) : sources'[j] = sources[j]
      BY <1>4
    <3>5. e.hit => Repeats(i)'
      BY <3>1, <3>2, <3>4 DEF Repeats
    <3>6. QED  BY <3>1, <3>3, <3>5
  <2>2. Honest(sources[n])'
    <3>1. Honest(d)
      BY <1>2, <1>6 DEF HandTrue, Honest, Asked
    <3>2. QED  BY <3>1, <1>4, <1>7, HonestStays, SourceHonest
  <2>3. ASSUME d.hit
        PROVE  Repeats(n)'
    <3>1. PICK j \in 1..(n - 1) : /\ ~sources[j].hit /\ sources[j].url = d.url
                                  /\ sources[j].content = d.content
                                  /\ sources[j].at = d.at
      BY <2>3, <1>2, <1>4, <1>6 DEF HandTrue, Retrieved
    <3>2. sources'[j] = sources[j]
      BY <1>4
    <3>3. QED  BY <3>1, <3>2, <1>4 DEF Repeats
  <2>4. \A i \in 1..n : i = n \/ i \in 1..(n - 1)
    BY <1>4
  <2>5. QED  BY <2>1, <2>2, <2>3, <2>4, <1>4 DEF SourcesTrue
<1>10. \A u \in Urls : <<u, page'[u], clock'>> \in shown'
  BY DEF TruthInv, FinalizeSuccess
<1>11. handler'[h].phase = "idle" /\ \A g \in Handlers : g # h => handler'[g] = handler[g]
  BY IdleType DEF FinalizeSuccess, FlightInv, TypeOK
<1>12. clock' \in Nat /\ clock <= clock' /\ UNCHANGED canvas
  BY IngestionAssumption DEF FlightInv, TypeOK, Clock, FinalizeSuccess
<1>13. QED  BY <1>5, <1>7, <1>8, <1>9, <1>10, <1>11, <1>12, StepTruth

LEMMA TickTruth ==
  ASSUME FlightInv, TruthInv, Tick
  PROVE  TruthInv'
<1>1. clock' \in Nat /\ clock <= clock'
  BY IngestionAssumption DEF FlightInv, TypeOK, Clock, Tick
<1>2. SourcesTrue'
  BY SameSourcesTrue DEF TruthInv, Tick
<1>3. \A url, content, at :
        Retrieved(url, content, at) => Retrieved(url, content, at)'
  BY DEF Retrieved, Tick
<1>4. \A row \in cache' : Retrieved(row.url, row.content, row.at)'
  BY <1>3 DEF TruthInv, Tick
<1>5. shown \subseteq shown' /\ \A u \in Urls : <<u, page'[u], clock'>> \in shown'
  BY DEF Tick
<1>6. UNCHANGED <<canvas, handler>>
  BY DEF Tick
<1>7. QED  BY <1>1, <1>2, <1>3, <1>4, <1>5, <1>6, StepTruth

\* The clock stands, and of the sources and the handlers nothing changes.
LEMMA QuietTruth ==
  ASSUME FlightInv, TruthInv, UNCHANGED <<clock, canvas, handler, sources>>,
         shown \subseteq shown', cache' \subseteq cache,
         \A u \in Urls : <<u, page'[u], clock>> \in shown'
  PROVE  TruthInv'
<1>1. clock' \in Nat /\ clock <= clock'
  BY IngestionAssumption DEF FlightInv, TypeOK, Clock
<1>2. SourcesTrue'
  BY SameSourcesTrue DEF TruthInv
<1>3. \A url, content, at :
        Retrieved(url, content, at) => Retrieved(url, content, at)'
  BY DEF Retrieved
<1>4. \A row \in cache' : Retrieved(row.url, row.content, row.at)'
  BY <1>3 DEF TruthInv
<1>5. QED  BY <1>1, <1>2, <1>3, <1>4, StepTruth

LEMMA ChangePageTruth ==
  ASSUME FlightInv, TruthInv, NEW url \in Urls, NEW answer \in Answers,
         ChangePage(url, answer)
  PROVE  TruthInv'
<1>1. /\ shown \subseteq shown' /\ cache' \subseteq cache
      /\ UNCHANGED <<clock, canvas, handler, sources>>
  BY DEF ChangePage
<1>2. \A u \in Urls : <<u, page'[u], clock>> \in shown'
  BY DEF TruthInv, ChangePage, FlightInv, TypeOK
<1>3. QED  BY <1>1, <1>2, QuietTruth

LEMMA SweepTruth ==
  ASSUME FlightInv, TruthInv, Sweep
  PROVE  TruthInv'
<1>1. /\ shown \subseteq shown' /\ cache' \subseteq cache
      /\ UNCHANGED <<clock, canvas, handler, sources>>
  BY DEF Sweep
<1>2. \A u \in Urls : <<u, page'[u], clock>> \in shown'
  BY DEF TruthInv, Sweep
<1>3. QED  BY <1>1, <1>2, QuietTruth

LEMMA StutterTruth ==
  ASSUME FlightInv, TruthInv, UNCHANGED vars
  PROVE  TruthInv'
<1>1. /\ shown \subseteq shown' /\ cache' \subseteq cache
      /\ UNCHANGED <<clock, canvas, handler, sources>>
  BY DEF vars
<1>2. \A u \in Urls : <<u, page'[u], clock>> \in shown'
  BY DEF TruthInv, vars
<1>3. QED  BY <1>1, <1>2, QuietTruth

LEMMA DeleteCanvasTruth ==
  ASSUME FlightInv, TruthInv, DeleteCanvas
  PROVE  TruthInv'
<1>1. DOMAIN sources' = {} /\ cache' = {} /\ canvas' = "deleted"
  BY DEF DeleteCanvas
<1>2. SourcesTrue'
  BY <1>1 DEF SourcesTrue
<1>3. clock' \in Nat /\ clock <= clock'
  BY IngestionAssumption DEF FlightInv, TypeOK, Clock, DeleteCanvas
<1>4. shown \subseteq shown' /\ \A u \in Urls : <<u, page'[u], clock'>> \in shown'
  BY DEF TruthInv, DeleteCanvas
<1>5. UNCHANGED handler
  BY DEF DeleteCanvas
<1>6. QED  BY <1>1, <1>2, <1>3, <1>4, <1>5, StepTruth

LEMMA NextTruth ==
  ASSUME FlightInv, TruthInv, [Next]_vars
  PROVE  TruthInv'
<1>1. ASSUME NEW h \in Handlers, NEW k \in Keys, NEW envelope \in Envelopes,
             Reserve(h, k, envelope)
      PROVE  TruthInv'
  BY <1>1, ReserveTruth
<1>2. ASSUME NEW h \in Handlers,
             \/ ReceiveText(h) \/ Look(h) \/ Redirected(h) \/ Retrieve(h)
             \/ FailRetrieval(h) \/ GiveUp(h)
      PROVE  TruthInv'
  BY <1>2, ReceiveTextTruth, LookTruth, RedirectedTruth, RetrieveTruth, DropTruth
<1>3. ASSUME NEW h \in Handlers, FinalizeSuccess(h) \/ FinalizeFailure(h)
      PROVE  TruthInv'
  BY <1>3, FinalizeSuccessTruth, FinalizeFailureTruth
<1>4. ASSUME NEW url \in Urls, NEW answer \in Answers, ChangePage(url, answer)
      PROVE  TruthInv'
  BY <1>4, ChangePageTruth
<1>5. CASE Tick \/ Sweep \/ DeleteCanvas \/ UNCHANGED vars
  BY <1>5, TickTruth, SweepTruth, DeleteCanvasTruth, StutterTruth
<1>6. QED  BY <1>1, <1>2, <1>3, <1>4, <1>5 DEF Next

\* A source made from the cache is of the URL that was asked for in its normal
\* form and repeats one that was retrieved there, and every source names the
\* page that showed its content and to which redirects from the asked URL led:
\* the cache is keyed by the URL where a retrieval ended, with the time it was
\* begun (source_ingestion.py:344-368, 407-434; secure_sources.py:259-366).
THEOREM HitsTrue == Spec => []HitsAreTrue
<1>1. Init => TruthInv
  <2> SUFFICES ASSUME Init PROVE TruthInv
    OBVIOUS
  <2>1. /\ \A u \in Urls : <<u, page[u], clock>> \in shown
        /\ DOMAIN sources = {} /\ cache = {}
    BY DEF Init
  <2>2. \A h \in Handlers : handler[h].phase = "idle"
    BY DEF Init, Idle
  <2>3. QED  BY <2>1, <2>2 DEF TruthInv, SourcesTrue
<1>2. FlightInv /\ TruthInv /\ [Next]_vars => TruthInv'
  BY NextTruth
<1>3. QED  BY <1>1, <1>2, TruthSuffices, SpecFlight, PTL DEF Spec
=============================================================================
