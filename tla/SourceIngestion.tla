--------------------------- MODULE SourceIngestion ---------------------------
(***************************************************************************)
(* Adding a source to a canvas by its URL, or as a text.  A request first  *)
(* reserves its operation key under a lease, retrieves the document        *)
(* outside of any transaction, and finalizes the reservation under the     *)
(* lock of the canvas, fenced by the lease's token and epoch.  A lease     *)
(* that ran out is taken over by the next request with the same key, while *)
(* the first may still be retrieving.                                      *)
(*                                                                         *)
(* Three values stand for an URL.  A request is known by the fingerprint   *)
(* of its raw URL and title (asked); it is looked up in the cache, and     *)
(* retrieved, by the normalized URL; and redirects may lead elsewhere, so  *)
(* a retrieved document names the URL where they ended, and is cached by   *)
(* canvas, that URL and content.                                           *)
(*                                                                         *)
(* A request that is answered with what is stored (completed, failed or in *)
(* flight) or refused (the key was used for something else) changes        *)
(* nothing and is no step.  A source node that came from here is never     *)
(* deleted before its canvas: the completed reservation refers to it       *)
(* (migrations/0003_intelligence_persistence.py:25-28).                    *)
(***************************************************************************)
EXTENDS Integers, Sequences, FiniteSets

CONSTANTS
  Handlers,     \* web requests in progress, by their lease tokens
  Keys,         \* operation keys
  Urls,         \* normalized URLs
  Wordings,     \* spellings of an URL, with the title sent along with it
  Texts,        \* texts, each with its title
  Versions,     \* what a page can show
  None,         \* in a field that is not set
  LeaseTicks,   \* SOURCE_INGESTION_LEASE_SECONDS
  FreshTicks,   \* CACHE_FRESH_SECONDS
  ExpiryTicks,  \* CACHE_EXPIRY_SECONDS
  MaxRedirects, \* MAX_REDIRECTS
  MaxClock,     \* bound: the last tick of the clock
  MaxChanges    \* bound: changes of a page

ASSUME IngestionAssumption ==
  /\ {LeaseTicks, FreshTicks, ExpiryTicks} \subseteq Nat \ {0}
  /\ {MaxRedirects, MaxClock, MaxChanges} \subseteq Nat
  /\ None \notin Handlers \cup Keys \cup Urls
  /\ (Urls \X Wordings) \cap Texts = {}
  /\ Urls \cap Versions = {}

VARIABLES
  clock,    \* of the database and of the web processes
  page,     \* what each URL answers now: a document or a redirect
  shown,    \* history: what each URL answered when
  canvas,   \* whether the canvas exists
  request,  \* SourceIngestionRequest, by key
  handler,
  sources,  \* the source nodes, in the order of their graph operations
  cache     \* SourceContentCache

vars == <<clock, page, shown, canvas, request, handler, sources, cache>>

Clock == 0..MaxClock

Links == Urls \X Wordings

Envelopes == Links \cup Texts

\* normalize_https_url forgets how an URL was worded.
Normalized(link) == link[1]

\* The destination of a redirect is normalized, too.
Answers == Versions \cup Urls

Contents == Versions \cup Texts

\* asked is the fingerprint of the request, source its result by place.
Rows ==
  [status : {"none", "running", "completed", "failed"},
   asked : Envelopes \cup {None}, owner : Handlers \cup {None},
   epoch : Nat, until : Nat, source : Nat]

Row(status, asked, owner, epoch, until, source) ==
  [status |-> status, asked |-> asked, owner |-> owner, epoch |-> epoch,
   until |-> until, source |-> source]

\* until is when the lease runs out (history, the handler does not keep it);
\* url is current_url while fetching; at is retrieved_at_iso; url, content, at
\* and hit are the document's once it is fetched, url None for a text.
Works ==
  [phase : {"idle", "reserved", "fetching", "fetched", "failed"},
   key : Keys \cup {None}, asked : Envelopes \cup {None},
   epoch : Nat, until : Nat, url : Urls \cup {None}, redirects : Nat,
   content : Contents \cup {None}, at : Nat, hit : BOOLEAN]

Idle ==
  [phase |-> "idle", key |-> None, asked |-> None, epoch |-> 0, until |-> 0,
   url |-> None, redirects |-> 0, content |-> None, at |-> 0, hit |-> FALSE]

Busy(h) == handler[h].phase # "idle"

Asked(h) == handler[h].asked

------------------------------------------------------------------------------
(* Reserving                                                                *)

\* Seeded fault: whoever asks again takes the reservation over.
FreeAlways(k) == request[k].status \in {"none", "running"}

\* A key that nobody asked for, or whose lease ran out.
Free(k) ==
  \/ request[k].status = "none"
  \/ request[k].status = "running" /\ request[k].until <= clock

\* _reserve
Reserve(h, k, envelope) ==
  /\ canvas = "open"
  /\ ~Busy(h)
  /\ Free(k)
  /\ request[k].status = "running" => request[k].asked = envelope
  /\ LET epoch == request[k].epoch + 1 IN
     /\ request' = [request EXCEPT
          ![k] = Row("running", envelope, h, epoch, clock + LeaseTicks, 0)]
     /\ handler' = [handler EXCEPT
          ![h] = [Idle EXCEPT !.phase = "reserved", !.key = k, !.asked = envelope,
                               !.epoch = epoch, !.until = clock + LeaseTicks]]
  /\ UNCHANGED <<clock, page, shown, canvas, sources, cache>>

------------------------------------------------------------------------------
(* Retrieving                                                               *)

\* Seeded fault: a document from the cache is dated when it is reused.
DocumentNow(h, url, content, at, hit) ==
  [handler[h] EXCEPT !.phase = "fetched", !.url = url, !.content = content,
                     !.at = IF hit THEN clock ELSE at, !.hit = hit]

Document(h, url, content, at, hit) ==
  [handler[h] EXCEPT !.phase = "fetched", !.url = url, !.content = content,
                     !.at = at, !.hit = hit]

\* What the cache holds of a normalized URL, and may still be reused.
Usable(url) ==
  {row \in cache : row.url = url /\ row.fresh > clock /\ row.expires > clock}

\* The newest by retrieved_at; get_source breaks a tie by the content's hash.
Newest(rows) == {row \in rows : \A other \in rows : other.at <= row.at}

\* The handler read the clock at some point since its reservation.
Begun(h) == (handler[h].until - LeaseTicks)..clock

ReceiveText(h) ==
  /\ handler[h].phase = "reserved"
  /\ Asked(h) \in Texts
  /\ \E began \in Begun(h) :
       handler' = [handler EXCEPT ![h] = Document(h, None, Asked(h), began, FALSE)]
  /\ UNCHANGED <<clock, page, shown, canvas, request, sources, cache>>

Reuse(h, url) ==
  \E row \in Newest(Usable(url)) :
    handler' = [handler EXCEPT ![h] = Document(h, url, row.content, row.at, TRUE)]

Fetching(h, url, began) ==
  [handler[h] EXCEPT !.phase = "fetching", !.url = url, !.redirects = 0,
                     !.at = began]

Fetch(h, url) ==
  /\ Usable(url) = {}
  /\ \E began \in Begun(h) :
       handler' = [handler EXCEPT ![h] = Fetching(h, url, began)]

\* The normalized URL is looked up in the cache, else it is retrieved.
Look(h) ==
  /\ canvas = "open"
  /\ handler[h].phase = "reserved"
  /\ Asked(h) \in Links
  /\ \/ Reuse(h, Normalized(Asked(h)))
     \/ Fetch(h, Normalized(Asked(h)))
  /\ UNCHANGED <<clock, page, shown, canvas, request, sources, cache>>

SentOn(h, url) ==
  [handler[h] EXCEPT !.url = url, !.redirects = handler[h].redirects + 1]

\* The page sends the handler on to another one.
Redirected(h) ==
  /\ handler[h].phase = "fetching"
  /\ page[handler[h].url] \in Urls
  /\ handler[h].redirects < MaxRedirects
  /\ handler' = [handler EXCEPT ![h] = SentOn(h, page[handler[h].url])]
  /\ UNCHANGED <<clock, page, shown, canvas, request, sources, cache>>

\* The page answers with what it shows; the document names this page.
Retrieve(h) ==
  /\ handler[h].phase = "fetching"
  /\ page[handler[h].url] \in Versions
  /\ handler' = [handler EXCEPT
                   ![h] = Document(h, handler[h].url, page[handler[h].url],
                                   handler[h].at, FALSE)]
  /\ UNCHANGED <<clock, page, shown, canvas, request, sources, cache>>

\* Also when the URL, the text or the answer is not acceptable, and when the
\* redirects are too many.
FailRetrieval(h) ==
  /\ handler[h].phase \in {"reserved", "fetching"}
  /\ handler' = [handler EXCEPT ![h] = [@ EXCEPT !.phase = "failed"]]
  /\ UNCHANGED <<clock, page, shown, canvas, request, sources, cache>>

------------------------------------------------------------------------------
(* Finalizing                                                               *)

\* Seeded fault: the reservation is looked up by its key alone.
FencedByKey(h) == request[handler[h].key].status # "none"

\* _locked_fenced_ingestion
Fenced(h) ==
  LET row == request[handler[h].key] IN
  /\ row.status = "running"
  /\ row.owner = h
  /\ row.epoch = handler[h].epoch

Settled(h, status, source) ==
  LET row == request[handler[h].key] IN
  [request EXCEPT
     ![handler[h].key] = Row(status, row.asked, None, row.epoch, 0, source)]

Filed(h, url) ==
  IF handler[h].url = None \/ handler[h].hit THEN cache
  ELSE {row \in cache : ~(row.url = url /\ row.content = handler[h].content)}
         \cup {[url |-> url, content |-> handler[h].content,
                at |-> handler[h].at, fresh |-> clock + FreshTicks,
                expires |-> clock + ExpiryTicks]}

\* Seeded fault: filed under the URL that was asked for, not where it led.
CachedAsAsked(h) ==
  Filed(h, IF Asked(h) \in Links THEN Normalized(Asked(h)) ELSE None)

\* The row for the same content is replaced; a cached document stays as it is.
Cached(h) == Filed(h, handler[h].url)

\* _finalize_success: the source, its graph operation and the cache.
FinalizeSuccess(h) ==
  /\ canvas = "open"
  /\ handler[h].phase = "fetched"
  /\ Fenced(h)
  /\ sources' = Append(sources,
       [key |-> handler[h].key, asked |-> Asked(h), url |-> handler[h].url,
        content |-> handler[h].content, at |-> handler[h].at, hit |-> handler[h].hit])
  /\ cache' = Cached(h)
  /\ request' = Settled(h, "completed", Len(sources) + 1)
  /\ handler' = [handler EXCEPT ![h] = Idle]
  /\ UNCHANGED <<clock, page, shown, canvas>>

\* _finalize_failure
FinalizeFailure(h) ==
  /\ canvas = "open"
  /\ handler[h].phase = "failed"
  /\ Fenced(h)
  /\ request' = Settled(h, "failed", 0)
  /\ handler' = [handler EXCEPT ![h] = Idle]
  /\ UNCHANGED <<clock, page, shown, canvas, sources, cache>>

\* The lease is lost, the canvas is gone, or the process dies.
GiveUp(h) ==
  /\ Busy(h)
  /\ handler' = [handler EXCEPT ![h] = Idle]
  /\ UNCHANGED <<clock, page, shown, canvas, request, sources, cache>>

------------------------------------------------------------------------------
(* Time, pages, and the end of cache rows and of the canvas                 *)

Tick ==
  /\ clock < MaxClock
  /\ clock' = clock + 1
  /\ shown' = shown \cup {<<u, page[u], clock + 1>> : u \in Urls}
  /\ UNCHANGED <<page, canvas, request, handler, sources, cache>>

Changes == Cardinality(shown) - Cardinality(Urls) * (clock + 1)

ChangePage(url, answer) ==
  /\ Changes < MaxChanges
  /\ answer # page[url]
  /\ page' = [page EXCEPT ![url] = answer]
  /\ shown' = shown \cup {<<url, answer, clock>>}
  /\ UNCHANGED <<clock, canvas, request, handler, sources, cache>>

\* delete_expired_cache_entries, by the worker
Sweep ==
  /\ \E row \in cache : row.expires <= clock
  /\ cache' = {row \in cache : row.expires > clock}
  /\ UNCHANGED <<clock, page, shown, canvas, request, handler, sources>>

NoRequests == [k \in Keys |-> Row("none", None, None, 0, 0, 0)]

\* delete_canvas and what the cascade takes with it.
DeleteCanvas ==
  /\ canvas = "open"
  /\ canvas' = "deleted"
  /\ request' = NoRequests
  /\ sources' = <<>>
  /\ cache' = {}
  /\ UNCHANGED <<clock, page, shown, handler>>

------------------------------------------------------------------------------
Init ==
  /\ clock = 0
  /\ page \in [Urls -> Answers]
  /\ shown = {<<u, page[u], 0>> : u \in Urls}
  /\ canvas = "open"
  /\ request = NoRequests
  /\ handler = [h \in Handlers |-> Idle]
  /\ sources = <<>>
  /\ cache = {}

Next ==
  \/ \E h \in Handlers :
       \/ \E k \in Keys, envelope \in Envelopes : Reserve(h, k, envelope)
       \/ ReceiveText(h)
       \/ Look(h)
       \/ Redirected(h)
       \/ Retrieve(h)
       \/ FailRetrieval(h)
       \/ FinalizeSuccess(h)
       \/ FinalizeFailure(h)
       \/ GiveUp(h)
  \/ \E url \in Urls, answer \in Answers : ChangePage(url, answer)
  \/ Tick
  \/ Sweep
  \/ DeleteCanvas

Spec == Init /\ [][Next]_vars

------------------------------------------------------------------------------
(* Properties                                                               *)

TypeOK ==
  /\ clock \in Clock
  /\ page \in [Urls -> Answers]
  /\ shown \subseteq Urls \X Answers \X Clock
  /\ canvas \in {"open", "deleted"}
  /\ request \in [Keys -> Rows]
  /\ handler \in [Handlers -> Works]
  /\ sources \in Seq([key : Keys, asked : Envelopes, url : Urls \cup {None},
                      content : Contents, at : Nat, hit : BOOLEAN])
  /\ cache \subseteq [url : Urls, content : Versions, at : Nat, fresh : Nat,
                      expires : Nat]

\* A reservation has an owner exactly while it runs
\* (ck_source_ingestion_lifecycle, generation/models.py:445-472).
LifecycleHolds ==
  \A k \in Keys :
    /\ request[k].status = "running" <=> request[k].owner # None
    /\ request[k].status = "completed" <=> request[k].source # 0

\* Of the handlers at work for one key each has a lease of its own, and a
\* later one was only granted when the earlier had run out; none is ahead of
\* the reservation.
SingleFlight ==
  /\ \A g, h \in Handlers :
       (Busy(g) /\ Busy(h) /\ handler[g].key = handler[h].key) =>
         /\ handler[g].epoch = handler[h].epoch => g = h
         /\ handler[g].epoch < handler[h].epoch =>
              handler[g].until + LeaseTicks <= handler[h].until
  /\ canvas = "open" =>
       \A h \in Handlers :
         Busy(h) => handler[h].epoch <= request[handler[h].key].epoch

\* Every variable holds a value of its type, the rows satisfy the database's
\* check, and a key has one flight at a time.
IngestionInv == TypeOK /\ LifecycleHolds /\ SingleFlight

\* However often a request is sent and its lease taken over, a key makes at
\* most one source, the one its completed reservation answers with, made of
\* what the key was asked for; a failed or running reservation made none.
OneSourcePerKey ==
  /\ \A k \in Keys : request[k].status = "completed" =>
       /\ request[k].source \in DOMAIN sources
       /\ sources[request[k].source].key = k
       /\ sources[request[k].source].asked = request[k].asked
  /\ \A i \in DOMAIN sources :
       /\ request[sources[i].key].status = "completed"
       /\ request[sources[i].key].source = i

\* An answer that a page gave at that time or later.
AnsweredSince(url, answer, at) ==
  \E t \in Clock : t >= at /\ <<url, answer, t>> \in shown

\* A chain of n redirects, none served before that time.
Hops(n, first, last, at) ==
  \E path \in [0..n -> Urls] :
    /\ path[0] = first
    /\ path[n] = last
    /\ \A i \in 0..(n - 1) : AnsweredSince(path[i], path[i + 1], at)

LedTo(first, last, at) == \E n \in 0..MaxRedirects : Hops(n, first, last, at)

\* A source made from the cache is of the very URL that was asked for, in its
\* normal form, and repeats an earlier one that was retrieved there, with its
\* content and its time, whatever that one had been asked for by.  And every
\* source is honest about where it comes from: redirects from the URL that was
\* asked for led to the URL it names, and that page showed its content, when
\* the source says so or while it was retrieved (design.md:1887).
HitsAreTrue ==
  \A i \in DOMAIN sources : sources[i].asked \in Links =>
    /\ sources[i].hit =>
         /\ sources[i].url = Normalized(sources[i].asked)
         /\ \E j \in 1..(i - 1) :
              /\ ~sources[j].hit
              /\ sources[j].url = sources[i].url
              /\ sources[j].content = sources[i].content
              /\ sources[j].at = sources[i].at
    /\ AnsweredSince(sources[i].url, sources[i].content, sources[i].at)
    /\ LedTo(Normalized(sources[i].asked), sources[i].url, sources[i].at)
=============================================================================
