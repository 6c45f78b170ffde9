# Proofgraph: a TLA+ verification development

ProofGraph is a Django application over PostgreSQL with a worker process and a
React client. A canvas holds a graph of typed nodes and edges; a *generation
run* asks a chain of model and research stages for a candidate *patch* of the
graph, and the user reviews and applies it. The code is under `src/proofgraph`
(server and worker) and `src/web/src` (client); `src/design.md` is the design.

The models are translated from the code. Where a property quotes a document, the
property says what the document says and the run shows what the code does.

## 1. Inventory

| Component | State | Operations | Interacts with |
| --- | --- | --- | --- |
| Generation queue and worker (`generation/queue.py`, `execution.py`, `run_generation_worker.py`) | `GenerationRun` (status, attempt, lease columns, cancellation, error), `GenerationStage` checkpoints, `GraphPatch` insertion; in memory: the lease, `prior_outputs`, the stage in progress, a heartbeat thread | recover, terminalize, claim, renew, begin / reuse / complete a stage, fail, finalize cancelled, persist the patch, complete | requests through the run row; stream through events; providers |
| Run requests (`generation/services.py`, `api.py`) | run rows, idempotency keys | create, read, cancel, retry | queue; demo quotas; context packing |
| Progress events (`generation/events.py`, `sse.py`) | `CanvasEventCursor`, `GenerationEvent`; per connection a cursor and a batch | append under the cursor's lock, poll, yield | every writer of a run; the client |
| Web client (`web/src/generation.ts`, `App.tsx`) | reducer state (cursor, cards), `generationCursor` ref, local storage | receive, reduce, reconnect, reload, cancel, retry, track | stream; run requests |
| Patch review (`generation/patches.py`) | `GraphPatch.status`, operation decisions | read, reject, regenerate | runs, application |
| Patch application (`generation/patch_application.py`) | patch, decisions, nodes, edges, canvas revision | select, preflight, apply, answer a repeated request | graph, staleness |
| Graph operations (`graph/operations.py`) | `Node`, `Edge`, `GraphOperation`, versions, canvas revision | ten operations with an idempotency key | staleness |
| Staleness (`graph/staleness.py`) | `Node.stale`, `stale_since_revision` and the causes | capture, resolve, apply | operations, application |
| Demo sessions (`demo/`) | `DemoSession`, `DemoGlobalQuotaWindow` | bootstrap, consume quota, reset, clean up, authorize | runs, canvases, queue |
| Source ingestion (`generation/source_ingestion.py`, `secure_sources.py`) | `SourceIngestionRequest`, source nodes, `SourceContentCache` | reserve, look into the cache, retrieve through redirects, finalize a success or a failure | graph, cache |
| Research cache (`generation/research_cache.py`) | `ResearchQueryCache`, `SourceContentCache` | get, store, delete the expired | research adapters |
| Context packing (`generation/context.py`) | none: a function of the graph | select, rank, fit into the token budget | create |
| Stage contracts (`generation/pipeline_schemas.py`, `retention.py`) | none | validate | worker |
| Providers (`structured_providers.py`, `research_adapters.py`) | none of their own | call out with limits and time-outs | worker |
| Evaluation (`evaluation/`), runtime (`runtime/`) | files, log lines | offline analysis, telemetry | none of the above at run time |

What makes the components correct, and what is hard about each:

* **Queue.** One writer at a time although leases expire under stalled workers;
  completed stages are kept through crashes, take-overs and retries and never
  mixed; a cancellation beats the finalization it races with; one outcome per
  attempt; attempts are bounded; every run is settled in the end. Hard because
  three scans, the stage loop, a heartbeat thread and three requests write the
  same row in separate transactions, and any process may die between two.
* **Events.** Numbers are dense and never commit out of order, the reader sees
  each one once. Hard because writers of different runs interleave, and because
  the page has two cursors that a rendering keeps in step.
* **Graph, patch review and application.** Nothing stale is applied, a request
  sent twice acts once, a patch gets one decision. Hard because two tabs and a
  worker act on one canvas and an operation's check depends on other operations
  of the selection.
* **Demo.** Quotas hold, sessions end, and no live worker loses its canvas
  silently. Hard because sessions, runs and windows are counted in three places.
* **Ingestion.** One source per key although reservations expire; a source says
  truly which page showed its content although redirects, spellings and the cache
  come between the request and the page.

`PROJECT.json` lists each hazard at its line and the properties that cover it.

## 2. Modules

| Module | Models |
| --- | --- |
| `RunLifecycle` | what a client is promised of a run: its status, attempts and patch |
| `GenerationQueue` | run rows, checkpoints, patches, events, workers and requests |
| `GenerationQueueProofs` | the theorems about `GenerationQueue` |
| `QueueHistoryProofs` | theorems about the log and the checkpoints of `GenerationQueue` |
| `EventFeed` | what the event stream promises a page |
| `CanvasEvents` | transactions that append events, the stream, the page |
| `CanvasEventsProofs` | the theorems about `CanvasEvents` |
| `DemoSessions` | sessions, their quotas, canvases and runs; reset and cleanup |
| `DemoSessionsProofs` | the theorems about `DemoSessions` |
| `CanvasGraph` | the graph of a canvas as a value: the ten direct operations, and what they turn stale |
| `CanvasGraphProofs` | lemmas about `CanvasGraph`: traversals, orders, handlers, marks of staleness |
| `RunContext` | what a run may be asked for, and the part of the graph it is given |
| `PatchContract` | the patches a run may deliver, and the operations they consist of |
| `PatchReview` | the state: graph, log, runs, patches, row locks; requests, deliveries, reviews, deletion |
| `PatchReviewProofs` | theorems about the runs and patches of `PatchReview` |
| `PatchGraphProofs` | theorems about the graph, the log, the contexts and the decisions of `PatchReview` |
| `SourceIngestion` | reservations, handlers, leases, redirects, the cache of documents |
| `SourceIngestionProofs` | the theorems about `SourceIngestion` |
| `MCGenerationQueue`, `MCDemoSessions`, `MCPatchReview`, `MCSourceIngestion` | model values, symmetry and the small canvas for TLC |

`PatchReview` extends `PatchContract`, that `RunContext`, and that `CanvasGraph`:
the three lower modules are operators on graph values without state, and
`PatchReview` composes them into transactions.

### 2.1 GenerationQueue

An action is one database transaction, or one step of a worker between two.
Row locks make each transaction atomic: all of them start by locking the run
row (`select_for_update`), and the scans of `claim_run` skip locked rows, so a
scan may take any eligible row and not only the oldest one.

| Model | Code |
| --- | --- |
| `run[r]` | `GenerationRun`: `lease` is -1 when the four lease columns are null, else the ticks left until `lease_expires_at`; `cancel` is `cancel_requested_at is not None`; `error` keeps only `error["retryable"]` |
| `epoch` | the triple (`worker_id`, `lease_token`, `lease_epoch`), which changes only as a whole, with a fresh token |
| `stages[r]` | `GenerationStage`; `input` stands for `input_hash`, which covers the outputs before the stage; an output is named by the epoch that produced it |
| `patch[r]` | `GraphPatch`, by the outputs it was built from |
| `events[r]` | the `GenerationEvent` rows of the run; research events are progress |
| `worker[w]` | the worker's place in `Command.handle` and `process_claimed_run` and its local variables |
| `RecoverPatchReady`, `TerminalizeExhausted`, `ClaimRun`, `ScanDone` | the loops of `claim_run` |
| `SkipLocked` | a scan whose rows are all locked by others at that instant (`skip_locked`) finds none and moves on; it counts as a fault |
| `LoseLease` | `LeaseLostError`: the transaction rolls back; from the recovery and from the first transaction of `process_claimed_run` it ends the process |
| `RenewLease` | `LeaseKeeper` and `renew_lease` |
| `FinalizeCancelled`, `ContinueUncancelled` | `_cancel_if_requested`, and the same read under the lock in `_persist_patch_then_complete` |
| `ReuseStage`, `BeginStage`, `CompleteStage`, `ReportProgress` | `_begin_stage`, `_complete_stage`, `_append_progress_event` |
| `ExecuteStage`, `StageRaises`, `RejectPatchOutput` | the executor and the validators, by outcome |
| `FailRun`, `PersistPatch`, `CompleteRun` | `_fail_run`, the two transactions of the finalization, and the write of the recovery |
| `CreateRun`, `CancelQueued`, `CancelRunning`, `RetryRun` | `services.py` |
| `Crash`, `Restart`, `TimePasses` | external: process death, the supervisor, the database's clock |

Abstracted: timestamps, `current_stage`, telemetry, event payloads, the
idempotency key of creation and the quota checks. A lease of 0 ticks is one
whose deadline has passed; the instant at which the deadline equals `now()`, in
which neither `<` nor `>` holds, is left out. `TimePasses` moves the leases one
at a time, so their deadlines may lie in any order. A demo reset or
cleanup also ends runs; that is the subject of `DemoSessions`.

### 2.2 CanvasEvents

`txn[r]` is the transaction that holds run `r`'s row lock, with the rows it has
inserted; from its first insertion to its end it holds the cursor row, which is
the guard of `AppendEvent`. What the workers and requests do is reduced to
`Moves`, the status changes that append an event; a cancellation whose event is
suppressed (finding 1) is not among them. `NextPlace` counts the rows of a run where
the code takes the largest `run_sequence` and one more (`events.py:43-45`): the same,
as `RunSequenceAgrees` shows the numbering to be dense. `stream` is the generator of
`canvas_event_stream` with the bytes under way. In `tab`, `ref` is
`generationCursor.current`, `dispatched` are the actions that React has not
reduced yet, and `effect` is the cursor of a rendering whose effect has yet to
write the ref. Requests about a run come back with a snapshot read when the
server answered, which `ReceiveRun` hands to the reducer later.

### 2.3 DemoSessions

| Model | Code |
| --- | --- |
| `session[s]` | `DemoSession`: `window` and `count` are `quota_window_started_at` and `hybrid_run_count`; `created + SessionTicks` is `expires_at`; `canvas` numbers the canvases the session has had |
| `canvases` | the `Canvas` rows of demo sessions, by session and number |
| `run[r]` | `GenerationRun`, with `lease` reduced to none, live or expired |
| `hourly[h]` | `DemoGlobalQuotaWindow.hybrid_run_count` of clock hour `h` |
| `txn[s]` | the open reset or cleanup of the session: who runs it and what it has locked |
| `attempted[c]` | the local variable of `cleanup_expired_demo_sessions` |
| `authorized` | requests between `authorize_run` and the service they call |
| `created` | history: no code reads it, the quota properties do |
| `Bootstrap`, `BeginReset`, `EndReset` | `demo/services.py` |
| `CreateHybridRun`, `CreateReplayRun` | `create_generation_run` for a demo session, and `regenerate_graph_patch`, which makes the same checks in the same order |
| `ConsumeHybridQuota` | `consume_hybrid_quota`; a refusal raises, so the action is not enabled |
| `Authorize`, `CancelRun`, `RetryRun`, `DropRequest` | the requests of `generation/api.py`: authorized without a lock, executed later and not authorized again |
| `BeginCleanup`, `KeepSession`, `DeleteSession`, `EndPass` | the loop of `cleanup.py` and `_cleanup_locked_session` |
| `Abort` | external: the process dies and the database rolls back |

A reset or a cleanup is two actions: the first locks the session and the runs
that its query lists, the second writes. In between, everything that they do not
lock goes on: other sessions, leases running out, and the runs that the query
leaves aside, such as failed ones. All other transactions are one action each,
and wait while the row they need is locked. `live` is computed when the cleanup
begins, as `now` is read before the query (`cleanup.py:58`); a lease that runs out
while the query waits for its row is one that runs out after `BeginCleanup`. A worker's step is what it does to the
row. The lease epoch is not kept: the rows that a reset fences are deleted in the
same transaction, and those that a cleanup fences have no live owner.

### 2.4 CanvasGraph, RunContext, PatchContract, PatchReview

| Model | Code |
| --- | --- |
| `graph` | the `Node` and `Edge` rows of one canvas and its revision. Of a node: kind, `review_status`, whether a run generated it, branch root, `pinned`, its text as original, edited or generated, `version` and `position_version`, `stale_since_revision`, the revisions of its uncleared causes, `semantic_updated_at` as a revision, and `regenerated_from_node_id` |
| `Handle` and the operators it names | the handlers of `graph/operations.py`; a handler yields the graph it leaves, or none when it raises |
| `Capture`, `Invalidated`, `MarkStale`, `Committed` | `capture_direct_invalidation` before the handler, `resolve_direct_invalidation` and `apply_staleness` after it, in one transaction |
| `Heads`, `Distances` | the breadth-first searches of `staleness.py`, `context.py` and `pipeline_schemas.py` |
| `Selectable` | `validate_explicit_selection` |
| `Units`, `Members`, `Core` | the workset of a regeneration: production units and the family of an opportunity |
| `Mandatory`, `Tiers`, `Optional`, `Fitting` | `GraphRunContextFactory.build`; a node costs tokens by its kind, an edge and the envelope a fixed number |
| `Listed`, `Drawn`, `InOrder` | loops that take one thing after the other, in any order or by rounds; `InOrder` is the order of `_selection` |
| `Drafts`, `Contract`, `Ops` | what the stages choose, `_validate_patch_output`, and the operations stored; a draft that the contract refuses is not delivered |
| `Shaped`, `References`, `WellFormed` | `PatchOperationCandidate` and `validate_dependency_graph`: every reference is to the context or to an operation that is needed, and there is an order |
| `RootResolved`, `NodeConflicts`, `EdgeConflicts`, `Conflicting` | `_preflight_operation` and the checks it calls, on the graph as it is when the patch is applied |
| `SuccessorsMatch`, `ClonesMatch`, `RegenerationFits` | `_validate_regeneration_application` |
| `Added` | the loop over the accepted operations: the i-th one takes the i-th revision |
| `log` | the `GraphOperation` rows by revision: actor (a user, or the run of a patch), key, and the request |
| `runs`, `patches` | `GenerationRun` with its frozen context, and the `GraphPatch` it delivered, with decisions and `regenerated_by_run` |
| `held` | the patch rows that a review has locked while it waits for the canvas |
| `Direct`, `CreateRun`, `DeliverPatch` | `apply_graph_operation`, `create_generation_run`, `_persist_patch_then_complete` |
| `LockPatch`, then `Apply`, `Reject`, `Regenerate` or `Refuse` | `apply_graph_patch`, `reject_graph_patch`, `regenerate_graph_patch`, and their refusals and repeated answers |
| `StartDeletion`, `FinishDeletion` | `delete_canvas` and the cascade |
| `BreakDeadlock` | external: PostgreSQL rolls back a review or the deletion when each waits for the other |

A transaction that starts by locking the canvas is one step. A review locks its
patch first, and then the canvas; the deletion of a canvas locks it first, and
then, by the cascade, the patches. Those are two steps each. One patch is under
review at a time: two reviews of different patches meet only at the canvas, which
both hold to their end. Of two reviews of the same patch, the second waits for the
row and then sees what the first wrote.

A client may know the present version of a row or the first one, may draw a new
key or send one again; a request that repeats a key is answered from what is
stored and is no step. `apply_graph_patch` refuses a selection with conflicts
unless `apply_nonconflicting_only` is set; `Apply` is the second form, since the
first either refuses or does the same. The contract admits `ADD_NODE` and
`ADD_EDGE` only, so the branches of preflight and application for updates, moves
and deletions cannot be reached from a stored patch and are not modelled.

`REJECT_EVIDENCE` refuses a provisional node (`operations.py:815`), which has no
counterpart: only the server sets `review_status` (`operations.py:60-78`), and of a
node in the graph it is not set, `accepted` or `rejected`. Nodes of a patch are
provisional until it is applied, which writes `accepted` (`patch_application.py:906`).

`RunContext` takes strength and authority of evidence as equal for all, and drops
from the end of the packing order as the code does; nodes that tie come in any
fixed order, as their ids are random.

### 2.5 SourceIngestion

| Model | Code |
| --- | --- |
| `request[k]` | `SourceIngestionRequest` of operation key `k`: status, fingerprint, lease owner, epoch and deadline, result |
| `handler[h]` | a web request in `create_source`: its lease and the document it has in hand; `at` is `retrieved_at_iso` |
| `Links`, `Texts`, `handler[h].asked` | what `_fingerprint` covers: the URL as it was spelled, or the text, with the title |
| `Normalized` | `normalize_https_url`: by it the cache is searched and the retrieval starts; spellings and titles share it |
| `handler[h].url` | `current_url`, which moves with each redirect, and then the `normalized_url` of the document: by it the cache is filed, and the source named |
| `sources` | the source nodes, each with the graph operation that added it |
| `cache` | `SourceContentCache`; `Usable` and `Newest` are `get_source` |
| `Reserve`, `ReceiveText` | `_reserve`; `receive_text` |
| `Look` with `Reuse` or `Fetch` | the cache is searched, and a document taken from it or a retrieval begun |
| `Redirected`, `Retrieve`, `FailRetrieval` | a turn of the loop in `retrieve_url`: the page sends on, or shows a document, or something is not acceptable |
| `Filed`, `Cached` | `update_or_create` of the cache row |
| `FinalizeSuccess`, `FinalizeFailure`, `GiveUp` | the two finalizations behind `_locked_fenced_ingestion`; the lease is lost or the process dies |
| `Sweep`, `DeleteCanvas` | `delete_expired_cache_entries`, `delete_canvas` |
| `page`, `ChangePage`, `Tick` | external: what each URL answers (a document or a redirect), and the clock |
| `shown`, `handler[h].until` | history: what an URL answered when, and when a lease that was granted runs out |

So three values that a single URL could stand for are kept apart: what was asked for,
the normalized URL that is searched, and the URL where the redirects end. A request
for A that is redirected to B leaves a row under B: the next request for B is answered
from it, and the next one for A is not. `retrieved_at_iso` is read between the
reservation and the retrieval, so `Begun` admits any time in between. The
destination of a redirect goes through the same normalization (`Answers`).

## 3. What TLC checks

| Run | Question | Size |
| --- | --- | --- |
| `queue` | safety of the queue, that it implements `RunLifecycle`, that every accepted run settles | 1 run, 2 workers, 2 stages, 2 attempts, 2 faults |
| `canvas_events` | dense numbering, the inductive invariant, the cards, the feed, every event reaches the page | 2 runs, 3 events, batches of 1, one each of broken connection, reload, request |
| `demo_sessions` | rows, locks and quotas under reset, cleanup, workers, requests | 2 sessions, 2 runs, 1 cleaner, clock to 2, 1 reset, 1 abort |
| `demo_liveness` | every expired session is deleted | 2 sessions, 1 run of 2 attempts, batches of 1, 1 abort; no symmetry |
| `patch_review` | the graph, its log, staleness, contexts and decisions under all interleavings | 8 nodes, 6 edges, 12 direct operations, 5 run requests; 2 direct operations, 2 runs, 3 requests in all |
| `source_ingestion` | one flight and one source per key, true sources and cache hits | 2 handlers, 2 keys, 2 pages with 2 wordings, a text, 1 redirect, clock to 1, 1 change |
| `demo_concurrent_limit`, `demo_deleted_fenced` | two statements of the README that the code does not keep | smallest that shows it |
| `cancelled_event`, `durable_patch`, `settled_cards` | three statements of the documents that the code does not keep | smallest that shows it |
| `regeneration_applies` | a regeneration whose patch can never be applied | smallest that shows it |

**Bounds.** Runs share no row in the queue (a worker holds one at a time, and
the canvas cursor is in the other model), so one run with two workers shows
every conflict over a run: hand-over needs two workers, a stale holder beside
the new one needs two epochs, two attempts give one that is not the last and
one that is. Two faults let a lease expire under a live worker and its successor
crash, or a scan pass over a locked row. `ReportProgress` is bounded to one event per execution of a stage. For the
events, two runs are what it takes to interleave two transactions; batches of one
leave two of three events beyond a full batch (the batch has 100 rows in the
code). The last event comes only to a page that was neither reloaded nor sent a
request (`Quiet`, `MayDisturb`), which keeps the instance small and leaves the
disturbances of the first two. For the demo, two sessions compete for the hour's
allowance and for a place in a batch of one; `demo_sessions` has a window of one
tick in a session of two, so that a window restarts in an open session and after
a reset. Runs of a session share nothing beyond the counters, so two of them show
the conflicts of a deletion with a retry. The clock stops at `MaxClock`;
`Bootstrap` leaves every session the time to expire, so that the end of the clock
hides nothing from the liveness property.

The canvas of `MCPatchReview` has one node of almost every kind, a family, evidence
against, a pinned constraint with a root, and a unit that is already stale; the
twelve direct operations include each of the ten kinds, an edge that closes a
cycle, one that is redrawn, and a constraint that moves its root. Three requests
give a run, its delivery and a review with two direct operations in between, or a
patch that is generated anew, or the deletion of the canvas at any point.
`Selections` takes everything or leaves out one node or the edges beside it, with
and without what rests on it. Token counts are small, so that in
some contexts everything fits, in some an optional node is dropped only because
of the edges, and in some the mandatory nodes alone do not fit. For ingestion, two
handlers and a lease of one tick give a take-over under a live holder. Each page
shows one of two documents or redirects, to the other or to itself, and one of them
changes once; one redirect is enough for the URL where a retrieval ends to differ
from the one it was asked for, and a second one is one too many. Two wordings give
two fingerprints for one normalized URL. What is cached in the first tick is stale in
the second; what is cached in the second may have been retrieved in the first, so
that a wrong time would show. More redirects, and a lease that is taken over more
than once, are left to the proofs.

**Fairness.** `WF(WorkerStep(w))`: the supervisor restarts the worker service
(`restart: unless-stopped`) and a running process goes on, so a worker whose next
step stays possible takes it. `WF(~Held(r) /\ TimePasses(r))`: a lease that
nobody can renew runs out. Faults are finite (`MaxFaults`), for a worker that
always crashes settles nothing. The heartbeat and the requests are not fair.
For the stream: the generator polls, the browser delivers and renders, the
reconnect timer fires; nothing is assumed of workers and users. For the
demo: the cleanup is run again and again (`WF(Pass(c))`), an open transaction ends
(`WF(Finish(s))`), a worker of a run with a cancellation stops or loses its lease,
and `SF(CompleteRun(r))`: a `patch_ready` run is completed by one transaction of
its worker or of the recovery. Weak fairness would not do, since the lease may
expire and be recovered again and again, and other transactions lock the row in
between. Resets, requests, claims and the clock are not fair. `PatchReview` and
`SourceIngestion` state safety only: every step there is a user's, or a request
that may be abandoned, and the code promises none of them an end.

**Deadlock** is checked except in the runs of `PatchReview` and `SourceIngestion`: a
deleted canvas, used-up bounds and an abandoned request are ordinary ends there. In
the demo runs it can find only a transaction that nothing can end, as an idle
cleaner can always end its pass.

### Findings

1. `CancelledEventRecorded`: fail, retry, cancel while queued: `run.cancelled` is
   suppressed, since the attempt's outcome (`run.failed`) is already recorded.
   `design.md:1772` promises one `run.cancelled` event. A page that follows the
   stream keeps showing the run as queued, unless it sent the cancellation.
2. `DurablePatchCompletes`: a `patch_ready` run on its last attempt whose lease
   expires between the recovery scan and the exhaustion scan is failed with
   `poison_job`, although its patch is durable; `design.md:1380` and `:1402` say
   otherwise. `PatchEndsExecution` shows that this is the only other end.
3. `SettledRunsClearLoading`: the answer to a cancel request (or to the request
   of a reloaded page) that arrives after the run's last event puts the card back
   to running, and nothing corrects it. `README.md:409` says that settled runs
   clear their loading state.
4. `ConcurrentRunLimit`: a session whose hybrid run failed creates another one and
   then retries the first: `retry_generation_run` makes no quota check, so more runs
   are active than `DEMO_SESSION_CONCURRENT_RUN_LIMIT`. `README.md:250` says "at
   most two active hybrid runs per session".
5. `DeletedOnlyFenced`: a retry authorized before the session expired queues a failed
   run after the cleanup has listed the session's runs, and a worker claims it: the
   canvas is deleted with a run under a live lease. `README.md:252` says that the
   canvas is deleted only after every lease is fenced. The worker then finds its row
   gone; `NoRowOutlivesItsSession` shows that nothing else is left behind.
6. `RegenerationApplies`: the contract of a regeneration clones each pinned
   constraint whose root reaches all the nodes to regenerate, onto the nearest
   production units (`pipeline_schemas.py:1069`). Applying demands one clone of each
   constraint that is anchored at a regenerated node, and refuses any other
   (`patch_application.py:358`). The two agree when the constraint is pinned at the
   regenerated unit itself; with a constraint pinned at a strategy and an
   opportunity below it to regenerate, the patch can never be applied. The same
   goes for an unpinned constraint at the regenerated unit, which the contract
   does not clone. `design.md:528` and the README's "every applicable branch-scoped
   constraint is cloned onto its successor" (line 407) promise the clone.

Four more observations, which no run states as a property:

* A branch regeneration takes every stale generated node below its root into its
  workset (`context.py:484-490`), also a claim that was rejected after it turned
  stale. It enters the frozen context and its successor is researched anew, while
  `design.md:360` and `:2494` keep rejected evidence out of contexts. `ContextSound`
  therefore excepts `context.members`, and nothing else.
* Applying a patch checks that the nodes it builds on exist. When the only source of
  a claim is rejected while a synthesis that cites the claim is pending, the claim is
  rejected and the opportunity is added on it all the same, and fresh.
* A source that was added by ingestion can never be deleted: `_delete_node` looks at
  edges and branch roots, but the completed reservation refers to the node
  (`fk_source_ingestion_result_canvas`,
  `generation/migrations/0003_intelligence_persistence.py:25-28`), so the commit
  fails with an integrity error that `graph/api.py:26-34` does not turn into an answer.
* Two retrievals of one page that find the same content and finish in the other order
  leave the older `retrieved_at` in the cache (`source_ingestion.py:355`). Content and
  time still belong together, as `HitsAreTrue` says; only the newest is not the latest.

Skips of a regeneration group are propagated once (`patch_application.py:476`, and once
more to what depends on them at `:1361`). Whether a second group could be left with a
part applied depends on patches in which one group rests on another; in those
the contract admits, what rests on a group goes with it: `DecisionsHoldTogether`
proves it of every patch (section 4).

## 4. What is proved

`GenerationQueueProofs` is checked by TLAPS for every set of runs and workers and
every `MaxAttempts`, `NumStages`, `LeaseTicks` (positive) and `MaxFaults`, from
`QueueAssumption` alone.

* `QueueInvariant`: `Spec => []QueueInv`. `QueueInv` is inductive: types; a lease
  exists exactly in the leased statuses (`LeaseMatchesStatus`); the leases that
  workers remember were granted and differ (`GrantsAreDistinct`), without which a
  second worker could hold the epoch of the first; a patch exists only past
  execution (`PatchEndsExecution`), without which a cancellation could come
  after a patch; attempts left while queued (`AttemptBudget`), without which a
  claim would exceed the maximum; the position in the stage plan
  (`PlanPosition`), which types the checkpoints.
* From it: `TypeCorrect`, `AtMostOneWriter`, `CancellationWins`,
  `OutcomesAreUnique`, `TakeoverNeedsExpiry` and `QueueImplementsLifecycle` (the
  queue's steps are steps of `RunLifecycle` or leave it alone).

`QueueHistoryProofs` builds on `QueueInv`, under the same assumption.

* `OutcomesCloseLogs`: `Spec => []OutcomeClosesLog`. A terminal event is dropped when
  the attempt has one already (`terminal_once`), so the log of a run that ends could
  stay open. `LogsFit` excludes it: no event is of an attempt still to come, and an
  attempt that executes has no outcome. The attempt budget is needed, too: the scan
  for exhausted runs would otherwise fail a queued run, whose last outcome is older.
* `CheckpointsHold`: `Spec => []CheckpointInv`. A run has one checkpoint per stage, on
  the outputs of completed ones (`OneChain`), so the hash of the input a worker looks
  up cannot differ from the one its predecessor wrote; and what workers remember,
  with a lease or without, and what patches hold was completed (`MemoryMade`,
  `PatchMade`). From it: `PatchIsOfCheckpoints` and `CheckpointsStay`.

`CanvasEventsProofs` is checked for every set of runs, every `BatchSize` (positive)
and every bound, from `EventsAssumption` alone.

* `EventsInvariant`: `Spec => []EventsInv`. Besides types and density, `EventsInv`
  says that one transaction at a time numbers events, from the committed cursor
  on (`PendingFollows`), without which two transactions could take the same
  number; that everything under way to the page was committed (`SentFromLog`);
  and that the predecessor of every event under way is further on its way, or
  applied (`NothingSkipped`). The last is what makes reconnection safe: the ref
  may lag behind the reducer or run ahead of it, but by the time the reducer comes
  to an event, every smaller number has been applied. `RowsBetween` counts the
  rows between two positions of a dense log, which is why a batch in the order of
  the query (`NextRowsFollow`) leaves no gap.
* From it: `EventsTypeCorrect`, `SequenceStaysDense` and `StreamImplementsFeed`
  (a commit publishes, a reduction shows the next event or nothing, a reload
  starts over, everything else stutters).
* `PlacesAgree`: `Spec => []RunSequenceAgrees`, with the places of a transaction's own
  rows (`PendingCounts`): they count on from the committed rows of the run, which
  cannot become more before it commits, as it holds the cursor.
* `CardsFollowTheLog`: `Spec => []CardFollowsLog`. Of the event that the reducer comes to,
  `EventsInv` says that its number is the next one or an old one; an old one is left
  out, and the next one is the last of those up to the new cursor (`ReduceSays`). To be
  inductive it needs that only events come to the reducer while nobody reloads or
  sends a request (`OnlyEvents`), and that a card of which the log says something is
  there (`CardsSay`), as progress shows nothing new on it.

`DemoSessionsProofs` is checked for every finite set of runs, all sets of sessions
and cleaners and all limits, from `DemoAssumption` alone.

* `RowsInvariant`: `Spec => []RowsInv`, the types with `RowsBelongToSession` and
  `LockedRowsStay`, which need each other: ending a listed run writes to its row,
  so it must still be there and belong to the session (`LockedRowsStay`), and
  deleting the active canvas removes every row of the session only if none lies on
  another canvas (`RowsBelongToSession`). A row that is absent is not written by
  any worker, as no worker step is enabled for it.
* `QuotaInvariant`: `Spec => []QuotaInv`. `QuotasHold` alone is not inductive: when a
  window restarts, its counter is 1 only if no earlier run falls into the new
  window. `AdmissionTimes` says that every run was created before the end of the
  current window of its session, so the old ones lie before the new start.
  `FiniteSetTheorems` turns one more admission into one more in the count.
* From them: `DemoTypeCorrect`, `NoRowOutlivesItsSession`, `LocksAreOwn`,
  `QuotasAreKept`.

`SourceIngestionProofs` is checked for all sets of handlers, keys, URLs, wordings,
texts and versions, all periods and bounds, from `IngestionAssumption` alone.

* `SpecFlight`: `Spec => []FlightInv`. `IngestionInv` alone is not inductive: that a
  handler is not ahead of its reservation says nothing of what it holds of it.
  `HandlersFit` adds that a handler at work with the epoch of the reservation
  remembers its deadline, and one with an older epoch a deadline at least one lease
  earlier; and that it has in hand a document for what its key was asked for.
* `OneSource`: `Spec => []OneSourcePerKey`. It is inductive over `FlightInv`: only a
  fenced handler adds a source, a running reservation has none yet, and settling
  it ends the fence of every handler.
* `HitsTrue`: `Spec => []HitsAreTrue`, from an invariant that carries the same
  statement back from the sources to the handlers and to the cache (`TruthInv`): a
  handler on its way has as many hops behind it as it counts (`OnItsWay`, extended by
  `OneHop`), the document in its hand says the truth (`HandTrue`), and what is in the
  cache was retrieved for some source at that very URL. `SourcesTrue` says of the
  sources what `HitsAreTrue` does, and of those made from texts that they have no
  URL, so that the source behind a cache row was one that had been asked for by URL.
  Any number of redirects is allowed; answers and chains once served stay (`HopsStay`).

`PatchReviewProofs` is checked for every graph, log, request and bound.

* `ReviewsFit`: `Spec => []ReviewInv`. `OneRunPerKey` says that a patch is generated
  anew once; it holds because `Regenerate` wants a pending patch, so the invariant
  adds that the parent of a run is decided (`ParentsDecided`), and that patches are
  records of runs (`PatchesFit`). `Steps` sorts all steps by what they do to runs and
  patches, so that graph, contexts and contracts need not be looked into.
* From it: `OneRun` and `DecisionsStay`.

`CanvasGraphProofs` holds what is true of graphs of any size, and no theorem about a
specification. `NatInd` and `SubsetInd` are induction as facts about *sets* (a set
with 0 that is closed under the next number has them all), which the provers can
use; a recursive function is shown to exist by them (`SubsetRecursion`,
`SearchExists`) and then followed step by step.

* `ReachableIs`: the breadth-first search yields the least set with the roots that is
  closed under the arrows. Its rounds are as many as there are arrows; a round that
  still finds something has used one arrow more, so the last one finds nothing.
* `ListedOnce`, `DrawnOnce`: an order by rounds names everything once as long as every
  remainder has something that may come first, and never what no round can begin with.
  So a patch that can be ordered has no cycle, and its parts can be ordered, too
  (`InOrderOnce`).
* `HandleFits`: each of the ten handlers leaves a graph that fits (`GraphFits`: whole
  rows, and what the database enforces) or refuses, and never itself changes the
  version of a node that the operation turns stale afterwards. `CommittedFits` adds
  the marks: a row takes one step, whichever of the two it is.

`PatchGraphProofs` is checked for every graph at the start that the database admits
(`GraphAssumption`), every set of requests that the schemas admit
(`RequestAssumption`), all bounds, and `ContextAssumption`, `ContractAssumption` and
`ReviewAssumption`.

* `GraphInvHolds`: `Spec => []GraphInv`, which is inductive. It needs all of its parts
  at once: that the rows fit and no edge dangles (`GraphFits`); that the contexts of
  runs fit (`RunsFit`); that stored patches are what their runs assembled from a draft
  that met the contract, and are well-formed (`PatchesStored`); that the log tells whose
  each operation is (`LogFits`) and says nothing twice (`OperationsOnce`); the decisions
  (`PatchesDecided`, `DecisionsSound`); and where successors come from (`FromKnown`),
  which types the rows. Without `PatchesStored` an applied patch could add an edge to a
  node that is nowhere: the preflight looks at single references, and that a skipped
  operation takes all that rests on it with it helps only because every reference to
  the patch is also a dependency (`AcceptedRests`). TLC checked `GraphInv` on the
  small canvas before it was proved. `Transitions` sorts the steps.
* From it: `GraphStaysConsistent`, `NothingIsDoneTwice` (the operations of a patch get
  as many revisions as it has accepted ones, since `InOrderOnce`: the order in which
  they are applied has each once), `ContextsAreSound` (`FrozenFits`: nothing optional
  gets in that is stale or rejected, and the request fits the budget), `TypesHold`.
* `DecisionsHoldTogether`: no part of a regeneration group is applied without the rest.
  Skips go to the groups once, and from them to what rests on them once. It suffices,
  for patches that a draft leads to: the lineage and the clones of a group rest on its
  successor and on each other alone (`GroupNeeds`), so whatever reaches a group from
  elsewhere reaches the successor first, and with it the rest (`GroupsWhole`).
* `VersionsAreRaisedOnce`, `SuccessorsStandBeside`: the action properties, from the same
  invariant.
* `ChangesTurnDependentsStale`: the staleness that capture, handler, resolution and
  marking leave together is that of the definition in the documents, on graphs with
  cycles and of any depth. `Descent`, the definition, walks from node to node and knows
  nothing of the search; `BelowIs` shows that both find the same. An edge that is
  deleted matters only as a way into the root of the search (`ReachedWithout`), and the
  claims of a rejected source are on the way from it (`ReachedThrough`).

Only model-checked: `EveryRunSettles`, `EveryEventShown` and
`ExpiredSessionsDeleted`, since liveness under fairness and ENABLED are beyond the
prover. Every invariant and every action property of the passing runs has a theorem.
The runs that end in a violation state what does not hold.

## 5. Plan

Written, in the order of importance: the queue, the events, the demo, the graph with
its contexts, patches and reviews, and source ingestion, each with its proofs. What is
left, in this order:

1. `ResearchCache`: the cached research queries beside the stages that ask them.
2. The web client's review of a patch beside the events of its run.

## 6. Not modelled

* Of graph operations: titles, bodies, positions and the rules for metadata fields
  (`operations.py:124-326`), which refuse a request before it changes anything.
* Of patch application: the branches for updates, moves and deletions (see 2.4), the
  comparison of what a regeneration must leave alone with itself afterwards
  (`_validate_regeneration_preserved`; `SuccessorsParallel` states what it guards), the
  locks of single rows within a locked canvas, previews and serialization.
* Of the stage contracts: critique, text, the boundaries on intellectual property
  (`pipeline_schemas.py:772-880`) and `retention.py`; pure checks of wording.
* Cached research queries (`research_cache.py:24-120`), used only by the adapters.
* Of the retrieval of a page: host addresses, time-outs, sizes and decoding
  (`secure_sources.py`), by outcome only.
* Providers and adapters (calls to outside services, by outcome only), fixtures and
  composition (wiring), text functions (`clustering`, `strategies`,
  `source_identity`), evaluation and telemetry (offline, sequential).
