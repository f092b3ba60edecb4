# TLA+ verification of NewSSI

This directory models the parts of the platform where its own concurrency and
failure handling live - chat runs, the idempotency of requests, the web client's
chat tab and document panel, and the connector syncs - checks them with TLC on small
instances and proves the properties that matter most with TLAPS for instances of
every size.

Paths below are relative to the repository root; `chat_runs/` stands for
`apps/agent-service/src/service/chat_runs/` and `registry` / `event log` for
`redis_run_registry.py` / `redis_event_log.py` in
`apps/agent-service/src/infrastructure/runtime/chat_runs/`. Files of the web client
are named without their directories under `apps/web/src/`; `PROJECT.json` has every
path in full, and the lines of every definition.

1. [The system](#1-the-system)
2. [Modules](#2-modules)
3. [From code to model](#3-from-code-to-model)
4. [Runs](#4-runs)
5. [Fairness](#5-fairness)
6. [Where docs and code disagree](#6-where-docs-and-code-disagree)
7. [Proofs](#7-proofs)
8. [What is not modelled](#8-what-is-not-modelled)
9. [Plan](#9-plan)

## 1. The system

NewSSI is a platform of Python services (agent-service, rag-service,
tools-service, user-service), shared Python packages and a Next.js web client. Its
core is the *durable chat run*: a message sent to a chat thread starts a run on
one agent-service process; the run's output goes to a Redis stream; any number of
viewers follow the stream through any process, drop, come back and replay; a run
survives its HTTP connection, and the loss of its process is noticed and told to
the viewers. Around it stand the tab that sends, follows and stops runs and keeps the
conversation they make; the documents that user and agent write together; and the
syncs that fill the collections the agent searches.

| Component | State | Operations | Talks to |
|---|---|---|---|
| **Run registry** (`registry`) | per thread a lock naming a run; per run a hash (status, started/finished), a lease with TTL, a cancel flag; the set of running run ids; per request a stop mark | `try_acquire`, `renew_lease`, `mark_terminal`, `release`, `has_live_lease`, `get_active_for_thread`, `request_cancel(_for_request)`; the first four are Lua scripts | Redis |
| **Event log** (`event log`) | per run a stream of entries with id `0-seq` | `append` (refused at or below the last id), `last_seq`, `read_after`, `expire` | Redis |
| **Supervisor** (`supervisor.py`) | per process: `_runs`, `_accepting`, and per run `last_seq`, `stop_reason` | `start`, `_drive`, `_finalize`, `_abort_start`, `_heartbeat`, `cancel`, `shutdown` | registry, log, the agent's generator |
| **Orphan closers** (`orphans.py`, `reaper.py`) | the orphan at hand | `finalize_orphan`, `close_event_log`, `reap_once` | registry, log |
| **Service facade** (`service.py`) | none | `start_and_subscribe`, `cancel_active`, `open_events` | supervisor, registry, reader |
| **Event reader** (`reader.py`) | cursor, last heartbeat | replay, live tail, resync, synthetic end | log, registry |
| **Web client** (`resumableChatStream.ts`) | run id, last seq delivered, floor, failure counter | follow, attach again, give up | HTTP endpoints |
| **Idempotency middleware** (`packages/idempotency`: `middleware.py`, `storage.py`) | per key an owner record; per key and principal a lock and a stored response | `_acquire_slot` (claim, replay, lock, wait, settle), `_execute` (run, free, store, close, release), `_renew_lock_loop` | Redis; in front of every mutating route of the services |
| **Chat controller** (`useChatController.ts`, `chatRunTracker.ts`, `currentMessageFIFO.ts`, `useActiveRunRecovery.ts`) | per session `chatState` and an `AbortController`; per tab the settled runs, the streamed one, whether an attach is under way; per submission a packet queue | `onSubmit`, `attachToActiveRun`, `sendAfterOwnRunEnds`, `stopGenerating`, the lookups of load, focus and network | chat endpoints, conversation tree |
| **Conversation tree** (`messageTree.ts`) | per session the messages, each with its children and the latest of them | upsert, chain, latest child, clearing of errors | chat controller, the version switch |
| **Document panel** (`useDocumentPanelStore.ts`, `EditTab.tsx`, `useRevisionActions.ts`) | the document and draft in view, the newest draft known, the unsaved edit, a held question | open, close, view, edit, save, overwrite, restore, refresh | authored documents, the chat's cards |
| **Authored documents** (`service/authored_documents/service.py`, `authored_document_repo.py`) | per document the head and its drafts; the rendered files | `save_user_edit`, `restore`, the agent's edits: `_head`, `_prepare`, `_commit` | SQL, object store, renderer |
| **Connector sync** (`packages/connector-py`: `sync.py`, `scheduler.py`; the agent service's stores and `rag_destination.py`) | per job a row with status and heartbeat; per datasource a checkpoint and a collection; per process the jobs it runs | `start`, `_execute`, `_sync`, `_heartbeat`, `cancel`, `shutdown`, `recover_interrupted`, the scheduler's poll | SQL, rag-service |
| Circuit breaker, token keys (`packages/security`) | breaker state; JWKS and its cooldown | admit, record, refresh | remote services |
| Flow runtime (`apps/agent-service/src/agent_composition`) | compiled-flow cache, flow versions | build, invalidate, publish | SQL |
| Per-thread cancel registry (`active_runs_service.py`) | the generators of each thread | register, cancel | supervisor, agents |
| The remaining services, UI, configuration and deployment | see `PROJECT.json` | mostly CRUD, I/O and layout | |

**How they interact.** Nothing is shared between processes but Redis. A send draws
a run id, takes the thread's lock, perhaps finalizes the run it took it from,
writes `run_started`, looks for a stop that was faster, registers the run as live
and drives the agent; every frame is numbered by the driving task and appended
under that number. At the end `mark_terminal` decides *one* winner among the owner,
the reapers and a reclaiming send; only the winner writes `run_end` and `[DONE]`,
and the lock is released with a compare. Viewers read the stream and, when it goes
quiet, ask the registry whether an end is overdue. The idempotency middleware is
independent of all this: it sits in front of a route, and requests with one key
meet in its three Redis records only.

In the tab a submission is a producer (the stream, behind the 409 handling of a thread
that is busy) and a consumer (the render loop), joined by a queue; the tracker keeps an
attach from showing what the tab shows already, or what the user stopped. Every packet
publishes the submission's own copy of the conversation tree into the store. The agent
writes drafts of the documents the user may be editing; both go through the same
conditional append, and the panel learns of the agent's drafts from cards in the chat,
from fetches, and from conflicts.

The replicas of agent-service share the sync jobs of a datasource through the job table:
a partial unique index lets one live job in, a heartbeat tells a sibling that its worker
is there, and a sibling that finds it stale fails the job and runs the datasource again.

**What is hard.** No operation spanning two Redis calls is atomic; a call may take
effect although its caller sees an exception; a process may vanish at any `await`;
an `asyncio` task may be cancelled while its command is on the wire; an event loop
may stall for longer than a lease, so that a run has an owner that does not yet
know it is dead; a stop may come before, while and after the send it is meant for
registers. In the tab every `await` lets the user, another submission or a late answer
in. A sync moves data between two systems that share no transaction, and its worker may
be declared dead while it is only slow. `PROJECT.json` lists these as *hazards*, each at its line and with the
properties that would catch it going wrong.

**What correct means**, component by component:

- registry: one live run per thread; the running set is exactly the set of
  unfinished runs; nobody but the owner acts on a run whose lease may still live;
- event log: seqs without gap or repetition whoever writes; one end, at the end,
  and it tells the status on record;
- supervisor: a completed run has its whole answer in the log; a returned
  `shutdown()` leaves nothing running; a failing step of an ending does not keep
  the thread locked for ever;
- closers: every admitted run is finally finished by somebody;
- stop: a Stop that was accepted takes effect, and only on what it was meant for;
- idempotency: a key serves one principal and one request; a high-risk handler runs
  once; nobody is handed a response made for somebody else; a run that failed does
  not keep its key from the retry;
- reader and client: events in order and once, one end per stream, no viewer
  hangs;
- chat controller: no message is dropped without a word, one stream is shown, a
  stopped run stays silent, the input comes back;
- conversation tree: links fit each other, the answer under way is in view, answers the
  user got can be reached;
- documents: a draft never overwrites one its author has not seen, its file exists,
  unsaved text is not lost unasked;
- syncs: one run works on a datasource, a worker that was replaced stops, success means
  that nothing is missing, no job stays live for ever.

## 2. Modules

| Module | Models |
|---|---|
| `ChatRuns` | registry, event log, supervisor, closers, leases, crashes, failed calls: the composition everything else leans on |
| `RunLifecycle` | abstract: what the subsystem promises about one run, with no lease, process or failure in it |
| `MCChatRuns` | instances of `ChatRuns` for TLC |
| `ChatRunsProofs` | theorems about `ChatRuns` |
| `RunStop` | `cancel_active` against `start`, heartbeat and reaper, one Redis command per step |
| `RunStream` | one viewer: writer, `RunEventReader`, network, `resumableChatStream` |
| `RunStopProofs`, `RunStreamProofs` | theorems about `RunStop` and about `RunStream` |
| `Idempotency` | all requests with one key through the middleware, one Redis command per step |
| `MCIdempotency` | its instances for TLC |
| `IdempotencyProofs` | theorems about `Idempotency` |
| `ChatClient` | one tab on one session: submissions, attaches, stops, lookups |
| `ChatClientProofs` | theorems about `ChatClient` |
| `MessageTree` | the conversation tree under sends, edits, regenerations, attaches, errors |
| `MCMessageTree`, `MessageTreeProofs` | its instance; theorems about it |
| `AuthoredDocuments` | the versioned documents of the agent service, for any number of writers |
| `DocumentPanel` | the document panel of a tab, composed with `AuthoredDocuments` (EXTENDS) |
| `MCDocumentPanel`, `DocumentPanelProofs` | its instance; theorems about panel and documents |
| `SyncJobs` | the sync jobs of one datasource on all replicas |
| `SyncJobsProofs` | theorems about `SyncJobs` |

`ChatRuns` **implements** `RunLifecycle` (`INSTANCE RunLifecycle WITH st <- status,
ev <- the frames of each log`); the refinement is the property
`ImplementsLifecycle`, checked and proved. `RunStream` takes the writer side of its viewer from what
`ChatRuns` is checked for (contiguous seqs, one end last, the record before the
`run_end`, at every step a writer that may die) and `RunStop` keeps of a run's life
only what the two sides of a Stop tell each other; it needs marks and lookups,
which would multiply `ChatRuns`' states without touching its properties. `ChatClient`
takes a run as what its tab sees of it - it holds the thread, and ends - and leaves
drops and replays of a stream to `RunStream`, and what is rendered where to
`MessageTree`.

Definitions marked *mutant* are plausible wrong versions of the definition below
them: each property is shown to fail under one of them, so that none holds by the
shape of the model.

## 3. From code to model

**Atomicity.** A Lua script, and every single Redis command, is one step; so is the
code between two awaits, joined with the reply it reacts to.

### ChatRuns

| Model | Code |
|---|---|
| `lock`, `lease`, `status`, `running`, `flagged` | the keys of `keys.py`; a run id is used once, so a run *is* its id |
| `log[r]` | the stream, entries `[seq, frame]`; `run_end` is written as the status it carries |
| `pc[r]`, `owner[r]` | where the task that starts, drives and finalizes `r` is, and its process; `LivePc` is membership in `_runs` |
| `lastSeq[r]`, `sent[r]` | the task's own counter, and the append handed to the pipeline |
| `reason[r]`, `outcome[r]` | `stop_reason`; the status `_drive` hands to `_finalize` |
| `closer[r]`, `closedBy[r]`, `closeSeq[r]`, `attempt[r]` | the one task that won `mark_terminal` and is in `close_event_log` for `r` |
| `mode[i]`, `snapshot[i]`, `reaping[i]` | `_accepting` / `shutdown()` of a process, the runs it drains, its reaper's current orphan |
| `Reply` | how a call ends: answered, applied but answered with an exception, failed without effect |
| `upsets` | bound: everything that disturbs a behaviour is paid from one budget |

Actions follow the code: `Acquire` … `Register`, `AbortMark`, `AbortRelease` are
`start` and its rollback; `Emit`, `Land`, `AgentEnds`, `DriveCut`, `FinalMark`,
`FinalRelease` are `_drive` and `_finalize`; `CloseRead`, `CloseAppend`,
`OrphanRelease` are `close_event_log` and `finalize_orphan`; `ReaperFinds`,
`ReaperMarks` the reaper; `Heartbeat`, `StopLocal`, `RequestCancel` the stops;
`LeaseLapses` the TTL; `Shutdown`, `ShutdownStops`, `ShutdownReturns`, `Exit`,
`Crash`, `Restart` the process.

Choices a reader should know of:

- An append is two steps, `Emit` (numbered and handed to the pipeline) and `Land`.
  A task cancelled in between leaves its command on the wire; it lands later or is
  dropped, also after its process is gone. That is the zombie `close_event_log`'s
  read-append-retry is written for.
- A lease lapses freely once no task attends to its run. Under a live task it takes
  an upset (a stalled loop, Redis out of reach), and then every interleaving of the
  zombie with reaper and reclaimer is explored.
- `ReaperFinds` joins the read of the running set and `has_live_lease`: between the
  two only the set may shrink, and `ReaperMarks` happens arbitrarily later.
- Key lifetimes other than the lease are left out: a key outlives everybody who
  still uses it (hazards list where this matters).

### RunStop

`marked` and `flagged` are the request mark and the cancel flag; `call[s]` walks
through `cancel_active`: local cancel, mark, lock, hash, lease, record, flag, one
command each. `CheckMark` and `CheckFlag` are `_stop_requested_before_start`.
`later[s]` remembers the sends that did not exist when the Stop was answered. A
run stands for its send, so its id is also its `client_request_id`; there is one
thread, the only thing a Stop addresses.

### RunStream

The writer only `Emit`s, `Finish`es, ends and signs off, or dies; `XAdd` trims as
`MAXLEN ~` may (never below the maximum, not necessarily to it). The reader is
`_stream`, `_synthetic_end` and `_log_ends_with_run_end` with their awaits as
steps; the client keeps `delivered`, `floor`, `failures`, and attaches from 0 (web
client) or from `Last-Event-ID` (the endpoint's other way). `grace` is "two
heartbeats after `finished_at` are over".

### Idempotency

One key, for the requests of a key share no record with those of another.

| Model | Code |
|---|---|
| `owner` | `IdempotencyKeyOwner`: `who` and `what` are `principal_scope` and `request_fingerprint`, `completed` is `completed_without_replay`; `by` is history, who wrote it |
| `cached[p]`, `lock[p]` | `_response_key` and `_lock_key`, which contain the principal's scope; a lock's token is the request that drew it |
| `policy` | what of `IdempotencyPolicy` matters here; `optional_replay` and `required_replay` differ in `_key_is_required` only |
| `pc[r]` | the await `r` is at; `existed` is `owner_existed` of `_claim_ownership` |
| `answer[r]`, `source[r]` | the outcome; for a replay, whose response it is |
| `ran`, `freed`, `waited`, `repeated`, `lapsed` | history: whose handler was called under the lock, who deleted the owner record, who waited, who was started over a stored response, whose lock lapsed |

`GetOwner`, `Claim`, `CompareOwner` are `_claim_ownership`; `ReadCache`, `TakeLock`
the rest of `_acquire_slot`; `Wait`, `RecheckOwner`, `Relock` `_retry_after_wait`;
`SettleOwner`, `SettleCache`, `GiveBack` `_settle_after_reacquire`; `HandlerEnds`,
`FreeKey`, `StoreResponse`, `MarkCompleted`, `Release` `_execute` with what it calls.

- A handler's result is one of the five classes that `_execute` and `_finalize` tell
  apart. `stored` is a cacheable 2xx of bearable size; 4xx are never cached, for no
  route sets `cache_deterministic_client_errors`.
- A Redis error on the way to the lock answers 503 or runs the handler unprotected
  (`RunBare`), by policy. Behind the handler it replaces the response, except in the
  two quiet steps.
- The renewal is modelled by its failure: a lock cannot lapse under a request that
  holds it but for an upset (`LockLapsesUnderHolder`), and does so freely once its
  request is over or dead (`LockLapses`).
- A poll of `wait_for_lock_and_get` that finds nothing changes nothing; the model has
  the one that finds a response and the last one.
- Records live for a day (`idempotency_ttl`) and do not expire here; a request that
  is cancelled by its client is a `Crash` whose lock goes early.

### ChatClient

| Model | Code |
|---|---|
| `active`, `ended` | the run that holds the thread, and those that are over; a run is named after the send it belongs to |
| `chatState`, `controller` | the session's entry in `useChatSessionStore`; whose `AbortController` it is |
| `settled`, `streamedKey`, `attaching` | the `ChatRunTracker` of the page |
| `found` | runs that a lookup has reported and nobody has acted on yet |
| `producer`, `error`, `attempt`, `pushed` | `sendAfterOwnRunEnds` over `resumableChatStream`, pumped by `updateCurrentMessageFIFO` |
| `queue`, `consumer`, `aborted` | the packet stack, the loop of `onSubmit`, the abort signal |
| `typed` | the input bar (`AppInputBar`) holds a text the last send did not take along |
| `frozen` | the tab's event loop spins: see section 6 |
| `kept`, `refused`, `overtyped`, `stopped`, `crossed`, `late` | history, for the properties |

A submission is a call of `onSubmit` that gets past its early returns; a send among them is
a new message, an edit (a resend target with a new text) or a retry (a regeneration, or the
same text once more, which stands in the tree). Which of the three it is matters only when
another device's run refuses it (`Refused`, 1354-1361): the tree is put back, and with it
the message of a retry; a new message goes back into the input bar if that is empty
(`AppInputBar.restore`); an edit goes nowhere.

`Submit`, `AttachToActiveRun` are `onSubmit` up to its first await; `SendAccepted` to
`StreamBreaks` the producer; `Render` to `Return` the loop's turns and its ways out;
`Stop` is `stopGenerating`; `Type` and `Erase` are the user at the input bar while a send is
under way, the Enter included that empties it and is then turned away. `Discover` joins the lookups, which differ in their trigger
only, and `AttachToActiveRun` may act on an answer any time later.

### MessageTree

`tree` is the session's `messageTree`, `turn` the submission under way with the tree it
works on (`currentMessageTreeLocal`) and the one it began with
(`messageTreeBeforeTurn`). `Link`, `Put`, `Upsert`, `Chain`, `SetAsLatest` are
`messageTree.ts`; `WithoutError` is what `onSubmit` does to an error at the end of the
chain. `Send`, `Edit`, `Regenerate`, `Attach`, `Publish`, `Finish`, `Fail`, `PutBack`
are the ways in and out of a turn; `SelectMessage` is the version switch, which works on
the store while the turn works on its copy. Node ids are fresh timestamps in the code,
and fresh model values here.

### AuthoredDocuments and DocumentPanel

`head`, `drafts`, `files` are the document row, its revision rows and the object store.
A write (`request[r]`) is checked (`Check`, `Prepare`), then committed by a conditional
`UPDATE` and `INSERT` in one transaction (`Commit`, `CommitConflict`), and may fail at
each step or be answered with an error although it is done. `panel` is the store of the
panel field by field; its operators have the names of the store's actions
(`OpenDocument`, `SyncHead`, `RevisionPublished`, `MarkConflict`, `RebaseDraft`,
`DiscardDraft`, ...). `saving` belongs to the mounted editor and is forgotten when it
leaves the screen, as React state is; the answer still comes. The confirmation dialog is
modal. A text is a number, new with every `Type`; what counts is whether it is the
original, the one sent, or another.

### SyncJobs

| Model | Code |
|---|---|
| `row`, `fresh`, `checkpoint` | `connector_sync_jobs` (status, whether the heartbeat is younger than the stale time) and the saved sync state |
| `chunks` | the collection: pairs of a record and the job that wrote it (0 is an earlier sync) |
| `up`, `active`, `sched`, `orphan` | a process, its `_active` slot of this datasource, its scheduler's round of recovery |
| `pc`, `host`, `victim`, `at`, `verdict`, `attempt` | a job's task: stage, process, the dead job it replaces, records acknowledged, final status, writes of it |
| `mode` | the combinations of `VALID_SYNC_COMBOS` |
| `silent`, `overrun` | history: whose worker missed the stale time; batches written after the end on record |

`ListActive`, `FailVictim`, `Create` are `start` (with `_claim_connection` and
`create_exclusive`); `Execute` to `StoreFinal` are `_execute` and `_sync`; `Heartbeat`
is `_heartbeat`; `RecoverFinds`, `RecoverFails`, `Resume` the recovery of the scheduler's
poll; `Cancel`, `Stop`, `Restart` cancel, shutdown or crash, and the orchestrator.

- A record is a batch, so that "the batch in flight" is one step. Records of rag-service
  are replaced under their key in one call (`replace_records`).
- Time is one bit per job. It lapses freely over a job nobody works on, and with an
  upset over one whose worker stalls: that worker is a zombie from then on, and every
  interleaving with its successor is explored.
- A live status is written over a live one only (`UpdateLive`); a terminal status is
  written whatever the row says. Which of the two a call makes is the code's choice and
  decides what a zombie can do.
- A shutdown leaves its jobs as they are on record, like a crash; both are `Stop`.
- `cancel` reaches jobs of its own process only: a deletion looks the job up in
  the `_active` of the process that serves the request (`datasource_service.py:545-547`).

## 4. Runs

`tlc -config X.cfg M` in this directory; the states are distinct ones.

| Run | Instance | Question | States |
|---|---|---|---|
| `handover` | 2 sends of 1 thread, 1 process, 1 frame, 2 upsets | Do lock, lease, running set, stream, record and shutdown stay consistent while two sends, a reaper, finalizers and a restart work on one thread? | 1.2 M |
| `closers` | 1 send, 2 processes, 2 frames, 4 upsets | Does the stream stay whole while owner, zombie and two reapers race for it, and is what viewers see the abstract life of a run? | 0.7 M |
| `recovery` | 2 sends, 1 process, 1 frame, 1 upset, fairness | Is every admitted run finished and every thread unlocked, wherever the upset strikes? | 0.1 M |
| `stop` | 2 sends, 2 processes, 1 Stop, fairness | Do mark, lookup, early check and flag ever miss each other; does a Stop take effect, and on nothing else? | 0.36 M |
| `stream` | 4 events + end, `MaxKept` 2, pages of 2, 2 failed attempts in a row, 3 drops, fairness | Does a viewer see each event once and in order, one end per stream, and never hang? | 50 k |
| `idempotency` | 4 requests (two duplicates, another payload, another principal), 4 policies, 1 upset | Is a key bound, a handler run once, a response replayed to its own only, a failed run's key free again? | 2.3 M |
| `chat_client` | 2 submissions and a run of another device, 2 attempts, 1 packet, fairness | Is no message dropped (but a refused edit, and one typed over), one stream shown, a stopped run silent, the input given back? | 0.58 M |
| `message_tree` | 6 messages | Do branches, errors, stale publications and version switches leave links sound and answers reachable? | 19 k |
| `documents` | 2 documents, 2 writes of the tab, 1 of the agent, 1 typed text | Is no draft overwritten unseen, no file removed, no head invented, no text lost unasked? | 1.1 M |
| `documents_late_save` | the same with 2 typed texts | Does the panel never lose a text? **violated** | |
| `sync_jobs` | 2 replicas, 2 jobs, 2 records, 1 attempt to store the end, 1 upset, all modes, fairness | Does one run work at a time, a replaced worker stop, a success mean whole, every job end? | 0.13 M |
| `sync_retire` | the same, overwriting runs | Does what is searchable stay so during a sync? **violated** | |

**Why these bounds.** One thread is enough for everything about locks: scripts touch
the keys of one thread and one run. Two sends give a reclaim (a third would reclaim
from the second as the second did from the first) and two processes give every
closer a rival that survives a crash. Two upsets are what the bad cases take: a
lease that lapses under a live task *and* a failing call of whoever takes over, or
a crash in a recovery from another. The run on one send affords four: zombie, lost
reply, crash and a stop together. One frame exposes an append on the wire at the end
of a run; two distinguish a gap from a missing tail. `MaxAttempts = 2` (3 in the
code) reaches both the retry and giving up. In `stream`, four events with pages of
two give a full page, a partial page and an empty read; keeping two makes a slow
viewer fall behind. In `idempotency`, two duplicates make owner and waiter, the other
payload and the other principal are the two ways to conflict, and either can come
first; one upset is a lost claim, a lapsed lock under a handler, a failed delete or a
crash, against every interleaving of the others. The policies are those in use: keys
optional or required, `domain_required` with and without `rerun_after_failure`.

In `chat_client`, two submissions make every pair that can overlap (a stopped one that
still winds down, and the next), and the foreign run is what a 409 or a lookup may
report; one packet makes a queue that is empty, filled, drained, or left full by a Stop
(more repeat this); two attempts reach the wait and giving up (10 in the code). Six messages are three turns:
an error, a branch beside it, and one more below either. In `documents`, two documents
are what an answer can be misdirected between, and two writes of the tab against one of
the agent make a conflict, its overwrite, and a restore that is retried; losing a text
takes a second one. In `sync_jobs`, the second job is the successor a zombie meets; two
records tell a resumed run from one that starts over; the one upset is the silence that
makes a zombie, or a crash, cancel, shutdown, lost reply or failure anywhere; with one
attempt that upset also reaches giving up. What more of each would do is left to the
theorems, which hold for all bounds.

Runs and processes are interchangeable, as are requests, documents and nodes of one
kind, so the safety runs use symmetry where their configuration says so; the liveness
runs do not.

**What each property says** is stated above its definition. Those that take several
actors to violate:

- `OneLiveRunPerThread`: acquire, lapse, reclaim and late release of one thread.
- `OrphanHasNoLease`: reaper and reclaimer act on a check made several awaits ago.
- `LogContiguous`, `LogEndsOnce`, `EndTellsStatus`, `CompletedIsWhole`: three kinds
  of writer, each with its own counter, one of them already fenced.
- `DrainedIsIdle`: a start under way when `shutdown()` takes its snapshot.
- `StopNotLost`, `StopTakesEffect`, `NoStrayStop`: the race of Stop and send.
- `WellEnded`, `DoneIsWhole`, `NoGapNoRepeat`, `StoppedOnce`, `EventuallySettled`:
  reader and client against a writer that trims, ends late, or dies.
- `DomainRunsOnce`, `KeyBindsOneRequest`: racing claims, lost replies, lapsed locks.
- `HandlerHoldsLock`: the late release of a request whose lock is another's by now.
- `NoForeignReplay`: a key freed and bound anew while an old response is still stored.
- `WaiterNeverRepeats`, `FailureFreesKey`: what a request saw before it had the lock,
  and what a run leaves behind.
- `OneStream`, `StoppedStaysSilent`: the tail of a submission under the next one, and an
  attach on a lookup that was asked before the stop. Both except what happens after one
  submission ended in the middle of another's stream (`crossed`, section 6).
- `MessageKept`, `SubmissionEnds`: refusals, attempts, aborts and errors, in any order,
  with the user typing meanwhile. `MessageKept` excepts what the code drops (`Dropped`): a
  refused edit, and a refused new message if the user typed something else under it or two
  streams crossed; `SubmissionEnds` excepts the frozen tab (section 6).
- `WellLinked`, `AnswersKept`, `TurnInView`: two trees, the turn's and the store's,
  published over each other.
- `NoSilentOverwrite`, `KnownHeadExists`, `FilesKept`, `TextKept`: answers that come late
  or to another document, races with the agent's writes, replies that are lost.
- `OneWriter`, `ZombieStops`: start, recovery and heartbeat of two replicas around a
  worker that was silent; every write of a zombie behind its end is counted.
- `SucceededIsWhole`: interruptions, resumed checkpoints and retirement by version, up to
  the success on record. It excepts an overwriting datasource with a silent worker, where
  it is false (section 6).
- `EventuallyEnded`: whoever dies, somebody puts the job's end on record.

Every detailed module states a type invariant, which is a theorem, for all instances,
rather than a question of a run.

Deadlock is checked in the runs of `ChatRuns`, `Idempotency` and `DocumentPanel`:
`Settled` is the only way to stop in the first two, and a panel always has something to
do. `RunStop`, `RunStream`, `ChatClient`, `MessageTree` and `SyncJobs` really stop, when
the sends, the viewer, the submissions, the ids or the jobs of the instance are used up.

## 5. Fairness

- Tasks: weak fairness on what a started task does next (`StartStep`, `DriveStep`,
  `CloserStep`, `Land`). An event loop runs its ready tasks; Redis calls have
  timeouts; `DriveCut` belongs to `DriveStep` because `max_duration` ends every
  agent, so a run's end is not an assumption about agents.
- `LeaseLapses`: a TTL runs out if nobody renews it.
- `ReaperStep`, `Restart`: the reaper is a loop with a pause, whose body swallows
  exceptions (`reaper.py:39-50`, `_loop`), and the orchestrator restarts a process. Nothing
  is assumed about upsets, stops or heartbeats.
- `RunStop`: the agent's end is *not* fair there; a Stop must work on an agent that
  never yields. Heartbeats tick, and a recorded stop is followed by a hard cancel
  after its grace.
- `Idempotency` assumes no fairness: its properties are safety.
- `ChatClient`: timers fire, requests are answered or fail (`Produce`, `Consume`), and
  runs end (`RunEnds`: the supervisor's time limit, `recovery`). Nothing is assumed about
  the user, other devices or lookups.
- `SyncJobs`: tasks go on (`TaskStep`: calls have timeouts), the stale time passes over
  jobs nobody works on, and in every process the scheduler polls or is started again.
  Nothing is assumed about heartbeats, failures, silences or cancels.
- `MessageTree` and `DocumentPanel` assume no fairness: their properties are safety.
- `RunStream`: readers poll, clients retry, closers go on unless they die. Strong
  fairness on `GraceElapses` only: time passes also while a reader is busy asking
  again and again, and the model lets the clock tick only between two lookups.

## 6. Where docs and code disagree

Two runs show the disagreements with the worst outcome.

1. **`documents_late_save` / `NoTextLost`.** `useDocumentPanelStore.ts:17`: "The user's
   unsaved edit. Lives here so no remount or tab switch can lose it." `EditTab.save` sends
   the text it read before its await (81-89) and on success discards whatever edit there
   is by then (93). The editor stays writable meanwhile; what the user types between the
   click and the answer is gone, and in no draft. The answer is not tied to its document
   either: with another one open by then, its edit goes. `TextKept` shows that nothing
   else loses text.
2. **`sync_retire` / `StaysSearchable`.** `apps/agent-service/docs/runbook.md:173-178`: the
   previous version "stays searchable the whole time" an overwriting sync runs, and
   119-124: a worker that comes back after its job was declared dead leaves at most "the
   batch in flight". It may also be at `finalize` (`sync.py:602`), which nothing guards:
   it retires every chunk of another job (`retire_other_runs`,
   `apps/rag-service/src/documents/service.py:224-252`), with them what its successor has
   written in place of the previous version.

The models also reproduce the following, which no run is spent on. Those marked *bound*
need a constant of the model changed.

- `apps/agent-service/docs/api.md:305-306`: sends answered 503 "never leave a dangling
  lock". An acquire whose script ran but whose reply was lost is answered 503 without
  rollback (`supervisor.py:114-120`), and `_abort_start` (177-189) stops at its first
  failing step. The thread refuses sends until the lease lapses; `EventuallyUnlocked`
  shows that this ends.
- `chat_runs/service.py:99-103`: "a Stop is never lost to the gap between the send being accepted
  and its run being registered". If the early check fails (`supervisor.py:159-162`) the
  mark is not looked at again: with `CheckMayFail = TRUE` (*bound*) `StopNotLost` fails.
- `reader.py:114-115`: "a client never sees two" ends. `_log_ends_with_run_end` looks at
  the last entry only; a `[DONE]` that lands after the grace hides the `run_end` before
  it: with `Stalls = TRUE` (*bound*) a stream tells its end twice.
- `docs/idempotency.md:40-41` promises that a duplicate "replays the cached response when
  replay is safe". A first acquisition reads the response (`middleware.py:389`), takes
  the lock (408) and runs, without reading again under the lock as the settling of a
  waiter does (562-565): a duplicate that read before the original stored and locks
  after it released runs the handler again. `domain_required` is safe (`DomainRunsOnce`).
- `middleware.py:50-52`: "A rejected request must not hold the key's owner record". Under
  `domain_required` a 401 / 403 deletes it (693-694) and `_record_completion` (747-758)
  writes it anew, completed. Under replay it stays deleted (`FailureFreesKey`).
- Chat controller: a Stop that finds packets queued makes the render loop spin without
  yielding (`Freeze`); the tail of a stopped submission puts the session to "input"
  over the stream of the next (`crossed`).
- `useChatController.ts:219-220`: `restoreInputBar` "Puts a message the server turned away
  (409) back into the input bar". It is called for new messages only (1359): the text of
  an edit refused by another device's run is gone, with a toast. And it fills an empty bar
  only (`AppInputBar.tsx:117`, 197): if the user has typed something by then, it is the
  refused message that is gone. `MessageKept` excepts both, and nothing else but crossed
  streams.
- Every send empties the input bar, an edit or a retry too, whatever was being written
  there (`useChatController.ts:931-932`); and Enter while an answer streams empties it
  before `onSubmit` turns the message away (`AppPage.tsx:692-693`). What was only typed is
  outside `MessageKept`.
- Conversation tree: when regenerating fails, the user message is written anew without
  its children, so the earlier answers are out of reach in the tab; clearing an error
  removes the user message and with it all versions of its answer. `AnswersKept` excepts just
  these two.
- `packages/connector-py/README.md:367-370` and `runbook.md:121`: a worker that was
  replaced ends "without touching the store's verdict". Its final status is
  terminal, and a terminal status is written over any other: a zombie that ends
  before its heartbeat tells it writes `succeeded` over `failed`.
- `sync.py:531-533` and `datasource_service.py:507-510` forget the saved cursors so that
  "no later run continues from them". The checkpoint has no owner: a zombie, or on an
  edit the job still running, saves its own afterwards (`sync.py:588`, `611`).
- A round of recovery whose write is answered with an error after it took effect has
  failed the job and resumes nothing; the datasource waits for its next trigger.

## 7. Proofs

`tlapm M.tla` checks each of the eight modules of proofs, `ChatRunsProofs`,
`RunStopProofs`, `RunStreamProofs`, `IdempotencyProofs`, `ChatClientProofs`,
`MessageTreeProofs`, `DocumentPanelProofs` and `SyncJobsProofs`, in a few minutes at most.
Every theorem is about the module's `Spec`, thus for all sets of runs, threads, processes,
requests, documents, nodes, workers and policies, and all bounds. Every invariant, every
action property and the refinement that the passing runs check is a theorem; what is left
to the runs is liveness.

### ChatRuns

**Assumptions**, all named in `ChatRuns`: `ThreadOfType` (every run addresses a
thread), `BoundsType` (the bounds are numbers), `NoneFresh` and `ActorsDistinct`
(`None`, run ids and process ids are not confused).

| Theorem | Property | For every instance |
|---|---|---|
| `TypeCorrect` | `TypeOK` | the variables have their types |
| `RunningSetCorrect` | `RunningSetExact` | the running set is the set of unfinished runs |
| `OneLiveRun` | `OneLiveRunPerThread` | one live run per thread |
| `OrphansOnly` | `OrphanHasNoLease` | closers other than the owner act on dead leases only |
| `ShutdownDrains` | `DrainedIsIdle` | a returned shutdown leaves nothing live |
| `StreamsContiguous` | `LogContiguous` | the seqs of a stream are 1, 2, 3, ... |
| `StreamsEndOnce` | `LogEndsOnce` | a stream ends once, at its end |
| `StreamsTellStatus` | `EndTellsStatus` | and its end tells the status on record |
| `CompletedRunsWhole` | `CompletedIsWhole` | a completed run has its whole answer in the log |
| `LifecycleImplemented` | `ImplementsLifecycle` | `ChatRuns` implements `RunLifecycle` |

**The argument.** `TypeOK` is not inductive. A task that marks its run needs an
outcome that is a status (`OutcomeKnown`); a task in `finalClose` must be its own
closer (`OwnClose`); a reclaiming send must name a run (`Reclaims`); and what has not
been sent has left no trace in the registry (`Fresh`: an unsent run has no lease, no
lock and no record, and whoever a lock, a reaper or a reclaimer names was sent).
With `RunningSetExact` these make the inductive invariant `Base`.

- *Types*: one lemma per action (`AcquireTypes`, ...), combined by `TypeOKStep`.
- *Steps by effect*: what a step can do to one part of the state is stated once
  and cited afterwards. `LockSteps`: a step takes one thread, frees one, lets one
  lease lapse, or leaves lock and leases alone. `StatusSteps`: it admits one run,
  ends one, or leaves the records alone. `ClosingSteps`, `PrevSteps` and
  `ReapingSteps` do the same for the closers.
- *One live run*: `OneLiveRunPerThread` is not inductive, since nothing in it
  says why an acquire may overwrite a lock. `LeaseHoldsLock` (a live lease comes
  with the lock) is: a take needs a dead holder, and a release frees its own lock
  or none.
- *Orphans*: `LeaseNeverRevives` - a run that is known and has no lease never gets
  one, because only `Acquire` of an unsent run sets a lease. So what a closer checked
  earlier is still so.
- *Shutdown*: `SnapshotCovers` - while a process drains, its live runs are in its
  snapshot, because `Register` is refused once `_accepting` is down (`LiveShrinks`).
- *The streams*: the four properties of the log need each other, and what the counters of
  the writers say of the log, so they are one invariant, `StreamOK`, run by run. A step is
  for each run one of eleven local kinds (`Moves`), and each kind has its lemma. `Numbered`:
  no writer is ahead of the stream by more than the frame it is writing; so the XADD that
  takes a frame takes the next number. `Fenced`: behind an end the run's task and its frame
  on the wire have fallen behind, so a zombie's append is refused - this is what makes an
  end the last frame, not any check of a status. `Staged` and `CloserAgrees`: how far the
  closer is tells whether the stream has ended, and it writes the status on record.
  `Complete`: a task goes for "completed" with nothing on the wire.
- *The refinement*: `st` is `status`, `ev` the frames of the logs. The same eleven kinds
  map each step to the abstract admission, finish, emission or end of one run, or to a
  stutter (`LifecycleStep`); that an emission meets an open stream and an end the right
  status is `StreamOK`.

### RunStop

**Assumptions**, named in `RunStop`: `NoneIsNobody`, `CheckMayFailType`.

| Theorem | Property | For every instance |
|---|---|---|
| `StopTypeCorrect` | `TypeOK` | the variables have their types |
| `AnsweredStopsKept` | `StopNotLost` | an answered Stop that names a send takes effect; needs `~CheckMayFail` |
| `NoStopStrays` | `NoStrayStop` | no run is cancelled by a Stop not meant for it |

**The argument.** `StopNotLost` speaks of answered Stops only. `Pursued` speaks of every
Stop from its mark on: if a run that looked for the mark too early has a live lease, the
Stop will still read the lock or is already after this very run, or the flag is up. It is
inductive because the lock names every run with a lease (`Leases`) and a mark stays
(`MarksKept`): a run that looks after the mark was left sees it. The hypothesis
`~CheckMayFail` is real: a start whose lookup fails takes silence for "no stop" (section
6). `NoStrayStop` needs no hypothesis; it follows each thing that can stop a run - mark,
flag, what start saw, the reason - back to a Stop that is meant for it (`MarksMeant`,
`StopsMeant`), since a Stop acts only on a run that was sent when it looked (`LookedUp`).

### RunStream

**Assumptions**, named in `RunStream`: `BoundsType` (the log's bounds are positive, the
others numbers), `StallsType`.

| Theorem | Property | For every instance |
|---|---|---|
| `StreamTypeCorrect` | `TypeOK` | the variables have their types |
| `EventsInOrder` | `NoGapNoRepeat` | the viewer sees the events in order, each once |
| `StreamsWellEnded` | `WellEnded` | a stream tells one end, then `[DONE]`; needs `~Stalls` |
| `DoneViewersHaveAll` | `DoneIsWhole` | a client that is done has every frame; needs `~Stalls` |
| `AnswersStopOnce` | `StoppedOnce` | the answer is stopped once; needs `~Stalls` |

**The argument.** Order needs only `Place`: an open stream, replaying or not, goes on from
what was shown, and what was shown are the events 1 to `delivered`. The ends need time. The
reader looks at the log, at the record, and at the log once more, and then makes up what
is missing; that fits only if nobody writes between its last look and the client. `Silent`
says that a writer that is overdue has fallen silent, `LooksRight` that the reader's last
look at an overdue run is still true, and `Heard` what the client knows of the end and its
stream has told it. `~Stalls`, that no closer takes longer than the grace the reader gives
it, is the code's own assumption; without it the property is false (section 6).

### Idempotency

**Assumptions**, named in `Idempotency`: `RequestsOfType`, `PoliciesOfType`,
`MaxUpsetsType` (the parameters have their types), `NoneIsNoRequest` and
`NoneIsNoRecord` (`None` is none of the values it stands in for).

| Theorem | Property | For every instance |
|---|---|---|
| `TypeCorrect` | `TypeOK` | the variables have their types |
| `HandlersLocked` | `HandlerHoldsLock` | who is past the lock has it, or it lapsed under this request |
| `RepliesBelong` | `NoForeignReplay` | replays stay with their principal and request |
| `WaitersReplay` | `WaiterNeverRepeats` | a waiter runs nothing that is stored |
| `KeyBinds` | `KeyBindsOneRequest` | one key, one request, until it is given up |
| `RunsOnce` | `DomainRunsOnce` | a `domain_required` handler runs once |
| `FailuresFree` | `FailureFreesKey` | failed runs leave the key free |

**The argument.** A step belongs to one request; `OthersStay` and `OthersKeepLock` say
that it leaves every other request where it is, with its lock. So each property needs
one lemma about a request's own step (`OwnLock`, `OwnReplay`, `OwnWay`, ...) and one
about the shared record it speaks of (`OwnerSteps`, `CachedSteps`).

- `NoForeignReplay` needs `StoredByOwner`: what is stored lies where its maker's
  principal looks, under its maker's fingerprint.
- `KeyBindsOneRequest` needs `Bound`: as long as nobody freed the key, the record is
  there and matches everybody past the claim, not only those who ran. A request gets
  there because it made the record or found one that matches (`OwnPast`).
- `DomainRunsOnce` needs `OneHolder`: who made the record, is past the claim and has
  not freed the key is alone, the record exists as long as there is one, and who found
  an owner never gets beyond looking for a response. A second holder would have to
  find no record while the first is there.
- `FailureFreesKey` needs `Freed`, from the release on, and that only `Claim` and
  `MarkCompleted` of a request write its name into the record.
- All rest on `Way`, what `pc` and the history say of each other.

### ChatClient

**Assumptions**, named in `ChatClient`: `ForeignIsForeign` (the foreign run and `None` are
no submissions), `BoundsAreNatural`.

| Theorem | Property | For every instance |
|---|---|---|
| `TypeCorrect` | `TypeOK` | the variables have their types |
| `ShowsOneStream` | `OneStream` | one stream feeds the answer shown |
| `StaysSilent` | `StoppedStaysSilent` | a stopped run is not rendered |
| `KeepsMessages` | `MessageKept` | no send is dropped but those `Dropped` names: refused edits, refused messages typed over or crossed |

**The argument.** None of the three properties is inductive. `OneStream` needs that the
stream shown is the one whose controller the store holds and that the input is not shown
beside it (`OneShown`): then nothing begins next to it, for every beginning asks for the
input. `StoppedStaysSilent` needs that the tracker knows every stopped run (`Silent`), and
that controller and key belong to one loop (`Stopped`), so that whoever is aborted was
stopped. `MessageKept` needs `Delivered`: what each stage of producer and consumer says of
the send; for the refused ones also `BarKnown`: unless two streams crossed, a text in the
input bar was typed while every send now under way was, so that a message that finds the
bar taken was typed over. `Producing` and `Beginning` hold the stages together, `Bounded` the counters.

### MessageTree

**Assumptions**, named in `MessageTree`: `NodesAreNodes`, `NodesAreFinite` (a session
has finitely many messages), `NoneIsNoMessage`.

| Theorem | Property | For every instance |
|---|---|---|
| `TypeCorrect` | `TypeOK` | every pointer names a node or nothing |
| `StaysWellLinked` | `WellLinked` | parents, children and latest children fit |
| `StaysInView` | `TurnInView` | the answer under way ends the conversation on screen |
| `KeepsAnswers` | `AnswersKept` | no step loses an answer but the excepted failures |

**The argument.** Three invariants, each inductive with those before it.

- *Links* (`IInv`): the store's tree is overwritten by the turn's, and by the one the turn
  began with, so both are well linked too, and the turn's two messages fit into the tree
  it works on however often they are put there (`TurnFits`). `PutLinks`, `UpsertLinks` and
  `WithoutErrorLinks` say what the three changes of a tree preserve; `Fits` is what an
  upsert needs.
- *View* (`Shown`): the latest children of the turn's own tree lead to its messages
  (`Aims`), and that tree is on screen until the user moves. They do, because a turn puts
  its messages below a message of the chain on screen, and a message put anew becomes the
  latest child; putting the turn's messages again changes nothing of that (`AgainAims`).
- *Reach* (`TurnKept`): the turn's tree holds every message of the tree on screen, so
  publishing it loses no answer (`WithinKeeps`); and it holds no more than the tree the turn
  began with and the turn's two messages, so putting that one back after a failure loses
  only what the property excepts (`PutBackKeeps`, `FailKeeps`).

The chain and what is below a node are recursive functions in the model. What they are is
proved by induction, put as the smallest counterexample (`Least`, from the library's
`WFMin`, which takes no operator): the chain is the path along the latest children, with no
node twice, so it ends within the number of nodes (`PathNoRepeat`, `ChainIs`); `Below` is
the least set that holds its top and the children of what it holds (`BelowIs`). This is
where `NodesAreFinite` comes in.

### DocumentPanel and AuthoredDocuments

**Assumptions**, named in the two modules: `NoneIsNoWrite`, `NoneIsNoEdit`,
`AgentWritesAreWrites`, `MaxTypedType`.

| Theorem | Property | For every instance |
|---|---|---|
| `TypeCorrect` | `TypeOK` | the variables have their types |
| `KeepsFiles` | `FilesKept` | every draft's file is in the store |
| `OverwritesNothing` | `NoSilentOverwrite` | a saved draft follows the one its author saw |
| `KnowsHeads` | `KnownHeadExists` | the head and draft the panel shows exist |
| `KeepsText` | `TextKept` | no step loses unsaved text unasked |

**The argument.** The invariant has a part for the service (`DocumentsOK`) and one for the
panel (`PanelOK`), so that a step of either needs one lemma and leaves the other part
alone but for heads that grow (`HeadsGrow`). Files: a file is removed only by a write that
lost its race, and no draft stems from a write that may still commit (`Unwritten`).
Overwriting: a save is based on what its author saw (`Sighted`), because the edit it was
sent from was (`EditFits`: also after a conflict that was meant for another document).
Heads: `Known`, per document, until an answer crosses. `KeepsText` goes through each
operation of the store once: which of them keep the edit.

### SyncJobs

**Assumptions**, named in `SyncJobs`: `BoundsType`, `ModesOfType`, `NoneIsNoWorker`.

| Theorem | Property | For every instance |
|---|---|---|
| `TypeCorrect` | `TypeOK` | the variables have their types |
| `KeepsOneWriter` | `OneWriter` | two runs at once only beside a worker that was silent |
| `StopsZombies` | `ZombieStops` | a replaced worker writes one more batch at most |
| `LeavesWhole` | `SucceededIsWhole` | behind a success no record is missing |

**The argument.** `OneWriter` needs the unique index (`OneLive`), and that a job whose
worker was never silent is live and fresh on record (`Attended`). That in turn needs that
what another process has picked to fail was abandoned or silent, and stays so between the
read and the write (`Named`). `ZombieStops` needs where a worker can be once its job has
ended on record and it has written: it meets `Persist` or is over (`Stopping`).
`SucceededIsWhole` needs what every stage and the checkpoint vouch for (`KeepsWhole`): the
records up to the checkpoint are in the collection, those a run has acknowledged too, and
for an overwriting run in its own version, since it retires all others. `Counted` says how
far each stage has read. With a silent worker beside an overwriting run this chain breaks
at `Finalize`, and so does the property.

### Only model-checked

Liveness under fairness: `EventuallyFinished`, `EventuallyUnlocked`, `StopTakesEffect`,
`EventuallySettled`, `SubmissionEnds` and `EventuallyEnded`. It speaks of `ENABLED`, which
the prover does not handle. The two disagreements of section 6 are counterexamples of TLC.

## 8. What is not modelled

- Key lifetimes but the lease's; the resending of commands by the Redis client (its
  effects equal a lost reply, which is modelled); Redis losing data.
- `on_finished` hooks, metrics, titles and session bookkeeping of a run: they touch
  none of the state above and their failures are swallowed.
- Expiry of idempotency records after a day; validity of keys, fingerprints and the
  matching of policies, which are pure functions in front of the protocol.
- The contents of frames beyond their kind; HTTP authorization of the endpoints.
- The chat tab beyond one mounted page on an existing session: creating a session, file
  uploads, titles, early returns of `onSubmit` (one of them, a resend target that is gone,
  has already replaced the session's controller, 756-784), the files and the structured
  answer to a clarification that go with a message (the latter is not given back after a
  refusal, only its summary), leaving and re-entering the page (`useChatController.ts:1543` works on
  the sessions captured when the page was entered). They need router and capture in the
  state; the hazards list says where they bite.
- Conversation trees loaded from the server, whose root may be a message.
- Creation and export of documents, validation of contents, the comparison of drafts, and
  notices that only display.
- In the syncs: a rag-service call that takes effect long after its caller gave it up or
  died (a failed call either has taken effect by then or does not), the slots of schedules (when a datasource is due, and which replica
  claims the slot), the limit of concurrent jobs, hooks, the reset of checkpoints by an
  edited datasource, and catalogs that mix modes.
- The per-thread cancel registry behind `_local_cancel`.
- The other components of `PROJECT.json`, each with its reason there: some are planned
  below. The bulk of the repository is a user interface - rendering, forms over REST
  calls, translations, vendored editors - and CRUD services, clients of external systems
  and deployment: I/O with little state of their own. That is why the definitions here
  map a small share of the repository's lines.

## 9. Plan

Done: `ChatRuns` and its refinement, `RunStop`, `RunStream`, `Idempotency`, `ChatClient`,
`MessageTree`, `AuthoredDocuments` with `DocumentPanel`, `SyncJobs`, and the theorems of
section 7.

Next modules, the most important first:

1. The schedule slots of the connector scheduler, as a module of their own over the
   claims of `connector_sync_repo`.
2. `Breaker`: circuit breaker with concurrent calls, and the JWKS cooldown.
3. `FlowVersions` and the runtime cache; the cancel registry under `_local_cancel`.
