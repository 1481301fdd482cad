# Cloosphere: TLA+ models of the background-job core

Cloosphere is a fork of Open WebUI (FastAPI server under
`src/backend/open_webui`, product modules under `src/backend/extension_modules`,
a Svelte client under `src/src`). Most of it is request-scoped code around
language models, search engines and databases. Its own hard logic is the
**background work that many server processes share**: a Redis-stream task queue
that runs inside every uvicorn worker, jobs that fan out over that queue and
must be finalised exactly once, chains of such jobs, cron schedules that every
process polls, batch operations whose last task announces the end, files that
threads, handlers and requests work on at once - and the small protocols by
which a user confirms what the server then does once: a command to the page, a
mail, a statement on a database. That is what these modules model, check and
prove.

Paths below are relative to `src/backend/`; `R` = `open_webui/routers`,
`S` = `open_webui/services`, `M` = `open_webui/models`,
`KG` = `extension_modules/knowledge_graph`.

## 1. Inventory

### 1.1 Components with state shared between processes

| component | state | operations | hard part | what makes it correct |
|---|---|---|---|---|
| **Extraction job** (`KG/kb_chunk_worker.py`, `KG/source_sync_worker.py` doc_extract, `R/knowledge_graph.py`, `M/knowledge_graph.py`) | `kg_extract_job` row (status, progress, stats), `kg_extract_state.processed_chunks` | plan, publish, count unpublished; per chunk: cancel check, extract, record, count, claim, finalise, ack/retry/give up; cancel; watchdog | last-one-finalises race of any number of consumers, retries after partial work, publish failing half-way, cancellation and watchdog racing completion | finalised at most once; complete only when all chunks are settled; progress exact; cancelled stays cancelled; every job ends |
| **Task queue** (`S/task_queue.py`; its maintenance is called by `R/configs.py` and `main.py`) | Redis stream, consumer group, pending list, consumers | publish, read, handle, ack, retry, give up, group recreation, reclaim, delete consumer, zombie clean-up, trimming | crash between read and ack, ack failing after success, group lost, maintenance deciding from a stale look | no silent loss, one handler per task, bounded retries, no leak in the pending list, every task ends |
| **Schedules** (`S/scheduler.py`, `S/schedule_worker.py`, `M/schedules.py`, `R/schedules.py`) | `schedule`, `schedule_task` rows, advisory lock | tick (enqueue due, advance, reset stale, cancel orphans), claim, execute, retry, edit, toggle, run now, delete | ticks of several processes interleave, three-transaction delete, stale reset vs. running execution | one task per slot, one runner per task, bounded starts, completed is final, no slot skipped |
| **Knowledge file list** (`S/knowledge_file_delete_worker.py`, `R/knowledge.py`, `M/knowledge.py`) | `knowledge.data.file_ids`, file rows, Redis batch counters | batch removal, counting, claim and announce; additions by requests and by threads, single removal, replacement, auto-heal | read-modify-write of one JSON list, counters in several commands | announced once and after all, exact failure count, no file lost from the list |
| **Link sync chain** (`KG/source_sync_worker.py`) | chained jobs glossary_sync, kb_match, db_derivation, doc_extract; `link.status.doc_entity_map` | request, plan, fan out, count, claim, finalise and start the next phase, match, save, cancel | the last child starts the next phase while others publish; kb_match children of several links rewrite one JSON map | a phase follows only after every child before it; every phase at most once; cancelled does not chain; no match is lost; every sync ends |
| **File processing** (`R/retrieval.py`, `R/knowledge.py`, `S/task_queue.py`) | `file.data.processing_job`, `knowledge_pending`, file list, index collections | process, add, retry, remove, view, poll; the thread; the handler with its time limit | six kinds of requests, a thread and a handler read and rewrite one JSON field without a lock; a time limit stops the handler and not the thread | the status ends terminal; completed means indexed; who is told it was added finds it; every task is announced |
| **UI actions** (`extension_modules/agent/ui_action_tools.py`) | futures per process, one subscription per process | send, answer in any process, time out, cancel | answers that come late, twice, or where nobody has subscribed | no future left by a request that ended; an answer in time is heard |
| **Google actions** (`R/google_actions.py`, `tools/google/inprocess`) | audit rows, a dictionary of locks per process | confirm, replay, call with retries, record | the lock is popped while others wait on it; a call fails after Google acted; a document takes two calls | one process acts once; answers are true; no lock leaks; every request ends |
| **SQL approval** (`S/dbsphere_executor.py`, `utils/dbsphere_approval.py`, `R/dbsphere.py`) | a Redis key with expiry, audit rows | confirm, reject, expire, look up, find orphans, mark them | confirmations and rejections in several processes, a crash between evidence and outcome, a statement that outlives its time limit | applied at most once, never after a veto; the audit log hides nothing |
| Glossary extraction (`extension_modules/glossary/extract_worker.py`) | its own job in `glossary.meta` | SQL extraction, model calls, preview | the worker never compares the id of its job | a worker patches only its own job |
| Filter extraction (`retrieval/filter_extract_worker.py`), KB clone (`S/kb_clone_worker.py`) | batch counters; file list of the copy | finalise a batch; clone file by file | as in the file list | as in the file list |
| Usage pool (`socket/main.py`, `socket/utils.py`) | Redis hash of sessions per model, lock with expiry | join, usage, disconnect, periodic clean-up under RedisLock | lock renewed with `XX` whoever holds it; read-modify-write of the hash | one cleaner at a time; live sessions stay |

### 1.2 How they interact

Producers (`R/knowledge_graph.py`, `KG/source_sync_worker.py`, `R/knowledge.py`)
call `TaskQueue.publish`; every process runs one consumer loop that reads up to
`CONCURRENT_TASKS` messages and runs one coroutine per message
(`start_internal_consumer`). Handlers meet again only in the database (row locks
inside one short session) and in Redis (INCR, SET NX). A queue retry re-runs a
whole handler; a permanent failure calls a second handler that also counts.
The scheduler does not use the queue: its queue is the `schedule_task` table.
The watchdog and the clean-up loop run beside all of it in every process.

The phases of a link sync are queue tasks too; the last of them is the
doc_extract job of the first component. A file's processing is a queue task whose
handler waits for a thread; a success with a knowledge base is followed by filter
extraction. UI actions, Google actions and SQL approval use neither: they meet in
Redis keys, a pub/sub channel and the audit log.

The remaining components (chat streaming, agents, DbSphere, search engines,
authentication, tools, database layer, web client, housekeeping) are listed with
reasons in `PROJECT.json`; they are pure I/O, sequential pipelines, decided by
model output, or generated.

## 2. Modules

| module | models | lines |
|---|---|---|
| `JobBarrier` | abstract: what a fan-out job promises to who polls it (children fixed once, settle in any order, closed only when all settled) | specification |
| `Delivery` | abstract: the life of one queued task (published once, one handler at a time, at most `Limit` retries, given up last) | specification |
| `ExtractJob` | extraction job: both producers, chunk worker, permanent-failure handler, job row, cancel, watchdog | component |
| `ExtractJobInv` | its inductive invariants, and the environments some theorems are for | for TLC and TLAPS |
| `MC*` | instances for TLC with their symmetry sets (chunks, workers, requests are interchangeable; only runs without liveness use them) | model checking |
| `TaskQueue` | Redis stream, group, consumers, retries, maintenance | component |
| `Scheduler` | scheduler loop, worker loop, tables, users | component |
| `KnowledgeFiles` | batch removal, and the other writers of the file list | component |
| `PhaseChain` | abstract: what a chained operation promises (phases in order, each once, the next only after the last was closed, the end told once) | specification |
| `LinkSync` | the four chained phases of a link sync, and the maps their children share | component |
| `FileProcessing` | one file, its requests, threads and handlers | component |
| `UiActions` | commands to the page and their answers | component |
| `GoogleActions` | the confirmation of a mail, an event or a document | component |
| `SqlApproval` | the approval of one statement | component |
| `*_proofs` | the theorems of section 5 about each component, with their inductive invariants; `KnowledgeBase_proofs` is about the two sides of a knowledge base, `KnowledgeFiles` (its list) and `FileProcessing` (one file), which is why these two share no name | TLAPS |

`Delivery` ties the first two components: `TaskQueue` implements it per task
(`TaskQueue!ImplementsDelivery`), and a chunk's position `pc[c]` in `ExtractJob`
implements it too (`ExtractJob!ImplementsDelivery`), so the chunks of the job
module may be read as running on the queue module without composing their state
spaces. Both refinements are proved (`QueueDelivers`, `ChunksAreDelivered`).

### 2.1 ExtractJob

* `job` is the row (`KGExtractJob`); `Incremented`, `Completed`, `Claimable`,
  `Claimed` are the functions of `M/knowledge_graph.py` on it. Each of them is
  one action because each is one session with the row lock held (or one
  statement).
* `stage` is the position of the producer. `Producer = "kb_extract"` is
  `_extract_kb_via_queue`, which after publishing counts what it could not
  publish and tries the claim once more (`CloseKbExtract`); `"doc_extract"` is
  `process_kg_doc_extract_task`, which does not (`CloseDocExtract`).
* `Anchored` are the chunks whose payload names anchors: none for kb_extract, for
  doc_extract those of the files with a glossary match. The worker records the others
  as processed at once (`AfterCheck`).
* `pc[c]` is where the task of chunk `c` is: in the stream, in the handler
  between two awaits, sleeping before a retry, or in the permanent-failure
  handler. A step ends where the code awaits or ends a transaction.
* `recorded` / `stateRow` are `kg_extract_state`; `applied` (ghost) are the chunks
  whose extraction reached the graph; `finals` (ghost) counts the runs of the
  finalisation code.
* `Env` switches on what the environment may do: cancel, watchdog, a publish /
  republish / ack / progress_total / database call that raises, a crash.
  `MaxFaults` bounds how often.
* A crashed consumer's message stays in the pending list of a consumer name that
  nobody reads again (`ConsumerCrash` leaves the chunk `"lost"`).

### 2.2 TaskQueue

`log` is every entry ever added (the entry id is its index), `stream` those not
deleted, `lastId` and `pel` the group, `hand[w]` the phase of each message of
worker `w`'s batch. A worker is one incarnation of a process, because consumer
names contain host and pid. `sweep` is a maintenance call between its look and
its effect (`reclaim_stuck_messages`, `delete_consumer`,
`cleanup_zombie_consumers`). Idle times are abstracted to `Stale(w)`: the
consumer is dead, or (`"slow"`) still in a handler. `outcome` is a ghost.

### 2.3 Scheduler

One schedule; a task is named by its `scheduled_at`, which the code's unique
constraint makes a name. A cron expression with its time zone is the set of the times at
which it fires (`Crons`; one that never fires again is left out, croniter raises for it).
`tick[i]` is the position of process `i` in
`_run_scheduler_tick`, with its copy of the due schedule: a tick is straight-line code
without an await, so the worker and the requests of that process wait (`LoopFree`), but
ticks of other processes interleave at each transaction, because the advisory lock is a
session lock and its session is closed right after it is taken
(`S/scheduler.py:44`). An edit or a toggle is two transactions, the row and its next run;
`renew[i]` is the cron that the second one goes by. `work[i]` is what the worker executes. `starts` is a
ghost that counts claims. Time advances by one unit at a time; without `"slow"`
an execution ends within `StaleAfter`, without `"stall"` a tick or a request within a
unit.

### 2.4 KnowledgeFiles

`ids` is the list, `records` the file rows. `proc[f]` is the process that runs
the task of `f`; `Free(p)` says that `p` is not between reading the list and
writing it, where the code has no await. `redis` are the three keys of the
job id, `seen[f]` what a task got back from them. `Second` is the part of
`Files` that a second request in the same second selected: the job id is built
from the second, so both requests share the keys. `ok`, `bad`, `events` are ghosts.

Of the other writers of the list, an addition (`Addition`) is one step under a row lock.
On the event loop it waits for `Free` (`Upload`); the processing of a file makes it in a
thread of the pool (`S/task_queue.py:764`, `R/retrieval.py:2609`, `:2683`), which waits
for no event loop (`UploadInThread`). `other` is the one further request that has read
the list and is to write it: the auto-heal, a single removal, or the replacement of a
file by one of the same name, which awaits the search engine in between
(`R/knowledge.py:908`). `excused` (ghost) are the files that came onto the list between
somebody's read and write, which such a write may drop, and those removed by the other
request.

### 2.5 LinkSync

`row[l][i]` is the job of phase `i` of the sync of link `l`, `task[l][i]` the queue
task that runs it, `child[l][c]` that of a database part or a knowledge base,
`fin[l][i]` who is in `_finalize_parent`. `Count` and `Claim` are the two
transactions of `_advance_progress`. A child of kb_match reads the maps of all
links that contain its knowledge base and writes them link by link
(`Match`, `Save`); `hold[p]` is what its process carries between, and `Free` says that
nothing else of that process runs meanwhile, because nothing awaits there.
`Others` are links of which only the matching is followed: they supply the
second writer. `Tell` is the event to the user. `LinkSync` refines `PhaseChain`; the
chunks of its last phase are `ExtractJob`, which refines `JobBarrier`.

### 2.6 FileProcessing

A call `q` is one request (`kind[q]`, at `at[q]`); its task, the thread that runs it
(`thread[q]`) and the handler that waits for the thread carry its name. `row` is the
file's row (`exists`, the status, whether it has content, whether a knowledge base
waits for it), `listed` and `index` are the list and the collections. Every read and
every write of the status is a step of its own, since each is a session of its own in
a thread of the pool. A handler that times out announces a failure (`told`, action
`Tell`) while its thread goes on.

The functions of `models/files.py` and `models/knowledge.py` that write a row or the
list catch what the database raises and return None or False, which their callers
mostly do not look at (`models/files.py:306`, `:327`, `:437`, `models/knowledge.py:266`):
with `"db"` any of these writes may be lost and the step goes on (`Update`,
`ListWrite`, `DeleteRow`, `AddToList`). Chunks are replaced in two calls of the search
engine, a deletion and a save, with the embedding between them; `Replaces(q, c)` says
that `q` is there with collection `c`.

`spoiled` (ghost) names what a mishap has spoiled for good, and only that: `"status"`
(nobody may be left to end it), a collection (its chunks were deleted and not saved
again, or the row was not deleted after them), `"list"` (the file could not be listed,
or its row not be deleted). `Spoil` in the module lists the steps.

### 2.7 UiActions and GoogleActions

`futures[p]` is `_pending_futures` of process `p`, `sub[p]` its subscription,
`mail[p]` what Redis has for it; pub/sub keeps nothing for who has not
subscribed. An answer (request, page) comes in at any process: it is resolved
locally or published. `FuturesInv` has two halves: no future is left behind, and
(`AnswerUnderWay`) an answer to a request that waits is on its way unless a fault
was noted.

In GoogleActions a lock is named by the request that created it, because
`_bounded_lock` pops *whichever* lock is in the dictionary when a request leaves:
several locks of one message id may exist at once. `sent[p]` counts what Google did
for process `p`; `excused` are the processes in which an attempt ended without an
audit row, after which the code has nothing to recognise a repetition by.

### 2.8 SqlApproval

One statement, one key. `audit` is the set of audit rows of its result id, each
with the request that wrote it; `Orphans` are the evidence rows without an end, of which
`find_orphan_pending` lists what is within its window of the newest ones (`"crowd"`).
Each Redis command and each insert is a step, as other processes run between them.
`late` are requests whose handler gave up while the driver's thread goes on, `applied`
counts effects on the database, `vetoed` says that a rejection deleted the key. The
connection of a run is closed without a commit; `commits` says whether the driver
commits by itself. MySQL's does (`autocommit=True`), asyncpg, Snowflake and the others
too; pymssql (MSSQL, Synapse) and oracledb do not. What these libraries do is taken from
how they are called, without a commit and without an autocommit setting.

## 3. Runs

Bounds: two to four chunks, two tasks, three files, four requests, one or two
processes. That is enough for what the properties distinguish: "last one" versus
"not the last one" needs two children and a third still waiting; a race needs two
processes; a lock that is popped under its waiters needs a holder, a waiter and
a newcomer; a retry limit of 1 distinguishes "may retry" from "given up".
`MaxFaults` bounds faults and user requests, `Horizon` the clock, `MaxRetries`,
`RetryLimit`, `MaxAttempts` the retries. Deadlock is checked for the scheduler,
whose loops never end; the other systems do stop (everything handled, nothing to
read). Symmetry is used only by runs without liveness.

| run | instance | environment | states | shows |
|---|---|---|---|---|
| `ExtractJob_kb` | kb_extract, 4 chunks | cancel, publish, republish; 3 faults | 24 k | completed means all settled; nobody who could close the job leaves it open; progress exact; a planned job that is cancelled stays cancelled; the row is a `JobBarrier` |
| `ExtractJob_doc` | doc_extract, 2 chunks, one with anchors, fair | everything; 2 faults | 215 k | finalised at most once; a chunk with anchors is recorded only when extracted; types; each chunk task is a `Delivery`; every job ends |
| `TaskQueue_sweep` | 2 tasks, 2 workers, concurrency 2 | crash, republish, flush, trim, sweep, slow; 2 faults | 78 k | one handler per task, types; one outcome; implements `Delivery` |
| `TaskQueue_faults` | same, fair | crash, ack, destroy; 2 faults | 273 k | no published task silently gone; every task ends unless a process dies |
| `Scheduler_users` | 2 processes, 2 crons, fair | a user request between any two steps | 100 k | one runner per task; completed is final; no slot of the cron a tick goes by is skipped; every pending task ends |
| `Scheduler_single` | 1 process, 2 crons | everything; 2 faults | 1.2 M | a task starts at most `1 + max_retries` times; types |
| `KnowledgeFiles` | 1 process, 3 files in one batch or two with one job id, an addition, fair | everything; 1 fault | 546 k | a job id is announced at most once, a batch of its own only after all, and every job id whose tasks are not cut off; a file falls off the list only if it was added between the read and the write of another writer |
| `LinkSync` | 1 link and the matching of another, 2 bases, 1 part, fair | everything but `"total"`; 1 fault | 168 k | a phase follows only after all children before it, none after a cancellation; matches reach the extraction; a `PhaseChain`; every sync ends |
| `GoogleActions` | 3 requests, 2 processes, 2 attempts, fair | everything; 3 faults | 314 k | no lock leaks; a process acts once; answers are true; every request ends |
| `FileProcessing` | 2 requests of 6 kinds, fair | everything; 1 fault | 546 k | the status settles; completed means indexed, a removed row stays away; who is told "added" finds it; every task is announced |
| `UiActions` | 2 commands, 2 processes, fair | everything; 2 faults | 70 k | no future left behind; an answer in time gets through |
| `SqlApproval` | 4 requests, a driver that commits or not | everything; 2 faults | 380 k | applied at most once, by its owner, never after a veto; the audit log tells of every effect, and where the driver commits, it and the answers tell of no other |

Each property has a mutant (`<Operator>_<WhatIsWrong>`, next to the operator it
replaces) under which the same run fails.

The liveness properties say in their own text when they do not apply:
`JobEnds` holds unless a fault happened (a crash loses a chunk for good, because
consumers read only new messages), `EveryTaskEnds` unless a process died,
`JobAnnounced` unless a crash or an exception cut one of its tasks off (it asks for the
event of a job id: of two batches that share one, only one is ever announced), `SyncEnds`
unless a fault, a cancellation or the watchdog came in between, `AnswerGetsThrough`
unless a connection failed.

### 3.1 What the passing environments leave out

These are hazards the model can express; the property named fails when the fault
is put into the run's `Env` (or the process count raised, or the property added
to the run), so the run excludes it and the table says what the code does then.

| property | fails with | what the code does |
|---|---|---|
| `CompletedMeansAllSettled`, `ProgressExact` | `"ack"` | xack and xdel are in the `try` of the handler (`S/task_queue.py:913`): when one raises, a handled chunk is retried and counted again, on the last try given up |
| `CompletedMeansAllSettled` | `"total"` | an exception while progress_total is written is only logged (`R/knowledge_graph.py:2385`); the job completes after as many chunks as it has knowledge bases |
| `ProgressExact`, `NotLeftRunning` | `"db"` | a counter or claim transaction that raises is swallowed; the job waits for the watchdog |
| `NotLeftRunning` | doc_extract and `"publish"` | this producer counts the chunks it could not publish but never tries the claim (`KG/source_sync_worker.py:1344`): if the published ones counted first, nobody is left to finalise. kb_extract claims once more, and `ExtractJob_kb` shows that this is enough |
| `NotLeftRunning` | `"crash"` | a consumer that dies between its count and its claim takes the claim with it (`KG/kb_chunk_worker.py:686`), for both producers; nothing resumes a producer that died either. The watchdog fails the job |
| `ImplementsBarrier` | `"ack"`, `"total"` | as `CompletedMeansAllSettled` |
| `ImplementsBarrier`, `CancelSticksOncePlanned` | doc_extract, `"publish"` and `"cancel"` | when no chunk could be published it calls `complete_job`, which looks at no status, over a cancellation (`KG/source_sync_worker.py:1344`) |
| `CancelSticksOncePlanned`, `ImplementsBarrier` | `"watchdog"` | the watchdog reads jobs without a lock and writes `failed` later, over whatever they became (`R/knowledge_graph.py:79`) |
| `RecordedMeansExtracted` | says so for `Anchored` | a chunk without anchors is recorded without a model call (`KG/kb_chunk_worker.py:540`): every chunk of kb_extract, whose payload carries no `file_anchors` (`R/knowledge_graph.py:2427`), and of doc_extract those of a file that has filter attributes and no glossary match, whose list is empty (`KG/source_sync_worker.py:562`, `:1229`) |
| `NoSilentLoss` | `"republish"` | the xadd of a retry raises and the original is acked all the same (`S/task_queue.py:935`) |
| `NoSilentLoss` | `"sweep"`, `"trim"`, `"flush"` | operators drop tasks on purpose; but a message delivered between the check of `delete_consumer` and its XGROUP DELCONSUMER is dropped too (`S/task_queue.py:425`) |
| `OneOutcome` | `"ack"` | as above |
| `OneHandlerPerTask`, `OneOutcome`, `ImplementsDelivery` of `TaskQueue` | `"destroy"` | a recreated group delivers from the start of the stream, what is being handled included |
| `TicksSerialized` (in no run) | two processes | `pg_try_advisory_lock` belongs to its session, which is closed when `_try_advisory_lock` returns (`S/scheduler.py:44`): the lock is gone before the tick begins, although a comment (`S/scheduler.py:30`) relies on it. `Scheduler_users` shows what holds without it: the unique constraint and `FOR UPDATE SKIP LOCKED` carry the load |
| `StartsInv` | two processes and `"crash"`, `"db"` or `"slow"` | resets read without a lock (`M/schedules.py:572`): the later one may put a task back that was claimed again, one retry for two starts |
| `OneRunnerPerTask`, `CompletedIsFinal` | two processes and `"slow"`, `"crash"` or `"db"` | an execution longer than the stale limit is put back while it runs (`S/scheduler.py:149`); two ticks put one dead worker's task back one after the other, the second under whoever claimed it in between |
| `SlotNotSkipped` | `"db"` | `enqueue_task` takes any exception for a duplicate, then the tick advances (`M/schedules.py:415`) |
| `SlotNotSkipped` | says so for the tick's copy of the cron | a tick moves on by the cron it read with the due schedule (`S/scheduler.py:87`, `:144`): over an edit that another process made meanwhile (`R/schedules.py:219`) it writes the next run of the old cron, and slots of the new one before it get no task. Two edits in two processes may end the same way, the cron of one and the next run of the other |
| `SlotNotSkipped` | two processes and `"stall"` | a tick that was held up between its read and its advance (`S/scheduler.py:143`) moves on from the present clock, over the slot that another tick has advanced to meanwhile |
| `AnnouncedAfterAll` | says so for `second # {}` | the job id has the resolution of a second (`R/knowledge.py:1741`); two batches share their counters |
| `FailuresExact` (in no run) | `"gone"`, `"db"` | a task increments `done` and `failed` in two commands (`S/knowledge_file_delete_worker.py:56`); the task that reads `done = total` may read `failed` in between |
| `NoFileVanishes` | says so for `excused` | read and write of the list are two sessions (`R/knowledge.py:1591`, `:635`): what a thread of the pool adds in between (`R/retrieval.py:2683`) falls off, in one process already. A replacement even awaits the search engine between them (`R/knowledge.py:908`): whatever is added meanwhile falls off |
| `NoFileVanishes` | two processes | the same for everything that another process does: its removals come back, its additions fall off |
| `MatchesReachExtraction` | two processes | the maps are read and written in two sessions (`KG/source_sync_worker.py:577`): a concurrent child's files have no anchors for doc_extract |
| `ChainInv` | `"total"` and two parts | the next phase starts early when the number of children was not written |
| `OneSenderPerProcess` (in no run) | `"transient"` | the lock leaves the dictionary under those that wait for it (`R/google_actions.py:79`), and after an exception without an audit row the next click calls beside them; the docstring at lines 71-72 calls this safe |
| `RemovedIsGone` (in no run) | retry and remove | the cancellation of a removal is a status no thread reads (`R/knowledge.py:1553`): the thread indexes and lists the file again |
| `ContentInv`, `AnnouncedIsTrue` | say so for `Replaces` and `spoiled` | the chunks of a file are deleted before the new ones are embedded and saved (`R/retrieval.py:1579`, `:2657`, `:3301`): meanwhile, or for good when the save fails, a file that another request or thread completed has none. A list write or a row deletion that raises is only logged (`M/knowledge.py:289`, `M/files.py:444`), and "completed" is announced all the same |
| `StatusSettles` | says so for `spoiled` | among others `queued`, which is written after the await of the publish over whatever the thread wrote meanwhile (`R/retrieval.py:2921`) |
| `AuditTellsAll` | says so for `commits`; `CommittedIsTrue` (in no run) fails with `"rollback"` | success is what `run_sql` returns; the runners of MSSQL and Synapse (`extension_modules/dbsphere/sql_runners/mssql.py:44`, `synapse.py:47`) execute, fetch and never commit, and the connection is closed (`S/dbsphere_executor.py:386`): an INSERT with OUTPUT, or an EXEC that returns rows, is recorded SQL_COMMITTED, answered as executed, and rolled back. The docstring at line 337 says that success is what SQL_COMMITTED records |
| `RejectedNotApplied` (in no run) | two processes | a rejection looks with GET and deletes later, and nobody reads whether DEL deleted anything (`S/dbsphere_executor.py:438`): a confirmation may have popped the key in between. The module comment (`utils/dbsphere_approval.py:3`) says that both use GETDEL |

Seen in the code and in the models, without a property of its own:

* Jobs: one cancelled while its plan turns out empty becomes completed
  (`complete_job` looks at no status, `M/knowledge_graph.py:2180`); two first chunks of
  a KB both INSERT the `kg_extract_state` row and one is not recorded
  (`InsertRow`); jobs of kind doc_extract have the watchdog's five-minute limit
  (`R/knowledge_graph.py:66`).
* Sync: db_derivation's `complete_job` overrides a cancellation and goes on to the
  next phase; when publishing the next phase fails, the user hears "completed" and
  the new job stays running; phase tasks have `max_retries` 0.
* Queue: pending 0 does not mean idle after a reclaim, so the zombie clean-up may
  delete a consumer whose handler runs (`CleanupZombies`), which is harmless to the
  task (`OneOutcome`).
* Schedules: a worker that finds a schedule's owner gone *toggles* the schedule, so the
  second such task activates it again (`CheckFails`); an execution of more than ten
  minutes is reset and run by another worker at the same time
  (`S/scheduler.py:149`); an edit of a due schedule drops the due run
  (`R/schedules.py:221`).
* Files: a file that fails before the names are bound (`R/retrieval.py:2607`, `:2630`)
  is not listed in the knowledge base that waits for it, although a comment at `:2720`
  says that failed files are linked: `Knowledges` is a local name of the function,
  unbound at `:2729`, and the exception is swallowed (`ListFailed`); a poll of an
  addition while the status reads "processing" lists the file and starts its filter
  extraction before it has chunks in the knowledge base (`R/knowledge.py:982`), which is
  why `AnnouncedIsTrue` is about what the task announces. The reset of processing_job by a retry has no effect, because the update
  merges (`R/knowledge.py:1060`); `queued` is not among the busy states; a knowledge base
  promised to a file between its completion and the thread's look leaves a listed
  file whose chunks are only in its own collection.
* UI: a cancelled command leaves its future until an answer comes.
* Google: after a time limit an action may be done twice, a document filled twice.
* SQL: an administrator is told that an orphan was marked also when the row could not be
  written (`M/audit_log.py:330`, `MarkUnknown`); an old orphan is not listed once four
  times `limit` newer evidence rows exist, closed ones included
  (`S/dbsphere_executor.py:596`, `FindOrphan`); a confirmation after a rejection hears "Already executed."; `SQL_FAILED` does
  not mean that the database is unchanged; a confirmation by another user takes the
  owner's key away; `allow_data_modifications` is not looked at again on
  confirmation.

## 4. Fairness

* `ExtractJob`: weak fairness of the producer and of each chunk. Every consumer
  process runs an event loop that returns to a ready coroutine; a chunk's next
  step stays enabled until it is taken, because no other action disables it.
  `WatchdogCommit` because it is the end of a started transaction. No fairness
  for Cancel, WatchdogRead or crashes.
* `TaskQueue`: weak fairness of each worker as a whole (`WorkerStep`): its
  process starts, and its event loop runs what can go on, be it the consumer
  loop or a handler. A batch is finitely many steps and the next is read only
  after the last of them (`asyncio.gather`), so no fairness per message is
  needed.
* `Scheduler`: weak fairness of the tick; strong fairness of the worker, whose
  steps are disabled while its own process ticks but enabled again in each pause
  between ticks (the loop sleeps to the next minute). A request that began goes on
  (`SetNext`, `DeleteTasks`, `DeleteSchedule`). No fairness for the clock or the users.
* `KnowledgeFiles`: weak fairness of publishing, strong fairness of a task
  (another task of the same process may hold the event loop between its read
  and its write, again and again, but never for ever), weak fairness of the write of
  a request that read the list.
* `LinkSync`: weak fairness of a sync as a whole (it is finitely many steps), of the
  matching of the other links, and of a watchdog transaction that began.
* `FileProcessing`: weak fairness of each thread with its handler; the consumer
  delivers what is published, and loaders, models and index have time limits. No
  fairness for requests.
* `GoogleActions`: weak fairness of each request: Google answers or the call's time
  limit passes, and asyncio wakes who waits for a free lock.
* `UiActions`: weak fairness of sending, of the subscription, of forwarding and of
  taking an answer; *not* of the 60-second limit: an answer has to get through by
  itself. None of a page that answers.
* `SqlApproval` has no liveness property: every request ends by itself, and whether
  an orphan is closed is up to an administrator.

Handlers are assumed to return or raise; the model calls behind them have
timeouts of their own.

## 5. Proofs

Every component has a module `<component>_proofs`, checked by TLAPS (the two of the
knowledge base share `KnowledgeBase_proofs`). The theorems hold for any sets of chunks,
tasks, files, links, requests and processes, any `MaxRetries`, `Concurrency`, crons and
horizon, any number of faults, and any `Env` (`FileEnv`) but where the table names a
condition. They rest only on the assumptions named in the component's module: bounds
are natural numbers, `Env` is a set of the events, and the sets that the code counts
(chunks, files, database parts, knowledge bases) are finite.

| theorem | property | for |
|---|---|---|
| **ExtractJob** `TypeCorrect` | `TypeOK` | every `Env` |
| `FinalizedOnce` | `FinalizedAtMostOnce` | every `Env` |
| `CompletedSettled` | `CompletedMeansAllSettled` | no `"ack"`, no `"total"` |
| `ProgressIsExact` | `ProgressExact` | no `"ack"`, no `"db"` |
| `NobodyLeavesItRunning` | `NotLeftRunning` | `LeftEnv`: no `"total"`, `"db"`, `"crash"`; no `"publish"` for doc_extract |
| `RecordedWasExtracted` | `RecordedMeansExtracted` | every environment |
| `JobIsBarrier` | `ImplementsBarrier` | `BarrierEnv`: no `"ack"`, `"total"`, `"watchdog"`; no `"publish"` for doc_extract |
| `CancelIsFinal` | `CancelSticksOncePlanned` | kb_extract, no watchdog |
| `ChunksAreDelivered` | `ImplementsDelivery` | every `Env` |
| **TaskQueue** `OneHandler` | `HandlersInv` | no `"destroy"` |
| `OneOutcomePerTask` | `OneOutcome` | no `"destroy"`, no `"ack"` |
| `NothingIsLost` | `NoSilentLoss` | no `"republish"`, `"sweep"`, `"trim"`, `"flush"` |
| `QueueDelivers` | `ImplementsDelivery` | no `"destroy"` |
| **Scheduler** `OneRunner` | `OneRunnerPerTask` | `CarefulEnv`: no `"slow"`, `"db"`, `"crash"` |
| `CompletedStays` | `CompletedIsFinal` | `CarefulEnv` |
| `CompletedStaysAlone` | `CompletedIsFinal` | one process, every `Env` |
| `StartsBoundedTogether` | `StartsInv` | `CarefulEnv` |
| `StartsBoundedAlone` | `StartsInv` | one process, every `Env` |
| `NoSlotSkipped` | `SlotNotSkipped` | no `"db"`, no `"stall"` |
| **KnowledgeFiles** `BatchAnnouncedOnce` | `BatchInv` | every `Env` |
| `BatchAnnouncedAfterAll` | `AnnouncedAfterAll` | every `Env` |
| `NoFileFallsOff` | `NoFileVanishes` | one process |
| **FileProcessing** `StatusAlwaysSettles` | `StatusSettles` | every `FileEnv`, any requests |
| `CompletedIsIndexed` | `ContentInv` | every `FileEnv`, any requests |
| `ToldIsThere` | `AnnouncedIsTrue` | every `FileEnv`, any requests |
| **LinkSync** `PhasesInOrder` | `ChainInv` | no `"total"` |
| `MatchesArrive` | `MatchesReachExtraction` | no `"total"`, one process |
| `SyncIsChain` | `ImplementsChain` | every `Env` |
| **UiActions** `FuturesAreAwaited` | `FuturesInv` | every `Env` |
| **GoogleActions** `SendsOnce` | `OncePerProcess` | every `Env` |
| `LocksDoNotLeak` | `LockInv` | every `Env` |
| `ToldIsTrue` | `AnswersAreTrue` | every `Env` |
| **SqlApproval** `StatementAppliedOnce` | `ApprovedOnce` | every `Env` |
| `AuditIsComplete` | `AuditTellsAll` | every `Env` |

A condition is there because the property is false without it: TLC finds a
counterexample for each fault, some together with a second one, and section 3.1
names the code. One is not: `MatchesArrive` excludes `"total"` so that it does not
rest on the total kb_match starts with (`InitTotal`, a number of files), of which
the model only takes that it exceeds the number of knowledge bases. Each run of
section 3 satisfies the conditions of a theorem about each of its safety properties,
so what is proved is also checked on an instance.

### 5.1 The inductive invariants

Hardly a property is inductive as it stands. What had to be added says how the code
keeps it:

**ExtractJob** (`ExtractJobInv`). `TypeOK` needs that a chunk in backoff has a retry
left (`TypeInv`), because `Republish` adds one.

* `FinalizedAtMostOnce` counts past finalisations; `FinalInv` says *who may still
  finalise*: a chunk that has taken the job out of `running` (which `Claimable`
  requires and nothing restores), or the doc_extract producer of a job with no
  published chunk (`Barren`), when no chunk can.
* `CompletedMeansAllSettled` needs the counter: in `CountInv` a running job's progress
  is at most the number of settled chunks and its total the number of planned ones,
  so `Claimable` means all are settled (`ClaimableMeansSettled`, by cardinalities).
  `"ack"` breaks the first half (a chunk counts twice), `"total"` the second.
* `ProgressExact` is inductive with `Begun` (nothing is published before the plan,
  nothing unplanned ever); the work is `SettledByChunk` and `AccountCounts`: each
  step that counts settles exactly the chunks it counts.
* `NotLeftRunning` is about an absence, so `LeftInv` names *who is left*: when a
  running job's progress has reached its total, a chunk that counted has yet to
  claim (`Claimers`), or kb_extract has yet to try once more. `"crash"` and `"db"`
  take that somebody away.
* `JobIsBarrier` maps the row to `JobBarrier` action by action. `BarrierInv` adds that
  `complete_job`, which looks at no status, is reached only by a job without
  chunks; `CancelInv` says the same for a cancellation.
* `ChunksAreDelivered`: one chunk moves at a time, from one place of `Delivery` to the
  next or to itself (`LifeMoves`); given up means that `Raised` found no retry left.

**TaskQueue.** `HandlersInv` is about tasks, the stream about entries. `QueueInv` ties
them: a task has at most one entry that is fresh or in the hands of a worker that
has more to do than acknowledge it for the last time (`OneAlive`), an entry in hand
is with one worker (`OneHolder`) and is not fresh (`HeldIsOld`, which a recreated
group breaks). A retry moves "alive" from the old entry to the new in one step
because the republish comes before the acknowledgement.

* `OutcomeInv`: a task with an entry not yet handled (`Open`) has no outcome.
* `LossInv`: of a published task that has not ended there is an entry in the stream,
  unread or pending, that nobody is about to acknowledge (`Kept`).
* `QueueDelivers`: `PlaceByEntry` says where the one alive entry puts the task, and
  `CountInv` that its retry count is the number of its republishings, so a task is
  given up only after the last.

**Scheduler.** `HolderInv`: a task that runs is held by exactly one worker, its row is
as that worker took it or was cancelled, the worker is within the stale limit
(`HeldInTime`), so that no tick has read a stale row (`NothingStale`). Hence no reset
is in flight, which is all that could hand the task to another worker. The advisory
lock is not used in the proof: two ticks may run at once.

* `ClaimInv` counts: a row has a retry for every claim but the first. With one process
  it needs no condition on faults, because what a tick read is still so when it
  writes (`ReadIsFresh`): the tick does not await. For the same reason one process
  never puts a completed task back (`HeldIsOpen`: such a task is in nobody's hands),
  however slow its executions are.
* `SlotInv`: who is about to advance past a slot has seen its task in the table, or
  the next run lies ahead already, set by another tick or an edit; then the first slot
  of the same cron is not beyond it (`NextRunBounds`).

**KnowledgeFiles.** `RemovalInv`: the counters in Redis are behind the files dealt
with and no task saw more than they count (`CountInv`), and who announces holds the
claim alone (`ClaimInv`). So `done` = total means that all were dealt with - if the
job id is the batch's own. `ListInv`, for one process: whoever is to write the list -
at most one task, or the other request, which has the event loop to itself but for a
replacement (`OneWriter`) - holds every file in its copy that is to stay, except those
in `excused`; the auto-heal removes nothing that had a row when it looked.

**FileProcessing.** `FileInv`, over the requests, the threads and their handlers. What a
step of a request and what a step of a thread may do is stated once (`CallEffect`,
`ThreadEffect`, `ThreadArrives`); everything below is proved of these.

* `SettleInv` names *who is to end* an unfinished status: a request about to publish, or
  a task whose thread has not passed its `finally` (`Settles`). A write of the status
  that is late or lost changes nothing about that, which is why so few mishaps have to
  be noted as `"status"`.
* `ChunksStay`: what is in a collection stays in it, but for who is just replacing or
  removing it (`Has`). A thread that is about to write "completed" has indexed the file,
  or read "completed" when its stage began and writes that back (`WritesIndexed`).
* `TellsIndexed` and `TellsListed` follow a thread from its look at the waiting
  knowledge base to its announcement; the list is left only after the row, so a
  removal in between is seen (`ListedStays`).
* `ThreadInv`: a request publishes once, so its thread is not reset to the queue.

**LinkSync.** Links share nothing but the maps, so what a step does to one link,
`At(l)`, is classified once as one of twelve kinds (`LinkStep`: the task of a phase ends
it, plans, goes on; a child moves, counts, claims; the phase chains, publishes,
stops short, tells; a sync is requested; a row is stopped), and each invariant is
proved of the kinds.

* `Shape`: only the latest phase has a live task, and a phase that began stays begun;
  `CurrentBounded`: the progress of a phase is at most its children past their
  count; `Halts`: a fan-out that is cancelled or running has no successor.
* `TotalCounts` and `Quiet` (with `"total"` excluded): the total is at least the
  children planned, so a phase that is claimed has only settled children.
* `HoldInv` and `MapInv`: with one process the snapshot a child carries still is what
  the maps are that it has yet to write.
* `SyncIsChain` needs no condition: even with a wrong total, phases are begun and
  closed in order, each once (`BeginsOne`, `ClosesOne`, `TellsOne`, `KeepsOne`). What the
  total decides is whether the *children* of a closed phase have settled, and that
  is `PhasesInOrder`.

**UiActions.** `UiInv`: a request under way has no outcome yet (`OutcomeAtEnd`), one that
waits has its process subscribed and its future registered unless a fault was
noted for it (`WaitingListens`), and an answer exists only after its command was
sent (`AnswerOnItsWay`).

**GoogleActions.** `GoogleInv` speaks of a process whose attempts all left their rows
(`Serial(p)`): until something is in the audit log all its requests share one lock,
so one calls at a time, who is about to send is the first, and after a failure was
told nobody calls. That is how popping the lock under waiters is harmless there:
whoever comes with a new lock finds the row.

**SqlApproval.** `InOnePlace`: the statement is under its key, or with one request - past
the pop, in a thread that outlives its timeout, or already applied - or nowhere,
and a veto, which deletes an existing key, excludes such a request;
`NotYetApplied`: whoever may still apply it has not, and owns it. `AuditInv` adds the
order of the rows: evidence before the run, its end after, and none who could run
the statement once an end is on record (`EndedIsLast`). Where the driver commits, who
is past its run has changed the database, and so has who recorded it as committed.

### 5.2 Model-checked only

Liveness, and everything that rests on ENABLED, is outside what the prover
handles: `JobEnds`, `EveryTaskEnds`, `TasksEnd`, `JobAnnounced`, `SyncEnds`,
`EveryRequestEnds`, `EveryTaskTold`, `AnswerGetsThrough`. Every safety property that a
run checks is stated by a theorem, in some cases under the condition in the table.

## 6. Not modelled

* The mode without Redis: `InProcessQueue` drops tasks and the producers then
  run chunks inline in one process.
* Payloads: what a chunk says, prompts, embeddings, graph contents. `applied`
  only says whether the extraction reached the graph.
* In `ExtractJob`: concurrent jobs on one KB (each has its own row; they share
  `kg_extract_state`), the stream underneath (module `TaskQueue`), a clock for the
  watchdog: nothing chunk workers do refreshes `last_heartbeat_at`, so every
  running job is a candidate.
* In `TaskQueue`: consumer-side payload parsing, metrics and queue listings.
* In `Scheduler`: several schedules (they share no row), `start_at`/`end_at`,
  sharing, month-old rows, the content of an execution.
* In `KnowledgeFiles`: more than one other request that reads and rewrites the list at
  a time; the reset of a knowledge base, which empties it; the endpoints of projects,
  which write the list of theirs. The index content of a file and its processing are
  `FileProcessing`, for one file and one knowledge base.
* In `LinkSync`: the sync of a whole graph (one such chain per link), a second sync of
  the same link while one runs, what a phase writes to the graph.
* In `FileProcessing`: other files (of the same content, whose background processing
  deletes chunks by their hash, `R/retrieval.py:1323`; of the same list, see
  `KnowledgeFiles`), operation without embedding, the deletion of the knowledge base,
  the duplicate check of an addition, retrying all failed files of a
  base, loaders and formats, the counters of a filter-extraction batch (the protocol
  of `KnowledgeFiles`).
* In `UiActions`: the mode without Redis (one process, as `owner[r]` = `via[a]` here).
* In `GoogleActions`: permission checks, the renewal of tokens beyond its failure.
* In `SqlApproval`: reading statements, which keep no state, and the toggle and
  permission checks before a request.
* Not at all: the usage pool (its lock needs a clock), glossary extraction, the KB
  clone, and the components that `PROJECT.json` gives reasons for.

## 7. Plan

Done: sections 2 to 5. Next, in this order:

1. **GlossaryExtract**: a job that is discarded and started again under its worker.
2. **UsagePool**: RedisLock with expiry and renewal, pool read-modify-write; a timed
   watchdog for `ExtractJob`.
