# Verification of the UEBA endpoint agent and backend

The repository is a user-behaviour analytics product: an *agent* on every
endpoint collects activity, buffers it and posts it to a FastAPI *backend*;
the backend stores raw logs in PostgreSQL, a *normalizer* turns them into
events, an ML model scores the users concerned and raises alerts; an LLM
explains alerts and answers an analyst's chat; a React *frontend* shows it all.

This directory holds TLA+ models of its core, TLC configurations that check
them on small instances, and TLAPS proofs of the properties that matter most.
`PROJECT.json` relates every definition to the source lines it models.

## 1. Inventory

| Component | Source | State | Operations | Talks to |
|---|---|---|---|---|
| Event buffer | `src/agent/buffer.py` | SQLite table `events` (id, source_id, status ready/in_flight) | enqueue, enqueue_many, claim, ack, nack, reset_in_flight | collectors (threads), flusher, final flush |
| Agent service | `src/agent/service.py` | asyncio tasks, stop_event, collectors, wtmp offset | flusher, heartbeat and config loops, startup, shutdown | buffer, transport, config client |
| Transport | `src/agent/transport.py` | none | send_batch, heartbeat, get_config, register; error classes | backend over HTTP |
| Enrollment and agent state | `src/agent/enroll.py`, `state.py` | state file | enroll, load/save/clear | backend |
| Config client | `src/agent/config_client.py` | cached policy | pull, pull_with_retry, is_blocked | service, collectors |
| Collectors | `src/agent/collectors/` | threads; wtmp offset; DNS queue | start, stop, scan, emit | buffer through a sink |
| Self-update | `src/agent/update.py` | binary and backup on disk | check, download, verify, replace | release server |
| Raw-log ingestion | `routes.py`, `db/session.py` | `raw_user_logs` | single and batch upsert | agent, normalizer |
| Normalizer | `services/normalizer.py`, `routes_admin.py`, `main.py` | process lock, `raw_user_logs.normalized_event_id`, `event_logs` | run_once from the loop and from the admin endpoint | event store, scoring |
| User scoring | `services/user_scoring.py`, `demo_pipeline.py`, `routes.py` | `ml_anomaly_scores`, `alerts`, counters | score_user, analyze_all | event store, model, explanations |
| Agent registry | `db/agents.py`, `routes_agents.py`, `core/security.py` | enrollment tokens, `endpoint_agents`, policies, blocklist | register, heartbeat, revoke, mark stale, policy CRUD | agent, administrators |
| Connection pool | `db/pool.py`, `db/session.py` | psycopg pool | init, check-out, close | all of the backend |
| LLM explanations | `services/llm/` | TTL/LRU cache, statistics | explain_alert, retry, invalidate | provider, scoring |
| LLM chat and memory | `llm_chat.py`, `llm_memory.py`, `llm_feedback.py`, `routes_llm.py` | conversations, messages, memories, feedback, a trigger's sums | stream a reply, delete, reset, judge, remember, forget | provider, database |
| Dataset loaders | `src/database/*.py`, `scripts/import_*.py` | users, devices, events, alerts of the event store | seven loaders, in batches, in one transaction or over HTTP | event store, server start |
| ML | `src/ml/` | model file | features, training, inference | scoring |
| Frontend store | `src/frontend/src/store/chatStore.ts`, `lib/apiClient.ts` | conversation list, messages, abort controller | load, send, delete, reset | REST API, SSE |

What is hard in it, component by component, and what correctness means there:

* **Agent delivery.** Collectors insert from their own threads while the
  flusher awaits a request that may be lost, answered late or cut off by a
  shutdown whose final flush claims from the same table; the process may be
  killed anywhere. *Correct* means: no event is lost silently, none is held
  twice at a time, none is stranded in flight, a full buffer gives up the
  oldest, and what is buffered is delivered in the end.
* **Normalizer.** A tick is a series of separate transactions. It may die
  between any two, race another replica over the same rows, race the admin
  endpoint or a direct ingestion. *Correct* means: marks that never dangle, a user who
  is considered for scoring after each of his logs became an event, and every
  convertible log converted in the end.
* **Scoring and explanations.** Alert and score are written by two
  transactions, two scorings of one user overlap, an explanation comes from a
  cache that other threads fill, from a provider that fails, or from a
  fallback. *Correct* means: a score names its own alert, an explanation is
  about the alert it is stored with, and the counters add up.
* **Registry.** A registration whose answer is lost has used up its token; a
  heartbeat, a revocation, a patch and the stale marker race on one row.
  *Correct* means: one agent per token unless two registrations of it overlap,
  every agent accounted for, no host with a key the register does not know, and
  revocations that hold and are obeyed.
* **Configuration and collectors.** The version tells whether a pulled policy
  differs, while pulls fail and the service stops. A wtmp reader keeps an
  offset into a file that grows, is half written and rotated during its scan.
  *Correct* means: no collector runs that the policy disables, and no record
  before an offset is passed over unless a rotation took it.
* **Chat and memory.** An answer streams while its conversation is deleted,
  reset, renamed or asked in by others; verdicts of two replicas leave memories
  that are used and forgotten. *Correct* means: transcripts hold each question
  once and before its answer, under the alert it is about; one memory of one
  content, and none missing of a verdict that stands; sums that equal what they
  sum.
* **Connection pool.** Every step of a check-out can fail and the pool may be
  closed in it. *Correct* means: no connection leaks, none is shared, each
  block runs under its own timeout, and only its own commits commit what it
  wrote, unless a BaseException cut it.
* **Loaders.** They commit batch by batch or all at once, wipe and rebuild
  alerts, and run beside the server and each other. *Correct* means: what is
  reported is stored unless another loader's reset has deleted it, references
  resolve, alerts are those of one import unless two imports overlap, and an
  owner assigned by hand survives.
* **Self-update, frontend.** Dying between backup and replacement; overlapping
  requests in one browser.

## 2. Modules

| Module | Models | State | Actions |
|---|---|---|---|
| `EventBuffer` | `buffer.py` | `ready`, `inflight`: the rows by status; `nextId`: AUTOINCREMENT | one per method |
| `Delivery` | abstract specification of the pipeline | `accepted`, `held`, `stored`, `judged`, `evicted` | `Accept`, `Process`, `Forget` |
| `AgentDelivery` | `_flusher_loop`, `AgentService.run`, `send_batch`, the batch endpoint | EventBuffer's, and `proc`, `loop`, `batch`, `answer`, `late`, `revoked`, `stored` | one per await of the flusher, per step of startup and shutdown, per kind of answer |
| `Normalizer` | `Normalizer.run_once`, its two callers, `ingest_event`, raw ingestion | `raw`, `mark`, `events`, `users`, `devices`; per tick `pc`, `todo`, `hold`, `touched`; histories `scored`, `shut`, `dropped` | one per transaction of a tick, per request, per fault |
| `AgentRegistry` | `db/agents.py`, `routes_agents.py`, `require_agent` | `token`, `usedBy`, `status`, `beat`, `home`, `with`: the two tables; `work`: the request each replica stands inside of; history `contended` | `Issue...`, `Register...`, `Heartbeat...`, `Patch`, `MarkStale`, and the clock |
| `AgentEnrollment` | `enroll.py`, `state.py`, `Transport.register`, the service's start and heartbeat loop, against AgentRegistry | `file`, `svc`; `pc`, `asked`, `got` of the enroll process; `open`, `late`: the network | one per step of `agent enroll`, of the service, per request, per fault |
| `AgentConfig` | `config_client.py`, `_config_pull_loop`, `_on_policy_change`, `AgentService.run`, `update_agent_policy` | `policy`, `cached`; `service`, `puller`; `built`, `running` collectors | one per step of a pull, of startup and shutdown, per fault |
| `LogonCollector` | `collectors/logon.py`, `Collector.emit`, the offset file, on top of AgentConfig | `size`, `half`, `file`: wtmp; `reader`; `saved`; histories `sent`, `dropped`, `missed` | one per step of a scan, of the system that writes and rotates |
| `UserScoring` | `score_user`, `analyze_all` on top of LlmExplain | `window` of events, `job` per thread, `alerts`, `scores`, `sstats` | one per transaction and per failing one |
| `LlmExplain` | `services/llm/`: `explain_alert`, cache, retry, statistics | `cache`, `call` per thread, `counted` | hit, miss, one per outcome of a provider's call |
| `LlmChat` | `llm_chat.py`, the chat endpoints, on top of LlmMemory | `conv`, `recent`, `log`, `stream` per request | one per endpoint, per step of a stream, per way it ends |
| `LlmMemory` | `llm_feedback.py`, `llm_memory.py`, the trigger's sums | `feedback`, `memory`, `stats`, `judging` per replica; history `lost` | one per transaction, `Forget`, `Decay` |
| `ConnectionPool` | `db/pool.py`, `get_connection` | `pool`, `conn`, `use` per thread; histories `halved`, `cut` | one per step of a check-out and per failure |
| `EventTables` | the tables the loaders share with the server, and the SQL of both | `users`, `owner`, `events`, `alerts`, `risky`, `hot`, `link`, `active` | server start, ingestion, triage, administration |
| `Datasets` | the seven loaders, on top of EventTables | `loader` per process; history `raced` | one per transaction, per statement that makes alerts again, per crash, interrupt and failing start |
| `*Proofs` | theorems about the module named | | |
| `MC*` | constants and symmetry for TLC | | |

### EventBuffer

A row is its id and its source_id. `Row` sets stand for the table: `ready` and
`inflight` are the rows with that `status`. Each method runs in one
`BEGIN IMMEDIATE` transaction under the buffer's lock, so each is one action.
`Oldest(S, n)` is `ORDER BY id ASC LIMIT n`. `Enqueue` inserts and evicts in
the one transaction; `EnqueueMany` skips duplicates and evicts once. `Ack` and
`Nack` take *any* set of ids, also stale ones, as the SQL does.

### AgentDelivery

It extends `EventBuffer` with the process that drives it. `loop` is the
worker-thread job the flusher coroutine awaits (`claim`, `send`, `ack`,
`drop`: the ack after a PermanentError, `nack`): between two jobs anything else
may happen. `proc` is where `AgentService.run` stands. Cancelling a coroutine
does not stop the thread job it awaits; `Stop` therefore leaves a claim, ack
or nack job that may run or not run until the buffer is closed. The server
stores any subset of a batch (each record has a savepoint of its own), the
answer may be lost, and a request given up may still be processed later
(`late`). History variables record what was ever accepted, evicted, refused
with a whole batch, and failed inside one.

### Normalizer

A worker is a replica's background tick (`"loop"`) or its event loop
(`"web"`), which serves requests and runs the admin endpoint's tick itself.
`pc` is the next transaction of the tick: `look` (map the row, look up its
source_id), `insert` (the statement), `commit`, `mark`; then `score`, outside
the lock. An insert is visible to others only at `commit`; another insert of
that source_id waits for it (`Blocked`), one of the same logical key does not
(the NOT EXISTS guard has no index behind it). The contents of a log are fixed
by its source_id: the logical key, user and device are constant functions, and
a re-sent log changes no modelled column. Rows, users and devices are never
deleted. `Score` reads what `score_user` reads: the events since the start of
a look-back (`Since`), and of these the oldest, up to `Limit`
(`user_scoring.py:174-177`, `session.py:728-749`). What it reads goes to
`scored`; what the look-back or the limit keeps from it goes to `shut`; logs
whose scoring failed, was skipped or was lost with the process go to
`dropped`. So the properties say of an event that its user was *considered*
after its commit, not that the event was among the rows read: with more rows
than the limit, a new event is left out for good. Statistics, the mapping of
payload fields and the poll interval are left out. `normalize_raw_log`'s device query and the source_id look-up are
one step, since devices only grow.

### AgentRegistry and AgentEnrollment

Endpoints are async functions over a synchronous driver: a replica that began
a request ends it before the next, and replicas interleave between statements.
`RegisterReads` and `RegisterWrites` are the two halves of `register_agent`'s
READ COMMITTED transaction, whose SELECT takes no lock (`contended` records the
tokens for which a registration began inside another one); `HeartbeatReads` and
`HeartbeatWrites` are the two transactions of a heartbeat. Every other request
is one statement and one action, possible while some replica is free. An agent
id stands for its row and its key. Time is two events: `TokenExpires` and
`BeatAges`. `Overdue(S)` covers the `timeout_minutes` parameter of mark-stale.
Device, user and policy columns and `last_config_pull` are left out.

`AgentEnrollment` adds, per host, one enroll process and one service, which
share the state file but not its cached contents: a service goes on with the
key it read when it started. A request can be lost, arrive late (`late`) or be
answered to nobody (`RegisteredUnheard`). `open` are the replicas whose client
still waits.

### AgentConfig and LogonCollector

A policy is its version and the collectors it enables; the blocklist and the
intervals, which steer no control, are left out. `puller` is the pull at the
start or of the loop: asked, answered (`get_agent_policy` has read the row),
swapped in. `_on_policy_change` stops what is no longer enabled and starts
nothing (`service.py:455-461` has a comment where it would), so a collector
that is enabled again waits for a restart; `built` are the collector objects
of this run, `running` those not told to stop.

A wtmp record is its file and its place in it; files are numbered in the order
in which logrotate makes them. `half` is a partial record at the end. `Scan` is
the stat and the comparison with inode and offset, `Open` and `ReadChunk`
follow at any later time, when the path may lead to another file. The offset
is restored by `Starts`, saved by `Exits` and not by `Crashes`; records before
a crash are emitted again, which the backend's upsert by source_id absorbs.
`dropped` holds records that were read, but that policy, sampling or a raising
sink kept from the buffer. Records nobody reads are apart, in `missed`:
`rotated` were unread when their file was rotated away; `passed` are the start
of a file to which a restarted collector applies the offset saved of an older
one, since `start` restores an offset without its inode and `Scan` only resets
it when the file is shorter. The wtmp file exists: without it the collector
stays off.

### LlmExplain and UserScoring

Two threads, the normalizer's and the event loop's. A context is who, what kind
of alert and which window it is built from; `KeyOf` is the part of it that the
cache's key has, the timeline not among it. The provider answers, times out
(retried), or fails otherwise (never retried, an HTTP status neither). A job
reads a window (`SeenOf`: the *oldest* rows in the look-back, as
`list_event_logs_for_user` orders them), infers one of three bands of risk,
waits for an explanation, stores an alert, stores a score. Feature values and
their names are left out, and so are the counter of users without features
(`user_scoring.py:212-215`), scoring that is switched off (169-172) and an
alert without any explanation (260-263). `analyze_all` stores alerts without a
score.

### LlmMemory and LlmChat

A send is one request of the chat endpoint: accepted in the conversation it
names, in the alert's last updated one or in a new one (`Latest` ignores the
owner, as the query does), then its question is stored, the answer streams,
is stored, and the memories used are counted (`TouchUsed`), each in a
transaction of its own. Storing a question or an answer may fail, on the
database or on a conversation that is gone (`Unstored`), and ends the request
with an error. A memory's content is who judged what about whom, and the note,
as hashed (`llm_feedback.py:60-64`): the same verdict under another note is
another memory, and a verdict that is changed leaves the memory of the former
one behind. Contents without a user have a NULL scope_id and are never found
alike. Verdicts are the only writer of memories in `src/`; an account may only judge if its id is also
an employee's (`llm_feedback.analyst_id` refers to `users`). Employees' chats
store nothing. What is said, decay as a formula, and the conversations that go
with their alert when a loader deletes it (`session.py:2210`, `2308`), are left
out.

### ConnectionPool

`use` is where a thread stands in `pooled_connection`: waiting, setting the
timeout of its kind, in its block, resetting, returning. A block may commit in
the middle, as the loaders do (`CommitBatch`), fail with an exception
(`BlockFails`) or with a `KeyboardInterrupt`, `SystemExit` or `GeneratorExit`
(`Interrupt`), which `except Exception` (`session.py:320`) lets through without
a rollback. `carries` is whose uncommitted statements a connection holds,
`halved` who had some of them committed by another commit than its own, `cut`
whose block such an exception ended. psycopg_pool is external: what it
lends, takes back and drops follows from how `pool.py` uses it. Behind a
transaction pooler, which `pool.py:120-122` mentions, a session's SET would not
stick; the model has the pool connect to the server directly. A second
interrupt, inside the `finally` of a check-out, is left out.

### EventTables and Datasets

A row of the data files is a number, in the order of timestamps; `UserOf` and
`DeviceOf` say whom it names, `Bad` which cannot be read. An event is the row,
its source_id's prefix and the timestamp's format, so that logical duplicates
are visible. Risk scores are abstracted to whether they reach the threshold
for an alert. Each loader is a process whose steps are its transactions;
writers of the same rows wait for one another (`WriteFree`). Transactions that
make alerts again are taken statement by statement under READ COMMITTED: the
DELETE deletes the alerts that were committed when it began (`doomed`), however
long it then waits in `PickAlerts` for another one that is deleting them, so
alerts that this other one commits meanwhile stay. `raced` are the runs this
happened to, those a commit of alerts overtook between their DELETE and their
own commit.

A crash, an error or a statement cut short rolls the open transaction back
(`Crash`). Ctrl-C *between* two statements does not: the exception passes
`except Exception` and the pool's reset commits what there is (`Interrupt`,
with one `Half...` per kind of transaction for what it may have written so
far). `counted` is what the loader will report, `gone` (history) those of the
rows that another loader's `--reset-cert-events` has deleted since - it reports
them all the same (`load_all_data.py:184-185`, `204`) - and `aborted` says
whether a statement failed in its transaction. The server's start seeds,
migrates and links accounts at any moment.

Abstracted: rows without a timestamp (`Bad`) stand for all rows a loader skips,
although `--direct` skips none of them and `seed_mock_data` may keep the user
of one; the LDAP users that a failing import leaves are any subset; the LIMITs
of the alert queries, titles, scores and explanations of alerts.

## 3. Runs

| Run | Question | Instance | States | Result |
|---|---|---|---|---|
| `delivery` | Is the table sound, is any event lost, stranded or claimed twice, does the protocol implement `Delivery`? | 3 sources, 2 rows, ids up to 3, batches of 2 | 725,974 | holds |
| `delivery_live` | Is everything delivered once faults cease, and the oldest first where a batch leaves some behind? | 2 sources, 2 rows, batches of 1 | 93,142 | holds |
| `final_flush` | Are failed records kept, as `buffer.py` and `service.py` say? | 2 sources | | **violated** |
| `normalizer` | Do marks name the right events, does the lock separate ticks, is every user considered for scoring after his logs' events? | 2 replicas, 2 logs of one logical key, one also posted directly | 1,063,066 | holds |
| `normalizer_live` | Is every convertible log converted and scored? | 3 logs: normal, without user, malformed; batches of 2 | 13,408 | holds |
| `enrollment` | Are tokens accounted for and used once unless contended, keys known, revocations kept, whatever is lost, late, repeated or killed? | 1 host, 2 replicas, 2 tokens, 2 agents | 1,166,209 | holds |
| `enrollment_live` | Does a live service show as active, does a revoked one stop? | 2 hosts, 1 replica, 1 token, 2 agents | 11,393 | holds |
| `config` | Do collectors obey the policy, is no record passed over, does a policy arrive, is every record read? | 1 collector, 2 policies, 2 files, 2 records | 419,205 | holds |
| `scoring` | Do scores name their alerts, do explanations fit, do the counters add up? | 2 threads, 2 users, 2 events each, 1 cached | 851,820 | holds |
| `chat` | Are transcripts sound and under their alert, is what is judged remembered once, are the sums right? | 2 sends, 2 conversations, 2 alerts, 2 accounts, 2 verdicts, 2 notes, 2 memories | 134,228 | holds |
| `pool` | Does a connection leak, keep a timeout or commit half a block that nobody cut? | 3 threads, 3 connections, 1 to 2 pooled | 1,381,892 | holds |
| `datasets` | Is what is reported stored unless reset, do keys resolve, are alerts of one import unless overtaken, do assignments survive? | 2 loaders out of 7 kinds, 5 rows, 2 users, 2 devices | 1,123,854 | holds |

**Bounds.** `MaxId` bounds AUTOINCREMENT (rows ever inserted). In `delivery`, a
third insert overflows a table whose two rows are in flight, so that a stale
batch is acked or nacked after its rows were evicted, and a source comes back
under a new id after its ack; the flusher and the final flush can hold a row
each. A source that is evicted and emitted again while its old id is still in
a batch needs a fourth id: that case is left to the proof of `RowsIdentified`,
which holds for any. Batches of two take all there
is; the order of claims shows in `delivery_live`, where a batch is one of two.
`normalizer` needs two rows per batch
for a tick to fail on one row and go on with the next, two logs of one logical
key for a mark to name another source's event, and a direct post for the race
with the tick; more logs repeat these. A look-back starts before all events or
after all of them (`Since`), and a limit of one row shuts out the second event.
Two replicas are enough for every race between two ticks, and the proofs cover
any number. In `enrollment` two
replicas race on a token, and a second token lets one host enroll again, over a
state file it has (`--overwrite`) or lost; two agents are what two replicas can
enroll with a token before either sees it used. `enrollment_live` has two hosts
that may share the token, so that an answer could reach the wrong one; races on
the token are `enrollment`'s question, so one replica is enough. In `config`, two versions are a policy and
a change of it at any point of a pull; two files let a rotation fall between
the stat, the open and the save; two records fill a chunk of two, or leave one
half written. `scoring` cuts the state space at seven steps of progress,
whatever they are (`MaxSteps`), `chat` at four things created (`MaxCreated`):
two overlapping jobs or sends with a failure each fit. Its second account may
not judge, its two alerts are about one employee, so that two memories collide;
of two verdicts and two notes, each may be changed without the other.
`pool` has a connection more than fit, to grow into while another is broken or
belongs to a closed pool. `datasets` starts at most two loaders, which is every
pair of kinds at once or one after the other; files of one and two rows with
batches of one give batch boundaries inside and between files. Its bounds on
the rest of the system: one row comes from agents (`LiveRows`), devices are
assigned to one user or to nobody (`Assignees`), one user's alerts are triaged
(`Watched`), and accounts are locked and unlocked only while a loader uses one,
since nobody else asks. The liveness runs use no symmetry.

**Fairness.** `AgentDelivery`: the asyncio loop runs ready coroutines, the
thread pool runs jobs, the server answers a request that reaches it, and systemd
restarts the agent (`packaging/ueba-agent.service:28`, `Restart=always`):
weak fairness on those steps, none on collectors, administrators, stops or
faults. The property is conditional on faults ceasing, because the network may
otherwise drop every request. The unit's start limit (lines 30-31, ten starts
in 120 s) may end restarts after a crash loop; that an agent is restarted
assumes it does not. `Normalizer`: threads and the database make
progress (weak fairness of `Work`). An administrator may call the admin
endpoint again and again, which disables the steps of the background tick each
time; the lock is handed over and the event loop resumes callbacks in turn, so
`Begin`, `Score` and `End` get strong fairness. `AgentEnrollment`: a replica
ends what it began, the enroll process and the supervisor go on (weak), and a
replica takes up requests that keep coming in their turn, also those of a host
that others overtake (strong). Its faults are the steps of `Mishap` that are
no ordinary work. `LogonCollector`: the supervisor starts the service, `run`
and the loop's pulls go on (`ServiceGoesOn`), and the collector's thread is
scheduled (`Reading`), all weak; policy changes, stops and crashes have none.
`PolicyReaches` assumes that pulls stop failing and the process stops
crashing, `RecordsRead` that reads stop failing while the collector runs.
`UserScoring`, `LlmChat`, `ConnectionPool` and `Datasets` state no liveness:
their work is started by requests or by hand.

**What the violated run shows.** `final_flush`: at a graceful stop the agent
sends one last batch and acks all of it (`service.py:406-411`), also records
the server reported as failed. The flusher loop nacks such a batch, as
`buffer.py:6-8` says.

**Other differences between documents and code.** Met while modelling; the
models follow the code.

* Agents: `docs/OPERATIONS.vi.md:141-142` says row locks keep replicas apart in
  the normalizer (`list_pending_raw_logs` locks none; `normalizer` shows the
  harm is contained). `db/agents.py:269` says a revoked agent's key hash is
  invalidated (only its status changes). `docs/AGENT_DEPLOYMENT.md:385` says
  silent agents are marked offline automatically (only an administrator's
  request marks them). With two replicas (`docs/OPERATIONS.vi.md:126`) a
  one-time token (`db/agents.py:54`) may enroll two agents: the SELECT locks
  nothing, the UPDATE has no condition. `transport.py:198-200` says to retry a
  registration with the same token: after a commit whose answer was lost, that
  is refused. `docs/AGENT_DEPLOYMENT.md:320-321` says one token may be reused
  for many machines; a used token is refused (`db/agents.py:95-96`).
  `collectors/logon.py:14-15` says a rotated file is read from its start: a
  collector that was restarted meanwhile applies the older file's offset to a
  file that has grown as long (`passed` in `LogonCollector`). `service.py:236` says the config loop restarts collectors; it
  only stops them.
* Event store: `ingest_event` (`session.py:469-473`) calls itself idempotent by
  logical key; two overlapping transactions insert one event twice. Rows that
  always fail come first in every batch; as many as a batch holds stop the
  conversion (`docs/AGENT_DEPLOYMENT.md:246` says logs are converted within
  seconds). `session.py:304` asks writers for `write=True`; most do not pass it
  and run under the read timeout. `list_event_logs_for_user` returns the oldest
  rows of the window, not the recent ones its docstring names. `get_connection`
  "rolls back on exception" (`session.py:301`), but only on `Exception`
  (`session.py:320`): a block cut by another BaseException is half committed by
  the pool's reset (`cut` in `ConnectionPool`).
* LLM: `retry.py:48-51` says answers with a retriable HTTP status are retried;
  nothing in it catches them. `cache.invalidate` compares with hashed keys and never
  matches. A failed call counts as two. `create_conversation` has no ON
  CONFLICT, though `llm_chat.py` says so. When counting the memories fails, the
  client is told of an error although the answer is stored
  (`llm_chat.py:15-16`). An analyst's verdict is refused by the foreign key
  unless the account's id is also an employee's.
* Loaders: only `import_cert_full` opens the connection pool; run as scripts
  (`README.md:104`) the others that use it stop with "db pool not initialised".
  `seed_mock_data` and `import_mock_data --direct` swallow errors inside one
  transaction and report rows their commit rolls back, also when a reference
  does not resolve. `import_cert_full`, `load_all_data` and `load_demo_data`
  delete and insert alerts in a transaction that another of them may overtake,
  and both sets stay; waiting for the other's DELETE does not help, since the
  waiting one keeps its snapshot. A reset takes rows that another loader goes on
  to report as imported. An administrator's un-assignment of a device is undone
  by the next import, whose COALESCE fills an empty owner. `load_cert_data` uses the prefix `cert-r4.2:` where the
  others have `cert-r42:`, so the same rows are stored twice. Rebuilding alerts
  removes the analysts' triage. Every server start resets the demo accounts.

## 4. Proofs

Everything below is proved by TLAPS for every value of the constants, from the
assumptions named in the modules only (finite sets of sources, positive
batch sizes, distinct markers).

`AgentDeliveryProofs`, first of `EventBuffer` alone: `BufferCorrect` (well
typed, within capacity, one row per id and per source), `EvictionOrder` and
`ClaimOrder` (what an insert evicts, or a claim takes, is older than what it
leaves). The arguments rest on `Oldest`: it is a subset of the right size that
is closed downwards in the ids. `DeliveryUsesBuffer` shows that every step of
the agent is one of the buffer or leaves it alone, so that `AgentWithinCapacity`,
`AgentRowsIdentified`, `AgentEvictsOldest` and `AgentClaimsInOrder` follow for
the running agent, with its restarts, stale batches and final flush.

Then of `AgentDelivery`: `DeliveryTyped`, `NoSilentLoss`, `NoStrandedRow`,
`NoDoubleClaim`, and `DeliveryRefines`: `AgentDelivery` implements `Delivery`.
The inductive invariant `DeliveryInv` adds to the checked invariants

* `BatchesCurrent`: a batch's rows have ids below `nextId` and agree with the
  table on the source of an id, so that acking a stale id removes that very
  event or nothing (this is why AUTOINCREMENT matters);
* `Settled`: an answer "ok" means the batch is stored, "partial" stored or
  failed, "permanent" refused, so that the ack that follows forgets settled
  events only;
* `Idle`: who does not work holds nothing; `Emitted`: rows, batches and late
  requests carry accepted events only.

`NormalizerProofs`: `NormalizerTyped`, `MarksNameEvents` and
`NoneLeftUnscored` from `NormalizerInv`, whose added parts are `RowsNumbered`
(ids are gapless and distinct, so that the row in hand is unique) and
`HoldRight` (the event in hand has the logical key of the log in hand, and is
committed once the tick is about to mark). A mark may name another source's
event; that its user is nevertheless the log's own follows from the assumption
that the logical key contains the user. `LockSeparatesTicks` shows what the
process lock gives: no two ticks of one replica share a row. `NoneLeftUnscored`
says *considered*, as in section 2: for any look-backs and any limit.

`AgentEnrollmentProofs`, first of the register alone: `RegistryTyped`,
`NoAgentUnaccounted`, `RevocationHolds`, for any number of replicas, from
`RegistryInv`: the types, the accounting of tokens, and that a heartbeat at work
is of an agent that exists. `TokenEnrollsOnce` says, for any number of replicas,
that a token enrolls one agent unless it is `contended`. Its `AloneInv` says of
every token that is not: who registers has it to itself, found it unused, and
the token names the only agent enrolled with it. That a contended token may
enroll two is what the code does, and `TokensAccounted` holds of both.

Then of hosts and register: `EnrollmentRefinesRegistry` (every behaviour of both
is one of the register, so the theorems above hold of it), `EnrollmentTyped` and
`HostsKeysKnown`. `RowsStay` is what carries the latter: rows are never deleted
and an agent's host never changes, so a key that was known when it was handed
out stays known.

`ConnectionPoolProofs`: `PoolTyped`, `NoConnectionLeaks`, `OwnTimeout` and
`WholeBlocks` (whose statements another commit than their own committed was cut
by a BaseException), for any number of threads and connections. `PoolInv` adds
what a connection carries at each step of a check-out: nothing of anybody else's
before the block, after it nothing unless the block was cut, and nothing at all
when it is idle.

`LogonCollectorProofs`: `ConfigurationHolds` is about the configuration alone
and rests on `ConfigInv`: the row, the agent's copy and an answer on its way
agree if they have one version (`Agree`), so comparing versions misses no
change. `LogonUsesConfiguration` makes the agent with its collector a behaviour
of it, and `CollectorsObeyPolicy` follows. `RecordsKept` rests on
`LogonInv`: the reader's file, the file it opened and the current one are in
order (`ReaderFits`), files before the current one are accounted for
(`OldFilesAccounted`), and no offset lies beyond the records of the current
file, where later records would appear before it (`OffsetsWithin`). What it
proves is that the losses are the two named ones: `rotated` and `passed` grow at
a rotation and at the first scan after a start only, and everything else before
an offset was given to the sink or read and dropped.
`LogonTyped` follows from the same invariant.

`LlmChatProofs`: `AnswersStayWithTheirAlert`. Ids of conversations are never
used again (`IdsFresh`), so a request's conversation is the one it found or
gone (`RequestsPlaced`), and a message is in its request's conversation
(`MessagesPlaced`). `TranscriptsHold` adds `TranscriptInv`, which looks at the
logs in two ways: each is in order by itself (`LogsOrdered`), and what is said
at all (`Saying`, without order) matches the stage of its request - nothing
before it was asked or answered (`SaidInTime`), everything afterwards that
nobody wiped (`SaidKept`), no answer without its question (`QuestionsFirst`).
One lemma per kind of step keeps it: opening, going on in silence, speaking,
wiping.

Of the memory alone it shows `MemoriesHold`, from `MemoryInv` (what is checked,
with the types): the uses in the statistics row are the number of pairs of a
memory and a use of it, a cardinality, so that each step changes it by the size
of a set. `OneEach` says that no two memories with a user have one content,
note and all; `NoneMissed`, that a verdict that stands is remembered, still
about to be, or lost to the database or by `forget`. A request that
answers, fails or is cancelled only ever touches memories (`ChatUsesMemory`),
so `ChatStatsAccounted` and `ChatRemembersOnce` hold of the chat. From both
invariants together follow the types of the chat (`ChatTyped`) and that a
lookup by alert has exactly one answer (`LatestFound`): the order of last
updates lists every conversation once (`Listed`), since a rename or a reset
takes a conversation out of its place before it puts it in front.

`UserScoringProofs`: `ExplanationsHold` of `explain_alert` alone, from
`ExplainInv` (no more calls fail or are under way than were asked for; `Moving`
does the sums of all its steps at once), and `ScoringUsesExplain`. `ScoringSound`
is the invariant of the whole, `ScoringInv`. Beside what is checked it says

* `AlertsPlaced`: an alert is on its way to one score at most, stored or still
  a job's, and the job's alert has the job's user, window and grave risk;
* `CallsPlaced`: the call a thread is inside of is about the job it is at, and
  the answer fits its context;
* `StatsInv`: the counters are cardinalities of the jobs at work (`Active`) and
  of those that hold an alert (`Naming`), which a step changes by one thread.

`ScoringTypes`, `ScoresNameTheirAlerts`, `AlertsFitExplanations` and
`StatisticsAddUp` follow.

`DatasetsProofs`: `LoadersSound` is the inductive invariant `DataInv`, for any
files, batch size and number of loaders at once. `TablesInv` is what holds of
the tables whoever writes them. `RunFits` is what holds of a loader between two
of its transactions, whatever the others committed meanwhile:

* `Stored`: what it has counted is in `event_logs` or `gone`, or it is one of the
  two that count before their one commit;
* `WithinFile` and `RowsRead`: it stands within a file, and the users of all
  rows it has read up to there are registered. This is why the owner that
  `load_all_data` finds for a device in an earlier file or batch exists: the
  checked property alone is not inductive;
* `Deletes`: a transaction that makes the alerts again deletes every alert there
  is, or another one has overtaken it (`raced`): the ids of the DELETE's snapshot
  do not change, and an analyst's triage changes no id;
* `Inserts`: what it has made and is yet to make is one alert per user, of events
  that are stored or its own. So the alerts are sound wherever an interrupt
  commits them.

`ImportsStored`, `ReferencesResolve` and `AlertsOfOneImport` follow.
`OwnersKept` is about steps, the half-committed ones among them: COALESCE, the
409 of `POST /devices` and the condition in `initialize_database` keep an owner
and the linked account; an administrator may change an owner or take it away.

Only model-checked: the liveness properties `EventuallyDelivered`,
`ConvertedAndScored`, `ServiceReports`, `RevocationObeyed`, `PolicyReaches` and
`RecordsRead`, since temporal reasoning under fairness is out of the prover's
reach. Every safety property the passing runs check is also a theorem. That
`Count` in `EventTables` ranks users and devices as the SQL does is not stated
anywhere: nothing that is checked depends on who ranks first.

## 5. Not modelled

* **ML**: features, training and inference are floating-point code without a
  protocol; `UserScoring` takes the risk of a window as given.
* **Self-update**: run by hand and alone; download, verification, backup and
  replacement leave two files and involve no other actor.
* **Frontend store**: a browser's copy of what `LlmChat` keeps.
* **Other collectors**: they poll and emit differences, and keep no position
  that survives a restart. The query queue of `http_dns` is in memory,
  unbounded, and lost at a stop.
* **Blocklist**: swapped in by the pull that `AgentConfig` has; it filters what
  a collector emits.
* Prompt wording, schemas, dashboards, CRUD endpoints that are one query each,
  page rendering, the mock-data generator, command line, settings, installers.

What a reader should not take the properties for: `TokensAccounted` holds also
where one token enrolled two agents (`TokenOnceUnlessContended` tells when that
can be); `KeysKnown` says that a key on a host is a registered one, not that a
host whose registration went unanswered has one; `ScoredOrDue` and
`ConvertedAndScored` say that a user was considered, not that a given event was
among the rows read; `TranscriptsSound` holds for conversations that nobody
deletes together with their alert.

What would come next: abstract specifications of the normalizer and of the
loaders, the frontend store over `LlmChat`, and the self-update.
