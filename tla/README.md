# A verification model of etl_mcp_suite

`mcp_stdio` serves the tools of exactly one data-platform plugin (Zeppelin,
Spark, Hive or DolphinScheduler) over stdio. Almost all of its own logic runs on
one asyncio event loop: between two awaits a coroutine runs undisturbed, and at
every await its caller may be cancelled, a timer may fire, another call may run,
or the server may shut down. The models of what runs concurrently take that as
their grain: **one action is what the code does between two awaits** (for the Hive
thread, one call into PyHive; for a scan of an event log, which other processes may
edit meanwhile, one line). What a call computes without an await is an operator,
checked over every input within bounds. Paths are relative to `src/src/mcp_stdio/`.

## 1. Inventory

| Component | State it keeps | Operations | Talks to | What is hard | What makes it correct |
|---|---|---|---|---|---|
| Zeppelin client `plugins/zeppelin/http_client.py`, `websocket_client.py` | one lazy HTTP client, login flag, cookie jar, discovery lock, sets of owned tasks, `_closed`, close task | discover bindings, restart an interpreter for a notebook, restart a setting, plain notebook and paragraph calls, close | Zeppelin over HTTP and one WebSocket per query | every await races cancellation, deadline and close; `wait_for` may swallow a cancellation; a transport that ignores cancellation; a session the server forgets or never gave | sections exclude each other, lock returned, no task or socket left, PUT only under its guard, answers agree with what the server did, nothing done twice, everything ends |
| Zeppelin resources `http_resources.py` | set of live responses and transports | attach, abort | the client | abort while a response is read | an aborted transport ends |
| Zeppelin service and policy `service.py`, `safety.py`, `models.py` | none | allow-list, checkers, normalised states, results, notebook tree | the client | order of the checkers, every statement of a text, limits in bytes on text in characters | what reaches Zeppelin is allowed; truncation and failure are told |
| Spark evidence store `plugins/spark/cache.py`, `service.py` | flock on the directory, download lock, staging and final directories, worker set, `_closing` | lookup, download, close | history server, `files.py` | kills, shutdown while workers unwind, timer against publication, files altered during the many awaits of a lookup | one writer, atomic publication, sound reuse, truthful answers |
| Spark HTTP client `http_client.py` | one lazy client | receive an archive | history server | cancellation while closing the response | response closed before the worker ends |
| Spark archive processing `files.py` | none | unzip, summarise, fingerprint | the store | limits, checkpoints | output agrees with the archive |
| Spark executor logs `executor_logs.py` | lock, staging, workers | resolve, receive, publish, close | history server, node managers, the evidence store | one lock held while queuing for another, redirects, a tail that starts in a line, publication that is stopped between its files | no deadlock, the log asked for and no other, nothing half published, nothing left when the flock goes |
| Spark inspection and metrics `inspection*.py`, `metrics*.py` | none | page through events, overview, aggregate stages and tasks | the snapshot's files | a file that changes while it is read or between pages; bounded lists; missing values | pages partition one snapshot; what is left out is counted; totals say what they stand for |
| Spark runtime `plugin.py` | the four adapters, the flock | close in order | its adapters | `close()` cancelled while it waits | flock released last |
| Hive cache `plugins/hive/cache.py` | ordered dictionary under a lock | get or load | the service's loaders | loads of one key side by side, expiry edge, eviction order | bounded, LRU, a hit is the last result stored |
| Hive queries `pyhive.py`, `service.py` | one connection per statement | run a metadata statement in a thread | HiveServer2 | cancellation of a caller whose thread runs on; clean-up that fails | connection closed before the caller leaves; rows only after a clean close |
| DolphinScheduler `plugins/dolphinscheduler/` | one lazy client | status, lists, search, details, logs, start a workflow | DolphinScheduler | paging against caps, a collection or log that changes between calls, retry after a timeout | nothing lost between pages, no start repeated |
| Server `core/server.py`, `bootstrap.py` | registered tools | dispatch, serve, close | the plugin's runtime | a call in flight when the session ends | one client, closed; the process ends |
| Configuration `core/config.py` | none | load | the environment, a file | three sources, references to secrets | documented precedence, valid when loaded |
| Errors and logging `core/errors.py`, `core/logging.py` | none | classify, redact, format | all | which errors invite a retry | no retry of what may have been done |

The components interact little: a process runs one plugin, whose runtime creates
its client or stores and closes them when the stdio session ends. Inside a
plugin the interaction is by calls: service to client (Zeppelin), service to store
to HTTP client (Spark), service to cache to query thread (Hive). The Spark
adapters share the runtime's directory lock and the store's download lock; two
Spark processes interact through the directory.

## 2. Modules

| Module | Models |
|---|---|
| `InterpreterRestarts` | abstract: what discovery and restart promise |
| `ZeppelinRestart` | owned calls of `ZeppelinHttpClient` and the binding query; refines `InterpreterRestarts` |
| `ZeppelinRestart_proofs` | inductive invariant, theorems, refinement proof |
| `ZeppelinParagraphs` | plain calls, the login and the session they share |
| `ZeppelinResults` | a paragraph's result from the server to the tool's answer |
| `ParagraphGate` | what `add_paragraph` lets through |
| `ZeppelinNotebooks` | the notebook tree |
| `MCZeppelinCalls` | instance of these four |
| `ZeppelinParagraphs_proofs` | theorems about all four |
| `SnapshotStore` | abstract: what the event-log store promises |
| `SparkEventLogStore` | `SparkEventLogAdapter`, `SparkEventLogService.fetch` |
| `MCSparkEventLogStore` | its refinement of `SnapshotStore` and symmetry |
| `SparkEventLogStore_proofs` | inductive invariant, theorems, refinement proof |
| `ExecutorLogStore` | log fetches, scans and downloads under `SparkRuntime.close` |
| `ExecutorLogStore_proofs` | inductive invariant and theorems |
| `ExecutorLogRoute` | from an executor's registrations to the text of its log |
| `EventReader` | `VerifiedEventLogReader` and a caller that walks through pages |
| `InspectOverview` | the overview of an event log |
| `StageMetrics`, `TaskDistribution` | the two metric scans |
| `Orders` | what `sorted` and a filter return |
| `MCEventLogReaders` | instance of the five readers above |
| `MCEventLogReaders_proofs` | an inductive invariant and theorems for each of the five |
| `HiveMetadataCache`, `MCHiveMetadataCache` | the TTL/LRU cache and its requesters; symmetry |
| `HiveMetadataCache_proofs` | inductive invariant and theorems |
| `HiveQuery` | statement thread, clean-up and cancelled callers |
| `DolphinCalls` | requests, errors and retries |
| `DolphinPages` | lists and searches followed page by page |
| `DolphinLogs` | a task log that is followed, and its links |
| `ServerLifecycle` | `main`, `serve`, `call_tool` and a lazily built client |
| `ConfigLoad` | `load_config` |
| `MCServer` | instance of the five above and `HiveQuery` |
| `MCServer_proofs` | an inductive invariant and theorems for each of the six |
| `DataLemmas` | lemmas on numbers, sequences, sums and filters for all proofs |

Three MC modules instantiate several specifications that share no state. `part` is
chosen by the initial predicate and never changes; the variables of the other
specifications stay as they are. Every behaviour is a behaviour of one of them, so
a property of a part says what it would say in a run of its own.

### Zeppelin

**ZeppelinRestart.** One record of per-call variables stands for one call: `caller`
is the coroutine in `_await_owned_task`, `task` the owned task in
`_serialized_discovery` or `_serialized_restart`, `inner` the task it currently
awaits (preparation, the query's `work`, or the PUT; they never overlap),
`pendingCancel` a `task.cancel()` whose `CancelledError` has not been raised yet.
`task` walks

    created -> acquire -> prepare -> prejoin -> query -> qclose -> put -> putfinish -> release -> done

and from each await of that walk may leave through the clean-up that its `finally`
block is (`CleanupOf`). The actions and the code:

| Action | Code |
|---|---|
| `Begin`, `CallerCancelled`, `CallerReturns` | `get_interpreter_bindings`, `restart_interpreter`, `_await_owned_task` |
| `LockGranted`, `LockAcquired`, `LockReleased` | the acquisition task, `_release_discovery_lock` |
| `CancelDelivered`, `TimedOut`, `InnerReturned` | the three ways `wait_for` / `asyncio.wait` ends |
| `ClientBuilt` | `_ensure_client`, the first step of a preparation |
| `PreparationJoined` | the `finally` of `_discover_locked`, then the start of `query_bindings` |
| `QueryClosed` | `_BindingQuery._close`, whose closing of the socket may fail and is then an abort, the checks before the PUT and the creation of its task |
| `PutLeaves` | the request of that task leaves, a turn of the loop later or more |
| `PutFinished` | `_finish_http_work`, then parsing the answer |
| `PreparationEnds`, `SocketOpens`, `QueryEnds`, `PutEnds`, `InnerStops` | what the inner tasks report |
| `ServerRestarts` | the Zeppelin server, in its own time |
| `Close`, `CloseCancels`, `CloseJoined`, `CloseClient` | `close`, `_close` |

`InnerReturned` clears a pending cancellation without raising it for the phases
that use `wait_for`: that is the swallowing of Python 3.10 and 3.11. In the query
the code uses `asyncio.wait`, which does not swallow. `server` is what became of the
PUT: `due` from the creation of its task, `sent` once it has left, `performed`. Between
`due` and `sent` a cancellation or `close()` may come, and a PUT whose transport ignores
them leaves after its call has given the lock back: that is what `RestartGuarded` says of
the two moments.

**ZeppelinParagraphs.** A call is `idle`, waits for a `login` or a `request`, or is
`done`. `cookie` is the session its request carries, `wire` where the request is:
one that was given up (`Fails`) may still be `sent` and be served later.
`authenticated` and `jar` are the client's, `sessions` the server's; `SessionsDrop`
is the server forgetting them. An answer is reduced to its code (below 400, 401, or
400 and more), its body and the cookie it sets, if any: a login below 400 sets the flag
whether it opens a session or not, as a redirect to a login page does (`LoggedIn`,
`Kept`). Calls read the flag, log in side by side and
overwrite each other's cookie as the code does, which has no lock there. `effects`
and `seen` are history: what the call changed and the states the paragraph had when
it was served.

**ZeppelinResults.** A text is the sequence of the widths of its characters in
bytes, so that a limit may fall inside one. `Outputs`, the error and the limits of
the result models are applied in the order of the code, the exceptions included
that a refused model raises.

**ParagraphGate** is `AddParagraph`: arguments, the interpreter the body names,
then the checkers of `ParagraphSafetyHook` in their order, each on every statement
of every SQL text, those embedded in other languages as well. **ZeppelinNotebooks**
reads one listed entry per step into the tree, so that the tree's invariants hold
after each. Entries may have one path: the last of them has the node.

### Spark

**SparkEventLogStore.** A snapshot is named after the fetch that made it, because
the final directory's name contains a fresh random part. `pc` is where a fetch is:
`verifying` (the manifests of the candidates), `hashing` (the files of the chosen one),
`queued` for the download lock, `locked`, `receiving`,
`processing`, `unwinding` (the wait for a request that was interrupted), `ended`
(worker over, `wait_for` not resumed), `done`, or `dead` with its process. `flock`
is the lock on `root/.lock`; `Killed` frees it and leaves the staging directory.
`Published` covers the manifest, the removal of the archive, the rename and the
release of the download lock: there is no await between them. `Tampered` is
somebody altering a piece of a saved snapshot's files or its manifest, at any moment.
A lookup has an await per manifest and per chunk of 65,536 bytes, and so is a step for
each: `ManifestRead` (a manifest of another history server is skipped), `NewestChosen` or
`LookupMisses` after the last, `PieceHashed` for each piece of the chosen snapshot, then
`LookupEnds`; `LookupFails` is a manifest or piece that is not as it should be. `altered`
is the pieces that differ from what was published, `found` those that already did when
the lookup chose its snapshot.

`fetch`, `download` and `receive` are three `asyncio.wait_for` around one another.
Each cancels what it waits for and then waits for it to end. Up to Python 3.11 it
stops waiting when it is cancelled itself meanwhile; since 3.12 it does not
(`PatientWaits`). `requests` is the set of fetches whose `_receive` runs:
`Interrupted` is the inner `wait_for` cancelling it, `RequestEnds` the response
being closed, `Unwound` the worker going on, with the request over or, without
`PatientWaits`, after a second cancellation. `DownloadLeaves` is `download` giving
up its worker in the same way: the worker is then `forgotten`, it runs on but is in
`_acquisitions` no longer. `Close` takes the workers that are in it once (`awaited`) and
waits for all of them, also for those that are forgotten meanwhile. `CallerLeaves` is `fetch` doing so to the download.

**ExecutorLogStore** is the runtime as a composition: log fetches, scans of saved
logs and direct downloads, each with its worker's `pc`, under the three phases of
`closing` (`logs`, `scans`, `store`) of `SparkRuntime.close`. A log fetch holds
`lock` from its resolution to its publication and may start a download, whose own
task queues for `dlock`; `fetch`, `dstop`, `dending` are that task's. What a
download does inside its section is `SparkEventLogStore`; here it holds the lock,
has a staging directory, publishes or fails. Publication is `Staged`, `LogWritten`,
`ManifestWritten`, `Published` with an await (a checkpoint) between each.
Each phase takes the tasks its adapter
knows of once (`awaited`) and ends when they have. `CloseInterrupted` is a cancellation of
`close()` itself: `gather` passes it to those tasks once more and still waits for them.
The lookup of a fetch of the event log runs in the task of its caller (`looking`), which
no adapter owns and no `close()` joins.

**ExecutorLogRoute.** A URL is reduced to where it leads and which log it names.
`Resolve` is `_resolve` with its choice among the registrations, `Redirected` one
step of `_LogRoute`, `Refused`, `NotALog` and `ConnectionFails` are the other
answers, `LogPage` is `parse_log_html` and what `_receive` makes of it: the tail,
its first piece of a line, the coverage. The length a page states (`stated`) is any, or
none: the log may have grown since it was read.

**EventReader.** `log` and `manifest` are the files, `scan` the read under way with
what it has digested, `walk` the caller's side: the digest it was given, the lines
it was shown. `EditLog`, `ReplaceLog` and `RewriteManifest` happen between any two
lines and any two pages, and may leave the size or the times that the reader
compares as they were.

**InspectOverview, StageMetrics, TaskDistribution** take one event per step. They
keep the counters, heaps and bounded lists of the visitors; `events` is the log so
far and only the properties read it.

### Hive

**HiveMetadataCache.** The `OrderedDict` is `entries`, what is stored under the keys
it holds, and `order`, the pairs of keys of which the first comes before the second;
`move_to_end` and `popitem` are operators on those pairs. A request
that misses runs its loader outside the state lock, so `Request`, `Read` and `Store`
of two calls interleave. What is read is a pair: the schema of a table with its DDL takes
two statements (`Read`, `ReadDDL`), anything else has both halves of one. Hive's metadata
is a version number per key, the clock a counter. `floor`, `lastPut` and `recency` are history: they record what properties
refer to and guard nothing.

**HiveQuery.** `caller` is the coroutine in `_execute`, `thread` the step of
`_execute_blocking`. An invocation has one statement, or two for `get_table_schema`
with `include_ddl`. Each clean-up step may fail; `conn = "leaked"` is a connection
whose `close` and whose transport's `close` both raised.

### DolphinScheduler, server, configuration

**DolphinCalls** is one caller of `start_workflow` or `get_object` who repeats a
call exactly when the error says `retryable`. `strays` are start requests that were
given up and may still arrive. **DolphinPages** is a caller who follows pages while
an answer says `truncated`, over a collection whose objects appear and vanish;
`Page` computes an answer as the service does, from the server's page, the filter,
the total and the caps. `lost` records that `max_detail_items` cut an answer.
**DolphinLogs** is the same for `get_task_log`, from each answer's `line_num`, while the
task writes. Whether an entry bears the number of its line is up to the server; `told`
records that the last one of every answer did.

**ServerLifecycle.** `phase` is `main`, `session` the MCP session, `call` a handler;
`client` is built by the first request. A gateway that has been closed does not
refuse a call, so what keeps a second client from being built is that `serve`
returns only with its handlers (`Returned`). **ConfigLoad** has one action per step
of `load_config`; a value is the source it came from. What the plugin's two models refuse
is part of the input (`schema`): a value of one field, as by a field validator, or the
values of several together, as by `validate_basic` or `require_paired_credentials`.

### Variants

Beside some definitions stand variants (`UnlockedUnlessExpired`, `GatheredNone`,
`CapAsGiven`, ...): plausible mistakes in that very piece of code. Nothing uses
them in the specification. Putting one in the place of the definition it stands
beside makes the property that guards it fail, which shows that the property does
depend on that code.

## 3. Runs

| Run | Instance | Question and result |
|---|---|---|
| `zeppelin_restart` | one discovery, one restart with a stubborn PUT | `LockNotLeaked`, `OwnedWorkEnded`, `AnswerTruthful`, `ShutdownQuiescent`, `RestartGuarded` and the refinement `ImplementsContract` hold; `CallsEnd`: each call ends by its deadline; `LeavesPromptly`: a cancelled caller and a shutdown need no deadline |
| `zeppelin_calls` | two plain calls of five operations; results of two outputs; bodies of two statements; three notebooks | `OneEffectPerCall`, `SessionHonest`, `ResultsHonest`, `BodiesGated`, `NotebooksListed` hold |
| `spark_safety` | two fetches, two processes, two selections, Python 3.12 | `OneAcquisition`, `NoRemnants`, `WritesUnderFlock`, `HitIsSound` and the refinement `ImplementsPromise` hold |
| `spark_choice` | three fetches of one selection in one process, a clock of two ticks to a second | `NewestToTheSecond` holds: of several candidates one of the latest second is reused |
| `spark_live` | two fetches of one selection in one process, Python 3.11 | `NoRemnants`; `FetchEnds`, and `CloseEnds` without any deadline |
| `executor_safety` | a log fetch, a scan and a direct download, Python 3.12 | `OwnedUntilRelease` holds, also when `close()` is cancelled: of the tasks the adapters own |
| `executor_live` | two log fetches with downloads, Python 3.11 | `PublishedWhole`; `CallsEnd`: no deadlock on the two locks; `CloseEnds` |
| `event_logs` | see bounds | `ReaderHonest`, `RouteHonest`, `OverviewHonest`, and `MetricsHonest`, which is `StagesHonest` and `DistributionHonest`, hold |
| `hive_cache` | two requesters, three keys, capacity 2, TTL 2 | `AnswersHonest`, `EvictsLeastRecent` hold |
| `server` | see bounds | `OneStartPerCall`, `PagesHonest`, `LogWhole`, `ConfigRight`, `ClientRight`, `ShutdownEnds`, `QueryReleased`, `QueriesEnd` hold |
| `spark_newest` | three fetches, clock of two ticks to a second | `NewestReused` **fails**: see below |
| `executor_unowned` | one log fetch, Python 3.11 | `OwnedUntilRelease` **fails**: see below |

Bounds, and why they are enough.
*Zeppelin, owned calls*: calls interact only through the lock, the client and
`close()`, and every property speaks of one call and the owner of the lock, so two
calls, one inside and one outside, show every kind of interference; the safety
results are moreover proved for any number.
*Zeppelin, plain calls*: they interact only through flag, cookie and sessions; two
calls log in side by side, and one may find the session of the other gone
(`MaxDrops = 1`); `MaxRuns = 1` is a run of the paragraph that somebody else starts,
which makes it leave a final state between two calls. The restart of a whole setting
is left out of the instance: it goes the way of a cancel, which also changes the
server once. Results (constants in `MCZeppelinCalls.cfg`) have limits of 4 and 8 bytes
and characters of 1 and 3, so that a cut falls before, inside and after a character;
two statements put the offender first and last; three notebooks of depth three make a
folder that is a notebook too.
*Spark store*: two processes give the hand-over of the directory; two fetches the
contention for the download lock and a reuse; two selections a lookup with foreign
candidates; two pieces and one edit a file that is altered before, behind or ahead of the
hash (`MaxEdits = 1`, `Pieces = 2`). A lookup with two candidates needs three fetches: `spark_choice` and
`spark_newest` have three, and `MaxClock = 3` and `2` with two ticks to the second, which
gives equal, fractional and whole times and, in the first, later seconds; in the others
time stands still.
*Executor logs*: one call of each kind meets every pair of lock, queue and phase of
`close()`; two log fetches are what a wait on the two locks needs.
*Event logs* (constants in `MCEventLogReaders.cfg`): six lines with three matches and a
limit of two make two pages, two edits one during each of two reads, and two logs of
one size defeat the check of sizes; two hosts with several ports distinguish all
that a route compares, and a chain of redirects longer than the three allowed; logs of 0, 3 and 4 bytes with stated
lengths of 2, 3 and 4 give lengths below, at and above the tail and the log; five
events overflow evidence lists of two at every priority; three events give a stage
that is submitted, completed and submitted again, and a median between two values.
*Hive cache*: three keys in two places force eviction, `MaxTime = 3` with `TTL = 2`
lets an entry expire and another be stored after it, `MaxVersion = 1` distinguishes
before and after one change; one of the keys is a schema with its DDL.
*Server* (constants in `MCServer.cfg`): three calls give a second caller that finds the
client and one that is cancelled; two Hive invocations share one thread, so that each
waits for the other; two fields of each kind are a required and an optional one, and the models refuse nothing, a value or a pair of
values; two
repetitions give two strays; page sizes are none, the default of 1 and one above the
maximum of 3, with three objects of which an answer lists two, so that pages of three are
cut; a log of three lines is cut in the middle of its last one.

Symmetry is used where calls, requesters or keys are interchangeable, and never in a
run with a liveness property. Deadlock is checked in every passing run but
`zeppelin_calls`, `event_logs` and `server`, where a part is over after its last
event or when its process has exited; in the others `Finished` is the stuttering
of a system whose calls have all returned, and the cache's requesters ask again.

### Disagreements found

* `NewestReused`. The specification of the download tool says that a call without
  `refresh` reuses the newest matching snapshot. `lookup` takes the greatest pair
  of the *text* of `downloaded_at` and the path. `isoformat()` omits a zero
  fraction, and `Z` sorts after `.`, so a snapshot saved exactly on a second is
  taken for newer than one saved later in that second.
* `OwnedUntilRelease`. The specification of executor logs says that owned work ends
  and staging is cleaned before the directory lock is released. Up to Python 3.11
  `wait_for` leaves a task it has cancelled when it is cancelled itself before that
  task has ended, and `finally` drops the task from `_acquisitions`. This is so for
  `fetch` when the service's timer runs out just behind its own, and for the download
  under it when a `close()` that gathers is cancelled. A task that was dropped before
  its adapter's `close()` takes its snapshot is not waited for, and the lock is released
  over it. With Python 3.12 the property holds.

Configurations that are kept beside the runs show more of the kind; each finds its
properties violated, one at a time where it lists several:

| Configuration | Property | What it shows |
|---|---|---|
| `MCSparkEventLogStore_impatient.cfg` | `Serialized` | Python 3.11: an acquisition may start while the request of the one before still closes its response |
| `MCSparkEventLogStore_impatient.cfg` | `WritesUnderFlock` | Python 3.11: the store's form of the second disagreement above |
| `MCSparkEventLogStore_altered.cfg` | `HitIsWhole` | a piece that is altered once it has been hashed, before the lookup ends, is handed out |
| `ExecutorLogStore_lookup.cfg` | `ReadUntilRelease` | the lookup of `fetch_spark_event_log` runs in its caller's task, which `close()` does not join: it may read the directory after the lock's release |
| `MCEventLogReaders_length.cfg` | `RouteComplete` | a stated length that is as small as the tail given makes `complete` of it, a piece of a line included |
| `MCZeppelinCalls_stronger.cfg` | `CarriesSession` | a login answered below 400 without a session (a redirect) sets the flag: the requests that follow carry none |
| `MCZeppelinCalls_stronger.cfg` | `NoneLost` | of two notebooks with one path the tree has one |
| `MCHiveMetadataCache_ddl.cfg` | `AnswersOfOneMoment` | a schema with its DDL may be columns of before and a DDL of after a change, and is cached |
| `HiveQuery_connections.cfg` | `OneConnection` | `get_table_schema` with `include_ddl` opens two connections, one after the other, where the specification says one per uncached invocation |
| `DolphinPages_bounds.cfg` | `CutIsTold` | with `max_detail_items` below the page size objects are cut that no page shows, and `truncated` may be false |
| `DolphinPages_bounds.cfg` | `DefaultCapped` | a default page size above `max_page_size` is not capped |
| `DolphinPages_bounds.cfg` | `PageBounded` | types the server lists in one piece may come in more objects than the page size that is reported |
| `DolphinLogs_cut.cfg` | `IdsWhole` | the cut of a log at `max_log_bytes` may fall inside an application id, of which a shorter id remains |
| `ZeppelinResults_stronger.cfg` | `FailureReported` | the tool's specification has a failed paragraph reported with its error text bounded by `max_result_bytes`; the detail that the text goes into takes 4,096 bytes at most, so a long traceback makes the result's construction raise and the tool answers `UPSTREAM_ERROR` |
| `ZeppelinResults_stronger.cfg` | `TotalBounded` | `max_result_bytes` bounds each output, not the result |
| `ConfigLoad_secrets.cfg` | `OverriddenReferenceIsUnused` | a secret whose variable is set still fails when the reference in the file does not resolve |

The DolphinScheduler paging is known to the repository: the tasks of its change
`fix-dolphinscheduler-pagination` under `openspec/changes` are not ticked yet.

## 4. Fairness

* `FairSpec` of `ZeppelinRestart`, `SparkEventLogStore` and `ExecutorLogStore`: weak
  fairness of each call's loop steps and of the steps of `close()`, since the loop
  runs every ready callback in turn. Nothing is assumed of the servers, of callers,
  or of when `close()` comes: no fairness for the actions that end inner work, except
  that a *cancelled* inner task stops (`InnerStops`, `RequestEnds`), which the abort
  of the transport and the closing of a response bring about without the peer, and
  not for a stubborn PUT. Locks are granted to any waiter: `asyncio.Lock` is first
  come first served, and the liveness results do not need it.
* `Timers` (deadlines pass) is not part of `FairSpec` but the antecedent of
  `CallsEnd` and `FetchEnds`. `LeavesPromptly` and `CloseEnds` do without it: they do
  not depend on any deadline.
* `ServerLifecycle`: `main`'s close, the client's close and the handlers, whose
  requests have timeouts. Sessions need not end and calls need not be made.
* `HiveQuery`: each PyHive call returns or raises. The adapter has no timeout of
  its own, so this is an assumption about HiveServer2 and the socket layer and not a
  fact about the code: a server that never answers holds its caller for ever.
* `DolphinLogs`: the reader of a log asks again. It is a caller that goes on, not
  something the code does.

## 5. Proofs

TLAPS checks these for every value of the constants that meets the named assumptions,
each of which TLC evaluates in a run. Every inductive invariant was first checked by
TLC as an invariant of the instance.

### Zeppelin's owned calls

`ZeppelinRestart_proofs` proves, for every set of calls and from
`CallsAssumption` only (restarts are calls, stubborn calls are restarts, `NoCall` is
none):

| Theorem | States |
|---|---|
| `TypeCorrect` | `Spec => []TypeOK` |
| `SectionsExclusive`, `LockReturned` | `[]SectionHoldsLock`, `[]LockNotLeaked` |
| `WorkEnds` | `[]OwnedWorkEnded` |
| `AnswersTruthful` | `[]AnswerTruthful` |
| `ShutdownComplete` | `[]ShutdownQuiescent` |
| `RequestGuarded` | `RestartGuarded` |
| `ContractImplemented` | `Spec => Contract!Spec` |

The argument. None of the invariants is inductive alone; `IInv` adds what links
them. `CallerInv` ties a task's existence to its caller, so that a task cannot run
for a call that returned. `LockInv` is the two lock properties together: a grant
needs a free lock, and a lock held in `acquire` or `release` must not be counted as
free. `WorkInv` ties inner task, socket, selection and request to phases: without it
a clean-up could find work it does not know of, and `OwnedWorkEnded` would not
survive the step from `release` to `done`. `AnswerInv` carries "performed and
selected" from the PUT's own OK through `putfinish` and `release` to the caller, and
says that no error of a restart is retryable. `CloseInv` says that nothing of an
owned call is left once the gather is over, and no call starts later since `_closed`
is set before the gather: so no client is opened after the last one was closed.
Each part has one lemma with one step per action. `RequestGuarded` and
`ContractImplemented` follow from `IInv` and one look at each step: the contract's
`holder` is the call inside its section, which mutual exclusion makes unique, so
entering, leaving, requesting, sending, performing and answering map to the contract's actions
and everything else to a stutter.

### The stores of Spark

`SparkEventLogStore_proofs` proves, for any fetches, processes, selections and
contents of the directory, and from `StoreAssumption` only, `TypeCorrect`,
`OneAtATime` (`[]OneAcquisition`), `NothingLeft` (`[]NoRemnants`), `WritesGuarded`
(`WritesUnderFlock`), `HitsSound` (`HitIsSound`) and `PromiseKept`, the refinement of
`SnapshotStore`. `IInv` holds whatever `wait_for` does: `ProcInv` says whose the
directory is, `OwnerInv` that a worker its store still knows of has a living process,
`LockInv` that every worker inside the section, forgotten or not, is the one that the
download lock of its process names; the last two make the holder unique over all
processes. `SavedInv` says what a worker's place means for the directories, and
`SeenInv` that a lookup's candidates were published for the selection it looks for, and that no
piece it has hashed was altered when it chose the snapshot.
`OneAtATime` and `WritesGuarded` carry the hypothesis `PatientWaits`. It is not a
technicality: without it (up to Python 3.11) both are false, as TLC shows with
`MCSparkEventLogStore_impatient.cfg` for the second. The refinement needs no such
hypothesis: `LeaveInv` says that a worker is forgotten only past its deadline, and past
it nothing is published, so that such a worker may still write without the lock but
breaks no promise. Publications, answers and the opening and release of the directory
map to the steps of `SnapshotStore` and everything else to a stutter.

`ExecutorLogStore_proofs` proves, for any calls of the three kinds and from
`RuntimeAssumption`, `TypeCorrect`, `NoneOutlivesLock`
(`PatientWaits => (Spec => []OwnedUntilRelease)`) and `WholeOrNothing`
(`[]PublishedWhole`, with any `wait_for`). `CloseInv` adds to the property the phases
before the release: when the workers of a phase have been joined none comes back,
because `closing` refuses it. `FilesInv` ties the files of a log to the step of its
publication, so that a final name never stands for a part. The property is about the tasks that an
adapter owns: the caller's own lookup is none.

### Zeppelin's plain calls and tools

`ZeppelinParagraphs_proofs` proves, for any finite set of calls, any tools and any
number of expired sessions and foreign runs (`CallsAssumption`, `OpsAssumption`,
`BoundsAssumption`), `TypeCorrect`, `OneEffect` (`[]OneEffectPerCall`) and `AnswersHold`
(`[]SessionHonest`). What happens to a call concerns no other, so `CallInv` is a
predicate of one call and of the number of sessions issued, kept by each of its nine
steps and by every step of another. `LoginInv`, that those who may still log in and
the sessions issued are together no more than the calls, is what bounds the logins; it
is the only part about all calls at once.

Beside them it proves of the tools, from `ToolsAssumption` (an interpreter is not
called "none" or "malformed", which stand for a body that names none):
`GateHolds` (`[]BodiesGated`) for any lists of interpreters, keywords, databases and
commands and texts of any number of statements, where the lemma `FirstIsFirst` says
that the first rejection decides; and `TreeHolds` (`[]NotebooksListed`) for any
number of notebooks at any depth. `TreeInv` is `FoldersComplete`, without which a path
might be entered below a hole, and `Carries`: a node carries what was read last at its
path, and a path that was read has a node that carries something. The kinds of statements are
those of the model; a new kind would be a new model of the regular expressions.

`ResultsRight` (`[]ResultsHonest`) holds for any limits, any number of outputs and any
texts of characters of one byte or more (`ResultsAssumption`). The server's paragraph
never changes, so the invariant is short and the work is in the operators: by
`BytesCount` a prefix that is longer by a character has that character's bytes more,
and by `TruncatedRight` what `Truncate` keeps is the longest prefix that fits, or all.
The states of a paragraph and the kinds of an output are those of the model.

### The readers of Spark's logs

`MCEventLogReaders_proofs` has an inductive invariant for each reader, from
`ReaderAssumption`, `RouteAssumption` (the response limit is a number, no allowed
backend has port 0), `TextAssumption` (a line has a byte at least) and
`ListsAssumption` (lengths and limits are numbers, and what is kept is at least one).
The logs are of any length and the limits arbitrary; the values in an event are those
of the model.

| Theorem | States | Invariant |
|---|---|---|
| `SnapshotRead` | `[]ReaderHonest` | the page under construction holds exactly the matches of the lines read so far that follow the page before; a walk that goes on has one digest, whose log those pages are of |
| `RouteKept` | `[]RouteHonest` | the node and the history server met first are pinned and every request made fits them; the coverage that is told and the lines that are given are right for the log that answered |
| `TasksRanked` | `[]DistributionHonest` | a task that was dropped is below all that are kept, and then the heap is full; the samples and the missing values are those of the events |
| `NearestRank` | the integer formula of the code is the least rank that covers `q` of every hundred | none: arithmetic |
| `WorstShown` | `[]OverviewHonest` | the same of the evidence of failures, by priority and then by time; the endings kept are the first ones |
| `StagesKept` | `[]StagesHonest` | what is kept of an attempt is right, its running totals included, and nothing was seen of one that is not kept |
| `MetricsKept` | `[]MetricsHonest` | none: the two above together |

"And then the heap is full" is what makes `TaskInv` and `OverviewInv` inductive: below the
limit nothing may have been dropped, or an event that comes later could leave a gap.
`Orders` defines what `sorted` returns by counting what comes before; the community
modules' `SortSeq` leaves open how it places equal elements, where Python's sort is
stable, so a proof about it would have been about less than the code does.

The text of an executor's log is told of by sums of bytes. `BytesBelow` and `BytesFall`
say that the bytes from a line on are those of it and of the lines after it, and so fall
from line to line. From this follow that the last bytes of a log are the end of it in
pieces of which only the first may be cut (`LastBytesTail`), that they are all of it when
they are as many (`AllOfIt`), and that a text which is too long loses its first lines and
no other does (`TailCut`). `TextAssumption` is needed: a line without a byte would be lost
with nothing to show for it. For `StagesKept` the lemmas `TotalsStay` and `TotalsGrow` say
what one more event does to the set of tasks a total is the sum over.

### Hive

`HiveMetadataCache_proofs` proves, for any requests, keys, capacity, TTL and bounds and
from `CacheAssumption`, `TypeCorrect`, `AnswersTrue` (`AnswersHonest`) and
`EvictionRight` (`EvictsLeastRecent`). `OrderInv` is the heart: the order of the
dictionary is a strict order and agrees with the history `recency` on the keys it
holds, so that the first key, of which the lemma `Least` and a count of what comes
later show that there is one, is the one used least recently. `EntriesInv` links an
entry and its expiry to the last put, `CallInv` what a request has loaded to what was
current while it ran; between the two, requests interleave freely.

### Server, statements and configuration

`MCServer_proofs` proves `OneClient` (`[]ClientRight`), `QueriesRelease`
(`[]QueryReleased`) and `ConfigLoads` (`[]ConfigRight`) for any calls, threads and
fields; only the last needs an assumption (`FieldsAssumption`: required fields are
fields). The client's state is that of the phase, and a handler runs only while
`main` is serving (`ServerInv`): so nobody is left to build a client after `close`.
`QueryInv` says for each step of a statement's thread which of connection, cursor and
caller it may find. `ConfigInv` says for each step of `load_config` what of each field
is settled. The parts of `MCServer` share no variable, so each has its own invariant.

### DolphinScheduler

The same module proves of its calls, for every `MaxRepeats` and from
`RepeatsAssumption` only, `CallTypes` (`[]TypeOK`), `NoRepeatedStart`
(`[]OneStartPerCall`) and `RepliesFinal` (`[]RepliesAreFinal`). `OneStartPerCall` is not
inductive: the request that is out will start an instance when it arrives. `CallInv`
counts it (`Outstanding`) with those that have arrived and those that may, and the sum
never exceeds the calls made: a step moves one start from one of the three to another.

`PagesComplete` (`[]PagesHonest`) holds for any number of objects, readable or not, and
any page sizes. `SteadyInv` says what a walk that nothing has disturbed has been shown:
the readable among the objects of its pages so far, and that more is promised exactly
when the collection reached further. Objects may appear at its end meanwhile; one that
vanishes or appears elsewhere, or an answer without a total, ends the promise, in the
property as well, and so does an answer that `max_detail_items` has cut. The three bounds
are any integers, in any order (`PagesAssumption` is their types): nothing in the code
relates them, and `DolphinPages_bounds.cfg` shows what the unhappy orders do.

`LogsKept` (`[]LogKept`) is the safety half of `LogWhole`: whatever limits a reader
asks for and however the log grows, following `line_num` gives every line with text,
once and in order, provided that answers number their last line (`told`), and the links found are all there if there is room. Its
invariant `LogInv` adds only that the next read starts within the log. That the reader
arrives at the end of a finished log is the other half, and stays with TLC.

### Data

Several of these proofs are about what a filter, a sum or a walk along a sequence
computes. The library's induction theorems take an operator as a parameter, which the
provers cannot instantiate; `DataLemmas` takes a *set* instead. `Least` gives a least
element of a set of numbers, `AllNumbers` the principle that a set with 0 and the
successor of each of its elements holds all of them, and a lemma then names the set of
numbers for which its claim is true. From these: `AllSequences`, how parts of a
sequence join, that a sequence without repetition has as many items as values, how a
sum of the community modules changes by one element (`SumStep`, `SumWithout`,
`SumWith`: the recursive function behind it exists and does not depend on the order),
and what a filter returns (`PickedStep`, `PickedParts`, `PickedDistinct`). Filters are
`Picked` of `Orders` in the model because `SelectSeq` is a recursive function inside a
library definition that the provers do not open.

### What is only model-checked

* Liveness under fairness (`CallsEnd`, `LeavesPromptly`, `FetchEnds`, `CloseEnds`,
  `ShutdownEnds`, `QueriesEnd`), which is beyond the prover.
* The second half of `LogWhole`, `<>[]Logs!AllRead`: liveness as well.
* The properties of the runs that expect a violation, of course.

## 6. Not modelled

* Zeppelin: the frames of the WebSocket receive loop; the listing of interpreter
  settings; a preparation whose transport ignores cancellation (only the PUT may);
  the regular expressions of the SQL policy, a statement being reduced to its keyword
  and the database it writes to; `http_resources.py` beyond what the client relies on.
* Spark: the walk through an archive, its limits and fingerprints (bytes, without
  state that outlives a call); login and header checks of the history server; selection
  and redaction of an event's fields; filters of the metrics by stage.
* Hive: parsing of rows and identifiers, timeouts of the transport.
* DolphinScheduler: `get_server_status`, the fields of an object.
* Server: registration of tools and plugins, which are constant tables; argument
  schemas; formatting, redaction and correlation ids of errors and logs.

## 7. Plan

1. `HiveService` composing `HiveMetadataCache` and `HiveQuery`: an entry is stored
   only after a clean close.
2. The WebSocket's receive loop as a refinement of `query` in `ZeppelinRestart`, and
   a preparation that ignores cancellation.
3. The archive walk with its limits as operators against a reference definition.
