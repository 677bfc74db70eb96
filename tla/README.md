# Verification of the crossmatch service

These modules model the SCiMMA crossmatch service (`src/crossmatch`): the
service takes Rubin alerts from three brokers, crossmatches them in batches
against astronomical catalogs, and announces each match on Hopskotch (Kafka).
A read API and a chat endpoint (MCP) answer questions about the results. TLC
checks small instances of the models; TLAPS proves the most important properties
for every value of the constants.

Contents: 1 the system; 2 the modules and how they correspond to the code;
3 the runs; 4 the proofs; 5 what disagrees with the documentation; 6 what is not
modelled; 7 the plan.

## 1. The system

Every component is a client of one PostgreSQL database. Nothing is passed
between them except rows, Celery messages (through Valkey) and Kafka messages.

| Component | State it keeps | Operations | What makes it correct |
|---|---|---|---|
| Alert store (`core/models.py`) | `core_alert`: status, ingest_time, queued_at, notified_at, payload; `core_notification`: state; matches, records, deliveries | rows are created and updated by the others | status, queued_at, notified_at and the notification rows of an alert agree with each other |
| Ingest (`brokers/`) | an alert row per object, a delivery row per (object, broker) | `ingest_alert`, three consumer loops | an object is stored once with its first-seen values, each broker is credited once, no well-formed alert of a redelivering broker is lost |
| Batch dispatcher (`tasks/schedule.py`) | none of its own | `dispatch_crossmatch_batch`: guard, recovery, thresholds, transaction | at most one batch in flight; the recovery never takes a live batch; no batch is stuck for ever |
| Crossmatch task (`tasks/crossmatch.py`) | in-memory result; matches, records, notifications | `crossmatch_batch` | a batch is finished exactly once, all together, or goes back to INGESTED |
| Crossmatch computation (`compute_crossmatch`, `matching/`) | outcome of each catalog | catalog loop, retry, skip, fail loud | what is published and recorded says truthfully what was searched |
| Notification dispatcher (`tasks/schedule.py`, `notifier/`) | row locks, confirmations | `dispatch_notifications`, `send_batch` | SENT means accepted by Kafka; an outcome is final; NOTIFIED only after everything was sent, and then always |
| Retention (`tasks/retention.py`) | `payload` | `sweep_payloads` | only payloads of finished alerts past their grace period are cleared |
| TNS snapshot (`tasks/tns.py`, `core/tns.py`) | snapshot rows, `TnsSnapshotMeta` | daily seed, hourly delta | a snapshot that counts as current misses nothing |
| Read API (`api/service.py`, `pagination.py`, `lookup.py`, `positions.py`, `filters.py`, `summary.py`) | none; the cursor is the client's | paged walk of the recent crossmatches, lookup, cone search, summary | a client that walks the pages gets each object once and none is left out; an entry, a mark, a total tells something that was true |
| Request guard (`api/guard.py`) | the budget of a request | phases, statement timeouts, classification of errors | a late answer is not given out, and a late failure is not called retryable |
| Chat MCP (`chat_mcp/`) | rate counters and slots in Valkey | admission, protocol, tools and their projections | never more than the allowed calls, a slot is given back, a refused call may return when it was told; a cut answer says so |
| Start-up (`project/management/commands/`) | advisory lock, schema, Beat entries | `locked_init`, periodic task registration | one pod initializes at a time, each gets its turn, and none consumes before |
| Dask alignment (`core/dask.py`) | none | connect, wait, version report and probe within one timeout | a worker that passed the check compared versions with somebody |
| Replay (`replay/`), web pages (`web/`) | none | offline comparison; rendering | outside the pipeline |

How they interact:

    broker -> ingest_alert -> core_alert (INGESTED)
    Beat, 30 s -> dispatch_crossmatch_batch: INGESTED -> QUEUED, message to Valkey
    worker <- Valkey: crossmatch_batch: QUEUED -> MATCHED + PENDING notifications
                                        or back to INGESTED
    Beat -> dispatch_notifications: PENDING -> SENT | FAILED, MATCHED -> NOTIFIED
    Beat -> sweep_payloads: clears payloads by notified_at
    Beat, hourly -> refresh_tns_snapshot: TNS files -> tns_objects and their epoch
    pod start -> locked_init: lock, migrations, Beat entries, then the consumer
    worker start -> verify_dask_versions, then the worker
    HTTP client -> api views -> guard -> read-only transaction over the same rows
    chat client -> chat_mcp -> limits (Valkey) -> guard -> the same API functions

The hard behaviours are about statements of different processes, under autocommit
or at READ COMMITTED. In the pipeline:

- The dispatcher's guard, recovery, thresholds and transaction are separate
  statements; two runs may overlap, and a task may finish between any two.
- A batch is handed over after its transaction commits. The hand-over or the
  message can be lost; the message can be late; the worker can be killed, fail
  and revert, or fail to revert.
- The stuck-batch timer cannot see tasks, only `queued_at`.
- `crossmatch_batch` checks no status, so a second run over the same alerts
  rewinds them.
- A Kafka write is confirmed asynchronously, or never.
- The check that all notifications were sent and the update to NOTIFIED are two
  statements, after the transaction that recorded what was sent; another run
  sends the rest of the same alert meanwhile.
- Workers die anywhere.

Beside it:

- An answer of the read API is several statements; the pipeline commits between
  any two of them, and between two pages.
- A row gets its `ingest_time` before its commit, so it can appear behind a
  cursor that has passed it.
- A request has one budget for statements, transactions and Python; when it runs
  out, a cancelled statement may surface as any database error.
- The limits are separate operations on a shared cache that may fail at each of
  them, in which case a call is let pass.
- The retention sweep, a TNS reader and the Dask check each read first and act
  later.
- A refresh that failed is not caught up by the next one.
- A pod that waits for the lock can keep an index build of the lock's holder from
  ending.

`PROJECT.json` lists them at their lines under `hazards`, with the properties
that would catch each.

## 2. The modules

    AlertStore  <-  CrossmatchTask  <-  BatchDispatch  <-.
        ^------------ Notifier  <------------------------- Pipeline <- SafePipeline
                                                             | INSTANCE
                                                          Lifecycle

    IngestGate <--INSTANCE-- Ingest <-- PipelineDetail --> CrossmatchRun --INSTANCE--> Lifecycle

    ReadStore <- RecentWalk <----------------------------.
        ^------- ObjectBuild <- NightSummary <---------- ReadApi
                    ^------- SearchCones <- ObjectLookup  <-.  |
                                 ^--------- ConeSearch <- ChatProjection

    RequestGuard <- Admission <- McpServer

    StartUp, DaskAlignment, TnsSnapshot, Retention <- Background

`Pipeline` takes ingest as one action (a row appears) and a run of the task as
one set of matches; `Ingest` and `CrossmatchRun` are what is behind those two,
each in a module of its own so that their details do not multiply the states of
the pipeline; a behaviour of `PipelineDetail` follows one of them. `ReadApi` sees the pipeline as the commits that change a row; the
guard knows a request as a plan of statements, not what they return. `Background`
holds four components that share no state; a behaviour of it follows one of them.

| Module | Models |
|---|---|
| `AlertStore` | the columns of `core_alert` and `core_notification` the pipeline reads, time, and a budget of faults |
| `CrossmatchTask` | the Celery message and the task `crossmatch_batch` |
| `BatchDispatch` | `dispatch_crossmatch_batch`, one action per database statement |
| `Notifier` | `dispatch_notifications` and the Hopskotch handler |
| `Pipeline` | all of them together, with time, fairness and the properties |
| `SafePipeline` | the same under the schedule the code's comments rely on (`SafeEnv`), with the inductive invariants |
| `Lifecycle` | the abstract promise: an alert is crossmatched once, each match is announced once with one final outcome, and it is notified only when every announcement was sent |
| `Ingest` | the three consumer loops and the two-step gate `ingest_alert`, one action per database statement |
| `IngestGate` | its abstract promise: one row per object with first-seen values, one credit per object and broker |
| `CrossmatchRun` | `compute_crossmatch` and `crossmatch_batch` catalog by catalog: retries, skips, reverts and reruns |
| `PipelineDetail` | the two of them, with fairness |
| `ReadStore` | the rows a reader can see, with the commits that change them |
| `RecentWalk` | `api/recent-crossmatches`: parameters, cursor, both statements of a page, a client that walks |
| `ObjectBuild` | `build_objects` and the filters: an entry and its mark from several statements |
| `SearchCones` | `search_cones`: which objects, in which order, how many in all |
| `ObjectLookup` | `api/lookup`, `api/objects`, `api/tns`: inputs, limits, budgets, results, counts |
| `ConeSearch` | `api/cone`: pages under a pin, totals, nearest first |
| `NightSummary` | `api/summary`: the window of nights, the aggregates, the echoed request |
| `ChatProjection` | the lookup and near-position tools: identifiers, pairing, cutting |
| `ReadApi` | one client of one of these, and the pipeline |
| `RequestGuard` | `run_guarded` and `api_guard` over a wall clock |
| `Admission` | `admit`: rate, slots, leases, cache operation by cache operation |
| `McpServer` | the chat endpoint from message to answer, the status view, and the limits and the guard under it |
| `StartUp` | `locked_init` and `initialize_periodic_tasks` in several pods |
| `DaskAlignment` | `verify_dask_versions` against a cluster that changes |
| `TnsSnapshot` | the TNS files, the hourly refresh, and a reader of the snapshot |
| `Retention` | the retention sweep over one table |
| `Background` | the four of them, with fairness |
| `MCPipeline`, `MCSafePipeline`, `MCPipelineDetail`, `MCReadApi`, `MCChatMcp`, `MCBackground` | symmetry, inputs and instances for TLC |
| `PipelineProofs`, `SafePipelineProofs`, `IngestProofs`, `CrossmatchRunProofs`, `ReadProofs`, `LookupProofs`, `McpProofs`, `BackgroundProofs` | theorems |

### AlertStore

`status`, `queuedAge`, `notifiedAt` and `nstate` are the columns `status`,
`queued_at`, `notified_at` of `Alert` and `state` of `Notification`; `ingestAge`
is `ingest_time`. The code compares times only with "now minus a threshold", so
a time is kept as an age, which stops growing at the threshold it is compared
with; `NoTime` is NULL. `round` is a history variable: how often a crossmatch
transaction committed for the alert. A notification is named by alert, round and
catalog, because a run keeps one neighbour per catalog (`n_neighbors=1`) and
nothing prevents a second run from creating a second row.

`faults` counts faults; `Faults` says which kinds a run of TLC considers and
`MaxFaults` how many. A fault is always a nondeterministic choice, never needed
for progress.

### CrossmatchTask

A task slot is `waiting` (its `on_commit` hook or its message), `running`,
`committed` (the MATCHED transaction is over, the metrics and logging are not),
or `free`. `Commit` is the final transaction with an arbitrary set of matches:
the alert rows, the notification rows and `notified_at` of the alerts without a
match change together. With no match at all it is also the early return for a
batch without valid coordinates, which writes the same. `Fail` is the `except`
branch, `Kill` covers a dead worker, the hard time limit, and a revert that
itself fails (the code logs it and leaves the rows). `SoftLimitAfterCommit` is
the soft-limit exception raised in the statements between the commit and the end
of the `try` block. `clock` measures the wait, then the run; `Tick` is disabled
where the pickup bound or the hard limit would be exceeded, which is how those
two bounds are expressed.

### BatchDispatch

`dpc` is the next statement of each dispatcher: `Guard`, `Recover`,
`CheckThresholds`, `Dispatch`. The statement that finds QUEUED rows and the one
that reads the oldest of them are one action: if the batch finishes between
them, `first()` returns `None`, the task ends with an `AttributeError` and
nothing has changed, which is a stutter. `Recover` takes whatever is QUEUED when
it runs, as the code's `queued.update()` does. `Dispatch` takes the oldest
alerts; alerts whose age is saturated count as equally old.

### Notifier

`LockPending` takes unlocked PENDING rows, up to `FetchLimit` (500 in the code);
which ones, by `created_at`, is left open. `Publish` and `PublishWithFailures`
are the writes, the flush and the callbacks: the broker accepts some messages
and reports some of those. `CommitOutcomes` is the commit of the publishing
transaction; `CheckAlert` and `MarkNotified` are the two statements per alert of
the loop after it. A crash loses `todo`, which exists only in memory; the
history variable `forgotten` remembers the alerts lost that way.

### Pipeline and SafePipeline

`Pipeline` leaves the deployment's schedule to the constants: how many
dispatchers run at the same time, how late a message may be taken, whether the
soft limit can strike after the commit. `SafeEnv` is the schedule the comments
in `schedule.py` and `settings.py` take for granted:

- the longest wait plus the hard limit is less than the stuck threshold (the
  start-up check compares only soft, hard and stuck);
- runs of `dispatch_crossmatch_batch` do not overlap;
- the soft limit does not strike in the few statements after the commit.

`SafePipeline` assumes it. What is proved and checked there is what that
schedule buys. `LatePickup` and `SoftLimitRevert` show that the first and the last
are needed; section 5 says what an overlap of dispatchers does.

### Ingest

`inbox` is what a broker has yet to hand out and is external. Each consumer has a
message (`msg`) and its next statement (`cpc`): normalise, `Alert.objects.get`,
`get_or_create` of the alert, `get_or_create` of the delivery. ANTARES and Lasair
are loops that log an error and poll again; Pitt-Google is a pool of callback
threads that acks or nacks (`Acking`). `origin` is the message whose values a
stored row carries, so "first seen" can be stated. `Malformed` messages do not
normalise; `Unstorable` ones do, but `radec_to_ipix` refuses their position.

### CrossmatchRun

One batch. `pc` runs through the catalog loop (`read`, with `next` and
`attempt`), the guard, the preparation of the object records and the final
transaction. `CatalogDone` is the tail of the loop body, with its search outcomes
and the matches committed in `on_catalog`. `Classify` is the footprint test,
`RecordRow` its correction by the stored matches, `Stamp` the list of skipped
catalogs put into every payload. `Fail` is any error or death elsewhere; it
leaves the committed matches behind and `Begin` runs the batch again from the
start. What a read returns is an arbitrary set of alerts, which covers the rows
that cannot be built. One run at a time touches the batch: that is `Ownership`
of the safe schedule, and `LatePickup` shows when it fails.

### ReadStore and ReadApi

`rows[o]` joins the alert, its matches, its records, its TNS association and its
deliveries. `Stamp` takes the clock for `ingest_time`, `CommitIngest` commits it;
the delivery row is another commit (`RecordDelivery`). The pipeline's steps are
`Queue`, `SaveMatch`, `SaveTns`, `Finish`, `Notify`, `Revert`; `reverted` is a
history of alerts taken back from MATCHED (section 5). An alert has one record per
match version, which is a unique constraint of the table. The client asks one
thing of one component, statement by statement, and `StoreStep` may come between
any two.

### RecentWalk

`Ask` is the view: parameters and token in, refusal or resolved query out.
`FetchRows` is the statement with the window, the pin on `ingest_time` and the
keyset condition; `LoadMatches` the second statement; `Deliver` makes the cursor.
`due` (what was in the window at the first page) and `seen` are history. The
client presents its cursor plainly, with the same values, or with others.

### ObjectBuild, SearchCones, ObjectLookup, ConeSearch

`ReadAlerts`, `ReadRecords`, `ReadMatched`, `ReadMatches`, `ReadBrokers` and
`BuildObjects`, which reads the TNS associations first, are the six statements of
`build_objects`; `EntryOf` puts together what they saw, a record counting only for
the matches of its own version. The history `told` collects every entry the object
would have had since the request began, which is what `EntryWasTrue` compares
with: the entry without its brokers is one of them, its brokers are those of one of
them, and the two are the same one unless the entry is `crossmatch_pending`
(section 5). `QualifyObjects` is the later statement of the
filters. A position is a name, `Separation` gives its distances, and `search_cones`
is what it selects: by a pin, from a cursor on, in one of two orders, with a total
over the whole radius. `ObjectLookup` keeps the inputs in order, an ID out of the
range of identifiers among them, and spends the budget of listed objects over them;
`ConeSearch` has a client that walks.

### NightSummary

`ParseSummary` is the window arithmetic: the four ways to give a window, nights
that start at the `Rollover` hour, the default night, refusals. The statements
read `night.snap`, which the first of them takes (REPEATABLE READ). `Omitted` and
`Garbled` are the values a parameter has when it was left out and when it cannot be
read.
`RequestUrl` is the echoed request; the property replays it with a later clock.

### ChatProjection

An identifier is a form and what it names; `Classified` drops duplicates and
keeps the reason of the unusable. The API call is `ObjectLookup` or `ConeSearch`
itself. `Capped` and `Fitted` are the two cuts, by number and by size.

### RequestGuard, Admission, McpServer

A request is a plan: phases of statements, each under the time left or the short
timeout of the status checks, and whether an outage is mapped. A lost connection
is an `OperationalError` or an `InterfaceError` (`Lost`); only the first is a
`DatabaseError`, so the second passes every handler and ends the request with a
500 (`interface_error`). `Tick` advances the clock while
any work is under way; a statement cannot pass the timeout its phase was given,
everything else can take any time. `Admission` has one action per cache
operation; `CacheFails` lets any of them fail, done or not. `stolen` is a history
of slots deleted from under the call that held them, by the compare-then-delete
that the code's comment accepts. There is a counter for every window the clock can
reach. `McpServer` sends each call once: `Receive` reads and
answers what needs no work, `CallTool` parses the arguments and enters the limits,
`Return` makes the answer from the outcome of the guard, `Kill` is a death.

### StartUp

The state of a pod is its statement. The lock is polled, so a waiting pod has no
snapshot open; `IndexBuilt` needs every snapshot older than the build to end,
those of other workloads (`Reader`) included, and `RecordMigration` is a statement
after it, because the migration is not atomic. `KillPod` in a build leaves an
INVALID index, and between the two a whole one that is not recorded; later starts
fail on either until `DropIndex`, which the CHANGELOG (line 81) asks of the
operator. `CreateSuperuser` creates the user, finds it or an environment that names
none, or raises another `CommandError`, which ends the pod. `CutSession` takes the lock's session from a
pod that goes on over Django's own connection.

### DaskAlignment

`left` is what is left of the timeout, spent by connecting, sleeping and waiting.
Workers and scheduler change at any time up to `MaxChanges`. `compared` is the
history of engine versions the master compared with. An error the code does not
catch leaves the signal handler: a scheduler that is gone at the version report or
the probe (`Unreachable`), a worker that dies while the probe runs on it
(`ProbeLosesWorker`). Celery logs it and the worker starts, which is the state
`unverified`.

### TnsSnapshot

TNS publishes the delta of the past hour under the new hour's number, and the
full file at midnight: that is external, taken from the file names the code
builds. A refresh may run past the turn of the hour or never run. `loaded`,
`complete`, `behind` and `asOf` are histories of what was merged; `behind` is how
many hours ago TNS published what was merged last.

### Retention

`Select` and `Clear` are the two statements. `Finish` stamps the anchor; `Reopen`
is a late run that takes up a finished alert: it reverts it
(`tasks/crossmatch.py:874-884`) or gives it notifications (848-861), and either
leaves `notified_at`.

## 3. The runs

| Run | Bounds | Shows |
|---|---|---|
| `SafeBatches` | 3 alerts in batches of 2, 1 catalog, 2 tasks, 2 faults of any kind, up to 2 rounds, stuck at 4, pickup 1, limits 1 and 2 | no interleaving of dispatches, failures, kills, lost messages, recoveries and refused notifications makes a task lose its alerts, puts two batches in flight, or crossmatches an alert twice; the retention anchor is set exactly on finished alerts; the pipeline implements `Lifecycle` |
| `AnySchedule` | 1 alert, 2 dispatchers, 2 notification runs of one row each, late pickup, soft limit after commit, one fault of any kind | what rests on row locks alone holds in every schedule |
| `Liveness` | 1 alert, 3 catalogs, 2 notification runs of two rows each, 2 faults of any kind | every alert is crossmatched, every notification gets an outcome; two runs that each send a part cannot both miss that they were the last, unless one of them dies, and neither marks the alert before the other's part is sent; the pipeline implements `Lifecycle` |
| `PipelineDetail` | 1 object, 2 brokers, 2 messages each, a loop and 2 callback threads, 2 faults, one malformed and one unstorable message; or a batch of 2 alerts with and 1 without a position, one of them outside the second catalog, 2 catalogs, 2 attempts, any number of reruns | the row keeps its first-seen values and is credited once per broker; a well-formed message of a broker that redelivers is never forgotten and is credited in the end; records, stored matches and payloads of a batch agree; a full outage reverts; the soft limit is never a skip |
| `ReadApi` | 3 objects, 2 catalogs, 2 brokers, 2 commits and one tick during the request, pages of 1 and 2, six initial stores, 6 walks, 8 lookups, 5 cone searches, 5 chat calls and one near-position call, 7 summaries | walks repeat and omit nothing; entries, marks, totals, counts and sums tell what was true; cut answers say so |
| `ChatMcp` | 3 calls, 2 to 6 ticks, budget 2, one slot per key and in the cluster, bursts of 1 and 2, one cache fault | budgets, limits, waits and answers are right for every message and every interleaving |
| `Background` | 2 pods, an atomic and a concurrent migration, 2 tasks of one period, 2 faults; 2 Dask workers, timeout 3, 2 changes; 2 TNS names, days of 3 hours, 2 failures; 3 payloads, 2 sweeps of 1 row, 1 reopened alert | the promises of the four components, and that each gets there |
| `LatePickup`, `SoftLimitRevert`, `FailedIsRetried`, `StatusOutage`, `TnsGap` | the smallest instance with the behaviour | section 5 |

Why the bounds are enough. Three alerts and batches of two give a full batch, a
partial batch and an alert that arrives while a batch is in flight. Two task
slots are the most a safe schedule uses (one live, one past its commit). Stuck at
4 with a pickup bound of 1 and a hard limit of 2 is the tightest ordering
`SafeEnv` allows, so a recovery one tick early is caught. Two notifications of
one alert in two runs is the smallest case in which neither run sees all of them.
`MaxRounds = 2` lets a second crossmatch of the same alert happen, so that
`CrossmatchedOnce` can fail; a run that the bound keeps from committing fails
instead, without using up a fault. The symmetry sets permute interchangeable
alerts, catalogs, slots and processes, in safety runs only (`KeepsPromise` is a
safety property: `LifeSpec` has no fairness). Three rows of one alert and two runs
of two rows each let one run send all but one, or both a part, and be refused in
either. Two callback threads
and a loop let two consumers of one broker, and two brokers, meet on one object;
two faults let an error strike and its redelivery be struck again. Two catalogs
are enough for a skip before or after a match, and a rerun of a batch may differ
from the first run in every outcome; the crossmatch part needs no bound on reruns,
because a run starts from what the tables hold.

`SafeBatches` has 715,551 distinct states, `Liveness` 48,347, `PipelineDetail`
39,218.

`ReadApi` (1,056,721): two commits are enough to tear any answer twice, and three objects to have one before, one on and
one behind a cursor; the six stores hold pending, empty, skipped, old-version,
delivered-twice and not yet committed rows, so that one commit away from each
lies the next. `Radius`, page, cap, budget and size limits are all smaller than
what some store holds, so that each cuts. `ChatMcp` (948,642): the conversations
are of three kinds. Alone, one message of every kind goes through every outcome of
the guard. Disturbed and crowded, two or three calls compete for one slot and for
the last token, of one address, of two, of a provider's range and of a session,
with every duration; what their statements do is then left out. The counters of
the rate live for two windows and a second, so their expiry is never seen.
`Background` (108,760): the faults are enough for a death and a death of the one
that comes after, for a probe of workers that left since the wait, and for a
failed refresh followed by a good one; the bounds of one part do not multiply
with those of another.

Fairness. `Tick` is fair: time passes. Each dispatcher and each notification run
is weakly fair: Beat keeps queueing both tasks and a worker takes them. `Start`,
`Commit` and `Return` are weakly fair: a message that is not lost is taken and a
run that nothing ends finishes. No fault is fair, and faults are finitely many,
which is the least assumption under which anything must happen. Fairness of
`Commit` on a task that may fail is safe for the same reason: it fails finitely
often. In `PipelineDetail` each consumer is weakly fair, because the loops run for ever,
and each message is handed out with strong fairness (`TakeOf`): a subscription
delivers every outstanding message in turn, so one that is nacked for ever does
not starve the rest. That is an assumption about Pub/Sub, not about this code.

In `Background` a pod that can go on does, a transaction of another workload
ends, an outage ends, the operator drops an invalid index, a Dask master goes on,
hours pass, and Beat keeps running refresh and sweep. No fault, no reopening and no
change of the cluster is fair. `EveryPodStarts` and `OneAtATime` hold while no lock
session is cut; `AlignedStarts`, a part of `CheckSettles`, once the cluster stays
aligned.

Deadlock is checked in every run of the pipeline and its details, where time can
pass, a task can move or a loop can poll; a batch that is finished stays so
(`BatchDone`). `ReadApi` and `ChatMcp` when everything was answered and the bounds are used up,
and the Dask part of `Background` when the worker has started.

A run checks few properties, each a conjunction of named parts where several make
one promise. Each part says in its comment what it is about:

| Property | Its parts |
|---|---|
| `Ownership` | `OneBatchInFlight`, `TaskOwnsBatch`, `QueuedTogether`, `DispatcherSeesTruth`, `StatusCountsRounds`; it implies `LiveBatchKept` |
| `MarkingIsSafe` | what a run holds and found sent, `NotifiedMeansAllSent`, `AnchoredIffDone` |
| `OutcomesAreBacked` | `SentWasDelivered`, `RowsAndLocks` |
| `RecordsAreTrue` | `RecordsAgreeWithMatches`, `SearchedMeansCovered` |
| `FailuresAreNotSkips` | `OutageReverts`, `SoftLimitEndsRun` |
| `WalkIsExact` | `NoRepeats`, `WalkIsComplete`, `CursorIsHonoured` |
| `ConeWalkIsExact` | `ConeNoRepeats`, `ConeWalkIsComplete` |
| `AnswerWasTrue` | `ListedHasMatches`, `EntryWasTrue`, `MarkWasTrue` |
| `NumbersAgree` | `ListingIsBounded`, `LookupTotalsAgree`, `CountsAddUp`, `ConeTotalsAgree` |
| `NothingIsHidden` | `TruncationIsTold`, `EveryIdentifierAnswered`, `EntriesAreTheirOwn` |
| `SummaryIsConsistent` | `SummaryAddsUp`, `SummaryAgreesWithLookup` |
| `OutcomeMeansInTime` | `OkMeansInTime`, `OutageMeansInTime` |
| `NothingIsKept` | `SlotsAreReturned`, `BadCallsAreFree` |
| `RateIsFair` | `RateBounded`, `RetryAfterIsEnough` |
| `AnswersAreRight` | `AnswerFitsMessage`, `StatusIsHonest` |
| `OneAtATime` | `OneInitializer`, `IntervalsUnique` |
| `CheckSettles` | `VerificationEnds`, `AlignedStarts` |
| `EpochIsHonest` | `CheckedCoversEpoch`, `UnbrokenIsComplete` |

Each property has mutants in the modules (the definitions named "Mutant of"), as a
rule one per part: changes to one definition that a plausible bug would make and
that the run then reports. They are not used by the specification. The type
invariant is checked in `SafeBatches`; those of the batch and of the background are
the first part of inductive invariants and proved.

## 4. The proofs

In every schedule (`PipelineProofs`, no assumption but the types of the constants):

- `TypeCorrect`.
- `LocksHold`: `RowsAndLocks`, the inductive invariant. A locked row is PENDING
  and has one holder; what a run has confirmed it holds and Kafka accepted. The
  last two follow from it and not from themselves: `SENT` is written from
  `confirmed`, so `SENT` means delivered only while `confirmed` stays inside
  `delivered`.
- `SentIsDelivered` and `OutcomesAreFinal`.
- `OutcomesHold`: `SentIsDelivered` and `LocksHold` together.
- `NotifiedAreAnchored`: NOTIFIED and the retention anchor are written together.

In the safe schedule (`SafePipelineProofs`, from `SafeSchedule == SafeEnv`):

- `BatchesAreOwned`: `Ownership` is inductive. `LiveBatchKept` alone is not,
  because the recovery looks only at `queued_at`. The missing link is that a live
  batch was stamped no longer ago than the pickup bound plus its running time
  (`TaskOwnsBatch`), that all QUEUED alerts were stamped together
  (`QueuedTogether`), and that what a dispatcher has read is still true when it
  acts on it (`DispatcherSeesTruth`, where a single dispatcher is used).
- From it: `OneBatch`, `LiveBatchesAreKept`, `AtMostOneCrossmatch`.
- `MarkingHolds`: `MarkingIsSafe` is inductive together with `Ownership` and
  `RowsAndLocks`. What a run found to be all sent stays all sent until it marks
  the alert: a sent row is final, and no new row appears because an alert that
  has rows was crossmatched and is not crossmatched again.
- From it: `NotifiedAfterAllSent`, `AnchorsAreRight`, `PendingIsMatched`.

Refinement (also in `SafePipelineProofs`): `Implements`, every behaviour of the safe
pipeline is one of `Lifecycle` with INGESTED and QUEUED both read as "waiting"
and the notifications of round 1 as outcomes. Dispatch, recovery, failure and
time are stutters; `Commit` is `Crossmatch`, `CommitOutcomes` is `Settle`,
`MarkNotified` is `Finish`.

Ingest (`IngestProofs`, for any consumers, brokers, messages and faults; the
specification is `PipelineDetail`'s, of which `IngestFollowed` takes the ingest part):

- `NoMessageLost`: `NothingForgotten`, inductive with `HandsAreFull` (a busy
  consumer holds one message of its broker that it has not dropped; one that is
  about to credit has the object stored). Without that link the step that credits
  could credit something else than what the inbox gave up.
- `GateIsKept`: `Ingest` implements `IngestGate`; `get_or_create` is `Store` or a
  stutter, the delivery is `Credit` or a stutter, and everything else stutters.

One batch (`CrossmatchRunProofs`, for any batch, coverage map, number of catalogs
and retry limit; `CrossmatchFollowed` takes the other part):

- `RecordsAgree` and `OutageIsReverted`. The inductive invariant `RunInv` adds
  that the records of a run are stored and come of catalogs that were read
  (`LoopInv`), that past the guard some catalog was read (`GuardInv`), that the
  prepared rows still match the tables when they are committed (`PreparedInv`,
  where it matters that no other run stores matches), and that nothing is
  announced before the end (`FinishedInv`).
- `SearchedIsCovered` and `PayloadsTellTheSame`, from the same invariant;
  `RunIsTyped`. `RecordsHold` joins the first to `RecordsAgree`.
- `SoftLimitIsNoSkip`, and `FailuresStayFailures` with `OutageIsReverted`.
- `RunIsOneStep`: the link to the pipeline. Whatever a run reads, retries, skips or
  leaves behind, the alerts see one step of `Lifecycle`, the `Crossmatch` of the whole
  batch with the matches of the run that ended well (`BatchIsOneStep`), which is the
  step that `Commit` of the pipeline is mapped to by `Implements`. The proof needs
  `FinishedInv`: nothing is announced before the final transaction. No run lists the
  property; it holds in the instance of `PipelineDetail` too.

The read side (`ReadProofs`, for any rows, windows, page sizes, requests and
commits):

- `WalkNeverRepeats`, `WalkLeavesNothingOut` and `CursorsAreHonoured`, together
  `WalkStaysExact`, of `WalkSpec`, the client of `RecentWalk` alone with the
  pipeline; `ReadsStayExact` carries them over to `ReadApi`, whose other parts
  leave the store and the walk alone. The invariant says that the position of the
  cursor is that of the last object served, that what was served comes at or before
  it and what is due and was not served comes after it, and that a token carries
  the query it was made for. Two facts carry it: the order of the keyset is total,
  since ties of time are broken by the identifier, and an object that was matched
  stays in the window as long as nothing reverts it, its sort time and
  `ingest_time` being constant.
- `EntriesWereTrue` and `MarksWereTrue`, together with the listed objects of a page
  `AnswersWereTrue`. `EntryWasTrue` speaks of the answer only; `TruthInv` speaks of
  every statement before it: what a statement has seen of an object is what the
  row was at some moment since the request began, and what they saw of a
  crossmatched object can be read as one moment because a row that was not reverted
  only moves on. The brokers of an object that was pending at the first statement
  are those of a later moment.
- `ConesStayExact`: `ConeInv` is the invariant of the walk for a list ordered by
  distance or by identifier, with the totals of a page beside it.
- `ReplaysStayTheSame`: `NightInv` says that the query of a summary was resolved from
  accepted parameters at a time that is past. The echoed window names its nights, so
  at any later time it is accepted and resolves to the same ones.
- `SummariesAreConsistent`: the sums of a summary. `FoundInv` says that each field
  found so far is a function of the query and the snapshot. The rest is arithmetic
  on folds: a fold is unfolded to a function on the subsets of its domain, such a
  function is unique on finite sets, and the counts of a set by the value of a
  function on it add up to its cardinality (`SumCounts`). The distribution by
  brokers needs that a list of brokers and a set of brokers correspond one to one;
  agreement with the lookup needs that an alert has one record per version.

Lookups, cones and the chat (`LookupProofs`, for any inputs, identifiers, budgets,
limits, requests and commits):

- `NumbersStayTrue` proves `NumbersAgree`. The inductive invariant is `NumberInv`,
  with `TruthInv` and `ConeInv` beside it. `EntryInv` bounds the statuses a count
  tells apart; `LookupCounted` and `ConeCounted` say at each statement what has been
  counted so far. A count is compared with the rows only while nothing was committed
  since the request began (`CommitsAreCounted`: whatever a request can see changes
  with a commit). After a commit the counts speak of different moments, and the
  budget, the cuts and the sums are what is claimed.
- The budget is followed along the inputs: what a cone may list is what those before
  it left, and the last one that lists anything decides (`BudgetIsKept`). A sum of
  sizes is the cardinality of the set of all listings (`SumOfSizes`), and the counts
  by status add up to the number of inputs (`SumCountsAll`, `BodyAddsUp`).
- The rows of a cone come in the order of the query and are cut by its `LIMIT`. The
  ranks of a strict order on n elements are the numbers below n, each once, so the
  first k are k elements (`LeadingCounts`) and a list that is not full has them all.
- `ChatTellsEverything` proves `NothingIsHidden`. That property speaks of an answer
  alone, so it is not inductive. `ChatInv` adds what leads to the answer
  (`ChatAsked`): the request asks for exactly what the identifiers denote, in their
  order (`LookupAsked`); at every statement a result lists only what belongs to its
  input, whatever was committed before (`ListsTheirOwn`), and a page lists no more
  than its total counts (`PageIsCounted`); an answered chat does not move. `TruthInv`,
  `ConeInv` and `NumberInv` stand beside it: the answer can be no better than the
  results it is projected from.
- The projection is a pure function of that state. What its two cuts keep is in order,
  each entry with a prefix of its own objects (`LeftOf`). The cap drops an entry only
  if it had objects and says so, and it says so exactly when objects are missing
  (`CappedIs`). Each step of the fit takes one object, so it runs until nothing is too
  big or no object is left, and an entry without objects stays (`FittedIs`). `AnswerIs`
  joins the two, `LookupTells` and `NearTells` apply it to the two tools. Both folds
  are unfolded into functions on 0 .. n (`CapUnfolds`, `FitUnfolds`) and followed by a
  least counterexample (`CountsUp`), so no induction theorem is needed.

Chat and guard (`McpProofs`, for any calls, keys, rates, plans and faults):

- `AnswersAreInTime`, `OutagesAreInTime`, `StatusStaysHonest`: the invariant
  (`RunInv`) says that an outcome is decided once, by a comparison of the clock
  after the statement that decides, and not changed after. The first two make
  `OutcomesAreInTime`. `StatusIsHonest` is what the code keeps of the status view's
  promise: any `DatabaseError` is reported in an answer, and "ok" only if no error
  was raised. `StatusOutage` shows the rest of it violated.
- `SlotsComeBack`: `LimitInv` adds the shape of a call at each statement and
  `Returnable`: a slot bears the token of a call only while that call lists it as
  claimed or is about to claim or delete it. `SlotsAreReturned` alone is not
  inductive, because it says nothing before the call has left.
- `BadCallsCostNothing`: `FreeInv`; with the one before, `NothingStays`.
- `RunningFitsTheCaps`: every running call that was not robbed holds a slot, and no
  two hold the same. That makes a one-to-one map from running calls to slots, and
  the caps follow from its range.
- `AnswersFit`, and with `StatusStaysHonest` `AnswersStayRight`: an answer follows from
  the message, the outcome of admission and that of the guard.
- `TheRateIsFair`: `RateInv` says that a counter covers the calls that stand in it,
  and that whichever of them are looked at, one was counted after as many. The
  burst then bounds the admitted, and the waiting time follows from the same
  estimate over the window and the one before it.

Background (`BackgroundProofs`, for any pods, migrations, workers, names, rows and
bounds):

- `OnePodInitializes` and `IntervalsStayUnique`, together `PodsTakeTurns`, and
  `StartedIsReady`: a pod in its
  initialization holds the lock or was cut; the migrations it planned are the
  ones that follow what is applied; what it has registered it finds registered.
- `VerifiedIsCompared`: what the master compared with is the version of the
  application, and not nothing, when it starts.
- `CheckedIsCovered`: rows are never removed, and rows and epoch change together.
- `UnbrokenIsKept`: while no refresh since a seed at midnight was missed, the rows
  are what TNS had listed at the last. The invariant follows the delta that a refresh
  holds to the listing it makes of the rows. `EpochStandsForAll` joins the two.
- `InFlightIsKept`: a selected key has an anchor, and is finished if nothing was
  reopened; that it stays so until `Clear` is the point.
- `BackgroundIsTyped`.

Only model-checked: the liveness properties (they need fairness and `ENABLED`, out
of the prover's reach) and everything in the violation runs. Every invariant that a
passing run checks is stated by a theorem.

## 5. Where the code and its documentation disagree

| Run | What happens |
|---|---|
| `LatePickup` | time bounds that pass the start-up check let the recovery reclaim a live batch: nothing bounds the time a message waits, and `queued_at` is stamped before it is sent |
| `SoftLimitRevert` | the soft limit between the MATCHED commit and the end of the `try` block reverts a finished batch whose notifications stay |
| `TnsGap` | after one failed or lost refresh the next one merges its own delta only and the snapshot counts as current, so a name TNS has listed for hours is reported as missing because it is new |
| `FailedIsRetried` | a notification Kafka refused or never confirmed is recorded FAILED, and nothing selects or resets a FAILED row, although the handler says that it is retried; `OutcomeIsFinal` holds of FAILED for that reason only |
| `StatusOutage` | a lost connection that surfaces as an `InterfaceError`, which is no `DatabaseError`, passes the handlers of the guard, of the status view and of the describe tool and ends in a 500, although the status view is documented to answer 200 always |

Lines and quotations are in `PROJECT.json` under `findings`. `TnsGap` needs one
fault: with `MaxTrouble = 0` the same property holds.

Further observations have no run of their own. Of the pipeline and ingest:

- Two runs of `dispatch_crossmatch_batch` that both pass the guard before either
  dispatches put two batches in flight (`schedule.py:36`, against the comment in
  line 19). `Dispatchers` with two members in a copy of `SafeBatches` over
  `MCPipeline`, with `OneBatchInFlight` as its invariant, shows it.
- A worker that dies after the publishing transaction leaves its alerts MATCHED
  for ever, with everything sent (`schedule.py:132`). `MarkedUnlessForgotten`
  excludes exactly the alerts forgotten that way, so no property covers that hazard.
- A Pitt-Google message that normalises but whose position cannot be used is
  nacked and redelivered for ever (`consumer.py:106`), although the callback is to
  nack only transient failures (lines 89-90). `EveryMessageCredited` speaks of
  well-formed messages, beside such a one.
- The design document (line 810) asks for the alert row and its delivery row in
  one transaction; `ingest_alert` commits them separately. With a broker that
  drops the message on an error, an alert may never be credited to it.
  `EveryMessageCredited` shows that redelivery repairs it for Pitt-Google.
- The design document (line 813) has a failed enqueue leave the alerts INGESTED;
  the code enqueues after the commit, so they stay QUEUED until the stuck timer
  (`EveryAlertCrossmatched` includes that case, as a lost message).
- A match stored by a run that was reverted is not announced if the rerun skips
  its catalog, and its payloads list the catalog as skipped while the record says
  searched. `PayloadsAgreeWithRecords` allows exactly that exception.

Of the read side, where each is a limit of a property rather than a contradiction:

- An entry is put together from six statements. It is one the object had, unless
  the alert was taken back from MATCHED meanwhile; `EntryWasTrue` excludes that.
- Without any revert, an entry that says `crossmatch_pending` may name a broker that
  came after the object was crossmatched: the first statement reads QUEUED, `Finish`
  commits, a second broker's delivery row commits, and the fifth statement reads it
  (`lookup.py:660-666`). The entry was true at no moment, each half of it was;
  `OfOneMoment` says so.
- A mark is read after the status, so an entry that says pending may qualify.
- `qualifying_total` can exceed `total` when an ingest commits between the two
  searches (`positions.py:683`); `ConeTotalsAgree` holds for a store at rest.
- An object whose delivery row is not committed yet is in the totals of a summary
  and in no broker's count.
- `CountWhole` (`positions.py:676`) is reached only with a token whose position
  lies behind every object.
- `objects_found` of the chat tool counts the entry of an identifier that is not
  in the service, and the note that `full_results` has the full set is not true of
  an answer the API itself had cut.
- An integer beyond the range of a double (`contract.py:295`) and a date out of
  range (`pagination.py:345`) raise errors that nothing maps to a refusal.

Of the limits and the guard:

- A call whose lease ends between the compare and the delete of its release frees
  a slot of another; the code's comment says so, and `AdmittedAreBounded` leaves
  out the calls whose slot was taken that way.
- A failed decrement or a call that stalls between reading the time and counting
  leaves a count in the wrong window; `RateBounded` leaves the latter out. A call
  may be refused because of another that is being refused.
- The test for an `InterfaceError` at `guard.py:285` is never reached by one; nor does
  the outage mapping of `run_guarded`'s documentation apply to it.
- A statement cancelled from outside is reported as too expensive, like one that
  overran.

Of the background:

- A lock session that is cut while its pod goes on lets a second pod initialize.
  Both may then create an interval row, after which every later start fails with
  `MultipleObjectsReturned`.
- `core/dask.py:14-16` says that a worker that starts is verified; an error other
  than `DaskAlignmentError` in the version report starts it unverified.
- `retention.py` says the payloads of alerts in flight are kept regardless of age;
  a revert after the anchor was stamped keeps the anchor, so the alert is swept
  while it is crossmatched again.
- A seed in the middle of a day takes the full file of midnight, so what TNS
  changed since then is missing and a row can go back to an older version.

## 6. What is not modelled

The data: coordinates, distances, HEALPix covers, payload text, catalog contents,
the wording of errors and answers. Spatial matching is floating-point geometry; a
model of it would be the code again. In detail:

- Payload normalisation: field selection and units. `Ingest` has its outcomes.
- TNS matching: which name lies within a radius. `TnsSnapshot` has the two reads.
- Provenance sets: rows written once under the hash of their content.
- The OpenAPI document, discovery links, documentation and web pages: static.
- Replay: an offline comparison of files.
- `core/k8s.py`: two files a probe looks at, touched by a timer of Celery.
- Metrics and logs; the columns of the tables nobody decides on.
- Expiry of the rate counters, which live longer than they are used; eviction by
  Valkey, which would let calls pass like a failing cache.

## 7. The plan

Done: the pipeline and its details, the read API, the chat endpoint with
its limits and the guard, and the four background components, with their proofs.
What could be added:

1. Two runs of `CrossmatchRun` over the same batch: which of its properties survive
   an overlap.
2. `Retention` composed with `SafePipeline`, where `AnchoredIffDone` is proved.
