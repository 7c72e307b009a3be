# LabBridge in TLA+

LabBridge collects measurement files at laboratory sites. An **agent** at each
site watches directories, archives the files it finds and reports them, with
their parsed records, to a central **control plane** (an HTTP server on
PostgreSQL). The network between them fails, either side may be killed at any
moment, an operator intervenes on both sides. What the two owe their users is
easily said: a run begins once and ends once, its records are stored once, a
failure is told and never dropped, and a file counts as done only when its
records are in the centre. This directory models what makes that true, checks
it with TLC on small instances, and proves what is safety in it for all of them.

- [1 The system](#1-the-system)
- [2 The modules](#2-the-modules)
- [3 How the models correspond to the code](#3-how-the-models-correspond-to-the-code)
- [4 The runs](#4-the-runs)
- [5 Fairness](#5-fairness)
- [6 The proofs](#6-the-proofs)
- [7 Where code and words part](#7-where-code-and-words-part)
- [8 What is not modelled](#8-what-is-not-modelled)
- [9 The plan](#9-the-plan)

## 1 The system

### Components, their state and their operations

| Component | Code | State it keeps | Operations |
|---|---|---|---|
| Agent queue | `agent/src/storage/agent_queue_store.cpp` | SQLite: `pending_jobs`, `pending_files`, `pending_deliveries`, `processed_files` | begin, accept start, plan, archived, failed, manifest, report, complete, discard, fail delivery, resume, require attention; operator retry |
| Task executor | `agent/src/execution/task_executor.cpp` | in memory: the job it runs, the lists of its archive loop | drive a job through its stages; recover the jobs of the queue after a start |
| Reliable delivery | `agent/src/execution/reliable_delivery_client.cpp` | attempts, kept in the queue | send, classify the answer, wait, retry, give up |
| Local archive | `agent/src/execution/local_archive_store.cpp` | the archive directory, and what of it is on disk | inspect, archive, recover |
| Task scheduler | `agent/src/scheduler/task_scheduler.cpp` | entries with their next and last slot, manual candidates, the batch in hand, a wake-up | recover first; dispatch due slots; dispatch one candidate; wait; replace the configuration; stop |
| Agent runtime | `agent/src/runtime/*.cpp`, `agent/src/main.cpp`, `agent/src/bootstrap/{startup_handshake,process_signal_monitor}.cpp` | connection state, stop flags of three objects, the first exception | handshake, reconnect, heartbeat, poll, stop, exit |
| Operator commands of the agent | `agent/src/bootstrap/queue_command.cpp` | the queue lock | list, show, retry |
| Collectors, parsers, quality rules | `agent/src/collectors`, `parsers`, `qc` | none | list a directory, parse a file, judge its records |
| Runs | `server/src/application/task_run_service.cpp` | `task_runs` | start, start manual, request, retry, finish |
| Reports | `server/src/application/agent_report_service.cpp` | `agent_report_receipts`, `raw_files`, `parsed_records` | accept manifest, accept report |
| Management | `server/src/application/management_command_service.cpp` | `tasks`, `data_sources`, `qc_rules` | create sources, rules, tasks; enable and disable a task |
| Client of the agent | `agent/src/bootstrap/control_plane_client.cpp` | one operation at a time, its socket and its timer | ask, time out, classify |
| Nodes and configuration | `server/src/application/{node,config,agent_control}_service.cpp` | `nodes`; sources and rules as they are switched by hand | register, heartbeat, hand out the configuration |
| Alerts | `server/src/application/alert_service.cpp` | `alerts` | create with a report; acknowledge, close |
| Queries | `server/src/application/management_query_service.cpp`, `server/src/postgres/management_query_repository.cpp` | none; the walk through pages is the caller's | nine lists by page, two summaries |
| HTTP, authentication | `server/src/http` | none | decode, authenticate, map statuses |
| Cron schedule | `core/src/cron_schedule.cpp` | none | next matching minute |
| Deployment, scripts, console | `deploy`, `scripts`, `web-console` | none | packaging, service unit, user interface |

### How they interact

A slot of the schedule, or a manual request the agent has polled, becomes a
**job** of the queue under an *execution key* that names the run on both sides.
One worker thread runs one job at a time: it asks the control plane to start the
run, selects files, archives each of them, sends the **manifest**, parses, sends
the **report**, and removes the job. Before each request the body is committed to
the queue; after each answer the next stage is. Every request may be repeated:
the control plane finds the run by its key, and manifests and reports by
receipts that hold the digest of the body they answered.

A job is found again in one pass at process start only. A request that fails in
passing puts it in `retry_wait`; one that is refused puts it in
`requires_attention`, where it stays until the operator's `queue retry`, which
takes the queue lock and so needs the agent to be stopped.

The main thread polls the configuration and replaces the scheduler's entries and
candidates while the worker runs, so both are older than the database. On the
other side an operator requests manual runs, retries the failed files of a run,
disables tasks, which calls off the runs that wait, disposes of alerts, and walks
through lists that change meanwhile. The worker thread, the main thread and the
thread that waits for signals may each be the first to end the process.

### What is hard, and what has to hold

| Component | Hard behaviour | What makes it correct |
|---|---|---|
| Queue, executor | the process ends between any two commits; decisions on a copy of the job taken before other commits; two jobs of a task after the same files | `JobEvidence`, `SnapshotFresh`, `ReportTellsFailures`, `FailuresKept`, `NoDoublePlan`, `ManifestBacked` |
| Delivery | a job stopped while it waits; resuming; one delivery at a time | `TypeOK`, `NoQueueFault`, `StageNeverGoesBack`, `RequestsFrozen`, `JobSettlesOrStuck` |
| Recovery | one recovery pass; slots dispatched again | `NoJobForgotten`, `AttentionIsLeftAlone` |
| Scheduler | the clock is set, the configuration changes under a batch, a slot comes during a manual run, a stop during a batch | `SlotOnce`, `SlotKept`, `StopEndsBatch` |
| Runtime | three threads race for the end; a stop between the look at a flag and the wait | `StopEndsProcess`, `SuccessIsAskedFor` |
| Archive | a kill or a loss of power between copy, sync, rename and sync of the directories; leftovers of an earlier process | `EvidenceKept`, `EvidenceWhole`, `FailedForCause` |
| Runs, reports | repeated, late, reordered requests; a report whose run ends while it is handled; rollback; records the database cannot take | `StoredOnce`, `ReceiptsTellEffects`, `RunsEndOnce` |
| Management | disabling races with requests and starts | `PendingIsDue`, `RunSettles` |
| Alerts, queries | two operators on one alert; rows that appear out of order, or leave the filter, between two pages | `AlertsKept`, `WalkComplete` |
| Configuration | four statements between which operators commit | `PullIsCurrent` |
| HTTP | a timer that races with the answer; handling after the caller gave up; a commit without its acknowledgement | `ExchangeKept` |
| Both together | stale candidates, lost answers, crashes of the agent between the answer and its commit, rules switched between collection and report | `ProcessedMeansStored`, `ReceiptsMatchJob`, `RefusedForCause`, `RunBehindJob`, `StartTellsStatus`, `LifecycleKept`, `RunSettles` |

`PROJECT.json` lists every hazard at its line with the properties that watch it.

## 2 The modules

```
                         Runs                  keys, files, reports, requests
                        /    \
              AgentQueue      ControlPlane --------------.     the two databases
                   |              |   \        \           \
             AgentExecutor        | Console  ConfigPull  HttpExchange --implements--> Exchange
                    \            /     \_______|__________/
                  ReliableReporting       ControlService
                          |
                     implements
                          |
                     RunLifecycle

       CronSchedule <- TaskScheduler <- AgentProcess        LocalArchive --implements--> Evidence
```

| Module | What it holds |
|---|---|
| `Runs` | the constants both sides share, and what travels between them |
| `AgentQueue` | a record type for a job with its rows; one operator per SQLite transaction from job to job, with the condition under which it does not throw; what a job must look like at each stage |
| `AgentExecutor` | the worker thread over that queue: one action per step between two commits, the answers of an arbitrary server, crashes, restarts, the operator |
| `ControlPlane` | runs, receipts, raw files, records and the quality rules that are on; one action per handler, and the look of a report's handler at its run |
| `ReliableReporting` | both, with a network and with polling between them |
| `RunLifecycle` | abstract: what a user sees of a run |
| `CronSchedule` | expressions, their parsing, and the next minute that matches, as operators over a calendar |
| `TaskScheduler` | the worker's loop over entries, candidates and the clock; replacement by the main thread; the waits of the worker and of a delivery |
| `AgentProcess` | the main thread, the signal thread and the application around that worker, from the handshake to the exit code |
| `LocalArchive` | the calls of `LocalArchiveStore` on files of which memory, disk and directory entries are told apart |
| `Evidence` | abstract: what is recorded as archived is safe from a loss of power |
| `Console` | the nine lists, a walk through one of them, and the disposal of alerts |
| `ConfigPull` | the configuration read in four statements while operators commit, and what the agent makes of it |
| `HttpExchange` | one client: the callbacks of an HTTP operation, the controllers, statuses, kills of the control plane |
| `Exchange` | abstract: what the caller of the client may be told |
| `ControlService` | the control plane with one of these three clients |
| `AgentQueue_proofs` | lemmas about the operations of the queue |
| `AgentExecutor_proofs` | the inductive invariant of the agent, and what follows from it |
| `AgentSteps_proofs` | what a step of the agent never does to a job; plans, manifests and errors of the queue |
| `ControlPlane_proofs` | the inductive invariant of the control plane, and the effects of each request |
| `ReliableReporting_proofs` | the two together: the parts are implemented, `RunLifecycle` is, and what relates both sides |
| `ControlService_proofs` | alerts, pulls, walks and calls beside the control plane |
| `AgentProcess_proofs` | the scheduler's slots, the stops and the exit code |
| `LocalArchive_proofs` | the archive on disk, and that it implements `Evidence` |
| `MCAgentExecutor`, `MCReliableReporting`, `MCControlPlane`, `MCAgentProcess` | values of the constants for TLC |

A definition introduced by a comment that begins with `Mutant:` is no part of the
model: it is a plausible slip in the definition that follows it, and shows that
the property named with it in `PROJECT.json` would notice.

## 3 How the models correspond to the code

### The queue

`AgentQueueStore` holds one mutex around each public operation and runs it as one
SQLite transaction, so an operation is atomic for every other thread and for a
crash. A job record holds a row of `pending_jobs` with its `pending_files` (as
the sets of the files with a given column value) and its `pending_deliveries` (as
the set of the requests saved, with the two bodies that matter). `"absent"` is the
key without a row.

Left out: timestamps, error texts, and attempt counters. The counters and
`next_attempt_at` decide how long a delivery waits and nothing else: a waiting
job may be retried at any time after it began to wait. `max_pending_jobs`, the
capacity of the processed fingerprints and `max_files_per_run` are constants of
the model.

`LegacyJobs` are the rows an older agent version may have left in a database the
present one opens: an error mark without the list, a conflict or a rejection
without `retry_stage`. They are initial states of the run that is about them.

### The worker thread

`pc` names the point between two effects at which the thread stands, `snap` is the
`RecoveredJob` it has in memory, `todo`, `packed` and `fails` are the locals of the
archive loop. An action goes from one effect that can be observed from outside
(a commit, a file put in place, a request sent) to the next; what lies between is
local to the thread. A crash (`Exit`) is possible at every `pc`, so it falls
between any two effects.

| Code | Actions |
|---|---|
| `TaskScheduler::run`, `TaskExecutor::execute`, `execute_pending` | `DispatchScheduled`, `DispatchManual`, `NothingDue` |
| `begin_job`, `load_job` | `BeginJob`, `LoadJob` |
| `recover_jobs`, `recover_pending_jobs` | `Start`, `RecoverJob` |
| `ReliableDeliveryClient::deliver` | `AbandonOversized`, `BeginDelivery`, `RetryDelivery`, `AttemptFails`, `AttemptUnauthorized`, `AttemptRejected` |
| `run_reliable_job` after an answer | `StartAnswered`, `StartAnsweredFinished`, `ManifestAnswered`, `ReportAnswered` |
| `run_collecting_stage`, `plan_from_directory`, `plan_from_retry_targets` | `PlanFiles`, `CollectionFails`, `ResumeArchiving`, `ArchiveFile`, `ArchiveRecorded`, `ArchiveFailed`, `ArchiveConflict`, `ManifestSaved`, `NothingArchived` |
| the report | `ReportSaved`, `ReportThrows` |
| an `AgentQueueError` nothing catches | `QueueError` |
| `queue retry` | `RetryAttention` |

What a file contains is an outcome chosen when it is needed: it cannot be read, its
copy fails, it cannot be parsed (`broken`), part of it can (`partial`), or it is
fine. `Undecodable` files have cells that are not UTF-8 text. `CutTexts` are the sets of
failed files whose error text `ErrorSummary::text` cuts inside a character. Either makes the
report throw.

In `AgentExecutor` alone the answer to a request is anything. This over-approximates
every server, and what is proved there needs nothing of the control plane.

### The control plane

A handler runs in one `SqlTransaction` that is committed only when its status is a
success, and decides on rows it has locked (`find_for_update`, the row of the task)
or created under a unique index (execution key, pending manual run per task,
receipt per kind and key) that makes the second of two writers wait for the first.
That is why a handler is one action. There are two exceptions.

- The handler of a report reads its run with a plain `find_by_id`, claims the receipt, then
  judges the status it has read, and ends the run with an `UPDATE` that looks at no status.
  `LookAtRun` is that first statement: `looked` holds the runs some handler has found not
  to be over. `AcceptTaskRunReport` may go on from such a look after the run was
  called off. Of several handlers that have looked only one gets the receipt, and the
  others replay it, so an accepted report ends the looks. `HandlersGone` is a kill of the
  control plane.
- The configuration request reads tasks and pending runs in two statements without a
  transaction: `ReliableReporting` has it in two steps, `ConfigPull` in its four.

Statements of the other handlers between which another may get are left to section 9.

`run` is `task_runs.status` by execution key. `raws` and `stored` count rows, so
that a second insertion would show. Receipts are the requests themselves: the body
stands for its digest. `ReportIsValid` is the part of the validation that depends on
what happened before (targets of a retry, raw files of the run, failures beside a
success); the shape of a body is `server/src/http`'s business and is taken as right.
The results in a report name the rules the agent knew when it checked the records, some or
all of those of the task, and each must be enabled still: a report with records *may* be
refused as long as a rule of its task is off (`MayNameDisabledRule`). `Unstorable` files
have a record the database refuses, as neither the parser nor the control plane looks at
`record_time` or at the length of the station and device codes; a report that delivers one
can be refused, and otherwise never gets an answer that decides it.

### The network and the polling

`sent` only grows and any member may be handled at any time, again and again: loss,
delay, duplication and reordering in one. The answer to the request that is out
reaches the agent or does not; an attempt may end before an answer that is on its
way (`AttemptFails` in every state of `reply`). `fetched`, `known` and `candidates` are
what `AgentRuntime` has read and what `TaskScheduler::replace_config` has been given.
A candidate the full queue refuses stays; one whose task is unknown is dropped.

### The scheduler and the process

`TaskScheduler::Impl` has one mutex, and the main thread takes it in `replace_config`.
An action of the worker is what it does between two points at which another thread,
a wait or the executor can come in; `worker` names those points. `TakeDue` looks at the
stop flag and `ExecuteDue` takes the entry under the mutex, in two steps as in the
code. `clock` counts minutes; it may run on while the executor works or the worker
waits (`Tick`), and it may be set (`ClockSet`), which the condition variables do not notice.
A minute of `wait_until` that has to pass before the wait looks again is `timer`.
`times`, `removed`, `owed` and `late` are history.

`AgentProcess` adds `main`, `AgentRuntime`, `AgentApplication` and the signal thread. A wait
has two points: the flag was looked at (`"about"`) and the thread sleeps (`"asleep"`).
`request_stop` sets the flag without the mutex of the wait, so a notice may fall between
the two; what saves the process is that each wait ends by itself.

`CronSchedule` computes the calendar (`UtcParts`, for `gmtime_r`), and reads a field as
`*`, `*/N` or a number. Both the day of the month and the day of the week must match.

### The archive

Each name of the directory has two values: what a process sees (`cache`) and the set of
what a loss of power may leave (`disk`). `Write` and `Renamed` add to the set, `SyncFile` cuts it
to the present content, `SyncDirectory` to the present name. The directories above are
`made` (they exist) and `kept` (their entry was synced). `Killed` keeps `cache`, `PowerFails` chooses
from `disk` for each name on its own. A temporary is named by the file and the number
`temporary_sequence` gives, which begins at 0 in each process: a name a killed process has left
may be met again, and then the file fails.

`AgentExecutor` has the archive in two steps, `ArchiveFile` and `ArchiveRecorded`; that the first of
them makes a copy nothing but an outsider takes away is what `Evidence` says of
`LocalArchive`.

### The clients of the control plane

The console, a pull and a call leave the next request as it is, so `ControlService` lets a
behaviour watch one of them (`watched`), or none and then every request there is.
What is watched runs among `Traffic`, the requests of a slot that fails and of a manual run
that succeeds, and the operator's commands.

A row of a list has the id its transaction drew and appears when it commits, so ids
appear out of order (`Drawn`, bounded by `Ahead`). Three lists are results of reports and
come from `stored` (records, a result for each record and rule, an alert for each result that
is not a pass), two from `raws` and `run`, four are what operators and nodes enter. `Matches`
is the WHERE clause; a page is one statement. `dispose_alert` is three steps, `LockAlert`,
`SaveAlert` or `RollBackDisposal`, since the lock is what orders two operators.

A pull has one action per statement: tasks, sources, rules, pending runs. Sources
(`SwitchSource`) and rules (`SwitchRule` of `ControlPlane`) are switched by hand in the database,
as no command does it.

`HttpExchange` has one step for each callback of `HttpRequestOperation`; completions and the
timer are queued as handlers in either order, and `finish` cancels a timer only if it has
not expired. A request once written may be handled at any time, also after its caller
was told of a timeout; the transaction may commit and its acknowledgement be lost
(`HandledUnknown`); the control plane may be killed.

## 4 The runs

| Run | What is instantiated | What it shows |
|---|---|---|
| `AgentRecovery` | slot and manual request, two files of which one has undecodable rows, room for one file per run and one fingerprint, one crash | what the queue keeps is complete wherever the process ends; plans are disjoint; no operation of the queue throws; requests are frozen; stages only advance |
| `AgentUpgrade` | a job of an older version and a slot that may be dispatched again, two files, one crash | copies in memory stay fresh, no job is forgotten, a manifest is backed by copies, failures are only added to, what waits for the operator is left alone |
| `AgentPoison` | one undecodable file, fairness | expected violation, section 7 |
| `ControlRequests` | the control plane under every request there can be, in any order and number, its handler's look at the run coming earlier or not, two switches of tasks or rules; or with the console (nine lists of up to four rows, pages of one, two operators), a pull (one source switched once, two rules) or a call (three questions, one with a large answer, three credentials) | rows once, receipts true, one waiting run per enabled task; runs end once, but for those that were called off under a report being handled; a walk misses and repeats nothing; alerts are kept; a configuration is not older than its pull; the HTTP exchange implements `Exchange` |
| `Delivery` | both sides, slot and manual request, one crash | what the agent believes of a run is true; processed means stored |
| `Switching` | both sides, a slot over two files and the retry of its failed one, one crash, the task and its rule switched | nothing but a start, or a report with records while a rule is off, is refused; a start tells the status; the composition implements `RunLifecycle`, with runs called off |
| `Settling` | both sides, a slot and a manual request with room for one job, fairness | runs that wait or have begun come to an end, though one holds up the other |
| `Serving` | both sides, one manual request over two files, one of which cannot be stored, one crash, two switches, fairness | the run comes to an end, and jobs settle, unless the agent is stuck with that file |
| `DisabledStart`, `ReplayedSlot` | both sides | expected violations, section 7 |
| `AgentProcess` | two tasks over midnight before a 29 February, schedules that change or break, one manual run, the clock set once, fairness | slots once and in their minute, a stop ends a batch, every end of a thread ends the process, and with the right exit code |
| `Archive` | two files, a directory two levels deep, two kills or losses of power, any call may fail | the archive implements `Evidence`; no half copy under a copy's name; files fail for a cause |

**Bounds.** Two keys of one task are the smallest instance in which jobs compete for
files, for the place in the queue and for the single pending run; jobs of different
tasks share nothing but the place in the queue. Two files are the smallest in which
one can fail and another succeed in one run. One crash suffices for the properties
of a single recovery, since the state after it is again an arbitrary state of the
queue with an empty memory, which is what a second crash would start from; the
proofs have no such bound. Two switches of a task give disabled-and-enabled-again. `Switching` shares them between task and rule.
`Serving` has one key, as its question is about one request against crash and switches; that
a second job holds the first up, and the full queue, are `Settling`'s.
`MaxExits` bounds ends from outside only: the ends the agent brings about itself
(`QueueError`, `ReportThrows`) are unbounded. The network has no bound.

`ReplaySlots` lets slots come back while the agent is down: the scheduler starts after
the present minute, so this takes a clock that was set back. It is off, and
`LegacyKeys` is empty, in the runs of both sides, but for `ReplayedSlot`.

Three minutes hold a slot before midnight, one at midnight and one after, and the ids
9 and 10 sort by number and not as text; `SearchLimit` is an hour, longer than the
horizon. In `Archive` two files make one temporary name collide with one of an earlier
process, and two ends are an interrupted recovery. `FirstId` is 9 so that ids cross from
one digit to two, pages of one row make every row a cursor, and one id drawn ahead is
enough for a row to appear below the cursor.

**Deadlock** is checked in every run. `NothingDue` is the scheduler's wait, so a
deadlock would be a thread that stands at a point with nothing it can do.

## 5 Fairness

- `WF(ThreadStep)`, `WF(JobStepTaken)`, `WF(Dispatched)`: the worker thread runs. Its only
  wait without a limit is the one for the queue to have room.
- `WF(Start)`: `deploy/systemd/labbridge-agent.service` has `Restart=on-failure` with ten
  seconds between restarts, and a stop by hand is followed by a start. (Five failures
  in five minutes make systemd give up; fairness states what holds after the
  operator has reset the unit.)
- `WF(Answer)`, `WF(AttemptEnds)`: a request has a timeout, so an attempt ends.
- `SF(Final)`, `SF(AnswerDelivered)`, `SF(FinalAnswer)`: a request that is repeated for ever is in
  the end handled, and its answer arrives in time. `ReliableDeliveryClient` repeats
  without a limit on the number of attempts, so a network that works now and then is
  enough; weak fairness would demand that one attempt wait for ever.
  `AnswerDelivered` and `FinalAnswer` promise this of requests the control plane can decide,
  and of no other: while a report is out that the database cannot store (`Unstorable`),
  `AnswerDelivered` is not enabled, so it is repeated for ever. `RunSettles` and
  `JobSettlesOrStuck` name that outcome (`Stuck`, section 7). `SF(Final)`, of the agent alone,
  assumes more, and only `AgentPoison` uses it, whose violation does not come from there.
- `FairProcessSpec`: the three threads run, the clock goes on, and an execution that sees the stop
  returns, at the latest with the timeout of its request. No other execution is
  assumed to end, and nothing is assumed of a signal.
- `ExchangeFairness`: the timer of the client expires and the one thread that runs its callbacks
  goes on. Nothing is assumed of the network or of the control plane.
- `WF(FetchTasks \/ FetchPending \/ PublishConfig)`: the main thread polls.

Nothing is assumed of the operator, of requests for runs, of switches, or of a file
being readable.

## 6 The proofs

All for arbitrary sets of keys, tasks and files and arbitrary limits, under the named
assumptions of the modules: keys and files are finite sets, limits are positive, a
slot has no retry targets, a retry is of a run of its task, the sequence of ids begins
above 0, what the clients ask are requests, the tasks of the scheduler are a finite set and
its configurations are of such tasks.

| Theorem | States |
|---|---|
| `Invariance` | `Spec => []IInv`, the inductive invariant of the agent |
| `TypeCorrect`, `EvidenceComplete`, `ReportsTellFailures`, `CopiesFresh`, `JobsRemembered` | the agent's type invariant, `JobEvidence`, `ReportTellsFailures`, `SnapshotFresh`, `NoJobForgotten` |
| `ControlInvariance` | `ControlSpec => []ControlInv` |
| `ControlTypeCorrect`, `NothingStoredTwice`, `ReceiptsTruthful`, `PendingAlwaysDue`, `EndsOnce` | the control plane's type invariant, `StoredOnce`, `ReceiptsTellEffects`, `PendingIsDue`, `RunsEndOnce` (with its exception for runs that were called off) |
| `AgentImplemented`, `ControlPlaneImplemented` | the composition's steps are steps of each part, so all of the above holds of it |
| `DeliveredOnce` | records are stored once in the composition |
| `ServiceImplementsControl`, `ServiceStoresOnce` | the control plane among its clients is the control plane: all of the above holds beside the console, a pull and a call |
| `AlertsNeverLost` | `AlertsKept` of the control plane among its clients |
| `PullsAreCurrent`, `WalksAreComplete` | `PullIsCurrent`, `WalkComplete` |
| `AnswersAreTrue` | `ExchangeKept` without its fairness: every step of `ServiceSpec` is one of `Exchange` or none |
| `RequestsStayFrozen`, `FailuresStayListed`, `StagesGoForward`, `AttentionStays` | the agent's action properties `RequestsFrozen`, `FailuresKept`, `StageNeverGoesBack`, `AttentionIsLeftAlone` |
| `PlannedOnce`, `ManifestsAreBacked` | `NoDoublePlan`, `ManifestBacked` |
| `NoQueueErrorEndsTheProcess` | `NoQueueFault`, if `~ReplaySlots` |
| `SystemKeepsLifecycle` | `SystemSpec` implements `RunLifecycle` (`LifecycleKept`), if `LegacyKeys = {}` |
| `ProcessedIsStored`, `ReceiptsMatch`, `RefusedForCauseOnly`, `StartTellsTruth`, `RunStaysBehind` | `ProcessedMeansStored`, `ReceiptsMatchJob`, `RefusedForCause`, `StartTellsStatus`, `RunBehindJob`, if `LegacyKeys = {}` and `~ReplaySlots` |
| `ArchiveInvariance`, `ArchiveTypeCorrect`, `EvidenceIsWhole`, `FailuresHaveCause` | the archive's inductive invariant and type invariant, `EvidenceWhole`, `FailedForCause` |
| `ArchiveKeepsPromise` | `ArchiveSpec` implements `Evidence` (`EvidenceKept`) |
| `ProcessInvariance`, `ProcessTypeCorrect`, `ExecutedOnce`, `StopEnds`, `SuccessAskedFor` | the inductive invariant of the process and its type invariant, `SlotOnce`, `StopEndsBatch`, `SuccessIsAskedFor` |
| `SlotsAreKept` | `SlotKept`, if `Horizon - Base <= SearchLimit` |

**Hypotheses.** Three hypotheses are about constants, and hold of every run of these properties.
`~ReplaySlots`: no slot comes back while the agent is down. It takes a clock that was set
back for one to come, and then `start` may say "running" of a run that is over
(`ReplayedSlot`) and `begin_job` may throw.
`LegacyKeys = {}`: the queue holds no job of an older version when the behaviour
begins, since the model begins with an empty control plane, which would not know its
run. Neither is assumed of the agent alone, but for `NoQueueFault`. `Horizon - Base <=
SearchLimit`: the search for the next slot reaches from the first to the last minute of the
model. `kSearchLimit` is 8 × 366 days (`cron_schedule.cpp:17`), so the theorem speaks of any
stretch of eight years; over longer ones `initial_next` and `advance` may find no slot
where one is (section 7).

**The agent.** `JobEvidence` says what the row set of a job looks like at each stage. It
is not inductive alone: the thread commits what it computed from a copy, so the
invariant has to say that the copy agrees with the row at each `pc` (`SnapshotFresh`).
That in turn needs that no one else changes the row, which holds because a job being
run is in memory and the operator's retry needs the process to be down; and that
needs `NoJobForgotten` of the recovery pass. `IInv` is the conjunction of the three
with `ReportTellsFailures` and the type invariant. `AgentQueue_proofs` has one lemma
for each operation of the queue (a well formed job stays one); `AgentExecutor_proofs`
has one for each action, each of which is then a matter of what it does to memory.

**The control plane.** `ControlInv` joins the type invariant, `ReceiptsTellEffects`,
`StoredOnce` and `PendingIsDue`. A claim finds no receipt of its kind; by
`ReceiptsTellEffects` there are then no effects of that kind, so adding one keeps every
count at most one. That a run which is over takes no report needs that a report's
receipt tells the run's status, and that a slot which is over was ended by a report
(`SlotsReported`). `EndsOnce` is an action property from the same invariant: a handler
leaves a run that is over alone, replays, or refuses, unless it goes on from a look; then
no report was kept, so the run was not ended by one, is no slot, and was called off.

**The composition.** The body the agent sends has the type of a request because `IInv`
types the copy it is made from (`SystemInv`); with that every step of the system is a
step, or a stutter, of each part.

**The clients.** The callbacks of a call neither make up nor change the request that is
under way (`CallOK`), so what a controller hands to a handler is a request; the other
clients only read, or give commands. `AlertInv` says that the alerts and the
failing results that are stored match one to one, and that what an operator has read of the row
he has locked is still how the row is. The second half is what `dispose_alert` rests
on: it decides from the copy it has read, and that is only right because no other
transaction has the row (`LockKeeps`, `SaveKeeps`). The first half needs that storage
never shrinks and that new rows take ids no row has (`NewAlerts`).

**Steps of the agent.** For the action properties each operation of the queue has a lemma that
says what it leaves of the job it is called on (`GoesOn`): requests and their bodies,
failures, and the rank of the stage. `Unmarked` (a job without the error mark has no
failures) is what makes `save_report` keep them, and is not implied by `IInv`. `NoDoublePlan`
needs only that plans are made by the two operators that ask the queue first.
`ManifestBacked` needs `JobEvidence`: a copy is taken away only from a job that is still
collecting, and such a job has no manifest. `NoQueueFault` needs `SnapshotFresh` at each
`pc` from which an operation is called, and that a slot still ahead has no job (`SlotsOK`).

**Both sides.** `BegunOK` says that a job that has its run, a request that is out with evidence of
a run, and an answer that says "running" are of a run that began. With the parts' own
invariants that is what `LifecycleKept` needs: a manifest or a report never meets a run
that is not there, and `ControlInv` ties what is stored to the report that ends the
run. The other invariants hold only together (`LinkOK`): what is under way was saved
by the job that works for the run, or the run is over (`SentOK`); receipts are of what was
sent (`ReceiptsSent`); a run that is over while its job works has the job's report
(`RowsOK`); a run a handler has looked at is running (`LooksOK`), so that a stale look, which takes
a waiting run, never comes into it; the answer on its way is still true (`ReplyOK`); and a slot whose job has not got
its run meets neither a run that is over nor anything sent (`SlotsFresh`), which is where
a slot that comes twice would break it.

**The archive.** `ArchiveInv` follows a copy through its calls: what the temporary holds when
it is verified, that it is on disk before the rename (`TemporaryOK`), and that the name is on disk
before the row is marked (`CopyOK`), with the entries of the directories above it kept from
the first one down (`ChainOK`). That a process meets no temporary of its own needs
`Numbered`. The step of a loss of power is the hard one: each name goes to any of the
contents in `disk`, so the invariant has to speak of that set and not of what is seen.

**The scheduler and the process.** `OnceOK` says that a slot that was executed is not after the
`last` of its entry, that one in the batch is that `last` and was not executed yet, and that
`next` is after `last` (`Forward`); a configuration that comes between replaces an entry
or keeps it. `LateOK` says that the one job that begins after a stop leaves the worker
where it begins no other. `KeptOK` says of a slot that is owed that it is the `next` of
its entry or stands in the batch, and that no slot to come is missing from an entry
(`Covers`); the latter is where the limit of the search enters. The proofs take `Matches`
as any predicate on minutes: nothing is proved of the calendar. `ThreadsOK` gives, for
every stop flag, why it was set.

**Pulls, walks and calls.** `PullInv` says of each part that was read that it is right but for
what was touched since the pull began. `WalkInv` says that what was shown is in order and
not below the cursor, and that each row that was there since the beginning and still matches
was shown or is below it; `PageOK` is the lemma about one page, for which `Fetched` is stated as
a property of the sequence and not computed. `AnswerOK` says that the status on its way and the
one that was read are true of the question that waits, as a request of an earlier call
answers to a closed connection, and that an operation that ends has failed or has read an
answer.

**Checked by TLC only**: `RunSettles`, `JobSettlesOrStuck` and `StopEndsProcess`, and in
`ExchangeKept` that the caller is always told, since fairness needs `ENABLED`. Every other
property of a passing run is stated by a theorem.

## 7 Where code and words part

1. **A cell that is not UTF-8 stops the agent for good** (`AgentPoison`). The parser takes
   a row as it is, and the JSON library throws when the report of an archived file is
   built. The scheduler catches `DeliveryAbandoned` only, so the process ends with an
   error, is started again, recovers the same job first and ends again. The jobs behind
   it are not delivered either, although the README promises that registered jobs are
   delivered after a restart (`src/README.md:36`).
2. **Disabling a task strands a run that has begun** (`DisabledStart`).
   `TaskRunService::start` looks at `enabled` before it looks for the run. If the answer to
   the start got lost and the task is disabled before the repetition, the start is
   refused, the job goes to the operator and the run stays `running`. The comment in
   `management_command_service.cpp:264` says that running jobs are not interrupted;
   `start_manual` takes care of it, `start` does not.
3. **A scheduled start says "running" of a run that is over** (`ReplayedSlot`). The status in
   the answer is a constant in `task_run_service.cpp:174`, where
   `task_execution_client.h:43` documents that it tells an ended run. It takes a slot that
   is dispatched twice.

Two more have no run of their own, and are stated in properties as exceptions:

- **A record the database cannot store stops the agent for good.** The parser takes
  `record_time` and the codes as they are (`csv_parser.cpp:209`), the rules of quality drop
  no record, and the control plane looks at none of them before the `INSERT`
  (`result_repository.cpp:92`: a cast to `timestamptz`, columns of 64 characters). The exception
  is an internal error, which the agent takes for a passing one; it repeats the report
  without limit and drives no other job, where `src/README.md:36` promises that
  registered jobs go on after a restart. `RunSettles` and `JobSettlesOrStuck` hold up to
  `Stuck`, which `Serving` reaches; without that disjunct it is violated.
- **A run that was called off can still be ended by a report.** A report of a manual run that
  waits is read as such (`agent_report_service.cpp:226`), the task is disabled, the run is
  `failed`, and the report then makes it what it says (`task_run_repository.cpp:186`).
  `RunsEndOnce` has this exception. This agent sends no report before the run
  has begun, and a run that has begun is not called off, so in `ReliableReporting` it does
  not happen (`LifecycleKept`, `LooksOK`).

Three smaller ones concern no promise of a text of the repository:

- `kSearchLimit` is eight years (`cron_schedule.cpp:17`), so an expression with 29 February *and* a
  day of the week, which come together every 28 years, may have no next slot.
- An answer above 1 MiB is an error of the read (`control_plane_client.cpp:161`), hence of the
  network, and the request is repeated for ever though it was decided at once.
- A report whose quality rule was switched off by hand meanwhile is refused for good
  (`agent_report_service.cpp:296`), and the job waits for the operator. `RefusedForCause` has it
  as the one cause that refuses what was collected.

## 8 What is not modelled

- Handlers of the control plane statement by statement, but for the configuration and the
  disposal of alerts, and the look of a report's handler at its run. What this leaves out
  is two operators who use one idempotency key for two tasks at once: the insert of one
  finds the key taken, the row is read by its key alone (`task_run_repository.cpp:166`), and
  the answer names the run of the other task as a repetition. A key belongs to one task
  here.
- The start without an execution key, which this agent does not send.
- Times of heartbeats, and with them the effective status of a node and the staleness of
  a run; the two summaries of a node and of a run.
- Reading the agent's configuration file, encoding and decoding of bodies, validation of
  single fields, hashing: pure, and only their outcomes enter. A digest is its body.
- Listing of a directory, parsing of a file, and judging of its records: their outcomes per file
  are chosen freely.
- Packaging, scripts, and the web console.

## 9 The plan

Done: the reporting core (`Runs`, `AgentQueue`, `AgentExecutor`, `ControlPlane`, `RunLifecycle`,
`ReliableReporting`) with the proofs of section 6, then the parts around it (`CronSchedule`,
`TaskScheduler`, `AgentProcess`, `LocalArchive`, `Console`, `ConfigPull`, `HttpExchange`). Next, in this order:

1. `ControlStatements`: start, request and set_task_enabled as statements under READ COMMITTED
   with row locks and unique indexes, implementing `ControlPlane`'s actions, with the proof
   of that.
2. Proofs: the composition with jobs of an older version, from a control plane that knows their
   runs.
3. The parser of files as operators against reference definitions.
