---------------------------- MODULE AgentExecutor ----------------------------
(***************************************************************************)
(* The worker thread of the agent: TaskScheduler hands it one dispatch at a *)
(* time, TaskExecutor drives the job through its stages, and               *)
(* ReliableDeliveryClient sends its three requests, waits and retries.     *)
(* The process may end at any point and start again on the queue it left.  *)
(*                                                                         *)
(* The control plane, the source directory and the operator are the        *)
(* environment: an answer, a file that appears or disappears, an archived  *)
(* copy that is altered, a queue retry.  Module ReliableReporting puts the *)
(* real control plane in place of the arbitrary answers.                   *)
(*                                                                         *)
(* A step of this module ends where the code commits to the queue, changes *)
(* the archive or blocks, so a crash can fall between any two of those.     *)
(***************************************************************************)
EXTENDS AgentQueue

CONSTANTS
  NoKey,             \* the thread is not working on a job
  MaxFilesPerRun,    \* max_files_per_run
  Undecodable,       \* files with rows that are not UTF-8 text
  CutTexts,          \* sets of failed files whose error text is cut inside a character
  MaxExits,          \* bound on crashes, stops and rejected credentials
  ReplaySlots        \* may the clock be set back while the agent is down?

ASSUME ExecutorAssumption ==
  /\ NoKey \notin Keys
  /\ MaxFilesPerRun \in Nat \ {0}
  /\ Undecodable \subseteq Files
  /\ CutTexts \subseteq SUBSET Files
  /\ MaxExits \in Nat
  /\ ReplaySlots \in BOOLEAN

VARIABLES
  pc,        \* where the worker thread is
  cur,       \* the job it runs
  snap,      \* the RecoveredJob it holds in memory
  todo,      \* archive loop: files of snap still to visit
  packed,    \* archive loop: manifest.files
  fails,     \* archive loop: the local failure list
  backlog,   \* recovered jobs still to run
  slots,     \* scheduled slots still ahead of the scheduler
  exits,     \* how often it was ended from outside
  queueFault,\* an AgentQueueError has ended the process
  arch,      \* intact archived copies, per run
  spoiled    \* archived copies altered after they were written, per run

memory == <<cur, snap, todo, packed, fails>>
world == <<arch, spoiled>>
agentVars == <<jobs, processed, pc, cur, snap, todo, packed, fails, backlog,
               slots, exits, queueFault, arch, spoiled>>

PcValues == {"down",    \* no process holds the queue lock
             "idle",    \* in the scheduler loop, between two jobs
             "begin",   \* about to call begin_job
             "load",    \* about to call load_job
             "run",     \* run_reliable_job looks at the stage it has loaded
             "backoff", \* deliver waits for the time of the next attempt
             "call",    \* a request is out and not answered
             "archive", \* in the loop of run_collecting_stage
             "build"}   \* about to build the report

-----------------------------------------------------------------------------
(* The thread and the process.                                             *)

\* Back to the scheduler loop: the job is finished or left as it is.
LeaveJob ==
  /\ pc' = "idle" /\ cur' = NoKey /\ snap' = NoJob
  /\ todo' = {} /\ packed' = {} /\ fails' = {}
  /\ UNCHANGED <<backlog, exits, queueFault>>

\* The process ends: everything in memory is gone, the queue stays.
EndProcess ==
  /\ pc' = "down" /\ cur' = NoKey /\ snap' = NoJob
  /\ todo' = {} /\ packed' = {} /\ fails' = {}
  /\ backlog' = {}

\* The thread goes on with its job at another point.
GoTo(place) ==
  /\ pc' = place
  /\ UNCHANGED <<cur, backlog, exits, queueFault>>

\* Commit the new row set of the current job.
Commit(j) == jobs' = [jobs EXCEPT ![cur] = j]

\* Commit, load the job again and look at its stage.
CommitAndReload(j) ==
  /\ Commit(j) /\ snap' = Loaded(j) /\ GoTo("run")

\* A crash, a kill, or a stop request honoured while waiting: none of them
\* writes to the queue.
Exit ==
  /\ pc # "down" /\ exits < MaxExits
  /\ EndProcess /\ exits' = exits + 1
  /\ UNCHANGED <<queueVars, slots, queueFault, world>>

\* Mutant: jobs that wait for their next attempt are not read.
StartExecutable ==
  /\ pc = "down"
  /\ pc' = "idle"
  /\ backlog' = {k \in Keys : jobs[k].stage \in ExecutableStages}
  /\ UNCHANGED <<queueVars, memory, slots, exits, queueFault, world>>

\* main and recover_jobs: under the queue lock, read every job that is not
\* waiting for the operator.  The scheduler starts after the present minute,
\* so a slot comes back only if the clock was set back meanwhile.
Start ==
  /\ pc = "down"
  /\ pc' = "idle"
  /\ backlog' = {k \in Keys : CanLoad(jobs[k])}
  /\ \E again \in IF ReplaySlots THEN SUBSET ScheduledKeys ELSE {{}} :
       slots' = slots \cup again
  /\ UNCHANGED <<queueVars, memory, exits, queueFault, world>>

\* recover_pending_jobs.  No other thread writes to the queue, so the job read
\* at the start is still the job in the queue when its turn comes.
RecoverJob(k) ==
  /\ pc = "idle" /\ k \in backlog
  /\ backlog' = backlog \ {k}
  /\ cur' = k /\ snap' = Loaded(jobs[k]) /\ pc' = "run"
  /\ UNCHANGED <<queueVars, todo, packed, fails, slots, exits, queueFault, world>>

-----------------------------------------------------------------------------
(* Dispatch.                                                               *)

\* TaskExecutor::execute on a due slot.  The scheduler has moved its water
\* mark past the slot before, so a slot the full queue refuses is lost.
DispatchScheduled(k) ==
  /\ pc = "idle" /\ backlog = {} /\ k \in slots
  /\ slots' = slots \ {k}
  /\ IF HasCapacity THEN pc' = "begin" /\ cur' = k ELSE UNCHANGED <<pc, cur>>
  /\ UNCHANGED <<queueVars, snap, todo, packed, fails, backlog, exits,
                 queueFault, world>>

\* TaskExecutor::execute_pending on the candidate at the head of the list the
\* last poll brought, which may be out of date: here any manual key.  A key that
\* has a job is only a repeated notice, and a full queue puts the candidate
\* back: neither changes anything.
DispatchManual(k) ==
  /\ pc = "idle" /\ backlog = {} /\ k \in ManualKeys
  /\ k \notin PendingKeys /\ HasCapacity
  /\ pc' = "begin" /\ cur' = k
  /\ UNCHANGED <<queueVars, snap, todo, packed, fails, backlog, slots, exits,
                 queueFault, world>>

\* wait_until: nothing is due, or the queue is full.
NothingDue == pc = "idle" /\ backlog = {} /\ UNCHANGED agentVars

\* Mutant: the job is inserted or replaced.
BeginJobOver ==
  /\ pc = "begin"
  /\ Commit(NewJob) /\ GoTo("load")
  /\ UNCHANGED <<processed, snap, todo, packed, fails, slots, world>>

\* begin_job: a second call for the same job finds it and changes nothing.
BeginJob ==
  /\ pc = "begin"
  /\ cur \in PendingKeys \/ HasCapacity
  /\ IF cur \in PendingKeys THEN UNCHANGED jobs ELSE Commit(NewJob)
  /\ GoTo("load")
  /\ UNCHANGED <<processed, snap, todo, packed, fails, slots, world>>

LoadJob ==
  /\ pc = "load" /\ CanLoad(jobs[cur])
  /\ snap' = Loaded(jobs[cur]) /\ GoTo("run")
  /\ UNCHANGED <<queueVars, todo, packed, fails, slots, world>>

-----------------------------------------------------------------------------
(* ReliableDeliveryClient::deliver.                                        *)

WantsDelivery == pc = "run" /\ snap.stage \in DeliveryStages

\* The body exceeds the limit: to the operator, before any wait.
AbandonOversized ==
  /\ WantsDelivery
  /\ CanMarkRequiresAttention(jobs[cur])
  /\ Commit(MarkRequiresAttention(jobs[cur], "other"))
  /\ LeaveJob
  /\ UNCHANGED <<processed, slots, world>>

\* Mutant: the waiting job is sent without resume_delivery.
BeginDeliveryAtOnce ==
  /\ WantsDelivery /\ GoTo("call")
  /\ UNCHANGED <<queueVars, snap, todo, packed, fails, slots, world>>

BeginDelivery ==
  /\ WantsDelivery
  /\ GoTo(IF jobs[cur].stage = "retry_wait" THEN "backoff" ELSE "call")
  /\ UNCHANGED <<queueVars, snap, todo, packed, fails, slots, world>>

\* The wait is over: resume_delivery, then the next attempt.
RetryDelivery ==
  /\ pc = "backoff"
  /\ Commit(ResumeDelivery(jobs[cur]))
  /\ GoTo("call")
  /\ UNCHANGED <<processed, snap, todo, packed, fails, slots, world>>

\* Mutant: the thread gives the job up after a failed attempt.
AttemptFailsAbandoned ==
  /\ pc = "call"
  /\ Commit(RecordDeliveryFailure(jobs[cur], TRUE))
  /\ LeaveJob
  /\ UNCHANGED <<processed, slots, world>>

\* No answer in time, a refused connection, 408, 429 or 5xx.
AttemptFails ==
  /\ pc = "call"
  /\ Commit(RecordDeliveryFailure(jobs[cur], TRUE))
  /\ GoTo("backoff")
  /\ UNCHANGED <<processed, snap, todo, packed, fails, slots, world>>

\* 401 or 403: kept as a retry without delay, and the process ends.
AttemptUnauthorized ==
  /\ pc = "call" /\ exits < MaxExits
  /\ Commit(RecordDeliveryFailure(jobs[cur], TRUE))
  /\ EndProcess /\ exits' = exits + 1
  /\ UNCHANGED <<processed, slots, queueFault, world>>

\* Any other answer that is not a success: to the operator.
AttemptRejected ==
  /\ pc = "call"
  /\ Commit(RecordDeliveryFailure(jobs[cur], FALSE))
  /\ LeaveJob
  /\ UNCHANGED <<processed, slots, world>>

\* The start is answered "running": collect.
StartAnswered ==
  /\ pc = "call" /\ snap.stage = "start_pending"
  /\ CanAcceptStart(jobs[cur])
  /\ CommitAndReload(AcceptStart(jobs[cur]))
  /\ UNCHANGED <<processed, todo, packed, fails, slots, world>>

\* The control plane has already finished the run: drop the empty job.
StartAnsweredFinished ==
  /\ pc = "call" /\ snap.stage = "start_pending"
  /\ CanDiscardStartPending(jobs[cur])
  /\ Commit(NoJob)
  /\ LeaveJob
  /\ UNCHANGED <<processed, slots, world>>

ManifestAnswered ==
  /\ pc = "call" /\ snap.stage = "manifest_pending"
  /\ CanAcceptManifest(jobs[cur])
  /\ CommitAndReload(AcceptManifest(jobs[cur]))
  /\ UNCHANGED <<processed, todo, packed, fails, slots, world>>

\* The report is accepted: complete_job.
ReportAnswered ==
  /\ pc = "call" /\ snap.stage = "report_pending"
  /\ CanCompleteJob(jobs[cur])
  /\ AddProcessed(cur)
  /\ Commit(NoJob)
  /\ LeaveJob
  /\ UNCHANGED <<slots, world>>

-----------------------------------------------------------------------------
(* run_collecting_stage.                                                   *)

WantsPlan ==
  pc = "run" /\ snap.stage = "collecting" /\ snap.plan = {} /\ ~snap.marker

\* Mutant: the loop starts with an empty failure list.
EnterArchiveLoopEmpty(j) ==
  LET amended == j.failures \cup j.errors
      kept == IF amended = j.failures THEN j ELSE SaveFileFailures(j, amended)
  IN /\ Commit(kept) /\ snap' = Loaded(kept)
     /\ todo' = kept.plan \ kept.errors
     /\ packed' = {} /\ fails' = {}
     /\ GoTo("archive")

\* The next point is the archive loop over the reloaded job, after the failure
\* list of a job left half written by an older version is brought up to date.
EnterArchiveLoop(j) ==
  LET amended == j.failures \cup j.errors
      kept == IF amended = j.failures THEN j ELSE SaveFileFailures(j, amended)
  IN /\ Commit(kept) /\ snap' = Loaded(kept)
     /\ todo' = kept.plan \ kept.errors
     /\ packed' = {} /\ fails' = kept.failures
     /\ GoTo("archive")

\* plan_from_directory: the directory in order, up to max_files_per_run files;
\* one that cannot be read is a failure and takes a place, one that is known
\* or planned by another job is passed over.
DirectorySelection(dir, plan, unread) ==
  LET taken == plan \cup unread IN
  /\ taken \subseteq dir /\ plan \cap unread = {}
  /\ \A f \in plan : ~Occupied(TaskOf[cur], f)
  /\ Cardinality(taken) <= MaxFilesPerRun
  /\ \/ Cardinality(taken) = MaxFilesPerRun
     \/ \A f \in dir \ taken : Occupied(TaskOf[cur], f)

\* plan_from_retry_targets: every target is planned or listed as failed; one
\* that another job has in flight fails.
RetrySelection(plan, unread) ==
  /\ plan \cup unread = RetryTargets[cur] /\ plan \cap unread = {}
  /\ \A f \in plan : ~InFlight(TaskOf[cur], f)

\* Select the files, save plan and marker in one transaction, go on.
PlanFiles(plan, unread) ==
  /\ WantsPlan
  /\ CanSaveFilePlan(jobs[cur])
  /\ IF RetryTargets[cur] = {}
     THEN \E dir \in SUBSET Files : DirectorySelection(dir, plan, unread)
     ELSE RetrySelection(plan, unread)
  /\ EnterArchiveLoop(SaveFilePlan(jobs[cur], plan, unread))
  /\ UNCHANGED <<processed, slots, world>>

\* The directory cannot be read, the configuration is invalid, or a file name
\* cannot be encoded into the manifest or the failure list: the run is reported
\* as failed as a whole, with the failures the queue knows of.
CollectionFails ==
  /\ \/ WantsPlan
     \/ pc = "archive" /\ todo \cup packed # {}
  /\ CanSaveReport(jobs[cur])
  /\ CommitAndReload(SaveReport(jobs[cur],
                        [status |-> "failed", failed |-> jobs[cur].failures,
                         records |-> {}], {}))
  /\ todo' = {} /\ packed' = {} /\ fails' = {}
  /\ UNCHANGED <<processed, slots, world>>

\* A recovered job that has its plan enters the loop again.
ResumeArchiving ==
  /\ pc = "run" /\ snap.stage = "collecting"
  /\ snap.plan # {} \/ snap.marker
  /\ EnterArchiveLoop(snap)
  /\ UNCHANGED <<processed, slots, world>>

\* LocalArchiveStore::archive has renamed the verified copy into place; the
\* process may end before the queue knows.
ArchiveFile(f) ==
  /\ pc = "archive" /\ f \in todo
  /\ f \notin arch[cur] \cup spoiled[cur]
  /\ arch' = [arch EXCEPT ![cur] = @ \cup {f}]
  /\ UNCHANGED <<queueVars, pc, memory, backlog, slots, exits,
                 queueFault, spoiled>>

\* recover_archive has found or made the copy: record it, add the entry.
ArchiveRecorded(f) ==
  /\ pc = "archive" /\ f \in todo /\ f \in arch[cur]
  /\ Commit(MarkFileArchived(jobs[cur], f))
  /\ packed' = packed \cup {f} /\ todo' = todo \ {f}
  /\ GoTo("archive")
  /\ UNCHANGED <<processed, snap, fails, slots, world>>

\* The source is gone or has changed, or reading, writing or syncing failed.
ArchiveFailed(f) ==
  /\ pc = "archive" /\ f \in todo /\ f \notin spoiled[cur]
  /\ fails' = fails \cup {f} /\ todo' = todo \ {f}
  /\ Commit(MarkFileFailed(jobs[cur], f, fails \cup {f}))
  /\ GoTo("archive")
  /\ UNCHANGED <<processed, snap, packed, slots, world>>

\* ArchiveConflictError: the copy on disk is not the planned content.
ArchiveConflict(f) ==
  /\ pc = "archive" /\ f \in todo /\ f \in spoiled[cur]
  /\ CanMarkRequiresAttention(jobs[cur])
  /\ Commit(MarkRequiresAttention(jobs[cur], "archive_conflict"))
  /\ LeaveJob
  /\ UNCHANGED <<processed, slots, world>>

\* Mutant: the manifest is made from the plan.
ManifestSavedFromPlan ==
  /\ pc = "archive" /\ todo = {} /\ packed # {}
  /\ CanSaveManifest(jobs[cur])
  /\ CommitAndReload(SaveManifest(jobs[cur], snap.plan))
  /\ packed' = {} /\ fails' = {}
  /\ UNCHANGED <<processed, todo, slots, world>>

\* The loop is over with entries for a manifest.
ManifestSaved ==
  /\ pc = "archive" /\ todo = {} /\ packed # {}
  /\ CanSaveManifest(jobs[cur])
  /\ CommitAndReload(SaveManifest(jobs[cur], packed))
  /\ packed' = {} /\ fails' = {}
  /\ UNCHANGED <<processed, todo, slots, world>>

\* Mutant: the job is not loaded again.
NothingArchivedStale ==
  /\ pc = "archive" /\ todo = {} /\ packed = {}
  /\ fails' = {} /\ GoTo("build")
  /\ UNCHANGED <<queueVars, snap, todo, packed, slots, world>>

\* Nothing was archived: on to the report, loading the list again if this loop
\* has added to it.
NothingArchived ==
  /\ pc = "archive" /\ todo = {} /\ packed = {}
  /\ snap' = IF jobs[cur].errors # snap.errors THEN Loaded(jobs[cur]) ELSE snap
  /\ fails' = {} /\ GoTo("build")
  /\ UNCHANGED <<queueVars, todo, packed, slots, world>>

-----------------------------------------------------------------------------
(* Building the report.                                                    *)

WantsReport ==
  \/ pc = "build"
  \/ pc = "run" /\ snap.stage = "report_building"

\* The files that are parsed: an id from the manifest and no recorded error.
Parsable == {f \in snap.plan : f \notin snap.errors /\ f \in snap.bound}

\* Mutant: only what the parser found is listed.
ReportSavedParsed(broken, partial) ==
  LET failed == broken \cup partial
      clean == Parsable \ failed
  IN /\ WantsReport
     /\ broken \cap partial = {} /\ broken \cup partial \subseteq Parsable
     /\ CanSaveReport(jobs[cur])
     /\ CommitAndReload(SaveReport(jobs[cur],
           [status |-> IF failed = {} THEN "succeeded" ELSE "failed",
            failed |-> failed, records |-> clean \cup partial], clean))
     /\ UNCHANGED <<processed, todo, packed, fails, slots, world>>

\* broken files give no records, partial ones give some; both are listed.  An
\* undecodable file comes to an end only when it cannot be read at all.
ReportSaved(broken, partial) ==
  LET failed == snap.failures \cup broken \cup partial
      clean == Parsable \ (broken \cup partial)
  IN /\ WantsReport
     /\ broken \cap partial = {} /\ broken \cup partial \subseteq Parsable
     /\ Parsable \cap Undecodable \subseteq broken /\ failed \notin CutTexts
     /\ CanSaveReport(jobs[cur])
     /\ CommitAndReload(SaveReport(jobs[cur],
           [status |-> IF failed = {} THEN "succeeded" ELSE "failed",
            failed |-> failed, records |-> clean \cup partial], clean))
     /\ UNCHANGED <<processed, todo, packed, fails, slots, world>>

\* The JSON library refuses what is not UTF-8: a cell, or the error text, which is
\* cut at 512 bytes wherever that falls.  Nothing between the parser and main catches
\* its exception, and the process ends with exit code 1.
ReportThrows ==
  /\ WantsReport
  /\ \/ Parsable \cap Undecodable # {}
     \/ \E unparsed \in SUBSET Parsable : snap.failures \cup unparsed \in CutTexts
  /\ EndProcess
  /\ UNCHANGED <<queueVars, slots, exits, queueFault, world>>

-----------------------------------------------------------------------------
(* An operation of the queue that would throw AgentQueueError ends the      *)
(* process with exit code 1.  begin_job also throws on a job that was made  *)
(* from another task configuration.                                        *)

RequestOf == [start_pending |-> "start", manifest_pending |-> "manifest",
              report_pending |-> "report"]

QueueOperationThrows ==
  \/ pc = "begin" /\ (cur \in PendingKeys \/ ~HasCapacity)
  \/ pc = "load" /\ ~CanLoad(jobs[cur])
  \/ WantsDelivery /\ \/ RequestOf[snap.stage] \notin jobs[cur].requests
                      \/ ~CanMarkRequiresAttention(jobs[cur])
  \/ pc = "call" /\ snap.stage = "start_pending"
       /\ ~(CanAcceptStart(jobs[cur]) /\ CanDiscardStartPending(jobs[cur]))
  \/ pc = "call" /\ snap.stage = "manifest_pending" /\ ~CanAcceptManifest(jobs[cur])
  \/ pc = "call" /\ snap.stage = "report_pending" /\ ~CanCompleteJob(jobs[cur])
  \/ WantsPlan /\ ~CanSaveFilePlan(jobs[cur])
  \/ pc = "archive" /\ todo = {} /\ packed # {} /\ ~CanSaveManifest(jobs[cur])
  \/ WantsReport /\ ~CanSaveReport(jobs[cur])

QueueError ==
  /\ QueueOperationThrows
  /\ queueFault' = TRUE
  /\ EndProcess
  /\ UNCHANGED <<queueVars, slots, exits, world>>

-----------------------------------------------------------------------------
(* The operator and the file system.                                       *)

\* Mutant: queue retry does not take the lock.
RetryAttentionUnlocked(k) ==
  /\ CanRetryAttentionJob(jobs[k])
  /\ jobs' = [jobs EXCEPT ![k] = RetryAttentionJob(@)]
  /\ UNCHANGED <<processed, pc, memory, backlog, slots, exits,
                 queueFault, world>>

\* queue retry takes the queue lock, so the agent is not running.
RetryAttention(k) ==
  /\ pc = "down" /\ CanRetryAttentionJob(jobs[k])
  /\ jobs' = [jobs EXCEPT ![k] = RetryAttentionJob(@)]
  /\ UNCHANGED <<processed, pc, memory, backlog, slots, exits,
                 queueFault, world>>

\* Somebody alters an archived copy, or the operator takes the bad copy away.
SpoilArchive(k, f) ==
  /\ f \in arch[k]
  /\ arch' = [arch EXCEPT ![k] = @ \ {f}]
  /\ spoiled' = [spoiled EXCEPT ![k] = @ \cup {f}]
  /\ UNCHANGED <<queueVars, pc, memory, backlog, slots, exits,
                 queueFault>>

ClearArchive(k, f) ==
  /\ f \in spoiled[k]
  /\ jobs[k].stage = "requires_attention" /\ jobs[k].errorKind = "archive_conflict"
  /\ spoiled' = [spoiled EXCEPT ![k] = @ \ {f}]
  /\ UNCHANGED <<queueVars, pc, memory, backlog, slots, exits,
                 queueFault, arch>>

-----------------------------------------------------------------------------

Init ==
  /\ QueueInit
  /\ pc = "down" /\ cur = NoKey /\ snap = NoJob
  /\ todo = {} /\ packed = {} /\ fails = {}
  /\ backlog = {}
  /\ slots = ScheduledKeys \ LegacyKeys
  /\ exits = 0 /\ queueFault = FALSE
  /\ arch = [k \in Keys |-> {}] /\ spoiled = [k \in Keys |-> {}]

\* The scheduler hands the thread another job.
Dispatch == \E k \in Keys : DispatchScheduled(k) \/ DispatchManual(k)

\* The thread drives its job.
JobStep ==
  \/ \E k \in Keys : RecoverJob(k)
  \/ BeginJob \/ LoadJob
  \/ AbandonOversized \/ BeginDelivery \/ RetryDelivery
  \/ \E plan, unread \in SUBSET Files : PlanFiles(plan, unread)
  \/ CollectionFails \/ ResumeArchiving
  \/ \E f \in Files : ArchiveFile(f) \/ ArchiveRecorded(f) \/ ArchiveFailed(f)
                      \/ ArchiveConflict(f)
  \/ ManifestSaved \/ NothingArchived
  \/ \E broken, partial \in SUBSET Files : ReportSaved(broken, partial)
  \/ ReportThrows \/ QueueError

ThreadStep == Dispatch \/ JobStep

\* How a request ends.
Answer ==
  \/ AttemptFails \/ AttemptUnauthorized \/ AttemptRejected
  \/ StartAnswered \/ StartAnsweredFinished \/ ManifestAnswered \/ ReportAnswered

Environment ==
  \/ Exit \/ Start \/ NothingDue
  \/ \E k \in Keys : RetryAttention(k)
  \/ \E k \in Keys, f \in Files : SpoilArchive(k, f) \/ ClearArchive(k, f)

Next == ThreadStep \/ Answer \/ Environment

Spec == Init /\ [][Next]_agentVars

\* The thread runs; the service manager starts the process again; a request
\* that is repeated for ever is in the end answered with something final, which is
\* more than the control plane promises (ReliableReporting).
Final == AttemptRejected \/ StartAnswered \/ StartAnsweredFinished
         \/ ManifestAnswered \/ ReportAnswered

FairSpec ==
  /\ Spec
  /\ WF_agentVars(ThreadStep) /\ WF_agentVars(Start)
  /\ WF_agentVars(Answer) /\ SF_agentVars(Final)

-----------------------------------------------------------------------------
(* Properties.                                                             *)

TypeOK ==
  /\ QueueTypeOK
  /\ pc \in PcValues /\ cur \in Keys \cup {NoKey} /\ snap \in Job
  /\ todo \in SUBSET Files /\ packed \in SUBSET Files /\ fails \in SUBSET Files
  /\ backlog \in SUBSET Keys
  /\ slots \in SUBSET ScheduledKeys
  /\ exits \in 0..MaxExits /\ queueFault \in BOOLEAN
  /\ arch \in [Keys -> SUBSET Files] /\ spoiled \in [Keys -> SUBSET Files]

\* Wherever the process is killed, a job that is found again has exactly the
\* requests, file rows and resume point its stage needs: what the single
\* transactions of begin_job, save_file_plan, save_manifest, accept_manifest
\* and save_report are for.
JobEvidence ==
  \A k \in PendingKeys :
    LET j == jobs[k] IN ResumePointOK(j) /\ EvidenceOK(j) /\ FailuresOK(k, j)

\* No failure gets lost on its way into the report, through restarts, stale
\* copies in memory and queues of older versions (mark_file_failed, the reload
\* and the amendment in run_collecting_stage).
ReportTellsFailures == \A k \in PendingKeys : ReportOK(jobs[k])

\* Every decision of the thread rests on a copy of the job it took earlier.  At
\* each point the copy, the loop's lists and the row in the queue agree on what
\* the next operation relies on, whatever was committed in between.
SnapshotFresh ==
  LET j == jobs[cur] IN
  /\ pc \in {"down", "idle"} <=> cur = NoKey
  /\ pc \in {"run", "backoff", "call", "archive", "build"} => CanLoad(j)
  /\ pc = "run" => snap = Loaded(j)
  /\ pc = "call" => snap.stage = j.stage /\ j.stage \in DeliveryStages
  /\ pc = "backoff" => j.stage = "retry_wait" /\ snap.stage = j.retryStage
  /\ pc = "archive" =>
       /\ j.stage = "collecting" /\ snap.plan = j.plan
       /\ todo \cup packed = j.plan \ j.errors /\ todo \cap packed = {}
       /\ packed \subseteq j.archived /\ packed \subseteq arch[cur] \cup spoiled[cur]
       /\ fails = j.failures /\ j.errors \subseteq j.failures
       /\ snap.errors \subseteq j.errors /\ snap.bound = {}
       /\ snap.errors = j.errors => snap.failures = j.failures
  /\ pc = "build" =>
       /\ j.stage = "collecting" /\ j.plan = j.errors
       /\ snap.plan = j.plan /\ snap.errors = j.errors
       /\ snap.failures = j.failures /\ snap.bound = {}
       /\ j.errors \subseteq j.failures

\* While the process runs, a job that does not wait for the operator is being
\* worked on or still due in the recovery pass: there is no later pass in
\* which a job dropped from memory would be found.
NoJobForgotten ==
  pc # "down" => \A k \in Keys : CanLoad(jobs[k]) => k \in backlog \cup {cur}

\* A file version is planned by one pending job of its task only, a job that
\* waits for the operator included (is_file_occupied, is_file_in_flight).
NoDoublePlan ==
  \A k, other \in PendingKeys :
    k # other /\ TaskOf[k] = TaskOf[other] => jobs[k].plan \cap jobs[other].plan = {}

\* A manifest never names a file that was not archived before, so the evidence
\* exists, intact or not, for every entry the control plane gets to see.
ManifestBacked ==
  \A k \in PendingKeys : jobs[k].manifest \subseteq arch[k] \cup spoiled[k]

\* The stage protocol never runs into one of the AgentQueueErrors that would
\* end the process (as long as no slot is dispatched a second time).
NoQueueFault == ~queueFault

\* A request that was saved is repeated unchanged for as long as the job
\* exists: the control plane compares the repetition with the first one.
RequestsFrozen ==
  [][\A k \in PendingKeys : jobs'[k].stage # "absent" =>
       /\ jobs[k].requests \subseteq jobs'[k].requests
       /\ "manifest" \in jobs[k].requests => jobs'[k].manifest = jobs[k].manifest
       /\ "report" \in jobs[k].requests => jobs'[k].report = jobs[k].report
    ]_agentVars

\* The failure list of a job only grows: what was said to have failed is not
\* tried again by the same job and not taken off the list.
FailuresKept ==
  [][\A k \in PendingKeys : jobs'[k].stage # "absent" =>
       jobs[k].failures \subseteq jobs'[k].failures /\ jobs[k].errors \subseteq jobs'[k].errors
    ]_agentVars

\* Neither a retry, nor a restart, nor the operator sends a job back to a stage
\* before one it has reached.
StageRank == [none |-> 0, start_pending |-> 0, collecting |-> 1, manifest_pending |-> 2,
              report_building |-> 3, report_pending |-> 4]
StageNeverGoesBack ==
  [][\A k \in PendingKeys : jobs'[k].stage # "absent" =>
       StageRank[EffectiveStage(jobs[k])] <= StageRank[EffectiveStage(jobs'[k])]]_agentVars

\* A job that requires attention is touched by nothing but the operator's queue
\* retry, which needs the agent to be down.
AttentionIsLeftAlone ==
  [][\A k \in Keys : jobs[k].stage = "requires_attention" /\ jobs'[k] # jobs[k] =>
       pc = "down" /\ jobs'[k].stage \in ExecutableStages]_agentVars

\* Every job in the queue is in the end completed, dropped as already finished,
\* or handed to the operator.
JobSettles ==
  \A k \in Keys : CanLoad(jobs[k]) ~> ~CanLoad(jobs[k])
=============================================================================
