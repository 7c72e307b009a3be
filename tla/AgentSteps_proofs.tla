--------------------------- MODULE AgentSteps_proofs ---------------------------
(***************************************************************************)
(* What one step of the agent never does to a job, and what follows for     *)
(* the plans, the manifests and the errors of the queue, for every set of   *)
(* keys, tasks and files.                                                  *)
(***************************************************************************)
EXTENDS AgentExecutor_proofs

USE DEF Job, Reports, Stages, ExecutableStages, DeliveryStages, RequestTypes

-----------------------------------------------------------------------------
(* What one operation of the queue does to the job it is called on.         *)

\* What no operation takes from a job that stays in the queue.
GoesOn(j, n) ==
  /\ n.stage # "absent"
  /\ j.requests \subseteq n.requests
  /\ "manifest" \in j.requests => n.manifest = j.manifest
  /\ "report" \in j.requests => n.report = j.report
  /\ j.failures \subseteq n.failures /\ j.errors \subseteq n.errors
  /\ StageRank[EffectiveStage(j)] <= StageRank[EffectiveStage(n)]
  /\ EffectiveStage(j) \in ExecutableStages => EffectiveStage(n) \in ExecutableStages

\* Without the marker nothing has failed so far.
Unmarked(j) == ~j.marker => j.failures = {}

\* What all operations but save_file_plan and save_manifest leave alone besides.
Continues(j, n) ==
  /\ GoesOn(j, n)
  /\ n.plan = j.plan /\ n.manifest = j.manifest
  /\ n.marker \/ (~j.marker /\ n.failures = j.failures)

LEMMA Ranks ==
  /\ StageRank["none"] = 0 /\ StageRank["start_pending"] = 0
  /\ StageRank["collecting"] = 1 /\ StageRank["manifest_pending"] = 2
  /\ StageRank["report_building"] = 3 /\ StageRank["report_pending"] = 4
BY DEF StageRank

\* Every job in the queue goes on at a stage that has a rank.
LEMMA RankOfJob ==
  ASSUME NEW k, NEW j, JobOK(k, j), j.stage # "absent"
  PROVE  /\ EffectiveStage(j) \in ExecutableStages \cup {"none"}
         /\ StageRank[EffectiveStage(j)] \in 0..4
<1>1. EffectiveStage(j) \in ExecutableStages \cup {"none"}
  BY DEF JobOK, ResumePointOK, EffectiveStage, ResumeStage
<1> QED BY <1>1, Ranks

\* Only where the job goes on from changes, and it is the same stage.
LEMMA SameStageGoesOn ==
  ASSUME NEW k, NEW j, JobOK(k, j), j.stage # "absent",
         NEW n, n.stage # "absent", EffectiveStage(n) = EffectiveStage(j),
         n.requests = j.requests, n.manifest = j.manifest, n.report = j.report,
         n.failures = j.failures, n.errors = j.errors, n.plan = j.plan, n.marker = j.marker
  PROVE  Continues(j, n)
<1>1. j.marker \in BOOLEAN
  BY DEF JobOK
<1> QED BY <1>1, RankOfJob DEF Continues, GoesOn

LEMMA AcceptStartGoesOn ==
  ASSUME NEW k, NEW j, JobOK(k, j), CanAcceptStart(j)
  PROVE  Continues(j, AcceptStart(j))
<1> DEFINE n == AcceptStart(j)
<1>1. /\ j \in Job /\ j.stage = "start_pending" /\ EffectiveStage(j) = "start_pending"
  BY DEF CanAcceptStart, JobOK, EffectiveStage
<1>2. /\ n.stage = "collecting" /\ EffectiveStage(n) = "collecting"
      /\ n.requests = j.requests /\ n.manifest = j.manifest /\ n.report = j.report
      /\ n.failures = j.failures /\ n.errors = j.errors
      /\ n.plan = j.plan /\ n.marker = j.marker
  BY <1>1 DEF AcceptStart, EffectiveStage
<1> QED BY <1>1, <1>2, Ranks DEF Continues, GoesOn

LEMMA AcceptManifestGoesOn ==
  ASSUME NEW k, NEW j, JobOK(k, j), j.stage = "manifest_pending"
  PROVE  Continues(j, AcceptManifest(j))
<1> DEFINE n == AcceptManifest(j)
<1>1. j \in Job /\ EffectiveStage(j) = "manifest_pending"
  BY DEF JobOK, EffectiveStage
<1>2. /\ n.stage = "report_building" /\ EffectiveStage(n) = "report_building"
      /\ n.requests = j.requests /\ n.manifest = j.manifest /\ n.report = j.report
      /\ n.failures = j.failures /\ n.errors = j.errors
      /\ n.plan = j.plan /\ n.marker = j.marker
  BY <1>1 DEF AcceptManifest, EffectiveStage
<1> QED BY <1>1, <1>2, Ranks DEF Continues, GoesOn

LEMMA DeliveryFailureGoesOn ==
  ASSUME NEW k, NEW j, JobOK(k, j), j.stage \in DeliveryStages, NEW retryable \in BOOLEAN
  PROVE  Continues(j, RecordDeliveryFailure(j, retryable))
<1> DEFINE n == RecordDeliveryFailure(j, retryable)
<1>1. j \in Job /\ EffectiveStage(j) = j.stage
  BY DEF JobOK, EffectiveStage
<1>2. /\ n.stage \in {"retry_wait", "requires_attention"} /\ n.retryStage = j.stage
      /\ n.requests = j.requests /\ n.manifest = j.manifest /\ n.report = j.report
      /\ n.failures = j.failures /\ n.errors = j.errors
      /\ n.plan = j.plan /\ n.marker = j.marker
  BY <1>1 DEF RecordDeliveryFailure
<1>3. EffectiveStage(n) = j.stage
  BY <1>2 DEF EffectiveStage, ResumeStage
<1> HIDE DEF n
<1>4. Continues(j, n)
  BY <1>1, <1>2, <1>3, SameStageGoesOn
<1> QED BY <1>4 DEF n

LEMMA ResumeDeliveryGoesOn ==
  ASSUME NEW k, NEW j, JobOK(k, j), j.stage = "retry_wait"
  PROVE  Continues(j, ResumeDelivery(j))
<1> DEFINE n == ResumeDelivery(j)
<1>1. j \in Job /\ EffectiveStage(j) = j.retryStage /\ j.retryStage \in DeliveryStages
  BY DEF JobOK, EffectiveStage, ResumePointOK
<1>2. /\ n.stage = j.retryStage
      /\ n.requests = j.requests /\ n.manifest = j.manifest /\ n.report = j.report
      /\ n.failures = j.failures /\ n.errors = j.errors
      /\ n.plan = j.plan /\ n.marker = j.marker
  BY <1>1 DEF ResumeDelivery
<1>3. EffectiveStage(n) = j.retryStage
  BY <1>1, <1>2 DEF EffectiveStage
<1> HIDE DEF n
<1>4. Continues(j, n)
  BY <1>1, <1>2, <1>3, SameStageGoesOn
<1> QED BY <1>4 DEF n

LEMMA AttentionGoesOn ==
  ASSUME NEW k, NEW j, JobOK(k, j), CanMarkRequiresAttention(j),
         NEW kind \in {"archive_conflict", "other"}
  PROVE  Continues(j, MarkRequiresAttention(j, kind))
<1> DEFINE n == MarkRequiresAttention(j, kind)
<1>1. j \in Job /\ EffectiveStage(j) \in ExecutableStages
      /\ EffectiveStage(j) = IF j.stage = "retry_wait" THEN j.retryStage ELSE j.stage
  BY DEF JobOK, EffectiveStage, CanMarkRequiresAttention
<1>2. /\ n.stage = "requires_attention"
      /\ n.retryStage = IF j.stage = "retry_wait" THEN j.retryStage ELSE j.stage
      /\ n.requests = j.requests /\ n.manifest = j.manifest /\ n.report = j.report
      /\ n.failures = j.failures /\ n.errors = j.errors
      /\ n.plan = j.plan /\ n.marker = j.marker
  BY <1>1 DEF MarkRequiresAttention
<1>3. EffectiveStage(n) = EffectiveStage(j)
  BY <1>1, <1>2 DEF EffectiveStage, ResumeStage
<1>4. j.stage # "absent"
  BY DEF CanMarkRequiresAttention
<1> HIDE DEF n
<1>5. Continues(j, n)
  BY <1>2, <1>3, <1>4, SameStageGoesOn
<1> QED BY <1>5 DEF n

LEMMA RetryAttentionGoesOn ==
  ASSUME NEW k, NEW j, JobOK(k, j), CanRetryAttentionJob(j)
  PROVE  /\ Continues(j, RetryAttentionJob(j)) /\ RetryAttentionJob(j).stage \in ExecutableStages
<1> DEFINE n == RetryAttentionJob(j)
<1>1. j \in Job /\ j.stage = "requires_attention" /\ ResumeStage(j) \in ExecutableStages
  BY DEF JobOK, CanRetryAttentionJob
<1>2. /\ n.stage = ResumeStage(j)
      /\ n.requests = j.requests /\ n.manifest = j.manifest /\ n.report = j.report
      /\ n.failures = j.failures /\ n.errors = j.errors
      /\ n.plan = j.plan /\ n.marker = j.marker
  BY <1>1 DEF RetryAttentionJob
<1>3. EffectiveStage(n) = EffectiveStage(j)
  BY RetryAttentionJobOK
<1> HIDE DEF n
<1>4. Continues(j, n) /\ n.stage \in ExecutableStages
  BY <1>1, <1>2, <1>3, SameStageGoesOn
<1> QED BY <1>4 DEF n

\* save_file_plan on a job that has neither plan nor list.
LEMMA SaveFilePlanGoesOn ==
  ASSUME NEW k, NEW j, JobOK(k, j), Unmarked(j), j.stage = "collecting", j.plan = {}, ~j.marker,
         NEW plan, NEW failures
  PROVE  /\ GoesOn(j, SaveFilePlan(j, plan, failures))
         /\ SaveFilePlan(j, plan, failures).marker
         /\ SaveFilePlan(j, plan, failures).plan = plan
         /\ SaveFilePlan(j, plan, failures).manifest = j.manifest
         /\ SaveFilePlan(j, plan, failures).errors = {}
<1> DEFINE n == SaveFilePlan(j, plan, failures)
<1>1. j \in Job /\ j.failures = {} /\ j.errors = {} /\ EffectiveStage(j) = "collecting"
  BY DEF JobOK, FailuresOK, Unmarked, EffectiveStage
<1>2. /\ n.stage = "collecting" /\ EffectiveStage(n) = "collecting" /\ n.marker
      /\ n.requests = j.requests /\ n.manifest = j.manifest /\ n.report = j.report
      /\ n.errors = j.errors /\ n.plan = plan
  BY <1>1 DEF SaveFilePlan, EffectiveStage
<1> QED BY <1>1, <1>2, Ranks DEF GoesOn

\* The failure list grows, by an amendment or by a file that fails now.
LEMMA FailuresGoOn ==
  ASSUME NEW k, NEW j, JobOK(k, j), j.stage = "collecting",
         NEW failures, j.failures \subseteq failures
  PROVE  /\ Continues(j, SaveFileFailures(j, failures))
         /\ \A f : Continues(j, MarkFileFailed(j, f, failures))
<1>1. j \in Job /\ EffectiveStage(j) = "collecting"
  BY DEF JobOK, EffectiveStage
<1>2. Continues(j, SaveFileFailures(j, failures))
  <2> DEFINE n == SaveFileFailures(j, failures)
  <2>1. /\ n.stage = "collecting" /\ EffectiveStage(n) = "collecting" /\ n.marker
        /\ n.requests = j.requests /\ n.manifest = j.manifest /\ n.report = j.report
        /\ n.errors = j.errors /\ n.plan = j.plan /\ n.failures = failures
    BY <1>1 DEF SaveFileFailures, EffectiveStage
  <2> QED BY <1>1, <2>1, Ranks DEF Continues, GoesOn
<1>3. ASSUME NEW f PROVE Continues(j, MarkFileFailed(j, f, failures))
  <2> DEFINE n == MarkFileFailed(j, f, failures)
  <2>1. /\ n.stage = "collecting" /\ EffectiveStage(n) = "collecting" /\ n.marker
        /\ n.requests = j.requests /\ n.manifest = j.manifest /\ n.report = j.report
        /\ n.errors = j.errors \cup {f} /\ n.plan = j.plan /\ n.failures = failures
    BY <1>1 DEF MarkFileFailed, EffectiveStage
  <2> QED BY <1>1, <2>1, Ranks DEF Continues, GoesOn
<1> QED BY <1>2, <1>3

LEMMA ArchivedGoesOn ==
  ASSUME NEW k, NEW j, JobOK(k, j), j.stage = "collecting", NEW f
  PROVE  Continues(j, MarkFileArchived(j, f))
<1> DEFINE n == MarkFileArchived(j, f)
<1>1. j \in Job /\ EffectiveStage(j) = "collecting"
  BY DEF JobOK, EffectiveStage
<1>2. /\ n.stage = "collecting" /\ EffectiveStage(n) = "collecting"
      /\ n.requests = j.requests /\ n.manifest = j.manifest /\ n.report = j.report
      /\ n.failures = j.failures /\ n.errors = j.errors
      /\ n.plan = j.plan /\ n.marker = j.marker
  BY <1>1 DEF MarkFileArchived, EffectiveStage
<1> QED BY <1>1, <1>2, Ranks DEF Continues, GoesOn

\* The one manifest is saved before there is one.
LEMMA SaveManifestGoesOn ==
  ASSUME NEW k, NEW j, JobOK(k, j), CanSaveManifest(j), NEW entries
  PROVE  /\ GoesOn(j, SaveManifest(j, entries))
         /\ SaveManifest(j, entries).plan = j.plan
         /\ SaveManifest(j, entries).manifest = entries
         /\ SaveManifest(j, entries).failures = j.failures
         /\ SaveManifest(j, entries).marker = j.marker
<1> DEFINE n == SaveManifest(j, entries)
<1>1. /\ j \in Job /\ j.stage = "collecting" /\ EffectiveStage(j) = "collecting"
      /\ "manifest" \notin j.requests
  BY DEF JobOK, EffectiveStage, CanSaveManifest
<1>2. /\ n.stage = "manifest_pending" /\ EffectiveStage(n) = "manifest_pending"
      /\ n.requests = j.requests \cup {"manifest"} /\ n.manifest = entries /\ n.report = j.report
      /\ n.failures = j.failures /\ n.errors = j.errors
      /\ n.plan = j.plan /\ n.marker = j.marker
  BY <1>1 DEF SaveManifest, EffectiveStage
<1> QED BY <1>1, <1>2, Ranks DEF GoesOn

\* And so is the one report.
LEMMA SaveReportGoesOn ==
  ASSUME NEW k, NEW j, JobOK(k, j), CanSaveReport(j), j.stage \in {"collecting", "report_building"},
         NEW report, NEW clean
  PROVE  Continues(j, SaveReport(j, report, clean))
<1> DEFINE n == SaveReport(j, report, clean)
<1>1. /\ j \in Job /\ EffectiveStage(j) = j.stage /\ "report" \notin j.requests
  BY DEF JobOK, EffectiveStage, CanSaveReport
<1>2. /\ n.stage = "report_pending" /\ EffectiveStage(n) = "report_pending"
      /\ n.requests = j.requests \cup {"report"} /\ n.manifest = j.manifest
      /\ n.failures = j.failures /\ n.errors = j.errors
      /\ n.plan = j.plan /\ n.marker = j.marker
  BY <1>1 DEF SaveReport, EffectiveStage
<1> QED BY <1>1, <1>2, Ranks DEF Continues, GoesOn

-----------------------------------------------------------------------------
(* What one step does to the queue.                                        *)

\* A job begins, ends, or goes on; one that requires attention goes on only
\* while the process is down.  A plan is new when no job in flight has its files,
\* a manifest when its files are archived.
Change(k, j, n) ==
  \/ j.stage = "absent" /\ n = NewJob
  \/ CanLoad(j) /\ n = NoJob
  \/ /\ \/ CanLoad(j)
        \/ j.stage = "requires_attention" /\ pc = "down" /\ n.stage \in ExecutableStages
     /\ GoesOn(j, n)
     /\ n.marker \/ (~j.marker /\ n.failures = j.failures)
     /\ n.plan = j.plan \/ \A f \in n.plan : ~InFlight(TaskOf[k], f)
     /\ n.manifest = j.manifest \/ n.manifest \subseteq arch[k] \cup spoiled[k]

OneJobChanges ==
  \E k \in Keys, n \in Job : jobs' = [jobs EXCEPT ![k] = n] /\ Change(k, jobs[k], n)

MarkerOK == \A k \in Keys : Unmarked(jobs[k])
StepInv == IInv /\ MarkerOK

LEMMA ContinuesChange ==
  ASSUME NEW k, NEW j, CanLoad(j), NEW n, Continues(j, n)
  PROVE  Change(k, j, n)
BY DEF Continues, Change

\* The commits of the thread are to the job it runs.
LEMMA CommitChanges ==
  ASSUME IInv, pc \notin {"down", "idle"}, NEW n, JobOK(cur, n), Commit(n),
         Change(cur, jobs[cur], n)
  PROVE  OneJobChanges
<1>1. PICK k \in Keys : k = cur
  BY CurrentJob
<1>2. n \in Job /\ jobs' = [jobs EXCEPT ![k] = n] /\ Change(k, jobs[k], n)
  BY <1>1 DEF JobOK, Commit, Change, InFlight
<1> QED BY <1>2 DEF OneJobChanges

LEMMA BeginJobChange == ASSUME IInv, BeginJob PROVE jobs' = jobs \/ OneJobChanges
<1>1. CASE cur \in PendingKeys
  BY <1>1 DEF BeginJob
<1>2. CASE cur \notin PendingKeys
  <2>1. pc = "begin" /\ Commit(NewJob) /\ jobs[cur].stage = "absent"
    BY <1>2, CurrentJob DEF BeginJob, PendingKeys
  <2>2. Change(cur, jobs[cur], NewJob)
    BY <2>1 DEF Change
  <2> QED BY <2>1, <2>2, NewJobOK, CommitChanges
<1> QED BY <1>1, <1>2

\* The attempts and answers of a delivery.
LEMMA DeliveryChange ==
  ASSUME IInv,
         \/ AbandonOversized \/ RetryDelivery \/ AttemptFails \/ AttemptUnauthorized
         \/ AttemptRejected \/ StartAnswered \/ ManifestAnswered
  PROVE  OneJobChanges
<1>1. ASSUME NEW n, JobOK(cur, n), Commit(n), Continues(jobs[cur], n),
             pc \in PcValues \ {"down", "idle", "begin", "load"}
      PROVE  OneJobChanges
  <2>1. CanLoad(jobs[cur])
    BY <1>1, CurrentJob
  <2> QED BY <1>1, <2>1, ContinuesChange, CommitChanges
<1>2. CASE AbandonOversized
  <2>1. JobOK(cur, jobs[cur]) /\ CanMarkRequiresAttention(jobs[cur]) /\ pc = "run"
        /\ Commit(MarkRequiresAttention(jobs[cur], "other"))
    BY <1>2, CurrentJob DEF AbandonOversized, WantsDelivery
  <2> QED BY <2>1, <1>1, MarkRequiresAttentionOK, AttentionGoesOn DEF PcValues
<1>3. CASE RetryDelivery
  <2>1. JobOK(cur, jobs[cur]) /\ jobs[cur].stage = "retry_wait" /\ pc = "backoff"
        /\ Commit(ResumeDelivery(jobs[cur]))
    BY <1>3, CurrentJob DEF RetryDelivery, IInv, SnapshotFresh
  <2> QED BY <2>1, <1>1, ResumeDeliveryOK, ResumeDeliveryGoesOn DEF PcValues
<1>4. CASE AttemptFails \/ AttemptUnauthorized \/ AttemptRejected
  <2>1. PICK retryable \in BOOLEAN : pc = "call" /\ Commit(RecordDeliveryFailure(jobs[cur], retryable))
    BY <1>4 DEF AttemptFails, AttemptUnauthorized, AttemptRejected
  <2>2. JobOK(cur, jobs[cur]) /\ jobs[cur].stage \in DeliveryStages
    BY <2>1, CallOut
  <2> QED BY <2>1, <2>2, <1>1, RecordDeliveryFailureOK, DeliveryFailureGoesOn DEF PcValues
<1>5. CASE StartAnswered
  <2>1. JobOK(cur, jobs[cur]) /\ CanAcceptStart(jobs[cur]) /\ pc = "call"
        /\ Commit(AcceptStart(jobs[cur]))
    BY <1>5, CallOut DEF StartAnswered, CommitAndReload
  <2> QED BY <2>1, <1>1, AcceptStartOK, AcceptStartGoesOn DEF PcValues
<1>6. CASE ManifestAnswered
  <2>1. JobOK(cur, jobs[cur]) /\ jobs[cur].stage = "manifest_pending" /\ pc = "call"
        /\ Commit(AcceptManifest(jobs[cur]))
    BY <1>6, CallOut DEF ManifestAnswered, CommitAndReload
  <2> QED BY <2>1, <1>1, AcceptManifestOK, AcceptManifestGoesOn DEF PcValues
<1> QED BY <1>2, <1>3, <1>4, <1>5, <1>6

\* A job leaves the queue when its run is over.
LEMMA EndedChange ==
  ASSUME IInv, StartAnsweredFinished \/ ReportAnswered
  PROVE  OneJobChanges
<1>1. pc = "call" /\ Commit(NoJob)
  BY DEF StartAnsweredFinished, ReportAnswered
<1>2. CanLoad(jobs[cur])
  BY <1>1, CallOut DEF CanLoad
<1>3. Change(cur, jobs[cur], NoJob)
  BY <1>2 DEF Change
<1> QED BY <1>1, <1>3, NoJobOK, CommitChanges

\* A job with a plan of its own has its list amended, or nothing changes in it.
LEMMA ResumeArchivingChange == ASSUME IInv, ResumeArchiving PROVE OneJobChanges
<1> DEFINE j == jobs[cur]
           amended == j.failures \cup j.errors
           kept == IF amended = j.failures THEN j ELSE SaveFileFailures(j, amended)
<1>1. pc = "run" /\ snap = j /\ JobOK(cur, j) /\ j.stage = "collecting"
  BY BeforeCollecting DEF ResumeArchiving
<1>2. Commit(kept)
  BY <1>1 DEF ResumeArchiving, EnterArchiveLoop
<1>3. JobOK(cur, kept)
  BY <1>1, SaveFileFailuresOK
<1>4. Continues(j, kept)
  <2>1. Continues(j, j)
    BY <1>1, SameStageGoesOn
  <2>2. Continues(j, SaveFileFailures(j, amended))
    BY <1>1, FailuresGoOn
  <2> QED BY <2>1, <2>2
<1> HIDE DEF kept
<1>5. CanLoad(j)
  BY <1>1 DEF CanLoad
<1> QED BY <1>1, <1>2, <1>3, <1>4, <1>5, ContinuesChange, CommitChanges

\* The plan and the list are saved in one transaction, before any other.
LEMMA PlanFilesChange ==
  ASSUME StepInv, NEW plan \in SUBSET Files, NEW unread \in SUBSET Files, PlanFiles(plan, unread)
  PROVE  OneJobChanges
<1> DEFINE j == jobs[cur]
           n == SaveFilePlan(j, plan, unread)
<1>1. /\ pc = "run" /\ JobOK(cur, j) /\ j.stage = "collecting" /\ j.plan = {} /\ ~j.marker
      /\ cur \in Keys
  BY BeforeCollecting DEF PlanFiles, WantsPlan, StepInv
<1>2. plan \cap unread = {} /\ \A f \in plan : ~InFlight(TaskOf[cur], f)
  BY DEF PlanFiles, DirectorySelection, RetrySelection, Occupied
<1>3. JobOK(cur, n)
  BY <1>1, <1>2, SaveFilePlanOK
<1>4. GoesOn(j, n) /\ n.marker /\ n.plan = plan /\ n.manifest = j.manifest /\ n.errors = {}
  BY <1>1, SaveFilePlanGoesOn DEF StepInv, MarkerOK
<1>5. Commit(n)
  <2>1. EnterArchiveLoop(n)
    BY DEF PlanFiles
  <2> HIDE DEF n
  <2> QED BY <2>1, <1>4 DEF EnterArchiveLoop
<1> HIDE DEF n
<1>6. Change(cur, j, n)
  BY <1>1, <1>2, <1>4 DEF Change, CanLoad
<1> QED BY <1>1, <1>3, <1>5, <1>6, CommitChanges DEF StepInv

\* In the loop a file is recorded or fails, and in the end the manifest is saved.
LEMMA ArchiveLoopChange ==
  ASSUME StepInv,
         \/ \E f \in Files : ArchiveRecorded(f) \/ ArchiveFailed(f) \/ ArchiveConflict(f)
         \/ ManifestSaved
  PROVE  OneJobChanges
<1> DEFINE j == jobs[cur]
<1>1. /\ pc = "archive" /\ IInv
  BY DEF ArchiveRecorded, ArchiveFailed, ArchiveConflict, ManifestSaved, StepInv
<1>2. /\ cur \in Keys /\ JobOK(cur, j) /\ j.stage = "collecting" /\ CanLoad(j)
      /\ todo \subseteq j.plan /\ j.errors \subseteq j.failures /\ fails = j.failures
  BY <1>1, InArchiveLoop DEF CanLoad
<1>3. ASSUME NEW f \in Files, ArchiveRecorded(f) PROVE OneJobChanges
  <2>1. Commit(MarkFileArchived(j, f)) /\ f \in j.plan
    BY <1>2, <1>3 DEF ArchiveRecorded
  <2> QED BY <2>1, <1>1, <1>2, MarkFileArchivedOK, ArchivedGoesOn, ContinuesChange, CommitChanges
<1>4. ASSUME NEW f \in Files, ArchiveFailed(f) PROVE OneJobChanges
  <2>1. Commit(MarkFileFailed(j, f, j.failures \cup {f})) /\ f \in j.plan
    BY <1>2, <1>4 DEF ArchiveFailed
  <2> QED BY <2>1, <1>1, <1>2, MarkFileFailedOK, FailuresGoOn, ContinuesChange, CommitChanges
<1>5. ASSUME NEW f \in Files, ArchiveConflict(f) PROVE OneJobChanges
  <2>1. Commit(MarkRequiresAttention(j, "archive_conflict")) /\ CanMarkRequiresAttention(j)
    BY <1>5 DEF ArchiveConflict
  <2> QED BY <2>1, <1>1, <1>2, MarkRequiresAttentionOK, AttentionGoesOn, ContinuesChange,
       CommitChanges
<1>6. CASE ManifestSaved
  <2>1. Commit(SaveManifest(j, packed)) /\ CanSaveManifest(j) /\ packed # {} /\ todo = {}
    BY <1>6 DEF ManifestSaved, CommitAndReload
  <2>2. /\ packed = j.plan \ j.errors /\ packed \subseteq j.archived
        /\ packed \subseteq arch[cur] \cup spoiled[cur]
    BY <1>1, <2>1 DEF IInv, SnapshotFresh
  <2>3. JobOK(cur, SaveManifest(j, packed))
    BY <1>2, <2>1, <2>2, SaveManifestOK
  <2>4. SaveManifest(j, packed).marker \/ ~j.marker
    BY <1>2, <2>1, SaveManifestGoesOn DEF JobOK
  <2>5. Change(cur, j, SaveManifest(j, packed))
    BY <1>2, <2>1, <2>2, <2>4, SaveManifestGoesOn DEF Change
  <2> QED BY <1>1, <2>1, <2>3, <2>5, CommitChanges
<1> QED BY <1>3, <1>4, <1>5, <1>6

\* The report is saved once, with the failures the queue knows of.
LEMMA ReportChange ==
  ASSUME IInv,
         CollectionFails \/ \E broken, partial \in SUBSET Files : ReportSaved(broken, partial)
  PROVE  OneJobChanges
<1> DEFINE j == jobs[cur]
<1>1. PICK report, clean : CanSaveReport(j) /\ CommitAndReload(SaveReport(j, report, clean))
  BY DEF CollectionFails, ReportSaved
<1>2. /\ pc \notin {"down", "idle"} /\ JobOK(cur, j) /\ CanLoad(j)
      /\ j.stage \in {"collecting", "report_building"}
  <2>1. CASE CollectionFails
    <3>1. CASE WantsPlan
      BY <3>1, BeforeCollecting DEF WantsPlan, CanLoad
    <3>2. CASE pc = "archive"
      BY <3>2, InArchiveLoop DEF CanLoad
    <3> QED BY <2>1, <3>1, <3>2 DEF CollectionFails
  <2>2. CASE \E broken, partial \in SUBSET Files : ReportSaved(broken, partial)
    BY <2>2, BeforeReport DEF ReportSaved, CanLoad
  <2> QED BY <2>1, <2>2
<1> DEFINE n == SaveReport(j, report, clean)
<1>3. Commit(n) /\ Continues(j, n)
  BY <1>1, <1>2, SaveReportGoesOn DEF CommitAndReload
<1>4. n \in Job
  <2>1. IInv'
    BY CollectionFailsStep, ReportSavedStep
  <2>2. jobs' \in [Keys -> Job] /\ cur \in Keys /\ jobs \in [Keys -> Job]
    BY <2>1, <1>2, CurrentJob DEF IInv, TypeOK, QueueTypeOK
  <2>3. jobs'[cur] = n
    BY <1>3, <2>2 DEF Commit
  <2> HIDE DEF n
  <2> QED BY <2>2, <2>3
<1> HIDE DEF n
<1>5. PICK k \in Keys : k = cur
  BY <1>2, CurrentJob
<1>6. Change(k, jobs[k], n)
  BY <1>2, <1>3, <1>5, ContinuesChange
<1> QED BY <1>3, <1>4, <1>5, <1>6 DEF OneJobChanges, Commit

\* queue retry: the job goes on where it stopped.
LEMMA RetryAttentionChange ==
  ASSUME IInv, NEW k \in Keys, RetryAttention(k) PROVE OneJobChanges
<1> DEFINE j == jobs[k]
           n == RetryAttentionJob(j)
<1>1. pc = "down" /\ CanRetryAttentionJob(j) /\ JobOK(k, j) /\ jobs' = [jobs EXCEPT ![k] = n]
  BY DEF RetryAttention, IInv, JobsOK
<1>2. JobOK(k, n) /\ Continues(j, n) /\ n.stage \in ExecutableStages
  BY <1>1, RetryAttentionJobOK, RetryAttentionGoesOn
<1>3. j.stage = "requires_attention"
  BY <1>1 DEF CanRetryAttentionJob
<1> HIDE DEF n
<1>4. Change(k, j, n) /\ n \in Job
  BY <1>1, <1>2, <1>3 DEF Change, Continues, JobOK
<1> QED BY <1>1, <1>4 DEF OneJobChanges

\* Every step changes one job at most, and this is how.
LEMMA StepChange == StepInv /\ [Next]_agentVars => jobs' = jobs \/ OneJobChanges
<1> SUFFICES ASSUME StepInv, [Next]_agentVars PROVE jobs' = jobs \/ OneJobChanges
  OBVIOUS
<1> USE DEF StepInv
<1>1. CASE Dispatch
  BY <1>1 DEF Dispatch, DispatchScheduled, DispatchManual, queueVars
<1>2. CASE JobStep
  <2>1. CASE \/ \E k \in Keys : RecoverJob(k)
             \/ LoadJob \/ BeginDelivery \/ NothingArchived \/ ReportThrows \/ QueueError
             \/ \E f \in Files : ArchiveFile(f)
    BY <2>1 DEF RecoverJob, LoadJob, BeginDelivery, NothingArchived, ReportThrows, QueueError,
       ArchiveFile, queueVars
  <2> QED BY <1>2, <2>1, BeginJobChange, DeliveryChange, PlanFilesChange, ReportChange,
       ResumeArchivingChange, ArchiveLoopChange DEF JobStep
<1>3. CASE Answer
  BY <1>3, DeliveryChange, EndedChange DEF Answer
<1>4. CASE Environment
  BY <1>4, RetryAttentionChange DEF Environment, Exit, Start, NothingDue, SpoilArchive,
     ClearArchive, queueVars, agentVars
<1>5. CASE UNCHANGED agentVars
  BY <1>5 DEF agentVars
<1> QED BY <1>1, <1>2, <1>3, <1>4, <1>5 DEF Next, ThreadStep

-----------------------------------------------------------------------------
(* What a step may never do.                                               *)

\* A job that is still there after a step has lost nothing to it.
LEMMA JobsGoOn ==
  ASSUME StepInv, [Next]_agentVars, NEW k \in PendingKeys, jobs'[k].stage # "absent"
  PROVE  GoesOn(jobs[k], jobs'[k])
<1>1. k \in Keys /\ jobs[k].stage # "absent" /\ JobOK(k, jobs[k]) /\ jobs \in [Keys -> Job]
  BY DEF PendingKeys, StepInv, IInv, JobsOK, TypeOK, QueueTypeOK
<1>2. GoesOn(jobs[k], jobs[k])
  BY <1>1, SameStageGoesOn DEF Continues
<1>3. CASE jobs' = jobs
  BY <1>2, <1>3
<1>4. CASE OneJobChanges
  <2>1. PICK l \in Keys, n \in Job : jobs' = [jobs EXCEPT ![l] = n] /\ Change(l, jobs[l], n)
    BY <1>4 DEF OneJobChanges
  <2>2. CASE l # k
    BY <1>1, <1>2, <2>1, <2>2
  <2>3. CASE l = k
    <3>1. jobs'[k] = n /\ Change(k, jobs[k], n)
      BY <1>1, <2>1, <2>3
    <3> QED BY <1>1, <3>1 DEF Change, NoJob
  <2> QED BY <2>2, <2>3
<1> QED BY <1>3, <1>4, StepChange

\* No job, a job that begins and a job of an older version have no failures and
\* no manifest.
LEMMA EmptyJobs ==
  /\ NoJob.failures = {} /\ NoJob.plan = {} /\ NoJob.manifest = {} /\ NoJob.stage = "absent"
  /\ NewJob.failures = {} /\ NewJob.plan = {} /\ NewJob.manifest = {}
BY DEF NewJob, NoJob

LEMMA LegacyEmpty ==
  ASSUME NEW j \in LegacyJobs PROVE j.failures = {} /\ j.manifest = {}
<1>1. CASE j \in UNION {{LegacyJob(plan, errors) : errors \in SUBSET plan} :
                           plan \in SUBSET Files}
  <2>1. PICK plan \in SUBSET Files : j \in {LegacyJob(plan, errors) : errors \in SUBSET plan}
    BY <1>1
  <2>2. PICK errors \in SUBSET plan : j = LegacyJob(plan, errors)
    BY <2>1
  <2> QED BY <2>2 DEF LegacyJob, NoJob
<1>2. CASE j \in {LegacyConflict(plan) : plan \in SUBSET Files}
  <2>1. PICK plan \in SUBSET Files : j = LegacyConflict(plan)
    BY <1>2
  <2> QED BY <2>1 DEF LegacyConflict, LegacyJob, NoJob
<1>3. CASE j = LegacyRejected
  BY <1>3 DEF LegacyRejected, NewJob, NoJob
<1> QED BY <1>1, <1>2, <1>3, Zenon DEF LegacyJobs

LEMMA EmptyInit ==
  ASSUME Init, NEW k \in Keys PROVE jobs[k].failures = {} /\ jobs[k].manifest = {}
<1>1. PICK old \in [LegacyKeys -> LegacyJobs] :
        jobs = [l \in Keys |-> IF l \in LegacyKeys THEN old[l] ELSE NoJob]
  BY DEF Init, QueueInit
<1>2. CASE k \in LegacyKeys
  <2>1. jobs[k] = old[k] /\ old[k] \in LegacyJobs
    BY <1>1, <1>2
  <2> QED BY <2>1, LegacyEmpty
<1>3. CASE k \notin LegacyKeys
  BY <1>1, <1>3, EmptyJobs
<1> QED BY <1>2, <1>3

\* The list of failures is never there without the marker.
LEMMA MarkerStep == StepInv /\ [Next]_agentVars => StepInv'
<1> SUFFICES ASSUME StepInv, [Next]_agentVars PROVE MarkerOK'
  BY NextOK DEF StepInv
<1>1. MarkerOK /\ jobs \in [Keys -> Job]
  BY DEF StepInv, IInv, TypeOK, QueueTypeOK
<1>2. CASE OneJobChanges
  <2>1. PICK l \in Keys, n \in Job : jobs' = [jobs EXCEPT ![l] = n] /\ Change(l, jobs[l], n)
    BY <1>2 DEF OneJobChanges
  <2>2. Unmarked(n)
    <3>1. Unmarked(jobs[l])
      BY DEF StepInv, MarkerOK
    <3>2. CASE n = NewJob \/ n = NoJob
      BY <3>2, EmptyJobs DEF Unmarked
    <3>3. CASE n.marker \/ (~jobs[l].marker /\ n.failures = jobs[l].failures)
      BY <3>1, <3>3, Zenon DEF Unmarked
    <3> QED BY <2>1, <3>2, <3>3, Zenon DEF Change
  <2> QED BY <1>1, <2>1, <2>2 DEF MarkerOK, Unmarked
<1> QED BY <1>1, <1>2, StepChange DEF MarkerOK, Unmarked

LEMMA MarkerInit == Init => MarkerOK
<1> SUFFICES ASSUME Init, NEW k \in Keys PROVE jobs[k].failures = {}
  BY DEF MarkerOK, Unmarked
<1> QED BY EmptyInit

THEOREM StepInvariance == Spec => []StepInv
<1>1. Init => StepInv
  BY InitOK, MarkerInit DEF StepInv
<1>2. StepInv /\ [Next]_agentVars => StepInv'
  BY MarkerStep
<1> QED BY <1>1, <1>2, PTL DEF Spec

\* A saved request is repeated as it was saved, whatever falls in between: a
\* restart, a retry, a wait for the operator.
THEOREM RequestsStayFrozen == Spec => RequestsFrozen
<1> DEFINE Frozen ==
      \A k \in PendingKeys : jobs'[k].stage # "absent" =>
        /\ jobs[k].requests \subseteq jobs'[k].requests
        /\ "manifest" \in jobs[k].requests => jobs'[k].manifest = jobs[k].manifest
        /\ "report" \in jobs[k].requests => jobs'[k].report = jobs[k].report
<1>1. StepInv /\ [Next]_agentVars => [Frozen]_agentVars
  BY JobsGoOn DEF GoesOn
<1> QED BY <1>1, StepInvariance, PTL DEF Spec, RequestsFrozen

\* No step takes a file off the failure list of a job that stays.
THEOREM FailuresStayListed == Spec => FailuresKept
<1> DEFINE Listed ==
      \A k \in PendingKeys : jobs'[k].stage # "absent" =>
        jobs[k].failures \subseteq jobs'[k].failures /\ jobs[k].errors \subseteq jobs'[k].errors
<1>1. StepInv /\ [Next]_agentVars => [Listed]_agentVars
  BY JobsGoOn DEF GoesOn
<1> QED BY <1>1, StepInvariance, PTL DEF Spec, FailuresKept

\* Where a job goes on, now or once it is resumed, is never before where it was.
THEOREM StagesGoForward == Spec => StageNeverGoesBack
<1> DEFINE Forward ==
      \A k \in PendingKeys : jobs'[k].stage # "absent" =>
        StageRank[EffectiveStage(jobs[k])] <= StageRank[EffectiveStage(jobs'[k])]
<1>1. StepInv /\ [Next]_agentVars => [Forward]_agentVars
  BY JobsGoOn DEF GoesOn
<1> QED BY <1>1, StepInvariance, PTL DEF Spec, StageNeverGoesBack

\* What waits for the operator is changed by queue retry alone, with the agent down.
THEOREM AttentionStays == Spec => AttentionIsLeftAlone
<1> DEFINE Left ==
      \A k \in Keys : jobs[k].stage = "requires_attention" /\ jobs'[k] # jobs[k] =>
        pc = "down" /\ jobs'[k].stage \in ExecutableStages
<1>1. StepInv /\ [Next]_agentVars => [Left]_agentVars
  <2> SUFFICES ASSUME StepInv, [Next]_agentVars, NEW k \in Keys,
                      jobs[k].stage = "requires_attention", jobs'[k] # jobs[k]
               PROVE  pc = "down" /\ jobs'[k].stage \in ExecutableStages
    OBVIOUS
  <2>1. OneJobChanges /\ jobs \in [Keys -> Job]
    BY StepChange DEF StepInv, IInv, TypeOK, QueueTypeOK
  <2>2. PICK l \in Keys, n \in Job : jobs' = [jobs EXCEPT ![l] = n] /\ Change(l, jobs[l], n)
    BY <2>1 DEF OneJobChanges
  <2>3. l = k /\ jobs'[k] = n /\ Change(k, jobs[k], n)
    BY <2>1, <2>2
  <2> QED BY <2>3 DEF Change, CanLoad
<1> QED BY <1>1, StepInvariance, PTL DEF Spec, AttentionIsLeftAlone

-----------------------------------------------------------------------------
(* Plans and manifests.                                                    *)

\* A plan is made of files no job in flight has, and only one job changes.
LEMMA PlansStayApart == StepInv /\ NoDoublePlan /\ [Next]_agentVars => NoDoublePlan'
<1> SUFFICES ASSUME StepInv, NoDoublePlan, [Next]_agentVars,
                    NEW k \in Keys, NEW other \in Keys,
                    jobs'[k].stage # "absent", jobs'[other].stage # "absent",
                    k # other, TaskOf[k] = TaskOf[other]
             PROVE  jobs'[k].plan \cap jobs'[other].plan = {}
  BY DEF NoDoublePlan, PendingKeys
<1>1. jobs \in [Keys -> Job]
  BY DEF StepInv, IInv, TypeOK, QueueTypeOK
<1>2. \A l, m \in Keys :
        l # m /\ TaskOf[l] = TaskOf[m] /\ jobs[l].stage # "absent" /\ jobs[m].stage # "absent"
          => jobs[l].plan \cap jobs[m].plan = {}
  BY DEF NoDoublePlan, PendingKeys
<1>3. CASE jobs' = jobs
  BY <1>2, <1>3
<1>4. CASE OneJobChanges
  <2>1. PICK l \in Keys, n \in Job : jobs' = [jobs EXCEPT ![l] = n] /\ Change(l, jobs[l], n)
    BY <1>4 DEF OneJobChanges
  <2>2. ASSUME NEW m \in Keys, m # l, TaskOf[m] = TaskOf[l], jobs[m].stage # "absent"
        PROVE  n.plan \cap jobs[m].plan = {}
    <3>1. CASE n = NewJob \/ n = NoJob
      BY <3>1, EmptyJobs
    <3>2. CASE n.plan = jobs[l].plan /\ jobs[l].stage # "absent"
      BY <1>2, <2>2, <3>2
    <3>3. CASE \A f \in n.plan : ~InFlight(TaskOf[l], f)
      BY <2>2, <3>3 DEF InFlight, PendingKeys
    <3> QED BY <2>1, <3>1, <3>2, <3>3 DEF Change, CanLoad
  <2>3. CASE l = k
    BY <1>1, <2>1, <2>2, <2>3
  <2>4. CASE l = other
    BY <1>1, <2>1, <2>2, <2>4
  <2>5. CASE l # k /\ l # other
    BY <1>1, <1>2, <2>1, <2>5
  <2> QED BY <2>3, <2>4, <2>5
<1> QED BY <1>3, <1>4, StepChange

\* The queue of an older version keeps its plans apart.
LEMMA PlansApartInit == Init => NoDoublePlan
<1> SUFFICES ASSUME Init PROVE NoDoublePlan
  OBVIOUS
<1>1. PICK old \in [LegacyKeys -> LegacyJobs] :
        /\ \A k, other \in LegacyKeys : k # other /\ TaskOf[k] = TaskOf[other]
              => old[k].plan \cap old[other].plan = {}
        /\ jobs = [k \in Keys |-> IF k \in LegacyKeys THEN old[k] ELSE NoJob]
  BY DEF Init, QueueInit
<1>2. \A k \in PendingKeys : k \in LegacyKeys
  BY <1>1 DEF PendingKeys, NoJob
<1> QED BY <1>1, <1>2 DEF NoDoublePlan, PendingKeys

\* A file is planned by one job of its task at a time, a job that waits for the
\* operator included: plan_from_directory and plan_from_retry_targets ask the
\* queue for every file, and nobody else plans.
THEOREM PlannedOnce == Spec => []NoDoublePlan
<1>1. Init => NoDoublePlan
  BY PlansApartInit
<1>2. StepInv /\ NoDoublePlan /\ [Next]_agentVars => NoDoublePlan'
  BY PlansStayApart
<1> QED BY <1>1, <1>2, StepInvariance, PTL DEF Spec

\* A copy is altered, never lost; one is taken away only for a job that has no
\* manifest yet.
LEMMA CopiesStay ==
  ASSUME StepInv, [Next]_agentVars, NEW k \in Keys
  PROVE  \/ arch[k] \cup spoiled[k] \subseteq arch'[k] \cup spoiled'[k]
         \/ jobs' = jobs /\ jobs[k].manifest = {}
<1> USE DEF StepInv
<1>1. arch \in [Keys -> SUBSET Files] /\ spoiled \in [Keys -> SUBSET Files]
  BY DEF IInv, TypeOK
<1>2. CASE UNCHANGED world
  BY <1>2 DEF world
<1>3. ASSUME NEW f \in Files, ArchiveFile(f)
      PROVE  arch[k] \cup spoiled[k] \subseteq arch'[k] \cup spoiled'[k]
  BY <1>1, <1>3 DEF ArchiveFile
<1>4. ASSUME NEW l \in Keys, NEW f \in Files, SpoilArchive(l, f)
      PROVE  arch[k] \cup spoiled[k] \subseteq arch'[k] \cup spoiled'[k]
  BY <1>1, <1>4 DEF SpoilArchive
<1>5. ASSUME NEW l \in Keys, NEW f \in Files, ClearArchive(l, f)
      PROVE  \/ arch[k] \cup spoiled[k] \subseteq arch'[k] \cup spoiled'[k]
             \/ jobs' = jobs /\ jobs[k].manifest = {}
  <2>1. CASE l # k
    BY <1>1, <1>5, <2>1 DEF ClearArchive
  <2>2. CASE l = k
    <3>1. JobOK(k, jobs[k]) /\ EffectiveStage(jobs[k]) = "collecting" /\ jobs' = jobs
      BY <1>5, <2>2 DEF ClearArchive, IInv, JobsOK, JobOK, ResumePointOK, queueVars
    <3> QED BY <3>1 DEF JobOK, EvidenceOK
  <2> QED BY <2>1, <2>2
<1>6. CASE Dispatch
  BY <1>2, <1>6 DEF Dispatch, DispatchScheduled, DispatchManual
<1>7. CASE JobStep
  BY <1>2, <1>3, <1>7 DEF JobStep, RecoverJob, BeginJob, LoadJob, AbandonOversized, BeginDelivery,
     RetryDelivery, PlanFiles, CollectionFails, ResumeArchiving, ArchiveRecorded, ArchiveFailed,
     ArchiveConflict, ManifestSaved, NothingArchived, ReportSaved, ReportThrows, QueueError
<1>8. CASE Answer
  BY <1>2, <1>8 DEF Answer, AttemptFails, AttemptUnauthorized, AttemptRejected, StartAnswered,
     StartAnsweredFinished, ManifestAnswered, ReportAnswered
<1>9. CASE Environment
  BY <1>2, <1>4, <1>5, <1>9 DEF Environment, Exit, Start, NothingDue, RetryAttention, agentVars,
     world
<1>10. CASE UNCHANGED agentVars
  BY <1>2, <1>10 DEF agentVars, world
<1> QED BY <1>6, <1>7, <1>8, <1>9, <1>10 DEF Next, ThreadStep

LEMMA ManifestsStayBacked == StepInv /\ ManifestBacked /\ [Next]_agentVars => ManifestBacked'
<1> SUFFICES ASSUME StepInv, ManifestBacked, [Next]_agentVars,
                    NEW k \in Keys, jobs'[k].stage # "absent"
             PROVE  jobs'[k].manifest \subseteq arch'[k] \cup spoiled'[k]
  BY DEF ManifestBacked, PendingKeys
<1>1. jobs \in [Keys -> Job]
  BY DEF StepInv, IInv, TypeOK, QueueTypeOK
<1>2. jobs[k].stage # "absent" => jobs[k].manifest \subseteq arch[k] \cup spoiled[k]
  BY DEF ManifestBacked, PendingKeys
<1>3. jobs'[k].manifest \subseteq arch[k] \cup spoiled[k]
  <2>1. CASE jobs'[k] = jobs[k]
    BY <1>2, <2>1
  <2>2. CASE jobs'[k] # jobs[k]
    <3>1. OneJobChanges
      BY <2>2, StepChange
    <3>2. PICK l \in Keys, n \in Job : jobs' = [jobs EXCEPT ![l] = n] /\ Change(l, jobs[l], n)
      BY <3>1 DEF OneJobChanges
    <3>3. jobs'[k] = n /\ Change(k, jobs[k], n)
      BY <1>1, <2>2, <3>2
    <3> QED BY <1>2, <3>3, EmptyJobs DEF Change, CanLoad
  <2> QED BY <2>1, <2>2
<1> QED BY <1>3, CopiesStay

LEMMA BackedInit == Init => ManifestBacked
<1> SUFFICES ASSUME Init, NEW k \in Keys PROVE jobs[k].manifest = {}
  BY DEF ManifestBacked, PendingKeys
<1> QED BY EmptyInit

\* The control plane never gets to see a manifest entry without an archived copy
\* behind it: what is cleared away after a conflict belongs to a job that has
\* not saved its manifest.
THEOREM ManifestsAreBacked == Spec => []ManifestBacked
<1>1. Init => ManifestBacked
  BY BackedInit
<1>2. StepInv /\ ManifestBacked /\ [Next]_agentVars => ManifestBacked'
  BY ManifestsStayBacked
<1> QED BY <1>1, <1>2, StepInvariance, PTL DEF Spec

-----------------------------------------------------------------------------
(* No operation of the queue throws.                                       *)

\* A slot still ahead has no job, so begin_job is called for a key without one,
\* and load_job for the one it has made.
SlotsOK ==
  /\ slots \cap PendingKeys = {}
  /\ pc = "begin" => cur \notin PendingKeys \cup slots /\ HasCapacity
  /\ pc = "load" => CanLoad(jobs[cur])

\* Nothing but begin_job adds a job.
LEMMA NoKeyAdded ==
  ASSUME IInv, [Next]_agentVars, ~BeginJob
  PROVE  PendingKeys' \subseteq PendingKeys
<1>1. jobs \in [Keys -> Job]
  BY DEF IInv, TypeOK, QueueTypeOK
<1>2. ASSUME UNCHANGED jobs PROVE PendingKeys' \subseteq PendingKeys
  BY <1>2 DEF PendingKeys
<1>3. ASSUME NEW j, Commit(j), pc \in {"run", "backoff", "call", "archive", "build"}
      PROVE  PendingKeys' \subseteq PendingKeys
  <2>1. cur \in PendingKeys
    BY <1>3, CurrentJob DEF PendingKeys, CanLoad, PcValues
  <2> QED BY <1>1, <1>3, <2>1 DEF PendingKeys, Commit
<1>4. ASSUME NEW k \in Keys, RetryAttention(k) PROVE PendingKeys' \subseteq PendingKeys
  BY <1>1, <1>4 DEF RetryAttention, CanRetryAttentionJob, PendingKeys
<1>5. CASE Dispatch
  BY <1>2, <1>5 DEF Dispatch, DispatchScheduled, DispatchManual, queueVars
<1>6. CASE JobStep
  BY <1>2, <1>3, <1>6 DEF JobStep, RecoverJob, LoadJob, WantsDelivery, AbandonOversized,
     BeginDelivery, RetryDelivery, WantsPlan, PlanFiles, EnterArchiveLoop, CollectionFails,
     CommitAndReload, ResumeArchiving, ArchiveFile, ArchiveRecorded, ArchiveFailed,
     ArchiveConflict, ManifestSaved, NothingArchived, WantsReport, ReportSaved, ReportThrows,
     QueueError, queueVars
<1>7. CASE Answer
  BY <1>3, <1>7 DEF Answer, CommitAndReload, AttemptFails, AttemptUnauthorized, AttemptRejected,
     StartAnswered, StartAnsweredFinished, ManifestAnswered, ReportAnswered
<1>8. CASE Environment
  BY <1>2, <1>4, <1>8 DEF Environment, Exit, Start, NothingDue, SpoilArchive, ClearArchive,
     queueVars, agentVars
<1>9. CASE UNCHANGED agentVars
  BY <1>2, <1>9 DEF agentVars
<1> QED BY <1>5, <1>6, <1>7, <1>8, <1>9 DEF Next, ThreadStep

\* Nothing but a dispatch takes the thread to begin_job, nothing but begin_job to
\* load_job; while it is at one of them only the archive changes.
LEMMA AtBegin ==
  ASSUME [Next]_agentVars, pc' \in {"begin", "load"}
  PROVE  Dispatch \/ BeginJob \/ (UNCHANGED <<jobs, pc, cur, slots>>)
<1>1. CASE JobStep
  BY <1>1 DEF JobStep, RecoverJob, LoadJob, AbandonOversized,
     BeginDelivery, RetryDelivery, PlanFiles, EnterArchiveLoop, CollectionFails,
     CommitAndReload, ResumeArchiving, ArchiveFile, ArchiveRecorded, ArchiveFailed,
     ArchiveConflict, ManifestSaved, NothingArchived, ReportSaved, ReportThrows,
     QueueError, EndProcess, LeaveJob, GoTo, queueVars, memory
<1>2. CASE Answer
  BY <1>2 DEF Answer, CommitAndReload, AttemptFails, AttemptUnauthorized, AttemptRejected,
     StartAnswered, StartAnsweredFinished, ManifestAnswered, ReportAnswered,
     EndProcess, LeaveJob, GoTo
<1>3. CASE Environment
  BY <1>3 DEF Environment, Exit, Start, NothingDue, RetryAttention, SpoilArchive, ClearArchive,
     EndProcess, queueVars, memory, agentVars
<1>4. CASE UNCHANGED agentVars
  BY <1>4 DEF agentVars
<1> QED BY <1>1, <1>2, <1>3, <1>4 DEF Next, ThreadStep

\* A slot comes back only when the clock is set back.
LEMMA SlotsOnlyLeave ==
  ASSUME [Next]_agentVars, ~ReplaySlots
  PROVE  slots' \subseteq slots
<1>1. CASE Dispatch
  BY <1>1 DEF Dispatch, DispatchScheduled, DispatchManual
<1>2. CASE JobStep
  BY <1>2 DEF JobStep, RecoverJob, BeginJob, LoadJob, AbandonOversized,
     BeginDelivery, RetryDelivery, PlanFiles, CollectionFails,
     ResumeArchiving, ArchiveFile, ArchiveRecorded, ArchiveFailed,
     ArchiveConflict, ManifestSaved, NothingArchived, ReportSaved, ReportThrows, QueueError
<1>3. CASE Answer
  BY <1>3 DEF Answer, AttemptFails, AttemptUnauthorized, AttemptRejected,
     StartAnswered, StartAnsweredFinished, ManifestAnswered, ReportAnswered
<1>4. CASE Environment
  BY <1>4 DEF Environment, Exit, Start, NothingDue, RetryAttention, SpoilArchive, ClearArchive,
     agentVars
<1>5. CASE UNCHANGED agentVars
  BY <1>5 DEF agentVars
<1> QED BY <1>1, <1>2, <1>3, <1>4, <1>5 DEF Next, ThreadStep

LEMMA SlotsInit == Init => SlotsOK
<1> SUFFICES ASSUME Init PROVE SlotsOK
  OBVIOUS
<1>1. PICK old \in [LegacyKeys -> LegacyJobs] :
        jobs = [k \in Keys |-> IF k \in LegacyKeys THEN old[k] ELSE NoJob]
  BY DEF Init, QueueInit
<1>2. PendingKeys \subseteq LegacyKeys
  BY <1>1, EmptyJobs DEF PendingKeys
<1> QED BY <1>2 DEF Init, SlotsOK

LEMMA SlotsStep == ~ReplaySlots /\ IInv /\ SlotsOK /\ [Next]_agentVars => SlotsOK'
<1> SUFFICES ASSUME ~ReplaySlots, IInv, SlotsOK, [Next]_agentVars PROVE SlotsOK'
  OBVIOUS
<1>1. jobs \in [Keys -> Job] /\ slots \subseteq Keys \ ManualKeys
  BY DEF IInv, TypeOK, QueueTypeOK, ScheduledKeys
<1>2. slots' \subseteq slots
  BY SlotsOnlyLeave
<1>3. CASE BeginJob
  <2>1. cur \in Keys /\ cur \notin PendingKeys \cup slots /\ pc = "begin"
    BY <1>3, CurrentJob DEF BeginJob, SlotsOK
  <2>2. jobs' = [jobs EXCEPT ![cur] = NewJob] /\ pc' = "load" /\ cur' = cur
    BY <1>3, <2>1 DEF BeginJob, Commit, GoTo
  <2>3. CanLoad(jobs'[cur])
    BY <1>1, <2>1, <2>2 DEF CanLoad, NewJob
  <2>4. PendingKeys' \subseteq PendingKeys \cup {cur}
    BY <1>1, <2>1, <2>2 DEF PendingKeys
  <2> QED BY <1>2, <2>1, <2>2, <2>3, <2>4 DEF SlotsOK
<1>4. CASE Dispatch
  <2>1. PICK k \in Keys : DispatchScheduled(k) \/ DispatchManual(k)
    BY <1>4 DEF Dispatch
  <2>2. UNCHANGED jobs /\ pc = "idle" /\ PendingKeys' = PendingKeys /\ (HasCapacity' <=> HasCapacity)
    BY <2>1 DEF DispatchScheduled, DispatchManual, PendingKeys, HasCapacity, queueVars
  <2>3. pc' = "begin" => cur' \notin PendingKeys \cup slots' /\ HasCapacity
    BY <1>1, <2>1, <2>2 DEF DispatchScheduled, DispatchManual, SlotsOK
  <2>4. pc' # "load"
    BY <2>1, <2>2 DEF DispatchScheduled, DispatchManual
  <2> QED BY <1>2, <2>2, <2>3, <2>4 DEF SlotsOK
<1>5. CASE ~BeginJob /\ ~Dispatch
  <2>1. slots' \cap PendingKeys' = {}
    BY <1>2, <1>5, NoKeyAdded DEF SlotsOK
  <2>2. CASE pc' \notin {"begin", "load"}
    BY <2>1, <2>2 DEF SlotsOK
  <2>3. CASE pc' \in {"begin", "load"}
    <3>1. UNCHANGED <<jobs, pc, cur, slots>>
      BY <1>5, <2>3, AtBegin
    <3> QED BY <3>1 DEF SlotsOK, PendingKeys, HasCapacity
  <2> QED BY <2>2, <2>3
<1> QED BY <1>3, <1>4, <1>5

\* Each operation finds the job as it needs it.
LEMMA NothingThrows == IInv /\ SlotsOK => ~QueueOperationThrows
<1> SUFFICES ASSUME IInv, SlotsOK, QueueOperationThrows PROVE FALSE
  OBVIOUS
<1> DEFINE j == jobs[cur]
<1>1. CASE pc \in {"begin", "load"}
  BY <1>1 DEF QueueOperationThrows, SlotsOK, WantsDelivery, WantsPlan, WantsReport
<1>2. CASE pc \in {"run", "call", "archive", "build"}
  <2>1. /\ cur \in Keys /\ JobOK(cur, j) /\ CanLoad(j) /\ j \in Job
        /\ ResumePointOK(j) /\ EvidenceOK(j)
    BY <1>2, CurrentJob DEF PcValues, JobOK
  <2>2. EffectiveStage(j) \in ExecutableStages
    BY <2>1 DEF EffectiveStage, ResumePointOK, CanLoad
  <2>3. "start" \in j.requests
    BY <2>1, <2>2 DEF EvidenceOK
  <2>4. CASE pc = "run"
    <3>1. snap = Loaded(j)
      BY <2>4 DEF IInv, SnapshotFresh
    <3>2. /\ snap.stage = EffectiveStage(j) /\ snap.plan = j.plan
      BY <2>1, <3>1 DEF Loaded, EffectiveStage, CanLoad
    <3>3. CASE snap.stage \in DeliveryStages
      <4>1. RequestOf[snap.stage] \in j.requests
        BY <2>1, <2>3, <3>2, <3>3 DEF EvidenceOK, RequestOf
      <4>2. CanMarkRequiresAttention(j)
        BY <2>1 DEF CanMarkRequiresAttention, CanLoad, ResumePointOK
      <4> QED BY <2>4, <3>3, <4>1, <4>2 DEF QueueOperationThrows, WantsPlan, WantsReport
    <3>4. CASE snap.stage \notin DeliveryStages
      <4>1. snap.stage \in {"collecting", "report_building"} => "report" \notin j.requests
        BY <2>1, <3>2 DEF EvidenceOK
      <4> QED BY <2>1, <2>4, <3>2, <3>4, <4>1 DEF QueueOperationThrows, WantsDelivery, WantsPlan,
            WantsReport, CanSaveFilePlan, CanSaveReport, CanLoad
    <3> QED BY <3>3, <3>4
  <2>5. CASE pc = "call"
    <3>1. snap.stage = j.stage /\ j.stage = EffectiveStage(j)
      BY <2>5 DEF IInv, SnapshotFresh, EffectiveStage
    <3>2. j.stage = "start_pending" => j.plan = {}
      BY <2>1, <3>1 DEF EvidenceOK
    <3>3. j.stage = "manifest_pending" => CanAcceptManifest(j)
      BY <2>1, <3>1 DEF EvidenceOK, CanAcceptManifest
    <3> QED BY <2>5, <3>1, <3>2, <3>3 DEF QueueOperationThrows, WantsDelivery, WantsPlan,
          WantsReport, CanAcceptStart, CanDiscardStartPending, CanCompleteJob
  <2>6. CASE pc \in {"archive", "build"}
    <3>1. j.stage = "collecting" /\ EffectiveStage(j) = "collecting"
      BY <2>6 DEF IInv, SnapshotFresh, EffectiveStage
    <3>2. j.requests = {"start"}
      BY <2>1, <3>1 DEF EvidenceOK
    <3> QED BY <2>6, <3>1, <3>2 DEF QueueOperationThrows, WantsDelivery, WantsPlan, WantsReport,
          CanSaveManifest, CanSaveReport
  <2> QED BY <1>2, <2>4, <2>5, <2>6
<1> QED BY <1>1, <1>2 DEF QueueOperationThrows, WantsDelivery, WantsPlan, WantsReport

\* The thread never meets an AgentQueueError that would end the process, provided
\* no slot is dispatched a second time: with the clock set back begin_job may
\* throw, which the run ReplayedSlot shows.
THEOREM NoQueueErrorEndsTheProcess == ASSUME ~ReplaySlots PROVE Spec => []NoQueueFault
<1> DEFINE Safe == IInv /\ SlotsOK /\ NoQueueFault
<1>1. Init => Safe
  BY InitOK, SlotsInit DEF Init, NoQueueFault
<1>2. Safe /\ [Next]_agentVars => Safe'
  <2> SUFFICES ASSUME Safe, [Next]_agentVars PROVE Safe'
    OBVIOUS
  <2>1. IInv' /\ SlotsOK'
    BY NextOK, SlotsStep
  <2>2. ~QueueError
    BY NothingThrows DEF QueueError
  <2>3. queueFault' = queueFault
    <3>1. CASE Dispatch
      BY <3>1 DEF Dispatch, DispatchScheduled, DispatchManual
    <3>2. CASE JobStep
      BY <2>2, <3>2 DEF JobStep, RecoverJob, BeginJob, LoadJob, AbandonOversized,
         BeginDelivery, RetryDelivery, PlanFiles, EnterArchiveLoop, CollectionFails,
         CommitAndReload, ResumeArchiving, ArchiveFile, ArchiveRecorded, ArchiveFailed,
         ArchiveConflict, ManifestSaved, NothingArchived, ReportSaved, ReportThrows,
         LeaveJob, GoTo
    <3>3. CASE Answer
      BY <3>3 DEF Answer, CommitAndReload, AttemptFails, AttemptUnauthorized, AttemptRejected,
         StartAnswered, StartAnsweredFinished, ManifestAnswered, ReportAnswered, LeaveJob, GoTo
    <3>4. CASE Environment
      BY <3>4 DEF Environment, Exit, Start, NothingDue, RetryAttention, SpoilArchive,
         ClearArchive, agentVars
    <3>5. CASE UNCHANGED agentVars
      BY <3>5 DEF agentVars
    <3> QED BY <3>1, <3>2, <3>3, <3>4, <3>5 DEF Next, ThreadStep
  <2> QED BY <2>1, <2>3 DEF NoQueueFault
<1> QED BY <1>1, <1>2, PTL DEF Spec

-----------------------------------------------------------------------------
(* What one step does to the run and the file ids of a job, and to a retry.  *)

\* A retry plans and reports nothing but its fixed inputs.
RetryWithin(k, j) ==
  RetryTargets[k] # {} =>
    /\ j.plan \cup j.failures \subseteq RetryTargets[k]
    /\ "report" \in j.requests => j.report.failed \subseteq RetryTargets[k]

\* What all operations but accept_start and accept_manifest leave alone.
Keeps(k, j, n) ==
  /\ n.run = j.run /\ n.bound = j.bound
  /\ j.stage # "absent" => n.stage # "absent"
  /\ RetryWithin(k, j) => RetryWithin(k, n)

\* The operations that move a job between stages.
LEMMA MovesKeep ==
  ASSUME NEW k, NEW j \in Job
  PROVE  /\ Keeps(k, j, j)
         /\ \A kind \in {"archive_conflict", "other"} : Keeps(k, j, MarkRequiresAttention(j, kind))
         /\ \A retryable \in BOOLEAN : Keeps(k, j, RecordDeliveryFailure(j, retryable))
         /\ Keeps(k, j, ResumeDelivery(j)) /\ Keeps(k, j, RetryAttentionJob(j))
<1>1. ASSUME NEW n, n.run = j.run, n.bound = j.bound, n.plan = j.plan, n.failures = j.failures,
             n.requests = j.requests, n.report = j.report,
             j.stage # "absent" => n.stage # "absent"
      PROVE  Keeps(k, j, n)
  BY <1>1 DEF Keeps, RetryWithin
<1>2. ASSUME NEW kind \in {"archive_conflict", "other"}
      PROVE  Keeps(k, j, MarkRequiresAttention(j, kind))
  <2> DEFINE n == MarkRequiresAttention(j, kind)
  <2>1. /\ n.run = j.run /\ n.bound = j.bound /\ n.plan = j.plan /\ n.failures = j.failures
        /\ n.requests = j.requests /\ n.report = j.report
        /\ j.stage # "absent" => n.stage # "absent"
    BY DEF MarkRequiresAttention
  <2> QED BY <1>1, <2>1
<1>3. ASSUME NEW retryable \in BOOLEAN
      PROVE  Keeps(k, j, RecordDeliveryFailure(j, retryable))
  <2> DEFINE n == RecordDeliveryFailure(j, retryable)
  <2>1. /\ n.run = j.run /\ n.bound = j.bound /\ n.plan = j.plan /\ n.failures = j.failures
        /\ n.requests = j.requests /\ n.report = j.report
        /\ j.stage # "absent" => n.stage # "absent"
    BY DEF RecordDeliveryFailure
  <2> QED BY <1>1, <2>1
<1>4. Keeps(k, j, ResumeDelivery(j))
  <2> DEFINE n == ResumeDelivery(j)
  <2>1. /\ n.run = j.run /\ n.bound = j.bound /\ n.plan = j.plan /\ n.failures = j.failures
        /\ n.requests = j.requests /\ n.report = j.report
        /\ j.stage # "absent" => n.stage # "absent"
    BY DEF ResumeDelivery
  <2> QED BY <1>1, <2>1
<1>5. Keeps(k, j, RetryAttentionJob(j))
  <2> DEFINE n == RetryAttentionJob(j)
  <2>1. /\ n.run = j.run /\ n.bound = j.bound /\ n.plan = j.plan /\ n.failures = j.failures
        /\ n.requests = j.requests /\ n.report = j.report
        /\ j.stage # "absent" => n.stage # "absent"
    BY DEF RetryAttentionJob, ResumeStage
  <2> QED BY <1>1, <2>1
<1>6. Keeps(k, j, j)
  BY <1>1
<1> QED BY <1>2, <1>3, <1>4, <1>5, <1>6

\* The operations that add to what a job has collected.
LEMMA CollectingKeeps ==
  ASSUME NEW k, NEW j \in Job, NEW f \in j.plan
  PROVE  /\ Keeps(k, j, MarkFileFailed(j, f, j.failures \cup {f}))
         /\ Keeps(k, j, MarkFileArchived(j, f))
BY DEF Keeps, RetryWithin, MarkFileFailed, MarkFileArchived

LEMMA AmendmentKeeps ==
  ASSUME NEW k, NEW j \in Job, j.errors \subseteq j.plan
  PROVE  Keeps(k, j, SaveFileFailures(j, j.failures \cup j.errors))
BY DEF Keeps, RetryWithin, SaveFileFailures

LEMMA ManifestKeeps ==
  ASSUME NEW k, NEW j \in Job, NEW entries
  PROVE  Keeps(k, j, SaveManifest(j, entries))
BY DEF Keeps, RetryWithin, SaveManifest

LEMMA PlanKeeps ==
  ASSUME NEW k, NEW j \in Job, NEW plan \in SUBSET Files, NEW unread \in SUBSET Files,
         RetryTargets[k] # {} => plan \cup unread = RetryTargets[k]
  PROVE  Keeps(k, j, SaveFilePlan(j, plan, unread))
BY DEF Keeps, RetryWithin, SaveFilePlan

LEMMA ReportKeeps ==
  ASSUME NEW k, NEW j \in Job, NEW report, NEW clean,
         report.failed \subseteq j.plan \cup j.failures
  PROVE  Keeps(k, j, SaveReport(j, report, clean))
BY DEF Keeps, RetryWithin, SaveReport

\* Committing a record that keeps the row of the current job keeps every row.
LEMMA KeepsCommit ==
  ASSUME IInv, NEW n, Commit(n), cur \in Keys, Keeps(cur, jobs[cur], n), NEW k \in Keys
  PROVE  Keeps(k, jobs[k], jobs'[k])
<1>1. jobs \in [Keys -> Job]
  BY DEF IInv, TypeOK, QueueTypeOK
<1>2. CASE k = cur
  BY <1>1, <1>2 DEF Commit
<1>3. CASE k # cur
  BY <1>1, <1>3, MovesKeep DEF Commit
<1> QED BY <1>2, <1>3

\* From the plan to the archive loop, with the failures the job knows.
LEMMA EnterKeeps ==
  ASSUME IInv, pc = "run", NEW j, JobOK(cur, j), EnterArchiveLoop(j),
         Keeps(cur, jobs[cur], j), NEW k \in Keys
  PROVE  Keeps(k, jobs[k], jobs'[k])
<1> DEFINE kept == IF j.failures \cup j.errors = j.failures THEN j
                   ELSE SaveFileFailures(j, j.failures \cup j.errors)
<1>1. cur \in Keys /\ jobs[cur] \in Job /\ j \in Job /\ j.errors \subseteq j.plan
  BY CurrentJob, JobFiles
<1>2. Commit(kept)
  BY DEF EnterArchiveLoop
<1>3. Keeps(cur, jobs[cur], SaveFileFailures(j, j.failures \cup j.errors))
  BY <1>1, AmendmentKeeps DEF Keeps
<1>4. Keeps(cur, jobs[cur], kept)
  BY <1>3
<1> HIDE DEF kept
<1> QED BY <1>1, <1>2, <1>4, KeepsCommit

LEMMA RetryAttentionKeeps ==
  ASSUME IInv, NEW l \in Keys, RetryAttention(l), NEW k \in Keys
  PROVE  Keeps(k, jobs[k], jobs'[k])
<1>1. jobs \in [Keys -> Job]
  BY DEF IInv, TypeOK, QueueTypeOK
<1>2. jobs' = [jobs EXCEPT ![l] = RetryAttentionJob(jobs[l])]
  BY DEF RetryAttention
<1>3. CASE k = l
  <2>1. jobs'[k] = RetryAttentionJob(jobs[k])
    BY <1>1, <1>2, <1>3
  <2> QED BY <1>1, <2>1, MovesKeep
<1>4. CASE k # l
  <2>1. jobs'[k] = jobs[k]
    BY <1>1, <1>2, <1>4
  <2> QED BY <1>1, <2>1, MovesKeep
<1> QED BY <1>3, <1>4

\* The thread's own operations, after the job has begun.
LEMMA JobStepKeeps ==
  ASSUME IInv, JobStep, ~BeginJob, NEW k \in Keys
  PROVE  Keeps(k, jobs[k], jobs'[k])
<1>1. jobs \in [Keys -> Job]
  BY DEF IInv, TypeOK, QueueTypeOK
<1>2. ASSUME UNCHANGED jobs PROVE Keeps(k, jobs[k], jobs'[k])
  BY <1>1, <1>2, MovesKeep
<1>3. ASSUME pc \in {"run", "backoff", "call", "archive", "build"}
      PROVE  /\ cur \in Keys /\ JobOK(cur, jobs[cur]) /\ jobs[cur] \in Job
             /\ jobs[cur].errors \subseteq jobs[cur].plan
  BY <1>3, CurrentJob, JobFiles DEF PcValues
<1>4. CASE \E l \in Keys : RecoverJob(l)
  BY <1>2, <1>4 DEF RecoverJob, queueVars
<1>5. CASE LoadJob \/ BeginDelivery \/ NothingArchived \/ ReportThrows \/ QueueError
           \/ \E f \in Files : ArchiveFile(f)
  BY <1>2, <1>5 DEF LoadJob, BeginDelivery, NothingArchived, ReportThrows, QueueError, ArchiveFile,
     queueVars
<1>6. CASE AbandonOversized
  BY <1>3, <1>6, MovesKeep, KeepsCommit DEF AbandonOversized, WantsDelivery
<1>7. CASE RetryDelivery
  BY <1>3, <1>7, MovesKeep, KeepsCommit DEF RetryDelivery
<1>8. ASSUME NEW plan \in SUBSET Files, NEW unread \in SUBSET Files, PlanFiles(plan, unread)
      PROVE  Keeps(k, jobs[k], jobs'[k])
  <2> DEFINE j == SaveFilePlan(jobs[cur], plan, unread)
  <2>1. /\ pc = "run" /\ jobs[cur].plan = {} /\ plan \cap unread = {} /\ EnterArchiveLoop(j)
        /\ snap.stage = "collecting"
        /\ RetryTargets[cur] # {} => plan \cup unread = RetryTargets[cur]
    BY <1>8 DEF PlanFiles, WantsPlan, CanSaveFilePlan, DirectorySelection, RetrySelection
  <2>2. jobs[cur].stage = "collecting"
    BY <1>3, <2>1 DEF IInv, SnapshotFresh, Loaded, JobOK, ResumePointOK
  <2>3. JobOK(cur, j)
    BY <1>3, <2>1, <2>2, SaveFilePlanOK
  <2>4. Keeps(cur, jobs[cur], j)
    BY <1>3, <2>1, PlanKeeps
  <2> HIDE DEF j
  <2> QED BY <2>1, <2>3, <2>4, EnterKeeps
<1>9. CASE CollectionFails
  <2> DEFINE report == [status |-> "failed", failed |-> jobs[cur].failures, records |-> {}]
  <2>1. pc \in {"run", "archive"} /\ Commit(SaveReport(jobs[cur], report, {}))
    BY <1>9 DEF CollectionFails, WantsPlan, CommitAndReload
  <2>2. Keeps(cur, jobs[cur], SaveReport(jobs[cur], report, {}))
    BY <1>3, <2>1, ReportKeeps
  <2> QED BY <1>3, <2>1, <2>2, KeepsCommit
<1>10. CASE ResumeArchiving
  <2>1. pc = "run" /\ snap.stage = "collecting" /\ EnterArchiveLoop(snap)
    BY <1>10 DEF ResumeArchiving
  <2>2. snap = jobs[cur]
    BY <1>3, <2>1 DEF IInv, SnapshotFresh, Loaded, JobOK, ResumePointOK
  <2> QED BY <1>3, <2>1, <2>2, MovesKeep, EnterKeeps
<1>11. ASSUME NEW f \in Files, ArchiveRecorded(f) \/ ArchiveFailed(f) \/ ArchiveConflict(f)
       PROVE  Keeps(k, jobs[k], jobs'[k])
  <2>1. pc = "archive" /\ f \in todo
    BY <1>11 DEF ArchiveRecorded, ArchiveFailed, ArchiveConflict
  <2>2. f \in jobs[cur].plan /\ fails = jobs[cur].failures
    BY <2>1 DEF IInv, SnapshotFresh
  <2>3. CASE ArchiveRecorded(f)
    BY <1>3, <2>1, <2>2, <2>3, CollectingKeeps, KeepsCommit DEF ArchiveRecorded
  <2>4. CASE ArchiveFailed(f)
    BY <1>3, <2>1, <2>2, <2>4, CollectingKeeps, KeepsCommit DEF ArchiveFailed
  <2>5. CASE ArchiveConflict(f)
    BY <1>3, <2>1, <2>5, MovesKeep, KeepsCommit DEF ArchiveConflict
  <2> QED BY <1>11, <2>3, <2>4, <2>5
<1>12. CASE ManifestSaved
  BY <1>3, <1>12, ManifestKeeps, KeepsCommit DEF ManifestSaved, CommitAndReload
<1>13. ASSUME NEW broken \in SUBSET Files, NEW partial \in SUBSET Files,
              ReportSaved(broken, partial)
       PROVE  Keeps(k, jobs[k], jobs'[k])
  <2> DEFINE failed == snap.failures \cup broken \cup partial
             clean == Parsable \ (broken \cup partial)
             report == [status |-> IF failed = {} THEN "succeeded" ELSE "failed",
                        failed |-> failed, records |-> clean \cup partial]
  <2>1. /\ pc \in {"run", "build"} /\ broken \cup partial \subseteq snap.plan
        /\ Commit(SaveReport(jobs[cur], report, clean))
    BY <1>13 DEF ReportSaved, CommitAndReload, WantsReport, Parsable
  <2>2. snap.plan = jobs[cur].plan /\ snap.failures = jobs[cur].failures
    BY <1>3, <2>1 DEF IInv, SnapshotFresh, Loaded
  <2>3. report.failed \subseteq jobs[cur].plan \cup jobs[cur].failures
    BY <2>1, <2>2
  <2> HIDE DEF report, clean
  <2>4. Keeps(cur, jobs[cur], SaveReport(jobs[cur], report, clean))
    BY <1>3, <2>1, <2>3, ReportKeeps
  <2> QED BY <1>3, <2>1, <2>4, KeepsCommit
<1> QED BY <1>4, <1>5, <1>6, <1>7, <1>8, <1>9, <1>10, <1>11, <1>12, <1>13 DEF JobStep

\* A step keeps the row of a job, adds the run with the answer to the start, or
\* the ids with the answer to the manifest; it removes one with the answer to the
\* report or to the start of a run that is over.
LEMMA StepKeeps ==
  ASSUME IInv, [Next]_agentVars, NEW k \in PendingKeys
  PROVE  \/ Keeps(k, jobs[k], jobs'[k])
         \/ k = cur /\ jobs'[k] = AcceptStart(jobs[k]) /\ StartAnswered
         \/ k = cur /\ jobs'[k] = AcceptManifest(jobs[k]) /\ ManifestAnswered
         \/ k = cur /\ jobs'[k] = NoJob /\ (StartAnsweredFinished \/ ReportAnswered)
<1>1. jobs \in [Keys -> Job] /\ k \in Keys
  BY DEF IInv, TypeOK, QueueTypeOK, PendingKeys
<1>2. ASSUME UNCHANGED jobs PROVE Keeps(k, jobs[k], jobs'[k])
  BY <1>1, <1>2, MovesKeep
<1>3. CASE Dispatch
  BY <1>2, <1>3 DEF Dispatch, DispatchScheduled, DispatchManual, queueVars
<1>4. CASE JobStep /\ ~BeginJob
  BY <1>1, <1>4, JobStepKeeps
<1>5. CASE BeginJob
  <2>1. CASE cur \in PendingKeys
    BY <1>2, <1>5, <2>1 DEF BeginJob
  <2>2. CASE cur \notin PendingKeys
    <3>1. jobs'[k] = jobs[k]
      BY <1>1, <1>5, <2>2 DEF BeginJob, Commit
    <3> QED BY <1>1, <3>1, MovesKeep
  <2> QED BY <2>1, <2>2
<1>6. CASE Answer
  <2>1. pc = "call"
    BY <1>6 DEF Answer, AttemptFails, AttemptUnauthorized, AttemptRejected, StartAnswered,
       StartAnsweredFinished, ManifestAnswered, ReportAnswered
  <2>2. cur \in Keys /\ jobs[cur] \in Job
    BY <2>1, CurrentJob
  <2>3. CASE AttemptFails \/ AttemptUnauthorized \/ AttemptRejected
    <3>1. PICK retryable \in BOOLEAN : Commit(RecordDeliveryFailure(jobs[cur], retryable))
      BY <2>3 DEF AttemptFails, AttemptUnauthorized, AttemptRejected
    <3> QED BY <1>1, <2>2, <3>1, MovesKeep, KeepsCommit
  <2>4. CASE StartAnswered
    <3>1. Commit(AcceptStart(jobs[cur]))
      BY <2>4 DEF StartAnswered, CommitAndReload
    <3> QED BY <1>1, <2>2, <2>4, <3>1, MovesKeep DEF Commit
  <2>5. CASE ManifestAnswered
    <3>1. Commit(AcceptManifest(jobs[cur]))
      BY <2>5 DEF ManifestAnswered, CommitAndReload
    <3> QED BY <1>1, <2>2, <2>5, <3>1, MovesKeep DEF Commit
  <2>6. CASE StartAnsweredFinished \/ ReportAnswered
    <3>1. Commit(NoJob)
      BY <2>6 DEF StartAnsweredFinished, ReportAnswered
    <3> QED BY <1>1, <2>2, <2>6, <3>1, MovesKeep DEF Commit
  <2> QED BY <1>6, <2>3, <2>4, <2>5, <2>6 DEF Answer
<1>7. CASE Environment
  BY <1>1, <1>2, <1>7, RetryAttentionKeeps
     DEF Environment, Exit, Start, NothingDue, SpoilArchive, ClearArchive, queueVars, agentVars
<1>8. CASE UNCHANGED agentVars
  BY <1>2, <1>8 DEF agentVars
<1> QED BY <1>3, <1>4, <1>5, <1>6, <1>7, <1>8 DEF Next, ThreadStep

\* Only begin_job adds a job, the one of the current key, new.
LEMMA JobAdded ==
  ASSUME IInv, [Next]_agentVars, NEW k \in Keys, k \notin PendingKeys, k \in PendingKeys'
  PROVE  BeginJob /\ k = cur /\ jobs'[k] = NewJob
<1>1. jobs \in [Keys -> Job] /\ BeginJob
  BY NoKeyAdded DEF IInv, TypeOK, QueueTypeOK
<1>2. cur \in Keys
  BY <1>1, CurrentJob DEF BeginJob
<1>3. cur \notin PendingKeys
  BY <1>1 DEF BeginJob, PendingKeys
<1> QED BY <1>1, <1>2, <1>3 DEF BeginJob, Commit, PendingKeys

-----------------------------------------------------------------------------
(* A queue no older version has written to.                                *)

\* Every job has a stage to go on at, a retry stays within its inputs, and what
\* the thread sends is the body it has saved.
CleanOK ==
  \A k \in PendingKeys :
    EffectiveStage(jobs[k]) \in ExecutableStages /\ RetryWithin(k, jobs[k])

BodyOK ==
  pc \in {"backoff", "call"} =>
    snap.manifest = jobs[cur].manifest /\ snap.report = jobs[cur].report

\* What an acknowledged request leaves behind, for both kinds of it.
LEMMA AnswersKeep ==
  ASSUME NEW k, NEW j \in Job, RetryWithin(k, j)
  PROVE  RetryWithin(k, AcceptStart(j)) /\ RetryWithin(k, AcceptManifest(j))
BY DEF RetryWithin, AcceptStart, AcceptManifest

LEMMA CleanStep == StepInv /\ CleanOK /\ [Next]_agentVars => CleanOK'
<1> SUFFICES ASSUME StepInv, CleanOK, [Next]_agentVars, NEW k \in PendingKeys'
             PROVE  EffectiveStage(jobs'[k]) \in ExecutableStages /\ RetryWithin(k, jobs'[k])
  <2>1. \A k \in Keys : RetryWithin(k, jobs[k])' <=> RetryWithin(k, jobs'[k])
    BY DEF RetryWithin
  <2> QED BY <2>1 DEF CleanOK, EffectiveStage, ResumeStage, PendingKeys
<1>1. IInv /\ k \in Keys /\ jobs'[k].stage # "absent" /\ jobs \in [Keys -> Job]
  BY DEF StepInv, IInv, TypeOK, QueueTypeOK, PendingKeys
<1>2. CASE k \in PendingKeys
  <2>1. EffectiveStage(jobs[k]) \in ExecutableStages /\ RetryWithin(k, jobs[k])
    BY <1>2 DEF CleanOK
  <2>2. EffectiveStage(jobs'[k]) \in ExecutableStages
    BY <1>1, <1>2, <2>1, JobsGoOn DEF GoesOn
  <2>3. RetryWithin(k, jobs'[k])
    <3>1. jobs[k] \in Job /\ jobs'[k] # NoJob
      BY <1>1, EmptyJobs
    <3>2. Keeps(k, jobs[k], jobs'[k]) => RetryWithin(k, jobs'[k])
      BY <2>1 DEF Keeps
    <3>3. RetryWithin(k, AcceptStart(jobs[k])) /\ RetryWithin(k, AcceptManifest(jobs[k]))
      BY <2>1, <3>1, AnswersKeep
    <3> QED BY <1>1, <1>2, <3>1, <3>2, <3>3, StepKeeps
  <2> QED BY <2>2, <2>3
<1>3. CASE k \notin PendingKeys
  <2>1. jobs'[k] = NewJob
    BY <1>1, <1>3, JobAdded
  <2>2. EffectiveStage(NewJob) = "start_pending" /\ RetryWithin(k, NewJob)
    BY DEF NewJob, NoJob, EffectiveStage, RetryWithin
  <2> QED BY <2>1, <2>2
<1> QED BY <1>2, <1>3

\* A delivery begins, goes on with an attempt, waits, or nothing happens to it.
LEMMA AtDelivery ==
  ASSUME [Next]_agentVars, pc' \in {"backoff", "call"}
  PROVE  BeginDelivery \/ RetryDelivery \/ AttemptFails \/ UNCHANGED <<jobs, pc, cur, snap>>
<1>1. CASE Dispatch
  BY <1>1 DEF Dispatch, DispatchScheduled, DispatchManual, queueVars
<1>2. CASE JobStep
  BY <1>2 DEF JobStep, RecoverJob, BeginJob, LoadJob, AbandonOversized,
     PlanFiles, EnterArchiveLoop, CollectionFails,
     CommitAndReload, ResumeArchiving, ArchiveFile, ArchiveRecorded, ArchiveFailed,
     ArchiveConflict, ManifestSaved, NothingArchived, ReportSaved, ReportThrows,
     QueueError, EndProcess, LeaveJob, GoTo, queueVars, memory
<1>3. CASE Answer
  BY <1>3 DEF Answer, CommitAndReload, AttemptUnauthorized, AttemptRejected,
     StartAnswered, StartAnsweredFinished, ManifestAnswered, ReportAnswered,
     EndProcess, LeaveJob, GoTo
<1>4. CASE Environment
  BY <1>4 DEF Environment, Exit, Start, NothingDue, RetryAttention, SpoilArchive, ClearArchive,
     EndProcess, queueVars, memory, agentVars
<1>5. CASE UNCHANGED agentVars
  BY <1>5 DEF agentVars
<1> QED BY <1>1, <1>2, <1>3, <1>4, <1>5 DEF Next, ThreadStep

LEMMA BodyStep == IInv /\ BodyOK /\ [Next]_agentVars => BodyOK'
<1> SUFFICES ASSUME IInv, BodyOK, [Next]_agentVars, pc' \in {"backoff", "call"}
             PROVE  snap'.manifest = jobs'[cur'].manifest /\ snap'.report = jobs'[cur'].report
  BY DEF BodyOK
<1>1. ASSUME pc \in {"run", "backoff", "call"}
      PROVE  cur \in Keys /\ jobs \in [Keys -> Job]
  BY <1>1, CurrentJob DEF IInv, TypeOK, QueueTypeOK
<1>2. CASE BeginDelivery
  <2>1. pc = "run" /\ snap = Loaded(jobs[cur]) /\ UNCHANGED <<jobs, cur, snap>>
    BY <1>2 DEF BeginDelivery, WantsDelivery, GoTo, queueVars, IInv, SnapshotFresh
  <2> QED BY <1>1, <2>1 DEF Loaded
<1>3. CASE RetryDelivery
  <2>1. /\ pc = "backoff" /\ UNCHANGED <<cur, snap>>
        /\ jobs' = [jobs EXCEPT ![cur] = ResumeDelivery(jobs[cur])]
    BY <1>3 DEF RetryDelivery, GoTo, Commit
  <2>2. jobs'[cur].manifest = jobs[cur].manifest /\ jobs'[cur].report = jobs[cur].report
    BY <1>1, <2>1 DEF ResumeDelivery
  <2> QED BY <2>1, <2>2 DEF BodyOK
<1>4. CASE AttemptFails
  <2>1. /\ pc = "call" /\ UNCHANGED <<cur, snap>>
        /\ jobs' = [jobs EXCEPT ![cur] = RecordDeliveryFailure(jobs[cur], TRUE)]
    BY <1>4 DEF AttemptFails, GoTo, Commit
  <2>2. jobs'[cur].manifest = jobs[cur].manifest /\ jobs'[cur].report = jobs[cur].report
    BY <1>1, <2>1 DEF RecordDeliveryFailure
  <2> QED BY <2>1, <2>2 DEF BodyOK
<1>5. CASE UNCHANGED <<jobs, pc, cur, snap>>
  BY <1>5 DEF BodyOK
<1> QED BY <1>2, <1>3, <1>4, <1>5, AtDelivery
================================================================================
