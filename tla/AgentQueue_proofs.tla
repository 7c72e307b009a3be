-------------------------- MODULE AgentQueue_proofs --------------------------
(***************************************************************************)
(* What one operation of the queue does to one job: each keeps the record  *)
(* of the job well formed.  AgentExecutor_proofs rests on these lemmas.    *)
(***************************************************************************)
EXTENDS AgentQueue, TLAPS

JobOK(k, j) ==
  /\ j \in Job
  /\ ResumePointOK(j) /\ EvidenceOK(j) /\ FailuresOK(k, j) /\ ReportOK(j)

USE DEF Job, Reports, Stages, ExecutableStages, DeliveryStages, RequestTypes

-----------------------------------------------------------------------------
(* What is known of a job at a stage, and what makes a job well formed.    *)

\* Only the rows and the stage at which the job goes on count as evidence.
LEMMA SameEvidence ==
  ASSUME NEW k, NEW j, NEW n, JobOK(k, j), EffectiveStage(n) = EffectiveStage(j),
         n.run = j.run, n.marker = j.marker, n.failures = j.failures,
         n.plan = j.plan, n.archived = j.archived, n.errors = j.errors,
         n.bound = j.bound, n.clean = j.clean, n.requests = j.requests,
         n.manifest = j.manifest, n.report = j.report
  PROVE  EvidenceOK(n) /\ FailuresOK(k, n) /\ ReportOK(n)
BY DEF JobOK, EvidenceOK, FailuresOK, ReportOK

\* A job keeps its files, its lists and its resume point in order.
LEMMA JobFiles ==
  ASSUME NEW k, NEW j, JobOK(k, j)
  PROVE  /\ j \in Job
         /\ j.errors \subseteq j.plan /\ j.archived \subseteq j.plan
         /\ j.failures \cap j.plan \subseteq j.errors
         /\ j.stage \in ExecutableStages => j.retryStage = "none"
BY DEF JobOK, FailuresOK, ResumePointOK

\* A collecting job has a run and has asked for nothing but its start.
LEMMA CollectingJob ==
  ASSUME NEW k, NEW j, JobOK(k, j), j.stage = "collecting"
  PROVE  /\ j.run /\ j.requests = {"start"} /\ j.retryStage = "none"
         /\ j.manifest = {} /\ j.bound = {} /\ j.clean = {}
         /\ j.errors \subseteq j.failures \/ k \in LegacyKeys
BY DEF JobOK, EvidenceOK, ResumePointOK, FailuresOK, EffectiveStage

\* And that is all it takes.
LEMMA CollectingOK ==
  ASSUME NEW k, NEW j \in Job, j.stage = "collecting", j.retryStage = "none",
         j.run, j.requests = {"start"},
         j.manifest = {}, j.bound = {}, j.clean = {},
         j.errors \subseteq j.plan, j.archived \subseteq j.plan,
         j.failures \cap j.plan \subseteq j.errors,
         j.errors \subseteq j.failures \/ k \in LegacyKeys
  PROVE  JobOK(k, j)
BY DEF JobOK, EvidenceOK, ResumePointOK, FailuresOK, ReportOK, EffectiveStage

-----------------------------------------------------------------------------
(* One lemma per operation.                                                *)

\* A key without a job has the empty record.
LEMMA NoJobOK == ASSUME NEW k PROVE JobOK(k, NoJob)
BY DEF NoJob, NoReport, JobOK, EvidenceOK, ResumePointOK, FailuresOK, ReportOK,
       EffectiveStage

\* begin_job inserts a well formed job.
LEMMA NewJobOK == ASSUME NEW k PROVE JobOK(k, NewJob)
BY DEF NewJob, NoJob, NoReport, JobOK, EvidenceOK, ResumePointOK, FailuresOK,
       ReportOK, EffectiveStage

\* What load_job returns is the job at the stage it resumes.
LEMMA LoadedOK ==
  ASSUME NEW k, NEW j, JobOK(k, j), CanLoad(j)
  PROVE  Loaded(j) \in Job /\ Loaded(j).stage \in ExecutableStages
<1>1. j \in Job /\ (j.stage = "retry_wait" => j.retryStage \in DeliveryStages)
  BY DEF JobOK, ResumePointOK
<1>. QED BY <1>1 DEF Loaded, CanLoad

\* accept_start: from the start to the collection.
LEMMA AcceptStartOK ==
  ASSUME NEW k, NEW j, JobOK(k, j), CanAcceptStart(j)
  PROVE  JobOK(k, AcceptStart(j))
<1> DEFINE n == AcceptStart(j)
<1>1. /\ j \in Job /\ j.retryStage = "none" /\ j.requests = {"start"}
      /\ j.plan = {} /\ j.failures = {} /\ j.errors = {} /\ j.archived = {}
      /\ j.manifest = {} /\ j.bound = {} /\ j.clean = {}
  BY DEF CanAcceptStart, JobOK, EvidenceOK, ResumePointOK, FailuresOK, EffectiveStage
<1>2. n \in Job BY <1>1 DEF AcceptStart
<1>3. /\ n.stage = "collecting" /\ n.run
      /\ n.retryStage = j.retryStage /\ n.requests = j.requests
      /\ n.plan = j.plan /\ n.failures = j.failures /\ n.errors = j.errors
      /\ n.archived = j.archived /\ n.manifest = j.manifest
      /\ n.bound = j.bound /\ n.clean = j.clean
  BY <1>1 DEF AcceptStart
<1> HIDE DEF n
<1>4. JobOK(k, n) BY <1>1, <1>2, <1>3, CollectingOK
<1>. QED BY <1>4 DEF n

\* save_file_plan on a collecting job without a plan.
LEMMA SaveFilePlanOK ==
  ASSUME NEW k, NEW j, JobOK(k, j), j.stage = "collecting", j.plan = {},
         NEW plan \in SUBSET Files, NEW failures \in SUBSET Files,
         plan \cap failures = {}
  PROVE  JobOK(k, SaveFilePlan(j, plan, failures))
<1> DEFINE n == SaveFilePlan(j, plan, failures)
<1>1. j \in Job /\ j.errors = {} /\ j.archived = {} BY JobFiles
<1>2. n \in Job BY <1>1 DEF SaveFilePlan
<1>3. /\ n.stage = j.stage /\ n.run = j.run /\ n.retryStage = j.retryStage
      /\ n.requests = j.requests /\ n.manifest = j.manifest
      /\ n.bound = j.bound /\ n.clean = j.clean
      /\ n.errors = j.errors /\ n.archived = j.archived
      /\ n.plan = plan /\ n.failures = failures
  BY <1>1 DEF SaveFilePlan
<1> HIDE DEF n
<1>4. JobOK(k, n) BY <1>1, <1>2, <1>3, CollectingJob, CollectingOK
<1>. QED BY <1>4 DEF n

\* The amendment of the failure list; afterwards it lists every failed file.
LEMMA SaveFileFailuresOK ==
  ASSUME NEW k, NEW j, JobOK(k, j), j.stage = "collecting"
  PROVE  JobOK(k, SaveFileFailures(j, j.failures \cup j.errors))
<1> DEFINE n == SaveFileFailures(j, j.failures \cup j.errors)
<1>1. /\ j \in Job /\ j.errors \subseteq j.plan /\ j.archived \subseteq j.plan
      /\ j.failures \cap j.plan \subseteq j.errors
  BY JobFiles
<1>2. n \in Job BY <1>1 DEF SaveFileFailures
<1>3. /\ n.stage = j.stage /\ n.run = j.run /\ n.retryStage = j.retryStage
      /\ n.requests = j.requests /\ n.manifest = j.manifest
      /\ n.bound = j.bound /\ n.clean = j.clean
      /\ n.errors = j.errors /\ n.archived = j.archived
      /\ n.plan = j.plan /\ n.failures = j.failures \cup j.errors
  BY <1>1 DEF SaveFileFailures
<1> HIDE DEF n
<1>4. JobOK(k, n) BY <1>1, <1>2, <1>3, CollectingJob, CollectingOK
<1>. QED BY <1>4 DEF n

\* mark_file_failed on a planned file of a complete list.
LEMMA MarkFileFailedOK ==
  ASSUME NEW k, NEW j, JobOK(k, j), j.stage = "collecting",
         NEW f \in j.plan, j.errors \subseteq j.failures
  PROVE  JobOK(k, MarkFileFailed(j, f, j.failures \cup {f}))
<1> DEFINE n == MarkFileFailed(j, f, j.failures \cup {f})
<1>1. /\ j \in Job /\ j.errors \subseteq j.plan /\ j.archived \subseteq j.plan
      /\ j.failures \cap j.plan \subseteq j.errors
  BY JobFiles
<1>2. f \in Files BY <1>1
<1>3. n \in Job BY <1>1, <1>2 DEF MarkFileFailed
<1>4. /\ n.stage = j.stage /\ n.run = j.run /\ n.retryStage = j.retryStage
      /\ n.requests = j.requests /\ n.manifest = j.manifest
      /\ n.bound = j.bound /\ n.clean = j.clean
      /\ n.plan = j.plan /\ n.archived = j.archived
      /\ n.errors = j.errors \cup {f} /\ n.failures = j.failures \cup {f}
  BY <1>1 DEF MarkFileFailed
<1> HIDE DEF n
<1>5. /\ n.errors \subseteq n.plan /\ n.archived \subseteq n.plan
      /\ n.failures \cap n.plan \subseteq n.errors /\ n.errors \subseteq n.failures
  BY <1>1, <1>4
<1>6. JobOK(k, n) BY <1>3, <1>4, <1>5, CollectingJob, CollectingOK
<1>. QED BY <1>6 DEF n

\* mark_file_archived on a planned file.
LEMMA MarkFileArchivedOK ==
  ASSUME NEW k, NEW j, JobOK(k, j), j.stage = "collecting", NEW f \in j.plan
  PROVE  JobOK(k, MarkFileArchived(j, f))
<1> DEFINE n == MarkFileArchived(j, f)
<1>1. /\ j \in Job /\ j.errors \subseteq j.plan /\ j.archived \subseteq j.plan
      /\ j.failures \cap j.plan \subseteq j.errors
  BY JobFiles
<1>2. f \in Files BY <1>1
<1>3. n \in Job BY <1>1, <1>2 DEF MarkFileArchived
<1>4. /\ n.stage = j.stage /\ n.run = j.run /\ n.retryStage = j.retryStage
      /\ n.requests = j.requests /\ n.manifest = j.manifest
      /\ n.bound = j.bound /\ n.clean = j.clean
      /\ n.plan = j.plan /\ n.archived = j.archived \cup {f}
      /\ n.errors = j.errors /\ n.failures = j.failures
  BY <1>1 DEF MarkFileArchived
<1> HIDE DEF n
<1>5. JobOK(k, n) BY <1>1, <1>3, <1>4, CollectingJob, CollectingOK
<1>. QED BY <1>5 DEF n

\* save_manifest with an entry for every archived file that did not fail.
LEMMA SaveManifestOK ==
  ASSUME NEW k, NEW j, JobOK(k, j), CanSaveManifest(j),
         j.errors \subseteq j.failures,
         j.plan \ j.errors # {}, j.plan \ j.errors \subseteq j.archived
  PROVE  JobOK(k, SaveManifest(j, j.plan \ j.errors))
<1> DEFINE n == SaveManifest(j, j.plan \ j.errors)
<1>1. j \in Job /\ j.stage = "collecting" BY DEF CanSaveManifest, JobOK
<1>2. n \in Job BY <1>1 DEF SaveManifest
<1>3. /\ n.stage = "manifest_pending" /\ n.retryStage = j.retryStage
      /\ n.run = j.run /\ n.plan = j.plan /\ n.archived = j.archived
      /\ n.errors = j.errors /\ n.failures = j.failures /\ n.bound = j.bound
      /\ n.clean = j.clean /\ n.manifest = j.plan \ j.errors
      /\ n.requests = j.requests \cup {"manifest"}
  BY <1>1 DEF SaveManifest
<1> HIDE DEF n
<1>4. /\ j.run /\ j.requests = {"start"} /\ j.bound = {} /\ j.clean = {}
      /\ j.retryStage = "none"
  BY <1>1, CollectingJob
<1>5. EffectiveStage(n) = "manifest_pending" BY <1>3 DEF EffectiveStage
<1>6. ResumePointOK(n) BY <1>3, <1>4 DEF ResumePointOK
<1>7. EvidenceOK(n) BY <1>3, <1>4, <1>5 DEF EvidenceOK
<1>8. FailuresOK(k, n) BY <1>3, JobFiles DEF FailuresOK
<1>9. ReportOK(n) BY <1>3, <1>4 DEF ReportOK
<1>10. JobOK(k, n) BY <1>2, <1>6, <1>7, <1>8, <1>9 DEF JobOK
<1>. QED BY <1>10 DEF n

\* accept_manifest binds exactly the manifest.
LEMMA AcceptManifestOK ==
  ASSUME NEW k, NEW j, JobOK(k, j), j.stage = "manifest_pending"
  PROVE  JobOK(k, AcceptManifest(j))
<1> DEFINE n == AcceptManifest(j)
<1>1. j \in Job BY DEF JobOK
<1>2. n \in Job BY <1>1 DEF AcceptManifest
<1>3. /\ n.stage = "report_building" /\ n.retryStage = j.retryStage
      /\ n.run = j.run /\ n.plan = j.plan /\ n.archived = j.archived
      /\ n.errors = j.errors /\ n.failures = j.failures /\ n.clean = j.clean
      /\ n.manifest = j.manifest /\ n.requests = j.requests
      /\ n.bound = j.bound \cup j.manifest
  BY <1>1 DEF AcceptManifest
<1> HIDE DEF n
<1>4. EffectiveStage(j) = "manifest_pending" /\ EffectiveStage(n) = "report_building"
  BY <1>3 DEF EffectiveStage
<1>5. /\ j.bound = {} /\ j.requests = {"start", "manifest"} /\ j.run
      /\ j.manifest = j.plan \ j.errors /\ j.manifest \subseteq j.archived
      /\ j.clean = {}
  BY <1>4 DEF JobOK, EvidenceOK
<1>6. ResumePointOK(n) BY <1>3, JobFiles DEF ResumePointOK
<1>7. EvidenceOK(n) BY <1>3, <1>4, <1>5 DEF EvidenceOK
<1>8. FailuresOK(k, n) BY <1>3, <1>4 DEF JobOK, FailuresOK
<1>9. ReportOK(n) BY <1>3, <1>5 DEF ReportOK
<1>10. JobOK(k, n) BY <1>2, <1>6, <1>7, <1>8, <1>9 DEF JobOK
<1>. QED BY <1>10 DEF n

\* save_report, provided the report tells what ReportOK asks for.
LEMMA SaveReportOK ==
  ASSUME NEW k, NEW j, JobOK(k, j), j.stage \in {"collecting", "report_building"},
         NEW report \in Reports, NEW clean \in SUBSET Files,
         report.status = "succeeded" => report.failed = {} /\ clean = j.plan,
         j.failures \cup j.errors \subseteq report.failed,
         clean \cap report.failed = {},
         clean \subseteq report.records, report.records \subseteq j.bound,
         j.errors \subseteq j.failures
  PROVE  JobOK(k, SaveReport(j, report, clean))
<1> DEFINE n == SaveReport(j, report, clean)
<1>1. j \in Job BY DEF JobOK
<1>2. n \in Job BY <1>1 DEF SaveReport
<1>3. /\ n.stage = "report_pending" /\ n.retryStage = j.retryStage
      /\ n.run = j.run /\ n.plan = j.plan /\ n.archived = j.archived
      /\ n.errors = j.errors /\ n.failures = j.failures /\ n.clean = clean
      /\ n.manifest = j.manifest /\ n.bound = j.bound /\ n.report = report
      /\ n.requests = j.requests \cup {"report"}
  BY <1>1 DEF SaveReport
<1> HIDE DEF n
<1>4. EffectiveStage(j) = j.stage /\ EffectiveStage(n) = "report_pending"
  BY <1>3 DEF EffectiveStage
<1>5. /\ j.run /\ j.bound = j.manifest /\ "start" \in j.requests
      /\ "manifest" \notin j.requests => j.manifest = {}
  BY <1>4 DEF JobOK, EvidenceOK
<1>6. ResumePointOK(n) BY <1>3, JobFiles DEF ResumePointOK
<1>7. EvidenceOK(n) BY <1>3, <1>4, <1>5 DEF EvidenceOK
<1>8. FailuresOK(k, n) BY <1>3, JobFiles DEF FailuresOK
<1>9. ReportOK(n) BY <1>3 DEF ReportOK
<1>10. JobOK(k, n) BY <1>2, <1>6, <1>7, <1>8, <1>9 DEF JobOK
<1>. QED BY <1>10 DEF n

\* A failed attempt, resumed or not: only the resume point changes.
LEMMA RecordDeliveryFailureOK ==
  ASSUME NEW k, NEW j, JobOK(k, j), j.stage \in DeliveryStages,
         NEW retryable \in BOOLEAN
  PROVE  JobOK(k, RecordDeliveryFailure(j, retryable))
<1> DEFINE n == RecordDeliveryFailure(j, retryable)
<1>1. j \in Job BY DEF JobOK
<1>2. n \in Job BY <1>1 DEF RecordDeliveryFailure
<1>3. /\ n.stage = IF retryable THEN "retry_wait" ELSE "requires_attention"
      /\ n.retryStage = j.stage /\ n.errorKind = "other"
      /\ n.run = j.run /\ n.marker = j.marker /\ n.failures = j.failures
      /\ n.plan = j.plan /\ n.archived = j.archived /\ n.errors = j.errors
      /\ n.bound = j.bound /\ n.clean = j.clean /\ n.requests = j.requests
      /\ n.manifest = j.manifest /\ n.report = j.report
  BY <1>1 DEF RecordDeliveryFailure
<1> HIDE DEF n
<1>4. EffectiveStage(n) = EffectiveStage(j) BY <1>3 DEF EffectiveStage, ResumeStage
<1>5. ResumePointOK(n) BY <1>3 DEF ResumePointOK
<1>6. EvidenceOK(n) /\ FailuresOK(k, n) /\ ReportOK(n) BY <1>3, <1>4, SameEvidence
<1>7. JobOK(k, n) BY <1>2, <1>5, <1>6 DEF JobOK
<1>. QED BY <1>7 DEF n

\* resume_delivery puts the job back to the stage it remembered.
LEMMA ResumeDeliveryOK ==
  ASSUME NEW k, NEW j, JobOK(k, j) PROVE JobOK(k, ResumeDelivery(j))
<1>1. CASE j.stage # "retry_wait" BY <1>1 DEF ResumeDelivery
<1>2. CASE j.stage = "retry_wait"
  <2> DEFINE n == ResumeDelivery(j)
  <2>1. j \in Job /\ j.retryStage \in DeliveryStages BY <1>2 DEF JobOK, ResumePointOK
  <2>2. n = [[j EXCEPT !.stage = j.retryStage] EXCEPT !.retryStage = "none"]
    BY <1>2 DEF ResumeDelivery
  <2>3. n \in Job BY <2>1, <2>2
  <2>4. /\ n.stage = j.retryStage /\ n.retryStage = "none"
        /\ n.run = j.run /\ n.marker = j.marker /\ n.failures = j.failures
        /\ n.plan = j.plan /\ n.archived = j.archived /\ n.errors = j.errors
        /\ n.bound = j.bound /\ n.clean = j.clean /\ n.requests = j.requests
        /\ n.manifest = j.manifest /\ n.report = j.report
    BY <2>1, <2>2
  <2> HIDE DEF n
  <2>5. EffectiveStage(n) = EffectiveStage(j) BY <1>2, <2>1, <2>4 DEF EffectiveStage
  <2>6. ResumePointOK(n) BY <2>1, <2>4 DEF ResumePointOK
  <2>7. EvidenceOK(n) /\ FailuresOK(k, n) /\ ReportOK(n) BY <2>4, <2>5, SameEvidence
  <2>8. JobOK(k, n) BY <2>3, <2>6, <2>7 DEF JobOK
  <2>. QED BY <2>8 DEF n
<1>. QED BY <1>1, <1>2

\* mark_requires_attention keeps the stage the job would have gone on at.
LEMMA MarkRequiresAttentionOK ==
  ASSUME NEW k, NEW j, JobOK(k, j), CanMarkRequiresAttention(j),
         NEW kind \in {"archive_conflict", "other"},
         kind = "archive_conflict" => j.stage = "collecting"
  PROVE  JobOK(k, MarkRequiresAttention(j, kind))
<1> DEFINE n == MarkRequiresAttention(j, kind)
           at == IF j.stage = "retry_wait" THEN j.retryStage ELSE j.stage
<1>1. j \in Job /\ at \in ExecutableStages BY DEF JobOK, CanMarkRequiresAttention
<1>2. n \in Job BY <1>1 DEF MarkRequiresAttention
<1>3. /\ n.stage = "requires_attention" /\ n.retryStage = at /\ n.errorKind = kind
      /\ n.run = j.run /\ n.marker = j.marker /\ n.failures = j.failures
      /\ n.plan = j.plan /\ n.archived = j.archived /\ n.errors = j.errors
      /\ n.bound = j.bound /\ n.clean = j.clean /\ n.requests = j.requests
      /\ n.manifest = j.manifest /\ n.report = j.report
  BY <1>1 DEF MarkRequiresAttention
<1>4. EffectiveStage(j) = at BY DEF EffectiveStage, CanMarkRequiresAttention
<1> HIDE DEF n, at
<1>5. EffectiveStage(n) = at BY <1>1, <1>3 DEF EffectiveStage, ResumeStage
<1>6. kind = "archive_conflict" => at = "collecting" BY DEF at
<1>7. ResumePointOK(n) BY <1>3, <1>5, <1>6 DEF ResumePointOK
<1>8. EvidenceOK(n) /\ FailuresOK(k, n) /\ ReportOK(n)
  BY <1>3, <1>4, <1>5, SameEvidence
<1>9. JobOK(k, n) BY <1>2, <1>7, <1>8 DEF JobOK
<1>. QED BY <1>9 DEF n

\* The operator's retry resumes exactly there.
LEMMA RetryAttentionJobOK ==
  ASSUME NEW k, NEW j, JobOK(k, j), CanRetryAttentionJob(j)
  PROVE  /\ JobOK(k, RetryAttentionJob(j))
         /\ EffectiveStage(RetryAttentionJob(j)) = EffectiveStage(j)
<1> DEFINE n == RetryAttentionJob(j)
<1>1. j \in Job /\ j.stage = "requires_attention" /\ ResumeStage(j) \in ExecutableStages
  BY DEF JobOK, CanRetryAttentionJob
<1>2. n \in Job BY <1>1 DEF RetryAttentionJob
<1>3. /\ n.stage = ResumeStage(j) /\ n.retryStage = "none"
      /\ n.run = j.run /\ n.marker = j.marker /\ n.failures = j.failures
      /\ n.plan = j.plan /\ n.archived = j.archived /\ n.errors = j.errors
      /\ n.bound = j.bound /\ n.clean = j.clean /\ n.requests = j.requests
      /\ n.manifest = j.manifest /\ n.report = j.report
  BY <1>1 DEF RetryAttentionJob
<1> HIDE DEF n
<1>4. EffectiveStage(n) = EffectiveStage(j) BY <1>1, <1>3 DEF EffectiveStage
<1>5. ResumePointOK(n) BY <1>1, <1>3 DEF ResumePointOK
<1>6. EvidenceOK(n) /\ FailuresOK(k, n) /\ ReportOK(n) BY <1>3, <1>4, SameEvidence
<1>7. JobOK(k, n) BY <1>2, <1>5, <1>6 DEF JobOK
<1>. QED BY <1>4, <1>7 DEF n

-----------------------------------------------------------------------------
(* Whatever job an older version left behind is well formed, too.          *)

\* One in the middle of its collection.
LEMMA LegacyCollectingOK ==
  ASSUME NEW k \in LegacyKeys, NEW plan \in SUBSET Files, NEW errors \in SUBSET plan
  PROVE  JobOK(k, LegacyJob(plan, errors))
<1> DEFINE j == LegacyJob(plan, errors)
<1>1. j \in Job BY DEF LegacyJob, NoJob, NoReport
<1>2. /\ j.stage = "collecting" /\ j.retryStage = "none" /\ j.run
      /\ j.plan = plan /\ j.errors = errors /\ j.requests = {"start"}
      /\ j.archived = {} /\ j.bound = {} /\ j.clean = {} /\ j.manifest = {}
      /\ j.failures = {}
  BY DEF LegacyJob, NoJob
<1> HIDE DEF j
<1>3. JobOK(k, j) BY <1>1, <1>2, CollectingOK
<1>. QED BY <1>3 DEF j

\* One an archive conflict has stopped there.
LEMMA LegacyConflictOK ==
  ASSUME NEW k \in LegacyKeys, NEW plan \in SUBSET Files
  PROVE  JobOK(k, LegacyConflict(plan))
<1> DEFINE j == LegacyConflict(plan)
<1>1. j \in Job BY DEF LegacyConflict, LegacyJob, NoJob, NoReport
<1>2. /\ j.stage = "requires_attention" /\ j.retryStage = "none" /\ j.run
      /\ j.errorKind = "archive_conflict"
      /\ j.plan = plan /\ j.errors = {} /\ j.requests = {"start"}
      /\ j.archived = {} /\ j.bound = {} /\ j.clean = {} /\ j.manifest = {}
      /\ j.failures = {}
  BY DEF LegacyConflict, LegacyJob, NoJob
<1> HIDE DEF j
<1>3. EffectiveStage(j) = "collecting" BY <1>2 DEF EffectiveStage, ResumeStage
<1>4. JobOK(k, j)
  BY <1>1, <1>2, <1>3 DEF JobOK, EvidenceOK, ResumePointOK, FailuresOK, ReportOK
<1>. QED BY <1>4 DEF j

\* One whose start was rejected.
LEMMA LegacyRejectedOK == ASSUME NEW k PROVE JobOK(k, LegacyRejected)
BY DEF LegacyRejected, NewJob, NoJob, NoReport, JobOK, EvidenceOK, ResumePointOK,
       FailuresOK, ReportOK, EffectiveStage, ResumeStage

\* And these are all.
LEMMA LegacyJobsOK ==
  ASSUME NEW k \in LegacyKeys, NEW j \in LegacyJobs PROVE JobOK(k, j)
<1>1. CASE j \in UNION {{LegacyJob(plan, errors) : errors \in SUBSET plan} :
                           plan \in SUBSET Files}
  <2>1. PICK plan \in SUBSET Files : j \in {LegacyJob(plan, errors) : errors \in SUBSET plan}
    BY <1>1
  <2>2. PICK errors \in SUBSET plan : j = LegacyJob(plan, errors)
    BY <2>1
  <2>. QED BY <2>2, LegacyCollectingOK
<1>2. CASE j \in {LegacyConflict(plan) : plan \in SUBSET Files}
  BY <1>2, LegacyConflictOK
<1>3. CASE j = LegacyRejected
  BY <1>3, LegacyRejectedOK, Zenon
<1>. QED BY <1>1, <1>2, <1>3, Zenon DEF LegacyJobs
=============================================================================
