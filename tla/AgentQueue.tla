------------------------------ MODULE AgentQueue ------------------------------
(***************************************************************************)
(* The durable execution queue of the agent (AgentQueueStore, a SQLite     *)
(* database) and its operator side (AgentQueueMaintenance).                *)
(*                                                                         *)
(* Every operation of the store is one SQLite transaction under one mutex, *)
(* so each is one operator here: from the row set of a job to the row set  *)
(* the commit leaves.  CanX is the condition under which operation X does  *)
(* not throw AgentQueueError.  A job record holds the pending_jobs row of  *)
(* an execution key together with its pending_files rows (kept as the sets *)
(* of files with a given column value) and its pending_deliveries rows.    *)
(*                                                                         *)
(* Left out: timestamps, error texts, and the attempt counters with their  *)
(* next_attempt_at, which decide how long a delivery waits and never what  *)
(* it does next; the delivery_attempts log, which the agent never reads.   *)
(***************************************************************************)
EXTENDS Runs, Sequences, SequencesExt

CONSTANTS
  LegacyKeys,         \* keys whose job an older agent version left behind
  MaxPendingJobs,     \* max_pending_jobs
  ProcessedCapacity   \* processed_fingerprint_capacity_per_task

ASSUME QueueAssumption ==
  /\ LegacyKeys \subseteq Keys
  /\ MaxPendingJobs \in Nat \ {0}
  /\ ProcessedCapacity \in Nat \ {0}

VARIABLES
  jobs,       \* the pending jobs with their files and deliveries
  processed   \* processed_files per task, the oldest row first

queueVars == <<jobs, processed>>

-----------------------------------------------------------------------------
(* The schema.                                                             *)

DeliveryStages == {"start_pending", "manifest_pending", "report_pending"}
ExecutableStages == DeliveryStages \cup {"collecting", "report_building"}
Stages == ExecutableStages \cup {"retry_wait", "requires_attention"}

\* "absent" stands for a key without a pending_jobs row, "none" for NULL.
Job == [stage : Stages \cup {"absent"},
        retryStage : ExecutableStages \cup {"none"},
        run : BOOLEAN,            \* task_run_id is known
        marker : BOOLEAN,         \* file_failures_json is not NULL
        failures : SUBSET Files,  \* the list in file_failures_json
        plan : SUBSET Files,      \* pending_files
        archived : SUBSET Files,  \* ... with archive_state 'archived'
        errors : SUBSET Files,    \* ... with an error_detail
        bound : SUBSET Files,     \* ... with a raw_file_id
        clean : SUBSET Files,     \* ... with parsed_without_errors = 1
        requests : SUBSET RequestTypes,
        manifest : SUBSET Files,
        report : Reports,
        errorKind : {"none", "archive_conflict", "other"}]

NoJob == [stage |-> "absent", retryStage |-> "none", run |-> FALSE,
          marker |-> FALSE, failures |-> {}, plan |-> {}, archived |-> {},
          errors |-> {}, bound |-> {}, clean |-> {}, requests |-> {},
          manifest |-> {}, report |-> NoReport, errorKind |-> "none"]

PendingKeys == {k \in Keys : jobs[k].stage # "absent"}

-----------------------------------------------------------------------------
(* What the executor reads.                                                *)

\* A job as load_job and recover_jobs return it: a job waiting for a retry is
\* shown at the stage it will resume.
Loaded(j) == IF j.stage = "retry_wait" THEN [j EXCEPT !.stage = j.retryStage] ELSE j

CanLoad(j) == j.stage \notin {"absent", "requires_attention"}

HasCapacity == Cardinality(PendingKeys) < MaxPendingJobs

\* Mutant: a job that waits for the operator gives its files free.
InFlightExecutable(t, f) ==
  \E k \in PendingKeys :
    TaskOf[k] = t /\ f \in jobs[k].plan /\ jobs[k].stage # "requires_attention"

InFlight(t, f) == \E k \in PendingKeys : TaskOf[k] = t /\ f \in jobs[k].plan

Occupied(t, f) == f \in ToSet(processed[t]) \/ InFlight(t, f)

-----------------------------------------------------------------------------
(* One operator per operation that changes a job.                          *)

\* begin_job on a key without a job: the job and its start delivery together.
NewJob == [NoJob EXCEPT !.stage = "start_pending", !.requests = {"start"}]

CanAcceptStart(j) == j.stage = "start_pending"
AcceptStart(j) == [j EXCEPT !.stage = "collecting", !.run = TRUE]

CanDiscardStartPending(j) == j.stage = "start_pending" /\ j.plan = {}

CanSaveFilePlan(j) == j.stage # "absent" /\ j.plan = {}
SaveFilePlan(j, plan, failures) ==
  [j EXCEPT !.plan = plan, !.failures = failures, !.marker = TRUE]

SaveFileFailures(j, failures) ==
  [j EXCEPT !.failures = failures, !.marker = TRUE]

\* Mutant: the row is marked, the list is left for a later statement.
MarkFileFailedUnlisted(j, f, failures) == [j EXCEPT !.errors = @ \cup {f}]

MarkFileFailed(j, f, failures) ==
  [j EXCEPT !.errors = @ \cup {f}, !.failures = failures, !.marker = TRUE]

MarkFileArchived(j, f) == [j EXCEPT !.archived = @ \cup {f}]

CanSaveManifest(j) == j.stage = "collecting" /\ "manifest" \notin j.requests
SaveManifest(j, entries) ==
  [j EXCEPT !.stage = "manifest_pending", !.manifest = entries,
            !.requests = @ \cup {"manifest"}]

\* The raw file ids are bound by the entries of the persisted manifest, and the
\* stage moves only from manifest_pending (the row count is not looked at).
CanAcceptManifest(j) == "manifest" \in j.requests /\ j.manifest \subseteq j.plan
\* Mutant: the answered request is deleted.
AcceptManifestAndForget(j) ==
  [j EXCEPT !.bound = @ \cup j.manifest, !.requests = @ \ {"manifest"},
            !.stage = IF @ = "manifest_pending" THEN "report_building" ELSE @]

AcceptManifest(j) ==
  [j EXCEPT !.bound = @ \cup j.manifest,
            !.stage = IF @ = "manifest_pending" THEN "report_building" ELSE @]

CanSaveReport(j) == j.stage # "absent" /\ "report" \notin j.requests
SaveReport(j, report, clean) ==
  [j EXCEPT !.report = report, !.clean = clean,
            !.requests = @ \cup {"report"},
            !.stage = IF @ \in {"collecting", "report_building"}
                      THEN "report_pending" ELSE @]

CanCompleteJob(j) == j.stage = "report_pending"

\* A failed attempt of the delivery the job is waiting on.
RecordDeliveryFailure(j, retryable) ==
  IF j.stage \in DeliveryStages
  THEN [j EXCEPT !.retryStage = j.stage,
                 !.stage = IF retryable THEN "retry_wait" ELSE "requires_attention",
                 !.errorKind = "other"]
  ELSE j

ResumeDelivery(j) ==
  IF j.stage = "retry_wait"
  THEN [j EXCEPT !.stage = j.retryStage, !.retryStage = "none"]
  ELSE j

CanMarkRequiresAttention(j) ==
  \/ j.stage \in ExecutableStages
  \/ j.stage = "retry_wait" /\ j.retryStage \in ExecutableStages
\* Mutant: the stage is remembered as it stands, retry_wait included.
MarkRequiresAttentionAsIs(j, kind) ==
  [j EXCEPT !.retryStage = j.stage, !.stage = "requires_attention", !.errorKind = kind]

MarkRequiresAttention(j, kind) ==
  [j EXCEPT !.retryStage = IF j.stage = "retry_wait" THEN @ ELSE j.stage,
            !.stage = "requires_attention", !.errorKind = kind]

\* AgentQueueMaintenance::retry_attention_job.  Jobs of older versions have no
\* retry_stage; only an archive conflict says where such a job has to go on.
ResumeStage(j) ==
  IF j.retryStage = "none" /\ j.errorKind = "archive_conflict"
  THEN "collecting" ELSE j.retryStage
CanRetryAttentionJob(j) ==
  j.stage = "requires_attention" /\ ResumeStage(j) \in ExecutableStages
\* Mutant: every job is collected again.
RetryAttentionJobAfresh(j) == [j EXCEPT !.stage = "collecting", !.retryStage = "none"]

RetryAttentionJob(j) ==
  [j EXCEPT !.stage = ResumeStage(j), !.retryStage = "none"]

-----------------------------------------------------------------------------
(* The fingerprints complete_job keeps: those of the files parsed without  *)
(* error are appended unless known, then only the newest rows remain.      *)

Newest(rows) ==
  IF Len(rows) <= ProcessedCapacity THEN rows
  ELSE SubSeq(rows, Len(rows) - ProcessedCapacity + 1, Len(rows))

\* Mutant: the whole plan is kept.
AddProcessedPlan(k) ==
  LET t == TaskOf[k] IN
  \E rows \in SetToSeqs(jobs[k].plan \ ToSet(processed[t])) :
    processed' = [processed EXCEPT ![t] = Newest(@ \o rows)]

AddProcessed(k) ==
  LET t == TaskOf[k] IN
  \E rows \in SetToSeqs(jobs[k].clean \ ToSet(processed[t])) :
    processed' = [processed EXCEPT ![t] = Newest(@ \o rows)]

-----------------------------------------------------------------------------
(* Jobs an older agent version may have left in the database: one that      *)
(* failed a file without listing it, without the marker; one stopped by an  *)
(* archive conflict and one by a rejection, both without a retry_stage.     *)

LegacyJob(plan, errors) ==
  [NoJob EXCEPT !.stage = "collecting", !.run = TRUE, !.requests = {"start"},
                !.plan = plan, !.errors = errors]

LegacyConflict(plan) ==
  [LegacyJob(plan, {}) EXCEPT !.stage = "requires_attention",
                              !.errorKind = "archive_conflict"]

LegacyRejected ==
  [NewJob EXCEPT !.stage = "requires_attention", !.errorKind = "other"]

LegacyJobs ==
  {LegacyRejected} \cup {LegacyConflict(plan) : plan \in SUBSET Files}
  \cup (UNION {{LegacyJob(plan, errors) : errors \in SUBSET plan} : plan \in SUBSET Files})

QueueInit ==
  /\ \E old \in [LegacyKeys -> LegacyJobs] :
        /\ \A k, other \in LegacyKeys : k # other /\ TaskOf[k] = TaskOf[other]
              => old[k].plan \cap old[other].plan = {}
        /\ jobs = [k \in Keys |-> IF k \in LegacyKeys THEN old[k] ELSE NoJob]
  /\ processed = [t \in Tasks |-> <<>>]

QueueTypeOK ==
  /\ jobs \in [Keys -> Job]
  /\ processed \in [Tasks -> Seq(Files)]

-----------------------------------------------------------------------------
(* What a job record has to look like at each stage.                       *)

\* The stage at which the job goes on, now or after it is resumed.
EffectiveStage(j) ==
  IF j.stage = "retry_wait" THEN j.retryStage
  ELSE IF j.stage = "requires_attention" THEN ResumeStage(j)
  ELSE j.stage

\* Only a stage that waits remembers another one, and that one can be executed;
\* what an archive conflict stopped goes on where the archive is written.
ResumePointOK(j) ==
  /\ j.stage \in ExecutableStages => j.retryStage = "none"
  /\ j.stage = "retry_wait" => j.retryStage \in DeliveryStages
  /\ j.stage = "requires_attention" /\ j.errorKind = "archive_conflict"
       => EffectiveStage(j) = "collecting"

\* The requests and rows saved so far are exactly what the stage needs at which
\* the job goes on.
EvidenceOK(j) ==
  LET at == EffectiveStage(j) IN
  /\ at \in ExecutableStages => "start" \in j.requests
  /\ at = "start_pending" => /\ ~j.run /\ ~j.marker /\ j.plan = {}
                             /\ j.failures = {} /\ j.requests = {"start"}
  /\ at \in ExecutableStages \ {"start_pending"} => j.run
  /\ at \in {"start_pending", "collecting"} =>
       j.requests = {"start"} /\ j.manifest = {} /\ j.bound = {}
  /\ at \in {"manifest_pending", "report_building"} =>
       /\ j.requests = {"start", "manifest"}
       /\ j.manifest = j.plan \ j.errors /\ j.manifest \subseteq j.archived
  /\ at = "manifest_pending" => j.bound = {} /\ j.manifest # {}
  /\ at \in {"report_building", "report_pending"} => j.bound = j.manifest
  /\ at = "report_pending" => "report" \in j.requests
  /\ "report" \notin j.requests => j.clean = {}
  /\ "manifest" \notin j.requests => j.manifest = {}

\* The failure list covers every file whose row says it failed, and no planned
\* file besides.  Only a job left by an older version may lag behind, and only
\* until it is collected.
FailuresOK(k, j) ==
  /\ j.errors \subseteq j.plan /\ j.archived \subseteq j.plan
  /\ j.failures \cap j.plan \subseteq j.errors
  /\ \/ j.errors \subseteq j.failures
     \/ k \in LegacyKeys /\ EffectiveStage(j) = "collecting"

\* A saved report tells of every failure the job knows; "succeeded" means that
\* every planned file was parsed without error; and no file is both listed as
\* failed and kept as processed.
ReportOK(j) ==
  "report" \in j.requests =>
    /\ j.report.status = "succeeded" => j.report.failed = {} /\ j.clean = j.plan
    /\ j.failures \cup j.errors \subseteq j.report.failed
    /\ j.clean \cap j.report.failed = {}
    /\ j.clean \subseteq j.report.records /\ j.report.records \subseteq j.bound
=============================================================================
