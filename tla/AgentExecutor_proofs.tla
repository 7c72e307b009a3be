------------------------ MODULE AgentExecutor_proofs ------------------------
(***************************************************************************)
(* The safety of the worker thread for every set of keys, tasks and files. *)
(***************************************************************************)
EXTENDS AgentExecutor, AgentQueue_proofs, FiniteSetTheorems, SequenceTheorems

JobsOK == \A k \in Keys : JobOK(k, jobs[k])

\* The jobs in memory: the one the thread runs and those still to be recovered.
MemoryOK ==
  /\ NoJobForgotten
  /\ cur \notin backlog /\ \A k \in backlog : CanLoad(jobs[k])
  /\ pc = "down" => backlog = {}

IInv == TypeOK /\ JobsOK /\ SnapshotFresh /\ MemoryOK

-----------------------------------------------------------------------------
\* Committing a well formed job for the current key keeps all jobs well formed.
LEMMA CommitOK ==
  ASSUME TypeOK, JobsOK, cur \in Keys, NEW j, JobOK(cur, j), Commit(j)
  PROVE  /\ jobs' \in [Keys -> Job] /\ JobsOK'
         /\ jobs'[cur] = j
         /\ \A k \in Keys \ {cur} : jobs'[k] = jobs[k]
BY DEF TypeOK, QueueTypeOK, JobsOK, JobOK, Commit

LEMMA NoJobType == NoJob \in Job
BY NoJobOK DEF JobOK

\* While the thread has a job that can be loaded, that is the one in cur.
LEMMA CurrentJob ==
  ASSUME IInv, pc \notin {"down", "idle"}
  PROVE  /\ cur \in Keys /\ jobs[cur] \in Job /\ JobOK(cur, jobs[cur])
         /\ pc \in PcValues \ {"begin", "load"} => CanLoad(jobs[cur])
BY DEF IInv, TypeOK, QueueTypeOK, SnapshotFresh, JobsOK, PcValues

\* The process ends: what matters is only that the queue is well formed.
LEMMA EndProcessOK ==
  ASSUME EndProcess
  PROVE  /\ SnapshotFresh' /\ MemoryOK'
         /\ pc' \in PcValues /\ cur' \in Keys \cup {NoKey} /\ snap' \in Job
         /\ todo' \in SUBSET Files /\ packed' \in SUBSET Files
         /\ fails' \in SUBSET Files /\ backlog' \in SUBSET Keys
BY NoJobType
   DEF EndProcess, SnapshotFresh, MemoryOK, NoJobForgotten, PcValues

\* The thread leaves a job that cannot be loaded any more.
LEMMA LeaveJobOK ==
  ASSUME IInv, pc \notin {"down", "idle"}, LeaveJob, ~CanLoad(jobs'[cur]),
         \A k \in Keys \ {cur} : jobs'[k] = jobs[k]
  PROVE  /\ SnapshotFresh' /\ MemoryOK'
         /\ pc' \in PcValues /\ cur' \in Keys \cup {NoKey} /\ snap' \in Job
         /\ todo' \in SUBSET Files /\ packed' \in SUBSET Files
         /\ fails' \in SUBSET Files /\ backlog' \in SUBSET Keys
<1>1. SnapshotFresh' BY DEF LeaveJob, SnapshotFresh
<1>2. NoKey \notin backlog /\ backlog \in SUBSET Keys
  BY ExecutorAssumption DEF IInv, TypeOK
<1>3. MemoryOK' BY <1>2 DEF IInv, LeaveJob, MemoryOK, NoJobForgotten
<1>. QED BY <1>1, <1>2, <1>3, NoJobType DEF LeaveJob, PcValues

\* The thread commits a job that can be loaded and goes on with it.
LEMMA StayOK ==
  ASSUME IInv, pc \notin {"down", "idle"}, NEW place \in PcValues \ {"down", "idle"},
         GoTo(place), CanLoad(jobs'[cur]),
         \A k \in Keys \ {cur} : jobs'[k] = jobs[k]
  PROVE  /\ MemoryOK' /\ pc' \in PcValues /\ cur' \in Keys \cup {NoKey}
         /\ backlog' \in SUBSET Keys
<1>1. cur \in Keys BY CurrentJob
<1>2. MemoryOK' BY <1>1 DEF IInv, TypeOK, GoTo, MemoryOK, NoJobForgotten, PcValues
<1>. QED BY <1>1, <1>2 DEF IInv, TypeOK, GoTo

\* Commit, reload, look at the stage.
LEMMA CommitAndReloadOK ==
  ASSUME IInv, pc \notin {"down", "idle"},
         NEW j, JobOK(cur, j), CanLoad(j), CommitAndReload(j)
  PROVE  /\ jobs' \in [Keys -> Job] /\ JobsOK' /\ SnapshotFresh' /\ MemoryOK'
         /\ pc' \in PcValues /\ cur' \in Keys \cup {NoKey} /\ snap' \in Job
         /\ backlog' \in SUBSET Keys
<1>1. cur \in Keys BY CurrentJob
<1>2. /\ jobs' \in [Keys -> Job] /\ JobsOK' /\ jobs'[cur] = j
      /\ \A k \in Keys \ {cur} : jobs'[k] = jobs[k]
  BY <1>1, CommitOK DEF IInv, CommitAndReload
<1>3. MemoryOK' /\ pc' \in PcValues /\ cur' \in Keys \cup {NoKey} /\ backlog' \in SUBSET Keys
  BY <1>2, StayOK DEF CommitAndReload, PcValues
<1>4. SnapshotFresh'
  BY <1>1, <1>2, ExecutorAssumption DEF CommitAndReload, GoTo, SnapshotFresh
<1>5. snap' \in Job BY LoadedOK DEF CommitAndReload
<1>. QED BY <1>2, <1>3, <1>4, <1>5

-----------------------------------------------------------------------------
(* One lemma per action.                                                   *)

LEMMA ExitStep == ASSUME IInv, Exit PROVE IInv'
<1>1. JobsOK' BY DEF IInv, JobsOK, Exit, queueVars
<1>2. TypeOK'
  BY EndProcessOK, ExecutorAssumption
     DEF IInv, TypeOK, QueueTypeOK, Exit, queueVars, world
<1>. QED BY <1>1, <1>2, EndProcessOK DEF IInv, Exit

LEMMA StartStep == ASSUME IInv, Start PROVE IInv'
<1>1. JobsOK' BY DEF IInv, JobsOK, Start, queueVars
<1>2. TypeOK'
  BY DEF IInv, TypeOK, QueueTypeOK, Start, queueVars, world, memory, PcValues
<1>3. SnapshotFresh' BY DEF IInv, SnapshotFresh, Start, memory, queueVars
<1>4. cur = NoKey BY DEF IInv, SnapshotFresh, Start
<1>5. MemoryOK'
  BY <1>4, ExecutorAssumption DEF Start, MemoryOK, NoJobForgotten, memory, queueVars
<1>. QED BY <1>1, <1>2, <1>3, <1>5 DEF IInv

LEMMA RecoverStep ==
  ASSUME IInv, NEW k \in Keys, RecoverJob(k) PROVE IInv'
<1>1. JobsOK' BY DEF IInv, JobsOK, RecoverJob, queueVars
<1>2. CanLoad(jobs[k]) BY DEF IInv, MemoryOK, RecoverJob
<1>3. Loaded(jobs[k]) \in Job BY <1>2, LoadedOK DEF IInv, JobsOK
<1>4. TypeOK'
  BY <1>3 DEF IInv, TypeOK, QueueTypeOK, RecoverJob, queueVars, world, PcValues
<1>5. SnapshotFresh'
  BY <1>2, ExecutorAssumption DEF IInv, SnapshotFresh, RecoverJob, queueVars
<1>6. cur = NoKey BY DEF IInv, SnapshotFresh, RecoverJob
<1>7. MemoryOK'
  BY <1>6, ExecutorAssumption DEF IInv, RecoverJob, MemoryOK, NoJobForgotten, queueVars
<1>. QED BY <1>1, <1>4, <1>5, <1>7 DEF IInv
LEMMA DispatchScheduledStep ==
  ASSUME IInv, NEW k \in Keys, DispatchScheduled(k) PROVE IInv'
<1>1. JobsOK' BY DEF IInv, JobsOK, DispatchScheduled, queueVars
<1>2. TypeOK'
  BY DEF IInv, TypeOK, QueueTypeOK, DispatchScheduled, queueVars, world, PcValues
<1>3. SnapshotFresh'
  BY ExecutorAssumption DEF IInv, SnapshotFresh, DispatchScheduled, queueVars
<1>4. cur = NoKey BY DEF IInv, SnapshotFresh, DispatchScheduled
<1>5. MemoryOK'
  BY <1>4, ExecutorAssumption
     DEF IInv, DispatchScheduled, MemoryOK, NoJobForgotten, queueVars
<1>. QED BY <1>1, <1>2, <1>3, <1>5 DEF IInv

LEMMA DispatchManualStep ==
  ASSUME IInv, NEW k \in Keys, DispatchManual(k) PROVE IInv'
<1>1. JobsOK' BY DEF IInv, JobsOK, DispatchManual, queueVars
<1>2. TypeOK'
  BY DEF IInv, TypeOK, QueueTypeOK, DispatchManual, queueVars, world, PcValues
<1>3. SnapshotFresh'
  BY ExecutorAssumption DEF IInv, SnapshotFresh, DispatchManual, queueVars
<1>4. cur = NoKey BY DEF IInv, SnapshotFresh, DispatchManual
<1>5. MemoryOK'
  BY <1>4, ExecutorAssumption
     DEF IInv, DispatchManual, MemoryOK, NoJobForgotten, queueVars
<1>. QED BY <1>1, <1>2, <1>3, <1>5 DEF IInv

LEMMA BeginJobStep == ASSUME IInv, BeginJob PROVE IInv'
<1>1. cur \in Keys BY CurrentJob DEF BeginJob
<1>2. /\ jobs' \in [Keys -> Job] /\ JobsOK'
      /\ \A k \in Keys \ {cur} : jobs'[k] = jobs[k]
  <2>1. CASE cur \in PendingKeys
    BY <2>1 DEF BeginJob, IInv, TypeOK, QueueTypeOK, JobsOK
  <2>2. CASE cur \notin PendingKeys
    BY <1>1, <2>2, CommitOK, NewJobOK DEF BeginJob, IInv
  <2>. QED BY <2>1, <2>2
<1>3. TypeOK'
  BY <1>2 DEF IInv, TypeOK, QueueTypeOK, BeginJob, GoTo, world, PcValues
<1>4. SnapshotFresh'
  BY <1>1, ExecutorAssumption DEF BeginJob, GoTo, SnapshotFresh
<1>5. MemoryOK'
  BY <1>1, <1>2 DEF IInv, TypeOK, BeginJob, GoTo, MemoryOK, NoJobForgotten
<1>. QED BY <1>2, <1>3, <1>4, <1>5 DEF IInv

LEMMA LoadJobStep == ASSUME IInv, LoadJob PROVE IInv'
<1>1. cur \in Keys /\ JobOK(cur, jobs[cur]) /\ CanLoad(jobs[cur])
  BY CurrentJob DEF LoadJob
<1>2. Loaded(jobs[cur]) \in Job BY <1>1, LoadedOK
<1>3. JobsOK' BY DEF IInv, JobsOK, LoadJob, queueVars
<1>4. TypeOK'
  BY <1>2 DEF IInv, TypeOK, QueueTypeOK, LoadJob, GoTo, queueVars, world, PcValues
<1>5. SnapshotFresh'
  BY <1>1, ExecutorAssumption DEF LoadJob, GoTo, SnapshotFresh, queueVars
<1>6. MemoryOK' BY DEF IInv, LoadJob, GoTo, MemoryOK, NoJobForgotten, queueVars
<1>. QED BY <1>3, <1>4, <1>5, <1>6 DEF IInv

LEMMA IdleStep ==
  ASSUME IInv, NothingDue \/ UNCHANGED agentVars PROVE IInv'
BY DEF IInv, TypeOK, QueueTypeOK, JobsOK, SnapshotFresh, MemoryOK, NoJobForgotten,
       PendingKeys, NothingDue, agentVars

LEMMA AbandonOversizedStep == ASSUME IInv, AbandonOversized PROVE IInv'
<1> DEFINE j == MarkRequiresAttention(jobs[cur], "other")
<1>1. pc \notin {"down", "idle"} BY DEF AbandonOversized, WantsDelivery
<1>2. cur \in Keys /\ JobOK(cur, j)
  BY <1>1, CurrentJob, MarkRequiresAttentionOK DEF AbandonOversized
<1>3. /\ jobs' \in [Keys -> Job] /\ JobsOK' /\ jobs'[cur] = j
      /\ \A k \in Keys \ {cur} : jobs'[k] = jobs[k]
  BY <1>2, CommitOK DEF AbandonOversized, IInv
<1>4. ~CanLoad(j)
  BY <1>1, CurrentJob DEF CanLoad, MarkRequiresAttention, Job
<1>5. TypeOK'
  BY <1>1, <1>3, <1>4, LeaveJobOK
     DEF AbandonOversized, LeaveJob, IInv, TypeOK, QueueTypeOK, world
<1>6. SnapshotFresh' /\ MemoryOK' BY <1>1, <1>3, <1>4, LeaveJobOK DEF AbandonOversized
<1>. QED BY <1>3, <1>5, <1>6 DEF IInv

LEMMA BeginDeliveryStep == ASSUME IInv, BeginDelivery PROVE IInv'
<1>1. /\ pc = "run" /\ cur \in Keys /\ jobs[cur] \in Job /\ CanLoad(jobs[cur])
      /\ snap = Loaded(jobs[cur]) /\ snap.stage \in DeliveryStages
  BY CurrentJob DEF BeginDelivery, WantsDelivery, IInv, SnapshotFresh, PcValues
<1>2. JobsOK' BY DEF IInv, JobsOK, BeginDelivery, queueVars
<1>3. TypeOK'
  BY DEF IInv, TypeOK, QueueTypeOK, BeginDelivery, GoTo, queueVars, world, PcValues
<1>4. SnapshotFresh'
  BY <1>1, ExecutorAssumption
     DEF BeginDelivery, GoTo, SnapshotFresh, queueVars, Loaded, Job
<1>5. MemoryOK' BY <1>1 DEF IInv, BeginDelivery, GoTo, MemoryOK, NoJobForgotten, queueVars
<1>. QED BY <1>2, <1>3, <1>4, <1>5 DEF IInv

LEMMA RetryDeliveryStep == ASSUME IInv, RetryDelivery PROVE IInv'
<1> DEFINE j == ResumeDelivery(jobs[cur])
<1>1. /\ pc = "backoff" /\ cur \in Keys /\ jobs[cur] \in Job /\ JobOK(cur, jobs[cur])
      /\ jobs[cur].stage = "retry_wait" /\ snap.stage = jobs[cur].retryStage
  BY CurrentJob DEF RetryDelivery, IInv, SnapshotFresh
<1>2. /\ jobs' \in [Keys -> Job] /\ JobsOK' /\ jobs'[cur] = j
      /\ \A k \in Keys \ {cur} : jobs'[k] = jobs[k]
  BY <1>1, ResumeDeliveryOK, CommitOK DEF RetryDelivery, IInv
<1>3. j.stage = snap.stage /\ j.stage \in DeliveryStages /\ CanLoad(j)
  BY <1>1 DEF ResumeDelivery, Job, JobOK, ResumePointOK, DeliveryStages, CanLoad
<1>4. MemoryOK' /\ pc' \in PcValues /\ cur' \in Keys \cup {NoKey} /\ backlog' \in SUBSET Keys
  BY <1>1, <1>2, <1>3, StayOK DEF RetryDelivery, PcValues
<1>5. TypeOK'
  BY <1>2, <1>4 DEF RetryDelivery, GoTo, IInv, TypeOK, QueueTypeOK, world
<1>6. SnapshotFresh'
  BY <1>1, <1>2, <1>3, ExecutorAssumption DEF RetryDelivery, GoTo, SnapshotFresh
<1>. QED BY <1>2, <1>4, <1>5, <1>6 DEF IInv

\* What the thread knows while a request is out.
LEMMA CallOut ==
  ASSUME IInv, pc = "call"
  PROVE  /\ cur \in Keys /\ jobs[cur] \in Job /\ JobOK(cur, jobs[cur])
         /\ snap.stage = jobs[cur].stage /\ jobs[cur].stage \in DeliveryStages
         /\ jobs[cur].retryStage = "none"
BY CurrentJob DEF IInv, SnapshotFresh, JobOK, ResumePointOK, ExecutableStages

LEMMA AttemptFailsStep == ASSUME IInv, AttemptFails PROVE IInv'
<1> DEFINE j == RecordDeliveryFailure(jobs[cur], TRUE)
<1>1. pc = "call" /\ cur \in Keys /\ JobOK(cur, j)
  BY CallOut, RecordDeliveryFailureOK DEF AttemptFails
<1>2. /\ jobs' \in [Keys -> Job] /\ JobsOK' /\ jobs'[cur] = j
      /\ \A k \in Keys \ {cur} : jobs'[k] = jobs[k]
  BY <1>1, CommitOK DEF AttemptFails, IInv
<1>3. j.stage = "retry_wait" /\ j.retryStage = snap.stage /\ CanLoad(j)
  BY <1>1, CallOut DEF RecordDeliveryFailure, Job, CanLoad, DeliveryStages
<1>4. MemoryOK' /\ pc' \in PcValues /\ cur' \in Keys \cup {NoKey} /\ backlog' \in SUBSET Keys
  BY <1>1, <1>2, <1>3, StayOK DEF AttemptFails, PcValues
<1>5. TypeOK'
  BY <1>2, <1>4 DEF AttemptFails, GoTo, IInv, TypeOK, QueueTypeOK, world
<1>6. SnapshotFresh'
  BY <1>1, <1>2, <1>3, ExecutorAssumption DEF AttemptFails, GoTo, SnapshotFresh
<1>. QED BY <1>2, <1>4, <1>5, <1>6 DEF IInv

LEMMA AttemptUnauthorizedStep == ASSUME IInv, AttemptUnauthorized PROVE IInv'
<1> DEFINE j == RecordDeliveryFailure(jobs[cur], TRUE)
<1>1. cur \in Keys /\ JobOK(cur, j)
  BY CallOut, RecordDeliveryFailureOK DEF AttemptUnauthorized
<1>2. jobs' \in [Keys -> Job] /\ JobsOK'
  BY <1>1, CommitOK DEF AttemptUnauthorized, IInv
<1>3. TypeOK'
  BY <1>2, EndProcessOK, ExecutorAssumption
     DEF AttemptUnauthorized, IInv, TypeOK, QueueTypeOK, world
<1>. QED BY <1>2, <1>3, EndProcessOK DEF AttemptUnauthorized, IInv

LEMMA AttemptRejectedStep == ASSUME IInv, AttemptRejected PROVE IInv'
<1> DEFINE j == RecordDeliveryFailure(jobs[cur], FALSE)
<1>1. pc = "call" /\ cur \in Keys /\ JobOK(cur, j)
  BY CallOut, RecordDeliveryFailureOK DEF AttemptRejected
<1>2. /\ jobs' \in [Keys -> Job] /\ JobsOK' /\ jobs'[cur] = j
      /\ \A k \in Keys \ {cur} : jobs'[k] = jobs[k]
  BY <1>1, CommitOK DEF AttemptRejected, IInv
<1>3. ~CanLoad(j)
  BY <1>1, CallOut DEF RecordDeliveryFailure, Job, CanLoad
<1>4. TypeOK'
  BY <1>1, <1>2, <1>3, LeaveJobOK
     DEF AttemptRejected, LeaveJob, IInv, TypeOK, QueueTypeOK, world
<1>5. SnapshotFresh' /\ MemoryOK' BY <1>1, <1>2, <1>3, LeaveJobOK DEF AttemptRejected
<1>. QED BY <1>2, <1>4, <1>5 DEF IInv

LEMMA StartAnsweredStep == ASSUME IInv, StartAnswered PROVE IInv'
<1> DEFINE j == AcceptStart(jobs[cur])
<1>1. pc = "call" /\ JobOK(cur, j) BY CallOut, AcceptStartOK DEF StartAnswered
<1>2. CanLoad(j) BY CallOut, <1>1 DEF AcceptStart, Job, CanLoad
<1>3. /\ jobs' \in [Keys -> Job] /\ JobsOK' /\ SnapshotFresh' /\ MemoryOK'
      /\ pc' \in PcValues /\ cur' \in Keys \cup {NoKey} /\ snap' \in Job
      /\ backlog' \in SUBSET Keys
  BY <1>1, <1>2, CommitAndReloadOK DEF StartAnswered
<1>4. TypeOK'
  BY <1>3 DEF StartAnswered, CommitAndReload, GoTo, IInv, TypeOK, QueueTypeOK, world
<1>. QED BY <1>3, <1>4 DEF IInv

LEMMA StartAnsweredFinishedStep == ASSUME IInv, StartAnsweredFinished PROVE IInv'
<1>1. pc = "call" /\ cur \in Keys BY CallOut DEF StartAnsweredFinished
<1>2. /\ jobs' \in [Keys -> Job] /\ JobsOK' /\ jobs'[cur] = NoJob
      /\ \A k \in Keys \ {cur} : jobs'[k] = jobs[k]
  BY <1>1, NoJobOK, CommitOK DEF StartAnsweredFinished, IInv
<1>3. ~CanLoad(NoJob) BY DEF CanLoad, NoJob
<1>4. TypeOK'
  BY <1>1, <1>2, <1>3, LeaveJobOK
     DEF StartAnsweredFinished, LeaveJob, IInv, TypeOK, QueueTypeOK, world
<1>5. SnapshotFresh' /\ MemoryOK'
  BY <1>1, <1>2, <1>3, LeaveJobOK DEF StartAnsweredFinished
<1>. QED BY <1>2, <1>4, <1>5 DEF IInv

LEMMA ManifestAnsweredStep == ASSUME IInv, ManifestAnswered PROVE IInv'
<1> DEFINE j == AcceptManifest(jobs[cur])
<1>1. pc = "call" /\ JobOK(cur, j) BY CallOut, AcceptManifestOK DEF ManifestAnswered
<1>2. CanLoad(j) BY CallOut, <1>1 DEF AcceptManifest, Job, CanLoad, DeliveryStages
<1>3. /\ jobs' \in [Keys -> Job] /\ JobsOK' /\ SnapshotFresh' /\ MemoryOK'
      /\ pc' \in PcValues /\ cur' \in Keys \cup {NoKey} /\ snap' \in Job
      /\ backlog' \in SUBSET Keys
  BY <1>1, <1>2, CommitAndReloadOK DEF ManifestAnswered
<1>4. TypeOK'
  BY <1>3 DEF ManifestAnswered, CommitAndReload, GoTo, IInv, TypeOK, QueueTypeOK, world
<1>. QED BY <1>3, <1>4 DEF IInv

\* The fingerprints kept for a task stay a sequence of files.
LEMMA AddProcessedType ==
  ASSUME TypeOK, NEW k \in Keys, jobs[k] \in Job, AddProcessed(k)
  PROVE  processed' \in [Tasks -> Seq(Files)]
<1> DEFINE t == TaskOf[k]
           new == jobs[k].clean \ ToSet(processed[t])
<1>1. t \in Tasks /\ processed \in [Tasks -> Seq(Files)]
  BY RunsAssumption DEF TypeOK, QueueTypeOK
<1>2. new \subseteq Files BY DEF Job
<1>3. Cardinality(new) \in Nat
  BY <1>2, RunsAssumption, FS_Subset, FS_CardinalityType
<1>4. PICK rows \in SetToSeqs(new) :
        processed' = [processed EXCEPT ![t] = Newest(processed[t] \o rows)]
  BY <1>1 DEF AddProcessed
<1>5. rows \in Seq(Files)
  <2>1. rows \in [1..Cardinality(new) -> new] BY DEF SetToSeqs
  <2>2. rows \in [1..Cardinality(new) -> Files] BY <1>2, <2>1
  <2>3. Seq(Files) = UNION {[1..n -> Files] : n \in Nat} BY SeqDef
  <2>4. [1..Cardinality(new) -> Files] \in {[1..n -> Files] : n \in Nat} BY <1>3
  <2> HIDE DEF new
  <2>. QED BY <2>2, <2>3, <2>4, Zenon
<1> DEFINE all == processed[t] \o rows
<1>6. all \in Seq(Files) BY <1>1, <1>5
<1>7. Newest(all) \in Seq(Files)
  <2> HIDE DEF all
  <2>1. Len(all) \in Nat BY <1>6
  <2>2. CASE Len(all) <= ProcessedCapacity BY <1>6, <2>2 DEF Newest
  <2>3. CASE ~(Len(all) <= ProcessedCapacity)
    BY <1>6, <2>1, <2>3, QueueAssumption DEF Newest
  <2>. QED BY <2>2, <2>3
<1>. QED BY <1>1, <1>4, <1>7

LEMMA ReportAnsweredStep == ASSUME IInv, ReportAnswered PROVE IInv'
<1>1. pc = "call" /\ cur \in Keys /\ jobs[cur] \in Job BY CallOut DEF ReportAnswered
<1>2. /\ jobs' \in [Keys -> Job] /\ JobsOK' /\ jobs'[cur] = NoJob
      /\ \A k \in Keys \ {cur} : jobs'[k] = jobs[k]
  BY <1>1, NoJobOK, CommitOK DEF ReportAnswered, IInv
<1>3. ~CanLoad(NoJob) BY DEF CanLoad, NoJob
<1>4. processed' \in [Tasks -> Seq(Files)]
  BY <1>1, AddProcessedType DEF ReportAnswered, IInv
<1>5. TypeOK'
  BY <1>1, <1>2, <1>3, <1>4, LeaveJobOK
     DEF ReportAnswered, LeaveJob, IInv, TypeOK, QueueTypeOK, world
<1>6. SnapshotFresh' /\ MemoryOK'
  BY <1>1, <1>2, <1>3, LeaveJobOK DEF ReportAnswered
<1>. QED BY <1>2, <1>5, <1>6 DEF IInv

\* Into the archive loop, with a complete failure list.
LEMMA EnterArchiveLoopOK ==
  ASSUME IInv, pc \notin {"down", "idle"},
         NEW j, JobOK(cur, j), j.stage = "collecting", EnterArchiveLoop(j)
  PROVE  /\ jobs' \in [Keys -> Job] /\ JobsOK' /\ SnapshotFresh' /\ MemoryOK'
         /\ pc' \in PcValues /\ cur' \in Keys \cup {NoKey} /\ snap' \in Job
         /\ todo' \in SUBSET Files /\ packed' \in SUBSET Files
         /\ fails' \in SUBSET Files /\ backlog' \in SUBSET Keys
<1> DEFINE amended == j.failures \cup j.errors
           kept == IF amended = j.failures THEN j ELSE SaveFileFailures(j, amended)
<1>1. JobOK(cur, kept) BY SaveFileFailuresOK
<1>2. kept \in Job BY <1>1 DEF JobOK
<1>3. kept.stage = "collecting" /\ kept.errors \subseteq kept.failures
  BY <1>2 DEF SaveFileFailures, JobOK, Job
<1>4. kept.bound = {}
  BY <1>1, <1>3 DEF JobOK, EvidenceOK, EffectiveStage
<1>5. /\ Commit(kept) /\ snap' = Loaded(kept) /\ todo' = kept.plan \ kept.errors
      /\ packed' = {} /\ fails' = kept.failures /\ GoTo("archive")
  BY DEF EnterArchiveLoop
<1> HIDE DEF kept
<1>6. CanLoad(kept) /\ Loaded(kept) = kept BY <1>3 DEF CanLoad, Loaded
<1>7. cur \in Keys BY CurrentJob
<1>8. /\ jobs' \in [Keys -> Job] /\ JobsOK' /\ jobs'[cur] = kept
      /\ \A k \in Keys \ {cur} : jobs'[k] = jobs[k]
  BY <1>1, <1>5, <1>7, CommitOK DEF IInv
<1>9. MemoryOK' /\ pc' \in PcValues /\ cur' \in Keys \cup {NoKey} /\ backlog' \in SUBSET Keys
  BY <1>5, <1>6, <1>8, StayOK DEF PcValues
<1>10. SnapshotFresh'
  BY <1>3, <1>4, <1>5, <1>6, <1>7, <1>8, ExecutorAssumption DEF GoTo, SnapshotFresh
<1>11. kept.plan \in SUBSET Files /\ kept.failures \in SUBSET Files
  BY <1>2 DEF Job
<1>. QED BY <1>2, <1>5, <1>6, <1>8, <1>9, <1>10, <1>11

\* What the thread knows before it collects.
LEMMA BeforeCollecting ==
  ASSUME IInv, pc = "run", snap.stage = "collecting"
  PROVE  /\ cur \in Keys /\ jobs[cur] \in Job /\ JobOK(cur, jobs[cur])
         /\ jobs[cur] = snap /\ jobs[cur].stage = "collecting"
<1>1. /\ cur \in Keys /\ jobs[cur] \in Job /\ JobOK(cur, jobs[cur])
      /\ snap = Loaded(jobs[cur])
  BY CurrentJob DEF IInv, SnapshotFresh
<1>2. jobs[cur].stage # "retry_wait"
  BY <1>1 DEF Loaded, JobOK, ResumePointOK, DeliveryStages, Job
<1>. QED BY <1>1, <1>2 DEF Loaded

LEMMA PlanFilesStep ==
  ASSUME IInv, NEW plan \in SUBSET Files, NEW unread \in SUBSET Files,
         PlanFiles(plan, unread)
  PROVE  IInv'
<1>1. pc = "run" /\ snap.stage = "collecting" /\ jobs[cur].plan = {}
  BY BeforeCollecting DEF PlanFiles, WantsPlan
<1>2. plan \cap unread = {}
  BY DEF PlanFiles, DirectorySelection, RetrySelection
<1> DEFINE j == SaveFilePlan(jobs[cur], plan, unread)
<1>3. JobOK(cur, j) BY <1>1, <1>2, BeforeCollecting, SaveFilePlanOK
<1>4. j.stage = "collecting" BY <1>1, BeforeCollecting DEF SaveFilePlan, Job
<1>5. EnterArchiveLoop(j) BY DEF PlanFiles
<1>6. TypeOK'
  BY <1>1, <1>3, <1>4, <1>5, EnterArchiveLoopOK
     DEF PlanFiles, EnterArchiveLoop, GoTo, IInv, TypeOK, QueueTypeOK, world
<1>. QED BY <1>1, <1>3, <1>4, <1>5, <1>6, EnterArchiveLoopOK DEF IInv

LEMMA ResumeArchivingStep == ASSUME IInv, ResumeArchiving PROVE IInv'
<1>1. /\ pc = "run" /\ JobOK(cur, snap) /\ snap.stage = "collecting"
      /\ EnterArchiveLoop(snap)
  BY BeforeCollecting DEF ResumeArchiving
<1>2. TypeOK'
  BY <1>1, EnterArchiveLoopOK
     DEF ResumeArchiving, EnterArchiveLoop, GoTo, IInv, TypeOK, QueueTypeOK, world
<1>. QED BY <1>1, <1>2, EnterArchiveLoopOK DEF IInv

\* What the thread knows inside the archive loop.
LEMMA InArchiveLoop ==
  ASSUME IInv, pc = "archive"
  PROVE  /\ cur \in Keys /\ jobs[cur] \in Job /\ JobOK(cur, jobs[cur])
         /\ jobs[cur].stage = "collecting" /\ jobs[cur].retryStage = "none"
         /\ todo \subseteq jobs[cur].plan /\ todo \cap jobs[cur].errors = {}
         /\ jobs[cur].errors \subseteq jobs[cur].failures /\ fails = jobs[cur].failures
<1>1. /\ cur \in Keys /\ jobs[cur] \in Job /\ JobOK(cur, jobs[cur])
      /\ jobs[cur].stage = "collecting"
      /\ todo \cup packed = jobs[cur].plan \ jobs[cur].errors
      /\ jobs[cur].errors \subseteq jobs[cur].failures /\ fails = jobs[cur].failures
  BY CurrentJob DEF IInv, SnapshotFresh
<1>2. jobs[cur].retryStage = "none"
  BY <1>1 DEF JobOK, ResumePointOK, ExecutableStages
<1>. QED BY <1>1, <1>2

LEMMA ArchiveFileStep ==
  ASSUME IInv, NEW f \in Files, ArchiveFile(f) PROVE IInv'
<1>1. cur \in Keys BY InArchiveLoop DEF ArchiveFile
<1>2. JobsOK' BY DEF IInv, JobsOK, ArchiveFile, queueVars
<1>3. TypeOK'
  BY <1>1 DEF IInv, TypeOK, QueueTypeOK, ArchiveFile, queueVars, memory
<1>4. arch[cur] \subseteq arch'[cur] BY <1>1 DEF IInv, TypeOK, ArchiveFile
<1>5. SnapshotFresh'
  BY <1>4 DEF IInv, SnapshotFresh, ArchiveFile, queueVars, memory
<1>6. MemoryOK'
  BY DEF IInv, ArchiveFile, MemoryOK, NoJobForgotten, queueVars, memory
<1>. QED BY <1>2, <1>3, <1>5, <1>6 DEF IInv

LEMMA ArchiveRecordedStep ==
  ASSUME IInv, NEW f \in Files, ArchiveRecorded(f) PROVE IInv'
<1> DEFINE j == MarkFileArchived(jobs[cur], f)
<1>1. pc = "archive" /\ f \in todo /\ JobOK(cur, j)
  BY InArchiveLoop, MarkFileArchivedOK DEF ArchiveRecorded
<1>2. /\ jobs' \in [Keys -> Job] /\ JobsOK' /\ jobs'[cur] = j
      /\ \A k \in Keys \ {cur} : jobs'[k] = jobs[k]
  BY <1>1, InArchiveLoop, CommitOK DEF ArchiveRecorded, IInv
<1>3. /\ j.stage = "collecting" /\ j.plan = jobs[cur].plan
      /\ j.errors = jobs[cur].errors /\ j.failures = jobs[cur].failures
      /\ j.archived = jobs[cur].archived \cup {f}
  BY <1>1, InArchiveLoop DEF MarkFileArchived, Job
<1>4. CanLoad(j) BY <1>3 DEF CanLoad
<1> HIDE DEF j
<1>5. MemoryOK' /\ pc' \in PcValues /\ cur' \in Keys \cup {NoKey} /\ backlog' \in SUBSET Keys
  BY <1>1, <1>2, <1>4, StayOK DEF ArchiveRecorded, PcValues
<1>6. TypeOK'
  BY <1>2, <1>5 DEF ArchiveRecorded, GoTo, IInv, TypeOK, QueueTypeOK, world
<1>7. SnapshotFresh'
  BY <1>1, <1>2, <1>3, <1>4, InArchiveLoop, ExecutorAssumption
     DEF ArchiveRecorded, GoTo, SnapshotFresh, IInv, world
<1>. QED BY <1>2, <1>5, <1>6, <1>7 DEF IInv

LEMMA ArchiveFailedStep ==
  ASSUME IInv, NEW f \in Files, ArchiveFailed(f) PROVE IInv'
<1> DEFINE j == MarkFileFailed(jobs[cur], f, fails \cup {f})
<1>1. pc = "archive" /\ f \in todo /\ JobOK(cur, j)
  BY InArchiveLoop, MarkFileFailedOK DEF ArchiveFailed
<1>2. /\ jobs' \in [Keys -> Job] /\ JobsOK' /\ jobs'[cur] = j
      /\ \A k \in Keys \ {cur} : jobs'[k] = jobs[k]
  BY <1>1, InArchiveLoop, CommitOK DEF ArchiveFailed, IInv
<1>3. /\ j.stage = "collecting" /\ j.plan = jobs[cur].plan
      /\ j.errors = jobs[cur].errors \cup {f} /\ j.failures = jobs[cur].failures \cup {f}
      /\ j.archived = jobs[cur].archived
  BY <1>1, InArchiveLoop DEF MarkFileFailed, Job
<1>4. CanLoad(j) BY <1>3 DEF CanLoad
<1> HIDE DEF j
<1>5. MemoryOK' /\ pc' \in PcValues /\ cur' \in Keys \cup {NoKey} /\ backlog' \in SUBSET Keys
  BY <1>1, <1>2, <1>4, StayOK DEF ArchiveFailed, PcValues
<1>6. TypeOK'
  BY <1>2, <1>5 DEF ArchiveFailed, GoTo, IInv, TypeOK, QueueTypeOK, world
<1>7. snap.errors # j.errors
  BY <1>1, <1>3, InArchiveLoop DEF IInv, SnapshotFresh
<1>8. SnapshotFresh'
  BY <1>1, <1>2, <1>3, <1>4, <1>7, InArchiveLoop, ExecutorAssumption
     DEF ArchiveFailed, GoTo, SnapshotFresh, IInv, world
<1>. QED BY <1>2, <1>5, <1>6, <1>8 DEF IInv

LEMMA ArchiveConflictStep ==
  ASSUME IInv, NEW f \in Files, ArchiveConflict(f) PROVE IInv'
<1> DEFINE j == MarkRequiresAttention(jobs[cur], "archive_conflict")
<1>1. pc = "archive" /\ cur \in Keys /\ JobOK(cur, j)
  BY InArchiveLoop, MarkRequiresAttentionOK DEF ArchiveConflict
<1>2. /\ jobs' \in [Keys -> Job] /\ JobsOK' /\ jobs'[cur] = j
      /\ \A k \in Keys \ {cur} : jobs'[k] = jobs[k]
  BY <1>1, CommitOK DEF ArchiveConflict, IInv
<1>3. ~CanLoad(j)
  BY <1>1, InArchiveLoop DEF CanLoad, MarkRequiresAttention, Job
<1>4. TypeOK'
  BY <1>1, <1>2, <1>3, LeaveJobOK
     DEF ArchiveConflict, LeaveJob, IInv, TypeOK, QueueTypeOK, world
<1>5. SnapshotFresh' /\ MemoryOK' BY <1>1, <1>2, <1>3, LeaveJobOK DEF ArchiveConflict
<1>. QED BY <1>2, <1>4, <1>5 DEF IInv

LEMMA ManifestSavedStep == ASSUME IInv, ManifestSaved PROVE IInv'
<1> DEFINE j == SaveManifest(jobs[cur], packed)
<1>1. pc = "archive" /\ packed = jobs[cur].plan \ jobs[cur].errors /\ packed # {}
      /\ packed \subseteq jobs[cur].archived
  BY DEF ManifestSaved, IInv, SnapshotFresh
<1>2. JobOK(cur, j)
  BY <1>1, InArchiveLoop, SaveManifestOK DEF ManifestSaved
<1>3. CanLoad(j) BY <1>1, InArchiveLoop DEF SaveManifest, Job, CanLoad
<1>4. /\ jobs' \in [Keys -> Job] /\ JobsOK' /\ SnapshotFresh' /\ MemoryOK'
      /\ pc' \in PcValues /\ cur' \in Keys \cup {NoKey} /\ snap' \in Job
      /\ backlog' \in SUBSET Keys
  BY <1>1, <1>2, <1>3, CommitAndReloadOK DEF ManifestSaved
<1>5. TypeOK'
  BY <1>4 DEF ManifestSaved, CommitAndReload, GoTo, IInv, TypeOK, QueueTypeOK, world
<1>. QED BY <1>4, <1>5 DEF IInv

LEMMA NothingArchivedStep == ASSUME IInv, NothingArchived PROVE IInv'
<1>1. /\ pc = "archive" /\ cur \in Keys /\ jobs[cur] \in Job /\ JobOK(cur, jobs[cur])
      /\ jobs[cur].stage = "collecting" /\ jobs[cur].plan = jobs[cur].errors
      /\ CanLoad(jobs[cur]) /\ Loaded(jobs[cur]) = jobs[cur]
  BY InArchiveLoop
     DEF NothingArchived, IInv, SnapshotFresh, JobOK, FailuresOK, CanLoad, Loaded
<1>2. jobs[cur].bound = {} BY <1>1 DEF JobOK, EvidenceOK, EffectiveStage
<1>3. JobsOK' BY DEF IInv, JobsOK, NothingArchived, queueVars
<1>4. TypeOK'
  BY <1>1 DEF IInv, TypeOK, QueueTypeOK, NothingArchived, GoTo, queueVars, world, PcValues
<1>5. SnapshotFresh'
  BY <1>1, <1>2, ExecutorAssumption
     DEF IInv, NothingArchived, GoTo, SnapshotFresh, queueVars
<1>6. MemoryOK'
  BY <1>1 DEF IInv, NothingArchived, GoTo, MemoryOK, NoJobForgotten, queueVars
<1>. QED BY <1>3, <1>4, <1>5, <1>6 DEF IInv

LEMMA CollectionFailsStep == ASSUME IInv, CollectionFails PROVE IInv'
<1> DEFINE report == [status |-> "failed", failed |-> jobs[cur].failures, records |-> {}]
           j == SaveReport(jobs[cur], report, {})
<1>1. /\ pc \notin {"down", "idle"} /\ jobs[cur] \in Job /\ JobOK(cur, jobs[cur])
      /\ jobs[cur].stage = "collecting"
      /\ jobs[cur].errors \subseteq jobs[cur].failures
  <2>1. CASE WantsPlan
    BY <2>1, BeforeCollecting DEF WantsPlan, JobOK, FailuresOK
  <2>2. CASE pc = "archive" BY <2>2, InArchiveLoop
  <2>. QED BY <2>1, <2>2 DEF CollectionFails
<1>2. report \in Reports BY <1>1 DEF Reports, Job
<1>3. JobOK(cur, j) BY <1>1, <1>2, SaveReportOK
<1>4. CanLoad(j) BY <1>1 DEF SaveReport, Job, CanLoad
<1>5. /\ jobs' \in [Keys -> Job] /\ JobsOK' /\ SnapshotFresh' /\ MemoryOK'
      /\ pc' \in PcValues /\ cur' \in Keys \cup {NoKey} /\ snap' \in Job
      /\ backlog' \in SUBSET Keys
  BY <1>1, <1>3, <1>4, CommitAndReloadOK DEF CollectionFails
<1>6. TypeOK'
  BY <1>5 DEF CollectionFails, CommitAndReload, GoTo, IInv, TypeOK, QueueTypeOK, world
<1>. QED BY <1>5, <1>6 DEF IInv

\* What the thread knows when it builds the report: the plan, the failed rows
\* and the failure list in its copy are those of the queue.
LEMMA BeforeReport ==
  ASSUME IInv, WantsReport
  PROVE  /\ pc \notin {"down", "idle"} /\ jobs[cur] \in Job /\ JobOK(cur, jobs[cur])
         /\ jobs[cur].stage \in {"collecting", "report_building"}
         /\ snap.plan = jobs[cur].plan /\ snap.errors = jobs[cur].errors
         /\ snap.failures = jobs[cur].failures /\ snap.bound = jobs[cur].bound
         /\ jobs[cur].errors \subseteq jobs[cur].failures
         /\ jobs[cur].bound = jobs[cur].plan \ jobs[cur].errors
<1>1. CASE pc = "build"
  <2>1. /\ jobs[cur] \in Job /\ JobOK(cur, jobs[cur]) /\ jobs[cur].stage = "collecting"
        /\ jobs[cur].plan = jobs[cur].errors
        /\ snap.plan = jobs[cur].plan /\ snap.errors = jobs[cur].errors
        /\ snap.failures = jobs[cur].failures /\ snap.bound = {}
        /\ jobs[cur].errors \subseteq jobs[cur].failures
    BY <1>1, CurrentJob DEF IInv, SnapshotFresh
  <2>2. jobs[cur].bound = {} BY <2>1 DEF JobOK, EvidenceOK, EffectiveStage
  <2>. QED BY <1>1, <2>1, <2>2
<1>2. CASE pc = "run" /\ snap.stage = "report_building"
  <2>1. /\ jobs[cur] \in Job /\ JobOK(cur, jobs[cur]) /\ snap = Loaded(jobs[cur])
    BY <1>2, CurrentJob DEF IInv, SnapshotFresh
  <2>2. jobs[cur].stage # "retry_wait"
    BY <1>2, <2>1 DEF Loaded, JobOK, ResumePointOK, DeliveryStages, Job
  <2>3. snap = jobs[cur] /\ jobs[cur].stage = "report_building" BY <1>2, <2>1, <2>2 DEF Loaded
  <2>4. EffectiveStage(jobs[cur]) = "report_building" BY <2>3 DEF EffectiveStage
  <2>5. jobs[cur].bound = jobs[cur].plan \ jobs[cur].errors
    BY <2>1, <2>4 DEF JobOK, EvidenceOK
  <2>6. jobs[cur].errors \subseteq jobs[cur].failures
    BY <2>1, <2>4 DEF JobOK, FailuresOK
  <2>. QED BY <1>2, <2>1, <2>3, <2>5, <2>6
<1>. QED BY <1>1, <1>2 DEF WantsReport

LEMMA ReportSavedStep ==
  ASSUME IInv, NEW broken \in SUBSET Files, NEW partial \in SUBSET Files,
         ReportSaved(broken, partial)
  PROVE  IInv'
<1> DEFINE failed == snap.failures \cup broken \cup partial
           clean == Parsable \ (broken \cup partial)
           report == [status |-> IF failed = {} THEN "succeeded" ELSE "failed",
                      failed |-> failed, records |-> clean \cup partial]
           j == SaveReport(jobs[cur], report, clean)
<1>1. WantsReport /\ broken \cup partial \subseteq Parsable /\ CommitAndReload(j)
  BY DEF ReportSaved
<1>2. Parsable = jobs[cur].bound
  BY <1>1, BeforeReport DEF Parsable, Job
<1>3. jobs[cur].bound \cap jobs[cur].failures = {}
  BY <1>1, BeforeReport DEF JobOK, FailuresOK, Job
<1>4. report \in Reports /\ clean \in SUBSET Files
  BY <1>1, <1>2, BeforeReport DEF Reports, Job
<1>5. report.status = "succeeded" => report.failed = {} /\ clean = jobs[cur].plan
  BY <1>1, <1>2, BeforeReport
<1>6. /\ jobs[cur].failures \cup jobs[cur].errors \subseteq report.failed
      /\ clean \cap report.failed = {}
      /\ clean \subseteq report.records /\ report.records \subseteq jobs[cur].bound
  BY <1>1, <1>2, <1>3, BeforeReport
<1> HIDE DEF report, clean
<1>7. JobOK(cur, j) BY <1>1, <1>4, <1>5, <1>6, BeforeReport, SaveReportOK
<1>8. CanLoad(j) BY <1>1, BeforeReport DEF SaveReport, Job, CanLoad
<1>9. /\ jobs' \in [Keys -> Job] /\ JobsOK' /\ SnapshotFresh' /\ MemoryOK'
      /\ pc' \in PcValues /\ cur' \in Keys \cup {NoKey} /\ snap' \in Job
      /\ backlog' \in SUBSET Keys
  BY <1>1, <1>7, <1>8, BeforeReport, CommitAndReloadOK
<1>10. TypeOK'
  BY <1>9 DEF ReportSaved, CommitAndReload, GoTo, IInv, TypeOK, QueueTypeOK, world
<1>. QED BY <1>9, <1>10 DEF IInv

LEMMA UncaughtStep == ASSUME IInv, ReportThrows \/ QueueError PROVE IInv'
<1>1. JobsOK' BY DEF IInv, JobsOK, ReportThrows, QueueError, queueVars
<1>2. EndProcess BY DEF ReportThrows, QueueError
<1>3. TypeOK'
  BY <1>2, EndProcessOK
     DEF IInv, TypeOK, QueueTypeOK, ReportThrows, QueueError, queueVars, world
<1>. QED BY <1>1, <1>2, <1>3, EndProcessOK DEF IInv

LEMMA RetryAttentionStep ==
  ASSUME IInv, NEW k \in Keys, RetryAttention(k) PROVE IInv'
<1>1. JobOK(k, RetryAttentionJob(jobs[k]))
  BY RetryAttentionJobOK DEF IInv, JobsOK, RetryAttention
<1>2. jobs' \in [Keys -> Job] /\ JobsOK'
  BY <1>1 DEF IInv, TypeOK, QueueTypeOK, JobsOK, JobOK, RetryAttention
<1>3. TypeOK' BY <1>2 DEF IInv, TypeOK, QueueTypeOK, RetryAttention, memory, world
<1>4. SnapshotFresh' BY DEF IInv, SnapshotFresh, RetryAttention, memory
<1>5. MemoryOK' BY DEF IInv, MemoryOK, NoJobForgotten, RetryAttention, memory
<1>. QED BY <1>2, <1>3, <1>4, <1>5 DEF IInv

LEMMA ArchiveAlteredStep ==
  ASSUME IInv, NEW k \in Keys, NEW f \in Files,
         SpoilArchive(k, f) \/ ClearArchive(k, f)
  PROVE  IInv'
<1>1. JobsOK' BY DEF IInv, JobsOK, SpoilArchive, ClearArchive, queueVars
<1>2. TypeOK'
  BY DEF IInv, TypeOK, QueueTypeOK, SpoilArchive, ClearArchive, queueVars, memory
<1>3. MemoryOK'
  BY DEF IInv, MemoryOK, NoJobForgotten, SpoilArchive, ClearArchive, queueVars, memory
<1>4. SnapshotFresh'
  <2>1. CASE pc # "archive"
    BY <2>1 DEF IInv, SnapshotFresh, SpoilArchive, ClearArchive, queueVars, memory
  <2>2. CASE pc = "archive"
    <3>1. cur \in Keys /\ jobs[cur].stage = "collecting" BY <2>2, InArchiveLoop
    <3>2. arch[cur] \cup spoiled[cur] \subseteq arch'[cur] \cup spoiled'[cur]
      BY <3>1 DEF IInv, TypeOK, SpoilArchive, ClearArchive
    <3>. QED
      BY <2>2, <3>2
         DEF IInv, SnapshotFresh, SpoilArchive, ClearArchive, queueVars, memory
  <2>. QED BY <2>1, <2>2
<1>. QED BY <1>1, <1>2, <1>3, <1>4 DEF IInv

-----------------------------------------------------------------------------

\* The queue may start with a job of an older version for each legacy key.
LEMMA InitOK == Init => IInv
<1> SUFFICES ASSUME Init PROVE IInv OBVIOUS
<1>1. PICK old \in [LegacyKeys -> LegacyJobs] :
        jobs = [k \in Keys |-> IF k \in LegacyKeys THEN old[k] ELSE NoJob]
  BY DEF Init, QueueInit
<1>3. JobsOK
  <2> SUFFICES ASSUME NEW k \in Keys PROVE JobOK(k, jobs[k]) BY DEF JobsOK
  <2>1. CASE k \in LegacyKeys BY <1>1, <2>1, LegacyJobsOK
  <2>2. CASE k \notin LegacyKeys BY <1>1, <2>2, NoJobOK
  <2>. QED BY <2>1, <2>2
<1>4. jobs \in [Keys -> Job]
  <2>1. \A k \in Keys : jobs[k] \in Job BY <1>3 DEF JobsOK, JobOK
  <2>. QED BY <1>1, <2>1
<1>5. TypeOK
  <2>1. processed \in [Tasks -> Seq(Files)] BY DEF Init, QueueInit
  <2>2. /\ pc \in PcValues /\ cur \in Keys \cup {NoKey} /\ snap \in Job
        /\ todo \in SUBSET Files /\ packed \in SUBSET Files
        /\ fails \in SUBSET Files /\ backlog \in SUBSET Keys
    BY NoJobType DEF Init, PcValues
  <2>3. slots \in SUBSET ScheduledKeys BY DEF Init
  <2>4. exits \in 0..MaxExits BY ExecutorAssumption DEF Init
  <2>6. queueFault \in BOOLEAN BY DEF Init
  <2>5. arch \in [Keys -> SUBSET Files] /\ spoiled \in [Keys -> SUBSET Files] BY DEF Init
  <2>. QED BY <1>4, <2>1, <2>2, <2>3, <2>4, <2>5, <2>6 DEF TypeOK, QueueTypeOK
<1>6. SnapshotFresh /\ MemoryOK
  BY DEF Init, SnapshotFresh, MemoryOK, NoJobForgotten
<1>. QED BY <1>3, <1>5, <1>6 DEF IInv

\* Every action of the thread, of the answers and of the environment.
LEMMA NextOK == IInv /\ [Next]_agentVars => IInv'
<1> SUFFICES ASSUME IInv, [Next]_agentVars PROVE IInv' OBVIOUS
<1>1. CASE ThreadStep
  BY <1>1, RecoverStep, DispatchScheduledStep, DispatchManualStep, BeginJobStep,
     LoadJobStep, AbandonOversizedStep, BeginDeliveryStep, RetryDeliveryStep,
     PlanFilesStep, CollectionFailsStep, ResumeArchivingStep, ArchiveFileStep,
     ArchiveRecordedStep, ArchiveFailedStep, ArchiveConflictStep, ManifestSavedStep,
     NothingArchivedStep, ReportSavedStep, UncaughtStep DEF ThreadStep, Dispatch, JobStep
<1>2. CASE Answer
  BY <1>2, AttemptFailsStep, AttemptUnauthorizedStep, AttemptRejectedStep,
     StartAnsweredStep, StartAnsweredFinishedStep, ManifestAnsweredStep,
     ReportAnsweredStep DEF Answer
<1>3. CASE Environment
  BY <1>3, ExitStep, StartStep, IdleStep, RetryAttentionStep, ArchiveAlteredStep
     DEF Environment
<1>4. CASE UNCHANGED agentVars BY <1>4, IdleStep
<1>. QED BY <1>1, <1>2, <1>3, <1>4 DEF Next

\* The inductive invariant holds in every state of every behaviour.
THEOREM Invariance == Spec => []IInv
<1>. QED BY InitOK, NextOK, PTL DEF Spec

\* The rows, the memory of the thread and the archive have the types of the schema.
THEOREM TypeCorrect == Spec => []TypeOK
<1>1. IInv => TypeOK BY DEF IInv
<1>. QED BY <1>1, Invariance, PTL

\* Killed anywhere, the agent finds every job with exactly what its stage needs.
THEOREM EvidenceComplete == Spec => []JobEvidence
<1>1. IInv => JobEvidence BY DEF IInv, JobsOK, JobOK, JobEvidence, PendingKeys
<1>. QED BY <1>1, Invariance, PTL

\* No failed file is missing from a report, and "succeeded" means every file.
THEOREM ReportsTellFailures == Spec => []ReportTellsFailures
<1>1. IInv => ReportTellsFailures
  BY DEF IInv, JobsOK, JobOK, ReportTellsFailures, PendingKeys
<1>. QED BY <1>1, Invariance, PTL

\* The thread never acts on a copy of a job that the queue has outdated.
THEOREM CopiesFresh == Spec => []SnapshotFresh
<1>1. IInv => SnapshotFresh BY DEF IInv
<1>. QED BY <1>1, Invariance, PTL

\* A running process knows of every job it still has to drive.
THEOREM JobsRemembered == Spec => []NoJobForgotten
<1>1. IInv => NoJobForgotten BY DEF IInv, MemoryOK
<1>. QED BY <1>1, Invariance, PTL
=============================================================================
