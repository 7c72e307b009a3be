---------------------- MODULE ReliableReporting_proofs ----------------------
(***************************************************************************)
(* The composed system takes only steps of its components, so all that      *)
(* holds of the agent for arbitrary answers and of the control plane for    *)
(* arbitrary requests holds of both together.  What relates the two sides   *)
(* needs invariants of its own: that a run begins before anything is        *)
(* collected for it (BegunInv), and that the runs, the receipts, what is    *)
(* under way and the answer on its way agree with the jobs (LinkInv).       *)
(***************************************************************************)
EXTENDS ReliableReporting, AgentSteps_proofs, ControlPlane_proofs

\* What has been sent are requests, and what is answered is an answer.
NetworkOK == sent \subseteq Requests /\ reply \in Answers \cup {"none"}

SystemInv == IInv /\ ControlInv /\ NetworkOK

-----------------------------------------------------------------------------
\* The agent's side of a step: its own step, or none.
LEMMA AgentSide == SystemNext => [Next]_agentVars
<1> SUFFICES ASSUME SystemNext PROVE Next \/ UNCHANGED agentVars OBVIOUS
<1>1. CASE AgentStep
  <2>1. AnswerTaken => Answer BY DEF AnswerTaken, Answer
  <2>. QED BY <1>1, <2>1 DEF AgentStep, Next, ThreadStep, Answer
<1>2. CASE \E k \in Keys : DispatchSlot(k) \/ DispatchCandidate(k)
  BY <1>2 DEF DispatchSlot, DispatchCandidate, Next, ThreadStep, Dispatch
<1>3. CASE \E q \in sent, answer \in Answers : RequestHandled(q, answer)
  BY <1>3 DEF RequestHandled
<1>4. CASE FetchTasks \/ FetchPending \/ PublishConfig
  BY <1>4 DEF FetchTasks, FetchPending, PublishConfig
<1>5. ASSUME NEW q \in sent, RequestLooked(q) PROVE UNCHANGED agentVars
  BY <1>5 DEF RequestLooked
<1>. QED BY <1>1, <1>2, <1>3, <1>4, <1>5 DEF SystemNext

\* The control plane's side: a request that was sent, a look, a command, a switch, or
\* nothing.
LEMMA ControlSide == NetworkOK /\ SystemNext => [ControlNext]_controlVars
<1> SUFFICES ASSUME NetworkOK, SystemNext PROVE ControlNext \/ UNCHANGED controlVars
  OBVIOUS
<1>1. CASE AgentStep BY <1>1 DEF AgentStep
<1>2. CASE \E k \in Keys : DispatchSlot(k) \/ DispatchCandidate(k)
  BY <1>2 DEF DispatchSlot, DispatchCandidate
<1>3. CASE \E q \in sent, answer \in Answers : RequestHandled(q, answer)
  BY <1>3 DEF RequestHandled, ControlNext, NetworkOK
<1>4. CASE FetchTasks \/ FetchPending \/ PublishConfig
  BY <1>4 DEF FetchTasks, FetchPending, PublishConfig
<1>5. CASE OperatorCommand BY <1>5 DEF ControlNext
<1>6. ASSUME NEW q \in sent, RequestLooked(q) PROVE ControlNext
  BY <1>6 DEF RequestLooked, ControlNext, NetworkOK
<1>7. ASSUME NEW r \in Rules, SwitchRule(r) PROVE ControlNext
  BY <1>7 DEF ControlNext
<1>. QED BY <1>1, <1>2, <1>3, <1>4, <1>5, <1>6, <1>7 DEF SystemNext

\* The request that is out is a request.
LEMMA OutgoingType == IInv /\ pc = "call" => Outgoing \in Requests
<1> SUFFICES ASSUME IInv, pc = "call" PROVE Outgoing \in Requests OBVIOUS
<1>1. cur \in Keys /\ snap \in Job /\ snap.stage \in DeliveryStages
  BY DEF IInv, TypeOK, SnapshotFresh
<1>2. snap.manifest \subseteq Files /\ snap.report \in Reports BY <1>1 DEF Job
<1>3. RequestOf[snap.stage] \in {"start", "manifest", "report"}
  BY <1>1 DEF RequestOf, DeliveryStages
<1>4. CASE RequestOf[snap.stage] = "start" BY <1>1, <1>4 DEF Outgoing, Requests
<1>5. CASE RequestOf[snap.stage] = "manifest" BY <1>1, <1>2, <1>5 DEF Outgoing, Requests
<1>6. CASE RequestOf[snap.stage] = "report" BY <1>1, <1>2, <1>6 DEF Outgoing, Requests
<1>. QED BY <1>3, <1>4, <1>5, <1>6

LEMMA NetworkStep ==
  ASSUME NetworkOK, IInv', [SystemNext]_systemVars
  PROVE  NetworkOK'
<1>1. CASE AgentStep
  <2>1. (IInv /\ pc = "call" => Outgoing \in Requests)' BY OutgoingType, PTL
  <2>. QED BY <1>1, <2>1 DEF AgentStep, Exchange, NetworkOK, Requests, Reports, NoReport
<1>2. CASE \E q \in sent, answer \in Answers : RequestHandled(q, answer)
  BY <1>2 DEF RequestHandled, NetworkOK
<1>3. CASE UNCHANGED network BY <1>3 DEF network, NetworkOK
<1>. QED
  BY <1>1, <1>2, <1>3
     DEF SystemNext, systemVars, DispatchSlot, DispatchCandidate, FetchTasks, FetchPending,
         PublishConfig, RequestLooked

-----------------------------------------------------------------------------
\* Both components keep their invariants beside each other.
LEMMA SystemInvariance == SystemSpec => []SystemInv
<1>1. SystemInit => SystemInv
  BY InitOK, ControlInitOK DEF SystemInit, SystemInv, NetworkOK
<1>2. SystemInv /\ [SystemNext]_systemVars => SystemInv'
  <2> SUFFICES ASSUME SystemInv, [SystemNext]_systemVars PROVE SystemInv' OBVIOUS
  <2>1. [Next]_agentVars BY AgentSide DEF systemVars
  <2>2. [ControlNext]_controlVars BY ControlSide DEF SystemInv, systemVars
  <2>3. IInv' BY <2>1, NextOK DEF SystemInv
  <2>4. ControlInv' BY <2>2, ControlNextOK DEF SystemInv
  <2>5. NetworkOK' BY <2>3, NetworkStep DEF SystemInv
  <2>. QED BY <2>3, <2>4, <2>5 DEF SystemInv
<1>. QED BY <1>1, <1>2, PTL DEF SystemSpec

\* The system is an implementation of the agent with arbitrary answers.
THEOREM AgentImplemented == SystemSpec => Spec
<1>1. SystemInit => Init BY DEF SystemInit
<1>2. [SystemNext]_systemVars => [Next]_agentVars BY AgentSide DEF systemVars
<1>. QED BY <1>1, <1>2, PTL DEF SystemSpec, Spec

\* The system is an implementation of the control plane with arbitrary requests.
THEOREM ControlPlaneImplemented == SystemSpec => ControlSpec
<1>1. SystemInit => ControlInit BY DEF SystemInit
<1>2. SystemInv /\ [SystemNext]_systemVars => [ControlNext]_controlVars
  BY ControlSide DEF SystemInv, systemVars
<1>. QED BY <1>1, <1>2, SystemInvariance, PTL DEF SystemSpec, ControlSpec

\* Whatever is lost, repeated or restarted, nothing is stored twice.
THEOREM DeliveredOnce == SystemSpec => []StoredOnce
BY ControlPlaneImplemented, NothingStoredTwice, PTL

-----------------------------------------------------------------------------
(* The steps of the system, as its invariants look at them.                *)

\* The run of k has begun.
Begun(k) == run[k] \notin {"none", "pending"}

\* What has been collected and sent.
Evidence == {q \in sent : q.type # "start"}

\* The agent takes a step, or nobody does: an answer it acts on has been given.
AgentMoves ==
  /\ [Next]_agentVars /\ Exchange /\ UNCHANGED controlVars
  /\ StartAnswered => reply = "running"
  /\ ManifestAnswered \/ ReportAnswered => reply = "accepted"

\* A handler looks at a run, or a quality rule is switched.
AsideMoves ==
  /\ (\E q \in sent : LookAtRun(q)) \/ (\E r \in Rules : SwitchRule(r))
  /\ UNCHANGED <<agentVars, network>>

\* While it waits for an answer the thread stays where it is.
LEMMA AtCall ==
  ASSUME [Next]_agentVars, pc = "call", pc' = "call"
  PROVE  UNCHANGED <<jobs, pc, cur, snap>>
BY AtDelivery DEF BeginDelivery, WantsDelivery, RetryDelivery, AttemptFails, GoTo

LEMMA ThreadBusy == JobStep /\ pc = "call" => pc' = "down"
BY DEF JobStep, RecoverJob, BeginJob, LoadJob, AbandonOversized, BeginDelivery,
   RetryDelivery, WantsDelivery, WantsPlan, PlanFiles, CollectionFails, ResumeArchiving,
   ArchiveFile, ArchiveRecorded, ArchiveFailed, ArchiveConflict, ManifestSaved,
   NothingArchived, WantsReport, ReportSaved, ReportThrows, QueueError, EndProcess

LEMMA SystemSteps ==
  ASSUME IInv, reply # "none" => pc = "call", [SystemNext]_systemVars
  PROVE  \/ AgentMoves
         \/ \E q \in sent, answer \in Answers : RequestHandled(q, answer)
         \/ OperatorCommand /\ UNCHANGED <<agentVars, network>>
         \/ AsideMoves
<1>1. [Next]_agentVars
  BY AgentSide DEF systemVars
<1>2. ASSUME UNCHANGED agentVars, UNCHANGED network PROVE Exchange
  BY <1>2 DEF Exchange, agentVars, network
<1>3. ASSUME UNCHANGED agentVars PROVE ~StartAnswered /\ ~ManifestAnswered /\ ~ReportAnswered
  BY <1>3 DEF agentVars, StartAnswered, ManifestAnswered, ReportAnswered, CommitAndReload, GoTo,
     LeaveJob
<1>4. CASE FetchTasks \/ FetchPending \/ PublishConfig \/ UNCHANGED systemVars
  <2>1. UNCHANGED agentVars /\ UNCHANGED network /\ UNCHANGED controlVars
    BY <1>4 DEF FetchTasks, FetchPending, PublishConfig, systemVars
  <2> QED BY <1>1, <1>2, <1>3, <2>1 DEF AgentMoves
<1>5. ASSUME NEW k \in Keys, DispatchSlot(k) \/ DispatchCandidate(k)
      PROVE  AgentMoves
  <2>1. UNCHANGED network /\ UNCHANGED controlVars /\ pc = "idle"
    BY <1>5 DEF DispatchSlot, DispatchCandidate, DispatchScheduled
  <2>2. pc' \in {"idle", "begin"}
    BY <1>5, <2>1 DEF DispatchSlot, DispatchCandidate, DispatchScheduled, DispatchManual,
       agentVars
  <2>3. Exchange
    BY <2>1, <2>2 DEF Exchange, network
  <2>4. ~StartAnswered /\ ~ManifestAnswered /\ ~ReportAnswered
    BY <2>1 DEF StartAnswered, ManifestAnswered, ReportAnswered
  <2> QED BY <1>1, <2>1, <2>3, <2>4 DEF AgentMoves
<1>6. CASE AgentStep
  <2>1. Exchange /\ UNCHANGED controlVars
    BY <1>6 DEF AgentStep
  <2>2. ASSUME StartAnswered \/ ManifestAnswered \/ ReportAnswered
        PROVE  AnswerTaken
    <3>1. pc = "call" /\ pc' \in {"run", "idle"}
      BY <2>2 DEF StartAnswered, ManifestAnswered, ReportAnswered, CommitAndReload, GoTo, LeaveJob
    <3>2. ~AttemptFails /\ ~AttemptUnauthorized /\ ~Environment
      BY <3>1 DEF AttemptFails, AttemptUnauthorized, GoTo, EndProcess, Environment, Exit, Start,
         NothingDue, RetryAttention, SpoilArchive, ClearArchive
    <3> QED BY <1>6, <3>1, <3>2, ThreadBusy DEF AgentStep
  <2>3. ASSUME StartAnswered PROVE reply = "running"
    <3>1. pc' = "run" /\ snap.stage = "start_pending"
      BY <2>3 DEF StartAnswered, CommitAndReload, GoTo
    <3>2. ~StartAnsweredFinished /\ ~ManifestAnswered /\ ~ReportAnswered /\ ~AttemptRejected
      BY <3>1 DEF StartAnsweredFinished, ManifestAnswered, ReportAnswered, AttemptRejected,
         LeaveJob
    <3> QED BY <2>2, <2>3, <3>2 DEF AnswerTaken
  <2>4. ASSUME ManifestAnswered PROVE reply = "accepted"
    <3>1. pc' = "run" /\ snap.stage = "manifest_pending"
      BY <2>4 DEF ManifestAnswered, CommitAndReload, GoTo
    <3>2. ~StartAnsweredFinished /\ ~StartAnswered /\ ~AttemptRejected
      BY <3>1 DEF StartAnsweredFinished, StartAnswered, AttemptRejected, LeaveJob
    <3> QED BY <2>2, <2>4, <3>2 DEF AnswerTaken
  <2>5. ASSUME ReportAnswered PROVE reply = "accepted"
    <3>1. pc = "call" /\ snap.stage = "report_pending" /\ Commit(NoJob)
      BY <2>5 DEF ReportAnswered
    <3>2. cur \in Keys /\ jobs \in [Keys -> Job] /\ jobs[cur].stage = "report_pending"
      BY <3>1, CurrentJob DEF IInv, TypeOK, QueueTypeOK, SnapshotFresh
    <3>3. jobs'[cur].stage = "absent"
      BY <3>1, <3>2, EmptyJobs DEF Commit
    <3>4. ~AttemptRejected
      <4> SUFFICES ASSUME AttemptRejected PROVE FALSE
        OBVIOUS
      <4>1. jobs'[cur] = RecordDeliveryFailure(jobs[cur], FALSE)
        BY <3>2 DEF AttemptRejected, Commit
      <4>2. Keeps(cur, jobs[cur], RecordDeliveryFailure(jobs[cur], FALSE))
        BY <3>2, MovesKeep
      <4> QED BY <3>2, <3>3, <4>1, <4>2 DEF Keeps
    <3>5. ~StartAnsweredFinished /\ ~StartAnswered
      BY <3>1 DEF StartAnsweredFinished, StartAnswered
    <3> QED BY <2>2, <2>5, <3>4, <3>5 DEF AnswerTaken
  <2> QED BY <1>1, <2>1, <2>3, <2>4, <2>5 DEF AgentMoves
<1>7. CASE OperatorCommand /\ UNCHANGED <<agentVars, network, config>>
  BY <1>7
<1>8. CASE \/ \E q \in sent : RequestLooked(q)
           \/ \E r \in Rules : SwitchRule(r) /\ UNCHANGED <<agentVars, network, config>>
  BY <1>8 DEF RequestLooked, AsideMoves
<1> QED BY <1>4, <1>5, <1>6, <1>7, <1>8 DEF SystemNext

-----------------------------------------------------------------------------
(* A run begins before anything is collected for it.                       *)

\* A job that has its run, what it has sent and the answer that gives it the run
\* are all of a run that has begun.
BegunOK ==
  /\ reply # "none" => pc = "call"
  /\ \A k \in PendingKeys : jobs[k].run => Begun(k)
  /\ \A q \in Evidence : Begun(q.key)
  /\ reply = "running" => Begun(cur)

\* The body of the manifest or of the report that is out is the saved one, and
\* the job has its run.
LEMMA OutgoingSaved ==
  ASSUME IInv, BodyOK, pc = "call", Outgoing.type # "start"
  PROVE  /\ cur \in PendingKeys /\ Outgoing.key = cur /\ jobs[cur].run
         /\ Outgoing.type \in jobs[cur].requests
         /\ Outgoing.type \in {"manifest", "report"}
         /\ Outgoing.type = "manifest" => Outgoing.manifest = jobs[cur].manifest
         /\ Outgoing.type = "report" => Outgoing.report = jobs[cur].report
<1>1. /\ cur \in Keys /\ JobOK(cur, jobs[cur]) /\ snap.stage = jobs[cur].stage
      /\ jobs[cur].stage \in DeliveryStages
      /\ snap.manifest = jobs[cur].manifest /\ snap.report = jobs[cur].report
  BY CurrentJob DEF IInv, SnapshotFresh, BodyOK
<1>2. snap.stage \in {"manifest_pending", "report_pending"}
  BY <1>1 DEF Outgoing, RequestOf, DeliveryStages
<1>3. EffectiveStage(jobs[cur]) = snap.stage
  BY <1>1, <1>2 DEF EffectiveStage
<1>4. RequestOf[snap.stage] = IF snap.stage = "manifest_pending" THEN "manifest" ELSE "report"
  BY <1>2 DEF RequestOf
<1>5. jobs[cur].run /\ RequestOf[snap.stage] \in jobs[cur].requests
  BY <1>1, <1>2, <1>3, <1>4 DEF JobOK, EvidenceOK, ExecutableStages
<1>6. cur \in PendingKeys
  BY <1>1 DEF PendingKeys, DeliveryStages
<1> QED BY <1>1, <1>2, <1>4, <1>5, <1>6 DEF Outgoing

\* A request is sent with the run begun; the agent changes nothing in the runs.
LEMMA BegunAgentStep ==
  ASSUME SystemInv, SystemInv', StepInv, BodyOK, BodyOK', BegunOK, AgentMoves
  PROVE  BegunOK'
<1>1. IInv /\ IInv' /\ [Next]_agentVars /\ jobs \in [Keys -> Job]
  BY DEF SystemInv, AgentMoves, IInv, TypeOK, QueueTypeOK
<1>2. run' = run /\ Exchange
  BY DEF AgentMoves, controlVars
<1>3. (reply # "none" => pc = "call")'
  BY <1>2 DEF Exchange
<1>4. ASSUME NEW k \in PendingKeys', jobs'[k].run PROVE Begun(k)'
  <2>1. k \in Keys
    BY DEF PendingKeys
  <2>2. CASE k \in PendingKeys /\ jobs[k].run
    BY <1>2, <2>2 DEF BegunOK, Begun
  <2>3. CASE k \in PendingKeys /\ ~jobs[k].run
    <3>1. jobs'[k] # NoJob
      BY <2>1, EmptyJobs DEF PendingKeys
    <3>2. AcceptManifest(jobs[k]).run = jobs[k].run
      BY <1>1, <2>1 DEF AcceptManifest
    <3>3. StartAnswered /\ k = cur
      BY <1>1, <1>4, <2>3, <3>1, <3>2, StepKeeps DEF Keeps
    <3> QED BY <1>2, <3>3 DEF AgentMoves, BegunOK, Begun
  <2>4. CASE k \notin PendingKeys
    <3>1. jobs'[k] = NewJob
      BY <1>1, <2>1, <2>4, JobAdded
    <3> QED BY <1>4, <3>1 DEF NewJob, NoJob
  <2> QED BY <2>2, <2>3, <2>4
<1>5. ASSUME NEW q \in sent', q.type # "start" PROVE Begun(q.key)'
  <2>1. CASE q \in sent
    BY <1>2, <1>5, <2>1 DEF BegunOK, Begun, Evidence
  <2>2. CASE q \notin sent
    <3>1. pc' = "call" /\ q = Outgoing'
      BY <1>2, <2>2 DEF Exchange
    <3>2. (pc = "call" /\ Outgoing.type # "start" =>
             cur \in PendingKeys /\ Outgoing.key = cur /\ jobs[cur].run)'
      BY <1>1, OutgoingSaved, PTL
    <3> QED BY <1>4, <1>5, <3>1, <3>2
  <2> QED BY <2>1, <2>2
<1>6. ASSUME reply' = "running" PROVE Begun(cur)'
  <2>1. pc' = "call" /\ reply = "running" /\ pc = "call"
    BY <1>2, <1>6 DEF Exchange, BegunOK
  <2>2. cur' = cur
    BY <1>1, <2>1, AtCall
  <2> QED BY <1>2, <2>1, <2>2 DEF BegunOK, Begun
<1> QED BY <1>3, <1>4, <1>5, <1>6 DEF BegunOK, Evidence

\* The answer "running" is given of a run that has begun.
LEMMA BegunHandledStep ==
  ASSUME SystemInv, BegunOK, NEW q \in sent, NEW answer \in Answers, RequestHandled(q, answer)
  PROVE  BegunOK'
<1>1. /\ ControlInv /\ q \in Requests /\ q.key \in Keys /\ Handle(q, answer)
      /\ UNCHANGED <<agentVars, sent>> /\ run \in [Keys -> RunStatus]
  BY DEF SystemInv, NetworkOK, Requests, RequestHandled, ControlInv, ControlTypeOK
<1>2. \A k \in Keys : Begun(k) => Begun(k)'
  BY <1>1, RunsGoOn DEF ControlNext, Begun
<1>3. UNCHANGED <<jobs, pc, cur, snap, PendingKeys, Evidence>>
  BY <1>1 DEF agentVars, PendingKeys, Evidence
<1>4. \A p \in Evidence : p.key \in Keys
  BY DEF Evidence, SystemInv, NetworkOK, Requests
<1>5. ASSUME answer = "running" PROVE Begun(q.key)'
  <2>1. StartScheduled(q.key, answer) \/ StartManual(q.key, answer)
    BY <1>1, <1>5 DEF Handle, Replayed, Refused, AcceptRawFileManifest, AcceptTaskRunReport
  <2>2. CASE StartScheduled(q.key, answer)
    <3>1. q.key \in ScheduledKeys
          /\ run' = [run EXCEPT ![q.key] = IF run[q.key] = "none" THEN "running" ELSE run[q.key]]
      BY <1>5, <2>2 DEF StartScheduled
    <3>2. run[q.key] # "pending"
      BY <1>1, <3>1 DEF ControlInv, ControlTypeOK
    <3> QED BY <1>1, <3>1, <3>2 DEF Begun
  <2>3. CASE StartManual(q.key, answer)
    BY <1>1, <1>5, <2>3 DEF StartManual, Begun, Terminal
  <2> QED BY <2>1, <2>2, <2>3
<1>6. CASE reply' = reply
  <2>1. reply = "running" => cur \in Keys
    BY CurrentJob DEF BegunOK, SystemInv
  <2> QED BY <1>2, <1>3, <1>4, <1>6, <2>1 DEF BegunOK, PendingKeys
<1>7. CASE reply' # reply
  <2>1. reply' = answer /\ pc = "call" /\ q = Outgoing
    BY <1>7 DEF RequestHandled
  <2>2. q.key = cur
    BY <2>1 DEF Outgoing
  <2> QED BY <1>2, <1>3, <1>4, <1>5, <2>1, <2>2 DEF BegunOK, PendingKeys
<1> QED BY <1>6, <1>7

LEMMA BegunCommandStep ==
  ASSUME SystemInv, BegunOK, OperatorCommand, UNCHANGED <<agentVars, network>>
  PROVE  BegunOK'
<1>1. ControlInv
  BY DEF SystemInv
<1>2. \A k \in Keys : Begun(k) => Begun(k)'
  BY <1>1, RunsGoOn DEF ControlNext, Begun
<1>3. UNCHANGED <<jobs, pc, cur, snap, PendingKeys, Evidence, reply>>
  BY DEF agentVars, network, PendingKeys, Evidence
<1>4. \A p \in Evidence : p.key \in Keys
  BY DEF Evidence, SystemInv, NetworkOK, Requests
<1>5. reply = "running" => cur \in Keys
  BY CurrentJob DEF BegunOK, SystemInv
<1> QED BY <1>2, <1>3, <1>4, <1>5 DEF BegunOK, PendingKeys

\* A look, or a rule that is switched, leaves all of it alone.
LEMMA AsideKeeps ==
  ASSUME SystemInv, AsideMoves
  PROVE  /\ UNCHANGED <<agentVars, network, run, receipts, raws, stored>>
         /\ \/ UNCHANGED looked
            \/ \E q \in Evidence : /\ run[q.key] \notin Terminal \cup {"none"}
                                  /\ looked' = looked \cup {q.key}
<1>1. ControlInv /\ sent \subseteq Requests
  BY DEF SystemInv, NetworkOK
<1>2. \/ \E q \in Requests : LookAtRun(q)
      \/ \E r \in Rules : SwitchRule(r)
  BY <1>1 DEF AsideMoves
<1>3. UNCHANGED <<agentVars, network, run, receipts, raws, stored>>
  BY <1>1, <1>2, AsideStep DEF AsideMoves
<1>4. CASE \E q \in sent : LookAtRun(q)
  BY <1>3, <1>4 DEF LookAtRun, Evidence
<1>5. CASE \E r \in Rules : SwitchRule(r)
  BY <1>3, <1>5 DEF SwitchRule
<1> QED BY <1>3, <1>4, <1>5 DEF AsideMoves

LEMMA BegunAsideStep ==
  ASSUME SystemInv, BegunOK, AsideMoves
  PROVE  BegunOK'
<1>1. UNCHANGED <<jobs, pc, cur, snap, run, PendingKeys, Evidence, reply>>
  BY AsideKeeps DEF agentVars, network, PendingKeys, Evidence
<1> QED BY <1>1 DEF BegunOK, Begun, PendingKeys

\* The handlers that have looked at a run have found it running, and it runs still:
\* what would call it off, or end it, finds it waiting or takes their look away.
LooksOK == \A k \in looked : run[k] = "running"

LEMMA LooksStep ==
  ASSUME SystemInv, BegunOK, LooksOK, [SystemNext]_systemVars
  PROVE  LooksOK'
<1>1. /\ ControlInv /\ IInv /\ run \in [Keys -> RunStatus] /\ looked \subseteq Keys
      /\ sent \subseteq Requests
  BY DEF SystemInv, NetworkOK, ControlInv, ControlTypeOK
<1>2. CASE AgentMoves
  BY <1>2 DEF AgentMoves, controlVars, LooksOK
<1>3. ASSUME NEW q \in sent, NEW answer \in Answers, RequestHandled(q, answer)
      PROVE  LooksOK'
  <2>1. q \in Requests /\ q.key \in Keys /\ Handle(q, answer)
    BY <1>1, <1>3 DEF Requests, RequestHandled
  <2>2. CASE UNCHANGED <<run, looked>>
    BY <2>2 DEF LooksOK
  <2>3. CASE run' = [run EXCEPT ![q.key] = "running"] /\ UNCHANGED looked
    BY <1>1, <2>1, <2>3 DEF LooksOK
  <2>4. CASE run' = [run EXCEPT ![q.key] = q.report.status] /\ looked' = looked \ {q.key}
    BY <1>1, <2>1, <2>4 DEF LooksOK
  <2> QED BY <1>1, <2>1, <2>2, <2>3, <2>4, HandleEffects
<1>4. CASE OperatorCommand
  BY <1>1, <1>4, CommandEffects DEF LooksOK
<1>5. CASE AsideMoves
  <2>1. CASE UNCHANGED looked
    BY <1>5, <2>1, AsideKeeps DEF LooksOK
  <2>2. CASE \E q \in Evidence : /\ run[q.key] \notin Terminal \cup {"none"}
                                /\ looked' = looked \cup {q.key}
    <3>1. PICK q \in Evidence : /\ run[q.key] \notin Terminal \cup {"none"}
                                /\ looked' = looked \cup {q.key}
      BY <2>2
    <3>2. q.key \in Keys /\ Begun(q.key)
      BY <1>1 DEF Evidence, Requests, BegunOK
    <3>3. run[q.key] = "running"
      BY <1>1, <3>1, <3>2 DEF Begun, RunStatus, Terminal
    <3>4. run' = run
      BY <1>5, AsideKeeps
    <3> QED BY <3>1, <3>3, <3>4 DEF LooksOK
  <2> QED BY <1>5, <2>1, <2>2, AsideKeeps
<1> QED BY <1>1, <1>2, <1>3, <1>4, <1>5, SystemSteps DEF BegunOK

\* What holds of the system whenever no older version has written to the queue.
BegunInv == SystemInv /\ StepInv /\ CleanOK /\ BodyOK /\ BegunOK /\ LooksOK

LEMMA BegunInit == LegacyKeys = {} /\ SystemInit => BegunInv
<1> SUFFICES ASSUME LegacyKeys = {}, SystemInit PROVE BegunInv
  OBVIOUS
<1>1. Init /\ ControlInit /\ sent = {} /\ reply = "none" /\ pc = "down"
  BY DEF SystemInit, Init
<1>2. SystemInv
  BY <1>1, InitOK, ControlInitOK DEF SystemInv, NetworkOK
<1>3. StepInv
  BY <1>1, InitOK, MarkerInit DEF StepInv
<1>4. PendingKeys = {}
  BY <1>1, SlotsInit, EmptyJobs DEF Init, QueueInit, PendingKeys
<1>5. LooksOK
  BY <1>1 DEF ControlInit, LooksOK
<1> QED BY <1>1, <1>2, <1>3, <1>4, <1>5 DEF BegunInv, CleanOK, BodyOK, BegunOK, Evidence

LEMMA BegunStep == BegunInv /\ [SystemNext]_systemVars => BegunInv'
<1> SUFFICES ASSUME BegunInv, [SystemNext]_systemVars PROVE BegunInv'
  OBVIOUS
<1>1. [Next]_agentVars /\ [ControlNext]_controlVars /\ IInv
  BY AgentSide, ControlSide DEF systemVars, BegunInv, SystemInv
<1>2. IInv' /\ ControlInv'
  BY <1>1, NextOK, ControlNextOK DEF BegunInv, SystemInv
<1>3. SystemInv'
  BY <1>2, NetworkStep DEF BegunInv, SystemInv
<1>4. StepInv' /\ CleanOK' /\ BodyOK'
  BY <1>1, MarkerStep, CleanStep, BodyStep DEF BegunInv
<1>5. BegunOK'
  <2>1. \/ AgentMoves
        \/ \E q \in sent, answer \in Answers : RequestHandled(q, answer)
        \/ OperatorCommand /\ UNCHANGED <<agentVars, network>>
        \/ AsideMoves
    BY <1>1, SystemSteps DEF BegunInv, BegunOK
  <2> QED
    BY <1>3, <1>4, <2>1, BegunAgentStep, BegunHandledStep, BegunCommandStep, BegunAsideStep
       DEF BegunInv
<1>6. LooksOK'
  BY LooksStep DEF BegunInv
<1> QED BY <1>3, <1>4, <1>5, <1>6 DEF BegunInv

LEMMA BegunInvariance == ASSUME LegacyKeys = {} PROVE SystemSpec => []BegunInv
<1>1. SystemInit => BegunInv
  BY BegunInit
<1> QED BY <1>1, BegunStep, PTL DEF SystemSpec

\* A report that is taken ends a run that was running, and its records are the
\* first of the run.
LEMMA LifecycleStep ==
  ASSUME BegunInv, [SystemNext]_systemVars
  PROVE  [Lifecycle!LifecycleNext]_(Lifecycle!lifecycleVars)
<1> SUFFICES Lifecycle!LifecycleNext \/ UNCHANGED <<run, stored>>
  BY DEF Lifecycle!lifecycleVars
<1>1. ControlInv /\ IInv /\ run \in [Keys -> RunStatus] /\ stored \in [Keys -> [Files -> Nat]]
  BY DEF BegunInv, SystemInv, ControlInv, ControlTypeOK
<1>2. CASE AgentMoves
  BY <1>2 DEF AgentMoves, controlVars
<1>3. ASSUME NEW q \in sent, NEW answer \in Answers, RequestHandled(q, answer)
      PROVE  Lifecycle!LifecycleNext \/ UNCHANGED <<run, stored>>
  <2>1. q \in Requests /\ q.key \in Keys /\ Handle(q, answer)
    BY <1>3 DEF BegunInv, SystemInv, NetworkOK, Requests, RequestHandled
  <2>2. CASE UNCHANGED <<run, stored>>
    BY <2>2
  <2>3. CASE /\ run[q.key] \in {"none", "pending"} /\ (run[q.key] = "none" => q.key \in ScheduledKeys)
             /\ run' = [run EXCEPT ![q.key] = "running"] /\ UNCHANGED stored
    <3>1. Lifecycle!BeginScheduled(q.key) \/ Lifecycle!BeginManual(q.key)
      BY <2>1, <2>3 DEF Lifecycle!BeginScheduled, Lifecycle!BeginManual, ScheduledKeys
    <3> QED BY <2>1, <3>1 DEF Lifecycle!LifecycleNext
  <2>4. CASE /\ q.type = "report" /\ Claimed(q)
             /\ run[q.key] \in Terminal => q.key \in looked
             /\ run' = [run EXCEPT ![q.key] = q.report.status]
             /\ stored' = CountedOnce(stored, q.key, q.report.records)
    <3>1. run[q.key] = "running"
      BY <1>1, <2>1, <2>4 DEF BegunInv, BegunOK, LooksOK, Begun, Evidence, RunStatus, Terminal
    <3>2. q.report.status \in {"succeeded", "failed"}
      BY <2>1, <2>4 DEF Requests, Reports
    <3>3. \A f \in Files : stored[q.key][f] = 0
      BY <1>1, <2>1, <2>4, NoReceiptNoEffect DEF Claimed
    <3>4. PICK new \in [Files -> {0, 1}] : stored' = [stored EXCEPT ![q.key] = new]
      <4> DEFINE new == [f \in Files |-> IF f \in q.report.records THEN 1 ELSE 0]
      <4>1. stored' = [stored EXCEPT ![q.key] =
                         [f \in Files |-> IF f \in q.report.records THEN stored[q.key][f] + 1
                                          ELSE stored[q.key][f]]]
        BY <2>4 DEF CountedOnce
      <4>2. [f \in Files |-> IF f \in q.report.records THEN stored[q.key][f] + 1
                             ELSE stored[q.key][f]] = new
        BY <3>3
      <4>3. new \in [Files -> {0, 1}]
        OBVIOUS
      <4> HIDE DEF new
      <4> QED BY <4>1, <4>2, <4>3
    <3>5. Lifecycle!Finish(q.key)
      BY <2>4, <3>1, <3>2, <3>4 DEF Lifecycle!Finish
    <3> QED BY <2>1, <3>5 DEF Lifecycle!LifecycleNext
  <2> QED BY <1>1, <2>1, <2>2, <2>3, <2>4, HandleEffects
<1>4. CASE OperatorCommand
  <2>1. UNCHANGED stored
    BY <1>1, <1>4, CommandEffects
  <2>2. CASE \E k \in ManualKeys : run[k] = "none" /\ run' = [run EXCEPT ![k] = "pending"]
    BY <2>1, <2>2, RunsAssumption DEF Lifecycle!Request, Lifecycle!LifecycleNext
  <2>3. CASE \E S \in SUBSET ManualKeys :
               /\ \A k \in S : run[k] = "pending"
               /\ run' = [k \in Keys |-> IF k \in S THEN "failed" ELSE run[k]]
    BY <2>1, <2>3 DEF Lifecycle!CallOff, Lifecycle!LifecycleNext
  <2> QED BY <1>1, <1>4, <2>2, <2>3, CommandEffects
<1>5. CASE AsideMoves
  BY <1>5, AsideKeeps DEF BegunInv
<1> QED BY <1>1, <1>2, <1>3, <1>4, <1>5, SystemSteps DEF BegunInv, BegunOK

\* Agent and control plane together keep the promise of RunLifecycle: whatever is
\* lost, repeated, handled late or restarted, the slots of a clock that is set
\* back included, a run begins once, ends once, and has its records with its end.
\* A queue of an older version may hold a job whose run this control plane does
\* not know; the module starts with no run at all, and the theorem without such jobs.
THEOREM SystemKeepsLifecycle == ASSUME LegacyKeys = {} PROVE SystemSpec => LifecycleKept
<1>1. SystemInit => Lifecycle!LifecycleInit
  BY DEF SystemInit, ControlInit, Lifecycle!LifecycleInit
<1>2. BegunInv /\ [SystemNext]_systemVars =>
        [Lifecycle!LifecycleNext]_(Lifecycle!lifecycleVars)
  BY LifecycleStep
<1> QED BY <1>1, <1>2, BegunInvariance, PTL DEF SystemSpec, LifecycleKept, Lifecycle!LifecycleSpec

-----------------------------------------------------------------------------
(* What the control plane has of a run is what its job has saved.           *)

\* A job works for the run of k.
Working(k) == k \in PendingKeys /\ jobs[k].run

\* A request is one the job has saved, with the body it has saved.
SavedBy(j, q) ==
  /\ q.type \in j.requests
  /\ q.type = "manifest" => q.manifest = j.manifest
  /\ q.type = "report" => q.report = j.report

\* What is under way was sent by the job that works for the run, or the run is over.
SentOK ==
  \A q \in Evidence : IF Working(q.key) THEN SavedBy(jobs[q.key], q)
                      ELSE run[q.key] \in Terminal

\* A receipt is of a request that was sent.
ReceiptsSent == \A k \in Keys : \A q \in receipts[k] : q \in Evidence /\ q.key = k

\* The run a job works for ends with its report, and the file ids it holds are there.
RowsOK ==
  \A k \in PendingKeys :
    /\ jobs[k].run /\ run[k] \in Terminal => Receipt(k, "report") # {}
    /\ \A f \in jobs[k].bound : raws[k][f] = 1

\* What the answer that is on its way says is still true.
ReplyOK ==
  /\ reply \in {"running", "finished"} => snap.stage = "start_pending"
  /\ reply = "running" => run[cur] = "running"
  /\ reply = "accepted" => Outgoing \in receipts[cur]

\* A slot whose job has not got its run has no run that is over.
Unstarted(k) ==
  k \in slots \/ (pc = "begin" /\ cur = k) \/ (k \in PendingKeys /\ ~jobs[k].run)
SlotsFresh ==
  \A k \in ScheduledKeys : Unstarted(k) =>
    run[k] \notin Terminal /\ \A q \in Evidence : q.key # k

LinkOK == SentOK /\ ReceiptsSent /\ RowsOK /\ ReplyOK /\ SlotsFresh /\ ProcessedMeansStored
LinkInv == BegunInv /\ SlotsOK /\ LinkOK

\* A job that works for a run keeps its requests and bodies, or it is gone and the
\* run is over; a job begins to work for a run that is running.
LEMMA WorkGoesOn ==
  ASSUME LinkInv, AgentMoves, NEW k \in Keys
  PROVE  /\ Working(k) /\ Working(k)' =>
              /\ jobs[k].requests \subseteq jobs'[k].requests
              /\ "manifest" \in jobs[k].requests => jobs'[k].manifest = jobs[k].manifest
              /\ "report" \in jobs[k].requests => jobs'[k].report = jobs[k].report
         /\ Working(k) /\ ~Working(k)' => run[k] \in Terminal
         /\ ~Working(k) /\ Working(k)' => run[k] = "running"
<1>1. /\ IInv /\ StepInv /\ ControlInv /\ [Next]_agentVars /\ jobs \in [Keys -> Job]
      /\ (StartAnswered => reply = "running") /\ (ReportAnswered => reply = "accepted")
  BY DEF LinkInv, BegunInv, SystemInv, IInv, TypeOK, QueueTypeOK, AgentMoves
<1>2. CASE Working(k)
  <2>1. k \in PendingKeys /\ jobs[k].run
    BY <1>2 DEF Working
  <2>2. CASE jobs'[k].stage # "absent"
    <3>1. GoesOn(jobs[k], jobs'[k])
      BY <1>1, <2>1, <2>2, JobsGoOn
    <3>2. jobs'[k].run
      <4>1. jobs'[k] # NoJob
        BY <2>2, EmptyJobs
      <4>2. AcceptStart(jobs[k]).run /\ AcceptManifest(jobs[k]).run
        BY <1>1, <2>1 DEF AcceptStart, AcceptManifest
      <4> QED BY <1>1, <2>1, <4>1, <4>2, StepKeeps DEF Keeps
    <3> QED BY <1>2, <2>2, <3>1, <3>2 DEF Working, PendingKeys, GoesOn
  <2>3. CASE jobs'[k].stage = "absent"
    <3>1. jobs[k].stage # "absent" /\ JobOK(k, jobs[k])
      BY <1>1, <2>1 DEF PendingKeys, IInv, JobsOK
    <3>2. ~Keeps(k, jobs[k], jobs'[k])
      BY <2>3, <3>1 DEF Keeps
    <3>3. CanAcceptStart(jobs[k]) => ~jobs[k].run
      BY <3>1 DEF CanAcceptStart, JobOK, EvidenceOK, EffectiveStage
    <3>4. jobs'[k] # AcceptManifest(jobs[k])
      <4>1. jobs[k] \in Job /\ AcceptManifest(jobs[k]).stage \in {jobs[k].stage, "report_building"}
        BY <1>1 DEF AcceptManifest
      <4> QED BY <2>3, <3>1, <4>1
    <3>5. StartAnswered => CanAcceptStart(jobs[cur])
      BY DEF StartAnswered
    <3>6. StartAnsweredFinished => CanDiscardStartPending(jobs[cur])
      BY DEF StartAnsweredFinished
    <3>7. CanDiscardStartPending(jobs[k]) => ~jobs[k].run
      BY <3>1 DEF CanDiscardStartPending, JobOK, EvidenceOK, EffectiveStage
    <3>8. k = cur /\ ReportAnswered
      BY <1>1, <2>1, <3>2, <3>3, <3>4, <3>5, <3>6, <3>7, StepKeeps
    <3>9. /\ Outgoing \in receipts[cur] /\ Outgoing.type = "report"
      BY <1>1, <3>8 DEF LinkInv, LinkOK, ReplyOK, ReportAnswered, Outgoing, RequestOf
    <3>10. Receipt(k, "report") # {}
      BY <3>8, <3>9 DEF Receipt
    <3>11. ~Working(k)'
      BY <2>3 DEF Working, PendingKeys
    <3> QED BY <1>1, <1>2, <3>10, <3>11, ReportedIsOver
  <2> QED BY <1>2, <2>2, <2>3
<1>3. CASE ~Working(k) /\ Working(k)'
  <2>1. k \in PendingKeys' /\ jobs'[k].run /\ jobs'[k].stage # "absent"
    BY <1>3 DEF Working, PendingKeys
  <2>2. k \in PendingKeys
    <3>1. ~NewJob.run
      BY DEF NewJob, NoJob
    <3> QED BY <1>1, <2>1, <3>1, JobAdded
  <2>3. ~jobs[k].run
    BY <1>3, <2>2 DEF Working
  <2>4. jobs'[k] # NoJob /\ ~Keeps(k, jobs[k], jobs'[k])
    BY <2>1, <2>3, EmptyJobs DEF Keeps
  <2>5. AcceptManifest(jobs[k]).run = jobs[k].run
    BY <1>1 DEF AcceptManifest
  <2>6. jobs'[k] # AcceptManifest(jobs[k])
    BY <2>1, <2>3, <2>5
  <2>7. k = cur /\ StartAnswered
    BY <1>1, <2>1, <2>2, <2>4, <2>6, StepKeeps
  <2> QED BY <1>1, <1>3, <2>7 DEF LinkInv, LinkOK, ReplyOK
<1> QED BY <1>2, <1>3

\* Nobody has sent anything for a run that has just begun.
LEMMA NothingSentYet ==
  ASSUME LinkInv, NEW k \in Keys, ~Working(k), run[k] = "running", NEW q \in Evidence
  PROVE  q.key # k
BY DEF LinkInv, LinkOK, SentOK, Terminal

-----------------------------------------------------------------------------
(* A step of the agent.                                                    *)

LEMMA OutgoingWork ==
  ASSUME IInv, BodyOK, pc = "call", Outgoing.type # "start"
  PROVE  /\ cur \in PendingKeys /\ Outgoing.key = cur /\ jobs[cur].run
         /\ SavedBy(jobs[cur], Outgoing)
BY OutgoingSaved DEF SavedBy

LEMMA SentAgentStep ==
  ASSUME LinkInv, BegunInv', AgentMoves
  PROVE  SentOK'
<1>1. run' = run /\ Exchange /\ IInv' /\ BodyOK'
  BY DEF AgentMoves, controlVars, BegunInv, SystemInv
<1> SUFFICES ASSUME NEW q \in Evidence'
             PROVE  IF Working(q.key)' THEN SavedBy(jobs'[q.key], q) ELSE run[q.key] \in Terminal
  BY <1>1 DEF SentOK, SavedBy
<1>2. q \in sent' /\ q.type # "start"
  BY DEF Evidence
<1>3. CASE q \in sent
  <2>1. q \in Evidence /\ q.key \in Keys /\ q.type \in {"manifest", "report"}
    BY <1>2, <1>3 DEF Evidence, LinkInv, BegunInv, SystemInv, NetworkOK, Requests
  <2>2. PICK k \in Keys : k = q.key
    BY <2>1
  <2>3. IF Working(k) THEN SavedBy(jobs[k], q) ELSE run[k] \in Terminal
    BY <2>1, <2>2 DEF LinkInv, LinkOK, SentOK
  <2>4. CASE Working(k)
    BY <2>1, <2>2, <2>3, <2>4, WorkGoesOn DEF SavedBy
  <2>5. CASE ~Working(k)
    BY <2>2, <2>3, <2>5, WorkGoesOn DEF Terminal
  <2> QED BY <2>4, <2>5
<1>4. CASE q \notin sent
  <2>1. pc' = "call" /\ q = Outgoing'
    BY <1>1, <1>2, <1>4 DEF Exchange
  <2>2. (pc = "call" /\ Outgoing.type # "start" =>
           /\ cur \in PendingKeys /\ Outgoing.key = cur /\ jobs[cur].run
           /\ SavedBy(jobs[cur], Outgoing))'
    BY <1>1, OutgoingWork, PTL
  <2>3. PICK k \in Keys : k = cur'
    BY <1>2, <2>1, <2>2 DEF PendingKeys
  <2>4. q.key = k /\ Working(k)' /\ SavedBy(jobs'[k], q)
    BY <1>2, <2>1, <2>2, <2>3 DEF Working, SavedBy
  <2> QED BY <2>4
<1> QED BY <1>3, <1>4

LEMMA RowsAgentStep ==
  ASSUME LinkInv, AgentMoves
  PROVE  RowsOK'
<1>1. /\ IInv /\ ControlInv /\ [Next]_agentVars /\ jobs \in [Keys -> Job]
      /\ UNCHANGED <<run, receipts, raws, stored>>
      /\ (ManifestAnswered => reply = "accepted")
  BY DEF LinkInv, BegunInv, SystemInv, IInv, TypeOK, QueueTypeOK, AgentMoves, controlVars
<1> SUFFICES ASSUME NEW k \in PendingKeys'
             PROVE  /\ jobs'[k].run /\ run[k] \in Terminal => Receipt(k, "report") # {}
                    /\ \A f \in jobs'[k].bound : raws[k][f] = 1
  BY <1>1 DEF RowsOK, Receipt
<1>2. k \in Keys /\ jobs'[k].stage # "absent"
  BY DEF PendingKeys
<1>3. jobs'[k].run /\ run[k] \in Terminal => Receipt(k, "report") # {}
  <2>1. jobs'[k].run /\ run[k] \in Terminal => Working(k)
    BY <1>2, WorkGoesOn DEF Working, Terminal
  <2> QED BY <2>1 DEF LinkInv, LinkOK, RowsOK, Working
<1>4. CASE k \notin PendingKeys
  <2>1. jobs'[k] = NewJob
    BY <1>1, <1>2, <1>4, JobAdded
  <2>2. jobs'[k].bound = {}
    BY <2>1 DEF NewJob, NoJob
  <2> QED BY <1>3, <2>2
<1>5. CASE k \in PendingKeys
  <2>1. \A f \in jobs[k].bound : raws[k][f] = 1
    BY <1>5 DEF LinkInv, LinkOK, RowsOK
  <2>2. CASE Keeps(k, jobs[k], jobs'[k])
    BY <1>3, <2>1, <2>2 DEF Keeps
  <2>3. CASE jobs'[k] = AcceptStart(jobs[k])
    BY <1>1, <1>2, <1>3, <2>1, <2>3 DEF AcceptStart
  <2>4. CASE k = cur /\ jobs'[k] = AcceptManifest(jobs[k]) /\ ManifestAnswered
    <3>1. jobs'[k].bound = jobs[k].bound \cup jobs[k].manifest
      BY <1>1, <1>2, <2>4 DEF AcceptManifest
    <3>2. Outgoing \in receipts[k] /\ Outgoing.type = "manifest" /\ pc = "call"
      BY <1>1, <2>4 DEF ManifestAnswered, LinkInv, LinkOK, ReplyOK, Outgoing, RequestOf
    <3>3. Outgoing.manifest = jobs[k].manifest
      BY <1>1, <2>4, <3>2, OutgoingSaved DEF LinkInv, BegunInv
    <3>4. jobs[k].manifest \subseteq Files
      BY <1>1, <1>2 DEF Job
    <3>5. \A f \in jobs[k].manifest : raws[k][f] = 1
      BY <1>1, <1>2, <3>2, <3>3, <3>4 DEF ControlInv, ReceiptsTellEffects, Receipt
    <3> QED BY <1>3, <2>1, <3>1, <3>5
  <2> QED BY <1>1, <1>2, <1>5, <2>2, <2>3, <2>4, StepKeeps, EmptyJobs
<1> QED BY <1>4, <1>5

LEMMA ReplyAgentStep ==
  ASSUME LinkInv, AgentMoves
  PROVE  ReplyOK'
<1>1. Exchange /\ [Next]_agentVars /\ UNCHANGED <<run, receipts>> /\ (reply # "none" => pc = "call")
  BY DEF AgentMoves, controlVars, LinkInv, BegunInv, BegunOK
<1>2. CASE pc' = "call" /\ pc = "call"
  <2>1. UNCHANGED <<jobs, pc, cur, snap, reply>>
    BY <1>1, <1>2, AtCall DEF Exchange
  <2>2. Outgoing' = Outgoing
    BY <2>1 DEF Outgoing
  <2> QED BY <1>1, <2>1, <2>2 DEF LinkInv, LinkOK, ReplyOK
<1>3. CASE ~(pc' = "call" /\ pc = "call")
  <2>1. reply' = "none"
    BY <1>1, <1>3 DEF Exchange
  <2> QED BY <2>1 DEF ReplyOK
<1> QED BY <1>2, <1>3

\* A slot that waits for its run has waited for it before.
LEMMA UnstartedStep ==
  ASSUME LinkInv, ~ReplaySlots, [Next]_agentVars, NEW k \in ScheduledKeys, Unstarted(k)'
  PROVE  Unstarted(k)
<1>1. IInv /\ jobs \in [Keys -> Job] /\ k \in Keys /\ k \notin ManualKeys
  BY DEF LinkInv, BegunInv, SystemInv, IInv, TypeOK, QueueTypeOK, ScheduledKeys
<1>2. CASE k \in slots'
  BY <1>2, SlotsOnlyLeave DEF Unstarted
<1>3. CASE pc' = "begin" /\ cur' = k
  <2>1. CASE Dispatch
    BY <1>1, <1>3, <2>1 DEF Dispatch, DispatchScheduled, DispatchManual, Unstarted
  <2>2. CASE BeginJob
    BY <1>3, <2>2 DEF BeginJob, GoTo
  <2>3. CASE UNCHANGED <<jobs, pc, cur, slots>>
    BY <1>3, <2>3 DEF Unstarted
  <2> QED BY <1>3, <2>1, <2>2, <2>3, AtBegin
<1>4. CASE k \in PendingKeys' /\ ~jobs'[k].run
  <2>1. CASE k \notin PendingKeys
    <3>1. BeginJob /\ k = cur
      BY <1>1, <1>4, <2>1, JobAdded
    <3> QED BY <3>1 DEF BeginJob, Unstarted
  <2>2. CASE k \in PendingKeys
    <3>1. jobs'[k] # NoJob
      BY <1>4, EmptyJobs DEF PendingKeys
    <3>2. AcceptStart(jobs[k]).run /\ (AcceptManifest(jobs[k]).run => jobs[k].run)
      BY <1>1 DEF AcceptStart, AcceptManifest
    <3>3. ~jobs[k].run
      <4>1. CASE Keeps(k, jobs[k], jobs'[k])
        BY <1>4, <4>1 DEF Keeps
      <4>2. CASE jobs'[k] = AcceptManifest(jobs[k])
        BY <1>1, <1>4, <4>2 DEF AcceptManifest
      <4> QED BY <1>1, <1>4, <2>2, <3>1, <3>2, <4>1, <4>2, StepKeeps
    <3> QED BY <2>2, <3>3 DEF Unstarted
  <2> QED BY <2>1, <2>2
<1> QED BY <1>2, <1>3, <1>4 DEF Unstarted

LEMMA SlotsAgentStep ==
  ASSUME LinkInv, BegunInv', SlotsOK', ~ReplaySlots, AgentMoves
  PROVE  SlotsFresh'
<1>1. run' = run /\ Exchange /\ [Next]_agentVars /\ IInv' /\ BodyOK'
  BY DEF AgentMoves, controlVars, BegunInv, SystemInv
<1> SUFFICES ASSUME NEW k \in ScheduledKeys, Unstarted(k)', NEW q \in Evidence'
             PROVE  run[k] \notin Terminal /\ q.key # k
  <2>1. ASSUME NEW k \in ScheduledKeys, Unstarted(k)' PROVE run[k] \notin Terminal
    BY <1>1, <2>1, UnstartedStep DEF LinkInv, LinkOK, SlotsFresh
  <2> QED BY <1>1, <2>1 DEF SlotsFresh
<1>2. /\ Unstarted(k) /\ run[k] \notin Terminal /\ \A p \in Evidence : p.key # k
  BY <1>1, UnstartedStep DEF LinkInv, LinkOK, SlotsFresh
<1>3. q \in sent' /\ q.type # "start"
  BY DEF Evidence
<1>4. CASE q \in sent
  BY <1>2, <1>3, <1>4 DEF Evidence
<1>5. CASE q \notin sent
  <2>1. pc' = "call" /\ q = Outgoing'
    BY <1>1, <1>3, <1>5 DEF Exchange
  <2>2. (pc = "call" /\ Outgoing.type # "start" =>
           cur \in PendingKeys /\ Outgoing.key = cur /\ jobs[cur].run)'
    BY <1>1, OutgoingSaved, PTL
  <2>3. cur' \in PendingKeys' /\ q.key = cur' /\ jobs'[cur'].run
    BY <1>3, <2>1, <2>2
  <2>4. cur' # k
    <3> SUFFICES ASSUME cur' = k PROVE FALSE
      OBVIOUS
    <3>1. k \in PendingKeys' /\ jobs'[k].run
      BY <2>3
    <3>2. k \notin slots'
      BY <3>1 DEF SlotsOK
    <3>3. pc' # "begin"
      BY <2>1
    <3>4. k \in slots' \/ (pc' = "begin" /\ cur' = k) \/ (k \in PendingKeys' /\ ~jobs'[k].run)
      BY DEF Unstarted
    <3> QED BY <3>1, <3>2, <3>3, <3>4, Zenon
  <2> QED BY <1>2, <2>3, <2>4
<1> QED BY <1>2, <1>4, <1>5

\* complete_job keeps fingerprints of files that were reported without error.
LEMMA AddProcessedFrom ==
  ASSUME TypeOK, NEW k \in Keys, jobs[k] \in Job, AddProcessed(k),
         NEW t \in Tasks, NEW f \in ToSet(processed'[t])
  PROVE  f \in ToSet(processed[t]) \/ (t = TaskOf[k] /\ f \in jobs[k].clean)
<1> DEFINE u == TaskOf[k]
           new == jobs[k].clean \ ToSet(processed[u])
<1>1. u \in Tasks /\ processed \in [Tasks -> Seq(Files)]
  BY RunsAssumption DEF TypeOK, QueueTypeOK
<1>2. new \subseteq Files
  BY DEF Job
<1>3. Cardinality(new) \in Nat
  BY <1>2, RunsAssumption, FS_Subset, FS_CardinalityType
<1>4. PICK rows \in SetToSeqs(new) :
        processed' = [processed EXCEPT ![u] = Newest(processed[u] \o rows)]
  BY <1>1 DEF AddProcessed
<1>5. rows \in Seq(new)
  <2>1. rows \in [1..Cardinality(new) -> new]
    BY DEF SetToSeqs
  <2>2. Seq(new) = UNION {[1..n -> new] : n \in Nat}
    BY SeqDef
  <2>3. [1..Cardinality(new) -> new] \in {[1..n -> new] : n \in Nat}
    BY <1>3
  <2> HIDE DEF new
  <2> QED BY <2>1, <2>2, <2>3, Zenon
<1>6. rows \in Seq(Files)
  <2> HIDE DEF new
  <2> QED BY <1>2, <1>5
<1> DEFINE all == processed[u] \o rows
<1>7. ASSUME NEW i \in 1..Len(all)
      PROVE  all[i] \in ToSet(processed[u]) \cup new
  <2>1. processed[u] \in Seq(Files)
    BY <1>1
  <2>2. CASE i <= Len(processed[u])
    <3>1. all[i] = processed[u][i] /\ i \in DOMAIN processed[u]
      BY <1>6, <2>1, <2>2
    <3> HIDE DEF all
    <3> QED BY <3>1 DEF ToSet
  <2>3. CASE ~(i <= Len(processed[u]))
    <3>1. all[i] = rows[i - Len(processed[u])] /\ i - Len(processed[u]) \in 1..Len(rows)
      BY <1>6, <2>1, <2>3
    <3> HIDE DEF all, new
    <3>2. rows[i - Len(processed[u])] \in new
      BY <1>5, <3>1
    <3> QED BY <3>1, <3>2
  <2> QED BY <2>2, <2>3
<1>8. all \in Seq(Files)
  BY <1>1, <1>6
<1>9. ASSUME NEW g \in ToSet(Newest(all)) PROVE g \in ToSet(processed[u]) \cup new
  <2> HIDE DEF all, new
  <2>1. PICK i \in DOMAIN Newest(all) : g = Newest(all)[i]
    BY DEF ToSet
  <2>2. CASE Len(all) <= ProcessedCapacity
    <3>1. Newest(all) = all /\ i \in 1..Len(all)
      BY <1>8, <2>1, <2>2 DEF Newest
    <3> QED BY <1>7, <2>1, <3>1
  <2>3. CASE ~(Len(all) <= ProcessedCapacity)
    <3> DEFINE first == Len(all) - ProcessedCapacity + 1
    <3>1. Newest(all) = SubSeq(all, first, Len(all)) /\ Len(all) \in Nat
          /\ first \in 1..Len(all)
      BY <1>8, <2>3, QueueAssumption DEF Newest
    <3>2. i \in 1..ProcessedCapacity /\ Newest(all)[i] = all[first + i - 1]
      BY <1>8, <2>1, <3>1, QueueAssumption
    <3>3. first + i - 1 \in 1..Len(all)
      BY <3>1, <3>2, QueueAssumption
    <3> HIDE DEF first
    <3> QED BY <1>7, <2>1, <3>2, <3>3
  <2> QED BY <2>2, <2>3
<1>10. CASE t = u
  <2>1. processed'[t] = Newest(all)
    BY <1>1, <1>4, <1>10
  <2> HIDE DEF all
  <2> QED BY <1>9, <1>10, <2>1
<1>11. CASE t # u
  <2>1. processed'[t] = processed[t]
    BY <1>1, <1>4, <1>11
  <2> QED BY <2>1
<1> QED BY <1>10, <1>11

\* Only complete_job writes fingerprints.
LEMMA ProcessedWritten ==
  ASSUME [Next]_agentVars
  PROVE  ReportAnswered \/ UNCHANGED processed
<1>1. CASE Dispatch
  BY <1>1 DEF Dispatch, DispatchScheduled, DispatchManual, queueVars
<1>2. CASE JobStep
  BY <1>2 DEF JobStep, RecoverJob, BeginJob, LoadJob, AbandonOversized, BeginDelivery,
     RetryDelivery, PlanFiles, CollectionFails, ResumeArchiving, ArchiveFile, ArchiveRecorded,
     ArchiveFailed, ArchiveConflict, ManifestSaved, NothingArchived, ReportSaved, ReportThrows,
     QueueError, queueVars
<1>3. CASE Answer
  BY <1>3 DEF Answer, AttemptFails, AttemptUnauthorized, AttemptRejected,
     StartAnswered, StartAnsweredFinished, ManifestAnswered
<1>4. CASE Environment
  BY <1>4 DEF Environment, Exit, Start, NothingDue, RetryAttention, SpoilArchive, ClearArchive,
     queueVars, agentVars
<1>5. CASE UNCHANGED agentVars
  BY <1>5 DEF agentVars
<1> QED BY <1>1, <1>2, <1>3, <1>4, <1>5 DEF Next, ThreadStep

LEMMA ProcessedAgentStep ==
  ASSUME LinkInv, AgentMoves
  PROVE  ProcessedMeansStored'
<1>1. /\ IInv /\ ControlInv /\ [Next]_agentVars /\ stored' = stored
      /\ (ReportAnswered => reply = "accepted") /\ TypeOK /\ ProcessedMeansStored
  BY DEF LinkInv, LinkOK, BegunInv, SystemInv, IInv, AgentMoves, controlVars
<1> SUFFICES ASSUME NEW t \in Tasks, NEW f \in ToSet(processed'[t])
             PROVE  \E k \in Keys : TaskOf[k] = t /\ stored[k][f] = 1
  BY <1>1 DEF ProcessedMeansStored, ToSet
<1>2. CASE f \in ToSet(processed[t])
  BY <1>1, <1>2 DEF ProcessedMeansStored
<1>3. CASE f \notin ToSet(processed[t])
  <2>1. ReportAnswered
    BY <1>1, <1>3, ProcessedWritten
  <2>2. pc = "call" /\ snap.stage = "report_pending" /\ AddProcessed(cur)
    BY <2>1 DEF ReportAnswered
  <2>3. /\ cur \in Keys /\ jobs[cur] \in Job /\ JobOK(cur, jobs[cur])
        /\ jobs[cur].stage = "report_pending"
    BY <1>1, <2>2, CurrentJob DEF IInv, SnapshotFresh
  <2>4. t = TaskOf[cur] /\ f \in jobs[cur].clean
    BY <1>1, <1>3, <2>2, <2>3, AddProcessedFrom
  <2>5. /\ Outgoing \in receipts[cur] /\ Outgoing.type = "report"
    BY <1>1, <2>1, <2>2 DEF LinkInv, LinkOK, ReplyOK, Outgoing, RequestOf
  <2>6. Outgoing.report = jobs[cur].report /\ "report" \in jobs[cur].requests
    BY <2>2, <2>5, OutgoingSaved DEF LinkInv, BegunInv, SystemInv
  <2>7. f \in Outgoing.report.records /\ f \in Files
    BY <2>3, <2>4, <2>6 DEF JobOK, ReportOK, Job
  <2>8. stored[cur][f] = 1
    BY <1>1, <2>3, <2>5, <2>7 DEF ControlInv, ReceiptsTellEffects, Receipt
  <2> QED BY <2>3, <2>4, <2>8
<1> QED BY <1>2, <1>3

LEMMA LinkAgentStep ==
  ASSUME LinkInv, BegunInv', SlotsOK', ~ReplaySlots, AgentMoves
  PROVE  LinkOK'
<1>1. ReceiptsSent'
  <2>1. receipts' = receipts /\ sent \subseteq sent'
    BY DEF AgentMoves, controlVars, Exchange
  <2> QED BY <2>1 DEF ReceiptsSent, Evidence, LinkInv, LinkOK
<1> QED BY <1>1, SentAgentStep, RowsAgentStep, ReplyAgentStep, SlotsAgentStep, ProcessedAgentStep
     DEF LinkOK

-----------------------------------------------------------------------------
(* A step of the control plane.                                            *)

\* The control plane's own steps keep what is said of the agent's requests.
LEMMA ControlKeepsLinks ==
  ASSUME LinkInv, [ControlNext]_controlVars, UNCHANGED <<agentVars, sent>>
  PROVE  /\ SentOK' /\ ProcessedMeansStored'
         /\ \A k \in PendingKeys : \A f \in jobs[k].bound : raws'[k][f] = 1
<1>1. /\ ControlInv /\ NetworkOK /\ IInv /\ LinkOK
      /\ UNCHANGED <<jobs, processed, pc, cur, snap, PendingKeys, Evidence>>
  BY DEF LinkInv, BegunInv, SystemInv, agentVars, PendingKeys, Evidence
<1>2. SentOK'
  <2> SUFFICES ASSUME NEW q \in Evidence
               PROVE  IF Working(q.key) THEN SavedBy(jobs[q.key], q) ELSE run'[q.key] \in Terminal
    BY <1>1 DEF SentOK, Working, SavedBy
  <2>1. q.key \in Keys
    BY <1>1 DEF Evidence, NetworkOK, Requests
  <2>2. IF Working(q.key) THEN SavedBy(jobs[q.key], q) ELSE run[q.key] \in Terminal
    BY <1>1 DEF LinkOK, SentOK
  <2> QED BY <1>1, <2>1, <2>2, RunsGoOn
<1>3. ProcessedMeansStored'
  <2> SUFFICES ASSUME NEW t \in Tasks, NEW f \in ToSet(processed[t])
               PROVE  \E k \in Keys : TaskOf[k] = t /\ stored'[k][f] = 1
    BY <1>1 DEF ProcessedMeansStored
  <2>1. f \in Files
    BY <1>1 DEF IInv, TypeOK, QueueTypeOK, ToSet
  <2>2. PICK k \in Keys : TaskOf[k] = t /\ stored[k][f] = 1
    BY <1>1 DEF LinkOK, ProcessedMeansStored
  <2> QED BY <1>1, <2>1, <2>2, RunsGoOn
<1>4. ASSUME NEW k \in PendingKeys, NEW f \in jobs[k].bound PROVE raws'[k][f] = 1
  <2>1. k \in Keys /\ f \in Files
    BY <1>1 DEF PendingKeys, IInv, TypeOK, QueueTypeOK, Job
  <2>2. raws[k][f] = 1
    BY <1>1 DEF LinkOK, RowsOK
  <2> QED BY <1>1, <2>1, <2>2, RunsGoOn
<1> QED BY <1>2, <1>3, <1>4

LEMMA LinkCommandStep ==
  ASSUME LinkInv, OperatorCommand, UNCHANGED <<agentVars, network>>
  PROVE  LinkOK'
<1>1. /\ ControlInv /\ LinkOK /\ BegunOK /\ [ControlNext]_controlVars
      /\ UNCHANGED <<jobs, processed, pc, cur, snap, slots, sent, reply, PendingKeys, Evidence,
                     Outgoing>>
  BY DEF LinkInv, BegunInv, SystemInv, agentVars, network, PendingKeys, Evidence, Outgoing,
         ControlNext
<1>2. UNCHANGED <<receipts, raws, stored>>
  BY <1>1, CommandEffects
<1>3. \A k \in Keys : run[k] \notin {"none", "pending"} => run'[k] = run[k]
  BY <1>1, CommandEffects DEF ControlInv, ControlTypeOK
<1>4. \A k \in ScheduledKeys : run'[k] \in Terminal => run[k] \in Terminal
  BY <1>1, CommandEffects DEF ControlInv, ControlTypeOK, ScheduledKeys, Terminal
<1>5. SentOK' /\ ProcessedMeansStored'
  BY <1>1, ControlKeepsLinks
<1>6. ReceiptsSent'
  BY <1>1, <1>2 DEF LinkOK, ReceiptsSent
<1>7. RowsOK'
  <2>1. \A k \in PendingKeys : jobs[k].run => run'[k] = run[k]
    BY <1>1, <1>3 DEF BegunOK, Begun, PendingKeys
  <2> QED BY <1>1, <1>2, <2>1 DEF LinkOK, RowsOK, Receipt
<1>8. ReplyOK'
  <2>1. reply = "running" => cur \in Keys
    BY <1>1, CurrentJob DEF BegunOK, LinkInv, BegunInv, SystemInv
  <2> QED BY <1>1, <1>2, <1>3, <2>1 DEF LinkOK, ReplyOK
<1>9. SlotsFresh'
  BY <1>1, <1>4 DEF LinkOK, SlotsFresh, Unstarted
<1> QED BY <1>5, <1>6, <1>7, <1>8, <1>9 DEF LinkOK

LEMMA LinkAsideStep ==
  ASSUME LinkInv, AsideMoves
  PROVE  LinkOK'
<1>1. /\ LinkOK
      /\ UNCHANGED <<jobs, processed, pc, cur, snap, slots, sent, reply, PendingKeys, Evidence,
                     Outgoing, run, receipts, raws, stored>>
  BY AsideKeeps DEF LinkInv, BegunInv, agentVars, network, PendingKeys, Evidence, Outgoing
<1>2. SentOK' /\ ReceiptsSent' /\ ProcessedMeansStored'
  BY <1>1 DEF LinkOK, SentOK, SavedBy, Working, ReceiptsSent, ProcessedMeansStored
<1>3. RowsOK' /\ ReplyOK' /\ SlotsFresh'
  BY <1>1 DEF LinkOK, RowsOK, Receipt, ReplyOK, SlotsFresh, Unstarted
<1> QED BY <1>2, <1>3 DEF LinkOK

\* Two requests of one type for the run a job works for are one request repeated.
LEMMA SameBody ==
  ASSUME LinkInv, NEW k \in Keys, Working(k), NEW p \in Evidence, NEW q \in Evidence,
         p.key = k, q.key = k, p.type = q.type
  PROVE  p = q
<1>1. SavedBy(jobs[k], p) /\ SavedBy(jobs[k], q)
  BY DEF LinkInv, LinkOK, SentOK
<1>2. p \in Requests /\ q \in Requests /\ p.type # "start"
  BY DEF Evidence, LinkInv, BegunInv, SystemInv, NetworkOK
<1>3. CASE p.type = "manifest"
  <2>1. p.manifest = q.manifest /\ p.report = NoReport /\ q.report = NoReport
    BY <1>1, <1>2, <1>3 DEF SavedBy, Requests
  <2> DEFINE S == [type : {"manifest"}, key : Keys, manifest : SUBSET Files, report : {NoReport}]
  <2>2. p \in S /\ q \in S
    BY <1>2, <1>3 DEF Requests
  <2>3. \A r \in S : r = [type |-> "manifest", key |-> r.key, manifest |-> r.manifest,
                         report |-> NoReport]
    OBVIOUS
  <2> HIDE DEF S
  <2> QED BY <2>1, <2>2, <2>3
<1>4. CASE p.type = "report"
  <2>1. p.report = q.report /\ p.manifest = {} /\ q.manifest = {}
    BY <1>1, <1>2, <1>4 DEF SavedBy, Requests
  <2> DEFINE S == [type : {"report"}, key : Keys, manifest : {{}}, report : Reports]
  <2>2. p \in S /\ q \in S
    BY <1>2, <1>4 DEF Requests
  <2>3. \A r \in S : r = [type |-> "report", key |-> r.key, manifest |-> {}, report |-> r.report]
    OBVIOUS
  <2> HIDE DEF S
  <2> QED BY <2>1, <2>2, <2>3
<1> QED BY <1>2, <1>3, <1>4 DEF Requests

\* What has been collected is taken, the first time and every other time, or it is a
\* report while a rule of its task is off.
LEMMA EvidenceTaken ==
  ASSUME LinkInv, pc = "call", Outgoing.type # "start", Outgoing \in sent,
         NEW answer \in Answers, Handle(Outgoing, answer)
  PROVE  \/ answer = "accepted" /\ Outgoing \in receipts'[cur]
         \/ answer = "rejected" /\ Outgoing.type = "report" /\ MayNameDisabledRule(Outgoing)
<1> DEFINE q == Outgoing
<1>1. /\ IInv /\ BodyOK /\ ControlInv /\ BegunOK /\ RowsOK /\ CleanOK /\ ReceiptsSent
  BY DEF LinkInv, LinkOK, BegunInv, SystemInv
<1>2. /\ cur \in PendingKeys /\ q.key = cur /\ jobs[cur].run /\ SavedBy(jobs[cur], q)
      /\ cur \in Keys /\ q \in Evidence /\ q \in Requests
  BY <1>1, OutgoingWork DEF Evidence, PendingKeys, LinkInv, BegunInv, SystemInv, NetworkOK
<1>3. JobOK(cur, jobs[cur]) /\ RetryWithin(cur, jobs[cur]) /\ run[cur] # "none"
  BY <1>1, <1>2 DEF IInv, JobsOK, CleanOK, BegunOK, Begun
<1>4. Receipt(cur, q.type) \ {q} = {}
  <2> SUFFICES ASSUME NEW p \in receipts[cur], p.type = q.type PROVE p = q
    BY DEF Receipt
  <2>1. PICK k \in Keys : k = cur
    BY <1>2
  <2>2. Working(k) /\ p \in Evidence /\ p.key = k /\ q.key = k
    BY <1>1, <1>2, <2>1 DEF Working, ReceiptsSent
  <2> QED BY <1>2, <2>2, SameBody
<1>5. receipts \in [Keys -> SUBSET Requests]
  BY <1>1 DEF ControlInv, ControlTypeOK
<1>6. AddReceipt(q) => q \in receipts'[cur]
  BY <1>2, <1>5 DEF AddReceipt
<1> HIDE DEF q
<1>7. CASE Replayed(q, answer)
  BY <1>2, <1>7 DEF Replayed, controlVars, q
<1>8. CASE Refused(q, answer)
  BY <1>2, <1>3, <1>4, <1>8 DEF Refused
<1>9. CASE AcceptRawFileManifest(q, answer)
  BY <1>6, <1>9 DEF AcceptRawFileManifest, q
<1>10. CASE AcceptTaskRunReport(q, answer) /\ ~MayNameDisabledRule(q)
  <2>1. q.type = "report" /\ Receipt(cur, "report") = {}
    BY <1>2, <1>10 DEF AcceptTaskRunReport, Claimed
  <2>2. q.report = jobs[cur].report /\ "report" \in jobs[cur].requests
    BY <1>2, <2>1 DEF SavedBy
  <2>3. run[cur] \notin Terminal /\ \A f \in jobs[cur].bound : raws[cur][f] = 1
    BY <1>1, <1>2, <2>1 DEF RowsOK
  <2>4. q.report.status = "succeeded" => q.report.failed = {}
    BY <1>3, <2>2 DEF JobOK, ReportOK
  <2>5. \A f \in q.report.records : raws[cur][f] > 0
    BY <1>3, <2>2, <2>3 DEF JobOK, ReportOK
  <2>6. cur \in RetryKeys => q.report.failed \subseteq RetryTargets[cur]
    BY <1>3, <2>2 DEF RetryWithin, RetryKeys
  <2>7. ReportIsValid(q)
    BY <1>2, <2>4, <2>5, <2>6 DEF ReportIsValid
  <2> QED BY <1>2, <1>6, <1>10, <2>3, <2>7 DEF AcceptTaskRunReport, q
<1>11. CASE AcceptTaskRunReport(q, answer) /\ MayNameDisabledRule(q)
  BY <1>2, <1>6, <1>11 DEF AcceptTaskRunReport, q
<1> QED BY <1>7, <1>8, <1>9, <1>10, <1>11 DEF Handle, q

\* A start that is out is of a job that has not got its run.
LEMMA StartIsOut ==
  ASSUME IInv, pc = "call", snap.stage = "start_pending"
  PROVE  cur \in PendingKeys /\ cur \in Keys /\ ~jobs[cur].run
<1>1. cur \in Keys /\ JobOK(cur, jobs[cur]) /\ jobs[cur].stage = "start_pending"
  BY CurrentJob DEF IInv, SnapshotFresh
<1>2. ~jobs[cur].run
  BY <1>1 DEF JobOK, EvidenceOK, EffectiveStage
<1> QED BY <1>1, <1>2 DEF PendingKeys

\* The answer to a start is one to a start, and "running" is the truth.
LEMMA StartTold ==
  ASSUME LinkInv, pc = "call", Outgoing.type = "start",
         NEW answer \in Answers, Handle(Outgoing, answer)
  PROVE  /\ snap.stage = "start_pending" /\ answer # "accepted"
         /\ answer = "running" => run'[cur] = "running"
<1>1. /\ IInv /\ ControlInv /\ run \in [Keys -> RunStatus] /\ SlotsFresh
      /\ \A k \in ScheduledKeys : run[k] # "pending"
  BY DEF LinkInv, LinkOK, BegunInv, SystemInv, ControlInv, ControlTypeOK
<1>2. snap.stage = "start_pending"
  <2>1. snap.stage \in DeliveryStages
    BY <1>1 DEF IInv, SnapshotFresh
  <2> QED BY <2>1 DEF Outgoing, RequestOf, DeliveryStages
<1>3. cur \in PendingKeys /\ cur \in Keys /\ ~jobs[cur].run /\ Outgoing.key = cur
  BY <1>1, <1>2, StartIsOut DEF Outgoing
<1>4. StartScheduled(cur, answer) \/ StartManual(cur, answer)
  BY <1>3 DEF Handle, AcceptRawFileManifest, AcceptTaskRunReport
<1>5. CASE StartScheduled(cur, answer)
  <2>1. cur \in ScheduledKeys /\ run[cur] \notin Terminal
    BY <1>1, <1>3, <1>5 DEF StartScheduled, SlotsFresh, Unstarted
  <2>2. run[cur] \in {"none", "running"}
    BY <1>1, <1>3, <2>1 DEF RunStatus, Terminal
  <2> QED BY <1>1, <1>2, <1>3, <1>5, <2>2 DEF StartScheduled
<1>6. CASE StartManual(cur, answer)
  BY <1>1, <1>2, <1>3, <1>6 DEF StartManual
<1> QED BY <1>4, <1>5, <1>6

LEMMA ReplyHandledStep ==
  ASSUME LinkInv, NEW q \in sent, NEW answer \in Answers, RequestHandled(q, answer)
  PROVE  ReplyOK'
<1>1. /\ IInv /\ ControlInv /\ ReplyOK /\ q \in Requests /\ q.key \in Keys
      /\ Handle(q, answer) /\ [ControlNext]_controlVars
      /\ UNCHANGED <<agentVars, sent, jobs, pc, cur, snap>>
      /\ (reply # "none" => pc = "call") /\ run \in [Keys -> RunStatus]
  BY DEF LinkInv, LinkOK, BegunInv, SystemInv, NetworkOK, Requests, RequestHandled, ControlNext,
         BegunOK, agentVars, ControlInv, ControlTypeOK
<1>2. Outgoing' = Outgoing
  BY <1>1 DEF Outgoing
<1>3. CASE reply' = reply
  <2>1. ASSUME reply = "running" PROVE run'[cur] = "running"
    <3>1. cur \in Keys /\ ~jobs[cur].run /\ run[cur] = "running"
      BY <1>1, <2>1, StartIsOut DEF ReplyOK
    <3>2. q.type # "start" => q.key # cur
      BY <3>1, NothingSentYet DEF Working, Evidence
    <3> QED BY <1>1, <3>1, <3>2, HandleEffects
  <2>2. ASSUME reply = "accepted" PROVE Outgoing \in receipts'[cur]
    <3>1. cur \in Keys
      BY <1>1, <2>2, CurrentJob
    <3> QED BY <1>1, <2>2, <3>1, RunsGoOn DEF ReplyOK
  <2> QED BY <1>1, <1>2, <1>3, <2>1, <2>2 DEF ReplyOK
<1>4. CASE reply' # reply
  <2>1. reply' = answer /\ pc = "call" /\ q = Outgoing
    BY <1>4 DEF RequestHandled
  <2>2. CASE q.type = "start"
    BY <1>1, <1>2, <2>1, <2>2, StartTold DEF ReplyOK
  <2>3. CASE q.type # "start"
    BY <1>1, <1>2, <2>1, <2>3, EvidenceTaken DEF ReplyOK
  <2> QED BY <2>2, <2>3
<1> QED BY <1>3, <1>4

LEMMA LinkHandledStep ==
  ASSUME LinkInv, NEW q \in sent, NEW answer \in Answers, RequestHandled(q, answer)
  PROVE  LinkOK'
<1>1. /\ ControlInv /\ LinkOK /\ q \in Requests /\ q.key \in Keys
      /\ Handle(q, answer) /\ [ControlNext]_controlVars /\ UNCHANGED <<agentVars, sent>>
      /\ UNCHANGED <<jobs, pc, cur, slots, PendingKeys, Evidence>>
      /\ run \in [Keys -> RunStatus] /\ receipts \in [Keys -> SUBSET Requests]
      /\ PendingKeys \subseteq Keys
  BY DEF LinkInv, BegunInv, SystemInv, NetworkOK, Requests, RequestHandled, ControlNext,
         agentVars, ControlInv, ControlTypeOK, PendingKeys, Evidence
<1>2. /\ SentOK' /\ ProcessedMeansStored'
      /\ \A k \in PendingKeys : \A f \in jobs[k].bound : raws'[k][f] = 1
  BY <1>1, ControlKeepsLinks
<1>3. \A k \in Keys : receipts'[k] \subseteq receipts[k] \cup {p \in Evidence : p = q /\ p.key = k}
  <2>1. receipts' = receipts \/ (q.type # "start" /\ AddReceipt(q))
    BY <1>1, HandleEffects
  <2> QED BY <1>1, <2>1 DEF AddReceipt, Evidence
<1>4. ReceiptsSent'
  BY <1>1, <1>3 DEF LinkOK, ReceiptsSent
<1>5. \A k \in Keys : run'[k] \in Terminal /\ run[k] \notin Terminal =>
        q \in Evidence /\ q.key = k /\ q.type = "report" /\ q \in receipts'[k]
  <2> SUFFICES ASSUME NEW k \in Keys, run'[k] \in Terminal, run[k] \notin Terminal
               PROVE  q.key = k /\ q.type = "report" /\ AddReceipt(q)
    BY <1>1 DEF AddReceipt, Evidence
  <2> QED BY <1>1, HandleEffects DEF Terminal
<1>6. RowsOK'
  <2> SUFFICES ASSUME NEW k \in PendingKeys, jobs[k].run, run'[k] \in Terminal
               PROVE  Receipt(k, "report")' # {}
    BY <1>1, <1>2 DEF RowsOK, Receipt
  <2>1. CASE run[k] \in Terminal
    BY <1>1, <2>1, RunsGoOn DEF LinkOK, RowsOK, Receipt
  <2>2. CASE run[k] \notin Terminal
    BY <1>1, <1>5, <2>2 DEF Receipt
  <2> QED BY <2>1, <2>2
<1>7. SlotsFresh'
  <2> SUFFICES ASSUME NEW k \in ScheduledKeys, Unstarted(k) PROVE run'[k] \notin Terminal
    BY <1>1 DEF LinkOK, SlotsFresh, Unstarted
  <2> QED BY <1>1, <1>5 DEF LinkOK, SlotsFresh, ScheduledKeys
<1> QED BY <1>2, <1>4, <1>6, <1>7, ReplyHandledStep DEF LinkOK

-----------------------------------------------------------------------------
(* Both together.                                                          *)

LEMMA LinkInit == LegacyKeys = {} /\ SystemInit => LinkInv
<1> SUFFICES ASSUME LegacyKeys = {}, SystemInit PROVE LinkInv
  OBVIOUS
<1>1. /\ BegunInv /\ SlotsOK /\ sent = {} /\ reply = "none" /\ PendingKeys = {}
      /\ run = [k \in Keys |-> "none"] /\ receipts = [k \in Keys |-> {}]
      /\ \A t \in Tasks : processed[t] = <<>>
  BY BegunInit, SlotsInit, EmptyJobs DEF SystemInit, ControlInit, Init, QueueInit, PendingKeys
<1>2. SentOK /\ ReceiptsSent /\ RowsOK /\ ReplyOK
  BY <1>1 DEF SentOK, ReceiptsSent, RowsOK, ReplyOK, Evidence
<1>3. SlotsFresh
  BY <1>1 DEF SlotsFresh, Terminal, Evidence, ScheduledKeys
<1>4. ProcessedMeansStored
  BY <1>1 DEF ProcessedMeansStored, ToSet
<1> QED BY <1>1, <1>2, <1>3, <1>4 DEF LinkInv, LinkOK

LEMMA LinkStep == ~ReplaySlots /\ LinkInv /\ [SystemNext]_systemVars => LinkInv'
<1> SUFFICES ASSUME ~ReplaySlots, LinkInv, [SystemNext]_systemVars PROVE LinkInv'
  OBVIOUS
<1>1. BegunInv /\ BegunInv'
  BY BegunStep DEF LinkInv
<1>2. IInv /\ [Next]_agentVars /\ (reply # "none" => pc = "call")
  BY <1>1, AgentSide DEF systemVars, BegunInv, SystemInv, BegunOK
<1>3. SlotsOK'
  BY <1>2, SlotsStep DEF LinkInv
<1>4. LinkOK'
  BY <1>1, <1>2, <1>3, SystemSteps, LinkAgentStep, LinkHandledStep, LinkCommandStep,
     LinkAsideStep
<1> QED BY <1>1, <1>3, <1>4 DEF LinkInv

LEMMA LinkInvariance ==
  ASSUME LegacyKeys = {}, ~ReplaySlots PROVE SystemSpec => []LinkInv
<1>1. SystemInit => LinkInv
  BY LinkInit
<1>2. LinkInv /\ [SystemNext]_systemVars => LinkInv'
  BY LinkStep
<1> QED BY <1>1, <1>2, PTL DEF SystemSpec

\* A fingerprint in the queue's table of processed files stands for records the
\* control plane has (complete_job after the report was accepted).
THEOREM ProcessedIsStored ==
  ASSUME LegacyKeys = {}, ~ReplaySlots PROVE SystemSpec => []ProcessedMeansStored
<1>1. LinkInv => ProcessedMeansStored
  BY DEF LinkInv, LinkOK
<1> QED BY <1>1, LinkInvariance, PTL

\* The receipts of a run are of requests its job has saved: a repetition meets
\* its own receipt and never the conflict of claim_receipt.
THEOREM ReceiptsMatch ==
  ASSUME LegacyKeys = {}, ~ReplaySlots PROVE SystemSpec => []ReceiptsMatchJob
<1>1. LinkInv => ReceiptsMatchJob
  BY DEF LinkInv, LinkOK, ReceiptsSent, SentOK, SavedBy, Working, ReceiptsMatchJob, PendingKeys
<1> QED BY <1>1, LinkInvariance, PTL

\* What was collected is refused for one cause only, a quality rule that was switched
\* off meanwhile: the claim of the receipt, the status of the run, the files of the
\* report and the targets of a retry all agree with what the job has saved
\* (accept_raw_file_manifest, accept_task_run_report).
THEOREM RefusedForCauseOnly ==
  ASSUME LegacyKeys = {}, ~ReplaySlots PROVE SystemSpec => RefusedForCause
<1> DEFINE Caused ==
      reply' = "rejected" /\ reply # "rejected" =>
        \/ snap.stage = "start_pending"
        \/ /\ snap.stage = "report_pending" /\ snap.report.records # {}
           /\ ~RulesEnabled(TaskOf[cur])
<1>1. LinkInv /\ [SystemNext]_systemVars => [Caused]_systemVars
  <2> SUFFICES ASSUME LinkInv, [SystemNext]_systemVars, reply' = "rejected", reply # "rejected"
               PROVE  \/ snap.stage = "start_pending"
                      \/ /\ snap.stage = "report_pending" /\ snap.report.records # {}
                         /\ ~RulesEnabled(TaskOf[cur])
    OBVIOUS
  <2>1. IInv /\ (reply # "none" => pc = "call")
    BY DEF LinkInv, BegunInv, SystemInv, BegunOK
  <2>2. ~AgentMoves
    BY DEF AgentMoves, Exchange
  <2>3. ~(UNCHANGED <<agentVars, network>>)
    BY DEF network
  <2>4. PICK q \in sent, answer \in Answers : RequestHandled(q, answer)
    BY <2>1, <2>2, <2>3, SystemSteps DEF AsideMoves
  <2>5. /\ Handle(q, answer) /\ answer = "rejected" /\ pc = "call" /\ q = Outgoing
    BY <2>4 DEF RequestHandled
  <2>6. CASE q.type = "start"
    BY <2>5, <2>6, StartTold
  <2>7. CASE q.type # "start"
    <3>1. Outgoing.type = "report" /\ MayNameDisabledRule(Outgoing)
      BY <2>4, <2>5, <2>7, EvidenceTaken
    <3>2. snap.stage \in DeliveryStages
      BY <2>1, <2>5 DEF IInv, SnapshotFresh
    <3>3. snap.stage = "report_pending"
      BY <3>1, <3>2 DEF Outgoing, RequestOf, DeliveryStages
    <3>4. Outgoing.report = snap.report /\ Outgoing.key = cur
      BY <3>1 DEF Outgoing
    <3> QED BY <3>1, <3>3, <3>4 DEF MayNameDisabledRule, RulesEnabled
  <2> QED BY <2>6, <2>7
<1> QED BY <1>1, LinkInvariance, PTL DEF SystemSpec, RefusedForCause

\* An agent that is told "running" is told so of a run that runs, although the
\* answer of start_scheduled does not look at the status it finds.
THEOREM StartTellsTruth ==
  ASSUME LegacyKeys = {}, ~ReplaySlots PROVE SystemSpec => []StartTellsStatus
<1>1. LinkInv => StartTellsStatus
  BY DEF LinkInv, LinkOK, ReplyOK, StartTellsStatus
<1> QED BY <1>1, LinkInvariance, PTL

\* The control plane is never ahead of the job but by the answer to its report.
THEOREM RunStaysBehind ==
  ASSUME LegacyKeys = {}, ~ReplaySlots PROVE SystemSpec => []RunBehindJob
<1>1. LinkInv => RunBehindJob
  <2> SUFFICES ASSUME LinkInv, NEW k \in PendingKeys
               PROVE  /\ jobs[k].run => run[k] \notin {"none", "pending"}
                      /\ run[k] \in Terminal =>
                           EffectiveStage(jobs[k]) \in {"start_pending", "report_pending"}
    BY DEF RunBehindJob
  <2>1. /\ k \in Keys /\ JobOK(k, jobs[k]) /\ EffectiveStage(jobs[k]) \in ExecutableStages
    BY DEF LinkInv, BegunInv, SystemInv, IInv, JobsOK, CleanOK, PendingKeys
  <2>2. jobs[k].run => run[k] \notin {"none", "pending"}
    BY DEF LinkInv, BegunInv, BegunOK, Begun
  <2>3. ASSUME run[k] \in Terminal, EffectiveStage(jobs[k]) # "start_pending"
        PROVE  EffectiveStage(jobs[k]) = "report_pending"
    <3>1. jobs[k].run
      BY <2>1, <2>3 DEF JobOK, EvidenceOK
    <3>2. PICK q \in receipts[k] : q.type = "report"
      BY <2>3, <3>1 DEF LinkInv, LinkOK, RowsOK, Receipt
    <3>3. "report" \in jobs[k].requests
      BY <2>1, <3>1, <3>2 DEF LinkInv, LinkOK, ReceiptsSent, SentOK, SavedBy, Working
    <3> QED BY <2>1, <2>3, <3>3 DEF JobOK, EvidenceOK, ExecutableStages, DeliveryStages
  <2> QED BY <2>2, <2>3
<1> QED BY <1>1, LinkInvariance, PTL
================================================================================
