------------------------- MODULE ReliableReporting --------------------------
(***************************************************************************)
(* The agent and the control plane together: every request the agent sends  *)
(* may be handled at once, later, again, or never, and every answer may get *)
(* lost; the agent learns of manual requests and of enabled tasks only by   *)
(* polling, so what it acts on may be out of date.                          *)
(*                                                                         *)
(* Keys are those of one node.  The two components keep their own steps;    *)
(* this module adds the network between them and AgentRuntime's polling.    *)
(***************************************************************************)
EXTENDS AgentExecutor, ControlPlane

VARIABLES
  sent,        \* every request ever sent; a copy may still arrive
  reply,       \* the answer to the request that is out, once it is there
  fetched,     \* what the request for the configuration has read: tasks, runs
  known,       \* the tasks of the scheduler's entries
  candidates   \* its pending_candidates

network == <<sent, reply>>
config == <<fetched, known, candidates>>
systemVars == <<agentVars, controlVars, network, config>>

-----------------------------------------------------------------------------
(* The network.                                                            *)

\* The body the executor sends comes from its copy of the job.
Outgoing ==
  LET type == RequestOf[snap.stage] IN
  [type |-> type, key |-> cur,
   manifest |-> IF type = "manifest" THEN snap.manifest ELSE {},
   report |-> IF type = "report" THEN snap.report ELSE NoReport]

\* A step of the agent that begins an attempt sends the request; one that ends
\* the attempt closes the connection, with the answer if there is one.
Exchange ==
  /\ sent' = IF pc' = "call" /\ pc # "call" THEN sent \cup {Outgoing'} ELSE sent
  /\ reply' = IF pc' = "call" THEN reply ELSE "none"

\* A request arrives, the first time or again.  If it is the one that is out,
\* the answer may reach the agent.
RequestHandled(q, answer) ==
  /\ Handle(q, answer)
  /\ reply' \in IF pc = "call" /\ reply = "none" /\ q = Outgoing
                THEN {"none", answer} ELSE {reply}
  /\ UNCHANGED <<agentVars, sent, config>>

\* The handler of a report that has arrived looks at the run.
RequestLooked(q) == LookAtRun(q) /\ UNCHANGED <<agentVars, network, config>>

\* The agent acts on the answer.  An attempt may also fail without one, or
\* before one that is on its way.
AnswerTaken ==
  \/ reply = "running" /\ StartAnswered
  \/ reply = "finished" /\ StartAnsweredFinished
  \/ reply = "accepted" /\ (ManifestAnswered \/ ReportAnswered)
  \/ reply = "rejected" /\ AttemptRejected

-----------------------------------------------------------------------------
(* AgentRuntime polls in the main thread while the worker runs jobs.        *)

\* The configuration leaves with the process.
KeepConfig ==
  IF pc' = "down" THEN fetched' = <<>> /\ known' = {} /\ candidates' = {}
                  ELSE UNCHANGED config

\* GET config: the enabled tasks, then, in a statement of its own, the runs
\* that are pending.
FetchTasks ==
  /\ pc # "down" /\ fetched = <<>>
  /\ fetched' = <<{t \in Tasks : enabled[t]}>>
  /\ UNCHANGED <<agentVars, controlVars, network, known, candidates>>

FetchPending ==
  /\ Len(fetched) = 1
  /\ fetched' = Append(fetched, UNION {PendingOf(t) : t \in Tasks})
  /\ UNCHANGED <<agentVars, controlVars, network, known, candidates>>

\* TaskScheduler::replace_config, any time later.
PublishConfig ==
  /\ Len(fetched) = 2
  /\ known' = fetched[1] /\ candidates' = fetched[2]
  /\ fetched' = <<>>
  /\ UNCHANGED <<agentVars, controlVars, network>>

\* A slot is dispatched while its task is in the entries.
DispatchSlot(k) ==
  /\ TaskOf[k] \in known /\ DispatchScheduled(k)
  /\ UNCHANGED <<controlVars, network, config>>

\* dispatch_one_pending: the candidate is taken off the list and run, or
\* dropped, its task being unknown or its key having a job; with a full queue
\* it stays.
DispatchCandidate(k) ==
  /\ pc = "idle" /\ backlog = {} /\ k \in candidates
  /\ \/ TaskOf[k] \in known /\ DispatchManual(k)
     \/ /\ TaskOf[k] \notin known \/ k \in PendingKeys
        /\ UNCHANGED agentVars
  /\ candidates' = candidates \ {k}
  /\ UNCHANGED <<controlVars, network, fetched, known>>

-----------------------------------------------------------------------------

SystemInit ==
  /\ Init /\ ControlInit
  /\ sent = {} /\ reply = "none"
  /\ fetched = <<>> /\ known = {} /\ candidates = {}

AgentStep ==
  /\ JobStep \/ AttemptFails \/ AttemptUnauthorized \/ AnswerTaken \/ Environment
  /\ Exchange /\ KeepConfig
  /\ UNCHANGED controlVars

SystemNext ==
  \/ AgentStep
  \/ \E k \in Keys : DispatchSlot(k) \/ DispatchCandidate(k)
  \/ \E q \in sent, answer \in Answers : RequestHandled(q, answer)
  \/ \E q \in sent : RequestLooked(q)
  \/ FetchTasks \/ FetchPending \/ PublishConfig
  \/ OperatorCommand /\ UNCHANGED <<agentVars, network, config>>
  \/ \E r \in Rules : SwitchRule(r) /\ UNCHANGED <<agentVars, network, config>>

SystemSpec == SystemInit /\ [][SystemNext]_systemVars

-----------------------------------------------------------------------------
(* Fairness: that of the agent, of its polling, and of a network in which a  *)
(* request that is repeated for ever, and that the control plane can decide, *)
(* is in the end answered in time.  Of a report the database cannot store    *)
(* nothing is assumed: AnswerDelivered is not enabled for it.               *)

JobStepTaken == JobStep /\ Exchange /\ KeepConfig /\ UNCHANGED controlVars
StartTaken == Start /\ Exchange /\ KeepConfig /\ UNCHANGED controlVars
AttemptEnds == (AttemptFails \/ AnswerTaken) /\ Exchange /\ KeepConfig /\ UNCHANGED controlVars
AnswerDelivered ==
  /\ pc = "call"
  /\ \E answer \in Answers : RequestHandled(Outgoing, answer) /\ reply' = answer
FinalAnswer == AnswerTaken /\ Exchange /\ KeepConfig /\ UNCHANGED controlVars
Dispatched == \E k \in Keys : DispatchSlot(k) \/ DispatchCandidate(k)

FairSystemSpec ==
  /\ SystemSpec
  /\ WF_systemVars(JobStepTaken) /\ WF_systemVars(StartTaken)
  /\ WF_systemVars(AttemptEnds)
  /\ SF_systemVars(AnswerDelivered) /\ SF_systemVars(FinalAnswer)
  /\ WF_systemVars(FetchTasks \/ FetchPending \/ PublishConfig)
  /\ WF_systemVars(Dispatched)

-----------------------------------------------------------------------------
(* Properties.                                                             *)

\* The agent drops a file version as processed only when the control plane has
\* its records: complete_job commits after the report was accepted, and what
\* it keeps is what the report delivered.
ProcessedMeansStored ==
  \A t \in Tasks : \A f \in ToSet(processed[t]) :
    \E k \in Keys : TaskOf[k] = t /\ stored[k][f] = 1

\* The receipts of the run a job works for are of the requests the job has saved,
\* so a repetition is always answered as one and never conflicts.
ReceiptsMatchJob ==
  \A k \in PendingKeys : jobs[k].run => \A q \in receipts[k] :
    /\ q.type \in jobs[k].requests
    /\ q.type = "manifest" => q.manifest = jobs[k].manifest
    /\ q.type = "report" => q.report = jobs[k].report

\* Whatever was lost, repeated or restarted: when the control plane refuses what
\* the agent has out, it is a start, or a report with records at a time when a
\* quality rule of its task is off (the checks of accept_task_run_report).  Neither a
\* receipt, nor the status of the run, nor a file the control plane does not know
\* ever makes it refuse what was collected.
RefusedForCause ==
  [][reply' = "rejected" /\ reply # "rejected" =>
       \/ snap.stage = "start_pending"
       \/ /\ snap.stage = "report_pending" /\ snap.report.records # {}
          /\ ~RulesEnabled(TaskOf[cur])]_systemVars

\* A job that has its run is working for a run the control plane has as running,
\* except that the run may be over while the answer to the report is under way.
\* A job that has not started may find its run over: it was called off, or it
\* is an old notice of a run that was done.
RunBehindJob ==
  \A k \in PendingKeys :
    /\ jobs[k].run => run[k] \notin {"none", "pending"}
    /\ run[k] \in Terminal =>
         EffectiveStage(jobs[k]) \in {"start_pending", "report_pending"}

\* start says "running" only of a run that is: an agent that is told so goes on
\* to collect (StartTaskRunResult).
StartTellsStatus == pc = "call" /\ reply = "running" => run[cur] = "running"

\* Disabling a task does not interrupt what is running: the start of a run the
\* control plane has begun is not refused afterwards (set_task_enabled).
RunningNotInterrupted ==
  pc = "call" /\ reply = "rejected" => run[cur] # "running"

\* The system keeps the promise of RunLifecycle.
Lifecycle == INSTANCE RunLifecycle WITH status <- run, delivered <- stored
LifecycleKept == Lifecycle!LifecycleSpec

\* A job has a report with records the database cannot take.  The control plane
\* answers it with an internal error each time, so that the agent repeats it for
\* ever and comes to no other job.
Stuck == \E k \in PendingKeys : jobs[k].report.records \cap Unstorable # {}

\* Every run comes to an end, unless the agent is stuck.  A manual request does not
\* wait for ever, unless a job that waits for the operator has taken the last place
\* in the queue, or is the one in its way; a run that has begun ends, or its job
\* waits for the operator.
RunSettles ==
  \A k \in Keys :
    /\ run[k] = "pending" ~>
         \/ run[k] # "pending" \/ Stuck
         \/ \E other \in Keys : jobs[other].stage = "requires_attention"
    /\ run[k] = "running" ~>
         run[k] \in Terminal \/ jobs[k].stage = "requires_attention" \/ Stuck

\* Every job in the queue is in the end completed, dropped as already finished, or
\* handed to the operator, unless the agent is stuck.
JobSettlesOrStuck ==
  \A k \in Keys : CanLoad(jobs[k]) ~> ~CanLoad(jobs[k]) \/ Stuck
=============================================================================
