---------------------------- MODULE ControlPlane ----------------------------
(***************************************************************************)
(* The control plane (server/): what it keeps of each run and what its      *)
(* handlers do to it.  Every request is one database transaction, committed *)
(* only when its answer is a success, so each handler is one action here:   *)
(* the rows it decides on are locked, or created under a unique index that  *)
(* lets one of two writers wait for the other.  Only the handler of a report *)
(* reads the row of its run without a lock, some time before it writes it:   *)
(* that look is an action of its own.                                       *)
(*                                                                         *)
(* Requests come from anywhere, in any order and any number of times.       *)
(* Quality rules are switched on and off in the database by hand.           *)
(*                                                                         *)
(* Left out: nodes and their tokens, data sources, alerts, the queries of    *)
(* the console, and answers that say nothing was done because the database  *)
(* failed; a report the database cannot store gets no other.                *)
(***************************************************************************)
EXTENDS Runs

CONSTANTS
  RetryOf,      \* the run each retry key is a retry of
  Rules,
  RulesOf,      \* the quality rules bound to each task
  Unstorable,   \* files with a record the database cannot take: a record_time that is
                \* no time, or a station or device code that is too long
  MaxSwitches   \* bound on set_task_enabled, and on the switching of rules

RetryKeys == {k \in ManualKeys : RetryTargets[k] # {}}

ASSUME ControlPlaneAssumption ==
  /\ RetryOf \in [RetryKeys -> Keys]
  /\ \A k \in RetryKeys : TaskOf[RetryOf[k]] = TaskOf[k]
  /\ RulesOf \in [Tasks -> SUBSET Rules]
  /\ Unstorable \subseteq Files
  /\ MaxSwitches \in Nat

VARIABLES
  run,        \* task_runs.status by execution key, "none" without a row
  receipts,   \* agent_report_receipts of each run: the requests answered
  raws,       \* how many raw_files rows a run has for a file
  stored,     \* how often the records of a file were stored for a run
  looked,     \* runs the handler of a report has read when they were not over
  enabled,    \* tasks.enabled
  rules,      \* the quality rules that are enabled
  switches

settings == <<enabled, rules, switches>>
controlVars == <<run, receipts, raws, stored, looked, settings>>

RunStatus == {"none", "pending", "running", "succeeded", "failed"}
Terminal == {"succeeded", "failed"}

\* What the caller is told: a status for a start, success, or a conflict.
Answers == {"running", "finished", "accepted", "rejected"}

PendingOf(t) == {k \in ManualKeys : TaskOf[k] = t /\ run[k] = "pending"}

Receipt(k, type) == {q \in receipts[k] : q.type = type}

\* task_runs.failed_files; a run that was called off has an empty list.
FailedFiles(k) == UNION {q.report.failed : q \in Receipt(k, "report")}

-----------------------------------------------------------------------------
(* POST /task-runs/start: TaskRunService::start and start_manual.          *)

\* Mutant: the row is created like that of a manual request.
StartScheduledPending(k, answer) ==
  /\ k \in ScheduledKeys /\ enabled[TaskOf[k]]
  /\ answer = "running"
  /\ run' = [run EXCEPT ![k] = IF @ = "none" THEN "pending" ELSE @]
  /\ UNCHANGED <<receipts, raws, stored, looked, settings>>

\* Whether the task is enabled is looked at before whether the run is there;
\* a run that is there is always said to be running.
StartScheduled(k, answer) ==
  /\ k \in ScheduledKeys
  /\ \/ /\ ~enabled[TaskOf[k]]
        /\ answer = "rejected" /\ UNCHANGED run
     \/ /\ enabled[TaskOf[k]]
        /\ answer = "running"
        /\ run' = [run EXCEPT ![k] = IF @ = "none" THEN "running" ELSE @]
  /\ UNCHANGED <<receipts, raws, stored, looked, settings>>

\* Mutant: the agent is told to begin, the row is left as it is.
StartManualUnmarked(k, answer) ==
  /\ k \in ManualKeys
  /\ \/ run[k] \in {"pending", "running"} /\ answer = "running"
     \/ run[k] \in Terminal /\ answer = "finished"
  /\ UNCHANGED controlVars

\* Mutant: every run that is there is said to be running.
StartManualAlways(k, answer) ==
  /\ k \in ManualKeys /\ run[k] # "none" /\ answer = "running"
  /\ run' = [run EXCEPT ![k] = IF @ = "pending" THEN "running" ELSE @]
  /\ UNCHANGED <<receipts, raws, stored, looked, settings>>

\* A manual run has to be there; it begins, or its present status is told.
StartManual(k, answer) ==
  /\ k \in ManualKeys
  /\ \/ run[k] = "none" /\ answer = "rejected" /\ UNCHANGED run
     \/ /\ run[k] = "pending" /\ answer = "running"
        /\ run' = [run EXCEPT ![k] = "running"]
     \/ run[k] = "running" /\ answer = "running" /\ UNCHANGED run
     \/ run[k] \in Terminal /\ answer = "finished" /\ UNCHANGED run
  /\ UNCHANGED <<receipts, raws, stored, looked, settings>>

-----------------------------------------------------------------------------
(* AgentReportService.  A receipt is claimed first: the request that was    *)
(* answered before is answered again, another body under its key conflicts. *)

Replayed(q, answer) ==
  /\ run[q.key] # "none" /\ q \in receipts[q.key]
  /\ answer = "accepted" /\ UNCHANGED controlVars

\* Mutant: the status of the run is looked at before the receipt.
RefusedWhenOver(q, answer) ==
  /\ run[q.key] \in Terminal \cup {"none"}
  /\ answer = "rejected" /\ UNCHANGED controlVars

Refused(q, answer) ==
  /\ \/ run[q.key] = "none"
     \/ Receipt(q.key, q.type) \ {q} # {}
  /\ answer = "rejected" /\ UNCHANGED controlVars

\* Mutant: receipts are kept but not looked at.
ClaimedUnchecked(q) == run[q.key] # "none"

Claimed(q) == run[q.key] # "none" /\ Receipt(q.key, q.type) = {}

AddReceipt(q) == receipts' = [receipts EXCEPT ![q.key] = @ \cup {q}]

\* counts plus one for every file of S in run k
CountedOnce(counts, k, S) ==
  [counts EXCEPT ![k] = [f \in Files |-> IF f \in S THEN @[f] + 1 ELSE @[f]]]

\* accept_raw_file_manifest; the status of the run is not looked at.
AcceptRawFileManifest(q, answer) ==
  /\ q.type = "manifest" /\ Claimed(q)
  /\ answer = "accepted"
  /\ raws' = CountedOnce(raws, q.key, q.manifest)
  /\ AddReceipt(q)
  /\ UNCHANGED <<run, stored, looked, settings>>

\* validate_failed_files, and every record's raw file belongs to the run
ReportIsValid(q) ==
  /\ q.report.status = "succeeded" => q.report.failed = {}
  /\ q.key \in RetryKeys => q.report.failed \subseteq RetryTargets[q.key]
  /\ \A f \in q.report.records : raws[q.key][f] > 0

\* The records come with the results of the rules the agent knew when it checked
\* them, some or all of those bound to the task; each rule has to be enabled still.
MayNameDisabledRule(q) == q.report.records # {} /\ ~(RulesOf[TaskOf[q.key]] \subseteq rules)

\* validate_task_run_node: the row is read, the status is judged after the claim.
LookAtRun(q) ==
  /\ q.type = "report"
  /\ run[q.key] \notin Terminal \cup {"none"}
  /\ looked' = looked \cup {q.key}
  /\ UNCHANGED <<run, receipts, raws, stored, settings>>

\* The control plane ends: no handler goes on from what it has read.
HandlersGone == looked' = {} /\ UNCHANGED <<run, receipts, raws, stored, settings>>

\* Mutant: the status of the run is not judged.
AcceptTaskRunReportLate(q, answer) ==
  /\ q.type = "report" /\ Claimed(q) /\ ReportIsValid(q)
  /\ answer = "accepted"
  /\ stored' = CountedOnce(stored, q.key, q.report.records)
  /\ run' = [run EXCEPT ![q.key] = q.report.status]
  /\ looked' = looked \ {q.key}
  /\ AddReceipt(q)
  /\ UNCHANGED <<raws, settings>>

\* Mutant: the claim is not rolled back.
AcceptTaskRunReportKept(q, answer) ==
  /\ q.type = "report" /\ Claimed(q)
  /\ run[q.key] \in Terminal \/ ~ReportIsValid(q)
  /\ answer = "rejected" /\ AddReceipt(q)
  /\ UNCHANGED <<run, stored, looked, raws, settings>>

\* accept_task_run_report: the run was not over when this handler, now or earlier,
\* looked at it; store the records, finish the run whatever it has become, keep the
\* receipt; or roll all of it back.  The other handlers that have looked will find
\* the receipt.  When a record cannot be stored, an exception ends every attempt
\* that is not refused before.
AcceptTaskRunReport(q, answer) ==
  /\ q.type = "report" /\ Claimed(q)
  /\ \/ /\ run[q.key] \in Terminal \/ ~ReportIsValid(q) \/ MayNameDisabledRule(q)
        /\ answer = "rejected" /\ UNCHANGED <<run, stored, looked, receipts>>
     \/ /\ run[q.key] \in Terminal => q.key \in looked
        /\ ReportIsValid(q) /\ q.report.records \cap Unstorable = {}
        /\ answer = "accepted"
        /\ stored' = CountedOnce(stored, q.key, q.report.records)
        /\ run' = [run EXCEPT ![q.key] = q.report.status]
        /\ looked' = looked \ {q.key}
        /\ AddReceipt(q)
  /\ UNCHANGED <<raws, settings>>

\* One request of the agent, handled now and answered so.
Handle(q, answer) ==
  \/ q.type = "start" /\ (StartScheduled(q.key, answer) \/ StartManual(q.key, answer))
  \/ q.type # "start" /\ (Replayed(q, answer) \/ Refused(q, answer))
  \/ AcceptRawFileManifest(q, answer)
  \/ AcceptTaskRunReport(q, answer)

-----------------------------------------------------------------------------
(* Commands of the operator.                                               *)

\* validate_task_executable, of the rules
RulesEnabled(t) == RulesOf[t] \subseteq rules

\* apply_manual_run under the lock of the task row.  The operator's key makes
\* a repeated request find the run it made: that changes nothing.
ApplyManualRun(k) ==
  /\ run[k] = "none"
  /\ enabled[TaskOf[k]] /\ RulesEnabled(TaskOf[k])
  /\ PendingOf(TaskOf[k]) = {}
  /\ run' = [run EXCEPT ![k] = "pending"]
  /\ UNCHANGED <<receipts, raws, stored, looked, settings>>

RequestManualRun(k) == k \in ManualKeys \ RetryKeys /\ ApplyManualRun(k)

\* The failed files of a failed run become the fixed inputs of its retry.
RequestRetryRun(k) ==
  /\ k \in RetryKeys
  /\ run[RetryOf[k]] = "failed"
  /\ FailedFiles(RetryOf[k]) = RetryTargets[k]
  /\ ApplyManualRun(k)

\* Mutant: the waiting runs are left waiting.
SetTaskEnabledOnly(t, value) ==
  /\ switches < MaxSwitches /\ switches' = switches + 1
  /\ enabled' = [enabled EXCEPT ![t] = value]
  /\ UNCHANGED <<run, receipts, raws, stored, looked, rules>>

\* Disabling a task ends its waiting manual runs in the same transaction; a task
\* is enabled only with all its rules.
SetTaskEnabled(t, value) ==
  /\ switches < MaxSwitches /\ switches' = switches + 1
  /\ value => RulesEnabled(t)
  /\ run' = [k \in Keys |-> IF ~value /\ k \in PendingOf(t) THEN "failed" ELSE run[k]]
  /\ enabled' = [enabled EXCEPT ![t] = value]
  /\ UNCHANGED <<receipts, raws, stored, looked, rules>>

OperatorCommand ==
  \/ \E k \in Keys : RequestManualRun(k) \/ RequestRetryRun(k)
  \/ \E t \in Tasks, value \in BOOLEAN : SetTaskEnabled(t, value)

\* UPDATE qc_rules SET enabled, by hand
SwitchRule(r) ==
  /\ switches < MaxSwitches /\ switches' = switches + 1
  /\ rules' = IF r \in rules THEN rules \ {r} ELSE rules \cup {r}
  /\ UNCHANGED <<run, receipts, raws, stored, looked, enabled>>

-----------------------------------------------------------------------------

ControlInit ==
  /\ run = [k \in Keys |-> "none"]
  /\ receipts = [k \in Keys |-> {}]
  /\ raws = [k \in Keys |-> [f \in Files |-> 0]]
  /\ stored = [k \in Keys |-> [f \in Files |-> 0]]
  /\ looked = {}
  /\ enabled = [t \in Tasks |-> TRUE]
  /\ rules = Rules
  /\ switches = 0

ControlNext ==
  \/ \E q \in Requests, answer \in Answers : Handle(q, answer)
  \/ (\E q \in Requests : LookAtRun(q)) \/ HandlersGone
  \/ OperatorCommand
  \/ \E r \in Rules : SwitchRule(r)

ControlSpec == ControlInit /\ [][ControlNext]_controlVars

-----------------------------------------------------------------------------
(* Properties.                                                             *)

ControlTypeOK ==
  /\ run \in [Keys -> RunStatus] /\ \A k \in ScheduledKeys : run[k] # "pending"
  /\ receipts \in [Keys -> SUBSET Requests]
  /\ raws \in [Keys -> [Files -> Nat]]
  /\ stored \in [Keys -> [Files -> Nat]]
  /\ looked \in SUBSET Keys
  /\ enabled \in [Tasks -> BOOLEAN] /\ rules \in SUBSET Rules
  /\ switches \in 0..MaxSwitches

\* However often and in whatever order manifests and reports arrive, a run has
\* at most one raw file row per file, and the records of a file are stored at
\* most once and under such a row.
StoredOnce ==
  \A k \in Keys, f \in Files :
    raws[k][f] <= 1 /\ stored[k][f] <= raws[k][f]

\* A receipt stands for exactly the effects of its request, so that answering
\* a repetition from it tells the truth; and there are no effects without one.
ReceiptsTellEffects ==
  \A k \in Keys :
    /\ \A p, q \in receipts[k] : p.type = q.type => p = q
    /\ \A f \in Files :
         /\ raws[k][f] = 1 <=> \E q \in Receipt(k, "manifest") : f \in q.manifest
         /\ stored[k][f] = 1 <=> \E q \in Receipt(k, "report") : f \in q.report.records
    /\ \A q \in Receipt(k, "report") : run[k] = q.report.status
    /\ run[k] = "succeeded" => Receipt(k, "report") # {}

\* A manual request and the disabling of its task, whichever comes first: at
\* most one manual run of a task waits, and none of a disabled task.
PendingIsDue ==
  \A t \in Tasks :
    /\ \A k, other \in PendingOf(t) : k = other
    /\ PendingOf(t) # {} => enabled[t]

\* What has ended stays as it ended, late requests notwithstanding.  A run that
\* was called off is the exception: a report of it that was being handled then,
\* and had found it waiting, ends it once more (find_by_id without a lock, and an
\* UPDATE whatever the status).  No other run, and none a report has ended.
RunsEndOnce ==
  [][\A k \in Keys : run[k] \in Terminal =>
       \/ run'[k] = run[k] /\ stored'[k] = stored[k]
       \/ /\ k \in ManualKeys /\ run[k] = "failed"
          /\ k \in looked /\ Receipt(k, "report") = {}]_controlVars
=============================================================================
