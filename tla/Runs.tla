--------------------------------- MODULE Runs ---------------------------------
(***************************************************************************)
(* What the agent and the control plane talk about: runs of tasks, each     *)
(* known by its execution key, and the report of a run.                     *)
(***************************************************************************)
EXTENDS Naturals, FiniteSets

CONSTANTS
  Keys,          \* execution keys, one per run the agent is asked to do
  ManualKeys,    \* the keys of manual and retry requests; the others are slots
  Tasks,
  TaskOf,        \* the task of each execution key
  Files,         \* versions of source files (path, size, mtime, hash)
  RetryTargets   \* retry_files: the fixed inputs of a retry, {} otherwise

ScheduledKeys == Keys \ ManualKeys

ASSUME RunsAssumption ==
  /\ IsFiniteSet(Keys) /\ IsFiniteSet(Files)
  /\ ManualKeys \subseteq Keys
  /\ TaskOf \in [Keys -> Tasks]
  /\ RetryTargets \in [Keys -> SUBSET Files]
  /\ \A k \in ScheduledKeys : RetryTargets[k] = {}

\* The body of a report.
Reports == [status : {"succeeded", "failed"},
            failed : SUBSET Files,    \* failed_files
            records : SUBSET Files]   \* files with parsed records in the body

NoReport == [status |-> "failed", failed |-> {}, records |-> {}]

RequestTypes == {"start", "manifest", "report"}

\* A request of the agent: to start a run, or with the files of a manifest or a
\* report.  Its idempotency key is made of key and type.
Requests ==
  [type : {"start"}, key : Keys, manifest : {{}}, report : {NoReport}]
  \cup [type : {"manifest"}, key : Keys, manifest : SUBSET Files, report : {NoReport}]
  \cup [type : {"report"}, key : Keys, manifest : {{}}, report : Reports]
=============================================================================
