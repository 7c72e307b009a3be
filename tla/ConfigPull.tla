----------------------------- MODULE ConfigPull -----------------------------
(***************************************************************************)
(* The configuration an agent pulls (find_config on the control plane,      *)
(* fetch_config in the agent): what may be run now, and the manual runs     *)
(* that wait.  The control plane reads it in one session but without a      *)
(* transaction: each statement sees the database as it is at its time.      *)
(*                                                                         *)
(* Data sources, too, are switched on and off in the database by hand; the  *)
(* control plane only looks whether they are on.  They and the quality      *)
(* rules are of kinds the agent knows.                                      *)
(***************************************************************************)
EXTENDS ControlPlane

CONSTANTS
  Sources,
  SourceOf,     \* the data source of each task
  MaxEdits      \* bound on the switching of sources

ASSUME ConfigAssumption ==
  /\ SourceOf \in [Tasks -> Sources]
  /\ MaxEdits \in Nat

VARIABLES
  on,       \* the data sources that are enabled
  edits,
  pull,     \* what the statements of a pull have found, and which is next
  touched   \* what has changed since the pull began

configVars == <<on, edits, pull, touched>>

NoPull == [next |-> "none", tasks |-> {}, sources |-> {}, bindings |-> {}, pending |-> {}]

EnabledTasks == {t \in Tasks : enabled[t]}

-----------------------------------------------------------------------------
(* The statements of find_config, one after the other.                     *)

StartPull ==
  /\ pull.next \in {"none", "over"}
  /\ pull' = [NoPull EXCEPT !.next = "tasks"] /\ touched' = {}
  /\ UNCHANGED <<on, edits>>

FindEnabledTasks ==
  /\ pull.next = "tasks"
  /\ pull' = [pull EXCEPT !.next = "sources", !.tasks = EnabledTasks]
  /\ UNCHANGED <<on, edits, touched>>

\* enabled, and an enabled task needs it
FindEnabledDataSources ==
  /\ pull.next = "sources"
  /\ pull' = [pull EXCEPT !.next = "bindings",
                          !.sources = {s \in on : \E t \in EnabledTasks : SourceOf[t] = s}]
  /\ UNCHANGED <<on, edits, touched>>

\* Mutant: whether the rule is enabled is not looked at.
FindTaskQcRules ==
  /\ pull.next = "bindings"
  /\ pull' = [pull EXCEPT !.next = "pending",
                          !.bindings = {b \in Tasks \X Rules :
                            /\ b[2] \in RulesOf[b[1]]
                            /\ b[1] \in EnabledTasks /\ SourceOf[b[1]] \in on}]
  /\ UNCHANGED <<on, edits, touched>>

\* the task, its source and the rule are enabled
FindEnabledTaskQcRules ==
  /\ pull.next = "bindings"
  /\ pull' = [pull EXCEPT !.next = "pending",
                          !.bindings = {b \in Tasks \X Rules :
                            /\ b[2] \in RulesOf[b[1]] \cap rules
                            /\ b[1] \in EnabledTasks /\ SourceOf[b[1]] \in on}]
  /\ UNCHANGED <<on, edits, touched>>

FindPendingExecutions ==
  /\ pull.next = "pending"
  /\ pull' = [pull EXCEPT !.next = "over", !.pending = {k \in ManualKeys : run[k] = "pending"}]
  /\ UNCHANGED <<on, edits, touched>>

\* The timeout of the agent, or a statement that fails: no configuration.
PullFails ==
  /\ pull.next \notin {"none", "over"}
  /\ pull' = NoPull
  /\ UNCHANGED <<on, edits, touched>>

\* A task whose source was not found is left out.  What is left of a task is
\* put together from what the statements have found.
Received == {t \in pull.tasks : SourceOf[t] \in pull.sources}

RulesReceived(t) == {r \in Rules : <<t, r>> \in pull.bindings}

-----------------------------------------------------------------------------
(* What changes meanwhile.                                                 *)

\* UPDATE data_sources SET enabled
SwitchSource(s) ==
  /\ edits < MaxEdits /\ edits' = edits + 1
  /\ on' = IF s \in on THEN on \ {s} ELSE on \cup {s}
  /\ touched' = touched \cup {s}
  /\ UNCHANGED pull

\* The operator's commands; what is to run needs its source, too.
ExecutableCommand ==
  \/ \E k \in Keys : /\ SourceOf[TaskOf[k]] \in on
                     /\ RequestManualRun(k) \/ RequestRetryRun(k)
  \/ \E t \in Tasks, value \in BOOLEAN : /\ value => SourceOf[t] \in on
                                         /\ SetTaskEnabled(t, value)

\* What a step of the control plane changes is remembered.
PullMisses ==
  /\ touched' = touched \cup {t \in Tasks : enabled'[t] # enabled[t]}
                        \cup {k \in Keys : run'[k] # run[k]}
                        \cup {r \in Rules : (r \in rules') # (r \in rules)}
  /\ UNCHANGED <<on, edits, pull>>

-----------------------------------------------------------------------------

ConfigInit ==
  /\ on = Sources /\ edits = 0
  /\ pull = NoPull /\ touched = {}

ConfigStep ==
  \/ StartPull \/ FindEnabledTasks \/ FindEnabledDataSources \/ FindEnabledTaskQcRules
  \/ FindPendingExecutions \/ PullFails
  \/ \E s \in Sources : SwitchSource(s)

-----------------------------------------------------------------------------
(* Properties.                                                             *)

\* A configuration read while things change is never older than the pull: of
\* what did not change meanwhile it says exactly what is so now, also about the
\* rules of a task some of whose other rules are switched; a task in it was
\* enabled, with its source, at some time of the pull, and has no rule that is
\* not bound to it; no run is offered that neither waits nor waited.
PullIsCurrent ==
  pull.next = "over" =>
    /\ \A t \in Tasks :
         LET changed == {t, SourceOf[t]} \cap touched IN
         /\ t \in Received => enabled[t] \/ t \in touched
         /\ t \in Received => SourceOf[t] \in on \cup touched
         /\ RulesReceived(t) \subseteq RulesOf[t]
         /\ changed = {} =>
              /\ t \in Received <=> enabled[t] /\ SourceOf[t] \in on
              /\ \A r \in RulesOf[t] \ touched :
                   t \in Received => (r \in RulesReceived(t) <=> r \in rules)
    /\ \A k \in ManualKeys \ touched : k \in pull.pending <=> run[k] = "pending"
=============================================================================
