---------------------------- MODULE MCAgentProcess ----------------------------
(* The agent process for TLC: two tasks whose ids sort by number, before and  *)
(* after midnight at the end of a February of a leap year.                   *)
EXTENDS AgentProcess, TLC

CONSTANTS often, daily, broken, request

\* 28 February 2024, 23:58
MCBase == 28486078

MCHorizon == MCBase + 2

MCCronOf == [v \in Versions |->
  CASE v = often -> <<Every, Every, Every, Every, Every>>
    [] v = daily -> <<Step(30), Number(0), Number(29), Number(2), Every>>
    [] v = broken -> <<Every, Number(24), Every, Every, Every>>]

\* Both tasks and a request; one task gone for its broken expression, the other
\* changed.
MCConfigs ==
  {[tasks |-> (9 :> often) @@ (10 :> daily), pending |-> <<request>>],
   [tasks |-> (9 :> broken) @@ (10 :> often), pending |-> <<>>]}

MCCandidateTask == [c \in Candidates |-> 10]
=============================================================================
