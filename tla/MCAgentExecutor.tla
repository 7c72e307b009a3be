--------------------------- MODULE MCAgentExecutor ---------------------------
(* The worker thread for TLC: one scheduled slot and one manual or retry     *)
(* request of the same task, so that the two compete for the same files.     *)
EXTENDS AgentExecutor

CONSTANTS slot, manual, task, f1, f2

MCTaskOf == [k \in Keys |-> task]

NoTargets == [k \in Keys |-> {}]

\* manual is a retry of one of the files
RetryOfOne == [k \in Keys |-> IF k = manual THEN {f1} ELSE {}]
=============================================================================
