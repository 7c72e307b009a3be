------------------------- MODULE MCReliableReporting -------------------------
(* Agent and control plane for TLC: a slot and a manual or retry request of  *)
(* one task.                                                                 *)
EXTENDS ReliableReporting

CONSTANTS slot, manual, task, f1, f2, r1

MCTaskOf == [k \in Keys |-> task]

MCRulesOf == [t \in Tasks |-> Rules]

NoTargets == [k \in Keys |-> {}]
NoRetries == [k \in {} |-> slot]

\* manual is a retry of the slot's file
RetryOfOne == [k \in Keys |-> IF k = manual THEN {f1} ELSE {}]
RetryOfSlot == [k \in {manual} |-> slot]
=============================================================================
