------------------------------- MODULE Evidence -------------------------------
(***************************************************************************)
(* What the archive promises: a file that is recorded as archived has a     *)
(* copy nothing but an outsider can take away, not even a loss of power.    *)
(***************************************************************************)
EXTENDS FiniteSets

CONSTANT Files

VARIABLES
  stored,     \* files whose complete copy outlives any failure
  recorded,   \* files recorded as archived
  damaged     \* files whose copy somebody has altered

evidenceVars == <<stored, recorded, damaged>>

EvidenceInit == stored = {} /\ recorded = {} /\ damaged = {}

Store == stored' \in SUBSET Files /\ stored \subseteq stored' /\ UNCHANGED <<recorded, damaged>>

Record(f) ==
  /\ f \in stored \/ f \in damaged
  /\ recorded' = recorded \cup {f} /\ UNCHANGED <<stored, damaged>>

\* The copy stays; the file is told to have failed.
Withdraw(f) == recorded' = recorded \ {f} /\ UNCHANGED <<stored, damaged>>

Damage(f) ==
  /\ stored' = stored \ {f} /\ damaged' = damaged \cup {f} /\ UNCHANGED recorded

EvidenceSpec ==
  EvidenceInit /\ [][Store \/ \E f \in Files : Record(f) \/ Withdraw(f) \/ Damage(f)]_evidenceVars
=============================================================================
