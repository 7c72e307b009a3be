------------------------------ MODULE Exchange ------------------------------
(***************************************************************************)
(* What one exchange with the control plane promises its caller in the      *)
(* agent, who drops a job that is refused, stops when its credential is     *)
(* rejected, and asks again otherwise.                                      *)
(***************************************************************************)
CONSTANTS Questions, Reports  \* the Reports among them leave a receipt

VARIABLES
  question,  \* what was asked last
  known,     \* whether the credential is the one of the node that asks
  kept,      \* the reports whose effects the control plane has
  decided,   \* how the control plane decided since it was asked
  outcome    \* what the caller is told

vars == <<question, known, kept, decided, outcome>>

Decisions == {"accepted", "refused"}
Outcomes == {"answered", "refused", "auth", "again"}

ExchangeInit ==
  /\ question \in Questions /\ known \in BOOLEAN
  /\ kept = {} /\ decided = {} /\ outcome = "none"

Ask(q) ==
  /\ outcome # "waiting"
  /\ question' = q /\ decided' = {} /\ outcome' = "waiting"
  /\ UNCHANGED <<known, kept>>

\* The question is decided, as often as it is handled: nothing is kept of what
\* is refused, and a report that is accepted is kept.
Decide(d) ==
  /\ outcome = "waiting" /\ known
  /\ decided' = decided \cup {d}
  /\ IF d = "accepted" /\ question \in Reports THEN kept' = kept \cup {question} ELSE UNCHANGED kept
  /\ UNCHANGED <<question, known, outcome>>

\* A question that was asked before is handled after all.
KeepLate(q) ==
  /\ known /\ q \in Reports
  /\ kept' = kept \cup {q}
  /\ UNCHANGED <<question, known, decided, outcome>>

\* "again" may always be said: the caller then knows nothing.
True(o) ==
  \/ o = "again"
  \/ o = "answered" /\ "accepted" \in decided
  \/ o = "refused" /\ "refused" \in decided
  \/ o = "auth" /\ ~known

Tell(o) ==
  /\ outcome = "waiting" /\ True(o)
  /\ outcome' = o
  /\ UNCHANGED <<question, known, kept, decided>>

ExchangeNext ==
  \/ \E q \in Questions : Ask(q) \/ KeepLate(q)
  \/ \E d \in Decisions : Decide(d)
  \/ \E o \in Outcomes : Tell(o)

\* Whatever becomes of the network and the control plane, the caller is told.
ExchangeSpec ==
  /\ ExchangeInit /\ [][ExchangeNext]_vars
  /\ WF_vars(\E o \in Outcomes : Tell(o))
=============================================================================
