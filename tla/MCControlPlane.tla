--------------------------- MODULE MCControlPlane ---------------------------
(* The control plane for TLC: a slot, a manual request and a retry of the    *)
(* slot's file, all of one task.                                             *)
EXTENDS ControlService

CONSTANTS slot, manual, retry, task, f1, source, r1, r2

MCTaskOf == [k \in Keys |-> task]

MCRetryTargets == [k \in Keys |-> IF k = retry THEN {f1} ELSE {}]

MCRetryOf == [k \in {retry} |-> slot]

\* every record fails one of its checks and passes the other
MCFaulty == Keys \X (Lines \X {r1})

MCSourceOf == [t \in Tasks |-> source]

MCRulesOf == [t \in Tasks |-> Rules]

StartOf(k) == [type |-> "start", key |-> k, manifest |-> {}, report |-> NoReport]

ManifestOf(k) == [type |-> "manifest", key |-> k, manifest |-> {f1}, report |-> NoReport]

ReportOf(k, status, failed) ==
  [type |-> "report", key |-> k, manifest |-> {},
   report |-> [status |-> status, failed |-> failed, records |-> {f1}]]

\* The slot fails on its file, the manual run succeeds.
MCTraffic ==
  {StartOf(slot), StartOf(manual), ManifestOf(slot), ManifestOf(manual),
   ReportOf(slot, "failed", {f1}), ReportOf(manual, "succeeded", {})}

MCQuestions == {StartOf(manual), ManifestOf(manual), ReportOf(manual, "succeeded", {})}

MCLarge == {ManifestOf(manual)}
=============================================================================
