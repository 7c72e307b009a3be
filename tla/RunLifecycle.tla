---------------------------- MODULE RunLifecycle ----------------------------
(***************************************************************************)
(* What a user of the system is promised about a run: it begins once, ends  *)
(* once, and its records appear with its end, once each, whatever is        *)
(* repeated, lost or restarted in between.                                  *)
(***************************************************************************)
EXTENDS Naturals

CONSTANTS Keys, ManualKeys, Files

VARIABLES
  status,     \* of the run of each execution key
  delivered   \* how often the records of a file are stored for a run

lifecycleVars == <<status, delivered>>

LifecycleInit ==
  /\ status = [k \in Keys |-> "none"]
  /\ delivered = [k \in Keys |-> [f \in Files |-> 0]]

\* A slot begins when it is due.
BeginScheduled(k) ==
  /\ k \in Keys \ ManualKeys /\ status[k] = "none"
  /\ status' = [status EXCEPT ![k] = "running"]
  /\ UNCHANGED delivered

\* A manual run waits for the agent first ...
Request(k) ==
  /\ k \in ManualKeys /\ status[k] = "none"
  /\ status' = [status EXCEPT ![k] = "pending"]
  /\ UNCHANGED delivered

BeginManual(k) ==
  /\ status[k] = "pending"
  /\ status' = [status EXCEPT ![k] = "running"]
  /\ UNCHANGED delivered

\* ... and may be called off while it waits, together with others.
CallOff(S) ==
  /\ \A k \in S : status[k] = "pending"
  /\ status' = [k \in Keys |-> IF k \in S THEN "failed" ELSE status[k]]
  /\ UNCHANGED delivered

\* A run ends, and its records are there.
Finish(k) ==
  /\ status[k] = "running"
  /\ \E outcome \in {"succeeded", "failed"} :
        status' = [status EXCEPT ![k] = outcome]
  /\ \E stored \in [Files -> {0, 1}] : delivered' = [delivered EXCEPT ![k] = stored]

LifecycleNext ==
  \/ \E k \in Keys : BeginScheduled(k) \/ Request(k) \/ BeginManual(k) \/ Finish(k)
  \/ \E S \in SUBSET ManualKeys : CallOff(S)

LifecycleSpec == LifecycleInit /\ [][LifecycleNext]_lifecycleVars
=============================================================================
