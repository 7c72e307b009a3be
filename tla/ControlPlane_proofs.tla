------------------------ MODULE ControlPlane_proofs -------------------------
(***************************************************************************)
(* The safety of the control plane for every set of runs, and whatever      *)
(* requests arrive: nothing is assumed of the agent.                        *)
(***************************************************************************)
EXTENDS ControlPlane, TLAPS

\* ReceiptsTellEffects for one run, on its own rows.
EffectsOK(k) ==
  /\ \A p, q \in receipts[k] : p.type = q.type => p = q
  /\ \A f \in Files :
       /\ raws[k][f] = 1 <=> \E q \in Receipt(k, "manifest") : f \in q.manifest
       /\ stored[k][f] = 1 <=> \E q \in Receipt(k, "report") : f \in q.report.records
  /\ \A q \in Receipt(k, "report") : run[k] = q.report.status
  /\ run[k] = "succeeded" => Receipt(k, "report") # {}

OnceOK(k) == \A f \in Files : raws[k][f] <= 1 /\ stored[k][f] <= raws[k][f]

\* A slot is ended by its report only.
SlotsReported == \A k \in ScheduledKeys : run[k] \in Terminal => Receipt(k, "report") # {}

ControlInv ==
  ControlTypeOK /\ StoredOnce /\ ReceiptsTellEffects /\ PendingIsDue /\ SlotsReported

-----------------------------------------------------------------------------
\* A report that was taken has ended its run.
LEMMA ReportedIsOver ==
  ASSUME ControlInv, NEW k \in Keys, Receipt(k, "report") # {}
  PROVE  run[k] \in Terminal
<1>1. PICK q \in Receipt(k, "report") : TRUE OBVIOUS
<1>2. q \in Requests /\ q.type = "report" /\ run[k] = q.report.status
  BY <1>1 DEF ControlInv, ControlTypeOK, ReceiptsTellEffects, Receipt
<1>3. q.report \in Reports BY <1>2 DEF Requests
<1>. QED BY <1>2, <1>3 DEF Reports, Terminal

\* A step that moves runs which are not over, keeps the rows, and adds neither
\* "succeeded" nor a slot that is pending or over keeps everything but what is said
\* of pending.
LEMMA StatusChangeOK ==
  ASSUME ControlInv, UNCHANGED <<receipts, raws, stored>>,
         run' \in [Keys -> RunStatus],
         \A k \in Keys : run'[k] # run[k] => run[k] \notin Terminal /\ run'[k] # "succeeded",
         \A k \in ScheduledKeys : run'[k] = run[k] \/ run'[k] \notin {"pending"} \cup Terminal,
         looked' \in SUBSET Keys, enabled' \in [Tasks -> BOOLEAN],
         rules' \in SUBSET Rules, switches' \in 0..MaxSwitches
  PROVE  ControlTypeOK' /\ StoredOnce' /\ ReceiptsTellEffects' /\ SlotsReported'
<1>1. ControlTypeOK' /\ StoredOnce' BY DEF ControlInv, ControlTypeOK, StoredOnce
<1>2. ReceiptsTellEffects'
  <2> SUFFICES ASSUME NEW k \in Keys PROVE EffectsOK(k)'
    BY DEF ReceiptsTellEffects, EffectsOK
  <2>1. EffectsOK(k) BY DEF ControlInv, ReceiptsTellEffects, EffectsOK
  <2>2. Receipt(k, "report") # {} => run'[k] = run[k]
    BY ReportedIsOver
  <2>3. run'[k] = "succeeded" => run[k] = "succeeded" OBVIOUS
  <2>. QED BY <2>1, <2>2, <2>3 DEF EffectsOK, Receipt
<1>3. SlotsReported'
  BY DEF ControlInv, SlotsReported, Receipt
<1>. QED BY <1>1, <1>2, <1>3

\* A run that leaves or enters "pending" keeps PendingIsDue, unless it enters
\* beside another one or for a disabled task.
LEMMA PendingOK ==
  ASSUME ControlInv, UNCHANGED enabled,
         \A k \in ManualKeys : run'[k] = "pending" =>
           \/ run[k] = "pending"
           \/ enabled[TaskOf[k]] /\ PendingOf(TaskOf[k]) = {}
                /\ \A other \in ManualKeys \ {k} : run'[other] = run[other]
  PROVE  PendingIsDue'
BY RunsAssumption DEF ControlInv, PendingIsDue, PendingOf

-----------------------------------------------------------------------------
\* A step that leaves the runs, their rows and the tasks alone.
LEMMA QuietStep ==
  ASSUME ControlInv, UNCHANGED <<run, receipts, raws, stored, enabled>>,
         looked' \in SUBSET Keys, rules' \in SUBSET Rules, switches' \in 0..MaxSwitches
  PROVE  ControlInv'
BY DEF ControlInv, ControlTypeOK, StoredOnce, ReceiptsTellEffects, PendingIsDue, PendingOf,
       SlotsReported, Receipt

\* Looks, handlers that end with their process, and rules switched by hand.
LEMMA AsideStep ==
  ASSUME ControlInv,
         \/ \E q \in Requests : LookAtRun(q)
         \/ HandlersGone
         \/ \E r \in Rules : SwitchRule(r)
  PROVE  ControlInv' /\ UNCHANGED <<run, receipts, raws, stored>>
<1>0. looked \in SUBSET Keys /\ rules \in SUBSET Rules /\ switches \in 0..MaxSwitches
  BY DEF ControlInv, ControlTypeOK
<1>1. CASE \E q \in Requests : LookAtRun(q)
  <2>1. PICK q \in Requests : LookAtRun(q) BY <1>1
  <2>2. q.key \in Keys BY DEF Requests
  <2>3. /\ UNCHANGED <<run, receipts, raws, stored, enabled, rules, switches>>
        /\ looked' \in SUBSET Keys
    BY <1>0, <2>1, <2>2 DEF LookAtRun, settings
  <2>. QED BY <1>0, <2>3, QuietStep
<1>2. CASE HandlersGone
  BY <1>0, <1>2, QuietStep DEF HandlersGone, settings
<1>3. CASE \E r \in Rules : SwitchRule(r)
  <2>1. PICK r \in Rules : SwitchRule(r) BY <1>3
  <2>2. UNCHANGED <<run, receipts, raws, stored, looked, enabled>>
    BY <2>1 DEF SwitchRule
  <2>3. rules' \in SUBSET Rules BY <1>0, <2>1 DEF SwitchRule
  <2>4. switches' \in 0..MaxSwitches
    BY <1>0, <2>1, ControlPlaneAssumption DEF SwitchRule
  <2>. QED BY <1>0, <2>2, <2>3, <2>4, QuietStep
<1>. QED BY <1>1, <1>2, <1>3

LEMMA ControlInitOK == ControlInit => ControlInv
<1> SUFFICES ASSUME ControlInit PROVE ControlInv OBVIOUS
<1>1. ControlTypeOK
  BY ControlPlaneAssumption DEF ControlInit, ControlTypeOK, RunStatus, ScheduledKeys
<1>2. StoredOnce /\ ReceiptsTellEffects
  BY DEF ControlInit, StoredOnce, ReceiptsTellEffects, Receipt
<1>3. PendingIsDue
  BY RunsAssumption DEF ControlInit, PendingIsDue, PendingOf
<1>4. SlotsReported BY DEF ControlInit, SlotsReported, ScheduledKeys, Terminal
<1>. QED BY <1>1, <1>2, <1>3, <1>4 DEF ControlInv

LEMMA StartRequestStep ==
  ASSUME ControlInv, NEW k \in Keys, NEW answer \in Answers,
         StartScheduled(k, answer) \/ StartManual(k, answer)
  PROVE  ControlInv'
<1>1. /\ run' \in [Keys -> RunStatus]
      /\ UNCHANGED <<receipts, raws, stored, looked, enabled, rules, switches>>
  BY DEF ControlInv, ControlTypeOK, StartScheduled, StartManual, RunStatus, settings
<1>2. \A other \in Keys : run'[other] # run[other] =>
         run[other] \notin Terminal /\ run'[other] = "running"
  BY DEF ControlInv, ControlTypeOK, StartScheduled, StartManual, Terminal
<1>3. \A other \in ScheduledKeys :
         run'[other] = run[other] \/ run'[other] \notin {"pending"} \cup Terminal
  BY <1>2 DEF Terminal, ScheduledKeys
<1>4. ControlTypeOK' /\ StoredOnce' /\ ReceiptsTellEffects' /\ SlotsReported'
  BY <1>1, <1>2, <1>3, StatusChangeOK DEF ControlInv, ControlTypeOK
<1>5. PendingIsDue' BY <1>1, <1>2, PendingOK, RunsAssumption
<1>. QED BY <1>4, <1>5 DEF ControlInv

LEMMA CommandStep == ASSUME ControlInv, OperatorCommand PROVE ControlInv'
<1>1. CASE \E k \in Keys : RequestManualRun(k) \/ RequestRetryRun(k)
  <2>1. PICK k \in ManualKeys : ApplyManualRun(k)
    BY <1>1 DEF RequestManualRun, RequestRetryRun, RetryKeys
  <2>2. k \in Keys BY RunsAssumption
  <2>3. /\ run' = [run EXCEPT ![k] = "pending"] /\ run[k] = "none"
        /\ UNCHANGED <<receipts, raws, stored, looked, enabled, rules, switches>>
        /\ enabled[TaskOf[k]] /\ PendingOf(TaskOf[k]) = {}
    BY <2>1 DEF ApplyManualRun, settings
  <2>4. \A other \in Keys : other # k => run'[other] = run[other]
    BY <2>3 DEF ControlInv, ControlTypeOK
  <2>5. run'[k] = "pending" /\ run' \in [Keys -> RunStatus]
    BY <2>2, <2>3 DEF ControlInv, ControlTypeOK, RunStatus
  <2>6. \A other \in ScheduledKeys : run'[other] = run[other]
    BY <2>1, <2>4 DEF ScheduledKeys
  <2>7. ControlTypeOK' /\ StoredOnce' /\ ReceiptsTellEffects' /\ SlotsReported'
    BY <2>2, <2>3, <2>4, <2>5, <2>6, StatusChangeOK
       DEF ControlInv, ControlTypeOK, Terminal
  <2>8. PendingIsDue' BY <2>3, <2>4, PendingOK, RunsAssumption
  <2>. QED BY <2>7, <2>8 DEF ControlInv
<1>2. CASE \E t \in Tasks, value \in BOOLEAN : SetTaskEnabled(t, value)
  <2>1. PICK t \in Tasks, value \in BOOLEAN : SetTaskEnabled(t, value) BY <1>2
  <2>2. /\ enabled' = [enabled EXCEPT ![t] = value]
        /\ run' = [k \in Keys |-> IF ~value /\ k \in PendingOf(t) THEN "failed" ELSE run[k]]
        /\ UNCHANGED <<receipts, raws, stored, looked, rules>>
    BY <2>1 DEF SetTaskEnabled
  <2>3. switches' \in 0..MaxSwitches
    BY <2>1, ControlPlaneAssumption DEF SetTaskEnabled, ControlInv, ControlTypeOK
  <2>4. run' \in [Keys -> RunStatus]
    BY <2>2 DEF ControlInv, ControlTypeOK, RunStatus
  <2>5. \A k \in Keys : run'[k] # run[k] =>
           run[k] \notin Terminal /\ run'[k] = "failed"
    BY <2>2 DEF PendingOf, Terminal
  <2>6. \A k \in ScheduledKeys : run'[k] = run[k]
    BY <2>2 DEF PendingOf, ScheduledKeys
  <2>7. ControlTypeOK' /\ StoredOnce' /\ ReceiptsTellEffects' /\ SlotsReported'
    BY <2>2, <2>3, <2>4, <2>5, <2>6, StatusChangeOK DEF ControlInv, ControlTypeOK
  <2>8. PendingIsDue'
    <3> SUFFICES ASSUME NEW u \in Tasks
                 PROVE  /\ \A k, other \in PendingOf(u)' : k = other
                        /\ PendingOf(u)' # {} => enabled'[u]
      BY DEF PendingIsDue
    <3>1. PendingOf(u)' \subseteq PendingOf(u)
      BY <2>5, RunsAssumption DEF PendingOf
    <3>2. \A k, other \in PendingOf(u) : k = other BY DEF ControlInv, PendingIsDue
    <3>3. CASE u = t /\ ~value
      <4>1. PendingOf(u)' = {}
        BY <2>2, <3>1, <3>3, RunsAssumption DEF PendingOf
      <4>. QED BY <4>1
    <3>4. CASE u # t \/ value
      <4>1. (enabled'[u] = enabled[u]) \/ enabled'[u]
        BY <2>2, <3>4 DEF ControlInv, ControlTypeOK
      <4>2. PendingOf(u) # {} => enabled[u] BY DEF ControlInv, PendingIsDue
      <4>. QED BY <3>1, <3>2, <4>1, <4>2
    <3>. QED BY <3>3, <3>4
  <2>. QED BY <2>7, <2>8 DEF ControlInv
<1>. QED BY <1>1, <1>2 DEF OperatorCommand

\* The counts a claimed request leaves.
LEMMA CountedOnceOK ==
  ASSUME NEW counts \in [Keys -> [Files -> Nat]], NEW k \in Keys, NEW S
  PROVE  /\ CountedOnce(counts, k, S) \in [Keys -> [Files -> Nat]]
         /\ \A other \in Keys \ {k} : CountedOnce(counts, k, S)[other] = counts[other]
         /\ \A f \in Files : CountedOnce(counts, k, S)[k][f] =
              IF f \in S THEN counts[k][f] + 1 ELSE counts[k][f]
BY DEF CountedOnce

\* Without a receipt of its type a run has no effects of that type.
LEMMA NoReceiptNoEffect ==
  ASSUME ControlInv, NEW k \in Keys, NEW f \in Files
  PROVE  /\ Receipt(k, "manifest") = {} => raws[k][f] = 0
         /\ Receipt(k, "report") = {} => stored[k][f] = 0
<1>1. /\ raws[k][f] \in Nat /\ stored[k][f] \in Nat
      /\ raws[k][f] <= 1 /\ stored[k][f] <= raws[k][f]
  BY DEF ControlInv, ControlTypeOK, StoredOnce
<1>2. /\ Receipt(k, "manifest") = {} => raws[k][f] # 1
      /\ Receipt(k, "report") = {} => stored[k][f] # 1
  BY DEF ControlInv, ReceiptsTellEffects
<1>. QED BY <1>1, <1>2

LEMMA ManifestStep ==
  ASSUME ControlInv, NEW q \in Requests, NEW answer \in Answers,
         AcceptRawFileManifest(q, answer)
  PROVE  ControlInv'
<1> DEFINE k == q.key
<1>1. k \in Keys /\ q.type = "manifest" /\ q.manifest \subseteq Files
  BY DEF AcceptRawFileManifest, Requests
<1>2. /\ Receipt(k, "manifest") = {}
      /\ raws' = CountedOnce(raws, k, q.manifest)
      /\ receipts' = [receipts EXCEPT ![k] = @ \cup {q}]
      /\ UNCHANGED <<run, stored, looked, enabled, rules, switches>>
  BY <1>1 DEF AcceptRawFileManifest, Claimed, AddReceipt, settings
<1>3. /\ raws' \in [Keys -> [Files -> Nat]]
      /\ \A other \in Keys \ {k} : raws'[other] = raws[other]
      /\ \A f \in Files : raws'[k][f] = IF f \in q.manifest THEN 1 ELSE 0
  BY <1>1, <1>2, CountedOnceOK, NoReceiptNoEffect DEF ControlInv, ControlTypeOK
<1>4. /\ receipts' \in [Keys -> SUBSET Requests]
      /\ receipts'[k] = receipts[k] \cup {q}
      /\ \A other \in Keys \ {k} : receipts'[other] = receipts[other]
  BY <1>1, <1>2 DEF ControlInv, ControlTypeOK
<1>5. ControlTypeOK' BY <1>2, <1>3, <1>4 DEF ControlInv, ControlTypeOK
<1>6. /\ Receipt(k, "manifest")' = {q} /\ Receipt(k, "report")' = Receipt(k, "report")
  BY <1>1, <1>2, <1>4 DEF Receipt
<1>7. ASSUME NEW other \in Keys PROVE EffectsOK(other)' /\ OnceOK(other)'
  <2>1. EffectsOK(other) /\ OnceOK(other)
    BY DEF ControlInv, ReceiptsTellEffects, EffectsOK, StoredOnce, OnceOK
  <2>2. CASE other # k
    BY <1>2, <1>3, <1>4, <2>1, <2>2 DEF EffectsOK, OnceOK, Receipt
  <2>3. CASE other = k
    <3>1. \A f \in Files : stored[k][f] = 0
      <4> SUFFICES ASSUME NEW f \in Files PROVE stored[k][f] = 0 OBVIOUS
      <4>1. raws[k][f] = 0 BY <1>1, <1>2, NoReceiptNoEffect
      <4>. QED BY <1>1, <2>1, <2>3, <4>1 DEF OnceOK, ControlInv, ControlTypeOK
    <3>2. OnceOK(k)' BY <1>2, <1>3, <3>1 DEF OnceOK
    <3>3. \A p, r \in receipts'[k] : p.type = r.type => p = r
      BY <1>1, <1>2, <1>4, <2>1, <2>3 DEF EffectsOK, Receipt
    <3>4. \A f \in Files :
            /\ raws'[k][f] = 1 <=> \E r \in Receipt(k, "manifest")' : f \in r.manifest
            /\ stored'[k][f] = 1 <=> \E r \in Receipt(k, "report")' : f \in r.report.records
      BY <1>2, <1>3, <1>6, <2>1, <2>3 DEF EffectsOK
    <3>5. EffectsOK(k)' BY <1>2, <1>6, <2>1, <2>3, <3>3, <3>4 DEF EffectsOK
    <3>. QED BY <2>3, <3>2, <3>5
  <2>. QED BY <2>2, <2>3
<1>8. StoredOnce' /\ ReceiptsTellEffects'
  BY <1>7 DEF StoredOnce, OnceOK, ReceiptsTellEffects, EffectsOK
<1>9. PendingIsDue' BY <1>2 DEF ControlInv, PendingIsDue, PendingOf
<1>10. SlotsReported'
  BY <1>2, <1>4, <1>6 DEF ControlInv, SlotsReported, ScheduledKeys, Receipt
<1>. QED BY <1>5, <1>8, <1>9, <1>10 DEF ControlInv

LEMMA ReportStep ==
  ASSUME ControlInv, NEW q \in Requests, NEW answer \in Answers,
         AcceptTaskRunReport(q, answer)
  PROVE  ControlInv'
<1> DEFINE k == q.key
<1>1. k \in Keys /\ q.type = "report" /\ q.report \in Reports
  BY DEF AcceptTaskRunReport, Requests
<1>2. CASE UNCHANGED <<run, stored, looked, receipts>>
  <2>1. UNCHANGED <<run, receipts, raws, stored, looked, enabled, rules, switches>>
    BY <1>2 DEF AcceptTaskRunReport, settings
  <2>. QED BY <2>1, QuietStep DEF ControlInv, ControlTypeOK
<1>3. CASE ~UNCHANGED <<run, stored, looked, receipts>>
  <2>1. /\ Receipt(k, "report") = {} /\ looked' = looked \ {k}
        /\ \A f \in q.report.records : raws[k][f] > 0
        /\ stored' = CountedOnce(stored, k, q.report.records)
        /\ run' = [run EXCEPT ![k] = q.report.status]
        /\ receipts' = [receipts EXCEPT ![k] = @ \cup {q}]
        /\ UNCHANGED <<raws, enabled, rules, switches>>
    BY <1>1, <1>3 DEF AcceptTaskRunReport, Claimed, AddReceipt, ReportIsValid, settings
  <2>2. q.report.status \in Terminal /\ q.report.records \subseteq Files
    BY <1>1 DEF Reports, Terminal
  <2>3. /\ stored' \in [Keys -> [Files -> Nat]]
        /\ \A other \in Keys \ {k} : stored'[other] = stored[other]
        /\ \A f \in Files : stored'[k][f] = IF f \in q.report.records THEN 1 ELSE 0
    BY <1>1, <2>1, CountedOnceOK, NoReceiptNoEffect DEF ControlInv, ControlTypeOK
  <2>4. /\ receipts' \in [Keys -> SUBSET Requests]
        /\ receipts'[k] = receipts[k] \cup {q}
        /\ \A other \in Keys \ {k} : receipts'[other] = receipts[other]
    BY <1>1, <2>1 DEF ControlInv, ControlTypeOK
  <2>5. /\ run' \in [Keys -> RunStatus] /\ run'[k] = q.report.status
        /\ \A other \in Keys \ {k} : run'[other] = run[other]
    BY <1>1, <2>1, <2>2 DEF ControlInv, ControlTypeOK, RunStatus, Terminal
  <2>6. \A other \in ScheduledKeys : run'[other] # "pending"
    BY <2>2, <2>5 DEF ControlInv, ControlTypeOK, ScheduledKeys, Terminal
  <2>7. ControlTypeOK'
    BY <2>1, <2>3, <2>4, <2>5, <2>6 DEF ControlInv, ControlTypeOK
  <2>8. Receipt(k, "report")' = {q} /\ Receipt(k, "manifest")' = Receipt(k, "manifest")
    BY <1>1, <2>1, <2>4 DEF Receipt
  <2>9. ASSUME NEW other \in Keys PROVE EffectsOK(other)' /\ OnceOK(other)'
    <3>1. EffectsOK(other) /\ OnceOK(other)
      BY DEF ControlInv, ReceiptsTellEffects, EffectsOK, StoredOnce, OnceOK
    <3>2. CASE other # k
      BY <2>1, <2>3, <2>4, <2>5, <3>1, <3>2 DEF EffectsOK, OnceOK, Receipt
    <3>3. CASE other = k
      <4>1. OnceOK(k)'
        <5> SUFFICES ASSUME NEW f \in Files
                     PROVE  raws'[k][f] <= 1 /\ stored'[k][f] <= raws'[k][f]
          BY DEF OnceOK
        <5>1. raws[k][f] \in Nat /\ raws[k][f] <= 1
          BY <1>1, <3>1, <3>3 DEF OnceOK, ControlInv, ControlTypeOK
        <5>2. f \in q.report.records => raws[k][f] > 0 BY <2>1
        <5>. QED BY <2>1, <2>3, <5>1, <5>2
      <4>2. \A p, r \in receipts'[k] : p.type = r.type => p = r
        BY <1>1, <2>1, <2>4, <3>1, <3>3 DEF EffectsOK, Receipt
      <4>3. \A f \in Files :
              /\ raws'[k][f] = 1 <=> \E r \in Receipt(k, "manifest")' : f \in r.manifest
              /\ stored'[k][f] = 1 <=> \E r \in Receipt(k, "report")' : f \in r.report.records
        BY <2>1, <2>3, <2>8, <3>1, <3>3 DEF EffectsOK
      <4>4. EffectsOK(k)' BY <2>5, <2>8, <4>2, <4>3 DEF EffectsOK
      <4>. QED BY <3>3, <4>1, <4>4
    <3>. QED BY <3>2, <3>3
  <2>10. StoredOnce' /\ ReceiptsTellEffects'
    BY <2>9 DEF StoredOnce, OnceOK, ReceiptsTellEffects, EffectsOK
  <2>11. PendingIsDue'
    <3>1. \A other \in Keys : run'[other] = "pending" => run[other] = "pending"
      BY <2>2, <2>5 DEF Terminal
    <3>. QED BY <2>1, <3>1, PendingOK, RunsAssumption
  <2>12. SlotsReported'
    BY <2>4, <2>5, <2>8 DEF ControlInv, SlotsReported, ScheduledKeys, Receipt
  <2>. QED BY <2>7, <2>10, <2>11, <2>12 DEF ControlInv
<1>. QED BY <1>2, <1>3

\* The invariant is kept by whatever is handled.
LEMMA HandleStep ==
  ASSUME ControlInv, NEW q \in Requests, NEW answer \in Answers, Handle(q, answer)
  PROVE  ControlInv'
<1>1. CASE Replayed(q, answer) \/ Refused(q, answer)
  <2>1. UNCHANGED <<run, receipts, raws, stored, looked, enabled, rules, switches>>
    BY <1>1 DEF Replayed, Refused, controlVars, settings
  <2>. QED BY <2>1, QuietStep DEF ControlInv, ControlTypeOK
<1>2. CASE StartScheduled(q.key, answer) \/ StartManual(q.key, answer)
  <2>1. q.key \in Keys BY DEF Requests
  <2>. QED BY <1>2, <2>1, StartRequestStep
<1>. QED BY <1>1, <1>2, ManifestStep, ReportStep DEF Handle

LEMMA ControlStutter == ControlInv /\ UNCHANGED controlVars => ControlInv'
BY QuietStep DEF controlVars, settings, ControlInv, ControlTypeOK

LEMMA ControlNextOK == ControlInv /\ [ControlNext]_controlVars => ControlInv'
BY HandleStep, CommandStep, AsideStep, ControlStutter DEF ControlNext

\* What the handlers and commands keep true, whatever requests arrive.
THEOREM ControlInvariance == ControlSpec => []ControlInv
<1>. QED BY ControlInitOK, ControlNextOK, PTL DEF ControlSpec

\* The rows have their types, and a slot is never pending.
THEOREM ControlTypeCorrect == ControlSpec => []ControlTypeOK
<1>1. ControlInv => ControlTypeOK BY DEF ControlInv
<1>. QED BY <1>1, ControlInvariance, PTL

\* No repetition of any request stores a file or its records twice.
THEOREM NothingStoredTwice == ControlSpec => []StoredOnce
<1>1. ControlInv => StoredOnce BY DEF ControlInv
<1>. QED BY <1>1, ControlInvariance, PTL

\* A receipt stands for exactly what its request did.
THEOREM ReceiptsTruthful == ControlSpec => []ReceiptsTellEffects
<1>1. ControlInv => ReceiptsTellEffects BY DEF ControlInv
<1>. QED BY <1>1, ControlInvariance, PTL

\* One manual run of a task waits at most, and none of a disabled task.
THEOREM PendingAlwaysDue == ControlSpec => []PendingIsDue
<1>1. ControlInv => PendingIsDue BY DEF ControlInv
<1>. QED BY <1>1, ControlInvariance, PTL

\* What has ended stays as it ended; only a manual run that was called off may be
\* ended once more, by the report of a handler that had found it waiting, and then
\* never again: a run with the receipt of a report is final.
THEOREM EndsOnce == ControlSpec => RunsEndOnce
<1> DEFINE Over == \A k \in Keys : run[k] \in Terminal =>
                     \/ run'[k] = run[k] /\ stored'[k] = stored[k]
                     \/ /\ k \in ManualKeys /\ run[k] = "failed"
                        /\ k \in looked /\ Receipt(k, "report") = {}
<1>1. ControlInv /\ [ControlNext]_controlVars => [Over]_controlVars
  <2> DEFINE Kept(k) == run'[k] = run[k] /\ stored'[k] = stored[k]
             CalledOff(k) == /\ k \in ManualKeys /\ run[k] = "failed"
                             /\ k \in looked /\ Receipt(k, "report") = {}
  <2> SUFFICES ASSUME ControlInv, ControlNext, NEW k \in Keys, run[k] \in Terminal
               PROVE  Kept(k) \/ CalledOff(k)
    OBVIOUS
  <2>1. ASSUME NEW q \in Requests, NEW answer \in Answers, Handle(q, answer)
        PROVE  Kept(k) \/ CalledOff(k)
    <3>1. CASE Replayed(q, answer) \/ Refused(q, answer)
      BY <3>1 DEF Replayed, Refused, controlVars
    <3>2. CASE StartScheduled(q.key, answer) \/ StartManual(q.key, answer)
      BY <3>2 DEF StartScheduled, StartManual, ControlInv, ControlTypeOK, Terminal
    <3>3. CASE AcceptRawFileManifest(q, answer)
      BY <3>3 DEF AcceptRawFileManifest
    <3>4. CASE AcceptTaskRunReport(q, answer)
      <4>1. CASE UNCHANGED <<run, stored, looked, receipts>> BY <4>1
      <4>2. CASE ~UNCHANGED <<run, stored, looked, receipts>>
        <5>1. /\ q.key \in Keys /\ q.type = "report" /\ Receipt(q.key, q.type) = {}
              /\ run[q.key] \in Terminal => q.key \in looked
              /\ stored' = CountedOnce(stored, q.key, q.report.records)
              /\ run' = [run EXCEPT ![q.key] = q.report.status]
          BY <2>1, <3>4, <4>2 DEF AcceptTaskRunReport, Claimed, Requests
        <5>2. CASE k # q.key
          <6>1. stored'[k] = stored[k]
            BY <5>1, <5>2, CountedOnceOK DEF ControlInv, ControlTypeOK
          <6>. QED BY <5>1, <5>2, <6>1 DEF ControlInv, ControlTypeOK
        <5>3. CASE k = q.key
          <6>1. k \in looked /\ Receipt(k, "report") = {} BY <5>1, <5>3
          <6>2. k \in ManualKeys /\ run[k] = "failed"
            BY <6>1 DEF ControlInv, SlotsReported, ReceiptsTellEffects, ScheduledKeys, Terminal
          <6>. QED BY <6>1, <6>2
        <5>. QED BY <5>2, <5>3
      <4>. QED BY <4>1, <4>2
    <3>. QED BY <2>1, <3>1, <3>2, <3>3, <3>4 DEF Handle
  <2>2. CASE OperatorCommand
    BY <2>2 DEF OperatorCommand, RequestManualRun, RequestRetryRun, ApplyManualRun,
                SetTaskEnabled, PendingOf, ControlInv, ControlTypeOK, Terminal
  <2>3. CASE \/ \E q \in Requests : LookAtRun(q)
             \/ HandlersGone
             \/ \E r \in Rules : SwitchRule(r)
    BY <2>3, AsideStep
  <2>. QED BY <2>1, <2>2, <2>3 DEF ControlNext
<1>. QED BY <1>1, ControlInvariance, PTL DEF ControlSpec, RunsEndOnce

-----------------------------------------------------------------------------
(* What one step does to a run, for those who work for it.                 *)

\* One request of the agent: what it may do to the rows of its run.
LEMMA HandleEffects ==
  ASSUME ControlInv, NEW q \in Requests, NEW answer \in Answers, Handle(q, answer)
  PROVE  \/ UNCHANGED <<run, receipts, raws, stored, looked>>
         \/ /\ q.type = "start" /\ answer = "running" /\ run[q.key] \in {"none", "pending"}
            /\ run[q.key] = "none" => q.key \in ScheduledKeys
            /\ run' = [run EXCEPT ![q.key] = "running"]
            /\ UNCHANGED <<receipts, raws, stored, looked>>
         \/ /\ q.type = "manifest" /\ answer = "accepted" /\ Claimed(q)
            /\ raws' = CountedOnce(raws, q.key, q.manifest) /\ AddReceipt(q)
            /\ UNCHANGED <<run, stored, looked>>
         \/ /\ q.type = "report" /\ answer = "accepted" /\ Claimed(q)
            /\ run[q.key] \in Terminal => q.key \in looked
            /\ run' = [run EXCEPT ![q.key] = q.report.status]
            /\ stored' = CountedOnce(stored, q.key, q.report.records) /\ AddReceipt(q)
            /\ looked' = looked \ {q.key} /\ UNCHANGED raws
<1>1. q.key \in Keys /\ run \in [Keys -> RunStatus]
  BY DEF Requests, ControlInv, ControlTypeOK
<1>2. CASE q.type # "start" /\ (Replayed(q, answer) \/ Refused(q, answer))
  BY <1>2 DEF Replayed, Refused, controlVars
<1>3. CASE q.type = "start" /\ StartScheduled(q.key, answer)
  <2>1. CASE run' = run
    BY <1>3, <2>1 DEF StartScheduled
  <2>2. CASE run' # run
    <3>1. run[q.key] = "none" /\ answer = "running" /\ q.key \in ScheduledKeys
          /\ run' = [run EXCEPT ![q.key] = "running"]
      BY <1>1, <1>3, <2>2 DEF StartScheduled
    <3> QED BY <1>3, <3>1 DEF StartScheduled
  <2> QED BY <2>1, <2>2
<1>4. CASE q.type = "start" /\ StartManual(q.key, answer)
  BY <1>4 DEF StartManual
<1>5. CASE AcceptRawFileManifest(q, answer)
  BY <1>5 DEF AcceptRawFileManifest
<1>6. CASE AcceptTaskRunReport(q, answer)
  BY <1>6 DEF AcceptTaskRunReport
<1> QED BY <1>2, <1>3, <1>4, <1>5, <1>6 DEF Handle

\* One command of the operator: only runs that have not begun change.
LEMMA CommandEffects ==
  ASSUME ControlInv, OperatorCommand
  PROVE  /\ UNCHANGED <<receipts, raws, stored, looked>>
         /\ \/ \E k \in ManualKeys :
                 run[k] = "none" /\ run' = [run EXCEPT ![k] = "pending"]
            \/ \E S \in SUBSET ManualKeys :
                 /\ \A k \in S : run[k] = "pending"
                 /\ run' = [k \in Keys |-> IF k \in S THEN "failed" ELSE run[k]]
<1>1. ASSUME NEW k \in Keys, RequestManualRun(k) \/ RequestRetryRun(k)
      PROVE  /\ UNCHANGED <<receipts, raws, stored, looked>> /\ k \in ManualKeys
             /\ run[k] = "none" /\ run' = [run EXCEPT ![k] = "pending"]
  BY <1>1 DEF RequestManualRun, RequestRetryRun, ApplyManualRun, RetryKeys
<1>2. ASSUME NEW t \in Tasks, NEW value \in BOOLEAN, SetTaskEnabled(t, value)
      PROVE  /\ UNCHANGED <<receipts, raws, stored, looked>>
             /\ \E S \in SUBSET ManualKeys :
                  /\ \A k \in S : run[k] = "pending"
                  /\ run' = [k \in Keys |-> IF k \in S THEN "failed" ELSE run[k]]
  <2> DEFINE S == IF value THEN {} ELSE PendingOf(t)
  <2>1. S \in SUBSET ManualKeys /\ \A k \in S : run[k] = "pending"
    BY DEF PendingOf
  <2>2. run' = [k \in Keys |-> IF k \in S THEN "failed" ELSE run[k]]
    BY <1>2 DEF SetTaskEnabled
  <2> HIDE DEF S
  <2> QED BY <1>2, <2>1, <2>2 DEF SetTaskEnabled
<1> QED BY <1>1, <1>2 DEF OperatorCommand

\* What is counted and stays at most one is counted still.
LEMMA CountStays ==
  ASSUME NEW counts \in [Keys -> [Files -> Nat]], NEW l \in Keys, NEW S,
         NEW k \in Keys, NEW f \in Files, counts[k][f] = 1,
         CountedOnce(counts, l, S)[k][f] <= 1
  PROVE  CountedOnce(counts, l, S)[k][f] = 1
<1> DEFINE more == CountedOnce(counts, l, S)
<1>1. \A other \in Keys \ {l} : more[other] = counts[other]
  BY CountedOnceOK
<1>2. more[l][f] = IF f \in S THEN counts[l][f] + 1 ELSE counts[l][f]
  BY CountedOnceOK
<1> HIDE DEF more
<1>3. more[k][f] <= 1 => more[k][f] = 1
  BY <1>1, <1>2
<1> QED BY <1>3 DEF more

\* A run goes from waiting to running to over, and its rows stay.
LEMMA RunsGoOn ==
  ASSUME ControlInv, [ControlNext]_controlVars, NEW k \in Keys
  PROVE  /\ run[k] \notin {"none", "pending"} => run'[k] \notin {"none", "pending"}
         /\ run[k] \in Terminal => run'[k] \in Terminal /\ (k \in looked \/ run'[k] = run[k])
         /\ receipts[k] \subseteq receipts'[k]
         /\ \A f \in Files : /\ raws[k][f] = 1 => raws'[k][f] = 1
                             /\ stored[k][f] = 1 => stored'[k][f] = 1
<1>1. /\ run \in [Keys -> RunStatus] /\ receipts \in [Keys -> SUBSET Requests]
      /\ raws \in [Keys -> [Files -> Nat]] /\ stored \in [Keys -> [Files -> Nat]]
  BY DEF ControlInv, ControlTypeOK
<1>2. ControlInv'
  BY ControlNextOK
<1>3. \A f \in Files : /\ raws'[k][f] <= 1 /\ stored'[k][f] <= 1
                       /\ raws'[k][f] \in Nat /\ stored'[k][f] \in Nat
  BY <1>2 DEF ControlInv, ControlTypeOK, StoredOnce
<1>4. CASE UNCHANGED controlVars
  BY <1>4 DEF controlVars
<1>5. CASE OperatorCommand
  <2>1. UNCHANGED <<receipts, raws, stored>>
    BY <1>5, CommandEffects
  <2>2. run[k] \notin {"none", "pending"} => run'[k] = run[k]
    BY <1>1, <1>5, CommandEffects
  <2> QED BY <2>1, <2>2 DEF Terminal
<1>6. ASSUME NEW q \in Requests, NEW answer \in Answers, Handle(q, answer)
      PROVE  /\ run[k] \notin {"none", "pending"} => run'[k] \notin {"none", "pending"}
             /\ run[k] \in Terminal => run'[k] \in Terminal /\ (k \in looked \/ run'[k] = run[k])
             /\ receipts[k] \subseteq receipts'[k]
             /\ \A f \in Files : /\ raws[k][f] = 1 => raws'[k][f] = 1
                                 /\ stored[k][f] = 1 => stored'[k][f] = 1
  <2>1. q.key \in Keys /\ (q.type = "report" => q.report.status \in Terminal)
    BY DEF Requests, Reports, Terminal
  <2>2. CASE UNCHANGED <<run, receipts, raws, stored>>
    BY <2>2
  <2>3. CASE /\ run[q.key] \in {"none", "pending"}
             /\ run' = [run EXCEPT ![q.key] = "running"] /\ UNCHANGED <<receipts, raws, stored>>
    BY <1>1, <2>1, <2>3 DEF Terminal
  <2>4. CASE /\ raws' = CountedOnce(raws, q.key, q.manifest) /\ AddReceipt(q)
             /\ UNCHANGED <<run, stored>>
    <3>1. receipts[k] \subseteq receipts'[k]
      BY <1>1, <2>4 DEF AddReceipt
    <3>2. ASSUME NEW f \in Files, raws[k][f] = 1 PROVE raws'[k][f] = 1
      BY <1>1, <1>3, <2>1, <2>4, <3>2, CountStays
    <3> QED BY <2>4, <3>1, <3>2
  <2>5. CASE /\ q.type = "report" /\ (run[q.key] \in Terminal => q.key \in looked)
             /\ run' = [run EXCEPT ![q.key] = q.report.status]
             /\ stored' = CountedOnce(stored, q.key, q.report.records) /\ AddReceipt(q)
             /\ UNCHANGED raws
    <3>1. receipts[k] \subseteq receipts'[k]
      BY <1>1, <2>5 DEF AddReceipt
    <3>2. ASSUME NEW f \in Files, stored[k][f] = 1 PROVE stored'[k][f] = 1
      BY <1>1, <1>3, <2>1, <2>5, <3>2, CountStays
    <3>3. /\ run[k] \notin {"none", "pending"} => run'[k] \notin {"none", "pending"}
          /\ run[k] \in Terminal => run'[k] \in Terminal /\ (k \in looked \/ run'[k] = run[k])
      BY <1>1, <2>1, <2>5 DEF Terminal
    <3> QED BY <2>5, <3>1, <3>2, <3>3
  <2> QED BY <1>6, <2>2, <2>3, <2>4, <2>5, HandleEffects
<1>7. CASE \/ \E q \in Requests : LookAtRun(q)
           \/ HandlersGone
           \/ \E r \in Rules : SwitchRule(r)
  <2>1. UNCHANGED <<run, receipts, raws, stored>> BY <1>7, AsideStep
  <2> QED BY <2>1
<1> QED BY <1>4, <1>5, <1>6, <1>7 DEF ControlNext
================================================================================
