------------------------- MODULE AgentProcess_proofs -------------------------
(***************************************************************************)
(* The agent process: its threads end for a reason, no slot is executed      *)
(* twice and none that the thread could keep is passed over, whatever the   *)
(* configuration, the clock and the order of the stops.                     *)
(***************************************************************************)
EXTENDS AgentProcess, FiniteSetTheorems, WellFoundedInduction, TLAPS

-----------------------------------------------------------------------------
(* The inductive invariants.                                               *)

HistoryOK ==
  /\ times \in [Tasks -> [Minutes -> Nat]] /\ removed \subseteq Tasks
  /\ owed \subseteq Tasks \X Minutes /\ late \in Nat

\* Why each of the threads stops.
Asked == signal # "none" \/ worker = "failed"
ThreadsOK ==
  /\ main \in {"handshake", "publish"} => worker = "unborn"
  /\ worker = "unborn" => main \in {"handshake", "publish", "ended"}
  /\ runtimeStop => Asked \/ main \in {"joining", "ended"}
  /\ main \in {"stopping", "joining"} => Asked \/ runtimeFailed
  /\ SuccessIsAskedFor

\* A batch is in hand, or an exception has left it behind.
InBatch == worker \in {"batch", "entry", "execute"}
Gone == worker \in {"threw", "failed"}

\* The next slot of an entry comes after the last one dispatched.
Forward(e) == e.next = NoSlot \/ e.next > e.last

\* No slot of t was executed that is not behind the entry's mark.
Behind(t) ==
  \A m \in Minutes : times[t][m] <= 1 /\
    (times[t][m] # 0 => t \in DOMAIN entries /\ m <= entries[t].last)

\* What the batch has of t is the slot of the mark, and was not executed yet.
Awaited(t) ==
  \A i \in DOMAIN due : due[i].task = t =>
    t \in DOMAIN entries /\ due[i].slot = entries[t].last /\ times[t][due[i].slot] = 0

OnceOK ==
  /\ \A t \in DOMAIN entries : Forward(entries[t])
  /\ \A t \in Tasks \ removed : Behind(t) /\ Awaited(t)
  /\ \A i, j \in DOMAIN due : due[i].task = due[j].task => i = j
  /\ InBatch \/ Gone \/ due = <<>>
  /\ worker = "entry" => due # <<>>

\* One that begins after the stop is the last.
LateOK == late = 0 \/ (late = 1 /\ stopping /\ worker \notin {"entry", "pending"})

\* No slot to come is missing from the entry.
Covers(e) ==
  \A u \in Minutes : u > clock /\ Matches(ScheduleOf[e.version], u) =>
    e.next # NoSlot /\ e.next <= u

\* The slot o is the next of its entry, or stands in the batch.
IsNext(o) == o[2] = clock /\ o[1] \in DOMAIN entries /\ entries[o[1]].next = o[2]
InHand(o) ==
  \E i \in DOMAIN due :
    /\ due[i].task = o[1] /\ due[i].slot = o[2]
    /\ o[1] \in DOMAIN entries /\ entries[o[1]].version = due[i].version

\* The thread has looked at this minute.
Looked == worker \in {"pending", "offer"} \/ (worker = "wait" /\ timer = 1)

KeptOK ==
  /\ clockSteps # 0 => owed = {}
  /\ clockSteps = 0 =>
       \A t \in DOMAIN entries :
         /\ entries[t].last <= clock /\ Covers(entries[t])
         /\ Looked => entries[t].next = NoSlot \/ entries[t].next > clock
  /\ Looked \/ worker \in {"unborn", "recover"} => owed = {}
  /\ stopping \/ \A o \in owed :
       IF InBatch THEN InHand(o)
       ELSE IF Gone THEN o[2] = clock \/ \E i \in DOMAIN due : due[i].task = o[1]
       ELSE IsNext(o)

ProcessInv == ProcessTypeOK /\ HistoryOK /\ ThreadsOK

-----------------------------------------------------------------------------
(* The first minute that matches.                                          *)

LEMMA Least ==
  ASSUME NEW a \in Int, NEW S \in SUBSET Int, S # {}, \A u \in S : u >= a
  PROVE  \E u \in S : \A v \in S : u <= v
<1> DEFINE N == {n \in Nat : a + n \in S}
           R == OpToRel(<, Nat)
<1>1. N \subseteq Nat /\ N # {}
  <2>1. PICK u \in S : TRUE
    OBVIOUS
  <2>2. u - a \in Nat /\ a + (u - a) = u
    BY <2>1
  <2> QED BY <2>1, <2>2
<1>2. IsWellFoundedOn(R, Nat)
  BY NatLessThanWellFounded
<1>3. PICK n \in N : \A m \in N : ~(<<m, n>> \in R)
  <2> HIDE DEF N, R
  <2> QED BY <1>1, <1>2, WFMin
<1>4. \A m \in N : ~(m < n)
  <2> SUFFICES ASSUME NEW m \in N, m < n PROVE FALSE
    OBVIOUS
  <2>1. <<m, n>> \in R
    BY DEF OpToRel
  <2> QED BY <1>3, <2>1
<1>5. \A v \in S : a + n <= v
  <2> SUFFICES ASSUME NEW v \in S PROVE a + n <= v
    OBVIOUS
  <2>1. v - a \in Nat /\ a + (v - a) = v
    OBVIOUS
  <2>2. v - a \in N
    BY <2>1
  <2> QED BY <1>4, <2>1, <2>2
<1> QED BY <1>5

\* A slot comes after the minute it is asked for, and no other one before it.
LEMMA NextAfterOK ==
  ASSUME NEW s, NEW t \in Nat
  PROVE  /\ NextAfter(s, t) \in Int
         /\ NextAfter(s, t) = NoSlot \/ NextAfter(s, t) > t
         /\ \A u \in (t + 1)..(t + 1 + SearchLimit) : Matches(s, u) =>
              NextAfter(s, t) # NoSlot /\ NextAfter(s, t) <= u
<1> DEFINE Span == (t + 1)..(t + 1 + SearchLimit)
           S == {u \in Span : Matches(s, u)}
           P(u) == Matches(s, u) /\ \A v \in (t + 1)..(u - 1) : ~Matches(s, v)
<1>0. SearchLimit \in Nat
  BY CronAssumption
<1>1. CASE S = {}
  <2>1. NextAfter(s, t) = NoSlot
    BY <1>1 DEF NextAfter
  <2> QED BY <1>1, <2>1 DEF NoSlot
<1>2. CASE S # {}
  <2>1. PICK u \in S : \A v \in S : u <= v
    <3>1. S \in SUBSET Int /\ \A u \in S : u >= t + 1
      BY <1>0
    <3> HIDE DEF S
    <3> QED BY <1>2, <3>1, Least
  <2>2. P(u)
    BY <1>0, <2>1
  <2>3. NextAfter(s, t) = CHOOSE n \in Span : P(n)
    BY <1>2 DEF NextAfter
  <2>4. NextAfter(s, t) \in Span /\ P(NextAfter(s, t))
    <3> HIDE DEF P
    <3> QED BY <2>1, <2>2, <2>3
  <2>5. \A v \in Span : Matches(s, v) => NextAfter(s, t) <= v
    BY <1>0, <2>4
  <2> QED BY <1>0, <2>4, <2>5 DEF NoSlot
<1> QED BY <1>1, <1>2

-----------------------------------------------------------------------------
(* What a step of the process is to the scheduler.                         *)

SchedulerMoves ==
  \/ KeepScheduler
  \/ \E config \in Configs \cup {EmptyConfig} :
       Replaced(config) /\ (worker' = worker \/ (worker = "unborn" /\ worker' = "recover"))
  \/ worker = "unborn" /\ StartWorker
  \/ RequestWorkerStop
  \/ /\ worker = "threw" /\ worker' = "failed"
     /\ UNCHANGED <<clock, clockSteps, entries, candidates, due, held, delivery, timer,
                    wakePending, stopping, historyVars>>
  \/ SchedulerNext

LEMMA NextMoves ==
  ASSUME ProcessTypeOK, ThreadsOK, [ProcessNext]_processVars
  PROVE  SchedulerMoves
<1>1. initial \in Configs \cup {EmptyConfig}
  BY DEF ProcessTypeOK
<1>2. CASE UNCHANGED processVars
  BY <1>2 DEF processVars, SchedulerMoves, KeepScheduler
<1>3. CASE Handshake
  BY <1>3 DEF Handshake, SchedulerMoves
<1>4. CASE Publish
  BY <1>1, <1>4 DEF Publish, PublishFirst, ThreadsOK, SchedulerMoves
<1>5. CASE LoopTop
  BY <1>5 DEF LoopTop, SchedulerMoves
<1>6. CASE ReconnectCall
  BY <1>6 DEF ReconnectCall, MainThrows, SchedulerMoves
<1>7. CASE ReconnectFetch
  BY <1>7 DEF ReconnectFetch, MainThrows, ReplaceConfig, SchedulerMoves
<1>8. CASE Heartbeat
  BY <1>8 DEF Heartbeat, MainThrows, SchedulerMoves
<1>9. CASE RefreshConfig
  BY <1>9 DEF RefreshConfig, MainThrows, ReplaceConfig, SchedulerMoves
<1>10. CASE WaitSleeps \/ WaitTimesOut \/ Joined
  BY <1>10 DEF WaitSleeps, WaitTimesOut, Joined, SchedulerMoves
<1>11. CASE StopBoth
  BY <1>11 DEF StopBoth, SchedulerMoves
<1>12. CASE SignalArrives \/ SignalPassedOn
  BY <1>12 DEF SignalArrives, SignalPassedOn, SchedulerMoves
<1>13. CASE WorkerFails
  BY <1>13 DEF WorkerFails, SchedulerMoves
<1>14. CASE SchedulerNext
  BY <1>14 DEF SchedulerMoves
<1>15. CASE Ended
  BY <1>15 DEF Ended, processVars, SchedulerMoves, KeepScheduler
<1> QED BY <1>2, <1>3, <1>4, <1>5, <1>6, <1>7, <1>8, <1>9, <1>10, <1>11, <1>12, <1>13, <1>14,
          <1>15 DEF ProcessNext, MainStep

\* What the thread does to where it is.
LEMMA WorkerGoes ==
  ASSUME SchedulerNext
  PROVE  \/ worker' = worker
         \/ worker \in WorkerAt \ {"unborn", "returned", "threw", "failed"}
              /\ worker' \in WorkerAt \ {"unborn", "failed"}
BY DEF SchedulerNext, WorkerStep, LoopEnds, Round, TakeDue, ExecuteDue, BatchEnds,
   DispatchOnePending, OfferRefused, OfferAccepted, WaitEnds, DeliverySleeps, DeliveryWakes,
   DeliveryBacksOff, ExecutorReturns, RecoverReturns, ExecuteReturns, ManualReturns, Return,
   ExecutorThrows, Tick, ClockSet, WorkerAt, InExecutor

MainTypeOK ==
  /\ main \in MainAt /\ initial \in Configs \cup {EmptyConfig}
  /\ connected \in BOOLEAN /\ runtimeStop \in BOOLEAN /\ runtimeFailed \in BOOLEAN
  /\ appStop \in BOOLEAN /\ signal \in {"none", "half", "passed"} /\ exitCode \in {0, 1}

LEMMA MainStays ==
  ASSUME MainTypeOK, ThreadsOK, worker \in WorkerAt, UNCHANGED runtimeVars,
         \/ worker' = worker
         \/ main # "ended" /\ worker \in WorkerAt \ {"unborn", "returned", "threw", "failed"}
              /\ worker' \in WorkerAt \ {"unborn", "failed"}
  PROVE  MainTypeOK' /\ ThreadsOK'
BY DEF MainTypeOK, ThreadsOK, Asked, SuccessIsAskedFor, runtimeVars, WorkerAt

\* In the loop of the runtime the main thread stops only when it was told to, or
\* with an exception.
InLoop == {"loop", "register", "greet", "fetch", "heartbeat", "poll", "about", "asleep"}

LoopEffect ==
  /\ main \in InLoop /\ main' \in InLoop \cup {"stopping"} /\ worker' = worker
  /\ UNCHANGED <<initial, runtimeStop, appStop, signal, exitCode>>
  /\ \/ connected' = connected /\ runtimeFailed' = runtimeFailed
           /\ (main' = "stopping" => runtimeStop)
     \/ connected' = connected /\ runtimeFailed' = TRUE
     \/ connected' = TRUE /\ runtimeFailed' = runtimeFailed /\ main' = "loop"

LEMMA LoopMoves ==
  ASSUME MainTypeOK, ThreadsOK, LoopEffect
  PROVE  MainTypeOK' /\ ThreadsOK'
<1>1. MainTypeOK'
  BY DEF MainTypeOK, LoopEffect, InLoop, MainAt
<1>2. ThreadsOK'
  BY DEF ThreadsOK, LoopEffect, InLoop, Asked, SuccessIsAskedFor
<1> QED BY <1>1, <1>2

LEMMA UnlessMoves ==
  ASSUME NEW stop, NEW places, Unless(stop, places)
  PROVE  /\ main' \in places \/ (main' = stop /\ runtimeStop)
         /\ UNCHANGED <<connected, initial, runtimeStop, runtimeFailed, appStop, signal, exitCode>>
<1>1. CASE runtimeStop
  BY <1>1 DEF Unless, MainTo
<1>2. CASE ~runtimeStop
  BY <1>2 DEF Unless, MainTo
<1> QED BY <1>1, <1>2

LEMMA ThrowsEffect ==
  ASSUME main \in InLoop, MainThrows PROVE LoopEffect
BY DEF LoopEffect, MainThrows, KeepScheduler, schedulerVars

LEMMA LoopStep ==
  ASSUME LoopTop \/ ReconnectCall \/ ReconnectFetch \/ Heartbeat \/ RefreshConfig
         \/ WaitSleeps \/ WaitTimesOut
  PROVE  LoopEffect
<1>1. CASE LoopTop
  <2>1. main = "loop" /\ worker' = worker
        /\ Unless("stopping", IF connected THEN {"heartbeat", "poll", "about"}
                                          ELSE {"register", "about"})
    BY <1>1 DEF LoopTop, KeepScheduler, schedulerVars
  <2>2. \/ main' \in {"heartbeat", "poll", "about", "register"}
        \/ main' = "stopping" /\ runtimeStop
    BY <2>1, UnlessMoves
  <2>3. UNCHANGED <<connected, initial, runtimeStop, runtimeFailed, appStop, signal, exitCode>>
    BY <2>1, UnlessMoves
  <2> QED BY <2>1, <2>2, <2>3 DEF LoopEffect, InLoop
<1>2. CASE ReconnectCall
  <2>1. main \in {"register", "greet"}
    BY <1>2 DEF ReconnectCall
  <2>2. \/ MainThrows
        \/ /\ worker' = worker
           /\ \/ Unless("loop", IF main = "register" THEN {"greet"} ELSE {"fetch"})
              \/ Unless("loop", {"about"})
    BY <1>2 DEF ReconnectCall, KeepScheduler, schedulerVars
  <2>3. CASE MainThrows
    BY <2>1, <2>3, ThrowsEffect DEF InLoop
  <2>4. CASE ~MainThrows
    <3>1. /\ main' \in {"loop", "about", "greet", "fetch"} /\ worker' = worker
          /\ UNCHANGED <<connected, initial, runtimeStop, runtimeFailed, appStop, signal, exitCode>>
      BY <2>1, <2>2, <2>4, UnlessMoves
    <3> QED BY <2>1, <3>1 DEF LoopEffect, InLoop
  <2> QED BY <2>3, <2>4
<1>3. CASE ReconnectFetch
  <2>1. main = "fetch"
    BY <1>3 DEF ReconnectFetch
  <2>2. CASE /\ worker' = worker /\ connected' = TRUE /\ main' = "loop"
             /\ UNCHANGED <<initial, runtimeStop, runtimeFailed, appStop, signal, exitCode>>
    BY <2>1, <2>2 DEF LoopEffect, InLoop
  <2>3. CASE Unless("loop", {"about"}) /\ worker' = worker
    BY <2>1, <2>3, UnlessMoves DEF LoopEffect, InLoop
  <2>4. CASE MainThrows
    BY <2>1, <2>4, ThrowsEffect DEF InLoop
  <2> QED BY <1>3, <2>2, <2>3, <2>4 DEF ReconnectFetch, ReplaceConfig, KeepScheduler, schedulerVars
<1>4. CASE Heartbeat
  <2>1. main = "heartbeat"
        /\ (MainThrows \/ (Unless("stopping", {"poll", "about"}) /\ worker' = worker))
    BY <1>4 DEF Heartbeat, KeepScheduler, schedulerVars
  <2>2. CASE MainThrows
    BY <2>1, <2>2, ThrowsEffect DEF InLoop
  <2>3. CASE ~MainThrows
    <3>1. /\ main' \in {"poll", "about"} \/ (main' = "stopping" /\ runtimeStop)
          /\ UNCHANGED <<connected, initial, runtimeStop, runtimeFailed, appStop, signal, exitCode>>
      BY <2>1, <2>3, UnlessMoves
    <3> QED BY <2>1, <2>3, <3>1 DEF LoopEffect, InLoop
  <2> QED BY <2>2, <2>3
<1>5. CASE RefreshConfig
  <2>1. main = "poll"
        /\ (MainThrows \/ (Unless("stopping", {"about"}) /\ worker' = worker))
    BY <1>5 DEF RefreshConfig, ReplaceConfig, KeepScheduler, schedulerVars
  <2>2. CASE MainThrows
    BY <2>1, <2>2, ThrowsEffect DEF InLoop
  <2>3. CASE ~MainThrows
    <3>1. /\ main' \in {"poll", "about"} \/ (main' = "stopping" /\ runtimeStop)
          /\ UNCHANGED <<connected, initial, runtimeStop, runtimeFailed, appStop, signal, exitCode>>
      BY <2>1, <2>3, UnlessMoves
    <3> QED BY <2>1, <2>3, <3>1 DEF LoopEffect, InLoop
  <2> QED BY <2>2, <2>3
<1>6. CASE WaitSleeps \/ WaitTimesOut
  BY <1>6 DEF WaitSleeps, WaitTimesOut, MainTo, KeepScheduler, schedulerVars, LoopEffect, InLoop
<1> QED BY <1>1, <1>2, <1>3, <1>4, <1>5, <1>6

LEMMA BeginningMoves ==
  ASSUME MainTypeOK, ThreadsOK, Handshake \/ Publish
  PROVE  MainTypeOK' /\ ThreadsOK'
<1>1. CASE Handshake
  <2>1. /\ main = "handshake" /\ worker' = worker
        /\ UNCHANGED <<runtimeStop, runtimeFailed, appStop, signal>>
        /\ connected' \in {TRUE, connected}
        /\ initial' \in Configs \cup {initial}
        /\ \/ main' = "publish" /\ exitCode' = exitCode
           \/ main' = "ended" /\ exitCode' = 1
    BY <1>1 DEF Handshake, KeepScheduler, schedulerVars
  <2>2. MainTypeOK'
    BY <2>1 DEF MainTypeOK, MainAt
  <2>3. ThreadsOK'
    BY <2>1 DEF ThreadsOK, Asked, SuccessIsAskedFor
  <2> QED BY <2>2, <2>3
<1>2. CASE Publish
  <2>1. /\ main = "publish" /\ main' = "loop" /\ worker' = "recover" /\ initial' = EmptyConfig
        /\ UNCHANGED <<connected, runtimeStop, runtimeFailed, appStop, signal, exitCode>>
    BY <1>2 DEF Publish, PublishFirst, StartWorker
  <2>2. MainTypeOK'
    BY <2>1 DEF MainTypeOK, MainAt
  <2>3. ThreadsOK'
    BY <2>1 DEF ThreadsOK, Asked, SuccessIsAskedFor
  <2> QED BY <2>2, <2>3
<1> QED BY <1>1, <1>2

LEMMA StoppingMoves ==
  ASSUME MainTypeOK, ThreadsOK,
         StopBoth \/ Joined \/ SignalArrives \/ SignalPassedOn \/ WorkerFails
  PROVE  MainTypeOK' /\ ThreadsOK'
<1>1. CASE StopBoth
  <2>1. /\ main = "stopping" /\ main' = "joining" /\ worker' = worker /\ appStop' = TRUE
        /\ runtimeStop' \in {TRUE, runtimeStop}
        /\ UNCHANGED <<connected, initial, runtimeFailed, signal, exitCode>>
    BY <1>1 DEF StopBoth, RequestWorkerStop, KeepScheduler, schedulerVars
  <2>2. MainTypeOK'
    BY <2>1 DEF MainTypeOK, MainAt
  <2>3. ThreadsOK'
    BY <2>1 DEF ThreadsOK, Asked, SuccessIsAskedFor
  <2> QED BY <2>2, <2>3
<1>2. CASE Joined
  <2>1. /\ main = "joining" /\ main' = "ended" /\ worker' = worker
        /\ worker \in {"returned", "failed"}
        /\ exitCode' = IF runtimeFailed \/ worker = "failed" THEN 1 ELSE 0
        /\ UNCHANGED <<connected, initial, runtimeStop, runtimeFailed, appStop, signal>>
    BY <1>2 DEF Joined, KeepScheduler, schedulerVars
  <2>2. MainTypeOK'
    BY <2>1 DEF MainTypeOK, MainAt
  <2>3. ThreadsOK'
    BY <2>1 DEF ThreadsOK, Asked, SuccessIsAskedFor
  <2> QED BY <2>2, <2>3
<1>3. CASE SignalArrives
  <2>1. /\ main \notin {"handshake", "ended"} /\ worker' = worker /\ signal' \in {"half", "passed"}
        /\ runtimeStop' \in {TRUE, runtimeStop} /\ appStop' \in {TRUE, appStop}
        /\ main' = main \/ (main = "asleep" /\ main' = "loop")
        /\ UNCHANGED <<connected, initial, runtimeFailed, exitCode>>
    BY <1>3 DEF SignalArrives, RuntimeStopped, KeepScheduler, schedulerVars
  <2>2. MainTypeOK'
    BY <2>1 DEF MainTypeOK, MainAt
  <2>3. ThreadsOK'
    BY <2>1 DEF ThreadsOK, Asked, SuccessIsAskedFor
  <2> QED BY <2>2, <2>3
<1>4. CASE SignalPassedOn
  <2>1. /\ signal = "half" /\ signal' = "passed" /\ worker' = worker
        /\ UNCHANGED <<main, connected, initial, runtimeStop, runtimeFailed, appStop, exitCode>>
    BY <1>4 DEF SignalPassedOn, RequestWorkerStop
  <2>2. MainTypeOK'
    BY <2>1 DEF MainTypeOK
  <2>3. ThreadsOK'
    BY <2>1 DEF ThreadsOK, Asked, SuccessIsAskedFor
  <2> QED BY <2>2, <2>3
<1>5. CASE WorkerFails
  <2>1. /\ worker = "threw" /\ worker' = "failed" /\ runtimeStop' = TRUE
        /\ main' = main \/ (main = "asleep" /\ main' = "loop")
        /\ UNCHANGED <<connected, initial, runtimeFailed, appStop, signal, exitCode>>
    BY <1>5 DEF WorkerFails, RuntimeStopped
  <2>2. MainTypeOK'
    BY <2>1 DEF MainTypeOK, MainAt
  <2>3. ThreadsOK'
    BY <2>1 DEF ThreadsOK, Asked, SuccessIsAskedFor
  <2> QED BY <2>2, <2>3
<1> QED BY <1>1, <1>2, <1>3, <1>4, <1>5

LEMMA MainMoves ==
  ASSUME MainTypeOK, ThreadsOK, worker \in WorkerAt, [ProcessNext]_processVars
  PROVE  MainTypeOK' /\ ThreadsOK'
<1>1. CASE UNCHANGED processVars \/ Ended
  BY <1>1, MainStays DEF Ended, processVars, schedulerVars
<1>2. CASE SchedulerNext /\ Running
  BY <1>2, WorkerGoes, MainStays DEF Running
<1> QED BY <1>1, <1>2, LoopStep, LoopMoves, BeginningMoves, StoppingMoves DEF ProcessNext, MainStep

-----------------------------------------------------------------------------
(* Entries.                                                                *)

LEMMA ClockOK == SchedulerTypeOK => clock \in Nat /\ clock >= Base /\ clock <= Horizon
BY SchedulerAssumption DEF SchedulerTypeOK, Minutes

LEMMA ConfigOK ==
  ASSUME NEW config \in Configs \cup {EmptyConfig}
  PROVE  /\ DOMAIN config.tasks \subseteq Tasks /\ config.pending \in Seq(Candidates)
         /\ \A t \in DOMAIN config.tasks : config.tasks[t] \in Versions
<1>1. CASE config \in Configs
  <2>1. config \in ConfigType
    BY <1>1, ConfigAssumption
  <2>2. PICK S \in SUBSET Tasks : config.tasks \in [S -> Versions]
    BY <2>1 DEF ConfigType
  <2>3. config.pending = <<>> \/ \E c \in Candidates : config.pending = <<c>>
    BY <2>1 DEF ConfigType
  <2>4. ASSUME NEW c \in Candidates PROVE <<c>> \in Seq(Candidates)
    OBVIOUS
  <2>5. config.pending \in Seq(Candidates)
    <3>1. <<>> \in Seq(Candidates)
      OBVIOUS
    <3> QED BY <2>3, <2>4, <3>1, Zenon
  <2>6. DOMAIN config.tasks = S
    BY <2>2
  <2> QED BY <2>2, <2>5, <2>6
<1>2. CASE config = EmptyConfig
  BY <1>2 DEF EmptyConfig
<1> QED BY <1>1, <1>2

\* The slots of an entry that is made anew come after its mark and the clock.
LEMMA FreshEntryOK ==
  ASSUME SchedulerTypeOK, NEW t \in Tasks, NEW v \in Versions
  PROVE  LET e == FreshEntry(t, v) IN
         /\ e \in EntryType /\ e.version = v
         /\ e.last = IF t \in DOMAIN entries THEN entries[t].last ELSE NoSlot
         /\ e.next = NoSlot \/ (e.next > e.last /\ e.next > clock)
         /\ e.last <= clock => \A u \in (clock + 1)..(clock + 1 + SearchLimit) :
              Matches(ScheduleOf[v], u) => e.next # NoSlot /\ e.next <= u
<1> DEFINE last == IF t \in DOMAIN entries THEN entries[t].last ELSE NoSlot
           from == IF last > clock THEN last ELSE clock
           next == NextAfter(ScheduleOf[v], from)
<1>1. clock \in Nat
  BY ClockOK
<1>2. last \in Int
  BY DEF SchedulerTypeOK, EntryType, NoSlot
<1>3. from \in Nat /\ from >= last /\ from >= clock /\ (last <= clock => from = clock)
  BY <1>1, <1>2
<1>4. /\ next \in Int /\ (next = NoSlot \/ next > from)
      /\ \A u \in (from + 1)..(from + 1 + SearchLimit) :
           Matches(ScheduleOf[v], u) => next # NoSlot /\ next <= u
  <2> HIDE DEF from
  <2> QED BY <1>3, NextAfterOK
<1>5. FreshEntry(t, v) = [version |-> v, next |-> next, last |-> last]
  BY DEF FreshEntry
<1> HIDE DEF next, from, last
<1>6. FreshEntry(t, v) \in EntryType
  BY <1>2, <1>4, <1>5 DEF EntryType
<1>7. next = NoSlot \/ (next > last /\ next > clock)
  BY <1>1, <1>2, <1>3, <1>4
<1> QED BY <1>3, <1>4, <1>5, <1>6, <1>7 DEF last

\* An entry whose minute is over goes on to the next slot.
LEMMA CurrentOK ==
  ASSUME SchedulerTypeOK, NEW e \in EntryType
  PROVE  /\ Current(e) \in Int /\ (Current(e) = NoSlot \/ Current(e) >= clock)
         /\ Forward(e) => Current(e) = NoSlot \/ Current(e) > e.last
         /\ \/ Current(e) = e.next
            \/ \A u \in (clock + 1)..(clock + 1 + SearchLimit) :
                 Matches(ScheduleOf[e.version], u) => Current(e) # NoSlot /\ Current(e) <= u
<1>1. clock \in Nat /\ e.next \in Int /\ e.last \in Int
  BY ClockOK DEF EntryType
<1>2. CASE e.next # NoSlot /\ e.next < clock
  <2>1. Current(e) = NextAfter(ScheduleOf[e.version], clock)
    BY <1>2 DEF Current
  <2> QED BY <1>1, <1>2, <2>1, NextAfterOK DEF Forward
<1>3. CASE ~(e.next # NoSlot /\ e.next < clock)
  BY <1>1, <1>3 DEF Current, Forward
<1> QED BY <1>2, <1>3

\* A round takes the slots of the present minute.
DueNow == {t \in DOMAIN entries : Current(entries[t]) = clock}

LEMMA RoundEntries ==
  ASSUME SchedulerTypeOK, Round
  PROVE  /\ DOMAIN entries' = DOMAIN entries
         /\ \A t \in DueNow : /\ entries'[t] \in EntryType
                              /\ entries'[t].version = entries[t].version
                              /\ entries'[t].last = clock
                              /\ entries'[t].next = NextAfter(ScheduleOf[entries[t].version], clock)
         /\ \A t \in DOMAIN entries \ DueNow :
              /\ entries'[t] \in EntryType
              /\ entries'[t].version = entries[t].version
              /\ entries'[t].last = entries[t].last
              /\ entries'[t].next = Current(entries[t])
<1>1. entries' = [t \in DOMAIN entries |->
         IF t \in DueNow THEN Dispatched(entries[t])
                         ELSE [entries[t] EXCEPT !.next = Current(entries[t])]]
  BY DEF Round, DueNow
<1>2. clock \in Nat /\ \A t \in DOMAIN entries : entries[t] \in EntryType
  BY ClockOK DEF SchedulerTypeOK
<1>3. ASSUME NEW t \in DOMAIN entries
      PROVE  /\ t \in DueNow =>
                  /\ entries'[t] \in EntryType /\ entries'[t].version = entries[t].version
                  /\ entries'[t].last = clock
                  /\ entries'[t].next = NextAfter(ScheduleOf[entries[t].version], clock)
             /\ t \notin DueNow =>
                  /\ entries'[t] \in EntryType /\ entries'[t].version = entries[t].version
                  /\ entries'[t].last = entries[t].last
                  /\ entries'[t].next = Current(entries[t])
  <2>1. PICK e \in EntryType : e = entries[t]
    BY <1>2
  <2>2. NextAfter(ScheduleOf[e.version], clock) \in Int /\ Current(e) \in Int
    BY <1>2, NextAfterOK, CurrentOK
  <2>3. entries'[t] = IF t \in DueNow THEN Dispatched(e) ELSE [e EXCEPT !.next = Current(e)]
    BY <1>1, <2>1
  <2>4. /\ Dispatched(e).version = e.version /\ Dispatched(e).last = clock
        /\ Dispatched(e).next = NextAfter(ScheduleOf[e.version], clock)
        /\ Dispatched(e) \in EntryType
    <3>1. PICK n \in Int : n = NextAfter(ScheduleOf[e.version], clock)
      BY <2>2
    <3>2. PICK f \in EntryType : f = [e EXCEPT !.next = n]
      BY <3>1 DEF EntryType
    <3>3. f.version = e.version /\ f.next = n
      BY <3>2 DEF EntryType
    <3>4. Dispatched(e) = [f EXCEPT !.last = clock]
      BY <3>1, <3>2 DEF Dispatched
    <3> QED BY <1>2, <3>1, <3>3, <3>4 DEF EntryType
  <2>5. /\ [e EXCEPT !.next = Current(e)].version = e.version
        /\ [e EXCEPT !.next = Current(e)].last = e.last
        /\ [e EXCEPT !.next = Current(e)].next = Current(e)
        /\ [e EXCEPT !.next = Current(e)] \in EntryType
    BY <2>2 DEF EntryType
  <2> QED BY <2>1, <2>3, <2>4, <2>5
<1> QED BY <1>1, <1>3 DEF DueNow

\* The batch has each of them once.
LEMMA RoundBatch ==
  ASSUME SchedulerTypeOK, Round
  PROVE  /\ due' \in Seq([task : Tasks, version : Versions, slot : Minutes])
         /\ \A i \in DOMAIN due' : /\ due'[i].task \in DueNow /\ due'[i].slot = clock
                                   /\ due'[i].version = entries[due'[i].task].version
         /\ \A t \in DueNow : \E i \in DOMAIN due' : due'[i].task = t
         /\ \A i, j \in DOMAIN due' : due'[i].task = due'[j].task => i = j
<1>1. PICK order \in ById(DueNow) :
        due' = [i \in DOMAIN order |-> [task |-> order[i], version |-> entries[order[i]].version,
                                        slot |-> clock]]
  BY DEF Round, DueNow
<1>2. DueNow \subseteq DOMAIN entries /\ DOMAIN entries \subseteq Tasks /\ clock \in Minutes
      /\ \A t \in DOMAIN entries : entries[t].version \in Versions
  BY DEF SchedulerTypeOK, EntryType, DueNow
<1>3. PICK n \in Nat : n = Cardinality(DueNow)
  BY <1>2, SchedulerAssumption, FS_Subset, FS_CardinalityType
<1>4. /\ order \in [1..n -> DueNow]
      /\ \A t \in DueNow : \E i \in DOMAIN order : order[i] = t
      /\ \A i, j \in DOMAIN order : i < j => order[i] < order[j]
  BY <1>3 DEF ById, SetOf
<1>5. \A i, j \in DOMAIN order : order[i] = order[j] => i = j
  <2> SUFFICES ASSUME NEW i \in DOMAIN order, NEW j \in DOMAIN order, order[i] = order[j], i # j
               PROVE  FALSE
    OBVIOUS
  <2>1. i \in 1..n /\ j \in 1..n /\ order[i] \in Nat
    BY <1>2, <1>4, SchedulerAssumption
  <2>2. i < j \/ j < i
    BY <2>1
  <2> QED BY <1>4, <2>1, <2>2
<1>6. DOMAIN order = 1..n /\ \A i \in DOMAIN order : order[i] \in DueNow
  BY <1>4
<1>7. DOMAIN due' = 1..n
      /\ \A i \in DOMAIN due' : due'[i] = [task |-> order[i], version |-> entries[order[i]].version,
                                           slot |-> clock]
  BY <1>1, <1>6
<1>8. due' \in [1..n -> [task : Tasks, version : Versions, slot : Minutes]]
  BY <1>1, <1>2, <1>6
<1>9. due' \in Seq([task : Tasks, version : Versions, slot : Minutes])
  <2> DEFINE D == [task : Tasks, version : Versions, slot : Minutes]
  <2>1. due' \in [1..n -> D]
    BY <1>8
  <2> HIDE DEF D
  <2>2. due' \in Seq(D)
    BY <2>1
  <2> QED BY <2>2 DEF D
<1>10. \A i \in DOMAIN due' : due'[i].task = order[i] /\ due'[i].slot = clock
                             /\ due'[i].version = entries[order[i]].version
  BY <1>7
<1> QED BY <1>4, <1>5, <1>6, <1>7, <1>9, <1>10

\* A new configuration keeps an entry, makes it anew, or takes it away.
LEMMA ReplacedEffects ==
  ASSUME SchedulerTypeOK, HistoryOK, NEW config \in Configs \cup {EmptyConfig}, Replaced(config)
  PROVE  /\ DOMAIN entries' \subseteq Tasks
         /\ \A t \in DOMAIN entries' :
              /\ entries'[t] \in EntryType
              /\ \/ t \in DOMAIN entries /\ entries'[t] = entries[t]
                 \/ \E v \in Versions : entries'[t] = FreshEntry(t, v)
         /\ removed' = removed \cup (DOMAIN entries \ DOMAIN entries')
         /\ owed' \subseteq owed
         /\ \A o \in owed' : /\ o[1] \in DOMAIN entries /\ o[1] \in DOMAIN entries'
                             /\ entries'[o[1]] = entries[o[1]]
         /\ candidates' \in Seq(Candidates) /\ wakePending' = TRUE
<1> DEFINE kept == {t \in DOMAIN config.tasks : ValidSchedule(ScheduleOf[config.tasks[t]])}
           same(t) == t \in DOMAIN entries /\ entries[t].version = config.tasks[t]
<1>1. /\ entries' = [t \in kept |-> IF same(t) THEN entries[t] ELSE FreshEntry(t, config.tasks[t])]
      /\ candidates' = config.pending /\ wakePending' = TRUE
      /\ removed' = removed \cup (DOMAIN entries \ kept)
      /\ owed' = {o \in owed : o[1] \in kept /\ same(o[1])}
  BY DEF Replaced
<1>2. /\ kept \subseteq Tasks /\ \A t \in kept : config.tasks[t] \in Versions
      /\ config.pending \in Seq(Candidates)
  BY ConfigOK
<1> HIDE DEF kept
<1>3. DOMAIN entries' = kept
  BY <1>1
<1>4. ASSUME NEW t \in kept
      PROVE  /\ entries'[t] \in EntryType
             /\ \/ t \in DOMAIN entries /\ entries'[t] = entries[t]
                \/ \E v \in Versions : entries'[t] = FreshEntry(t, v)
  <2>1. CASE same(t)
    BY <1>1, <2>1 DEF SchedulerTypeOK
  <2>2. CASE ~same(t)
    <3>1. PICK v \in Versions : v = config.tasks[t]
      BY <1>2
    <3>2. entries'[t] = FreshEntry(t, v)
      BY <1>1, <2>2, <3>1
    <3>3. t \in Tasks
      BY <1>2
    <3>4. FreshEntry(t, v) \in EntryType
      BY <3>3, FreshEntryOK
    <3> QED BY <3>2, <3>4
  <2> QED BY <2>1, <2>2
<1>5. \A o \in owed' : o \in owed /\ o[1] \in kept /\ same(o[1]) /\ entries'[o[1]] = entries[o[1]]
  BY <1>1
<1> QED BY <1>1, <1>2, <1>3, <1>4, <1>5

LEMMA BatchEndsEntries ==
  ASSUME SchedulerTypeOK, BatchEnds
  PROVE  /\ DOMAIN entries' = DOMAIN entries
         /\ \A t \in DOMAIN entries :
              /\ entries'[t] \in EntryType
              /\ entries'[t].version = entries[t].version /\ entries'[t].last = entries[t].last
              /\ entries'[t].next = IF entries[t].next # NoSlot /\ entries[t].next <= clock
                                    THEN NextAfter(ScheduleOf[entries[t].version], clock)
                                    ELSE entries[t].next
<1>1. entries' = [t \in DOMAIN entries |->
         IF entries[t].next # NoSlot /\ entries[t].next <= clock
         THEN [entries[t] EXCEPT !.next = NextAfter(ScheduleOf[entries[t].version], clock)]
         ELSE entries[t]]
  BY DEF BatchEnds
<1>2. clock \in Nat
  BY ClockOK
<1>3. ASSUME NEW t \in DOMAIN entries
      PROVE  /\ entries'[t] \in EntryType
             /\ entries'[t].version = entries[t].version /\ entries'[t].last = entries[t].last
             /\ entries'[t].next = IF entries[t].next # NoSlot /\ entries[t].next <= clock
                                   THEN NextAfter(ScheduleOf[entries[t].version], clock)
                                   ELSE entries[t].next
  <2>1. PICK e \in EntryType : e = entries[t]
    BY DEF SchedulerTypeOK
  <2>2. PICK n \in Int : n = NextAfter(ScheduleOf[e.version], clock)
    BY <1>2, NextAfterOK
  <2>3. entries'[t] = IF e.next # NoSlot /\ e.next <= clock THEN [e EXCEPT !.next = n] ELSE e
    BY <1>1, <2>1, <2>2
  <2> QED BY <2>1, <2>2, <2>3 DEF EntryType
<1> QED BY <1>1, <1>3

-----------------------------------------------------------------------------
(* Types.                                                                  *)

Due == [task : Tasks, version : Versions, slot : Minutes]

LEMMA TypeStep ==
  ASSUME SchedulerTypeOK, HistoryOK, worker = "entry" => due # <<>>, SchedulerMoves
  PROVE  SchedulerTypeOK' /\ HistoryOK'
<1> USE DEF SchedulerTypeOK, HistoryOK
<1>1. CASE KeepScheduler
  BY <1>1 DEF KeepScheduler, schedulerVars, historyVars, InExecutor
<1>2. ASSUME NEW config \in Configs \cup {EmptyConfig}, Replaced(config),
             worker' = worker \/ (worker = "unborn" /\ worker' = "recover")
      PROVE  SchedulerTypeOK' /\ HistoryOK'
  <2>1. UNCHANGED <<clock, clockSteps, due, held, delivery, timer, stopping, times, late>>
    BY <1>2 DEF Replaced
  <2>2. /\ DOMAIN entries' \subseteq Tasks /\ \A t \in DOMAIN entries' : entries'[t] \in EntryType
        /\ candidates' \in Seq(Candidates) /\ wakePending' = TRUE
        /\ removed' \subseteq Tasks /\ owed' \subseteq Tasks \X Minutes
    BY <1>2, ReplacedEffects
  <2> QED BY <1>2, <2>1, <2>2 DEF WorkerAt, InExecutor
<1>3. CASE worker = "unborn" /\ StartWorker
  BY <1>3 DEF StartWorker, historyVars, WorkerAt, InExecutor
<1>4. CASE RequestWorkerStop
  BY <1>4 DEF RequestWorkerStop, historyVars, InExecutor
<1>5. CASE /\ worker = "threw" /\ worker' = "failed"
           /\ UNCHANGED <<clock, clockSteps, entries, candidates, due, held, delivery, timer,
                          wakePending, stopping, historyVars>>
  BY <1>5 DEF historyVars, WorkerAt, InExecutor
<1>6. CASE LoopEnds \/ OfferAccepted \/ WaitEnds \/ DeliverySleeps \/ DeliveryWakes
           \/ DeliveryBacksOff
  BY <1>6 DEF LoopEnds, OfferAccepted, WaitEnds, DeliverySleeps, DeliveryWakes, DeliveryBacksOff,
     historyVars, WorkerAt, InExecutor
<1>7. CASE Round
  <2>1. /\ worker = "round" /\ worker' \in {"pending", "batch"}
        /\ UNCHANGED <<clock, clockSteps, candidates, held, delivery, timer, wakePending, stopping,
                       times, removed, owed, late>>
    BY <1>7 DEF Round, historyVars
  <2>2. DOMAIN entries' \subseteq Tasks /\ \A t \in DOMAIN entries' : entries'[t] \in EntryType
    BY <1>7, RoundEntries
  <2> QED BY <1>7, <2>1, <2>2, RoundBatch DEF WorkerAt, InExecutor
<1>8. CASE TakeDue
  <2>1. worker = "batch" /\ (due' = due \/ due' = <<>>) /\ worker' \in {"batch", "entry"}
        /\ UNCHANGED <<clock, clockSteps, entries, candidates, held, delivery, timer, wakePending,
                       stopping, times, removed, owed, late>>
    BY <1>8 DEF TakeDue, historyVars
  <2>2. <<>> \in Seq([task : Tasks, version : Versions, slot : Minutes])
    OBVIOUS
  <2>3. due' \in Seq([task : Tasks, version : Versions, slot : Minutes])
    BY <2>1, <2>2, Zenon
  <2> QED BY <2>1, <2>3 DEF WorkerAt, InExecutor
<1>9. CASE BatchEnds
  <2>1. DOMAIN entries' \subseteq Tasks /\ \A t \in DOMAIN entries' : entries'[t] \in EntryType
    BY <1>9, BatchEndsEntries
  <2> QED BY <1>9, <2>1 DEF BatchEnds, historyVars, WorkerAt, InExecutor
<1>10. CASE DispatchOnePending
  <2>1. /\ worker = "pending"
        /\ UNCHANGED <<clock, clockSteps, entries, due, delivery, wakePending, stopping,
                       times, removed, owed>>
    BY <1>10 DEF DispatchOnePending
  <2>2. CASE candidates' = <<>> /\ worker' = "wait" /\ timer' = 1 /\ UNCHANGED <<held, late>>
    BY <2>1, <2>2 DEF WorkerAt, InExecutor
  <2>3. ASSUME NEW first \in DOMAIN candidates, held' = candidates[first],
               candidates' = SubSeq(candidates, first + 1, Len(candidates)),
               worker' = "offer", late' = IF stopping THEN late + 1 ELSE late, timer' = timer
        PROVE  SchedulerTypeOK' /\ HistoryOK'
    <3>1. held' \in Candidates /\ held' # NoCandidate
      BY <2>3, SchedulerAssumption
    <3>2. candidates' \in Seq(Candidates)
      BY <2>3
    <3>3. late' \in Nat
      BY <2>3
    <3> QED BY <2>1, <2>3, <3>1, <3>2, <3>3 DEF WorkerAt, InExecutor
  <2> QED BY <1>10, <2>2, <2>3 DEF DispatchOnePending
<1>11. CASE OfferRefused
  <2>1. candidates' \in Seq(Candidates)
    BY <1>11 DEF OfferRefused
  <2> QED BY <1>11, <2>1 DEF OfferRefused, historyVars, WorkerAt, InExecutor
<1>12. CASE RecoverReturns \/ ExecuteReturns \/ ManualReturns \/ ExecutorThrows
  BY <1>12 DEF RecoverReturns, ExecuteReturns, ManualReturns, ExecutorThrows, Return, historyVars,
     WorkerAt, InExecutor
<1>13. CASE Tick
  <2>1. /\ UNCHANGED <<clockSteps, entries, candidates, worker, due, held, delivery, wakePending,
                       stopping, times, removed, late>>
        /\ clock' = (IF clock < Horizon THEN clock + 1 ELSE clock) /\ timer' = 0
    BY <1>13 DEF Tick
  <2>2. clock' \in Minutes
    BY <2>1, ClockOK, SchedulerAssumption DEF Minutes
  <2>3. owed' \subseteq Tasks \X Minutes
    <3>1. \A o \in owed' : o \in owed \/ \E t \in DOMAIN entries : o = <<t, clock'>>
      BY <1>13, <2>1 DEF Tick
    <3> QED BY <2>2, <3>1
  <2> QED BY <2>1, <2>2, <2>3 DEF InExecutor
<1>14. CASE ClockSet
  BY <1>14, SchedulerAssumption DEF ClockSet, InExecutor
<1>15. CASE ExecuteDue
  <2>1. /\ worker = "entry" /\ due' = Tail(due) /\ removed' = removed /\ owed' \subseteq owed
        /\ UNCHANGED <<clock, clockSteps, entries, candidates, held, delivery, timer, wakePending,
                       stopping>>
        /\ \/ worker' = "batch" /\ UNCHANGED <<times, late>>
           \/ /\ worker' = "execute" /\ late' \in {late, late + 1}
              /\ times' = [times EXCEPT ![Head(due).task][Head(due).slot] = @ + 1]
    BY <1>15 DEF ExecuteDue
  <2>2. due \in Seq(Due) /\ due # <<>>
    BY <2>1 DEF Due
  <2>3. Head(due) \in Due /\ Tail(due) \in Seq(Due)
    BY <2>2
  <2>4. PICK t \in Tasks, m \in Minutes : t = Head(due).task /\ m = Head(due).slot
    BY <2>3 DEF Due
  <2>5. [times EXCEPT ![t][m] = @ + 1] \in [Tasks -> [Minutes -> Nat]]
    OBVIOUS
  <2>6. times' \in [Tasks -> [Minutes -> Nat]]
    <3>1. times' = times \/ times' = [times EXCEPT ![t][m] = @ + 1]
      BY <2>1, <2>4, Zenon
    <3> QED BY <2>5, <3>1
  <2>7. due' \in Seq([task : Tasks, version : Versions, slot : Minutes])
    BY <2>1, <2>3 DEF Due
  <2>8. late' \in Nat
    <3>1. late' = late \/ late' = late + 1
      BY <2>1, Zenon
    <3> QED BY <3>1
  <2>9. HistoryOK'
    <3>1. removed' \subseteq Tasks /\ owed' \subseteq Tasks \X Minutes
      BY <2>1
    <3> QED BY <2>6, <2>8, <3>1
  <2>10. worker' \in {"batch", "execute"}
    BY <2>1
  <2>11. /\ held' = NoCandidate /\ delivery' = "no" /\ worker' \in WorkerAt
         /\ ~(worker' \in {"offer", "manual"})
    BY <2>1, <2>10 DEF WorkerAt, InExecutor
  <2>12. SchedulerTypeOK'
    BY <2>1, <2>7, <2>11
  <2> QED BY <2>9, <2>12
<1> QED BY <1>1, <1>2, <1>3, <1>4, <1>5, <1>6, <1>7, <1>8, <1>9, <1>10, <1>11, <1>12, <1>13, <1>14,
          <1>15 DEF SchedulerMoves, SchedulerNext, WorkerStep, ExecutorReturns

-----------------------------------------------------------------------------
(* No slot twice.                                                          *)

\* The mark of an entry and the batch are all that counts.
LEMMA OnceQuiet ==
  ASSUME OnceOK, UNCHANGED <<entries, times, removed>>, due' = due \/ due' = <<>>,
         InBatch' \/ Gone' \/ due' = <<>>, worker' = "entry" => due' # <<>>
  PROVE  OnceOK'
<1>1. \A t \in DOMAIN entries' : Forward(entries'[t])
  BY DEF OnceOK, Forward
<1>2. \A t \in Tasks \ removed' : Behind(t)' /\ Awaited(t)'
  <2>1. CASE due' = due
    BY <2>1 DEF OnceOK, Behind, Awaited
  <2>2. CASE due' = <<>>
    BY <2>2 DEF OnceOK, Behind, Awaited
  <2> QED BY <2>1, <2>2
<1>3. \A i, j \in DOMAIN due' : due'[i].task = due'[j].task => i = j
  <2>1. CASE due' = due
    BY <2>1 DEF OnceOK
  <2>2. CASE due' = <<>>
    BY <2>2
  <2> QED BY <2>1, <2>2
<1> QED BY <1>1, <1>2, <1>3 DEF OnceOK

LEMMA OnceReplaced ==
  ASSUME SchedulerTypeOK, HistoryOK, OnceOK, NEW config \in Configs \cup {EmptyConfig},
         Replaced(config), worker' = worker \/ (worker = "unborn" /\ worker' = "recover")
  PROVE  OnceOK'
<1>1. due' = due /\ times' = times /\ removed' = removed \cup (DOMAIN entries \ DOMAIN entries')
      /\ DOMAIN entries' \subseteq Tasks
  BY ReplacedEffects DEF Replaced
<1>2. ASSUME NEW t \in DOMAIN entries'
      PROVE  /\ Forward(entries'[t])
             /\ t \in DOMAIN entries => entries'[t].last = entries[t].last
  <2>1. CASE t \in DOMAIN entries /\ entries'[t] = entries[t]
    BY <2>1 DEF OnceOK
  <2>2. CASE \E v \in Versions : entries'[t] = FreshEntry(t, v)
    <3>1. PICK v \in Versions : entries'[t] = FreshEntry(t, v)
      BY <2>2
    <3> QED BY <1>1, <3>1, FreshEntryOK DEF Forward
  <2> QED BY <2>1, <2>2, ReplacedEffects
<1>3. ASSUME NEW t \in Tasks \ removed'
      PROVE  Behind(t)' /\ Awaited(t)'
  <2>1. t \in Tasks \ removed /\ (t \in DOMAIN entries => t \in DOMAIN entries')
    BY <1>1
  <2>2. Behind(t) /\ Awaited(t)
    BY <2>1 DEF OnceOK
  <2> QED BY <1>1, <1>2, <2>1, <2>2 DEF Behind, Awaited
<1> QED BY <1>1, <1>2, <1>3 DEF OnceOK, InBatch, Gone

\* A slot is taken into the batch when it is later than the mark, and moves it.
LEMMA OnceRound ==
  ASSUME SchedulerTypeOK, HistoryOK, OnceOK, Round
  PROVE  OnceOK'
<1>1. /\ worker = "round" /\ worker' \in {"pending", "batch"} /\ (DueNow # {} => worker' = "batch")
      /\ times' = times /\ removed' = removed
  BY DEF Round, DueNow, historyVars
<1>2. clock \in Nat /\ DOMAIN entries' = DOMAIN entries
      /\ \A t \in DOMAIN entries : entries[t] \in EntryType
  BY ClockOK, RoundEntries DEF SchedulerTypeOK
<1>3. ASSUME NEW t \in DueNow
      PROVE  clock > entries[t].last /\ entries'[t].last = clock /\ Forward(entries'[t])
  <2>1. Current(entries[t]) = clock /\ Forward(entries[t]) /\ entries[t] \in EntryType
    BY <1>2 DEF DueNow, OnceOK
  <2>2. clock > entries[t].last
    BY <1>2, <2>1, CurrentOK DEF NoSlot
  <2>3. entries'[t].next = NoSlot \/ entries'[t].next > clock
    BY <1>2, RoundEntries, NextAfterOK
  <2> QED BY <2>2, <2>3, RoundEntries DEF Forward
<1>4. ASSUME NEW t \in DOMAIN entries \ DueNow
      PROVE  entries'[t].last = entries[t].last /\ Forward(entries'[t])
  <2>1. Forward(entries[t]) /\ entries[t] \in EntryType
    BY <1>2 DEF OnceOK
  <2>2. Current(entries[t]) = NoSlot \/ Current(entries[t]) > entries[t].last
    BY <2>1, CurrentOK
  <2>3. entries'[t].next = Current(entries[t]) /\ entries'[t].last = entries[t].last
    BY RoundEntries
  <2> QED BY <2>2, <2>3 DEF Forward
<1>5. ASSUME NEW t \in Tasks \ removed'
      PROVE  Behind(t)' /\ Awaited(t)'
  <2>1. Behind(t)
    BY <1>1 DEF OnceOK
  <2>2. Behind(t)'
    <3>1. CASE t \in DueNow
      <4>1. entries[t].last \in Int
        BY <1>2, <3>1 DEF DueNow, EntryType
      <4>2. \A m \in Minutes : m \in Int
        BY SchedulerAssumption DEF Minutes
      <4> QED BY <1>1, <1>2, <1>3, <2>1, <3>1, <4>1, <4>2 DEF Behind
    <3>2. CASE t \notin DueNow
      BY <1>1, <1>2, <1>4, <2>1, <3>2 DEF Behind
    <3> QED BY <3>1, <3>2
  <2>3. ASSUME NEW i \in DOMAIN due', due'[i].task = t
        PROVE  t \in DOMAIN entries' /\ due'[i].slot = entries'[t].last
               /\ times'[t][due'[i].slot] = 0
    <3>1. t \in DueNow /\ due'[i].slot = clock
      BY <2>3, RoundBatch
    <3>2. clock \in Minutes /\ entries[t].last \in Int
      BY <1>2, <3>1 DEF SchedulerTypeOK, DueNow, EntryType
    <3>3. times[t][clock] = 0
      BY <1>2, <1>3, <2>1, <3>1, <3>2 DEF Behind
    <3> QED BY <1>1, <1>2, <1>3, <3>1, <3>3 DEF DueNow
  <2> QED BY <2>2, <2>3 DEF Awaited
<1>6. InBatch' \/ due' = <<>>
  <2>1. CASE DueNow # {}
    BY <1>1, <2>1 DEF InBatch
  <2>2. CASE DueNow = {}
    <3>1. DOMAIN due' = {} /\ due' \in Seq([task : Tasks, version : Versions, slot : Minutes])
      BY <2>2, RoundBatch
    <3> QED BY <3>1
  <2> QED BY <2>1, <2>2
<1>7. \A t \in DOMAIN entries' : Forward(entries'[t])
  BY <1>2, <1>3, <1>4
<1>8. \A i, j \in DOMAIN due' : due'[i].task = due'[j].task => i = j
  BY RoundBatch
<1> QED BY <1>1, <1>5, <1>6, <1>7, <1>8 DEF OnceOK

\* What is executed leaves the batch, which has no other slot of the task.
LEMMA OnceExecute ==
  ASSUME SchedulerTypeOK, HistoryOK, OnceOK, ExecuteDue
  PROVE  OnceOK'
<1>1. /\ due # <<>> /\ due' = Tail(due) /\ entries' = entries /\ removed' = removed
      /\ worker' \in {"batch", "execute"}
  BY DEF ExecuteDue, OnceOK
<1>2. due \in Seq(Due)
  BY DEF SchedulerTypeOK, Due
<1>3. Head(due) = due[1] /\ 1 \in DOMAIN due /\ due[1] \in Due
      /\ \A i \in DOMAIN Tail(due) : i # 0 /\ i + 1 \in DOMAIN due /\ i + 1 # 1
                                     /\ Tail(due)[i] = due[i + 1]
  BY <1>1, <1>2
<1>4. PICK t0 \in Tasks, m0 \in Minutes : t0 = due[1].task /\ m0 = due[1].slot
  BY <1>3 DEF Due
<1>5. \/ times' = times
      \/ times' = [times EXCEPT ![t0][m0] = @ + 1]
  BY <1>3, <1>4 DEF ExecuteDue
<1>6. ASSUME NEW t \in Tasks, NEW m \in Minutes
      PROVE  \/ times'[t][m] = times[t][m]
             \/ t = t0 /\ m = m0 /\ times'[t][m] = times[t][m] + 1
  <2>1. PICK f \in [Minutes -> Nat] : f = times[t0]
    BY DEF HistoryOK
  <2>2. CASE times' = [times EXCEPT ![t0] = [f EXCEPT ![m0] = @ + 1]]
    BY <2>1, <2>2 DEF HistoryOK
  <2>3. times' = times \/ times' = [times EXCEPT ![t0] = [f EXCEPT ![m0] = @ + 1]]
    BY <1>5, <2>1
  <2> QED BY <2>2, <2>3
<1>7. \A i \in DOMAIN Tail(due) : Tail(due)[i].task # t0
  BY <1>3, <1>4 DEF OnceOK
<1>8. ASSUME NEW t \in Tasks \ removed'
      PROVE  Behind(t)' /\ Awaited(t)'
  <2>1. Behind(t) /\ Awaited(t)
    BY <1>1 DEF OnceOK
  <2>2. Behind(t)'
    <3> SUFFICES ASSUME NEW m \in Minutes
                 PROVE  times'[t][m] <= 1 /\ (times'[t][m] # 0 => t \in DOMAIN entries'
                                                               /\ m <= entries'[t].last)
      BY DEF Behind
    <3>1. times[t][m] <= 1 /\ (times[t][m] # 0 => t \in DOMAIN entries /\ m <= entries[t].last)
      BY <2>1 DEF Behind
    <3>2. CASE times'[t][m] = times[t][m]
      BY <1>1, <3>1, <3>2
    <3>3. CASE t = t0 /\ m = m0 /\ times'[t][m] = times[t][m] + 1
      <4>1. t \in DOMAIN entries /\ m = entries[t].last /\ times[t][m] = 0
        BY <1>3, <1>4, <2>1, <3>3 DEF Awaited
      <4>2. entries[t].last \in Int
        BY <4>1 DEF SchedulerTypeOK, EntryType
      <4> QED BY <1>1, <3>3, <4>1, <4>2
    <3> QED BY <1>6, <3>2, <3>3
  <2>3. ASSUME NEW i \in DOMAIN due', due'[i].task = t
        PROVE  t \in DOMAIN entries' /\ due'[i].slot = entries'[t].last
               /\ times'[t][due'[i].slot] = 0
    <3>1. i + 1 \in DOMAIN due /\ due[i + 1] = due'[i] /\ t # t0
      BY <1>1, <1>3, <1>7, <2>3
    <3>2. t \in DOMAIN entries /\ due'[i].slot = entries[t].last /\ times[t][due'[i].slot] = 0
      BY <2>1, <2>3, <3>1 DEF Awaited
    <3>3. PICK m \in Minutes : m = due'[i].slot
      <4>1. \A k \in DOMAIN due : due[k] \in Due
        BY <1>2
      <4>2. due'[i] \in Due
        BY <3>1, <4>1
      <4> QED BY <4>2 DEF Due
    <3>4. times'[t][m] = 0
      BY <1>6, <3>1, <3>2, <3>3
    <3> QED BY <1>1, <3>2, <3>3, <3>4
  <2> QED BY <2>2, <2>3 DEF Awaited
<1>9. \A i, j \in DOMAIN due' : due'[i].task = due'[j].task => i = j
  <2> SUFFICES ASSUME NEW i \in DOMAIN due', NEW j \in DOMAIN due', due'[i].task = due'[j].task
               PROVE  i = j
    OBVIOUS
  <2>1. i + 1 = j + 1
    BY <1>1, <1>3 DEF OnceOK
  <2>2. i \in Nat /\ j \in Nat
    BY <1>1, <1>2
  <2> QED BY <2>1, <2>2
<1>10. InBatch' /\ worker' # "entry"
  BY <1>1 DEF InBatch
<1>11. \A t \in DOMAIN entries' : Forward(entries'[t])
  BY <1>1 DEF OnceOK
<1> QED BY <1>8, <1>9, <1>10, <1>11 DEF OnceOK

LEMMA OnceBatchEnds ==
  ASSUME SchedulerTypeOK, OnceOK, BatchEnds
  PROVE  OnceOK'
<1>1. /\ due = <<>> /\ due' = due /\ worker' = "round" /\ times' = times /\ removed' = removed
  BY DEF BatchEnds, historyVars
<1>2. clock \in Nat /\ \A t \in DOMAIN entries : entries[t] \in EntryType
  BY ClockOK DEF SchedulerTypeOK
<1>3. ASSUME NEW t \in DOMAIN entries
      PROVE  Forward(entries'[t]) /\ entries'[t].last = entries[t].last
  <2>1. CASE entries[t].next # NoSlot /\ entries[t].next <= clock
    <3>1. entries'[t].next = NoSlot \/ entries'[t].next > clock
      BY <1>2, <2>1, BatchEndsEntries, NextAfterOK
    <3>2. entries[t].next > entries[t].last /\ entries'[t].last = entries[t].last
      BY <2>1, BatchEndsEntries DEF OnceOK, Forward
    <3>3. entries[t].next \in Int /\ entries[t].last \in Int /\ entries'[t].next \in Int
      BY <1>2, BatchEndsEntries DEF EntryType
    <3> QED BY <1>2, <2>1, <3>1, <3>2, <3>3 DEF Forward
  <2>2. CASE ~(entries[t].next # NoSlot /\ entries[t].next <= clock)
    BY <2>2, BatchEndsEntries DEF OnceOK, Forward
  <2> QED BY <2>1, <2>2
<1>4. DOMAIN entries' = DOMAIN entries
  BY BatchEndsEntries
<1>5. \A t \in Tasks \ removed' : Behind(t)' /\ Awaited(t)'
  BY <1>1, <1>3, <1>4 DEF OnceOK, Behind, Awaited
<1> QED BY <1>1, <1>3, <1>4, <1>5 DEF OnceOK

LEMMA OnceStep ==
  ASSUME SchedulerTypeOK, HistoryOK, OnceOK, SchedulerMoves
  PROVE  OnceOK'
<1>1. CASE UNCHANGED <<entries, due, times, removed, worker>>
  BY <1>1, OnceQuiet DEF OnceOK, InBatch, Gone
<1>2. CASE \E config \in Configs \cup {EmptyConfig} :
             Replaced(config) /\ (worker' = worker \/ (worker = "unborn" /\ worker' = "recover"))
  BY <1>2, OnceReplaced
<1>3. CASE Round
  BY <1>3, OnceRound
<1>4. CASE ExecuteDue
  BY <1>4, OnceExecute
<1>5. CASE BatchEnds
  BY <1>5, OnceBatchEnds
<1>6. CASE TakeDue
  <2>1. UNCHANGED <<entries, times, removed>> /\ (due' = due \/ due' = <<>>)
        /\ worker' \in {"batch", "entry"} /\ (worker' = "entry" => due' # <<>>)
    BY <1>6 DEF TakeDue, historyVars
  <2> QED BY <2>1, OnceQuiet DEF InBatch
<1>7. CASE /\ UNCHANGED <<entries, due, times, removed>> /\ worker' # "entry"
           /\ worker' \in {"threw", "failed", "batch", "execute"} \/ ~(InBatch \/ Gone)
  <2>1. InBatch' \/ Gone' \/ due' = <<>>
    BY <1>7 DEF OnceOK, InBatch, Gone
  <2> QED BY <1>7, <2>1, OnceQuiet
<1>8. CASE LoopEnds \/ OfferRefused \/ OfferAccepted \/ WaitEnds \/ DispatchOnePending
           \/ (worker = "unborn" /\ StartWorker)
  BY <1>7, <1>8 DEF LoopEnds, OfferRefused, OfferAccepted, WaitEnds, DispatchOnePending,
     StartWorker, historyVars, InBatch, Gone
<1>9. CASE RecoverReturns \/ ExecuteReturns \/ ManualReturns \/ ExecutorThrows
  BY <1>7, <1>9 DEF RecoverReturns, ExecuteReturns, ManualReturns, ExecutorThrows, Return,
     historyVars, InBatch, Gone
<1>10. CASE \/ KeepScheduler \/ RequestWorkerStop \/ DeliverySleeps \/ DeliveryWakes
            \/ DeliveryBacksOff \/ Tick \/ ClockSet
  BY <1>1, <1>10 DEF KeepScheduler, RequestWorkerStop, DeliverySleeps, DeliveryWakes,
     DeliveryBacksOff, Tick, ClockSet, schedulerVars, historyVars
<1>11. CASE /\ worker = "threw" /\ worker' = "failed"
            /\ UNCHANGED <<clock, clockSteps, entries, candidates, due, held, delivery, timer,
                           wakePending, stopping, historyVars>>
  BY <1>7, <1>11 DEF historyVars
<1> QED BY <1>2, <1>3, <1>4, <1>5, <1>6, <1>8, <1>9, <1>10, <1>11
     DEF SchedulerMoves, SchedulerNext, WorkerStep, ExecutorReturns

-----------------------------------------------------------------------------
(* After a stop.                                                           *)

LEMMA LateStep ==
  ASSUME SchedulerTypeOK, LateOK, SchedulerMoves
  PROVE  LateOK'
<1>1. CASE /\ late' = late /\ (stopping => stopping')
           /\ worker' = worker \/ worker' \notin {"entry", "pending"} \/ ~stopping
  <2>1. CASE late = 0
    BY <1>1, <2>1 DEF LateOK
  <2>2. CASE late = 1 /\ stopping /\ worker \notin {"entry", "pending"}
    <3>1. stopping' /\ worker' \notin {"entry", "pending"}
      BY <1>1, <2>2, Zenon
    <3> QED BY <1>1, <2>2, <3>1 DEF LateOK
  <2> QED BY <2>1, <2>2 DEF LateOK
<1>2. stopping \in BOOLEAN
  BY DEF SchedulerTypeOK
<1>3. CASE ExecuteDue
  <2>1. /\ worker = "entry" /\ worker' \in {"batch", "execute"} /\ stopping' = stopping
        /\ late' = late \/ (late' = late + 1 /\ stopping)
    BY <1>3 DEF ExecuteDue
  <2> QED BY <2>1 DEF LateOK
<1>4. CASE DispatchOnePending
  <2>1. /\ worker = "pending" /\ worker' \in {"wait", "offer"} /\ stopping' = stopping
        /\ late' = late \/ (late' = late + 1 /\ stopping)
    BY <1>4 DEF DispatchOnePending
  <2> QED BY <2>1 DEF LateOK
<1>5. CASE \E config \in Configs \cup {EmptyConfig} :
             Replaced(config) /\ (worker' = worker \/ (worker = "unborn" /\ worker' = "recover"))
  BY <1>1, <1>2, <1>5 DEF Replaced
<1>6. CASE Round \/ TakeDue \/ BatchEnds \/ LoopEnds \/ OfferRefused \/ OfferAccepted \/ WaitEnds
           \/ (worker = "unborn" /\ StartWorker)
  BY <1>1, <1>2, <1>6 DEF Round, TakeDue, BatchEnds, LoopEnds, OfferRefused, OfferAccepted,
     WaitEnds, StartWorker, historyVars
<1>7. CASE RecoverReturns \/ ExecuteReturns \/ ManualReturns \/ ExecutorThrows
  BY <1>1, <1>2, <1>7 DEF RecoverReturns, ExecuteReturns, ManualReturns, ExecutorThrows, Return,
     historyVars
<1>8. CASE \/ KeepScheduler \/ RequestWorkerStop \/ DeliverySleeps \/ DeliveryWakes
           \/ DeliveryBacksOff \/ Tick \/ ClockSet
  BY <1>1, <1>2, <1>8 DEF KeepScheduler, RequestWorkerStop, DeliverySleeps, DeliveryWakes,
     DeliveryBacksOff, Tick, ClockSet, schedulerVars, historyVars
<1>9. CASE /\ worker = "threw" /\ worker' = "failed"
           /\ UNCHANGED <<clock, clockSteps, entries, candidates, due, held, delivery, timer,
                          wakePending, stopping, historyVars>>
  BY <1>1, <1>2, <1>9 DEF historyVars
<1> QED BY <1>3, <1>4, <1>5, <1>6, <1>7, <1>8, <1>9
     DEF SchedulerMoves, SchedulerNext, WorkerStep, ExecutorReturns

-----------------------------------------------------------------------------
(* No slot is lost.                                                        *)

\* The span of the clock is shorter than the search for the next slot, which is
\* eight years in the code.
WithinLimit == Horizon - Base <= SearchLimit

LEMMA CoversAll ==
  ASSUME WithinLimit, SchedulerTypeOK, NEW e,
         \A u \in (clock + 1)..(clock + 1 + SearchLimit) :
           Matches(ScheduleOf[e.version], u) => e.next # NoSlot /\ e.next <= u
  PROVE  Covers(e)
<1>1. \A u \in Minutes : u > clock => u \in (clock + 1)..(clock + 1 + SearchLimit)
  BY ClockOK, SchedulerAssumption, CronAssumption DEF WithinLimit, Minutes
<1> QED BY <1>1 DEF Covers

\* Where the thread goes without touching a slot.
LEMMA KeptQuiet ==
  ASSUME KeptOK, UNCHANGED <<clock, clockSteps, entries, due, owed>>,
         stopping => stopping', Looked' => Looked,
         worker' \in {"unborn", "recover"} => worker \in {"unborn", "recover"},
         stopping \/ ((InBatch' <=> InBatch) /\ (Gone' <=> Gone))
  PROVE  KeptOK'
<1>1. clockSteps' # 0 => owed' = {}
  BY DEF KeptOK
<1>2. clockSteps' = 0 =>
        \A t \in DOMAIN entries' :
          /\ entries'[t].last <= clock' /\ Covers(entries[t])'
          /\ Looked' => entries'[t].next = NoSlot \/ entries'[t].next > clock'
  BY DEF KeptOK, Covers
<1>3. Looked' \/ worker' \in {"unborn", "recover"} => owed' = {}
  BY DEF KeptOK
<1>4. ASSUME ~stopping', NEW o \in owed'
      PROVE  IF InBatch' THEN InHand(o)'
             ELSE IF Gone' THEN o[2] = clock' \/ \E i \in DOMAIN due' : due'[i].task = o[1]
             ELSE IsNext(o)'
  <2>1. ~stopping
    BY <1>4
  <2>2. o \in owed
    OBVIOUS
  <2>3. IF InBatch THEN InHand(o)
        ELSE IF Gone THEN o[2] = clock \/ \E i \in DOMAIN due : due[i].task = o[1]
        ELSE IsNext(o)
    BY <2>1, <2>2 DEF KeptOK
  <2>4. (InHand(o)' <=> InHand(o)) /\ (IsNext(o)' <=> IsNext(o))
    BY DEF InHand, IsNext
  <2> QED BY <2>1, <2>3, <2>4
<1> QED BY <1>1, <1>2, <1>3, <1>4 DEF KeptOK

\* An exception leaves the batch behind.
LEMMA KeptThrows ==
  ASSUME KeptOK, ExecutorThrows
  PROVE  KeptOK'
<1>1. /\ worker \in {"recover", "execute", "manual"} /\ worker' = "threw"
      /\ UNCHANGED <<clock, clockSteps, entries, due, owed, stopping>>
  BY DEF ExecutorThrows, Return, InExecutor, historyVars
<1>2. ~Looked' /\ Gone' /\ ~InBatch' /\ ~Gone
  BY <1>1 DEF Looked, Gone, InBatch
<1>3. clockSteps' = 0 =>
        \A t \in DOMAIN entries' : entries'[t].last <= clock' /\ Covers(entries[t])'
  BY <1>1 DEF KeptOK, Covers
<1>4. ASSUME ~stopping, NEW o \in owed
      PROVE  o[2] = clock \/ \E i \in DOMAIN due : due[i].task = o[1]
  <2>1. CASE worker = "recover"
    BY <1>4, <2>1 DEF KeptOK
  <2>2. CASE worker = "execute"
    BY <1>2, <1>4, <2>2 DEF KeptOK, InBatch, InHand
  <2>3. CASE worker = "manual"
    BY <1>2, <1>4, <2>3 DEF KeptOK, InBatch, IsNext
  <2> QED BY <1>1, <2>1, <2>2, <2>3
<1> QED BY <1>1, <1>2, <1>3, <1>4 DEF KeptOK

LEMMA KeptReplaced ==
  ASSUME WithinLimit, SchedulerTypeOK, HistoryOK, KeptOK,
         NEW config \in Configs \cup {EmptyConfig}, Replaced(config),
         worker' = worker \/ (worker = "unborn" /\ worker' = "recover")
  PROVE  KeptOK'
<1>1. UNCHANGED <<clock, clockSteps, due, timer, stopping>> /\ owed' \subseteq owed
      /\ DOMAIN entries' \subseteq Tasks
  BY ReplacedEffects DEF Replaced
<1>2. (Looked' => Looked) /\ (InBatch' <=> InBatch) /\ (Gone' <=> Gone)
  BY <1>1 DEF Looked, InBatch, Gone
<1>3. ASSUME clockSteps = 0, NEW t \in DOMAIN entries'
      PROVE  /\ entries'[t].last <= clock /\ Covers(entries'[t])
             /\ Looked => entries'[t].next = NoSlot \/ entries'[t].next > clock
  <2>1. CASE t \in DOMAIN entries /\ entries'[t] = entries[t]
    BY <1>3, <2>1 DEF KeptOK
  <2>2. CASE \E v \in Versions : entries'[t] = FreshEntry(t, v)
    <3>1. PICK v \in Versions : entries'[t] = FreshEntry(t, v)
      BY <2>2
    <3>2. PICK e \in EntryType : e = FreshEntry(t, v)
      BY <1>1, FreshEntryOK
    <3>3. /\ e.version = v /\ e.last = IF t \in DOMAIN entries THEN entries[t].last ELSE NoSlot
          /\ e.next = NoSlot \/ (e.next > e.last /\ e.next > clock)
          /\ e.last <= clock => \A u \in (clock + 1)..(clock + 1 + SearchLimit) :
               Matches(ScheduleOf[v], u) => e.next # NoSlot /\ e.next <= u
      BY <1>1, <3>2, FreshEntryOK
    <3>4. e.last <= clock
      BY <1>3, <3>3, ClockOK DEF KeptOK, NoSlot
    <3>5. Covers(e)
      BY <3>3, <3>4, CoversAll
    <3> QED BY <3>1, <3>2, <3>3, <3>4, <3>5
  <2> QED BY <2>1, <2>2, ReplacedEffects
<1>4. clockSteps' = 0 =>
        \A t \in DOMAIN entries' :
          /\ entries'[t].last <= clock' /\ Covers(entries[t])'
          /\ Looked' => entries'[t].next = NoSlot \/ entries'[t].next > clock'
  BY <1>1, <1>2, <1>3 DEF Covers
<1>5. ASSUME ~stopping, NEW o \in owed'
      PROVE  IF InBatch' THEN InHand(o)'
             ELSE IF Gone' THEN o[2] = clock' \/ \E i \in DOMAIN due' : due'[i].task = o[1]
             ELSE IsNext(o)'
  <2>1. o \in owed /\ o[1] \in DOMAIN entries /\ o[1] \in DOMAIN entries'
        /\ entries'[o[1]] = entries[o[1]]
    BY <1>1, ReplacedEffects
  <2>2. IF InBatch THEN InHand(o)
        ELSE IF Gone THEN o[2] = clock \/ \E i \in DOMAIN due : due[i].task = o[1]
        ELSE IsNext(o)
    BY <1>5, <2>1 DEF KeptOK
  <2> QED BY <1>1, <1>2, <2>1, <2>2 DEF InHand, IsNext
<1>6. Looked' \/ worker' \in {"unborn", "recover"} => owed' = {}
  BY <1>1, <1>2 DEF KeptOK
<1>7. clockSteps' # 0 => owed' = {}
  BY <1>1 DEF KeptOK
<1> QED BY <1>1, <1>4, <1>5, <1>6, <1>7 DEF KeptOK

\* The thread sees a slot in its minute, and takes it.
LEMMA KeptRound ==
  ASSUME WithinLimit, SchedulerTypeOK, KeptOK, Round
  PROVE  KeptOK'
<1>1. /\ worker = "round" /\ ~stopping /\ worker' = (IF DueNow = {} THEN "pending" ELSE "batch")
      /\ UNCHANGED <<clock, clockSteps, timer, stopping, owed>>
  BY DEF Round, DueNow, historyVars
<1>2. /\ clock \in Nat /\ DOMAIN entries' = DOMAIN entries
      /\ \A t \in DOMAIN entries : entries[t] \in EntryType
  BY ClockOK, RoundEntries DEF SchedulerTypeOK
<1>3. ASSUME clockSteps = 0, NEW t \in DOMAIN entries
      PROVE  /\ entries'[t].last <= clock /\ Covers(entries'[t])
             /\ t \notin DueNow => entries'[t].next = NoSlot \/ entries'[t].next > clock
  <2>1. entries[t].last <= clock /\ Covers(entries[t])
    BY <1>3 DEF KeptOK
  <2>2. CASE t \in DueNow
    <3>1. entries'[t].last = clock /\ entries'[t].version = entries[t].version
          /\ entries'[t].next = NextAfter(ScheduleOf[entries[t].version], clock)
      BY <2>2, RoundEntries
    <3>2. \A u \in (clock + 1)..(clock + 1 + SearchLimit) :
            Matches(ScheduleOf[entries'[t].version], u) =>
              entries'[t].next # NoSlot /\ entries'[t].next <= u
      BY <1>2, <3>1, NextAfterOK
    <3>3. Covers(entries'[t])
      BY <3>2, CoversAll
    <3> QED BY <1>2, <2>2, <3>1, <3>3
  <2>3. CASE t \notin DueNow
    <3>1. /\ entries'[t].last = entries[t].last /\ entries'[t].version = entries[t].version
          /\ entries'[t].next = Current(entries[t])
      BY <2>3, RoundEntries
    <3>2. Current(entries[t]) # clock
      BY <2>3 DEF DueNow
    <3>3. /\ Current(entries[t]) \in Int
          /\ Current(entries[t]) = NoSlot \/ Current(entries[t]) >= clock
          /\ \/ Current(entries[t]) = entries[t].next
             \/ \A u \in (clock + 1)..(clock + 1 + SearchLimit) :
                  Matches(ScheduleOf[entries[t].version], u) =>
                    Current(entries[t]) # NoSlot /\ Current(entries[t]) <= u
      BY <1>2, CurrentOK
    <3>4. Covers(entries'[t])
      <4>1. CASE Current(entries[t]) = entries[t].next
        BY <2>1, <3>1, <4>1 DEF Covers
      <4>2. CASE \A u \in (clock + 1)..(clock + 1 + SearchLimit) :
                   Matches(ScheduleOf[entries'[t].version], u) =>
                     entries'[t].next # NoSlot /\ entries'[t].next <= u
        BY <4>2, CoversAll
      <4> QED BY <3>1, <3>3, <4>1, <4>2
    <3>5. entries'[t].next = NoSlot \/ entries'[t].next > clock
      BY <1>2, <3>1, <3>2, <3>3
    <3> QED BY <2>1, <3>1, <3>4, <3>5
  <2> QED BY <2>2, <2>3
<1>4. clockSteps' = 0 =>
        \A t \in DOMAIN entries' :
          /\ entries'[t].last <= clock' /\ Covers(entries[t])'
          /\ Looked' => entries'[t].next = NoSlot \/ entries'[t].next > clock'
  <2>1. Looked' => DueNow = {}
    BY <1>1 DEF Looked
  <2> QED BY <1>1, <1>2, <1>3, <2>1 DEF Covers
<1>5. ASSUME NEW o \in owed
      PROVE  o[1] \in DueNow /\ o[2] = clock
  <2>1. IsNext(o)
    BY <1>1 DEF KeptOK, InBatch, Gone
  <2>2. o[2] = clock /\ o[1] \in DOMAIN entries /\ entries[o[1]].next = clock
    BY <2>1 DEF IsNext
  <2>3. Current(entries[o[1]]) = clock
    BY <1>2, <2>2 DEF Current
  <2> QED BY <2>2, <2>3 DEF DueNow
<1>6. ASSUME NEW o \in owed
      PROVE  InHand(o)'
  <2>1. o[1] \in DueNow /\ o[2] = clock
    BY <1>5
  <2>2. PICK i \in DOMAIN due' : due'[i].task = o[1]
    BY <2>1, RoundBatch
  <2>3. due'[i].slot = clock /\ due'[i].version = entries[o[1]].version
    BY <2>2, RoundBatch
  <2>4. o[1] \in DOMAIN entries' /\ entries'[o[1]].version = entries[o[1]].version
    BY <1>2, <2>1, RoundEntries DEF DueNow
  <2> QED BY <2>1, <2>2, <2>3, <2>4 DEF InHand
<1>7. owed' = {} \/ InBatch'
  BY <1>1, <1>5 DEF InBatch
<1>8. Looked' \/ worker' \in {"unborn", "recover"} => owed' = {}
  BY <1>1, <1>7 DEF InBatch, Looked
<1>9. \A o \in owed' : InBatch' /\ InHand(o)'
  BY <1>1, <1>6, <1>7
<1>10. clockSteps' # 0 => owed' = {}
  BY <1>1 DEF KeptOK
<1> QED BY <1>4, <1>8, <1>9, <1>10 DEF KeptOK

\* The slot at the head of the batch is executed, or it was not owed any more.
LEMMA KeptExecute ==
  ASSUME SchedulerTypeOK, HistoryOK, KeptOK, worker = "entry" => due # <<>>, ExecuteDue
  PROVE  KeptOK'
<1>1. /\ worker = "entry" /\ due # <<>> /\ due' = Tail(due) /\ worker' \in {"batch", "execute"}
      /\ UNCHANGED <<clock, clockSteps, entries, timer, stopping>> /\ owed' \subseteq owed
  BY DEF ExecuteDue
<1>2. due \in Seq(Due)
  BY DEF SchedulerTypeOK, Due
<1>3. Head(due) = due[1] /\ \A i \in DOMAIN due : i # 1 => i - 1 \in DOMAIN Tail(due)
                                                    /\ Tail(due)[i - 1] = due[i]
  BY <1>1, <1>2
<1>4. ASSUME ~stopping, NEW o \in owed'
      PROVE  InHand(o)'
  <2>1. InHand(o)
    BY <1>1, <1>4 DEF KeptOK, InBatch
  <2>2. PICK i \in DOMAIN due : due[i].task = o[1] /\ due[i].slot = o[2]
                             /\ o[1] \in DOMAIN entries /\ entries[o[1]].version = due[i].version
    BY <2>1 DEF InHand
  <2>3. i # 1
    <3> SUFFICES ASSUME i = 1 PROVE FALSE
      OBVIOUS
    <3>1. owed' = owed \ {<<due[1].task, due[1].slot>>}
      BY <1>3, <2>2 DEF ExecuteDue
    <3>2. o \in Tasks \X Minutes
      BY <1>1 DEF HistoryOK
    <3>3. o = <<due[1].task, due[1].slot>>
      BY <2>2, <3>2
    <3> QED BY <3>1, <3>3
  <2> QED BY <1>1, <1>3, <2>2, <2>3 DEF InHand
<1>5. InBatch' /\ ~Looked'
  BY <1>1 DEF InBatch, Looked
<1>6. clockSteps' = 0 =>
        \A t \in DOMAIN entries' : entries'[t].last <= clock' /\ Covers(entries[t])'
  BY <1>1 DEF KeptOK, Covers
<1>7. stopping' = stopping
  BY <1>1
<1>8. clockSteps' # 0 => owed' = {}
  BY <1>1 DEF KeptOK
<1> QED BY <1>1, <1>4, <1>5, <1>6, <1>7, <1>8 DEF KeptOK

\* Nothing is owed when the batch is empty.
LEMMA KeptBatchEnds ==
  ASSUME WithinLimit, SchedulerTypeOK, KeptOK, BatchEnds
  PROVE  KeptOK'
<1>1. /\ worker = "batch" /\ due = <<>> /\ worker' = "round"
      /\ UNCHANGED <<clock, clockSteps, timer, stopping, owed>>
  BY DEF BatchEnds, historyVars
<1>2. clock \in Nat
  BY ClockOK
<1>3. ASSUME clockSteps = 0, NEW t \in DOMAIN entries
      PROVE  entries'[t].last <= clock /\ Covers(entries'[t])
  <2>1. entries[t].last <= clock /\ Covers(entries[t])
    BY <1>3 DEF KeptOK
  <2>2. entries'[t].version = entries[t].version /\ entries'[t].last = entries[t].last
    BY BatchEndsEntries
  <2>3. CASE entries[t].next # NoSlot /\ entries[t].next <= clock
    <3>1. entries'[t].next = NextAfter(ScheduleOf[entries[t].version], clock)
      BY <2>3, BatchEndsEntries
    <3>2. \A u \in (clock + 1)..(clock + 1 + SearchLimit) :
            Matches(ScheduleOf[entries'[t].version], u) =>
              entries'[t].next # NoSlot /\ entries'[t].next <= u
      BY <1>2, <2>2, <3>1, NextAfterOK
    <3> QED BY <2>1, <2>2, <3>2, CoversAll
  <2>4. CASE ~(entries[t].next # NoSlot /\ entries[t].next <= clock)
    <3>1. entries'[t].next = entries[t].next
      BY <2>4, BatchEndsEntries
    <3> QED BY <2>1, <2>2, <3>1 DEF Covers
  <2> QED BY <2>3, <2>4
<1>4. clockSteps' = 0 =>
        \A t \in DOMAIN entries' : entries'[t].last <= clock' /\ Covers(entries[t])'
  BY <1>1, <1>3, BatchEndsEntries DEF Covers
<1>5. stopping \/ owed = {}
  BY <1>1 DEF KeptOK, InBatch, InHand
<1>6. ~Looked'
  BY <1>1 DEF Looked
<1>7. stopping' \/ owed' = {}
  BY <1>1, <1>5, Zenon
<1>8. clockSteps' # 0 => owed' = {}
  BY <1>1 DEF KeptOK
<1> QED BY <1>1, <1>4, <1>6, <1>7, <1>8 DEF KeptOK

\* A minute that passes brings the next slot of an entry, and none before it.
LEMMA KeptTick ==
  ASSUME SchedulerTypeOK, KeptOK, Tick
  PROVE  KeptOK'
<1> DEFINE next == IF clock < Horizon THEN clock + 1 ELSE clock
           come == {t \in DOMAIN entries :
                      /\ Matches(ScheduleOf[entries[t].version], next)
                      /\ worker = "manual" => entries[t].next >= next}
<1>1. /\ clock' = next /\ timer' = 0
      /\ UNCHANGED <<clockSteps, entries, worker, due, stopping>>
      /\ InExecutor \/ (worker = "wait" /\ timer = 1)
  BY DEF Tick
<1>2. owed' = IF clockSteps = 0 /\ (worker = "manual" \/ worker = "wait") /\ ~stopping
                 /\ next # clock
              THEN (IF worker = "manual" THEN {} ELSE owed) \cup {<<t, next>> : t \in come}
              ELSE owed
  BY DEF Tick
<1>3. clock \in Nat /\ next \in Minutes /\ next >= clock /\ (next # clock => next = clock + 1)
  BY ClockOK, SchedulerAssumption DEF Minutes
<1>4. ~Looked' /\ ~Gone' /\ (InBatch' <=> InBatch) /\ ~Gone
      /\ worker \notin {"unborn"}
  BY <1>1 DEF Looked, InBatch, Gone, InExecutor
<1>5. clockSteps' # 0 => owed' = {}
  BY <1>1, <1>2 DEF KeptOK
<1> HIDE DEF next
<1>6. clockSteps' = 0 =>
        \A t \in DOMAIN entries' : entries'[t].last <= clock' /\ Covers(entries[t])'
  <2> SUFFICES ASSUME clockSteps = 0, NEW t \in DOMAIN entries
               PROVE  entries[t].last <= next /\ Covers(entries[t])'
    BY <1>1
  <2>1. entries[t].last <= clock /\ Covers(entries[t]) /\ entries[t].last \in Int
    BY DEF KeptOK, SchedulerTypeOK, EntryType
  <2>2. \A u \in Minutes : u > next => u > clock
    BY <1>3, SchedulerAssumption DEF Minutes
  <2> QED BY <1>1, <1>3, <2>1, <2>2 DEF Covers
<1>7. worker' \in {"unborn", "recover"} => owed' = {}
  BY <1>1, <1>2, <1>4 DEF KeptOK
<1>8. CASE stopping
  <2>1. stopping'
    BY <1>1, <1>8, Zenon
  <2> QED BY <1>4, <1>5, <1>6, <1>7, <2>1 DEF KeptOK
<1>9. CASE ~stopping /\ owed' = owed /\ worker \notin {"manual", "wait"}
  <2>1. worker \in {"recover", "execute"}
    BY <1>1, <1>9 DEF InExecutor
  <2>2. \A o \in owed' : InBatch' /\ InHand(o)'
    BY <1>1, <1>9, <2>1 DEF KeptOK, InBatch, InHand
  <2> QED BY <1>4, <1>5, <1>6, <1>7, <2>2 DEF KeptOK
<1>10. CASE ~stopping /\ worker \in {"manual", "wait"} /\ (clockSteps # 0 \/ next = clock)
  <2>1. ~InBatch /\ ~Gone /\ owed' = owed
    BY <1>2, <1>10 DEF InBatch, Gone
  <2>2. \A o \in owed : IsNext(o)
    BY <1>10, <2>1 DEF KeptOK
  <2>3. \A o \in owed' : IsNext(o)'
    <3>1. CASE clockSteps # 0
      BY <1>1, <1>5, <3>1
    <3>2. CASE next = clock
      BY <1>1, <2>1, <2>2, <3>2 DEF IsNext
    <3> QED BY <1>10, <3>1, <3>2
  <2> QED BY <1>4, <1>5, <1>6, <1>7, <2>1, <2>3 DEF KeptOK
<1>11. CASE ~stopping /\ worker \in {"manual", "wait"} /\ clockSteps = 0 /\ next # clock
  <2>1. ASSUME NEW o \in owed'
        PROVE  \E t \in come : o = <<t, next>>
    <3>1. worker = "wait" => owed = {}
      BY <1>1, <1>11 DEF KeptOK, Looked, InExecutor
    <3> QED BY <1>2, <1>11, <3>1
  <2>2. ASSUME NEW t \in come
        PROVE  t \in DOMAIN entries /\ entries[t].next = next
    <3>1. t \in DOMAIN entries /\ Matches(ScheduleOf[entries[t].version], next)
          /\ (worker = "manual" => entries[t].next >= next)
      OBVIOUS
    <3>2. Covers(entries[t]) /\ (Looked => entries[t].next = NoSlot \/ entries[t].next > clock)
      BY <1>11, <3>1 DEF KeptOK
    <3>3. entries[t].next # NoSlot /\ entries[t].next <= next /\ entries[t].next \in Int
      BY <1>3, <1>11, <3>1, <3>2 DEF Covers, SchedulerTypeOK, EntryType
    <3>4. worker = "wait" => entries[t].next > clock
      BY <1>1, <3>2, <3>3 DEF Looked, InExecutor
    <3> QED BY <1>3, <1>11, <3>1, <3>3, <3>4
  <2>3. \A o \in owed' : IsNext(o)'
    BY <1>1, <2>1, <2>2 DEF IsNext
  <2>4. ~InBatch
    BY <1>11 DEF InBatch
  <2> QED BY <1>4, <1>5, <1>6, <1>7, <2>3, <2>4 DEF KeptOK
<1> QED BY <1>2, <1>8, <1>9, <1>10, <1>11

LEMMA KeptClockSet ==
  ASSUME SchedulerTypeOK, KeptOK, ClockSet
  PROVE  KeptOK'
<1>1. clockSteps \in Nat /\ clockSteps' = clockSteps + 1 /\ owed' = {}
  BY SchedulerAssumption DEF SchedulerTypeOK, ClockSet
<1> QED BY <1>1 DEF KeptOK

LEMMA KeptStep ==
  ASSUME WithinLimit, SchedulerTypeOK, HistoryOK, OnceOK, KeptOK, SchedulerMoves
  PROVE  KeptOK'
<1>1. CASE \E config \in Configs \cup {EmptyConfig} :
             Replaced(config) /\ (worker' = worker \/ (worker = "unborn" /\ worker' = "recover"))
  BY <1>1, KeptReplaced
<1>2. CASE Round \/ ExecuteDue \/ BatchEnds \/ Tick \/ ClockSet \/ ExecutorThrows
  BY <1>2, KeptRound, KeptExecute, KeptBatchEnds, KeptTick, KeptClockSet, KeptThrows DEF OnceOK
<1>3. CASE TakeDue
  <2>1. worker = "batch" /\ worker' \in {"batch", "entry"} /\ (stopping => stopping')
        /\ UNCHANGED <<clock, clockSteps, entries, owed>>
    BY <1>3 DEF TakeDue, historyVars
  <2>2. CASE due' = due
    BY <2>1, <2>2, KeptQuiet DEF Looked, InBatch, Gone
  <2>3. CASE stopping
    <3>1. clockSteps' = 0 =>
            \A t \in DOMAIN entries' : entries'[t].last <= clock' /\ Covers(entries[t])'
      BY <2>1 DEF KeptOK, Covers
    <3>2. ~Looked'
      BY <2>1 DEF Looked
    <3>3. stopping'
      BY <2>1, <2>3
    <3>4. clockSteps' # 0 => owed' = {}
      BY <2>1 DEF KeptOK
    <3> QED BY <2>1, <3>1, <3>2, <3>3, <3>4 DEF KeptOK
  <2> QED BY <1>3, <2>2, <2>3 DEF TakeDue
<1>4. CASE /\ UNCHANGED <<clock, clockSteps, entries, due, owed>> /\ (stopping => stopping')
           /\ UNCHANGED <<worker, timer>>
  BY <1>4, KeptQuiet DEF Looked, InBatch, Gone
<1>5. CASE KeepScheduler \/ RequestWorkerStop \/ DeliverySleeps \/ DeliveryWakes \/ DeliveryBacksOff
  BY <1>4, <1>5 DEF KeepScheduler, RequestWorkerStop, DeliverySleeps, DeliveryWakes,
     DeliveryBacksOff, schedulerVars, historyVars
<1>6. CASE LoopEnds \/ OfferRefused \/ OfferAccepted \/ WaitEnds \/ DispatchOnePending
           \/ RecoverReturns \/ ExecuteReturns \/ ManualReturns \/ (worker = "unborn" /\ StartWorker)
  <2>1. UNCHANGED <<clock, clockSteps, entries, due, owed>> /\ (stopping => stopping')
    BY <1>6 DEF LoopEnds, OfferRefused, OfferAccepted, WaitEnds, DispatchOnePending,
       RecoverReturns, ExecuteReturns, ManualReturns, Return, StartWorker, historyVars
  <2>2. /\ Looked' => Looked
        /\ worker' \in {"unborn", "recover"} => worker \in {"unborn", "recover"}
        /\ (InBatch' <=> InBatch) /\ (Gone' <=> Gone)
    BY <1>6 DEF LoopEnds, OfferRefused, OfferAccepted, WaitEnds, DispatchOnePending,
       RecoverReturns, ExecuteReturns, ManualReturns, Return, StartWorker, Looked, InBatch, Gone
  <2> QED BY <2>1, <2>2, KeptQuiet
<1>7. CASE /\ worker = "threw" /\ worker' = "failed"
           /\ UNCHANGED <<clock, clockSteps, entries, candidates, due, held, delivery, timer,
                          wakePending, stopping, historyVars>>
  BY <1>7, KeptQuiet DEF Looked, InBatch, Gone, historyVars
<1> QED BY <1>1, <1>2, <1>3, <1>5, <1>6, <1>7
     DEF SchedulerMoves, SchedulerNext, WorkerStep, ExecutorReturns

-----------------------------------------------------------------------------
(* The process.                                                            *)

ProcessInvOnce == ProcessInv /\ OnceOK /\ LateOK

LEMMA ProcessStart ==
  ASSUME ProcessInit PROVE ProcessInvOnce /\ KeptOK
<1> USE DEF ProcessInit, SchedulerInit
<1>1. SchedulerTypeOK
  <2>1. clock \in Minutes /\ clockSteps \in 0..MaxClockSteps
    BY SchedulerAssumption DEF Minutes
  <2>2. <<>> \in Seq(Candidates) /\ <<>> \in Seq([task : Tasks, version : Versions, slot : Minutes])
    OBVIOUS
  <2>3. DOMAIN entries = {}
    OBVIOUS
  <2> QED BY <2>1, <2>2, <2>3 DEF SchedulerTypeOK, WorkerAt
<1>2. MainTypeOK
  BY DEF MainTypeOK, MainAt
<1>3. HistoryOK
  BY DEF HistoryOK
<1>4. ThreadsOK
  BY DEF ThreadsOK, SuccessIsAskedFor
<1>5. OnceOK
  <2>1. DOMAIN entries = {} /\ DOMAIN due = {}
    OBVIOUS
  <2>2. \A t \in Tasks, m \in Minutes : times[t][m] = 0
    OBVIOUS
  <2> QED BY <2>1, <2>2 DEF OnceOK, Behind, Awaited
<1>6. LateOK
  BY DEF LateOK
<1>7. KeptOK
  BY DEF KeptOK
<1> QED BY <1>1, <1>2, <1>3, <1>4, <1>5, <1>6, <1>7 DEF ProcessInvOnce, ProcessInv, ProcessTypeOK,
        MainTypeOK

LEMMA ProcessStep ==
  ASSUME ProcessInvOnce, [ProcessNext]_processVars
  PROVE  ProcessInvOnce' /\ SchedulerMoves
<1> USE DEF ProcessInvOnce, ProcessInv
<1>1. SchedulerTypeOK /\ MainTypeOK /\ HistoryOK /\ ThreadsOK /\ OnceOK /\ LateOK
  BY DEF ProcessTypeOK, MainTypeOK
<1>2. SchedulerMoves
  BY NextMoves
<1>3. SchedulerTypeOK' /\ HistoryOK'
  BY <1>1, <1>2, TypeStep DEF OnceOK
<1>4. MainTypeOK' /\ ThreadsOK'
  BY <1>1, MainMoves DEF SchedulerTypeOK
<1>5. OnceOK' /\ LateOK'
  BY <1>1, <1>2, OnceStep, LateStep
<1>6. ProcessTypeOK'
  BY <1>3, <1>4 DEF ProcessTypeOK, MainTypeOK
<1> QED BY <1>2, <1>3, <1>4, <1>5, <1>6

\* The invariant of all that a process does.
THEOREM ProcessInvariance == ProcessSpec => []ProcessInvOnce
<1>1. ProcessInit => ProcessInvOnce
  BY ProcessStart
<1>2. ProcessInvOnce /\ [ProcessNext]_processVars => ProcessInvOnce'
  BY ProcessStep
<1> QED BY <1>1, <1>2, PTL DEF ProcessSpec

\* The variables of the two threads, the scheduler and the runtime keep their types.
THEOREM ProcessTypeCorrect == ProcessSpec => []ProcessTypeOK
<1>1. ProcessInvOnce => ProcessTypeOK
  BY DEF ProcessInvOnce, ProcessInv
<1> QED BY <1>1, ProcessInvariance, PTL

\* TaskScheduler::run and replace_config: in the life of a process no slot of a task
\* is executed twice, whatever configurations come and wherever the clock is set, as
\* long as the task stays among the entries.
THEOREM ExecutedOnce == ProcessSpec => []SlotOnce
<1>1. ProcessInvOnce => SlotOnce
  BY DEF ProcessInvOnce, OnceOK, Behind, SlotOnce
<1> QED BY <1>1, ProcessInvariance, PTL

\* request_stop: of a batch of any length and any number of candidates at most
\* one more is begun after the stop.
THEOREM StopEnds == ProcessSpec => []StopEndsBatch
<1>1. ProcessInvOnce => StopEndsBatch
  BY DEF ProcessInvOnce, LateOK, StopEndsBatch
<1> QED BY <1>1, ProcessInvariance, PTL

\* AgentApplication::run: whichever thread is the first to end and wherever the
\* signal comes, the process ends with success only when it was asked to.
THEOREM SuccessAskedFor == ProcessSpec => []SuccessIsAskedFor
<1>1. ProcessInvOnce => SuccessIsAskedFor
  BY DEF ProcessInvOnce, ProcessInv, ThreadsOK
<1> QED BY <1>1, ProcessInvariance, PTL

\* TaskScheduler::run: as long as the clock is not set and no stop is requested, a slot
\* that comes while the thread waits is executed in its minute or stands in the
\* batch, when the search for the next slot reaches to the end of the time looked at.
THEOREM SlotsAreKept ==
  ASSUME WithinLimit
  PROVE  ProcessSpec => []SlotKept
<1>1. ProcessInit => ProcessInvOnce /\ KeptOK
  BY ProcessStart
<1>2. ProcessInvOnce /\ KeptOK /\ [ProcessNext]_processVars => ProcessInvOnce' /\ KeptOK'
  <2> SUFFICES ASSUME ProcessInvOnce, KeptOK, [ProcessNext]_processVars
               PROVE  ProcessInvOnce' /\ KeptOK'
    OBVIOUS
  <2>1. ProcessInvOnce' /\ SchedulerMoves
    BY ProcessStep
  <2>2. SchedulerTypeOK /\ HistoryOK /\ OnceOK
    BY DEF ProcessInvOnce, ProcessInv, ProcessTypeOK
  <2> QED BY <2>1, <2>2, KeptStep
<1>3. KeptOK => SlotKept
  <2> SUFFICES ASSUME KeptOK, ~stopping, NEW o \in owed
               PROVE  o[2] = clock \/ \E i \in DOMAIN due : due[i].task = o[1]
    BY DEF SlotKept
  <2>1. IF InBatch THEN InHand(o)
        ELSE IF Gone THEN o[2] = clock \/ \E i \in DOMAIN due : due[i].task = o[1]
        ELSE IsNext(o)
    BY DEF KeptOK
  <2> QED BY <2>1 DEF InHand, IsNext
<1> QED BY <1>1, <1>2, <1>3, PTL DEF ProcessSpec
================================================================================
