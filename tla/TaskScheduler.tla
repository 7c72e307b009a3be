---------------------------- MODULE TaskScheduler ----------------------------
(***************************************************************************)
(* TaskScheduler: the worker thread's loop over the slots of the entries    *)
(* and the candidates, under a configuration the main thread replaces and a *)
(* system clock that may be set.  The executor is what it looks like from   *)
(* here: it is busy for any time, may wait between two attempts of a        *)
(* delivery, and returns or throws.                                         *)
(*                                                                         *)
(* The clock counts minutes, from Base.  The thread's own steps take no     *)
(* minute; an execution takes any number.  Waits follow the steady clock.   *)
(***************************************************************************)
EXTENDS CronSchedule, FiniteSets, Sequences

CONSTANTS
  Tasks,            \* task ids, which are numbers
  Versions,         \* what same_execution_config tells apart
  CronOf,           \* the expression in each version
  Candidates,       \* execution keys of manual runs
  CandidateTask,
  NoCandidate,
  Configs,          \* the configurations the control plane may hand out
  Base, Horizon,    \* bounds of the clock
  MaxClockSteps     \* bound on setting the clock

ASSUME SchedulerAssumption ==
  /\ Tasks \subseteq Nat /\ IsFiniteSet(Tasks)
  /\ CronOf \in [Versions -> [Fields -> FieldText]]
  /\ CandidateTask \in [Candidates -> Tasks] /\ NoCandidate \notin Candidates
  /\ Base \in Nat /\ Horizon \in Nat /\ Base <= Horizon
  /\ MaxClockSteps \in Nat

VARIABLES
  clock,        \* system_clock, in minutes
  clockSteps,
  entries,      \* entries: version, next_slot, last_dispatched_slot of each task
  candidates,   \* pending_candidates
  worker,       \* where the thread is
  due,          \* the batch of this round
  held,         \* the candidate given to the executor
  delivery,     \* is the executor waiting between two attempts?
  timer,        \* has the minute of wait_until still to pass?
  wakePending,
  stopping,     \* stop_requested, of the scheduler and of the executor
  \* history, for the properties alone
  times,        \* how often each slot of a task was executed
  removed,      \* tasks that were out of the entries after having been in
  owed,         \* slots that came while the thread had no cron slot in hand
  late          \* executions begun after a stop was requested

schedulerVars == <<clock, clockSteps, entries, candidates, worker, due, held,
                   delivery, timer, wakePending, stopping>>
historyVars == <<times, removed, owed, late>>

Minutes == Base..Horizon
ScheduleOf == [v \in Versions |-> Parse(CronOf[v])]

WorkerAt == {"unborn",   \* the thread is not there yet
             "recover",  \* recover_pending_jobs
             "round",    \* at the top of the loop
             "batch",    \* next of the due slots
             "entry",    \* stop was looked at, the entry was not
             "execute",  \* in executor.execute
             "pending",  \* no slot is due
             "offer",    \* execute_pending looks for room
             "manual",   \* execute_pending runs the job
             "wait",     \* in wait_until
             "returned",
             "threw", "failed"} \* an exception, before and after it is passed on

InExecutor == worker \in {"recover", "execute", "manual"}

\* What AgentRuntime hands over: the tasks that are enabled, with valid and with
\* broken expressions, and the notices of runs that are pending.
ConfigType == [tasks : UNION {[S -> Versions] : S \in SUBSET Tasks},
               pending : {<<>>} \cup {<<c>> : c \in Candidates}]

ASSUME ConfigAssumption == Configs \subseteq ConfigType

EmptyConfig == [tasks |-> [t \in {} |-> NoSlot], pending |-> <<>>]

SetOf(seq) == {seq[i] : i \in DOMAIN seq}

-----------------------------------------------------------------------------
(* Operations of other threads.                                            *)

\* Mutant: the last slot that was dispatched is forgotten with a change.
FreshEntryForgetful(t, v) ==
  [version |-> v, next |-> NextAfter(ScheduleOf[v], clock), last |-> NoSlot]

\* A task that is new or changed: no slot before the last one dispatched, which
\* counts when the clock was set back.
FreshEntry(t, v) ==
  LET last == IF t \in DOMAIN entries THEN entries[t].last ELSE NoSlot
      from == IF last > clock THEN last ELSE clock
  IN  [version |-> v, next |-> NextAfter(ScheduleOf[v], from), last |-> last]

\* replace_config.  An unchanged task keeps its entry; a broken expression is
\* skipped; the candidates are replaced whole.
Replaced(config) ==
  LET kept == {t \in DOMAIN config.tasks : ValidSchedule(ScheduleOf[config.tasks[t]])}
      same(t) == t \in DOMAIN entries /\ entries[t].version = config.tasks[t]
  IN  /\ entries' = [t \in kept |-> IF same(t) THEN entries[t]
                                               ELSE FreshEntry(t, config.tasks[t])]
      /\ candidates' = config.pending
      /\ wakePending' = TRUE
      /\ removed' = removed \cup (DOMAIN entries \ kept)
      /\ owed' = {o \in owed : o[1] \in kept /\ same(o[1])}
      /\ UNCHANGED <<clock, clockSteps, due, held, delivery, timer, stopping, times, late>>

ReplaceConfig(config) == Replaced(config) /\ UNCHANGED worker

\* The thread is started, with a configuration or without one.
PublishFirst(config) == Replaced(config) /\ worker' = "recover"

StartWorker ==
  /\ worker' = "recover"
  /\ UNCHANGED <<clock, clockSteps, entries, candidates, due, held, delivery, timer,
                 wakePending, stopping, historyVars>>

\* request_stop: the executor's flag too, whose notice reaches a delivery only
\* when it is already asleep, and a wake that is kept for the next wait.
RequestWorkerStop ==
  /\ stopping' = TRUE
  /\ delivery' = IF ~stopping /\ delivery = "asleep" THEN "no" ELSE delivery
  /\ wakePending' = IF stopping THEN wakePending ELSE TRUE
  /\ UNCHANGED <<clock, clockSteps, entries, candidates, worker, due, held, timer,
                 historyVars>>

-----------------------------------------------------------------------------
(* The executor, seen from the thread.                                     *)

\* deliver looks at the flag, holding a mutex request_stop does not take ...
DeliveryBacksOff ==
  /\ InExecutor /\ delivery = "no" /\ ~stopping
  /\ delivery' = "about"
  /\ UNCHANGED <<clock, clockSteps, entries, candidates, worker, due, held, timer,
                 wakePending, stopping, historyVars>>

\* ... and then falls asleep, until the next attempt is due.
DeliverySleeps ==
  /\ delivery = "about" /\ delivery' = "asleep"
  /\ UNCHANGED <<clock, clockSteps, entries, candidates, worker, due, held, timer,
                 wakePending, stopping, historyVars>>

DeliveryWakes ==
  /\ delivery = "asleep" /\ delivery' = "no"
  /\ UNCHANGED <<clock, clockSteps, entries, candidates, worker, due, held, timer,
                 wakePending, stopping, historyVars>>

\* Mutant: the candidate is not let go of.
ReturnHolding(next) ==
  /\ InExecutor /\ delivery = "no" /\ worker' = next
  /\ UNCHANGED <<clock, clockSteps, entries, due, held, delivery, wakePending, stopping,
                 historyVars>>

Return(next) ==
  /\ InExecutor /\ delivery = "no"
  /\ worker' = next /\ held' = NoCandidate
  /\ UNCHANGED <<clock, clockSteps, entries, due, delivery, wakePending, stopping,
                 historyVars>>

\* Done, refused, or a DeliveryAbandoned, which is caught.
RecoverReturns == worker = "recover" /\ Return("round") /\ UNCHANGED <<candidates, timer>>
ExecuteReturns == worker = "execute" /\ Return("batch") /\ UNCHANGED <<candidates, timer>>
ManualReturns == worker = "manual" /\ Return("round") /\ UNCHANGED <<candidates, timer>>

\* QueueFull, which a stop counts as: the candidate goes back to the head of
\* the list, whatever the list is by now.
OfferRefused ==
  /\ worker = "offer"
  /\ candidates' = <<held>> \o candidates
  /\ worker' = "wait" /\ held' = NoCandidate /\ timer' = 1
  /\ UNCHANGED <<clock, clockSteps, entries, due, delivery, wakePending, stopping,
                 historyVars>>

OfferAccepted ==
  /\ worker = "offer" /\ ~stopping /\ worker' = "manual"
  /\ UNCHANGED <<clock, clockSteps, entries, candidates, due, held, delivery, timer,
                 wakePending, stopping, historyVars>>

\* A rejected credential or an error of the queue is not caught.
ExecutorThrows == Return("threw") /\ UNCHANGED <<candidates, timer>>

-----------------------------------------------------------------------------
(* The loop.                                                               *)

LoopEnds ==
  /\ worker = "round" /\ stopping
  /\ worker' = "returned"
  /\ UNCHANGED <<clock, clockSteps, entries, candidates, due, held, delivery, timer,
                 wakePending, stopping, historyVars>>

\* Slots of an earlier minute are skipped, not caught up.
Current(e) == IF e.next # NoSlot /\ e.next < clock
              THEN NextAfter(ScheduleOf[e.version], clock) ELSE e.next

\* The entry with its slot of this minute taken, before it is executed.
Dispatched(e) ==
  [e EXCEPT !.next = NextAfter(ScheduleOf[e.version], clock), !.last = clock]

\* The tasks of S in the order of their ids: there is one such sequence.
ById(S) == {seq \in [1..Cardinality(S) -> S] :
  SetOf(seq) = S /\ \A i, j \in DOMAIN seq : i < j => seq[i] < seq[j]}

Round ==
  LET dueNow == {t \in DOMAIN entries : Current(entries[t]) = clock} IN
  /\ worker = "round" /\ ~stopping
  /\ entries' = [t \in DOMAIN entries |->
       IF t \in dueNow THEN Dispatched(entries[t])
                       ELSE [entries[t] EXCEPT !.next = Current(entries[t])]]
  /\ \E order \in ById(dueNow) :
       due' = [i \in DOMAIN order |-> [task |-> order[i], version |-> entries[order[i]].version,
                                      slot |-> clock]]
  /\ worker' = IF dueNow = {} THEN "pending" ELSE "batch"
  /\ UNCHANGED <<clock, clockSteps, candidates, held, delivery, timer, wakePending, stopping,
                 historyVars>>

\* Mutant: a stop is noticed after the batch.
TakeDueRegardless ==
  /\ worker = "batch" /\ due # <<>>
  /\ worker' = "entry" /\ UNCHANGED due
  /\ UNCHANGED <<clock, clockSteps, entries, candidates, held, delivery, timer, wakePending,
                 stopping, historyVars>>

\* The next of the batch, unless a stop is requested.
TakeDue ==
  /\ worker = "batch" /\ due # <<>>
  /\ IF stopping THEN due' = <<>> /\ UNCHANGED worker
                 ELSE worker' = "entry" /\ UNCHANGED due
  /\ UNCHANGED <<clock, clockSteps, entries, candidates, held, delivery, timer, wakePending,
                 stopping, historyVars>>

\* A refresh may have taken the task away or changed it since.
ExecuteDue ==
  LET d == Head(due)
      same == d.task \in DOMAIN entries /\ entries[d.task].version = d.version
  IN
  /\ worker = "entry" /\ due' = Tail(due)
  /\ IF same
     THEN /\ worker' = "execute"
          /\ times' = [times EXCEPT ![d.task][d.slot] = @ + 1]
          /\ owed' = owed \ {<<d.task, d.slot>>}
          /\ late' = IF stopping THEN late + 1 ELSE late
     ELSE worker' = "batch" /\ UNCHANGED <<times, owed, late>>
  /\ UNCHANGED <<clock, clockSteps, entries, candidates, held, delivery, timer, wakePending,
                 stopping, removed>>

\* After a batch the slots that have come meanwhile are skipped, that of the
\* present minute too.
BatchEnds ==
  /\ worker = "batch" /\ due = <<>>
  /\ entries' = [t \in DOMAIN entries |->
       IF entries[t].next # NoSlot /\ entries[t].next <= clock
       THEN [entries[t] EXCEPT !.next = NextAfter(ScheduleOf[entries[t].version], clock)]
       ELSE entries[t]]
  /\ worker' = "round"
  /\ UNCHANGED <<clock, clockSteps, candidates, due, held, delivery, timer, wakePending, stopping,
                 historyVars>>

\* dispatch_one_pending: candidates of unknown tasks are dropped up to the first
\* that is known.
DispatchOnePending ==
  LET known == {i \in DOMAIN candidates : CandidateTask[candidates[i]] \in DOMAIN entries} IN
  /\ worker = "pending"
  /\ \/ /\ known = {}
        /\ candidates' = <<>> /\ worker' = "wait" /\ timer' = 1 /\ UNCHANGED <<held, late>>
     \/ \E first \in known :
          /\ \A i \in known : first <= i
          /\ held' = candidates[first]
          /\ candidates' = SubSeq(candidates, first + 1, Len(candidates))
          /\ worker' = "offer"
          /\ late' = IF stopping THEN late + 1 ELSE late
          /\ UNCHANGED timer
  /\ UNCHANGED <<clock, clockSteps, entries, due, delivery, wakePending, stopping,
                 times, removed, owed>>

\* wait_until: a minute at most, and never past the next slot; a wake that came
\* before counts.
WaitEnds ==
  /\ worker = "wait" /\ (wakePending \/ timer = 0)
  /\ wakePending' = FALSE /\ timer' = 0 /\ worker' = "round"
  /\ UNCHANGED <<clock, clockSteps, entries, candidates, due, held, delivery, stopping,
                 historyVars>>

-----------------------------------------------------------------------------
(* Time.                                                                   *)

\* A minute passes on both clocks; at the horizon the system clock is held.  The
\* slots it brings are owed while the thread waits; while it runs a candidate
\* the first slot of a task is, until that minute is over too.
Tick ==
  LET next == IF clock < Horizon THEN clock + 1 ELSE clock
      idle == worker = "manual" \/ worker = "wait"
      come == {t \in DOMAIN entries :
                 /\ Matches(ScheduleOf[entries[t].version], next)
                 /\ worker = "manual" => entries[t].next >= next}
  IN
  /\ InExecutor \/ (worker = "wait" /\ timer = 1 /\ ~wakePending)
  /\ clock' = next /\ timer' = 0
  /\ owed' = IF clockSteps = 0 /\ idle /\ ~stopping /\ next # clock
             THEN (IF worker = "manual" THEN {} ELSE owed) \cup {<<t, next>> : t \in come}
             ELSE owed
  /\ UNCHANGED <<clockSteps, entries, candidates, worker, due, held, delivery, wakePending,
                 stopping, times, removed, late>>

\* The system clock is set, forward or back; the steady clock does not notice.
ClockSet ==
  /\ clockSteps < MaxClockSteps /\ clockSteps' = clockSteps + 1
  /\ clock' \in Minutes \ {clock}
  /\ owed' = {}
  /\ UNCHANGED <<entries, candidates, worker, due, held, delivery, timer, wakePending,
                 stopping, times, removed, late>>

-----------------------------------------------------------------------------

SchedulerInit ==
  /\ clock = Base /\ clockSteps = 0
  /\ entries = [t \in {} |-> NoSlot] /\ candidates = <<>>
  /\ worker = "unborn" /\ due = <<>> /\ held = NoCandidate
  /\ delivery = "no" /\ timer = 0 /\ wakePending = FALSE /\ stopping = FALSE
  /\ times = [t \in Tasks |-> [m \in Minutes |-> 0]]
  /\ removed = {} /\ owed = {} /\ late = 0

\* What the thread does by itself, the length of an execution apart.
WorkerStep ==
  \/ LoopEnds \/ Round \/ TakeDue \/ ExecuteDue \/ BatchEnds
  \/ DispatchOnePending \/ OfferRefused \/ OfferAccepted \/ WaitEnds \/ DeliverySleeps \/ DeliveryWakes

ExecutorReturns == RecoverReturns \/ ExecuteReturns \/ ManualReturns

SchedulerNext ==
  \/ WorkerStep \/ DeliveryBacksOff \/ ExecutorReturns \/ ExecutorThrows
  \/ Tick \/ ClockSet

-----------------------------------------------------------------------------
(* Properties.                                                             *)

EntryType == [version : Versions, next : Int, last : Int]

SchedulerTypeOK ==
  /\ clock \in Minutes /\ clockSteps \in 0..MaxClockSteps
  /\ DOMAIN entries \subseteq Tasks /\ \A t \in DOMAIN entries : entries[t] \in EntryType
  /\ candidates \in Seq(Candidates)
  /\ worker \in WorkerAt /\ held \in Candidates \cup {NoCandidate}
  /\ held # NoCandidate <=> worker \in {"offer", "manual"}
  /\ due \in Seq([task : Tasks, version : Versions, slot : Minutes])
  /\ delivery \in {"no", "about", "asleep"} /\ (delivery # "no" => InExecutor)
  /\ timer \in {0, 1} /\ wakePending \in BOOLEAN /\ stopping \in BOOLEAN

\* Setting the clock back, a changed configuration, a slot still in the batch: no
\* slot of a task is executed twice in the life of a process, as long as the
\* task stays among the entries.
SlotOnce == \A t \in Tasks \ removed : \A m \in Minutes : times[t][m] <= 1

\* A slot that comes while no other slot is in hand is executed in its minute, or
\* stands in the batch: the waiting thread is always up in time, and a manual run
\* delays a slot, but makes it be skipped only when it lasts longer than that minute.
SlotKept ==
  \A o \in owed : stopping \/ o[2] = clock \/ \E i \in DOMAIN due : due[i].task = o[1]

\* A stop lets what runs run on, and one more begin at most, however many slots
\* and candidates wait.
StopEndsBatch == late <= 1
=============================================================================
