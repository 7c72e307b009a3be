----------------------------- MODULE AgentProcess -----------------------------
(***************************************************************************)
(* The life of an agent process: main's handshake, AgentRuntime in the main *)
(* thread, TaskScheduler in the worker thread, the thread that waits for    *)
(* signals, and AgentApplication, which starts and joins them.  Each may    *)
(* be the first to end: by a signal, by a rejected credential, by an error. *)
(*                                                                         *)
(* Intervals and reconnect delays are any time: a wait of the main thread   *)
(* may end whenever it likes.  Answers of the control plane are arbitrary.  *)
(***************************************************************************)
EXTENDS TaskScheduler

VARIABLES
  main,          \* where the main thread is
  connected,     \* connected_
  initial,       \* the configuration of the handshake, until it is published
  runtimeStop,   \* stop_requested_ of AgentRuntime
  runtimeFailed, \* runtime_exception
  appStop,       \* stop_requested_ of AgentApplication
  signal,        \* how far the stop of a signal has been passed on
  exitCode

runtimeVars == <<main, connected, initial, runtimeStop, runtimeFailed, appStop,
                 signal, exitCode>>
processVars == <<schedulerVars, historyVars, runtimeVars>>

MainAt == {"handshake", "publish", "loop",
           "register", "greet", "fetch",     \* calls of reconnect
           "heartbeat", "poll",              \* calls of the connected loop
           "about", "asleep",                \* in wait_until: the flag was not set
           "stopping", "joining", "ended"}

\* An answer, a failure that may pass, one that will not, and 401 or 403.
Outcomes == {"ok", "transient", "permanent", "refused"}

KeepScheduler == UNCHANGED <<schedulerVars, historyVars>>

MainTo(place) ==
  /\ main' = place
  /\ UNCHANGED <<connected, initial, runtimeStop, runtimeFailed, appStop, signal, exitCode>>

\* An exception leaves AgentRuntime::run.
MainThrows ==
  /\ main' = "stopping" /\ runtimeFailed' = TRUE
  /\ UNCHANGED <<connected, initial, runtimeStop, appStop, signal, exitCode>>
  /\ KeepScheduler

-----------------------------------------------------------------------------
(* main: the handshake.                                                    *)

\* Register, heartbeat and configuration in one.  A failure that may pass lets
\* the agent start without a connection, any other ends it.
Handshake ==
  /\ main = "handshake"
  /\ \/ /\ main' = "publish" /\ connected' = TRUE
        /\ initial' \in Configs /\ UNCHANGED exitCode
     \/ main' = "publish" /\ UNCHANGED <<connected, initial, exitCode>>
     \/ main' = "ended" /\ exitCode' = 1 /\ UNCHANGED <<connected, initial>>
  /\ UNCHANGED <<runtimeStop, runtimeFailed, appStop, signal>>
  /\ KeepScheduler

\* AgentApplication::run publishes before there is a thread to see it.
Publish ==
  /\ main = "publish" /\ main' = "loop"
  /\ IF connected THEN PublishFirst(initial) ELSE StartWorker
  /\ initial' = EmptyConfig
  /\ UNCHANGED <<connected, runtimeStop, runtimeFailed, appStop, signal, exitCode>>

-----------------------------------------------------------------------------
(* AgentRuntime::run.  A place stands for what the thread does next; where   *)
(* the code looks at its flag with nothing in between, it looks once here.   *)

\* Before a call or a wait; the wait looks at the flag under a mutex that
\* request_stop does not take, so its notice may come before the thread sleeps.
Unless(stop, places) ==
  \E place \in (IF runtimeStop THEN {stop} ELSE places) : MainTo(place)

LoopTop ==
  /\ main = "loop"
  /\ Unless("stopping", IF connected THEN {"heartbeat", "poll", "about"}
                                     ELSE {"register", "about"})
  /\ KeepScheduler

\* reconnect: register, heartbeat, configuration, a look at the flag between.
ReconnectCall ==
  /\ main \in {"register", "greet"}
  /\ \E outcome \in Outcomes :
       \/ /\ outcome = "ok" /\ KeepScheduler
          /\ Unless("loop", IF main = "register" THEN {"greet"} ELSE {"fetch"})
       \/ outcome = "transient" /\ Unless("loop", {"about"}) /\ KeepScheduler
       \/ outcome \in {"permanent", "refused"} /\ MainThrows

ReconnectFetch ==
  /\ main = "fetch"
  /\ \E outcome \in Outcomes :
       \/ /\ outcome = "ok" /\ \E config \in Configs : ReplaceConfig(config)
          /\ connected' = TRUE /\ main' = "loop"
          /\ UNCHANGED <<initial, runtimeStop, runtimeFailed, appStop, signal, exitCode>>
       \/ outcome = "transient" /\ Unless("loop", {"about"}) /\ KeepScheduler
       \/ outcome \in {"permanent", "refused"} /\ MainThrows

\* send_heartbeat: only a rejected credential is not forgiven.
Heartbeat ==
  /\ main = "heartbeat"
  /\ \E outcome \in Outcomes :
       \/ outcome # "refused" /\ Unless("stopping", {"poll", "about"}) /\ KeepScheduler
       \/ outcome = "refused" /\ MainThrows

\* refresh_config: after a failure the last configuration stays.
RefreshConfig ==
  /\ main = "poll"
  /\ \E outcome \in Outcomes :
       \/ /\ outcome = "ok" /\ Unless("stopping", {"about"})
          /\ \E config \in Configs : ReplaceConfig(config)
       \/ /\ outcome \in {"transient", "permanent"} /\ Unless("stopping", {"about"})
          /\ KeepScheduler
       \/ outcome = "refused" /\ MainThrows

WaitSleeps == main = "about" /\ MainTo("asleep") /\ KeepScheduler

WaitTimesOut == main = "asleep" /\ MainTo("loop") /\ KeepScheduler

-----------------------------------------------------------------------------
(* Stopping.                                                               *)

\* AgentRuntime::request_stop: a notice for a thread that is asleep.
RuntimeStopped ==
  /\ runtimeStop' = TRUE
  /\ main' = IF ~runtimeStop /\ main = "asleep" THEN "loop" ELSE main

\* ProcessSignalMonitor, once: AgentApplication::request_stop, the runtime first.
SignalArrives ==
  /\ signal = "none" /\ main \notin {"handshake", "ended"}
  /\ IF appStop
     THEN signal' = "passed" /\ UNCHANGED <<main, runtimeStop, appStop>>
     ELSE signal' = "half" /\ appStop' = TRUE /\ RuntimeStopped
  /\ UNCHANGED <<connected, initial, runtimeFailed, exitCode>>
  /\ KeepScheduler

SignalPassedOn ==
  /\ signal = "half" /\ signal' = "passed"
  /\ RequestWorkerStop
  /\ UNCHANGED <<main, connected, initial, runtimeStop, runtimeFailed, appStop, exitCode>>

\* Mutant: the exception is kept and no one is told.
WorkerFailsSilently ==
  /\ worker = "threw" /\ worker' = "failed"
  /\ UNCHANGED <<clock, clockSteps, entries, candidates, due, held, delivery, timer,
                 wakePending, stopping, historyVars, runtimeVars>>

\* The thread keeps its exception and stops the runtime.
WorkerFails ==
  /\ worker = "threw" /\ worker' = "failed"
  /\ RuntimeStopped
  /\ UNCHANGED <<clock, clockSteps, entries, candidates, due, held, delivery, timer,
                 wakePending, stopping, historyVars>>
  /\ UNCHANGED <<connected, initial, runtimeFailed, appStop, signal, exitCode>>

\* The runtime has ended: stop the scheduler, unless a signal is doing it.
StopBoth ==
  /\ main = "stopping" /\ main' = "joining"
  /\ IF appStop THEN KeepScheduler /\ UNCHANGED runtimeStop
                ELSE RequestWorkerStop /\ runtimeStop' = TRUE
  /\ appStop' = TRUE
  /\ UNCHANGED <<connected, initial, runtimeFailed, signal, exitCode>>

\* Mutant: the worker's exception is not rethrown.
JoinedForgetful ==
  /\ main = "joining" /\ worker \in {"returned", "failed"}
  /\ main' = "ended" /\ exitCode' = IF runtimeFailed THEN 1 ELSE 0
  /\ UNCHANGED <<connected, initial, runtimeStop, runtimeFailed, appStop, signal>>
  /\ KeepScheduler

\* Both exceptions make the process fail.
Joined ==
  /\ main = "joining" /\ worker \in {"returned", "failed"}
  /\ main' = "ended"
  /\ exitCode' = IF runtimeFailed \/ worker = "failed" THEN 1 ELSE 0
  /\ UNCHANGED <<connected, initial, runtimeStop, runtimeFailed, appStop, signal>>
  /\ KeepScheduler

-----------------------------------------------------------------------------

ProcessInit ==
  /\ SchedulerInit
  /\ main = "handshake" /\ connected = FALSE /\ initial = EmptyConfig
  /\ runtimeStop = FALSE /\ runtimeFailed = FALSE /\ appStop = FALSE
  /\ signal = "none" /\ exitCode = 0

MainStep ==
  \/ Handshake \/ Publish
  \/ LoopTop \/ ReconnectCall \/ ReconnectFetch \/ Heartbeat \/ RefreshConfig
  \/ WaitSleeps \/ WaitTimesOut
  \/ StopBoth \/ Joined

Running == main # "ended" /\ UNCHANGED runtimeVars

\* The process is gone.
Ended == main = "ended" /\ UNCHANGED processVars

ProcessNext ==
  \/ MainStep
  \/ SignalArrives \/ SignalPassedOn
  \/ WorkerFails
  \/ SchedulerNext /\ Running
  \/ Ended

ProcessSpec == ProcessInit /\ [][ProcessNext]_processVars

\* The threads run; an execution that sees the stop ends, at the latest when its
\* request times out; the clocks go on.  No other end of an execution is promised.
FairProcessSpec ==
  /\ ProcessSpec
  /\ WF_processVars(MainStep)
  /\ WF_processVars(SignalPassedOn) /\ WF_processVars(WorkerFails)
  /\ WF_processVars(WorkerStep /\ Running)
  /\ WF_processVars(stopping /\ ExecutorReturns /\ Running)
  /\ WF_processVars(Tick /\ Running)

-----------------------------------------------------------------------------
(* Properties.                                                             *)

ProcessTypeOK ==
  /\ SchedulerTypeOK
  /\ main \in MainAt /\ initial \in Configs \cup {EmptyConfig}
  /\ connected \in BOOLEAN /\ runtimeStop \in BOOLEAN /\ runtimeFailed \in BOOLEAN
  /\ appStop \in BOOLEAN /\ signal \in {"none", "half", "passed"} /\ exitCode \in {0, 1}

\* The service is started again only after a failure, so the process ends with
\* success only when a signal asked it to and neither thread failed, whichever
\* of them was the first to end.
SuccessIsAskedFor ==
  main = "ended" /\ exitCode = 0 =>
    signal # "none" /\ worker = "returned" /\ ~runtimeFailed

\* A signal, an error of the worker and a rejected credential each end both
\* threads, although a notice may come just before a thread falls asleep.
StopEndsProcess ==
  (signal # "none" \/ worker \in {"threw", "failed"} \/ runtimeFailed) ~> main = "ended"
=============================================================================
