--------------------------- MODULE ControlService ---------------------------
(***************************************************************************)
(* The control plane with the clients that read from it or talk to it over  *)
(* HTTP.  The console reads, a pull reads, and a call changes only what any  *)
(* other request would: none of them alters what the next one does to the   *)
(* runs.  So a behaviour watches one of them, or none and then every request *)
(* there is, and the invariants of the control plane are checked under all. *)
(***************************************************************************)
EXTENDS Console, ConfigPull, HttpExchange

CONSTANTS
  Traffic   \* the requests of the agents while the console or a pull is watched

ASSUME ServiceAssumption == Traffic \subseteq Requests

VARIABLES
  watched

serviceVars == <<controlVars, consoleVars, configVars, exchangeVars, watched>>

Watched == {"requests", "console", "pull", "call"}

ServiceInit ==
  /\ watched \in Watched
  /\ ControlInit /\ ConsoleInit /\ ConfigInit /\ ExchangeInit
  /\ watched # "console" => list = "runs"
  /\ watched # "call" => credential = "own" /\ question = CHOOSE q \in Questions : TRUE

RequestsWatched ==
  /\ watched = "requests"
  /\ ControlNext
  /\ UNCHANGED <<consoleVars, configVars, exchangeVars>>

\* Switching a task does to the lists nothing the end of a run does not do; and
\* without it the look of a handler is never out of date.
ConsoleWatched ==
  /\ watched = "console"
  /\ \/ ConsoleStep /\ UNCHANGED controlVars
     \/ /\ <<\/ \E q \in Traffic, answer \in Answers : Handle(q, answer)
             \/ \E k \in Keys : RequestManualRun(k) \/ RequestRetryRun(k)>>_controlVars
        /\ ListFollows
  /\ UNCHANGED <<configVars, exchangeVars>>

PullWatched ==
  /\ watched = "pull"
  /\ \/ ConfigStep /\ UNCHANGED controlVars
     \/ /\ \/ \E q \in Traffic, answer \in Answers : Handle(q, answer)
           \/ \E q \in Traffic : LookAtRun(q)
           \/ ExecutableCommand
           \/ \E r \in Rules : SwitchRule(r)
        /\ PullMisses
  /\ UNCHANGED <<consoleVars, exchangeVars>>

\* A report that is refused for a rule is told like any other refusal.
CallWatched ==
  /\ watched = "call"
  /\ \/ ExchangeStep
     \/ OperatorCommand /\ UNCHANGED exchangeVars
  /\ UNCHANGED <<consoleVars, configVars>>

ServiceNext ==
  /\ RequestsWatched \/ ConsoleWatched \/ PullWatched \/ CallWatched
  /\ UNCHANGED watched

ServiceSpec ==
  ServiceInit /\ [][ServiceNext]_serviceVars /\ ExchangeFairness
=============================================================================
