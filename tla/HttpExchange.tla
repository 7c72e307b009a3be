---------------------------- MODULE HttpExchange ----------------------------
(***************************************************************************)
(* One client of the control plane and what becomes of its requests: the    *)
(* callbacks of HttpRequestOperation on the one thread of its io_context,   *)
(* the controllers with their authentication and status codes, and what the *)
(* caller is told.                                                         *)
(*                                                                         *)
(* The completion of an operation and of the timer are queued as handlers,  *)
(* in either order.  A request that was sent may be handled after its       *)
(* caller has given up; transactions may fail before and after they commit; *)
(* the control plane may be killed; connections break.                      *)
(***************************************************************************)
EXTENDS ControlPlane

CONSTANTS
  Questions,  \* what the client asks
  Large       \* the questions whose answer exceeds the limit of a body

ASSUME ExchangeAssumption == Questions \subseteq Requests /\ Large \subseteq Questions

VARIABLES
  credential,  \* the token is the node's, no node's, or another node's
  question,
  op,          \* the HttpRequestOperation
  arrived,     \* requests the control plane has not handled; late: of an earlier call
  reply,       \* the status on its way to the client, or "none" or "broken"
  decided,     \* history: how the question was decided since it was asked
  outcome      \* what the caller was told

exchangeVars == <<credential, question, op, arrived, reply, decided, outcome>>

-----------------------------------------------------------------------------
(* HttpRequestOperation                                                    *)

\* step: the operation under way.  ready: how it completed, once its handler
\* is queued.  timer: "queued" or "aborted" once its handler is queued.
NewOperation ==
  [step |-> "resolve", ready |-> "no", timer |-> "set", finished |-> FALSE,
   timedOut |-> FALSE, failed |-> FALSE, response |-> "none"]

NoOperation == [NewOperation EXCEPT !.step = "none", !.timer = "gone"]

Following == [resolve |-> "connect", connect |-> "write", write |-> "read", read |-> "over"]

Ask(q) ==
  /\ outcome # "waiting"
  /\ question' = q /\ op' = NewOperation
  /\ arrived' = {[a EXCEPT !.late = TRUE] : a \in arrived}
  /\ reply' = "none" /\ decided' = {} /\ outcome' = "waiting"
  /\ UNCHANGED credential

\* resolve and connect succeed or fail; what was written may arrive.
OperationCompletes ==
  /\ op.step \in {"resolve", "connect", "write"} /\ op.ready = "no" /\ ~op.finished
  /\ \E ready \in {"ok", "error"} :
       /\ op' = [op EXCEPT !.ready = ready]
       /\ \/ op.step = "write" /\ ready = "ok"
             /\ arrived' = arrived \cup {[request |-> question, late |-> FALSE]}
          \/ UNCHANGED arrived
  /\ UNCHANGED <<credential, question, reply, decided, outcome>>

\* The whole answer has been read, and is not too large; or the connection
\* broke, which it may do with the answer on the way.
ReadCompletes ==
  /\ op.step = "read" /\ op.ready = "no" /\ ~op.finished
  /\ \/ /\ reply \notin {"none", "broken"} /\ question \notin Large
        /\ op' = [op EXCEPT !.ready = "ok", !.response = reply]
     \/ op' = [op EXCEPT !.ready = "error"]
  /\ UNCHANGED <<credential, question, arrived, reply, decided, outcome>>

\* The socket was closed: what was under way is aborted.
OperationAborted ==
  /\ op.step \notin {"none", "over"} /\ op.ready = "no" /\ op.finished
  /\ op' = [op EXCEPT !.ready = "error"]
  /\ UNCHANGED <<credential, question, arrived, reply, decided, outcome>>

TimerExpires ==
  /\ op.timer = "set"
  /\ op' = [op EXCEPT !.timer = "queued"]
  /\ UNCHANGED <<credential, question, arrived, reply, decided, outcome>>

\* finish: a timer that has not expired is cancelled.
Finish(o, failed) ==
  [o EXCEPT !.finished = TRUE, !.failed = failed,
            !.timer = IF @ = "set" THEN "aborted" ELSE @]

OnTimeout ==
  /\ op.timer \in {"queued", "aborted"}
  /\ op' = IF op.timer = "aborted" \/ op.finished THEN [op EXCEPT !.timer = "gone"]
           ELSE Finish([op EXCEPT !.timer = "gone", !.timedOut = TRUE], TRUE)
  /\ UNCHANGED <<credential, question, arrived, reply, decided, outcome>>

\* on_resolve, on_connect, on_write and on_read
OnCompletion ==
  /\ op.ready # "no"
  /\ op' = IF op.finished THEN [op EXCEPT !.step = "over", !.ready = "no"]
           ELSE IF op.ready = "error" THEN Finish([op EXCEPT !.step = "over", !.ready = "no"], TRUE)
           ELSE IF op.step = "read" THEN Finish([op EXCEPT !.step = "over", !.ready = "no"], FALSE)
           ELSE [op EXCEPT !.step = Following[op.step], !.ready = "no"]
  /\ UNCHANGED <<credential, question, arrived, reply, decided, outcome>>

-----------------------------------------------------------------------------
(* What the caller is told.                                                *)

\* Mutant: an error of the server counts as its refusal.
TransientNetworkOnly(status) == status \in {"timeout", "network"}

\* is_transient, by the kind of the error and the status
Transient(status) == status \in {"timeout", "network", "500"}

\* is_auth_rejection
AuthRejection(status) == status \in {"401", "403"}

TakeResponse ==
  IF op.timedOut THEN "timeout" ELSE IF op.failed THEN "network" ELSE op.response

Classified(status) ==
  IF status \in {"200", "201"} THEN "answered"
  ELSE IF AuthRejection(status) THEN "auth"
  ELSE IF Transient(status) THEN "again" ELSE "refused"

\* The io_context has run out of handlers.
Conclude ==
  /\ op.step = "over" /\ op.timer = "gone" /\ op.ready = "no"
  /\ outcome' = Classified(TakeResponse)
  /\ op' = NoOperation
  /\ UNCHANGED <<credential, question, arrived, reply, decided>>

-----------------------------------------------------------------------------
(* The controllers                                                         *)

\* The connection of a call that is over is closed.
Awaited(a) == ~a.late /\ outcome = "waiting"

Reply(a, status) == reply' = IF Awaited(a) THEN status ELSE reply

Decided(a, d) == decided' = IF Awaited(a) THEN decided \cup {d} ELSE decided

\* require_agent_node, then require_declared_node once the body is parsed
Unauthorized(a) ==
  /\ credential # "own"
  /\ Reply(a, IF credential = "unknown" THEN "401" ELSE "403")
  /\ arrived' = arrived \ {a}
  /\ UNCHANGED controlVars
  /\ UNCHANGED <<credential, question, op, decided, outcome>>

\* status_error_response for a refusal, whichever of 400, 404 and 409 it is
HttpStatus(q, answer) ==
  IF answer = "rejected" THEN "409" ELSE IF q.type = "report" THEN "200" ELSE "201"

\* The handler of a report has read the row of its run.
Looks(a) ==
  /\ credential = "own" /\ LookAtRun(a.request)
  /\ UNCHANGED exchangeVars

Handled(a, answer) ==
  /\ credential = "own" /\ Handle(a.request, answer)
  /\ Reply(a, HttpStatus(a.request, answer))
  /\ Decided(a, IF answer = "rejected" THEN "refused" ELSE "accepted")
  /\ arrived' = arrived \ {a}
  /\ UNCHANGED <<credential, question, op, outcome>>

\* The transaction commits and the answer to COMMIT is lost.
HandledUnknown(a, answer) ==
  /\ credential = "own" /\ answer # "rejected" /\ Handle(a.request, answer)
  /\ Reply(a, "500")
  /\ Decided(a, "accepted")
  /\ arrived' = arrived \ {a}
  /\ UNCHANGED <<credential, question, op, outcome>>

\* An exception before the commit: handle_unexpected_exception.
HandlerFails(a) ==
  /\ Reply(a, "500")
  /\ arrived' = arrived \ {a}
  /\ UNCHANGED controlVars
  /\ UNCHANGED <<credential, question, op, decided, outcome>>

\* The control plane is killed: what it was doing is rolled back.
ServerGone ==
  /\ arrived # {}
  /\ arrived' = {} /\ reply' = "broken"
  /\ HandlersGone
  /\ UNCHANGED <<credential, question, op, decided, outcome>>

-----------------------------------------------------------------------------

ExchangeInit ==
  /\ credential \in {"own", "unknown", "other"}
  /\ question \in Questions
  /\ op = NoOperation
  /\ arrived = {} /\ reply = "none" /\ decided = {} /\ outcome = "none"

ClientStep ==
  \/ OperationCompletes \/ ReadCompletes \/ OperationAborted
  \/ TimerExpires \/ OnTimeout \/ OnCompletion \/ Conclude

ExchangeStep ==
  \/ (\E q \in Questions : Ask(q)) /\ UNCHANGED controlVars
  \/ ClientStep /\ UNCHANGED controlVars
  \/ \E a \in arrived :
       \/ Unauthorized(a) \/ Looks(a) \/ HandlerFails(a)
       \/ \E answer \in Answers : Handled(a, answer) \/ HandledUnknown(a, answer)
  \/ ServerGone

\* The timer expires, and the thread that runs the io_context goes on.
ExchangeFairness ==
  /\ WF_exchangeVars((TimerExpires \/ OnTimeout) /\ UNCHANGED controlVars)
  /\ WF_exchangeVars((OperationAborted \/ OnCompletion \/ Conclude) /\ UNCHANGED controlVars)

-----------------------------------------------------------------------------

KeptReports == (UNION {receipts[k] : k \in Keys}) \cap Questions

Promise ==
  INSTANCE Exchange WITH
    Reports <- {q \in Questions : q.type # "start"},
    known <- credential = "own", kept <- KeptReports

\* The exchange keeps what Exchange promises: the caller is told that it was
\* answered, refused or not recognised only when that is what the control plane
\* decided, and kept, for this question; with the timer and the thread of the
\* client running, and nothing assumed of the network or the control plane, it
\* is always told.
ExchangeKept == Promise!ExchangeSpec
=============================================================================
