------------------------ MODULE ControlService_proofs ------------------------
(***************************************************************************)
(* The clients of the control plane alter nothing of it: each of their steps *)
(* is a request, a command, or none.  And what each of them sees is so: the *)
(* alerts, the configuration of a pull, the pages of a walk, and what the   *)
(* caller of the HTTP client is told.                                       *)
(***************************************************************************)
EXTENDS ControlService, ControlPlane_proofs

\* What is under way to the control plane is a request.
CallOK == question \in Questions /\ arrived \subseteq [request : Requests, late : BOOLEAN]

LEMMA HandleIsStep ==
  ASSUME NEW q \in Requests, NEW answer \in Answers, Handle(q, answer)
  PROVE  ControlNext
BY DEF ControlNext

\* No callback changes a request that is under way, or makes one up.
LEMMA CallOKStep == CallOK /\ [ServiceNext]_serviceVars => CallOK'
<1> SUFFICES ASSUME CallOK, [ServiceNext]_serviceVars PROVE CallOK' OBVIOUS
<1>1. CASE UNCHANGED exchangeVars BY <1>1 DEF CallOK, exchangeVars
<1>2. CASE ExchangeStep
  <2>1. CASE \E q \in Questions : Ask(q) BY <2>1 DEF CallOK, Ask
  <2>2. CASE ClientStep
    <3>1. question' = question
          /\ (arrived' = arrived \/ arrived' = arrived \cup {[request |-> question, late |-> FALSE]})
      <4>1. CASE OperationCompletes BY <4>1 DEF OperationCompletes
      <4>2. CASE ReadCompletes \/ OperationAborted \/ Conclude
        BY <4>2 DEF ReadCompletes, OperationAborted, Conclude
      <4>3. CASE TimerExpires BY <4>3 DEF TimerExpires
      <4>4. CASE OnTimeout BY <4>4 DEF OnTimeout
      <4>5. CASE OnCompletion BY <4>5 DEF OnCompletion
      <4>. QED BY <2>2, <4>1, <4>2, <4>3, <4>4, <4>5 DEF ClientStep
    <3>2. [request |-> question, late |-> FALSE] \in [request : Requests, late : BOOLEAN]
      BY ExchangeAssumption DEF CallOK
    <3>3. arrived' \subseteq [request : Requests, late : BOOLEAN] BY <3>1, <3>2 DEF CallOK
    <3>. QED BY <3>1, <3>3 DEF CallOK
  <2>3. CASE \E a \in arrived : \/ Unauthorized(a) \/ Looks(a) \/ HandlerFails(a)
               \/ \E answer \in Answers : Handled(a, answer) \/ HandledUnknown(a, answer)
    BY <2>3 DEF CallOK, Unauthorized, Looks, HandlerFails, Handled, HandledUnknown, exchangeVars
  <2>4. CASE ServerGone BY <2>4 DEF CallOK, ServerGone
  <2>. QED BY <1>2, <2>1, <2>2, <2>3, <2>4 DEF ExchangeStep
<1>. QED
  BY <1>1, <1>2 DEF ServiceNext, serviceVars, RequestsWatched, ConsoleWatched, PullWatched, CallWatched

\* Whatever a behaviour watches, it does to the control plane only what its
\* requests and commands may.
LEMMA ServiceIsControl == CallOK /\ [ServiceNext]_serviceVars => [ControlNext]_controlVars
<1> SUFFICES ASSUME CallOK, [ServiceNext]_serviceVars PROVE [ControlNext]_controlVars OBVIOUS
<1>1. CASE RequestsWatched BY <1>1 DEF RequestsWatched
<1>2. CASE ConsoleWatched
  BY <1>2, ServiceAssumption DEF ConsoleWatched, ControlNext, OperatorCommand
<1>3. CASE PullWatched
  BY <1>3, ServiceAssumption
  DEF PullWatched, ExecutableCommand, ControlNext, OperatorCommand
<1>4. CASE CallWatched
  <2>1. CASE OperatorCommand BY <2>1 DEF ControlNext
  <2>2. CASE ExchangeStep
    BY <2>2 DEF ExchangeStep, CallOK, Unauthorized, Looks, HandlerFails, ServerGone, Handled,
                HandledUnknown, ControlNext
  <2>. QED BY <1>4, <2>1, <2>2 DEF CallWatched
<1>5. CASE UNCHANGED serviceVars BY <1>5 DEF serviceVars
<1>. QED BY <1>1, <1>2, <1>3, <1>4, <1>5 DEF ServiceNext

\* The control plane among its clients implements the control plane alone, so
\* what is proved of it, whatever requests arrive, holds beside the console, a
\* pull and a call over HTTP.
THEOREM ServiceImplementsControl == ServiceSpec => ControlSpec
<1>1. ServiceInit => CallOK /\ ControlInit BY DEF ServiceInit, ExchangeInit, CallOK
<1>. QED BY <1>1, CallOKStep, ServiceIsControl, PTL DEF ServiceSpec, ControlSpec

\* Nothing is stored twice, whoever watches.
THEOREM ServiceStoresOnce == ServiceSpec => []StoredOnce
BY ServiceImplementsControl, NothingStoredTwice, PTL

-----------------------------------------------------------------------------
(* Alerts.                                                                 *)

AlertRows == [id : Nat \ {0}, what : Keys \X (Lines \X Rules), status : AlertStatus, acknowledged : BOOLEAN]
Disposals == [id : Nat, seen : AlertStatus \cup {""}, acknowledge : BOOLEAN]

\* There is a row for each alert, and no two share an id.
RowsOK ==
  /\ rows \subseteq AlertRows
  /\ {row.what : row \in rows} = AlertsCreated
  /\ \A x, y \in rows : x.what = y.what => x = y
  /\ \A x, y \in rows : x.id = y.id => x = y

\* What an operator has seen of the row that he has locked is how it is.
LocksOK ==
  /\ disposal \in [Operators -> Disposals]
  /\ \A o \in Operators : disposal[o] # NoDisposal =>
       /\ \E row \in rows : row.id = disposal[o].id /\ row.status = disposal[o].seen
       /\ \A p \in Operators \ {o} : disposal[p].id # disposal[o].id

AlertInv ==
  /\ watched # "console" => list = "runs"
  /\ list = "alerts" => RowsOK /\ LocksOK

\* What AlertsKept says of one row and the rows after a step.
Follows(row, after) ==
  /\ after.id = row.id /\ after.what = row.what
  /\ row.status = "closed" => after.status = "closed"
  /\ row.status = "acknowledged" => after.status # "open"
  /\ row.acknowledged => after.acknowledged

AlertsFollow == \A row \in rows : \E after \in rows' : Follows(row, after)

\* Nothing that is stored is taken away.
LEMMA StoredStays ==
  ASSUME ControlTypeOK, [ControlNext]_controlVars, NEW k \in Keys, NEW f \in Files
  PROVE  stored[k][f] > 0 => stored'[k][f] > 0
<1>1. CASE UNCHANGED stored BY <1>1
<1>2. ASSUME NEW q \in Requests, NEW answer \in Answers, AcceptTaskRunReport(q, answer)
      PROVE  stored[k][f] > 0 => stored'[k][f] > 0
  <2>1. CASE stored' = stored BY <2>1
  <2>2. CASE stored' = CountedOnce(stored, q.key, q.report.records)
    BY <2>2 DEF CountedOnce, ControlTypeOK
  <2>. QED BY <1>2, <2>1, <2>2 DEF AcceptTaskRunReport
<1>3. ASSUME NEW q \in Requests, NEW answer \in Answers, Handle(q, answer)
      PROVE  stored[k][f] > 0 => stored'[k][f] > 0
  BY <1>1, <1>2, <1>3 DEF Handle, StartScheduled, StartManual, Replayed, Refused,
     AcceptRawFileManifest, controlVars
<1>4. CASE OperatorCommand
  BY <1>1, <1>4 DEF OperatorCommand, RequestManualRun, RequestRetryRun, ApplyManualRun, SetTaskEnabled
<1>5. CASE (\E q \in Requests : LookAtRun(q)) \/ HandlersGone \/ (\E r \in Rules : SwitchRule(r))
  BY <1>1, <1>5 DEF LookAtRun, HandlersGone, SwitchRule
<1>. QED BY <1>1, <1>3, <1>4, <1>5 DEF ControlNext, controlVars

LEMMA AlertsCreatedStay ==
  ControlTypeOK /\ [ControlNext]_controlVars => AlertsCreated \subseteq AlertsCreated'
BY StoredStays DEF AlertsCreated, ResultsKept, RecordsKept

\* Alerts that are created appear with ids no row has.
LEMMA NewAlerts ==
  ASSUME RowsOK, LocksOK, ControlTypeOK, [ControlNext]_controlVars,
         list = "alerts", ListFollows
  PROVE  RowsOK' /\ LocksOK' /\ AlertsFollow
<1> DEFINE new == AlertsCreated' \ AlertsCreated
           Row(x, i) == [id |-> i, what |-> x, status |-> "open", acknowledged |-> FALSE]
<1>1. Kept[list] = AlertsCreated /\ Kept[list]' = AlertsCreated'
  <2>1. list' = "alerts" BY DEF ListFollows
  <2>. QED BY <2>1 DEF Kept
<1>2. \A x : FirstStatus(x) = "open" BY Zenon DEF FirstStatus
<1>3. PICK id \in [new -> Drawn(Cardinality(new))] :
        /\ \A x, y \in new : x # y => id[x] # id[y]
        /\ rows' = rows \cup {Row(x, id[x]) : x \in new}
  BY <1>1, <1>2 DEF ListFollows
<1>4. \A x \in new : id[x] \in Nat \ {0} /\ \A row \in rows : row.id # id[x]
  <2>1. \A x \in new : id[x] \in Drawn(Cardinality(new)) BY <1>3
  <2>2. \A b : FirstId..b \subseteq Nat \ {0}
    BY ConsoleAssumption
  <2>. QED BY <2>1, <2>2 DEF Drawn
<1>5. \A x \in new : /\ x \in Keys \X (Lines \X Rules)
                    /\ x \in AlertsCreated' /\ x \notin AlertsCreated
  BY ConsoleAssumption DEF AlertsCreated
<1> HIDE DEF new
<1>6. \A row \in rows' : row \in rows \/ \E x \in new : row = Row(x, id[x]) BY <1>3
<1>7. rows \subseteq rows' /\ \A x \in new : Row(x, id[x]) \in rows' BY <1>3
<1>8. rows' \subseteq AlertRows
  <2>1. \A x \in new : Row(x, id[x]) \in AlertRows BY <1>4, <1>5 DEF AlertRows, AlertStatus
  <2>. QED BY <1>6, <2>1 DEF RowsOK
<1>9. {row.what : row \in rows}' = AlertsCreated'
  <2>1. \A row \in rows' : row.what \in AlertsCreated'
    <3>1. \A row \in rows : row.what \in AlertsCreated BY DEF RowsOK
    <3>. QED BY <1>5, <1>6, <3>1, AlertsCreatedStay
  <2>2. \A x \in AlertsCreated' : \E row \in rows' : row.what = x
    <3>1. \A x \in AlertsCreated : \E row \in rows : row.what = x BY DEF RowsOK
    <3>2. \A x \in new : Row(x, id[x]).what = x OBVIOUS
    <3>. QED BY <1>7, <3>1, <3>2 DEF new
  <2>. QED BY <2>1, <2>2
<1>10. \A row \in rows, x \in new : row.what # x BY <1>5 DEF RowsOK
<1>11. \A x \in new : \A i : Row(x, i).what = x /\ Row(x, i).id = i OBVIOUS
<1> HIDE DEF Row
<1>12. ASSUME NEW x \in rows', NEW y \in rows', x.what = y.what PROVE x = y
  <2>1. CASE x \in rows /\ y \in rows BY <1>12, <2>1 DEF RowsOK
  <2>2. CASE x \notin rows /\ y \notin rows
    <3>1. PICK a \in new : x = Row(a, id[a]) BY <1>6, <2>2
    <3>2. PICK b \in new : y = Row(b, id[b]) BY <1>6, <2>2
    <3>. QED BY <1>11, <1>12, <3>1, <3>2
  <2>3. CASE x \in rows /\ y \notin rows BY <1>6, <1>10, <1>11, <1>12, <2>3
  <2>4. CASE x \notin rows /\ y \in rows BY <1>6, <1>10, <1>11, <1>12, <2>4
  <2>. QED BY <2>1, <2>2, <2>3, <2>4
<1>13. ASSUME NEW x \in rows', NEW y \in rows', x.id = y.id PROVE x = y
  <2>1. CASE x \in rows /\ y \in rows BY <1>13, <2>1 DEF RowsOK
  <2>2. CASE x \notin rows /\ y \notin rows
    <3>1. PICK a \in new : x = Row(a, id[a]) BY <1>6, <2>2
    <3>2. PICK b \in new : y = Row(b, id[b]) BY <1>6, <2>2
    <3>. QED BY <1>3, <1>11, <1>13, <3>1, <3>2
  <2>3. CASE x \in rows /\ y \notin rows BY <1>4, <1>6, <1>11, <1>13, <2>3
  <2>4. CASE x \notin rows /\ y \in rows BY <1>4, <1>6, <1>11, <1>13, <2>4
  <2>. QED BY <2>1, <2>2, <2>3, <2>4
<1>14. LocksOK' BY <1>7 DEF ListFollows, LocksOK
<1>15. AlertsFollow BY <1>7 DEF AlertsFollow, Follows
<1>. QED BY <1>8, <1>9, <1>12, <1>13, <1>14, <1>15 DEF RowsOK

\* An operator locks a row that no other has, and reads it under the lock.
LEMMA LockKeeps ==
  ASSUME RowsOK, LocksOK, NEW o \in Operators, NEW row \in rows, NEW acknowledge \in BOOLEAN,
         LockAlert(o, row, acknowledge)
  PROVE  LocksOK'
<1>1. row \in AlertRows /\ rows' = rows BY DEF RowsOK, LockAlert
<1>2. disposal' = [disposal EXCEPT ![o] =
        [id |-> row.id, seen |-> row.status, acknowledge |-> acknowledge]]
  BY DEF LockAlert
<1>3. disposal' \in [Operators -> Disposals]
  BY <1>1, <1>2 DEF LocksOK, Disposals, AlertRows
<1>4. \A p \in Operators : disposal[p].id # row.id BY DEF LockAlert
<1>5. disposal'[o].id = row.id /\ disposal'[o].seen = row.status
  BY <1>2 DEF LocksOK
<1>6. \A p \in Operators \ {o} : disposal'[p] = disposal[p] BY <1>2 DEF LocksOK
<1>7. ASSUME NEW p \in Operators, disposal'[p] # NoDisposal
      PROVE  /\ \E r \in rows' : r.id = disposal'[p].id /\ r.status = disposal'[p].seen
             /\ \A other \in Operators \ {p} : disposal'[other].id # disposal'[p].id
  <2>1. CASE p = o BY <1>1, <1>4, <1>5, <1>6, <2>1
  <2>2. CASE p # o BY <1>1, <1>4, <1>5, <1>6, <1>7, <2>2 DEF LocksOK
  <2>. QED BY <2>1, <2>2
<1>. QED BY <1>3, <1>7 DEF LocksOK

\* What is saved is decided from the row as it still is.
LEMMA SaveKeeps ==
  ASSUME RowsOK, LocksOK, NEW o \in Operators, SaveAlert(o), AlertsCreated' = AlertsCreated
  PROVE  RowsOK' /\ LocksOK' /\ AlertsFollow
<1> DEFINE After(row) == IF row.id = disposal[o].id THEN Disposed(row, disposal[o]) ELSE row
<1>1. rows' = {After(row) : row \in rows} BY DEF SaveAlert
<1>2. disposal[o] # NoDisposal /\ disposal' = [disposal EXCEPT ![o] = NoDisposal]
  BY DEF SaveAlert
<1>3. disposal[o] \in Disposals BY DEF LocksOK
<1>4. \A row \in rows : row.id = disposal[o].id => row.status = disposal[o].seen
  BY <1>2 DEF RowsOK, LocksOK
<1>5. ASSUME NEW row \in rows
      PROVE  /\ After(row) \in AlertRows
             /\ Follows(row, After(row))
             /\ row.id # disposal[o].id => After(row) = row
  BY <1>3, <1>4 DEF RowsOK, AlertRows, AlertStatus, Disposals, Disposed, Follows
<1>6. \A row \in rows : After(row).id = row.id /\ After(row).what = row.what
  BY <1>5 DEF Follows
<1> HIDE DEF After
<1>7. rows' \subseteq AlertRows BY <1>1, <1>5
<1>8. {row.what : row \in rows}' = AlertsCreated'
  <2>1. \A row \in rows' : row.what \in AlertsCreated BY <1>1, <1>6 DEF RowsOK
  <2>2. \A x \in AlertsCreated : \E row \in rows' : row.what = x
    <3>1. \A x \in AlertsCreated : \E row \in rows : row.what = x BY DEF RowsOK
    <3>. QED BY <1>1, <1>6, <3>1
  <2>. QED BY <2>1, <2>2
<1>9. /\ \A x, y \in rows' : x.what = y.what => x = y
      /\ \A x, y \in rows' : x.id = y.id => x = y
  BY <1>1, <1>6 DEF RowsOK
<1>10. LocksOK'
  <2>1. disposal' \in [Operators -> Disposals] BY <1>2 DEF LocksOK, Disposals, NoDisposal
  <2>2. ASSUME NEW p \in Operators, disposal'[p] # NoDisposal
        PROVE  /\ \E r \in rows' : r.id = disposal'[p].id /\ r.status = disposal'[p].seen
               /\ \A other \in Operators \ {p} : disposal'[other].id # disposal'[p].id
    <3>1. p # o /\ disposal'[p] = disposal[p] BY <1>2, <2>2 DEF LocksOK
    <3>2. PICK row \in rows : row.id = disposal[p].id /\ row.status = disposal[p].seen
      BY <2>2, <3>1 DEF LocksOK
    <3>3. row.id # disposal[o].id BY <1>2, <3>1, <3>2 DEF LocksOK
    <3>4. row \in rows' BY <1>1, <1>5, <3>3
    <3>5. row.id # 0 BY DEF RowsOK, AlertRows
    <3>6. \A other \in Operators \ {p} : disposal'[other].id # disposal'[p].id
      BY <1>2, <2>2, <3>1, <3>2, <3>5 DEF LocksOK, NoDisposal
    <3>. QED BY <3>1, <3>2, <3>4, <3>6
  <2>. QED BY <2>1, <2>2 DEF LocksOK
<1>11. AlertsFollow BY <1>1, <1>5 DEF AlertsFollow
<1>. QED BY <1>7, <1>8, <1>9, <1>10, <1>11 DEF RowsOK

\* One operator at a time disposes of an alert.
LEMMA DisposalStep ==
  ASSUME RowsOK, LocksOK, ConsoleStep, list = "alerts", AlertsCreated' = AlertsCreated
  PROVE  list' = list /\ RowsOK' /\ LocksOK' /\ (rows' # rows => AlertsFollow)
<1>1. ASSUME UNCHANGED <<rows, disposal>> PROVE RowsOK' /\ LocksOK'
  BY <1>1 DEF RowsOK, LocksOK
<1>2. CASE \E filter \in Filters[list], limit \in Limits : StartWalk(filter, limit)
  BY <1>1, <1>2 DEF StartWalk
<1>3. CASE NextPage BY <1>1, <1>3 DEF NextPage
<1>4. CASE \E e \in Entries, status \in {"on", "off"} : Enter(e, status)
  BY <1>4 DEF Enter, Configured
<1>5. CASE \E row \in rows : Switch(row) BY <1>5 DEF Switch
<1>6. ASSUME NEW o \in Operators, NEW row \in rows, NEW acknowledge \in BOOLEAN,
             LockAlert(o, row, acknowledge)
      PROVE  list' = list /\ rows' = rows /\ RowsOK' /\ LocksOK'
  <2>1. list' = list /\ rows' = rows BY <1>6 DEF LockAlert
  <2>2. RowsOK' BY <2>1 DEF RowsOK
  <2>. QED BY <1>6, <2>1, <2>2, LockKeeps
<1>7. ASSUME NEW o \in Operators, SaveAlert(o)
      PROVE  list' = list /\ RowsOK' /\ LocksOK' /\ AlertsFollow
  BY <1>7, SaveKeeps DEF SaveAlert
<1>8. ASSUME NEW o \in Operators, RollBackDisposal(o)
      PROVE  list' = list /\ rows' = rows /\ RowsOK' /\ LocksOK'
  <2>1. list' = list /\ rows' = rows BY <1>8 DEF RollBackDisposal
  <2>2. RowsOK' BY <2>1 DEF RowsOK
  <2>3. disposal' = [disposal EXCEPT ![o] = NoDisposal] BY <1>8 DEF RollBackDisposal
  <2>4. disposal' \in [Operators -> Disposals] BY <2>3 DEF LocksOK, Disposals, NoDisposal
  <2>5. ASSUME NEW p \in Operators, disposal'[p] # NoDisposal
        PROVE  /\ \E r \in rows' : r.id = disposal'[p].id /\ r.status = disposal'[p].seen
               /\ \A other \in Operators \ {p} : disposal'[other].id # disposal'[p].id
    <3>1. p # o /\ disposal'[p] = disposal[p] BY <2>3, <2>5 DEF LocksOK
    <3>2. disposal[p].id # 0 BY <2>5, <3>1 DEF RowsOK, AlertRows, LocksOK
    <3>. QED BY <2>1, <2>3, <2>5, <3>1, <3>2 DEF LocksOK, NoDisposal
  <2>6. LocksOK' BY <2>4, <2>5 DEF LocksOK
  <2>. QED BY <2>1, <2>2, <2>6
<1>. QED BY <1>2, <1>3, <1>4, <1>5, <1>6, <1>7, <1>8 DEF ConsoleStep

\* Only the console, and what commits beside it, moves the rows of the alerts.
LEMMA AlertStep ==
  ASSUME AlertInv, ControlInv, CallOK, [ServiceNext]_serviceVars
  PROVE  AlertInv' /\ (list = "alerts" /\ rows' # rows => AlertsFollow)
<1>1. ControlTypeOK /\ [ControlNext]_controlVars BY ServiceIsControl DEF ControlInv
<1>2. CASE RequestsWatched \/ PullWatched \/ CallWatched
  <2>1. watched' = watched /\ watched # "console" /\ list' = list
    BY <1>2 DEF RequestsWatched, PullWatched, CallWatched, ServiceNext, serviceVars, consoleVars
  <2>. QED BY <2>1 DEF AlertInv
<1>3. CASE ConsoleWatched
  <2>1. watched' = watched /\ watched = "console" BY <1>3 DEF ConsoleWatched, ServiceNext, serviceVars
  <2>2. CASE ConsoleStep /\ UNCHANGED controlVars
    <3>1. list' = list
      BY <2>2 DEF ConsoleStep, StartWalk, NextPage, Enter, Switch, LockAlert, SaveAlert,
                  RollBackDisposal
    <3>2. AlertsCreated' = AlertsCreated BY <2>2 DEF controlVars, AlertsCreated, ResultsKept, RecordsKept
    <3>. QED BY <2>1, <2>2, <3>1, <3>2, DisposalStep DEF AlertInv
  <2>3. CASE ListFollows
    <3>1. list' = list BY <2>3 DEF ListFollows
    <3>. QED BY <1>1, <2>1, <2>3, <3>1, NewAlerts DEF AlertInv
  <2>. QED BY <1>3, <2>2, <2>3 DEF ConsoleWatched
<1>4. CASE UNCHANGED serviceVars
  BY <1>4 DEF serviceVars, consoleVars, controlVars, AlertInv, RowsOK, LocksOK, AlertsCreated,
              ResultsKept, RecordsKept
<1>. QED BY <1>2, <1>3, <1>4 DEF ServiceNext

LEMMA AlertInitOK == ServiceInit => AlertInv
<1> SUFFICES ASSUME ServiceInit PROVE AlertInv OBVIOUS
<1>1. AlertsCreated = {} BY DEF ServiceInit, ControlInit, AlertsCreated, ResultsKept, RecordsKept
<1>2. RowsOK BY <1>1 DEF ServiceInit, ConsoleInit, RowsOK
<1>3. LocksOK BY DEF ServiceInit, ConsoleInit, LocksOK, Disposals, NoDisposal
<1>. QED BY <1>2, <1>3 DEF AlertInv, ServiceInit

\* Every failing result that is stored has exactly one alert, which stays, and
\* operators who dispose of it at once do not undo what the other did.
THEOREM AlertsNeverLost == ServiceSpec => AlertsKept
<1>1. ServiceInit => AlertInv /\ ControlInv /\ CallOK
  BY AlertInitOK, ControlInitOK DEF ServiceInit, ExchangeInit, CallOK
<1>2. AlertInv /\ ControlInv /\ CallOK /\ [ServiceNext]_serviceVars
        => AlertInv' /\ ControlInv' /\ CallOK'
  BY AlertStep, CallOKStep, ServiceIsControl, ControlNextOK
<1>3. AlertInv => (list = "alerts" =>
         /\ {row.what : row \in rows} = AlertsCreated
         /\ \A x, y \in rows : x.what = y.what => x = y)
  BY DEF AlertInv, RowsOK
<1>4. AlertInv /\ ControlInv /\ CallOK /\ [ServiceNext]_serviceVars =>
        [list = "alerts" =>
          \A row \in rows : \E after \in rows' :
            /\ after.id = row.id /\ after.what = row.what
            /\ row.status = "closed" => after.status = "closed"
            /\ row.status = "acknowledged" => after.status # "open"
            /\ row.acknowledged => after.acknowledged]_rows
  BY AlertStep DEF AlertsFollow, Follows
<1>. QED BY <1>1, <1>2, <1>3, <1>4, PTL DEF ServiceSpec, AlertsKept
-----------------------------------------------------------------------------
(* What a pull finds.                                                      *)

\* Where the statement that comes next leaves what was found before.
TasksFound ==
  pull.next \in {"sources", "bindings", "pending", "over"} =>
    \A t \in Tasks \ touched : t \in pull.tasks <=> enabled[t]

SourcesFound ==
  pull.next \in {"bindings", "pending", "over"} =>
    /\ pull.sources \subseteq on \cup touched
    /\ \A t \in Tasks : {t, SourceOf[t]} \cap touched = {} /\ enabled[t] /\ SourceOf[t] \in on
         => SourceOf[t] \in pull.sources

RulesFound ==
  pull.next \in {"pending", "over"} =>
    /\ \A b \in pull.bindings : b[2] \in RulesOf[b[1]] /\ b[2] \in rules \cup touched
    /\ \A t \in Tasks, r \in Rules :
         /\ {t, SourceOf[t], r} \cap touched = {} /\ r \in RulesOf[t] \cap rules
         /\ enabled[t] /\ SourceOf[t] \in on
         => <<t, r>> \in pull.bindings

PendingFound ==
  pull.next = "over" => \A k \in ManualKeys \ touched : k \in pull.pending <=> run[k] = "pending"

PullType == [next : {"none", "tasks", "sources", "bindings", "pending", "over"},
             tasks : SUBSET Tasks, sources : SUBSET Sources,
             bindings : SUBSET (Tasks \X Rules), pending : SUBSET Keys]

\* A pull takes part only where it is watched.
PullInv ==
  /\ pull \in PullType
  /\ watched # "pull" => pull.next = "none"
  /\ TasksFound /\ SourcesFound /\ RulesFound /\ PendingFound

\* What is found stays as it is said while what it tells of stays or is remembered.
LEMMA FoundStays ==
  ASSUME PullInv, watched' = watched, pull' = pull, touched \subseteq touched',
         \A t \in Tasks : enabled'[t] # enabled[t] => t \in touched',
         \A k \in Keys : run'[k] # run[k] => k \in touched',
         \A x : (x \in on) # (x \in on') => x \in touched',
         \A r \in Rules : (r \in rules) # (r \in rules') => r \in touched'
  PROVE  PullInv'
<1>1. TasksFound'
  BY Zenon DEF PullInv, TasksFound
<1>2. SourcesFound'
  <2> SUFFICES ASSUME pull.next \in {"bindings", "pending", "over"}
               PROVE  /\ pull.sources \subseteq on' \cup touched'
                      /\ \A t \in Tasks :
                           {t, SourceOf[t]} \cap touched' = {} /\ enabled'[t] /\ SourceOf[t] \in on'
                           => SourceOf[t] \in pull.sources
    BY Zenon DEF SourcesFound
  <2>1. pull.sources \subseteq on' \cup touched'
    BY DEF PullInv, SourcesFound
  <2>2. ASSUME NEW t \in Tasks, {t, SourceOf[t]} \cap touched' = {}, enabled'[t],
               SourceOf[t] \in on'
        PROVE  SourceOf[t] \in pull.sources
    <3>1. {t, SourceOf[t]} \cap touched = {} /\ SourceOf[t] \in on
      BY <2>2
    <3>2. enabled[t]
      <4>1. enabled'[t] = enabled[t]
        BY <2>2
      <4> QED BY <2>2, <4>1, Zenon
    <3> QED BY <3>1, <3>2, Zenon DEF PullInv, SourcesFound
  <2> QED BY <2>1, <2>2
<1>3. RulesFound'
  <2> SUFFICES ASSUME pull.next \in {"pending", "over"}
               PROVE  /\ \A b \in pull.bindings : b[2] \in RulesOf[b[1]] /\ b[2] \in rules' \cup touched'
                      /\ \A t \in Tasks, r \in Rules :
                           /\ {t, SourceOf[t], r} \cap touched' = {} /\ r \in RulesOf[t] \cap rules'
                           /\ enabled'[t] /\ SourceOf[t] \in on'
                           => <<t, r>> \in pull.bindings
    BY Zenon DEF RulesFound
  <2>1. \A b \in pull.bindings : b[2] \in RulesOf[b[1]] /\ b[2] \in rules' \cup touched'
    <3>1. \A b \in pull.bindings : b[2] \in Rules
      BY DEF PullInv, PullType
    <3> QED BY <3>1 DEF PullInv, RulesFound
  <2>2. ASSUME NEW t \in Tasks, NEW r \in Rules, {t, SourceOf[t], r} \cap touched' = {},
               r \in RulesOf[t] \cap rules', enabled'[t], SourceOf[t] \in on'
        PROVE  <<t, r>> \in pull.bindings
    <3>1. {t, SourceOf[t], r} \cap touched = {} /\ SourceOf[t] \in on /\ r \in RulesOf[t] \cap rules
      BY <2>2
    <3>2. enabled[t]
      <4>1. enabled'[t] = enabled[t]
        BY <2>2
      <4> QED BY <2>2, <4>1, Zenon
    <3> QED BY <3>1, <3>2, Zenon DEF PullInv, RulesFound
  <2> QED BY <2>1, <2>2
<1>4. PendingFound'
  <2> SUFFICES ASSUME pull.next = "over", NEW k \in ManualKeys, k \notin touched'
               PROVE  k \in pull.pending <=> run'[k] = "pending"
    BY DEF PendingFound
  <2>1. run'[k] = run[k] /\ k \notin touched
    BY RunsAssumption
  <2> QED BY <2>1 DEF PullInv, PendingFound
<1>5. watched' # "pull" => pull'.next = "none"
  BY DEF PullInv
<1>6. pull' \in PullType
  BY DEF PullInv
<1> QED BY <1>1, <1>2, <1>3, <1>4, <1>5, <1>6 DEF PullInv

\* A statement finds what is so at its time.
LEMMA StatementFinds ==
  ASSUME PullInv, watched' = watched, watched = "pull", UNCHANGED controlVars,
         \/ StartPull \/ FindEnabledTasks \/ FindEnabledDataSources \/ FindEnabledTaskQcRules
         \/ FindPendingExecutions \/ PullFails
  PROVE  PullInv'
<1>1. pull \in PullType
  BY DEF PullInv
<1>2. CASE StartPull \/ PullFails
  <2>1. pull'.next \in {"none", "tasks"} /\ pull' \in PullType
    BY <1>2 DEF StartPull, PullFails, NoPull, PullType
  <2> QED BY <2>1 DEF PullInv, TasksFound, SourcesFound, RulesFound, PendingFound
<1>3. CASE FindEnabledTasks
  <2>1. pull'.next = "sources" /\ pull'.tasks = EnabledTasks /\ pull' \in PullType
        /\ touched' = touched /\ enabled' = enabled
    BY <1>1, <1>3 DEF FindEnabledTasks, PullType, EnabledTasks, controlVars, settings
  <2>2. TasksFound'
    BY <2>1, Zenon DEF TasksFound, EnabledTasks
  <2> QED BY <2>1, <2>2 DEF PullInv, SourcesFound, RulesFound, PendingFound
<1>4. CASE FindEnabledDataSources
  <2>1. /\ pull.next = "sources" /\ pull'.next = "bindings" /\ pull' \in PullType
        /\ pull'.sources = {s \in on : \E t \in EnabledTasks : SourceOf[t] = s}
        /\ pull'.tasks = pull.tasks
        /\ UNCHANGED <<on, touched, enabled>>
    <3>1. {s \in on : \E t \in EnabledTasks : SourceOf[t] = s} \subseteq Sources
      BY ConfigAssumption DEF EnabledTasks
    <3> QED BY <1>1, <1>4, <3>1 DEF FindEnabledDataSources, PullType, controlVars, settings
  <2>2. TasksFound'
    BY <2>1, Zenon DEF PullInv, TasksFound
  <2>3. ASSUME NEW t \in Tasks, enabled'[t], SourceOf[t] \in on'
        PROVE  SourceOf[t] \in pull'.sources
    <3>1. t \in EnabledTasks
      <4>1. enabled[t]
        BY <2>1, <2>3, Zenon
      <4> QED BY <4>1, Zenon DEF EnabledTasks
    <3> QED BY <2>1, <2>3, <3>1, ConfigAssumption
  <2>4. pull'.sources \subseteq on' \cup touched'
    BY <2>1
  <2>5. SourcesFound'
    BY <2>3, <2>4, Zenon DEF SourcesFound
  <2> QED BY <2>1, <2>2, <2>5 DEF PullInv, RulesFound, PendingFound
<1>5. CASE FindEnabledTaskQcRules
  <2>1. /\ pull.next = "bindings" /\ pull'.next = "pending" /\ pull' \in PullType
        /\ pull'.bindings = {b \in Tasks \X Rules :
                            /\ b[2] \in RulesOf[b[1]] \cap rules
                            /\ b[1] \in EnabledTasks /\ SourceOf[b[1]] \in on}
        /\ pull'.tasks = pull.tasks /\ pull'.sources = pull.sources
        /\ UNCHANGED <<on, touched, enabled, rules>>
    BY <1>1, <1>5 DEF FindEnabledTaskQcRules, PullType, controlVars, settings
  <2>2. TasksFound' /\ SourcesFound'
    <3>1. TasksFound'
      BY <2>1, Zenon DEF PullInv, TasksFound
    <3>2. SourcesFound'
      BY <2>1, Zenon DEF PullInv, SourcesFound
    <3> QED BY <3>1, <3>2
  <2>3. ASSUME NEW t \in Tasks, NEW r \in Rules, enabled'[t], SourceOf[t] \in on',
               r \in RulesOf[t] \cap rules'
        PROVE  <<t, r>> \in pull'.bindings
    <3>1. t \in EnabledTasks
      <4>1. enabled[t]
        BY <2>1, <2>3, Zenon
      <4> QED BY <4>1, Zenon DEF EnabledTasks
    <3> QED BY <2>1, <2>3, <3>1
  <2>4. \A b \in pull'.bindings : b[2] \in RulesOf[b[1]] /\ b[2] \in rules' \cup touched'
    BY <2>1
  <2>5. RulesFound'
    BY <2>3, <2>4, Zenon DEF RulesFound
  <2> QED BY <2>1, <2>2, <2>5 DEF PullInv, PendingFound
<1>6. CASE FindPendingExecutions
  <2>1. /\ pull.next = "pending" /\ pull'.next = "over" /\ pull' \in PullType
        /\ pull'.pending = {k \in ManualKeys : run[k] = "pending"}
        /\ pull'.tasks = pull.tasks /\ pull'.sources = pull.sources
        /\ pull'.bindings = pull.bindings
        /\ UNCHANGED <<on, touched, enabled, rules, run>>
    BY <1>1, <1>6, RunsAssumption DEF FindPendingExecutions, PullType, controlVars, settings
  <2>2. TasksFound'
    BY <2>1, Zenon DEF PullInv, TasksFound
  <2>3. SourcesFound'
    BY <2>1, Zenon DEF PullInv, SourcesFound
  <2>4. RulesFound'
    BY <2>1, Zenon DEF PullInv, RulesFound
  <2>5. PendingFound'
    BY <2>1 DEF PendingFound
  <2> QED BY <2>1, <2>2, <2>3, <2>4, <2>5 DEF PullInv
<1> QED BY <1>2, <1>3, <1>4, <1>5, <1>6

LEMMA PullStep ==
  ASSUME PullInv, [ServiceNext]_serviceVars PROVE PullInv'
<1>1. CASE ConfigStep /\ UNCHANGED controlVars /\ watched = "pull" /\ watched' = watched
  <2>1. ASSUME NEW x, SwitchSource(x) PROVE PullInv'
    <3>1. /\ on' = IF x \in on THEN on \ {x} ELSE on \cup {x}
          /\ touched' = touched \cup {x} /\ pull' = pull
      BY <2>1 DEF SwitchSource
    <3>2. \A y : y # x => (y \in on <=> y \in on')
      BY <3>1
    <3> QED BY <1>1, <3>1, <3>2, FoundStays DEF controlVars, settings
  <2> QED BY <1>1, <2>1, StatementFinds DEF ConfigStep
<1>2. CASE PullWatched
  <2>1. CASE PullMisses /\ watched' = watched
    <3>1. /\ touched \subseteq touched' /\ pull' = pull /\ on' = on
          /\ \A t \in Tasks : enabled'[t] # enabled[t] => t \in touched'
          /\ \A k \in Keys : run'[k] # run[k] => k \in touched'
          /\ \A r \in Rules : (r \in rules) # (r \in rules') => r \in touched'
      BY <2>1 DEF PullMisses
    <3> QED BY <2>1, <3>1, FoundStays
  <2>2. watched' = watched
    BY <1>2 DEF PullWatched, ServiceNext, serviceVars
  <2> QED BY <1>1, <1>2, <2>1, <2>2 DEF PullWatched
<1>3. CASE RequestsWatched \/ ConsoleWatched \/ CallWatched
  <2>1. watched' = watched /\ watched # "pull" /\ pull' = pull
    BY <1>3 DEF RequestsWatched, ConsoleWatched, CallWatched, ServiceNext, serviceVars, configVars
  <2> QED BY <2>1 DEF PullInv, TasksFound, SourcesFound, RulesFound, PendingFound
<1>4. CASE UNCHANGED serviceVars
  BY <1>4, FoundStays DEF serviceVars, controlVars, settings, configVars
<1> QED BY <1>2, <1>3, <1>4 DEF ServiceNext

\* find_config: the statements of a pull read the database at five times, and yet
\* the configuration says of all that did not change meanwhile what is so.
THEOREM PullsAreCurrent == ServiceSpec => []PullIsCurrent
<1>1. ServiceInit => PullInv
  BY DEF ServiceInit, ConfigInit, NoPull, PullInv, PullType, TasksFound, SourcesFound, RulesFound,
     PendingFound
<1>2. PullInv => PullIsCurrent
  <2> SUFFICES ASSUME PullInv, pull.next = "over" PROVE PullIsCurrent
    BY DEF PullIsCurrent
  <2>1. /\ \A t \in Tasks \ touched : t \in pull.tasks <=> enabled[t]
        /\ pull.sources \subseteq on \cup touched
    BY DEF PullInv, TasksFound, SourcesFound
  <2>2. \A t \in Tasks : {t, SourceOf[t]} \cap touched = {} /\ enabled[t] /\ SourceOf[t] \in on
         => SourceOf[t] \in pull.sources
    BY DEF PullInv, SourcesFound
  <2>3. ASSUME NEW t \in Tasks
        PROVE  /\ t \in Received => enabled[t] \/ t \in touched
               /\ t \in Received => SourceOf[t] \in on \cup touched
               /\ RulesReceived(t) \subseteq RulesOf[t]
               /\ {t, SourceOf[t]} \cap touched = {} =>
                    /\ t \in Received <=> enabled[t] /\ SourceOf[t] \in on
                    /\ \A r \in RulesOf[t] \ touched :
                         t \in Received => (r \in RulesReceived(t) <=> r \in rules)
    <3>1. t \in Received <=> t \in pull.tasks /\ SourceOf[t] \in pull.sources
      BY DEF Received, PullInv, PullType
    <3>2. (t \in Received => enabled[t] \/ t \in touched)
      BY <2>1, <3>1, Zenon
    <3>3. (t \in Received => SourceOf[t] \in on \cup touched)
      BY <2>1, <3>1
    <3>4. \A r \in Rules : r \in RulesReceived(t) => r \in RulesOf[t] /\ r \in rules \cup touched
      <4>1. \A b \in pull.bindings : b[2] \in RulesOf[b[1]] /\ b[2] \in rules \cup touched
        BY DEF PullInv, RulesFound
      <4> QED BY <4>1 DEF RulesReceived
    <3>5. ASSUME {t, SourceOf[t]} \cap touched = {}
          PROVE  t \in Received <=> enabled[t] /\ SourceOf[t] \in on
      <4>1. t \notin touched /\ SourceOf[t] \notin touched
        BY <3>5
      <4>2. t \in pull.tasks <=> enabled[t]
        BY <2>1, <4>1, Zenon
      <4>3. SourceOf[t] \in pull.sources => SourceOf[t] \in on
        BY <2>1, <4>1
      <4> QED BY <2>2, <3>1, <3>5, <4>2, <4>3, Zenon
    <3>6. ASSUME {t, SourceOf[t]} \cap touched = {}, NEW r \in RulesOf[t] \ touched, t \in Received
          PROVE  r \in RulesReceived(t) <=> r \in rules
      <4>1. r \in Rules
        BY <3>6, ControlPlaneAssumption
      <4>2. enabled[t] /\ SourceOf[t] \in on
        BY <3>5, <3>6, Zenon
      <4>3. ASSUME r \in rules PROVE r \in RulesReceived(t)
        <5>1. {t, SourceOf[t], r} \cap touched = {} /\ r \in RulesOf[t] \cap rules
          BY <3>6, <4>3
        <5>2. <<t, r>> \in pull.bindings
          BY <4>1, <4>2, <5>1, Zenon DEF PullInv, RulesFound
        <5> QED BY <4>1, <5>2 DEF RulesReceived
      <4> QED BY <3>4, <3>6, <4>1, <4>3
    <3>7. RulesReceived(t) \subseteq RulesOf[t]
      BY <3>4 DEF RulesReceived
    <3> QED BY <3>2, <3>3, <3>5, <3>6, <3>7, Zenon
  <2>4. \A k \in ManualKeys \ touched : k \in pull.pending <=> run[k] = "pending"
    BY DEF PullInv, PendingFound
  <2> QED BY <2>3, <2>4, Zenon DEF PullIsCurrent
<1> QED BY <1>1, <1>2, PullStep, PTL DEF ServiceSpec
-----------------------------------------------------------------------------
(* Walking through a list.                                                 *)

\* A row is a record whose id is none of the cursors that say nothing.
RowOK(row) ==
  /\ row.id \in Nat \ {0}
  /\ row = [id |-> row.id, what |-> row.what, status |-> row.status,
            acknowledged |-> row.acknowledged]

WalkOf(f) == [state : {"none", "open", "done"}, filter : {f}, limit : 1..100, cursor : Nat,
              shown : Seq(Nat), since : SUBSET Nat]

NewestFirst(seq) == \A i, j \in DOMAIN seq : i < j => seq[i] > seq[j]

\* What was shown stands above the cursor, what is still to be shown below it.
WalkOK ==
  /\ walk \in WalkOf(walk.filter)
  /\ NewestFirst(walk.shown)
  /\ walk.state = "open" =>
       /\ \A i \in DOMAIN walk.shown : walk.cursor # 0 /\ walk.shown[i] >= walk.cursor
       /\ walk.since \subseteq Matching(walk.filter)
  /\ \A id \in walk.since :
       \/ \E i \in DOMAIN walk.shown : walk.shown[i] = id
       \/ walk.state = "open" /\ id \in BelowCursor(walk.since)

WalkInv ==
  /\ \A row \in rows : RowOK(row)
  /\ watched # "console" => walk.state = "none" /\ walk.since = {}
  /\ WalkOK

PageOf(seq, n) == IF Len(seq) > n THEN SubSeq(seq, 1, n) ELSE seq

\* A page has the newest of ids, and when there are no more of them, all.
PageShows(page, ids, more) ==
  /\ page \in Seq(Nat) /\ NewestFirst(page) /\ \A i \in DOMAIN page : page[i] \in ids
  /\ more => /\ Len(page) \in DOMAIN page
             /\ \A i \in DOMAIN page : page[i] >= page[Len(page)]
             /\ \A id \in ids : (\E i \in DOMAIN page : page[i] = id) \/ id < page[Len(page)]
  /\ ~more => \A id \in ids : \E i \in DOMAIN page : page[i] = id

LEMMA PageOK ==
  ASSUME NEW ids \in SUBSET Nat, NEW limit \in 1..100, NEW fetched \in Fetched(ids, limit + 1),
         NEW page, page = PageOf(fetched, limit)
  PROVE  PageShows(page, ids, Len(fetched) > limit)
<1>1. PICK m \in 0..(limit + 1) : fetched \in [1..m -> ids]
  BY DEF Fetched, UpTo
<1>2. fetched \in Seq(Nat) /\ Len(fetched) = m /\ DOMAIN fetched = 1..m
  <2>1. fetched \in [1..m -> Nat] /\ m \in Nat
    <3>1. m \in Nat /\ ids \subseteq Nat
      OBVIOUS
    <3> QED BY <1>1, <3>1
  <2>2. fetched \in Seq(Nat)
    BY <2>1
  <2>3. DOMAIN fetched = 1..m
    BY <2>1
  <2> QED BY <2>1, <2>2, <2>3
<1>3. \A i, j \in 1..m : i < j => fetched[i] > fetched[j]
  BY <1>2 DEF Fetched
<1>4. \A id \in ids : \/ \E i \in 1..m : fetched[i] = id
                      \/ m = limit + 1 /\ \A i \in 1..m : fetched[i] > id
  BY <1>2 DEF Fetched
<1>5. \A i \in 1..m : fetched[i] \in ids /\ fetched[i] \in Nat
  BY <1>1
<1>6. CASE ~(Len(fetched) > limit)
  <2>1. page = fetched /\ m <= limit
    BY <1>1, <1>2, <1>6 DEF PageOf
  <2>2. \A id \in ids : \E i \in 1..m : page[i] = id
    <3>1. m # limit + 1
      BY <1>1, <2>1
    <3> QED BY <1>4, <2>1, <3>1
  <2>3. NewestFirst(page) /\ \A i \in DOMAIN page : page[i] \in ids
    BY <1>2, <1>3, <1>5, <2>1 DEF NewestFirst
  <2>4. page \in Seq(Nat) /\ DOMAIN page = 1..m
    BY <1>2, <2>1
  <2> QED BY <1>6, <2>2, <2>3, <2>4 DEF PageShows
<1>7. CASE Len(fetched) > limit
  <2>1. m = limit + 1 /\ page = SubSeq(fetched, 1, limit)
    BY <1>1, <1>2, <1>7 DEF PageOf
  <2>2. page \in Seq(Nat) /\ Len(page) = limit /\ DOMAIN page = 1..limit
    BY <1>2, <2>1
  <2>3. \A i \in 1..limit : page[i] = fetched[i] /\ i \in 1..m
    BY <1>2, <2>1
  <2>4. NewestFirst(page) /\ \A i \in DOMAIN page : page[i] \in ids
    BY <1>3, <1>5, <2>2, <2>3 DEF NewestFirst
  <2>5. limit \in 1..m /\ m \in 1..m /\ page[limit] = fetched[limit] /\ fetched[limit] > fetched[m]
    BY <1>3, <2>1, <2>3
  <2>6. \A i \in 1..limit : page[i] >= page[limit]
    <3>1. ASSUME NEW i \in 1..limit, i # limit PROVE fetched[i] > fetched[limit]
      BY <1>3, <2>3, <2>5, <3>1
    <3> QED BY <1>5, <2>3, <2>5, <3>1
  <2>7. ASSUME NEW id \in ids
        PROVE  (\E i \in 1..limit : page[i] = id) \/ id < page[limit]
    <3>1. CASE \E i \in 1..m : fetched[i] = id
      <4>1. PICK i \in 1..m : fetched[i] = id
        BY <3>1
      <4>2. i \in 1..limit \/ i = m
        BY <2>1
      <4> QED BY <1>5, <2>3, <2>5, <4>1, <4>2
    <3>2. CASE \A i \in 1..m : fetched[i] > id
      BY <1>5, <2>5, <3>2
    <3> QED BY <1>4, <3>1, <3>2
  <2>8. Len(page) \in DOMAIN page
    BY <2>2
  <2>9. /\ \A i \in DOMAIN page : page[i] >= page[Len(page)]
        /\ \A id \in ids : (\E i \in DOMAIN page : page[i] = id) \/ id < page[Len(page)]
    BY <2>2, <2>6, <2>7
  <2> QED BY <1>7, <2>2, <2>4, <2>8, <2>9 DEF PageShows
<1> QED BY <1>6, <1>7

\* Pages are put one below the other.
LEMMA NextPageOK ==
  ASSUME WalkInv, NextPage, UNCHANGED <<watched, controlVars>>, watched = "console"
  PROVE  WalkInv'
<1>1. PICK f : f = walk.filter
  OBVIOUS
<1>2. walk \in WalkOf(f) /\ walk.state = "open" /\ rows' = rows /\ list' = list
  BY <1>1 DEF WalkInv, WalkOK, NextPage
<1> DEFINE ids == BelowCursor(Matching(walk.filter))
<1>3. ids \in SUBSET Nat /\ walk.limit \in 1..100
  BY <1>2 DEF WalkInv, RowOK, BelowCursor, Matching, WalkOf
<1>4. PICK fetched \in Fetched(ids, walk.limit + 1) :
        LET more == Len(fetched) > walk.limit
            page == IF more THEN SubSeq(fetched, 1, walk.limit) ELSE fetched
        IN walk' = [walk EXCEPT !.shown = @ \o page,
                                !.state = IF more THEN "open" ELSE "done",
                                !.cursor = IF more THEN page[Len(page)] ELSE @]
  BY DEF NextPage
<1> DEFINE more == Len(fetched) > walk.limit
<1>6. PICK page : page = PageOf(fetched, walk.limit)
  OBVIOUS
<1>7. walk' = [walk EXCEPT !.shown = @ \o page,
                           !.state = IF more THEN "open" ELSE "done",
                           !.cursor = IF more THEN page[Len(page)] ELSE @]
  BY <1>4, <1>6 DEF PageOf
<1> HIDE DEF ids
<1>8. /\ page \in Seq(Nat) /\ NewestFirst(page) /\ \A i \in DOMAIN page : page[i] \in ids
      /\ more => /\ Len(page) \in DOMAIN page
                 /\ \A i \in DOMAIN page : page[i] >= page[Len(page)]
                 /\ \A id \in ids : (\E i \in DOMAIN page : page[i] = id) \/ id < page[Len(page)]
      /\ ~more => \A id \in ids : \E i \in DOMAIN page : page[i] = id
  <2>1. PICK limit \in 1..100 : limit = walk.limit
    BY <1>3
  <2>2. fetched \in Fetched(ids, limit + 1) /\ page = PageOf(fetched, limit)
    BY <1>4, <1>6, <2>1
  <2>3. ids \in SUBSET Nat
    BY <1>3
  <2>4. PageShows(page, ids, Len(fetched) > limit)
    <3> HIDE DEF more
    <3> QED BY <2>1, <2>2, <2>3, PageOK
  <2>5. PageShows(page, ids, more)
    BY <2>1, <2>4
  <2> HIDE DEF more
  <2> QED BY <2>5 DEF PageShows
<1> HIDE DEF more
<1>9. PICK state \in {"open", "done"} : state = IF more THEN "open" ELSE "done"
  OBVIOUS
<1>10. PICK cursor \in Nat : cursor = IF more THEN page[Len(page)] ELSE walk.cursor
  <2>1. walk.cursor \in Nat
    BY <1>2 DEF WalkOf
  <2> QED BY <1>8, <2>1
<1>11. PICK shown \in Seq(Nat) : shown = walk.shown \o page
  <2>1. walk.shown \in Seq(Nat)
    BY <1>2 DEF WalkOf
  <2>2. walk.shown \o page \in Seq(Nat)
    BY <1>8, <2>1
  <2> QED BY <2>2
<1>12. walk' = [walk EXCEPT !.shown = shown, !.state = state, !.cursor = cursor]
  BY <1>7, <1>9, <1>10, <1>11
<1>13. /\ walk' \in WalkOf(f) /\ walk'.filter = f /\ walk'.shown = shown /\ walk'.state = state
       /\ walk'.cursor = cursor /\ walk'.since = walk.since
  BY <1>2, <1>12 DEF WalkOf
<1>14. walk.shown \in Seq(Nat) /\ walk.cursor \in Nat /\ walk.since \subseteq Matching(f)
       /\ walk.since \subseteq Nat
  BY <1>1, <1>2 DEF WalkInv, WalkOK, WalkOf
<1>15. /\ \A i \in DOMAIN walk.shown : i \in DOMAIN shown /\ shown[i] = walk.shown[i]
       /\ \A i \in DOMAIN page : Len(walk.shown) + i \in DOMAIN shown
                                 /\ shown[Len(walk.shown) + i] = page[i]
       /\ \A i \in DOMAIN shown : i \in DOMAIN walk.shown
            \/ (i - Len(walk.shown) \in DOMAIN page /\ shown[i] = page[i - Len(walk.shown)]
                  /\ \A j \in DOMAIN walk.shown : j < i)
  BY <1>8, <1>11, <1>14
<1>16. \A i \in DOMAIN walk.shown : walk.cursor # 0 /\ walk.shown[i] >= walk.cursor
                                    /\ walk.shown[i] \in Nat
  BY <1>2, <1>14 DEF WalkInv, WalkOK
<1>17. \A i \in DOMAIN page : page[i] \in Nat /\ (walk.cursor # 0 => page[i] < walk.cursor)
  BY <1>8 DEF ids, BelowCursor
<1>18. NewestFirst(shown)
  <2> SUFFICES ASSUME NEW i \in DOMAIN shown, NEW j \in DOMAIN shown, i < j
               PROVE  shown[i] > shown[j]
    BY DEF NewestFirst
  <2>0. i \in Nat /\ j \in Nat /\ Len(walk.shown) \in Nat
    BY <1>14
  <2>1. CASE i \in DOMAIN walk.shown /\ j \in DOMAIN walk.shown
    BY <1>15, <2>1 DEF WalkInv, WalkOK, NewestFirst
  <2>2. CASE i \in DOMAIN walk.shown /\ j \notin DOMAIN walk.shown
    <3>1. PICK k \in DOMAIN page : shown[j] = page[k]
      BY <1>15, <2>2
    <3>2. shown[i] = walk.shown[i]
      BY <1>15, <2>2
    <3> QED BY <1>14, <1>16, <1>17, <2>2, <3>1, <3>2
  <2>3. CASE i \notin DOMAIN walk.shown /\ j \notin DOMAIN walk.shown
    <3>1. /\ i - Len(walk.shown) \in DOMAIN page /\ shown[i] = page[i - Len(walk.shown)]
          /\ j - Len(walk.shown) \in DOMAIN page /\ shown[j] = page[j - Len(walk.shown)]
      BY <1>15, <2>3
    <3>2. i - Len(walk.shown) < j - Len(walk.shown)
      BY <2>0
    <3> QED BY <1>8, <3>1, <3>2 DEF NewestFirst
  <2>4. CASE i \notin DOMAIN walk.shown /\ j \in DOMAIN walk.shown
    BY <1>15, <2>0, <2>4
  <2> QED BY <2>1, <2>2, <2>3, <2>4
<1>19. ASSUME more, NEW i \in DOMAIN shown
       PROVE  cursor # 0 /\ shown[i] >= cursor
  <2>1. cursor = page[Len(page)] /\ cursor \in ids /\ Len(page) \in DOMAIN page
    BY <1>8, <1>10, <1>19
  <2>2. cursor # 0
    BY <2>1 DEF ids, BelowCursor, Matching, WalkInv, RowOK
  <2>3. CASE i \in DOMAIN walk.shown
    <3>1. shown[i] = walk.shown[i] /\ cursor < walk.cursor
      BY <1>15, <1>16, <1>17, <2>1, <2>3
    <3> QED BY <1>14, <1>16, <2>2, <2>3, <3>1
  <2>4. CASE i \notin DOMAIN walk.shown
    <3>1. PICK k \in DOMAIN page : shown[i] = page[k]
      BY <1>15, <2>4
    <3> QED BY <1>8, <1>19, <2>1, <2>2, <3>1
  <2> QED BY <2>3, <2>4
<1>20. ASSUME NEW id \in walk.since
       PROVE  \/ \E i \in DOMAIN shown : shown[i] = id
              \/ state = "open" /\ (cursor = 0 \/ id < cursor)
  <2>1. CASE \E i \in DOMAIN walk.shown : walk.shown[i] = id
    BY <1>15, <2>1
  <2>2. CASE id \in BelowCursor(walk.since)
    <3>1. id \in ids
      BY <1>1, <1>14, <2>2 DEF ids, BelowCursor
    <3>2. CASE \E i \in DOMAIN page : page[i] = id
      BY <1>15, <3>2
    <3>3. CASE more /\ id < page[Len(page)]
      BY <1>9, <1>10, <3>3
    <3> QED BY <1>8, <3>1, <3>2, <3>3
  <2> QED BY <2>1, <2>2 DEF WalkInv, WalkOK
<1>21. Matching(walk.filter)' = Matching(f)
  BY <1>2, <1>13 DEF Matching, Matches, StatusOf, controlVars
<1>22. WalkOK'
  <2>1. NewestFirst(walk.shown)'
    BY <1>13, <1>18 DEF NewestFirst
  <2>2. walk'.state = "open" =>
          /\ \A i \in DOMAIN walk'.shown : walk'.cursor # 0 /\ walk'.shown[i] >= walk'.cursor
          /\ walk'.since \subseteq Matching(walk.filter)'
    <3>1. walk'.state = "open" => more
      BY <1>9, <1>13
    <3> QED BY <1>13, <1>14, <1>19, <1>21, <3>1
  <2>3. \A id \in walk'.since :
          \/ \E i \in DOMAIN walk'.shown : walk'.shown[i] = id
          \/ walk'.state = "open" /\ id \in BelowCursor(walk.since)'
    BY <1>13, <1>20 DEF BelowCursor
  <2> QED BY <1>13, <2>1, <2>2, <2>3 DEF WalkOK
<1> QED BY <1>2, <1>22 DEF WalkInv

\* What does not match any more need not be shown.
LEMMA StillThereOK ==
  ASSUME WalkOK, StillThere
  PROVE  WalkOK' /\ walk'.state = walk.state /\ walk'.since \subseteq walk.since
<1>1. PICK f : f = walk.filter /\ walk' = [walk EXCEPT !.since = @ \cap Matching(f)']
  BY DEF StillThere
<1>2. walk \in WalkOf(f)
  BY <1>1 DEF WalkOK
<1>3. PICK S : S = Matching(f)'
  OBVIOUS
<1>4. walk' = [walk EXCEPT !.since = @ \cap S]
  BY <1>1, <1>3
<1>5. /\ walk' \in WalkOf(f) /\ walk'.filter = f /\ walk'.shown = walk.shown
      /\ walk'.state = walk.state /\ walk'.cursor = walk.cursor /\ walk'.since = walk.since \cap S
  BY <1>2, <1>4 DEF WalkOf
<1>6. Matching(walk.filter)' = S
  BY <1>3, <1>5 DEF Matching, Matches, StatusOf
<1>7. NewestFirst(walk.shown)'
  BY <1>5 DEF WalkOK, NewestFirst
<1>8. walk'.state = "open" =>
        /\ \A i \in DOMAIN walk'.shown : walk'.cursor # 0 /\ walk'.shown[i] >= walk'.cursor
        /\ walk'.since \subseteq Matching(walk.filter)'
  BY <1>5, <1>6 DEF WalkOK
<1>9. \A id \in walk'.since :
        \/ \E i \in DOMAIN walk'.shown : walk'.shown[i] = id
        \/ walk'.state = "open" /\ id \in BelowCursor(walk.since)'
  BY <1>5 DEF WalkOK, BelowCursor
<1> QED BY <1>5, <1>7, <1>8, <1>9 DEF WalkOK

\* The rows and what they say stand still.
LEMMA WalkQuiet ==
  ASSUME WalkInv, UNCHANGED <<rows, list, walk, run, watched>> PROVE WalkInv'
<1>1. PICK f : f = walk.filter
  OBVIOUS
<1>2. Matching(walk.filter)' = Matching(walk.filter)
  BY DEF Matching, Matches, StatusOf
<1>3. WalkOK'
  <2>1. NewestFirst(walk.shown)'
    BY DEF WalkInv, WalkOK, NewestFirst
  <2>2. BelowCursor(walk.since)' = BelowCursor(walk.since)
    BY DEF BelowCursor
  <2> QED BY <1>2, <2>1, <2>2 DEF WalkInv, WalkOK
<1> QED BY <1>3 DEF WalkInv

LEMMA StartWalkOK ==
  ASSUME WalkInv, watched = "console", UNCHANGED <<watched, controlVars>>,
         NEW filter, NEW limit \in Limits, StartWalk(filter, limit)
  PROVE  WalkInv'
<1>1. rows' = rows /\ list' = list /\ run' = run
  BY DEF StartWalk, controlVars
<1>2. PICK S : S = Matching(filter)
  OBVIOUS
<1>3. walk' = [state |-> "open", filter |-> filter, limit |-> limit, cursor |-> 0, shown |-> <<>>,
               since |-> S]
  BY <1>2 DEF StartWalk, NoWalk
<1>4. S \in SUBSET Nat
  BY <1>2 DEF WalkInv, RowOK, Matching
<1>5. walk' \in WalkOf(filter) /\ walk'.filter = filter /\ walk'.shown = <<>> /\ walk'.cursor = 0
      /\ walk'.since = S
  BY <1>3, <1>4, ConsoleAssumption DEF WalkOf
<1>6. Matching(walk.filter)' = S
  BY <1>1, <1>2, <1>5 DEF Matching, Matches, StatusOf
<1>7. NewestFirst(walk.shown)'
  BY <1>5 DEF NewestFirst
<1>8. walk'.state = "open" /\ \A id \in walk'.since : id \in BelowCursor(walk.since)'
  BY <1>3, <1>5 DEF BelowCursor
<1>9. WalkOK'
  BY <1>5, <1>6, <1>7, <1>8 DEF WalkOK
<1> QED BY <1>1, <1>9 DEF WalkInv

\* A row that appears or changes is a row.
LEMMA RowsStay ==
  ASSUME \A row \in rows : RowOK(row),
         \/ ListFollows
         \/ \E e \in Entries, status \in {"on", "off"} : Enter(e, status)
         \/ \E row \in rows : Switch(row)
         \/ \E o \in Operators : SaveAlert(o)
  PROVE  \A row \in rows' : RowOK(row)
<1>1. \A n : \A i \in Drawn(n) : i \in Nat \ {0}
  <2>1. \A b : FirstId..b \subseteq Nat \ {0}
    BY ConsoleAssumption
  <2> QED BY <2>1 DEF Drawn
<1>2. ASSUME NEW i \in Nat \ {0}, NEW what, NEW status, NEW acknowledged
      PROVE  RowOK([id |-> i, what |-> what, status |-> status, acknowledged |-> acknowledged])
  BY DEF RowOK
<1>3. CASE ListFollows
  <2>1. PICK new : new = Kept[list]' \ Kept[list]
    OBVIOUS
  <2>2. PICK id \in [new -> Drawn(Cardinality(new))] :
          rows' = rows \cup {[id |-> id[x], what |-> x, status |-> FirstStatus(x),
                              acknowledged |-> FALSE] : x \in new}
    BY <1>3, <2>1 DEF ListFollows
  <2>3. \A row \in rows' : row \in rows \/ \E x \in new :
          row = [id |-> id[x], what |-> x, status |-> FirstStatus(x), acknowledged |-> FALSE]
    BY <2>2
  <2>4. \A x \in new : id[x] \in Nat \ {0}
    BY <1>1, <2>2
  <2> QED BY <1>2, <2>3, <2>4
<1>4. ASSUME NEW e \in Entries, NEW status \in {"on", "off"}, Enter(e, status)
      PROVE  \A row \in rows' : RowOK(row)
  BY <1>1, <1>2, <1>4 DEF Enter
<1>5. ASSUME NEW old \in rows, Switch(old)
      PROVE  \A row \in rows' : RowOK(row)
  <2>1. PICK status : status = IF old.status = "on" THEN "off" ELSE "on"
    OBVIOUS
  <2>2. rows' = (rows \ {old}) \cup {[old EXCEPT !.status = status]}
    BY <1>5, <2>1 DEF Switch
  <2>3. RowOK([old EXCEPT !.status = status])
    <3>1. PICK i, w, s, a :
            i \in Nat \ {0} /\ old = [id |-> i, what |-> w, status |-> s, acknowledged |-> a]
      BY DEF RowOK
    <3>2. [old EXCEPT !.status = status] =
            [id |-> i, what |-> w, status |-> status, acknowledged |-> a]
      BY <3>1
    <3> QED BY <1>2, <3>1, <3>2
  <2> QED BY <2>2, <2>3
<1>6. ASSUME NEW o \in Operators, SaveAlert(o)
      PROVE  \A row \in rows' : RowOK(row)
  <2> DEFINE After(row) == IF row.id = disposal[o].id THEN Disposed(row, disposal[o]) ELSE row
  <2>1. rows' = {After(row) : row \in rows}
    BY <1>6 DEF SaveAlert
  <2>2. ASSUME NEW old \in rows PROVE RowOK(After(old))
    <3>1. PICK i, w, s, a :
            i \in Nat \ {0} /\ old = [id |-> i, what |-> w, status |-> s, acknowledged |-> a]
      BY DEF RowOK
    <3>2. \/ After(old) = old
          \/ After(old) = [old EXCEPT !.status = "acknowledged", !.acknowledged = TRUE]
          \/ After(old) = [old EXCEPT !.status = "closed"]
      BY DEF Disposed
    <3>3. [old EXCEPT !.status = "closed"] =
            [id |-> i, what |-> w, status |-> "closed", acknowledged |-> a]
      BY <3>1
    <3>4. PICK seen : seen = [old EXCEPT !.status = "acknowledged"]
      OBVIOUS
    <3>5. seen = [id |-> i, what |-> w, status |-> "acknowledged", acknowledged |-> a]
      BY <3>1, <3>4
    <3>6. [seen EXCEPT !.acknowledged = TRUE] =
            [id |-> i, what |-> w, status |-> "acknowledged", acknowledged |-> TRUE]
      <4>1. PICK yes : yes = TRUE
        OBVIOUS
      <4>2. [seen EXCEPT !.acknowledged = yes] =
              [id |-> i, what |-> w, status |-> "acknowledged", acknowledged |-> yes]
        BY <3>5
      <4> QED BY <4>1, <4>2, Zenon
    <3>7. [old EXCEPT !.status = "acknowledged", !.acknowledged = TRUE] =
            [seen EXCEPT !.acknowledged = TRUE]
      BY <3>4
    <3> HIDE DEF After
    <3> QED BY <1>2, <3>1, <3>2, <3>3, <3>6, <3>7
  <2> HIDE DEF After
  <2> QED BY <2>1, <2>2
<1> QED BY <1>3, <1>4, <1>5, <1>6

LEMMA WalkStep ==
  ASSUME WalkInv, [ServiceNext]_serviceVars PROVE WalkInv'
<1>1. ASSUME watched' = watched, watched = "console",
             \/ ListFollows
             \/ \E e \in Entries, status \in {"on", "off"} : Enter(e, status)
             \/ \E row \in rows : Switch(row)
             \/ \E o \in Operators : SaveAlert(o)
      PROVE  WalkInv'
  <2>1. StillThere
    BY <1>1 DEF ListFollows, Enter, Switch, SaveAlert
  <2> QED BY <1>1, <2>1, StillThereOK, RowsStay DEF WalkInv
<1>2. CASE ConsoleStep /\ UNCHANGED <<watched, controlVars>> /\ watched = "console"
  <2>1. CASE \E filter \in Filters[list], limit \in Limits : StartWalk(filter, limit)
    BY <1>2, <2>1, StartWalkOK
  <2>2. CASE NextPage
    BY <1>2, <2>2, NextPageOK
  <2>3. CASE \E o \in Operators : \/ \E row \in rows, acknowledge \in BOOLEAN :
                                       LockAlert(o, row, acknowledge)
                                  \/ RollBackDisposal(o)
    <3>1. UNCHANGED <<rows, list, walk, run, watched>>
      BY <1>2, <2>3 DEF LockAlert, RollBackDisposal, controlVars
    <3> QED BY <3>1, WalkQuiet
  <2> QED BY <1>1, <1>2, <2>1, <2>2, <2>3 DEF ConsoleStep
<1>3. CASE ConsoleWatched
  <2>1. watched' = watched /\ watched = "console"
    BY <1>3 DEF ConsoleWatched, ServiceNext, serviceVars
  <2> QED BY <1>1, <1>2, <1>3, <2>1 DEF ConsoleWatched
<1>4. CASE RequestsWatched \/ PullWatched \/ CallWatched
  <2>1. watched' = watched /\ watched # "console" /\ UNCHANGED <<rows, list, walk>>
    BY <1>4 DEF RequestsWatched, PullWatched, CallWatched, ServiceNext, serviceVars, consoleVars
  <2>2. walk.state = "none" /\ walk.since = {}
    BY <2>1 DEF WalkInv
  <2>3. NewestFirst(walk.shown)'
    BY <2>1 DEF WalkInv, WalkOK, NewestFirst
  <2>4. WalkOK'
    BY <2>1, <2>2, <2>3 DEF WalkInv, WalkOK
  <2> QED BY <2>1, <2>4 DEF WalkInv
<1>5. CASE UNCHANGED serviceVars
  BY <1>5, WalkQuiet DEF serviceVars, controlVars, consoleVars
<1> QED BY <1>3, <1>4, <1>5 DEF ServiceNext

\* ManagementQueryRepository: the pages of a walk that is finished are in order and
\* miss nothing that was there and matched from the first to the last, although
\* each page is a statement of its own and rows appear below ones that were shown.
THEOREM WalksAreComplete == ServiceSpec => []WalkComplete
<1>1. ServiceInit => WalkInv
  <2> SUFFICES ASSUME ServiceInit PROVE WalkInv
    OBVIOUS
  <2>1. rows = {} /\ walk = [state |-> "none", filter |-> [keys |-> {}, statuses |-> {}], limit |-> 1,
                             cursor |-> 0, shown |-> <<>>, since |-> {}]
    BY DEF ServiceInit, ConsoleInit, NoWalk
  <2>2. walk \in WalkOf(walk.filter)
    BY <2>1 DEF WalkOf
  <2> QED BY <2>1, <2>2 DEF WalkInv, WalkOK, NewestFirst
<1>2. WalkInv => WalkComplete
  <2> SUFFICES ASSUME WalkInv, walk.state = "done"
               PROVE  /\ \A i, j \in DOMAIN walk.shown : i < j => walk.shown[i] > walk.shown[j]
                      /\ \A id \in walk.since : \E i \in DOMAIN walk.shown : walk.shown[i] = id
    BY DEF WalkComplete
  <2> QED BY DEF WalkInv, WalkOK, NewestFirst
<1> QED BY <1>1, <1>2, WalkStep, PTL DEF ServiceSpec

-----------------------------------------------------------------------------
(* What the caller of the client is told.                                  *)

KnownStatus == {"200", "201", "401", "403", "409", "500"}

\* What a status says of the decision and of the credential is so.
StatusTrue(status) ==
  /\ status \in {"200", "201"} => "accepted" \in decided
  /\ status \in {"401", "403"} => credential # "own"
  /\ status = "409" => "refused" \in decided

OperationType ==
  [step : {"none", "resolve", "connect", "write", "read", "over"}, ready : {"no", "ok", "error"},
   timer : {"set", "queued", "aborted", "gone"}, finished : BOOLEAN, timedOut : BOOLEAN,
   failed : BOOLEAN, response : KnownStatus \cup {"none"}]

\* An operation that is over has failed, or has an answer.
OperationOK(o) ==
  /\ o \in OperationType
  /\ o.ready # "no" => o.step \in {"resolve", "connect", "write", "read"}
  /\ o.step = "over" => o.finished
  /\ o.finished => (o.failed \/ o.response \in KnownStatus)
  /\ o.step = "read" /\ o.ready = "ok" => o.response \in KnownStatus

\* What is on its way to the caller is true of the question that waits, since a
\* request of an earlier call answers to a connection that is closed.
AnswerOK ==
  /\ OperationOK(op) /\ StatusTrue(op.response)
  /\ op.step # "none" => outcome = "waiting"
  /\ reply \in KnownStatus \cup {"none", "broken"} /\ StatusTrue(reply)
  /\ \A a \in arrived : ~a.late => a.request = question
  /\ credential \in {"own", "unknown", "other"}
  /\ watched # "call" => credential = "own"

ExchangeInv == ControlInv /\ CallOK /\ AnswerOK

LEMMA AnswerInitOK == ServiceInit => AnswerOK
BY DEF ServiceInit, ExchangeInit, AnswerOK, NoOperation, NewOperation, OperationOK,
       OperationType, KnownStatus, StatusTrue

\* Reading an answer.
LEMMA ReadKeeps ==
  ASSUME AnswerOK, ReadCompletes
  PROVE  OperationOK(op') /\ StatusTrue(op'.response) /\ op'.step = op.step
<1>1. op \in OperationType /\ op.step = "read" BY DEF AnswerOK, OperationOK, ReadCompletes
<1>2. CASE reply \notin {"none", "broken"} /\ op' = [op EXCEPT !.ready = "ok", !.response = reply]
  <2>1. reply \in KnownStatus BY <1>2 DEF AnswerOK
  <2>2. op' \in OperationType BY <1>1, <1>2, <2>1 DEF OperationType
  <2>3. /\ op'.step = "read" /\ op'.ready = "ok" /\ op'.response = reply
        /\ op'.finished = op.finished /\ op'.failed = op.failed
    BY <1>1, <1>2 DEF OperationType
  <2> QED BY <1>1, <2>1, <2>2, <2>3 DEF AnswerOK, OperationOK
<1>3. CASE op' = [op EXCEPT !.ready = "error"]
  <2>1. op' \in OperationType BY <1>1, <1>3 DEF OperationType
  <2>2. /\ op'.step = "read" /\ op'.ready = "error" /\ op'.response = op.response
        /\ op'.finished = op.finished /\ op'.failed = op.failed
    BY <1>1, <1>3 DEF OperationType
  <2> QED BY <1>1, <2>1, <2>2 DEF AnswerOK, OperationOK
<1> QED BY <1>2, <1>3 DEF ReadCompletes

\* finish ends an operation with a failure, or with the answer it has.
LEMMA FinishOK ==
  ASSUME NEW o \in OperationType, NEW failed \in BOOLEAN,
         o.ready # "no" => o.step \in {"resolve", "connect", "write", "read"},
         failed \/ o.response \in KnownStatus,
         o.step = "read" /\ o.ready = "ok" => o.response \in KnownStatus
  PROVE  OperationOK(Finish(o, failed)) /\ Finish(o, failed).response = o.response
         /\ Finish(o, failed).step = o.step
<1> DEFINE p == Finish(o, failed)
<1>1. p \in OperationType BY DEF Finish, OperationType
<1>2. p.step = o.step /\ p.ready = o.ready /\ p.response = o.response
      /\ p.finished = TRUE /\ p.failed = failed
  BY DEF Finish, OperationType
<1> HIDE DEF p
<1>3. OperationOK(p) BY <1>1, <1>2 DEF OperationOK
<1> QED BY <1>2, <1>3 DEF p

LEMMA TimeoutKeeps ==
  ASSUME OperationOK(op), OnTimeout
  PROVE  OperationOK(op') /\ op'.response = op.response /\ op'.step = op.step
<1>1. op \in OperationType BY DEF OperationOK
<1>2. CASE op' = [op EXCEPT !.timer = "gone"]
  <2>1. op' \in OperationType BY <1>1, <1>2 DEF OperationType
  <2>2. /\ op'.step = op.step /\ op'.ready = op.ready /\ op'.response = op.response
        /\ op'.finished = op.finished /\ op'.failed = op.failed
    BY <1>1, <1>2 DEF OperationType
  <2> QED BY <2>1, <2>2 DEF OperationOK
<1>3. CASE op' = Finish([op EXCEPT !.timer = "gone", !.timedOut = TRUE], TRUE)
  <2> DEFINE o == [op EXCEPT !.timer = "gone", !.timedOut = TRUE]
  <2>1. o \in OperationType BY <1>1 DEF OperationType
  <2>2. o.step = op.step /\ o.ready = op.ready /\ o.response = op.response
    BY <1>1 DEF OperationType
  <2>3. op' = Finish(o, TRUE) BY <1>3
  <2> HIDE DEF o
  <2>4. /\ o.ready # "no" => o.step \in {"resolve", "connect", "write", "read"}
        /\ o.step = "read" /\ o.ready = "ok" => o.response \in KnownStatus
    BY <2>2 DEF OperationOK
  <2>5. OperationOK(Finish(o, TRUE)) /\ Finish(o, TRUE).response = o.response
        /\ Finish(o, TRUE).step = o.step
    <3>1. TRUE \in BOOLEAN OBVIOUS
    <3> QED BY <2>1, <2>4, <3>1, FinishOK
  <2> QED BY <2>2, <2>3, <2>5
<1> QED BY <1>2, <1>3 DEF OnTimeout

LEMMA CompletionKeeps ==
  ASSUME OperationOK(op), OnCompletion
  PROVE  OperationOK(op') /\ op'.response = op.response /\ op'.step # "none"
<1> DEFINE o == [op EXCEPT !.step = "over", !.ready = "no"]
<1>1. op \in OperationType /\ op.step \in {"resolve", "connect", "write", "read"} /\ op.ready # "no"
  BY DEF OperationOK, OnCompletion
<1>2. o \in OperationType BY <1>1 DEF OperationType
<1>3. o.step = "over" /\ o.ready = "no" /\ o.response = op.response /\ o.finished = op.finished
      /\ o.failed = op.failed
  BY <1>1 DEF OperationType
<1>4. CASE op.finished /\ op' = o
  <2> HIDE DEF o
  <2>1. o.finished BY <1>3, <1>4
  <2>2. o.failed \/ o.response \in KnownStatus BY <1>3, <1>4 DEF OperationOK
  <2>3. OperationOK(o) BY <1>2, <1>3, <2>1, <2>2 DEF OperationOK
  <2> QED BY <1>3, <1>4, <2>3
<1>5. CASE \E failed \in BOOLEAN : (failed \/ op.response \in KnownStatus) /\ op' = Finish(o, failed)
  <2> HIDE DEF o
  <2> QED BY <1>2, <1>3, <1>5, FinishOK
<1>6. CASE ~op.finished /\ op' = [op EXCEPT !.step = Following[op.step], !.ready = "no"]
           /\ op.step # "read"
  <2>1. Following[op.step] \in {"connect", "write", "read"} BY <1>1, <1>6 DEF Following
  <2>2. op' \in OperationType BY <1>1, <1>6, <2>1 DEF OperationType
  <2>3. /\ op'.step = Following[op.step] /\ op'.ready = "no" /\ op'.response = op.response
        /\ op'.finished = op.finished
    BY <1>1, <1>6 DEF OperationType
  <2>4. ~op'.finished BY <1>6, <2>3
  <2> QED BY <2>1, <2>2, <2>3, <2>4 DEF OperationOK
<1>7. CASE op.finished BY <1>4, <1>7 DEF OnCompletion
<1>8. CASE ~op.finished /\ op.ready = "error" BY <1>5, <1>8 DEF OnCompletion
<1>9. CASE ~op.finished /\ op.ready # "error" /\ op.step = "read"
  <2>1. op.ready = "ok" BY <1>1, <1>9 DEF OperationType
  <2>2. op.response \in KnownStatus BY <1>9, <2>1 DEF OperationOK
  <2> QED BY <1>5, <1>9, <2>2 DEF OnCompletion
<1> QED BY <1>6, <1>7, <1>8, <1>9 DEF OnCompletion

\* An operation that goes on with neither an answer nor an end.
LEMMA OperationGoesOn ==
  ASSUME OperationOK(op), NEW field \in {"error", "ok"}, op.step \notin {"none", "over"},
         op.step = "read" => field = "error", op' = [op EXCEPT !.ready = field]
  PROVE  OperationOK(op') /\ op'.response = op.response /\ op'.step = op.step
<1>1. op \in OperationType BY DEF OperationOK
<1>2. op' \in OperationType BY <1>1 DEF OperationType
<1>3. /\ op'.step = op.step /\ op'.ready = field /\ op'.response = op.response
      /\ op'.finished = op.finished /\ op'.failed = op.failed
  BY <1>1 DEF OperationType
<1>4. op.step \in {"resolve", "connect", "write", "read"} BY <1>1 DEF OperationType
<1> QED BY <1>2, <1>3, <1>4 DEF OperationOK

\* The steps of the client but Ask and Conclude leave the question waiting.
LEMMA ClientKeeps ==
  ASSUME AnswerOK, ClientStep, ~Conclude, UNCHANGED watched
  PROVE  AnswerOK' /\ UNCHANGED <<credential, question, decided, outcome>>
<1>1. OperationOK(op) /\ StatusTrue(op.response) BY DEF AnswerOK
<1>2. op \in OperationType BY <1>1 DEF OperationOK
<1>3. UNCHANGED <<credential, question, reply, decided, outcome>>
  BY DEF ClientStep, OperationCompletes, ReadCompletes, OperationAborted, TimerExpires, OnTimeout,
         OnCompletion
<1>4. arrived' = arrived \/ arrived' = arrived \cup {[request |-> question, late |-> FALSE]}
  BY DEF ClientStep, OperationCompletes, ReadCompletes, OperationAborted, TimerExpires, OnTimeout,
         OnCompletion
<1>5. OperationOK(op') /\ StatusTrue(op'.response) /\ (op'.step # "none" => op.step # "none")
  <2>1. CASE OperationCompletes
    <3>1. PICK ready \in {"ok", "error"} : op' = [op EXCEPT !.ready = ready]
      BY <2>1 DEF OperationCompletes
    <3>2. op.step \in {"resolve", "connect", "write"}
      BY <2>1 DEF OperationCompletes
    <3> QED BY <1>1, <3>1, <3>2, OperationGoesOn
  <2>2. CASE ReadCompletes
    BY <2>2, ReadKeeps
  <2>3. CASE OperationAborted
    <3>1. op' = [op EXCEPT !.ready = "error"] /\ op.step \notin {"none", "over"}
      BY <2>3 DEF OperationAborted
    <3> QED BY <1>1, <3>1, OperationGoesOn
  <2>4. CASE TimerExpires
    <3>1. op' = [op EXCEPT !.timer = "queued"] BY <2>4 DEF TimerExpires
    <3>2. op' \in OperationType BY <1>2, <3>1 DEF OperationType
    <3>3. /\ op'.step = op.step /\ op'.ready = op.ready /\ op'.response = op.response
          /\ op'.finished = op.finished /\ op'.failed = op.failed
      BY <1>2, <3>1 DEF OperationType
    <3> QED BY <1>1, <3>2, <3>3 DEF OperationOK
  <2>5. CASE OnTimeout
    BY <1>1, <2>5, TimeoutKeeps
  <2>6. CASE OnCompletion
    <3>1. op.step # "none" BY <1>1, <2>6 DEF OnCompletion, OperationOK
    <3> QED BY <1>1, <2>6, <3>1, CompletionKeeps
  <2> QED BY <2>1, <2>2, <2>3, <2>4, <2>5, <2>6 DEF ClientStep
<1>6. (\A a \in arrived : ~a.late => a.request = question)'
  BY <1>3, <1>4 DEF AnswerOK
<1>7. StatusTrue(reply)' /\ (StatusTrue(op.response))'
  BY <1>3, <1>5 DEF StatusTrue, AnswerOK
<1> QED BY <1>3, <1>5, <1>6, <1>7 DEF AnswerOK, OperationOK

\* A manifest or a report that is accepted, now or before, has its receipt, and
\* no other request leaves one.
LEMMA HandleKept ==
  ASSUME ControlInv, NEW q \in Requests, NEW answer \in Answers, Handle(q, answer)
  PROVE  /\ answer # "rejected" /\ q.type # "start"
              => KeptReports' = KeptReports \cup ({q} \cap Questions)
         /\ answer = "rejected" \/ q.type = "start" => KeptReports' = KeptReports
<1>1. q.key \in Keys /\ receipts \in [Keys -> SUBSET Requests]
  BY DEF Requests, ControlInv, ControlTypeOK
<1>2. /\ answer # "rejected" /\ q.type # "start" => receipts' = [receipts EXCEPT ![q.key] = @ \cup {q}]
      /\ answer = "rejected" \/ q.type = "start" => receipts' = receipts
  <2>1. CASE q.type = "start" /\ (StartScheduled(q.key, answer) \/ StartManual(q.key, answer))
    BY <2>1 DEF StartScheduled, StartManual
  <2>2. CASE q.type # "start" /\ Replayed(q, answer)
    <3>1. receipts' = receipts /\ q \in receipts[q.key] /\ answer = "accepted"
      BY <2>2 DEF Replayed, controlVars
    <3>2. receipts' = [receipts EXCEPT ![q.key] = @ \cup {q}]
      BY <1>1, <3>1
    <3> QED BY <2>2, <3>1, <3>2
  <2>3. CASE q.type # "start" /\ Refused(q, answer)
    BY <2>3 DEF Refused, controlVars
  <2>4. CASE AcceptRawFileManifest(q, answer)
    BY <2>4 DEF AcceptRawFileManifest, AddReceipt
  <2>5. CASE AcceptTaskRunReport(q, answer)
    BY <2>5 DEF AcceptTaskRunReport, AddReceipt
  <2> QED BY <2>1, <2>2, <2>3, <2>4, <2>5 DEF Handle
<1>3. CASE receipts' = [receipts EXCEPT ![q.key] = @ \cup {q}]
  <2>1. \A k \in Keys : receipts'[k] = IF k = q.key THEN receipts[k] \cup {q} ELSE receipts[k]
    BY <1>1, <1>3
  <2>2. UNION {receipts'[k] : k \in Keys} = (UNION {receipts[k] : k \in Keys}) \cup {q}
    <3>1. ASSUME NEW x
          PROVE  (\E k \in Keys : x \in receipts'[k]) <=> (\E k \in Keys : x \in receipts[k]) \/ x = q
      BY <1>1, <2>1
    <3> QED BY <3>1
  <2>3. KeptReports' = KeptReports \cup ({q} \cap Questions)
    BY <2>2 DEF KeptReports
  <2>4. answer = "rejected" \/ q.type = "start" => KeptReports' = KeptReports
    BY <1>2 DEF KeptReports
  <2> QED BY <2>3, <2>4
<1>4. CASE receipts' = receipts /\ (answer = "rejected" \/ q.type = "start")
  BY <1>4 DEF KeptReports
<1> QED BY <1>2, <1>3, <1>4

\* The network and the controllers keep the answer true.
LEMMA ControllerKeeps ==
  ASSUME CallOK, AnswerOK, UNCHANGED watched, NEW a \in arrived,
         \/ Unauthorized(a) \/ HandlerFails(a)
         \/ \E answer \in Answers : Handled(a, answer) \/ HandledUnknown(a, answer)
  PROVE  AnswerOK'
<1>1. UNCHANGED <<credential, question, op, outcome>> /\ arrived' = arrived \ {a}
      /\ decided \subseteq decided'
  BY DEF Unauthorized, HandlerFails, Handled, HandledUnknown, Decided
<1>2. reply' \in KnownStatus \cup {"none", "broken"} /\ StatusTrue(reply)'
  <2>1. CASE Unauthorized(a)
    <3>1. credential \in {"unknown", "other"} BY <2>1 DEF Unauthorized, AnswerOK
    <3>2. reply' = reply \/ reply' \in {"401", "403"}
      BY <2>1 DEF Unauthorized, Reply
    <3> QED BY <1>1, <3>1, <3>2 DEF AnswerOK, StatusTrue, KnownStatus
  <2>2. CASE HandlerFails(a)
    BY <1>1, <2>2 DEF HandlerFails, Reply, AnswerOK, StatusTrue, KnownStatus
  <2>3. ASSUME NEW answer \in Answers, Handled(a, answer)
        PROVE  reply' \in KnownStatus \cup {"none", "broken"} /\ StatusTrue(reply)'
    <3>1. CASE ~Awaited(a)
      BY <1>1, <2>3, <3>1 DEF Handled, Reply, AnswerOK, StatusTrue
    <3>2. CASE Awaited(a) /\ answer = "rejected"
      <4>1. reply' = "409" /\ "refused" \in decided'
        BY <2>3, <3>2 DEF Handled, Reply, Decided, HttpStatus
      <4> QED BY <4>1 DEF StatusTrue, KnownStatus
    <3>3. CASE Awaited(a) /\ answer # "rejected"
      <4>1. reply' \in {"200", "201"} /\ "accepted" \in decided'
        BY <2>3, <3>3 DEF Handled, Reply, Decided, HttpStatus
      <4> QED BY <4>1 DEF StatusTrue, KnownStatus
    <3> QED BY <3>1, <3>2, <3>3
  <2>4. ASSUME NEW answer \in Answers, HandledUnknown(a, answer)
        PROVE  reply' \in KnownStatus \cup {"none", "broken"} /\ StatusTrue(reply)'
    BY <1>1, <2>4 DEF HandledUnknown, Reply, AnswerOK, StatusTrue, KnownStatus
  <2> QED BY <2>1, <2>2, <2>3, <2>4
<1>3. StatusTrue(op.response)'
  BY <1>1 DEF AnswerOK, StatusTrue
<1> QED BY <1>1, <1>2, <1>3 DEF AnswerOK, OperationOK

\* Every step keeps what is on its way to the caller true.
LEMMA AnswerStep == CallOK /\ AnswerOK /\ [ServiceNext]_serviceVars => AnswerOK'
<1> SUFFICES ASSUME CallOK, AnswerOK, [ServiceNext]_serviceVars PROVE AnswerOK' OBVIOUS
<1>0. watched' = watched
  BY DEF ServiceNext, serviceVars
<1>1. CASE UNCHANGED exchangeVars
  BY <1>0, <1>1 DEF exchangeVars, AnswerOK, OperationOK, StatusTrue
<1>2. ASSUME watched = "call", NEW q \in Questions, Ask(q) PROVE AnswerOK'
  <2>1. /\ op' = NewOperation /\ outcome' = "waiting" /\ reply' = "none" /\ credential' = credential
        /\ arrived' = {[a EXCEPT !.late = TRUE] : a \in arrived}
    BY <1>2 DEF Ask
  <2>2. \A a \in arrived' : a.late = TRUE
    BY <2>1 DEF CallOK
  <2>3. OperationOK(NewOperation) /\ NewOperation.response = "none"
    BY DEF NewOperation, OperationOK, OperationType, KnownStatus
  <2> QED BY <1>0, <2>1, <2>2, <2>3 DEF AnswerOK, StatusTrue, OperationOK
<1>3. CASE Conclude
  <2>1. OperationOK(NoOperation) /\ NoOperation.response = "none" /\ NoOperation.step = "none"
    <3> DEFINE n == NewOperation
    <3>1. n \in OperationType /\ n.ready = "no" /\ n.finished = FALSE /\ n.response = "none"
      BY DEF NewOperation, OperationType, KnownStatus
    <3>2. NoOperation = [n EXCEPT !.step = "none", !.timer = "gone"]
      BY DEF NoOperation
    <3> HIDE DEF n
    <3>3. NoOperation \in OperationType
      BY <3>1, <3>2 DEF OperationType
    <3>4. /\ NoOperation.step = "none" /\ NoOperation.ready = "no" /\ NoOperation.response = "none"
          /\ NoOperation.finished = FALSE
      BY <3>1, <3>2 DEF OperationType
    <3> QED BY <3>3, <3>4 DEF OperationOK
  <2>2. op' = NoOperation /\ UNCHANGED <<credential, question, arrived, reply, decided>>
    BY <1>3 DEF Conclude
  <2> QED BY <1>0, <2>1, <2>2 DEF AnswerOK, StatusTrue, OperationOK
<1>4. CASE ClientStep /\ ~Conclude
  BY <1>0, <1>4, ClientKeeps
<1>5. CASE ServerGone
  <2>1. arrived' = {} /\ reply' = "broken" /\ UNCHANGED <<credential, question, op, decided, outcome>>
    BY <1>5 DEF ServerGone
  <2> QED BY <1>0, <2>1 DEF AnswerOK, StatusTrue, OperationOK
<1>6. ASSUME NEW a \in arrived, Looks(a) PROVE UNCHANGED exchangeVars
  BY <1>6 DEF Looks
<1> QED
  BY <1>0, <1>1, <1>2, <1>3, <1>4, <1>5, <1>6, ControllerKeeps
  DEF ServiceNext, RequestsWatched, ConsoleWatched, PullWatched, CallWatched, ExchangeStep, serviceVars

\* A request that nobody waits for is handled late, or leaves nothing.
LEMMA HandledForNobody ==
  ASSUME ControlInv, NEW q \in Requests, NEW answer \in Answers, Handle(q, answer),
         credential = "own", UNCHANGED <<credential, question, decided, outcome>>
  PROVE  [Promise!ExchangeNext]_(Promise!vars)
<1>1. CASE KeptReports' = KeptReports
  BY <1>1 DEF Promise!vars
<1>2. CASE KeptReports' = KeptReports \cup {q} /\ q \in Questions /\ q.type # "start"
  <2>1. Promise!KeepLate(q) BY <1>2 DEF Promise!KeepLate
  <2> QED BY <1>2, <2>1 DEF Promise!ExchangeNext
<1>3. \/ KeptReports' = KeptReports
      \/ KeptReports' = KeptReports \cup {q} /\ q \in Questions /\ q.type # "start"
  BY HandleKept
<1> QED BY <1>1, <1>2, <1>3

\* A question that waits is decided, and kept if it is a report that is accepted.
LEMMA HandledForCaller ==
  ASSUME ControlInv, question \in Questions, question \in Requests, NEW answer \in Answers,
         Handle(question, answer), credential = "own", outcome = "waiting",
         decided' = decided \cup {IF answer = "rejected" THEN "refused" ELSE "accepted"},
         UNCHANGED <<credential, question, outcome>>
  PROVE  Promise!ExchangeNext
<1> DEFINE d == IF answer = "rejected" THEN "refused" ELSE "accepted"
<1>1. d \in Promise!Decisions BY DEF Promise!Decisions
<1>2. IF d = "accepted" /\ question \in {q \in Questions : q.type # "start"}
      THEN KeptReports' = KeptReports \cup {question} ELSE KeptReports' = KeptReports
  BY HandleKept
<1>3. decided' = decided \cup {d} OBVIOUS
<1> HIDE DEF d
<1>4. Promise!Decide(d) BY <1>2, <1>3 DEF Promise!Decide
<1> QED BY <1>1, <1>4 DEF Promise!ExchangeNext

\* The commands of the operators leave no receipt.
LEMMA CommandKept ==
  ASSUME OperatorCommand, UNCHANGED <<credential, question, decided, outcome>>
  PROVE  UNCHANGED <<question, credential = "own", KeptReports, decided, outcome>>
<1>1. receipts' = receipts
  BY DEF OperatorCommand, RequestManualRun, RequestRetryRun, ApplyManualRun, SetTaskEnabled
<1> QED BY <1>1 DEF KeptReports

\* What the caller is told in the end is true.
LEMMA ConcludeTells == AnswerOK /\ Conclude /\ UNCHANGED controlVars => Promise!ExchangeNext
<1> SUFFICES ASSUME AnswerOK, Conclude, UNCHANGED controlVars PROVE Promise!ExchangeNext OBVIOUS
<1> DEFINE o == Classified(TakeResponse)
<1>1. outcome = "waiting" /\ outcome' = o /\ UNCHANGED <<credential, question, decided>>
  BY DEF Conclude, AnswerOK
<1>2. op.failed \/ op.response \in KnownStatus
  BY DEF Conclude, AnswerOK, OperationOK
<1>3. \/ TakeResponse \in {"timeout", "network"}
      \/ TakeResponse = op.response /\ op.response \in KnownStatus
  BY <1>2 DEF TakeResponse
<1>4. StatusTrue(op.response) BY DEF AnswerOK
<1>5. o \in Promise!Outcomes /\ Promise!True(o)
  <2>1. CASE TakeResponse \in {"timeout", "network"}
    BY <2>1 DEF Classified, AuthRejection, Transient, Promise!Outcomes, Promise!True
  <2>2. CASE TakeResponse = op.response /\ op.response \in KnownStatus
    BY <1>4, <2>2 DEF Classified, AuthRejection, Transient, Promise!Outcomes, Promise!True, StatusTrue,
       KnownStatus
  <2> QED BY <1>3, <2>1, <2>2
<1>6. KeptReports' = KeptReports BY DEF controlVars, KeptReports
<1> HIDE DEF o
<1>7. Promise!Tell(o) BY <1>1, <1>5, <1>6 DEF Promise!Tell
<1> QED BY <1>5, <1>7 DEF Promise!ExchangeNext

\* Every step is one that Exchange allows, or none of its.
LEMMA ExchangePromiseStep ==
  ControlInv /\ CallOK /\ AnswerOK /\ [ServiceNext]_serviceVars
    => [Promise!ExchangeNext]_(Promise!vars)
<1> SUFFICES ASSUME ControlInv, CallOK, AnswerOK, [ServiceNext]_serviceVars
             PROVE  [Promise!ExchangeNext]_(Promise!vars)
  OBVIOUS
<1>1. CASE UNCHANGED <<credential, question, decided, outcome, receipts>>
  BY <1>1 DEF Promise!vars, KeptReports
<1>2. CASE watched # "call" /\ UNCHANGED exchangeVars
  <2>1. credential = "own" /\ UNCHANGED <<credential, question, decided, outcome>>
    BY <1>2 DEF AnswerOK, exchangeVars
  <2>2. [ControlNext]_controlVars BY ServiceIsControl
  <2>3. CASE UNCHANGED controlVars BY <1>1, <2>1, <2>3 DEF controlVars
  <2>4. CASE OperatorCommand BY <2>1, <2>4, CommandKept DEF Promise!vars
  <2>5. CASE \/ \E q \in Requests : LookAtRun(q)
             \/ HandlersGone
             \/ \E r \in Rules : SwitchRule(r)
    <3>1. receipts' = receipts BY <2>5, AsideStep
    <3> QED BY <1>1, <2>1, <3>1
  <2> QED BY <2>1, <2>2, <2>3, <2>4, <2>5, HandledForNobody DEF ControlNext
<1>3. ASSUME watched = "call", CallWatched PROVE [Promise!ExchangeNext]_(Promise!vars)
  <2>1. ASSUME NEW q \in Questions, Ask(q), UNCHANGED controlVars PROVE Promise!ExchangeNext
    <3>1. KeptReports' = KeptReports BY <2>1 DEF controlVars, KeptReports
    <3>2. Promise!Ask(q) BY <2>1, <3>1 DEF Ask, Promise!Ask
    <3> QED BY <3>2 DEF Promise!ExchangeNext
  <2>2. CASE ClientStep /\ UNCHANGED controlVars
    <3>1. CASE Conclude BY <2>2, <3>1, ConcludeTells
    <3>2. CASE ~Conclude
      <4>1. UNCHANGED <<credential, question, decided, outcome, receipts>>
        BY <2>2, <3>2 DEF controlVars, ClientStep, OperationCompletes, ReadCompletes, OperationAborted,
           TimerExpires, OnTimeout, OnCompletion
      <4> QED BY <1>1, <4>1
    <3> QED BY <3>1, <3>2
  <2>3. ASSUME NEW a \in arrived, Unauthorized(a) \/ HandlerFails(a)
        PROVE  [Promise!ExchangeNext]_(Promise!vars)
    BY <1>1, <2>3 DEF Unauthorized, HandlerFails, controlVars
  <2>4. ASSUME NEW a \in arrived, NEW answer \in Answers,
               Handled(a, answer) \/ HandledUnknown(a, answer)
        PROVE  [Promise!ExchangeNext]_(Promise!vars)
    <3>1. a.request \in Requests /\ credential = "own" /\ Handle(a.request, answer)
          /\ UNCHANGED <<credential, question, outcome>>
      BY <2>4 DEF CallOK, Handled, HandledUnknown
    <3>2. CASE ~Awaited(a)
      <4>1. decided' = decided BY <2>4, <3>2 DEF Handled, HandledUnknown, Decided
      <4> QED BY <3>1, <4>1, HandledForNobody
    <3>3. CASE Awaited(a)
      <4>1. a.request = question /\ outcome = "waiting" /\ question \in Questions
        BY <3>3 DEF Awaited, AnswerOK, CallOK
      <4>2. decided' = decided \cup {IF answer = "rejected" THEN "refused" ELSE "accepted"}
        BY <2>4, <3>3 DEF Handled, HandledUnknown, Decided
      <4> QED BY <3>1, <4>1, <4>2, HandledForCaller
    <3> QED BY <3>2, <3>3
  <2>5. CASE ServerGone
    BY <1>1, <2>5 DEF ServerGone, HandlersGone
  <2>6. CASE OperatorCommand /\ UNCHANGED exchangeVars
    BY <2>6, CommandKept DEF exchangeVars, Promise!vars
  <2>7. ASSUME NEW a \in arrived, Looks(a)
        PROVE  [Promise!ExchangeNext]_(Promise!vars)
    <3>1. UNCHANGED exchangeVars /\ receipts' = receipts BY <2>7 DEF Looks, LookAtRun
    <3> QED BY <1>1, <3>1 DEF exchangeVars
  <2> QED BY <1>3, <2>1, <2>2, <2>3, <2>4, <2>5, <2>6, <2>7 DEF CallWatched, ExchangeStep
<1> QED
  BY <1>1, <1>2, <1>3
  DEF ServiceNext, RequestsWatched, ConsoleWatched, PullWatched, CallWatched, serviceVars, controlVars,
      exchangeVars

\* Whatever becomes of the network, of the control plane and of the timer that races
\* with the answer, the caller of the client is told that a question was answered,
\* refused or not recognised only if it was, and no report is kept but one that
\* was accepted: all that ExchangeKept says but that the caller is told.
THEOREM AnswersAreTrue ==
  ServiceSpec => Promise!ExchangeInit /\ [][Promise!ExchangeNext]_(Promise!vars)
<1>1. ServiceInit => ControlInv /\ CallOK /\ AnswerOK
  BY ControlInitOK, AnswerInitOK DEF ServiceInit, ExchangeInit, CallOK
<1>2. ServiceInit => Promise!ExchangeInit
  <2> SUFFICES ASSUME ServiceInit PROVE Promise!ExchangeInit OBVIOUS
  <2>1. KeptReports = {} BY DEF ServiceInit, ControlInit, KeptReports
  <2> QED BY <2>1 DEF ServiceInit, ExchangeInit, Promise!ExchangeInit
<1>3. ControlInv /\ CallOK /\ AnswerOK /\ [ServiceNext]_serviceVars
        => (ControlInv /\ CallOK /\ AnswerOK)'
  BY ServiceIsControl, ControlNextOK, CallOKStep, AnswerStep
<1> QED BY <1>1, <1>2, <1>3, ExchangePromiseStep, PTL DEF ServiceSpec
================================================================================
