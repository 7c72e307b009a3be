------------------------------ MODULE Console ------------------------------
(***************************************************************************)
(* The console on the control plane: an operator walks through a list page  *)
(* by page while runs go on, and operators dispose of alerts.               *)
(*                                                                         *)
(* A behaviour follows the rows of one list.  The id of a row is drawn from *)
(* a sequence when the row is inserted, the row appears when its            *)
(* transaction commits: a row may appear below one that is there already.   *)
(* Each query is one statement; the transaction of a disposal locks the row *)
(* of the alert, reads it and writes it.                                    *)
(***************************************************************************)
EXTENDS ControlPlane, Sequences

CONSTANTS
  Lines,      \* the records of a file
  Faulty,     \* the results that are not a pass: run, record and rule
  Entries,    \* bound: the nodes, data sources, rules or tasks that are entered
  FirstId,    \* where the sequence of the list stands
  Ahead,      \* bound: ids drawn by transactions that have not committed
  Limits,     \* sizes of a page
  Operators

ASSUME ConsoleAssumption ==
  /\ IsFiniteSet(Lines) /\ IsFiniteSet(Entries) /\ IsFiniteSet(Rules)
  /\ Faulty \subseteq Keys \X (Lines \X Rules)
  /\ FirstId \in Nat \ {0} /\ Ahead \in Nat
  /\ Limits \subseteq 1..100

VARIABLES
  list,      \* the list that is followed
  rows,      \* its rows
  walk,      \* the pages an operator has asked for
  disposal   \* each operator's open transaction on an alert

consoleVars == <<list, rows, walk, disposal>>

AlertStatus == {"open", "acknowledged", "closed"}

\* What the operators and the registration of nodes enter, and what the
\* requests of the agents leave behind.
Configured == {"nodes", "sources", "rules", "tasks"}

Lists == Configured \cup {"runs", "files", "records", "results", "alerts"}

-----------------------------------------------------------------------------
(* The rows.  What a request leaves behind appears with its commit.        *)

RunsKept == {<<k, "run">> : k \in {x \in Keys : run[x] # "none"}}

FilesKept == {x \in Keys \X Files : raws[x[1]][x[2]] > 0}

RecordsKept ==
  {<<x[1], y>> : x \in {z \in Keys \X Files : stored[z[1]][z[2]] > 0}, y \in Lines}

\* record_result: one for each record and each rule of the task
ResultsKept ==
  UNION {{<<x[1], <<x[2], r>>>> : r \in RulesOf[TaskOf[x[1]]]} : x \in RecordsKept}

\* create_alert: one for every result that is not a pass
AlertsCreated == ResultsKept \cap Faulty

Kept == [runs |-> RunsKept, files |-> FilesKept, records |-> RecordsKept,
         results |-> ResultsKept, alerts |-> AlertsCreated]

FirstStatus(what) ==
  CASE list = "alerts" -> "open"
    [] list = "results" -> IF what \in Faulty THEN "failed" ELSE "passed"
    [] OTHER -> "kept"

\* The ids the sequence may have given to n rows that appear now.
Drawn(n) ==
  LET unused == (FirstId..(FirstId + Cardinality(rows) + n + Ahead)) \ {row.id : row \in rows}
  IN {i \in unused : Cardinality({j \in unused : j < i}) < n + Ahead}

StatusOf(row) == IF list = "runs" THEN run[row.what[1]] ELSE row.status

Matches(row, filter) == row.what[1] \in filter.keys /\ StatusOf(row) \in filter.statuses

Matching(filter) == {row.id : row \in {x \in rows : Matches(x, filter)}}

\* Rows that were there when the walk began and have matched ever since.
StillThere ==
  \E filter \in {walk.filter} : walk' = [walk EXCEPT !.since = @ \cap Matching(filter)']

\* What a step of the control plane does to the list.
ListFollows ==
  LET new == Kept[list]' \ Kept[list] IN
  /\ list \notin Configured
  /\ UNCHANGED <<list, disposal>>
  /\ \E id \in [new -> Drawn(Cardinality(new))] :
       /\ \A x, y \in new : x # y => id[x] # id[y]
       /\ rows' = rows \cup
            {[id |-> id[x], what |-> x, status |-> FirstStatus(x), acknowledged |-> FALSE] : x \in new}
  /\ StillThere

\* register_node, create_data_source, create_qc_rule and create_task; a
\* request that is refused, or fails, leaves nothing.
Enter(e, status) ==
  /\ list \in Configured /\ (list = "nodes" => status = "off")
  /\ \A row \in rows : row.what # <<e, "entry">>
  /\ \E id \in Drawn(1) : rows' = rows \cup
       {[id |-> id, what |-> <<e, "entry">>, status |-> status, acknowledged |-> FALSE]}
  /\ UNCHANGED <<list, disposal>>
  /\ StillThere

\* set_task_enabled; a node is online from its heartbeat until it registers
\* again or has not been heard of for too long.
Switch(row) ==
  /\ list \in {"nodes", "tasks"}
  /\ rows' = (rows \ {row}) \cup {[row EXCEPT !.status = IF @ = "on" THEN "off" ELSE "on"]}
  /\ UNCHANGED <<list, disposal>>
  /\ StillThere

-----------------------------------------------------------------------------
(* Walking through the list.                                               *)

ARun == {{k} : k \in {x \in Keys : run[x] # "none"}}

OrAny(S) == {{x} : x \in S} \cup {S}

RunFilters ==
  [keys : {{k \in Keys : TaskOf[k] = t} : t \in Tasks} \cup {Keys}, statuses : OrAny(RunStatus \ {"none"})]

FileFilters == [keys : ARun, statuses : {{"kept"}}]

RecordFilters == [keys : ARun, statuses : {{"kept"}}]

ResultFilters == [keys : ARun, statuses : OrAny({"passed", "failed"})]

AlertFilters == [keys : ARun \cup {Keys}, statuses : OrAny(AlertStatus)]

EntryFilters == [keys : {Entries}, statuses : OrAny({"on", "off"})]

Filters ==
  [nodes |-> EntryFilters, sources |-> EntryFilters, rules |-> EntryFilters, tasks |-> EntryFilters,
   runs |-> RunFilters, files |-> FileFilters, records |-> RecordFilters,
   results |-> ResultFilters, alerts |-> AlertFilters]

NoWalk == [state |-> "none", filter |-> [keys |-> {}, statuses |-> {}], limit |-> 1,
           cursor |-> 0, shown |-> <<>>, since |-> {}]

StartWalk(filter, limit) ==
  /\ walk.state # "open"
  /\ walk' = [NoWalk EXCEPT !.state = "open", !.filter = filter, !.limit = limit,
                            !.since = Matching(filter)]
  /\ UNCHANGED <<list, rows, disposal>>

\* add_cursor; a cursor of 0 is none
BelowCursor(ids) == {i \in ids : walk.cursor = 0 \/ i < walk.cursor}

\* What a statement with a limit may return: at most n of the rows, in some order.
UpTo(ids, n) == UNION {[1..m -> ids] : m \in 0..n}

\* Mutant: ORDER BY the id as the text it is selected as.
FetchedByText(ids, n) ==
  LET Text(i) == IF i < 10 THEN 10 * i ELSE i IN
  {seq \in UpTo(ids, n) :
     /\ \A i, j \in DOMAIN seq : i < j => Text(seq[i]) > Text(seq[j])
     /\ \A id \in ids :
          \/ \E i \in DOMAIN seq : seq[i] = id
          \/ Len(seq) = n /\ \A i \in DOMAIN seq : Text(seq[i]) > Text(id)}

\* add_limit: the newest n, newest first, or all when there are not so many.
\* There is one such sequence.
Fetched(ids, n) ==
  {seq \in UpTo(ids, n) :
     /\ \A i, j \in DOMAIN seq : i < j => seq[i] > seq[j]
     /\ \A id \in ids :
          \/ \E i \in DOMAIN seq : seq[i] = id
          \/ Len(seq) = n /\ \A i \in DOMAIN seq : seq[i] > id}

\* One more row is fetched than fits the page: it tells that there is a next
\* page, and the last row that fits is where that begins.
NextPage ==
  /\ walk.state = "open"
  /\ \E fetched \in Fetched(BelowCursor(Matching(walk.filter)), walk.limit + 1) :
       LET more == Len(fetched) > walk.limit
           page == IF more THEN SubSeq(fetched, 1, walk.limit) ELSE fetched
       IN walk' = [walk EXCEPT !.shown = @ \o page,
                               !.state = IF more THEN "open" ELSE "done",
                               !.cursor = IF more THEN page[Len(page)] ELSE @]
  /\ UNCHANGED <<list, rows, disposal>>

-----------------------------------------------------------------------------
(* dispose_alert                                                           *)

NoDisposal == [id |-> 0, seen |-> "", acknowledge |-> FALSE]

\* Mutant: the row is read without FOR UPDATE.
LockAlertNot(o, row, acknowledge) ==
  /\ list = "alerts" /\ disposal[o] = NoDisposal
  /\ disposal' = [disposal EXCEPT ![o] =
                    [id |-> row.id, seen |-> row.status, acknowledge |-> acknowledge]]
  /\ UNCHANGED <<list, rows, walk>>

LockAlert(o, row, acknowledge) ==
  /\ list = "alerts" /\ disposal[o] = NoDisposal
  /\ \A other \in Operators : disposal[other].id # row.id
  /\ disposal' = [disposal EXCEPT ![o] =
                    [id |-> row.id, seen |-> row.status, acknowledge |-> acknowledge]]
  /\ UNCHANGED <<list, rows, walk>>

\* What is closed is not acknowledged any more; what is so already is left as
\* it is; closing leaves the acknowledgement.
Disposed(row, d) ==
  IF d.seen = "closed" \/ (d.acknowledge /\ d.seen = "acknowledged") THEN row
  ELSE IF d.acknowledge THEN [row EXCEPT !.status = "acknowledged", !.acknowledged = TRUE]
  ELSE [row EXCEPT !.status = "closed"]

SaveAlert(o) ==
  /\ disposal[o] # NoDisposal
  /\ UNCHANGED list
  /\ rows' = {IF row.id = disposal[o].id THEN Disposed(row, disposal[o]) ELSE row : row \in rows}
  /\ disposal' = [disposal EXCEPT ![o] = NoDisposal]
  /\ StillThere

\* An exception, or a lost connection: the transaction is rolled back.
RollBackDisposal(o) ==
  /\ disposal[o] # NoDisposal
  /\ disposal' = [disposal EXCEPT ![o] = NoDisposal]
  /\ UNCHANGED <<list, rows, walk>>

-----------------------------------------------------------------------------

ConsoleInit ==
  /\ list \in Lists
  /\ rows = {} /\ walk = NoWalk
  /\ disposal = [o \in Operators |-> NoDisposal]

ConsoleStep ==
  \/ \E filter \in Filters[list], limit \in Limits : StartWalk(filter, limit)
  \/ NextPage
  \/ \E e \in Entries, status \in {"on", "off"} : Enter(e, status)
  \/ \E row \in rows : Switch(row)
  \/ \E o \in Operators :
       \/ \E row \in rows, acknowledge \in BOOLEAN : LockAlert(o, row, acknowledge)
       \/ SaveAlert(o) \/ RollBackDisposal(o)

-----------------------------------------------------------------------------
(* Properties.                                                             *)

\* The pages of a finished walk are in order, newest first, show nothing twice,
\* and miss nothing that was there and matched from the first page to the last,
\* whatever appears, leaves the filter or is disposed of meanwhile.
WalkComplete ==
  walk.state = "done" =>
    /\ \A i, j \in DOMAIN walk.shown : i < j => walk.shown[i] > walk.shown[j]
    /\ \A id \in walk.since : \E i \in DOMAIN walk.shown : walk.shown[i] = id

\* Alerts are for the operators: each failing result that is stored has exactly
\* one, it never disappears, what one operator closed another does not open
\* again, and the acknowledgement of one is kept by the other's closing.
AlertsKept ==
  /\ [](list = "alerts" =>
          /\ {row.what : row \in rows} = AlertsCreated
          /\ \A x, y \in rows : x.what = y.what => x = y)
  /\ [][list = "alerts" =>
          \A row \in rows : \E after \in rows' :
            /\ after.id = row.id /\ after.what = row.what
            /\ row.status = "closed" => after.status = "closed"
            /\ row.status = "acknowledged" => after.status # "open"
            /\ row.acknowledged => after.acknowledged]_rows
=============================================================================
