------------------------------- MODULE Lists -------------------------------
(***************************************************************************)
(* The lists of the terminal interface (internal/ui, internal/ui/table):   *)
(* which view is shown, what its table holds, which row the cursor is on,  *)
(* which rows are marked, and what an action is run on.                    *)
(*                                                                         *)
(* A list is fetched by a goroutine that keeps the connection, the view    *)
(* and the scope it was started with; its answer tells nothing of them, so *)
(* that it may arrive when the user is in another view, scope or host.     *)
(* The event loop handles one message or key at a time: one action each.   *)
(* A key whose command only posts a message is taken together with the     *)
(* handler of that message.  Of a row only its object and the number of    *)
(* its cells are kept.                                                     *)
(***************************************************************************)
EXTENDS Integers, FiniteSets, Sequences, SequencesExt

CONSTANTS Hosts,        \* the saved hosts
          Things,       \* objects: [view, host, name, project, rank]
          FirstHost,    \* the host of the first connection
          None,         \* no host, no project, no object
          Changing,     \* bound: the objects other clients change
          FirstViews,   \* the views the session is taken up in
          MaxCalls,     \* bound: list fetches under way; two of the same
                        \* state are one, as their answers are
          MaxKeys,      \* bound: keys and commands of the user
          MaxChanges    \* bound: changes by other clients, and failures

Views == {"containers", "images", "networks", "volumes", "hosts", "compose"}

Projects == {t.name : t \in {u \in Things : u.view = "compose"}}

ASSUME ThingsAssumption ==
  /\ FirstHost \in Hosts /\ None \notin Hosts \union Projects \union Things
  /\ IsFiniteSet(Things) /\ FirstViews \subseteq Views
  /\ \A t \in Things : t.view \in Views /\ t.host \in Hosts /\ t.rank \in Nat
  /\ {MaxCalls, MaxKeys, MaxChanges} \subseteq Nat

VARIABLES
  world,          \* what the daemons hold: "up", "down" or "gone"
  backend,        \* Model.backend, as the host it is connected to
  conn,           \* the number of the connection
  reconnecting,   \* Model.reconnecting
  dialing,        \* the host a connect is under way to
  resource, statsView, showAll, composeFilter, composeReselect, paused,
  selected,       \* Model.selected: what is marked
  lists,          \* Model.containers, images, ...: the last answer per view
  running,        \* the listed containers that were running
  columns,        \* the number of columns of the table
  rows,           \* table.Model.rows: the object and layout of each
  cursor,         \* the cursor of the table; -1 on an empty list
  calls,          \* the list fetches under way
  stats,          \* the keys of Model.stats
  statsInFlight,  \* Model.statsInFlight
  batches,        \* stats batches under way: [n, of], each its own n
  act,            \* the bulk action under way, or None
  keys, changes   \* how many keys were pressed, and things changed, so far

netVars  == <<backend, conn, reconnecting, dialing>>
viewVars == <<resource, statsView, showAll, composeFilter, composeReselect,
              paused, selected>>
answerVars == <<lists, running>>
rowVars  == <<columns, rows, cursor>>
statVars == <<stats, statsInFlight, batches>>
listsVars == <<world, netVars, viewVars, answerVars, rowVars, calls, statVars,
               act, keys, changes>>
-----------------------------------------------------------------------------
(* What the daemons answer. *)

\* The objects a fetch lists: the saved hosts, or what the daemon of host h
\* has.  The scope of a drill-down narrows containers to a project, and
\* showAll adds those not running.
Listed(v, h, scope, all) ==
  {t \in Things :
     /\ t.view = v
     /\ v # "hosts" => t.host = h /\ world[t] # "gone"
     /\ v = "containers" /\ scope # None => t.project = scope
     /\ v = "containers" /\ scope = None /\ ~all => world[t] = "up"}

\* Mutant: rows in the order of the answer.
OrdersAny(S) == SetToSeqs(S)

\* Rows are sorted by name; those of one name keep the order of the answer.
Orders(S) == {s \in SetToSeqs(S) :
                \A i, j \in DOMAIN s : i < j => s[i].rank <= s[j].rank}

\* Mutant: the fetch forgets showAll.
FetchRunning ==
  /\ calls' = calls \union
       {[view |-> resource', host |-> backend', scope |-> composeFilter',
         all |-> FALSE, read |-> FALSE, list |-> <<>>, up |-> {}]}
  /\ Cardinality(calls') <= MaxCalls

\* fetchCurrentResource of the model a step leaves: the fetch keeps its
\* backend, view and scope.
FetchCurrent ==
  /\ calls' = calls \union
       {[view |-> resource', host |-> backend', scope |-> composeFilter',
         all |-> showAll', read |-> FALSE, list |-> <<>>, up |-> {}]}
  /\ Cardinality(calls') <= MaxCalls
-----------------------------------------------------------------------------
(* The table. *)

ColumnCount(v, wide) ==
  CASE v = "containers" -> IF wide THEN 7 ELSE 8
    [] v \in {"images", "volumes"} -> 4
    [] v \in {"networks", "compose"} -> 5
    [] v = "hosts" -> 7

\* The cell that identifies a row of view v: the first, the third or the last.
IdentityCell(v) == CASE v \in {"hosts", "volumes"} -> "first"
                     [] v = "compose" -> "third"
                     [] OTHER -> "last"

\* Mutant: the last cell is read in the volumes view.
ReadCellLast(v) == CASE v = "hosts" -> "first"
                     [] v = "compose" -> "third"
                     [] OTHER -> "last"

\* The cell selectedID takes for the identity while view v is shown.
ReadCell(v) == CASE v \in {"hosts", "volumes"} -> "first"
                 [] v = "compose" -> "third"
                 [] OTHER -> "last"

\* selectedID: what is under the cursor, if anything.  A cell that is not the
\* identity of its row (a tag, a date, a driver) names no object.
SelectedID ==
  IF cursor + 1 \notin DOMAIN rows THEN {}
  ELSE LET r == rows[cursor + 1]
       IN  IF ReadCell(resource) = IdentityCell(r.thing.view)
           THEN {r.thing} ELSE {None}

ClampCursor(c, n) == IF c >= n THEN n - 1
                     ELSE IF c < 0 /\ n > 0 THEN 0 ELSE c

RowsOf(list, wide) ==
  [i \in DOMAIN list |->
     [thing |-> list[i], cells |-> ColumnCount(list[i].view, wide)]]

\* setRows with the rows of a list.
SetRows(list) ==
  /\ rows' = RowsOf(list, statsView')
  /\ cursor' = ClampCursor(cursor, Len(list))

\* Mutant: the rows are never dropped.
KeptRowsAlways(v, wide) == rows

\* relayout: SetColumns drops the rows only when the number of columns changes.
KeptRows(v, wide) == IF ColumnCount(v, wide) = columns THEN rows ELSE <<>>
Relayout ==
  /\ columns' = ColumnCount(resource', statsView')
  /\ rows' = KeptRows(resource', statsView')
  /\ UNCHANGED cursor

\* refreshTableRows: the rows of the view from the list kept for it.
RefreshRows == SetRows(lists[resource]) /\ UNCHANGED columns
-----------------------------------------------------------------------------
\* The program starts in the containers view; a session taken up in another
\* one is the same but for the keys that led there.
ListsInit ==
  /\ world \in [Things -> {"up"}]
  /\ backend = FirstHost /\ conn = 1 /\ reconnecting = FALSE /\ dialing = None
  /\ resource \in FirstViews /\ statsView = FALSE /\ showAll = FALSE
  /\ composeFilter = None /\ composeReselect = None /\ paused = FALSE
  /\ selected = {}
  /\ lists = [v \in Views |-> <<>>] /\ running = {}
  /\ columns = ColumnCount(resource, FALSE) /\ rows = <<>> /\ cursor = 0
  /\ calls = {}
  /\ stats = {} /\ statsInFlight = FALSE /\ batches = {}
  /\ act = None /\ keys = 0 /\ changes = 0
-----------------------------------------------------------------------------
(* Fetches and their answers. *)

\* tickMsg: a refresh of the current view, unless paused or reconnecting.
Tick ==
  /\ ~reconnecting /\ ~paused
  /\ UNCHANGED <<world, netVars, viewVars, answerVars, rowVars, statVars, act,
                 keys, changes>>
  /\ FetchCurrent

\* The daemon answers a fetch with what it has now.
Answer(c) ==
  /\ ~c.read
  /\ LET S == Listed(c.view, c.host, c.scope, c.all)
         up == {t \in S : t.view = "containers" /\ world[t] = "up"}
     IN  \E list \in Orders(S) :
           calls' = (calls \ {c}) \union
             {[c EXCEPT !.read = TRUE, !.list = list, !.up = up]}
  /\ UNCHANGED <<world, netVars, viewVars, answerVars, rowVars, statVars, act,
                 keys, changes>>

\* A number no batch under way has.
Unused == CHOOSE n \in 1..(conn + 1) : \A b \in batches : b.n # n

\* Mutant: a batch is started though one is under way.
StartBatchAlways(up) ==
  IF resource = "containers" /\ up # {}
  THEN /\ statsInFlight' = TRUE
       /\ batches' = batches \union {[n |-> Unused, of |-> up]}
  ELSE UNCHANGED <<statsInFlight, batches>>

\* fetchStats: one batch for the running containers, if there are any.
StartBatch(up) ==
  IF resource = "containers" /\ ~statsInFlight /\ up # {}
  THEN /\ statsInFlight' = TRUE
       /\ batches' = batches \union {[n |-> Unused, of |-> up]}
  ELSE UNCHANGED <<statsInFlight, batches>>

IndexIn(list, project) ==
  {i \in DOMAIN list : list[i].name = project}

\* composeUpdatedMsg after a drill-down: back to the row it was opened from.
Reselect(list) ==
  IF resource = "compose" /\ composeReselect # None
  THEN /\ composeReselect' = None
       /\ cursor' = IF IndexIn(list, composeReselect) = {}
                    THEN ClampCursor(cursor, Len(list))
                    ELSE (CHOOSE i \in IndexIn(list, composeReselect) : TRUE) - 1
  ELSE /\ cursor' = ClampCursor(cursor, Len(list)) /\ UNCHANGED composeReselect

\* containersUpdatedMsg, imagesUpdatedMsg, ...: the list is kept whatever it was
\* fetched for, and shown if its view is.
Deliver(c) ==
  /\ c.read
  /\ lists' = [lists EXCEPT ![c.view] = c.list]
  /\ running' = IF c.view = "containers" THEN c.up ELSE running
  /\ IF resource # c.view
     THEN UNCHANGED <<rows, cursor, composeReselect, statsInFlight, batches>>
     ELSE /\ rows' = RowsOf(c.list, statsView)
          /\ Reselect(c.list)
          /\ StartBatch(c.up)
  /\ calls' = calls \ {c}
  /\ UNCHANGED <<world, netVars, resource, statsView, showAll, composeFilter,
                 paused, selected, columns, stats, act, keys, changes>>

\* statsUpdatedMsg: mergeStats keeps the last figures of a running container
\* the batch has none for, and drops those of containers no longer listed.
StatsUpdated(b) ==
  /\ \E fresh \in SUBSET b.of :
       LET listed == ToSet(lists["containers"])
       IN  stats' = (listed \intersect fresh) \union (running \intersect stats)
  /\ statsInFlight' = FALSE /\ batches' = batches \ {b}
  /\ UNCHANGED <<world, netVars, viewVars, answerVars, calls, act, keys, changes>>
  /\ IF resource = "containers" THEN RefreshRows ELSE UNCHANGED rowVars

\* errMsg: a failed fetch; a lost connection starts the reconnecting.
CallFails(c) ==
  /\ changes < MaxChanges /\ changes' = changes + 1
  /\ calls' = calls \ {c}
  /\ \/ UNCHANGED reconnecting
     \/ reconnecting' = TRUE
  /\ UNCHANGED <<world, backend, conn, dialing, viewVars, answerVars, rowVars,
                 statVars, act, keys>>

\* reconnectResultMsg: a new connection to the host of the configuration.
ReconnectResult ==
  /\ reconnecting
  /\ conn' = conn + 1 /\ reconnecting' = FALSE
  /\ statsInFlight' = FALSE
  /\ UNCHANGED <<world, backend, dialing, viewVars, answerVars, rowVars, stats,
                 batches, act, keys, changes>>
  /\ FetchCurrent

\* connectResultMsg: the new host is shown in the containers view.  Marks, the
\* scope of a drill-down and the lists of the old host are left as they are.
ConnectResult ==
  /\ dialing # None
  /\ backend' = dialing /\ dialing' = None /\ conn' = conn + 1
  /\ reconnecting' = FALSE
  /\ stats' = {} /\ statsInFlight' = FALSE
  /\ resource' = "containers"
  /\ UNCHANGED <<statsView, showAll, composeFilter, composeReselect, paused,
                 selected>>
  /\ Relayout
  /\ FetchCurrent
  /\ UNCHANGED <<world, answerVars, batches, act, keys, changes>>
-----------------------------------------------------------------------------
(* Keys and commands. *)

Key == keys < MaxKeys /\ keys' = keys + 1

\* What a key leaves alone when it only changes what is shown.
KeyFrame == UNCHANGED <<world, netVars, answerVars, statVars, act, changes>>

\* Mutant: the marks are kept.
ShowViewMarked(v, reselect) ==
  /\ resource' = v /\ composeFilter' = None /\ UNCHANGED selected
  /\ composeReselect' = reselect
  /\ UNCHANGED <<statsView, showAll, paused>>
  /\ Relayout /\ KeyFrame /\ FetchCurrent

\* switchResourceMsg.
ShowView(v, reselect) ==
  /\ resource' = v /\ composeFilter' = None /\ selected' = {}
  /\ composeReselect' = reselect
  /\ UNCHANGED <<statsView, showAll, paused>>
  /\ Relayout /\ KeyFrame /\ FetchCurrent

SwitchView(v) == Key /\ ShowView(v, composeReselect)

\* Enter on a compose project: showComposeContainersMsg.
DrillDown ==
  /\ Key /\ resource = "compose"
  /\ \E t \in SelectedID \ {None} : composeFilter' = t.name
  /\ resource' = "containers" /\ selected' = {}
  /\ UNCHANGED <<statsView, showAll, composeReselect, paused>>
  /\ Relayout /\ KeyFrame /\ FetchCurrent

\* Esc first drops the marks, then leaves a drill-down, and otherwise only
\* applies the lists again.
EscMarks ==
  /\ Key /\ selected # {}
  /\ selected' = {}
  /\ UNCHANGED <<resource, statsView, showAll, composeFilter, composeReselect,
                 paused, calls>>
  /\ RefreshRows /\ KeyFrame
EscDrillDown ==
  /\ Key /\ selected = {} /\ composeFilter # None
  /\ ShowView("compose", composeFilter)
EscRefresh ==
  /\ Key /\ selected = {} /\ composeFilter = None
  /\ UNCHANGED <<viewVars, calls>>
  /\ RefreshRows /\ KeyFrame

\* Space marks the row under the cursor, or takes its mark away.
Mark ==
  /\ Key /\ resource \in {"containers", "images"}
  /\ \E t \in SelectedID :
       selected' = IF t \in selected THEN selected \ {t} ELSE selected \union {t}
  /\ UNCHANGED <<resource, statsView, showAll, composeFilter, composeReselect,
                 paused, calls>>
  /\ RefreshRows /\ KeyFrame

MoveCursor ==
  /\ Key /\ \E c \in 0..(Len(rows) - 1) : cursor' = c
  /\ UNCHANGED <<viewVars, columns, rows, calls>> /\ KeyFrame

ToggleStats ==
  /\ Key /\ resource = "containers"
  /\ statsView' = ~statsView
  /\ UNCHANGED <<resource, showAll, composeFilter, composeReselect, paused,
                 selected, calls>>
  /\ columns' = ColumnCount(resource, statsView')
  /\ SetRows(lists["containers"]) /\ KeyFrame

ToggleAll ==
  /\ Key /\ resource = "containers"
  /\ showAll' = ~showAll
  /\ UNCHANGED <<resource, statsView, composeFilter, composeReselect, paused,
                 selected, rowVars>>
  /\ KeyFrame /\ FetchCurrent

\* p, :interval: a refresh comes with the resuming only.
Pause ==
  /\ Key /\ paused' = ~paused
  /\ UNCHANGED <<resource, statsView, showAll, composeFilter, composeReselect,
                 selected, rowVars>>
  /\ KeyFrame
  /\ IF paused THEN FetchCurrent ELSE UNCHANGED calls

Refresh ==
  /\ Key /\ UNCHANGED <<viewVars, rowVars>> /\ KeyFrame /\ FetchCurrent

\* Enter on a saved host; the progress window may be dismissed, the dialing
\* goes on.
Connect ==
  /\ Key /\ resource = "hosts" /\ dialing = None
  /\ \E t \in SelectedID \ {None} : dialing' = t.host
  /\ UNCHANGED <<world, backend, conn, reconnecting, viewVars, answerVars, rowVars,
                 calls, statVars, act, changes>>
-----------------------------------------------------------------------------
(* Actions on objects. *)

\* targetContainerIDs, targetImageRefs: the marks, or what is under the cursor.
\* The other views act on the row under the cursor.
Targets == IF resource \in {"containers", "images"} /\ selected # {}
           THEN selected ELSE SelectedID

\* A command on objects; it keeps its targets and the backend.
StartAction ==
  /\ Key /\ act = None /\ resource # "hosts" /\ Targets # {}
  /\ act' = [view |-> resource, host |-> backend, of |-> Targets,
             ran |-> FALSE, gone |-> {}, failed |-> FALSE]
  /\ UNCHANGED <<world, netVars, viewVars, answerVars, rowVars, calls, statVars,
                 changes>>

\* bulkAction: the daemon it was started on has the object, or has not; an
\* object that is there is stopped or removed, or the call fails.
Found(a) == {t \in a.of \ {None} : /\ t.view = a.view /\ t.host = a.host
                                   /\ world[t] # "gone"}
RunAction ==
  /\ act # None /\ ~act.ran
  /\ \E done \in SUBSET Found(act), to \in {"down", "gone"} :
       /\ world' = [t \in Things |->
                      IF t \notin done THEN world[t]
                      ELSE IF act.view = "containers" THEN to ELSE "gone"]
       /\ act' = [act EXCEPT !.ran = TRUE, !.gone = act.of \ Found(act),
                             !.failed = (done # Found(act))]
  /\ UNCHANGED <<netVars, viewVars, answerVars, rowVars, calls, statVars, keys,
                 changes>>

\* actionResultMsg: targets gone already leave the marks, a success consumes
\* all marks, and either refreshes; a failure alone is shown and no more.
Unmarked == IF ~act.failed THEN {} ELSE selected \ act.gone
ActionResult ==
  /\ act # None /\ act.ran
  /\ act' = None
  /\ UNCHANGED <<world, netVars, resource, statsView, showAll, composeFilter,
                 composeReselect, paused, answerVars, rowVars, statVars, keys,
                 changes>>
  /\ IF act.failed /\ act.gone = {}
     THEN UNCHANGED <<selected, calls>>
     ELSE selected' = Unmarked /\ FetchCurrent

\* Another client of the daemon removes an object, or makes it again.
OtherClient ==
  /\ changes < MaxChanges /\ changes' = changes + 1
  /\ \E t \in Changing :
       world' = [world EXCEPT ![t] = IF @ = "gone" THEN "up" ELSE "gone"]
  /\ UNCHANGED <<netVars, viewVars, answerVars, rowVars, calls, statVars, act, keys>>
-----------------------------------------------------------------------------
User ==
  \/ \E v \in Views : SwitchView(v)
  \/ DrillDown \/ EscMarks \/ EscDrillDown \/ EscRefresh
  \/ Mark \/ MoveCursor \/ ToggleStats \/ ToggleAll \/ Pause \/ Refresh
  \/ Connect \/ StartAction

ListsNext ==
  \/ Tick \/ ReconnectResult \/ ConnectResult \/ User
  \/ \E c \in calls : Answer(c) \/ Deliver(c) \/ CallFails(c)
  \/ \E b \in batches : StatsUpdated(b)
  \/ RunAction \/ ActionResult \/ OtherClient

\* The heartbeat ticks for as long as the program runs, and every call that was
\* started comes to an end.
ListsSpec ==
  /\ ListsInit /\ [][ListsNext]_listsVars
  /\ WF_listsVars(Tick) /\ WF_listsVars(ReconnectResult) /\ WF_listsVars(ConnectResult)
  /\ WF_listsVars(RunAction) /\ WF_listsVars(ActionResult)
  /\ WF_listsVars(\E c \in calls : Answer(c)) /\ WF_listsVars(\E c \in calls : Deliver(c))
-----------------------------------------------------------------------------
ListsTypeOK ==
  /\ world \in [Things -> {"up", "down", "gone"}]
  /\ backend \in Hosts /\ dialing \in Hosts \union {None}
  /\ conn \in Nat \ {0}
  /\ reconnecting \in BOOLEAN /\ statsView \in BOOLEAN /\ showAll \in BOOLEAN
  /\ paused \in BOOLEAN /\ statsInFlight \in BOOLEAN
  /\ resource \in Views
  /\ {composeFilter, composeReselect} \subseteq Projects \union {None}
  /\ selected \subseteq Things \union {None}
  /\ \A v \in Views : lists[v] \in Seq({t \in Things : t.view = v})
  /\ running \union stats \subseteq {t \in Things : t.view = "containers"}
  /\ columns \in Nat /\ cursor \in Int
  /\ \A i \in DOMAIN rows : rows[i].thing \in Things
  /\ calls \subseteq
       [view : Views, host : Hosts, scope : Projects \union {None},
        all : BOOLEAN, read : BOOLEAN, list : Seq(Things), up : SUBSET Things]
  /\ keys \in 0..MaxKeys /\ changes \in 0..MaxChanges

\* Every row has a cell for each column: a row of another layout would make
\* the table index past its columns (applyColumns), and the cursor is on a row
\* whenever there is one, so that the list does not look empty (setRows).
TableFits == /\ \A i \in DOMAIN rows : rows[i].cells = columns
             /\ rows # <<>> => cursor + 1 \in DOMAIN rows

\* Rows of the last view stay under the new one until its list arrives when
\* both have as many columns; still a key pressed meanwhile finds no object of
\* the wrong kind under the cursor (selectedID).
CursorNamesOfView == \A t \in SelectedID \ {None} : t.view = resource

\* The guard on stats batches is given up with each connection, so that more
\* than one batch may be under way, but never more than there were connections.
BatchesBounded == Cardinality(batches) + (IF statsInFlight THEN 0 ELSE 1) <= conn

\* Marks are of the view they are shown in (Model.selected).
MarksOfView == \A t \in selected \ {None} : t.view = resource

\* Marks come to be of another view than the one shown by a switch of hosts
\* only: whatever else leaves a view takes them away first.
MarksStayInView == [][MarksOfView /\ conn' = conn => MarksOfView']_listsVars

Shown == {rows[i].thing : i \in DOMAIN rows}
NamesDiffer ==
  \A i, j \in DOMAIN rows : rows[i].thing.rank = rows[j].thing.rank => i = j

\* A refresh that brings the same rows leaves the cursor on its object, when
\* the names differ.  (sortByName)
KeepsPlace ==
  [][(/\ keys' = keys /\ resource' = resource
      /\ composeReselect' = composeReselect
      /\ Shown' = Shown /\ NamesDiffer) => SelectedID' = SelectedID]_listsVars

\* The table's state, in one: rows that fit the columns, a cursor that names no
\* object of another view, and batches of statistics that do not pile up.
ListsRight == ListsTypeOK /\ TableFits /\ CursorNamesOfView /\ BatchesBounded

\* What the user has pointed at stays pointed at, whatever answers come: marks
\* do not end up in another view, the cursor does not slide to another object.
PointedStays == MarksStayInView /\ KeepsPlace

\* The same, for any names: "the result stays steady" (sortByName).
AlwaysKeepsPlace ==
  [][(/\ keys' = keys /\ resource' = resource
      /\ composeReselect' = composeReselect
      /\ Shown' = Shown) => SelectedID' = SelectedID]_listsVars

Current == Shown = Listed(resource, backend, composeFilter, showAll)

\* Late answers of another view, scope or host do not stay: once the user and
\* the daemon are quiet, the table comes to hold what the daemon has for the
\* view shown, unless the refresh is paused.
RowsCatchUp == <>[](paused \/ reconnecting \/ Current)
=============================================================================
