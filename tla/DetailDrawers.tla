---------------------------- MODULE DetailDrawers ----------------------------
(***************************************************************************)
(* What opens on a row of a list: the drawer of an incident, which can be *)
(* acknowledged or resolved with a note (incident-detail-drawer.tsx), that *)
(* of a request, which can be replayed (request-detail-drawer.tsx), and    *)
(* the view of an A/B test, which can be moved on or deleted, in the place *)
(* of the list (ab-tests/page.tsx).  A drawer forgets the note, or the     *)
(* comparison of a replay, when the user closes it; the page keeps the row *)
(* and whether the drawer is open, and may close or open it too.  While it *)
(* is open no row can be clicked.                                          *)
(*                                                                         *)
(* A behavior is about one of the three.  A note stands for the incident it was *)
(* written for, a comparison for the request that was replayed.  The row   *)
(* is a copy from the list as it was last fetched.  What was asked of the  *)
(* server is done there some time, and answered some time later; other     *)
(* users change incidents and tests too.  MaxOrders bounds what is asked   *)
(* for, by the user and by others.                                         *)
(***************************************************************************)
EXTENDS FormDialogs

CONSTANTS Items, NoItem, MaxOrders

ASSUME DrawerAssumption == NoItem \notin Items

VARIABLES kind,      \* "incident", "request" or "test"
          status,    \* of the incidents or tests, in the database
          listed,    \* and as the page has them
          selected,  \* the row last clicked
          drawerOpen,
          resolveForm, \* the form to resolve an incident is shown
          note, comparison, activeTab,
          orders,    \* what was asked of the server and is not answered
          ordered,
          resolved,  \* history: the note each incident was resolved with
          surprised  \* history: an answer came when the drawer was not as it was left,
                     \* or a copy of a test that may be old was on show

drawervars == <<kind, status, listed, selected, drawerOpen, resolveForm, note, comparison, activeTab,
                orders, ordered, resolved, surprised>>

RowOf(i, s) == [id |-> i, status |-> s]

\* What the controls shown for each status of an A/B test set it to.
Moves ==
  [draft |-> {"running"}, running |-> {"paused", "completed"}, paused |-> {"running", "completed"},
   completed |-> {}, deleted |-> {}]

DrawerInit ==
  /\ kind \in {"incident", "request", "test"}
  /\ status \in [Items -> IF kind = "test" THEN {"draft", "running", "paused", "completed"} ELSE {"open"}]
  /\ listed = status
  /\ selected = RowOf(NoItem, "none") /\ drawerOpen = FALSE
  /\ resolveForm = FALSE /\ note = NoItem /\ comparison = NoItem /\ activeTab = "overview"
  /\ orders = {} /\ ordered = 0
  /\ resolved = [i \in Items |-> NoItem] /\ surprised = FALSE

Facing(k) == kind = k /\ drawerOpen
Viewing(i) == drawerOpen /\ selected.id = i
Ordered(i) == \E o \in orders : o.id = i
Remote    == UNCHANGED <<kind, status, resolved>>
NoOrder   == UNCHANGED <<orders, ordered>>
Drawer    == <<selected, drawerOpen, resolveForm, note, comparison, activeTab>>

HandleRowClick(i) ==
  /\ ~drawerOpen /\ listed[i] # "deleted" /\ drawerOpen' = TRUE
  /\ selected' = RowOf(i, listed[i])
  /\ surprised' = (surprised \/ (kind = "test" /\ listed[i] # status[i]))
  /\ Remote /\ NoOrder
  /\ UNCHANGED <<listed, resolveForm, note, comparison, activeTab>>

Reset == resolveForm' = FALSE /\ note' = NoItem /\ comparison' = NoItem /\ activeTab' = "overview"

\* Mutant: the drawer forgets nothing.
HandleOpenChangeKeeps ==
  /\ drawerOpen /\ drawerOpen' = FALSE
  /\ Remote /\ NoOrder
  /\ UNCHANGED <<listed, selected, resolveForm, note, comparison, activeTab, surprised>>

\* The user closes the drawer.
HandleOpenChange ==
  /\ drawerOpen /\ drawerOpen' = FALSE
  /\ Reset
  /\ Remote /\ NoOrder
  /\ UNCHANGED <<listed, selected, surprised>>

Order(what) ==
  /\ ordered < MaxOrders /\ ordered' = ordered + 1
  /\ orders' = orders \cup {[n |-> ordered + 1, id |-> selected.id, what |-> what, note |-> note,
                            here |-> TRUE, done |-> FALSE]}

\* The server does what o asks: a note that is empty leaves the one before.
\* There is no test that is gone to be updated; deleting it once more succeeds.
Carry(o) ==
  /\ kind # "request" /\ ~o.done /\ (status[o.id] = "deleted" => o.what = "deleted")
  /\ orders' = (orders \ {o}) \cup {[o EXCEPT !.done = TRUE]}
  /\ status' = [status EXCEPT ![o.id] = o.what]
  /\ resolved' = IF o.what = "resolved" /\ o.note # NoItem THEN [resolved EXCEPT ![o.id] = o.note] ELSE resolved
  /\ UNCHANGED <<kind, listed, Drawer, ordered, surprised>>

\* Somebody else updates it, or deletes a test: the page is not told.
OtherUpdates(i, what) ==
  /\ what \in IF kind = "test" THEN {"draft", "running", "paused", "completed", "deleted"}
               ELSE {"acknowledged", "resolved"}
  /\ kind # "request" /\ status[i] # "deleted"
  /\ ordered < MaxOrders /\ ordered' = ordered + 1
  /\ status' = [status EXCEPT ![i] = what]
  /\ surprised' = (surprised \/ (kind = "test" /\ (Viewing(i) \/ Ordered(i))))
  /\ UNCHANGED <<kind, listed, Drawer, orders, resolved>>

-----------------------------------------------------------------------------
(* The incident.                                                           *)

ShowResolveForm ==
  /\ Facing("incident") /\ selected.status \in {"open", "acknowledged"} /\ ~resolveForm
  /\ resolveForm' = TRUE
  /\ Remote /\ NoOrder
  /\ UNCHANGED <<listed, selected, drawerOpen, note, comparison, activeTab, surprised>>

WriteNote ==
  /\ Facing("incident") /\ resolveForm
  /\ note' = selected.id
  /\ Remote /\ NoOrder
  /\ UNCHANGED <<listed, selected, drawerOpen, resolveForm, comparison, activeTab, surprised>>

CancelForm ==
  /\ Facing("incident") /\ resolveForm
  /\ resolveForm' = FALSE /\ note' = NoItem
  /\ Remote /\ NoOrder
  /\ UNCHANGED <<listed, selected, drawerOpen, comparison, activeTab, surprised>>

HandleAcknowledge ==
  /\ Facing("incident") /\ selected.status = "open"
  /\ Order("acknowledged")
  /\ Remote
  /\ UNCHANGED <<listed, selected, drawerOpen, resolveForm, note, comparison, activeTab, surprised>>

HandleResolve ==
  /\ Facing("incident") /\ resolveForm
  /\ Order("resolved")
  /\ resolveForm' = FALSE /\ note' = NoItem
  /\ Remote
  /\ UNCHANGED <<listed, selected, drawerOpen, comparison, activeTab, surprised>>

\* The incident was updated, and the page closes the drawer: whatever it shows by now.
IncidentUpdated(o) ==
  /\ kind = "incident" /\ o.done
  /\ orders' = orders \ {o}
  /\ drawerOpen' = (drawerOpen /\ ~o.here)
  /\ surprised' = (surprised \/ (o.here /\ resolveForm))
  /\ Remote
  /\ UNCHANGED <<listed, selected, resolveForm, note, comparison, activeTab, ordered>>

\* The list is read once more.  One that arrives late is, until then, a list not
\* fetched: what the page has may be older than what there is, and no more.
Refetched ==
  /\ kind # "request" /\ listed' = status
  /\ Remote /\ NoOrder
  /\ UNCHANGED <<Drawer, surprised>>

-----------------------------------------------------------------------------
(* The request.                                                            *)

HandleReplay ==
  /\ Facing("request")
  /\ Order("replay")
  /\ Remote
  /\ UNCHANGED <<listed, selected, drawerOpen, resolveForm, note, comparison, activeTab, surprised>>

\* Closing the drawer does not stop a replay, nor what its answer does.
HandleReplayComplete(o) ==
  /\ o.what = "replay"
  /\ orders' = orders \ {o}
  /\ IF o.here THEN comparison' = o.id /\ activeTab' = "replay"
     ELSE UNCHANGED <<comparison, activeTab>>
  /\ surprised' = (surprised \/ (o.here /\ ~(drawerOpen /\ selected.id = o.id)))
  /\ Remote
  /\ UNCHANGED <<listed, selected, drawerOpen, resolveForm, note, ordered>>

SetActiveTab(t) ==
  /\ Facing("request") /\ (t = "replay" => comparison # NoItem)
  /\ activeTab' = t
  /\ Remote /\ NoOrder
  /\ UNCHANGED <<listed, selected, drawerOpen, resolveForm, note, comparison, surprised>>

-----------------------------------------------------------------------------
(* The A/B test.                                                           *)

\* A control of the view: they are shown by the status of the copy, and not
\* disabled while an answer is waited for.
OrderTest(what) ==
  /\ Facing("test") /\ what \in Moves[selected.status] \cup {"deleted"}
  /\ Order(what)
  /\ surprised' = (surprised \/ Ordered(selected.id))
  /\ Remote
  /\ UNCHANGED <<listed, selected, drawerOpen, resolveForm, note, comparison, activeTab>>

\* The page shows the answer, or the list, whatever it shows by now.
TestAnswered(o) ==
  IF o.here THEN selected' = RowOf(o.id, o.what) /\ drawerOpen' = (o.what # "deleted")
  ELSE UNCHANGED <<selected, drawerOpen>>

TestUpdated(o) ==
  /\ kind = "test" /\ o.done
  /\ orders' = orders \ {o}
  /\ TestAnswered(o)
  /\ surprised' = (surprised \/ (Viewing(o.id) /\ ~o.here))
  /\ Remote
  /\ UNCHANGED <<listed, resolveForm, note, comparison, activeTab, ordered>>

-----------------------------------------------------------------------------
\* A message, and nothing else: it was not done, or it was and the answer is lost.
OrderFails(o) ==
  /\ orders' = orders \ {o}
  /\ surprised' = (surprised \/ (kind = "test" /\ o.done /\ Viewing(o.id)))
  /\ Remote
  /\ UNCHANGED <<listed, Drawer, ordered>>

\* Another page is mounted; what was asked for goes on.
LeaveList ==
  /\ selected' = RowOf(NoItem, "none") /\ drawerOpen' = FALSE
  /\ Reset
  /\ orders' = {[o EXCEPT !.here = FALSE] : o \in orders}
  /\ Remote
  /\ UNCHANGED <<listed, ordered, surprised>>

DrawerNext ==
  \/ \E i \in Items : HandleRowClick(i)
  \/ HandleOpenChange \/ LeaveList
  \/ ShowResolveForm \/ WriteNote \/ CancelForm \/ HandleAcknowledge \/ HandleResolve \/ Refetched
  \/ HandleReplay \/ \E t \in {"overview", "replay"} : SetActiveTab(t)
  \/ \E what \in {"running", "paused", "completed", "deleted"} : OrderTest(what)
  \/ \E i \in Items, what \in {"acknowledged", "resolved", "draft", "running", "paused", "completed", "deleted"} :
       OtherUpdates(i, what)
  \/ \E o \in orders : Carry(o) \/ IncidentUpdated(o) \/ HandleReplayComplete(o) \/ TestUpdated(o)
                       \/ OrderFails(o)

DrawerSpec == DrawerInit /\ [][DrawerNext]_drawervars

-----------------------------------------------------------------------------
(***************************************************************************)
(* A drawer shows, and sends, only what belongs to its row: an incident is *)
(* resolved with a note written for it, and a comparison is of the request *)
(* on show -- unless the page closed the drawer over a form, or a replay   *)
(* was answered when its request was no longer on show.                    *)
(***************************************************************************)
RowsTrue ==
  /\ ~surprised =>
       /\ \A i \in Items : resolved[i] \in {NoItem, i}
       /\ comparison \in {NoItem, selected.id}
       /\ ~drawerOpen => note = NoItem /\ comparison = NoItem
  /\ activeTab = "replay" => comparison # NoItem

(***************************************************************************)
(* An A/B test is shown as it is, but for what the user himself has asked  *)
(* of it and the server has done and not yet answered; the answer to come  *)
(* says what the test is; and it is told only what its status allows, so   *)
(* that one completed is not started again -- unless a row was clicked     *)
(* that the page had not fetched again, two things were asked of one test  *)
(* at once, somebody else changed the test that was on show or asked for,  *)
(* an answer was lost, or one came to a page that was left.                *)
(***************************************************************************)
TestsTrue ==
  kind = "test" /\ ~surprised =>
    /\ drawerOpen => \/ selected.status = status[selected.id]
                     \/ \E o \in orders : o.done /\ o.id = selected.id
    /\ \A o \in orders :
         IF o.done THEN o.what = status[o.id] ELSE o.what \in Moves[status[o.id]] \cup {"deleted"}

(***************************************************************************)
(* What the user enters in a dialog or a drawer is carried out once, and   *)
(* for what it was entered for.                                            *)
(***************************************************************************)
EnteredAndDone == MadeOnce /\ RowsTrue /\ TestsTrue
=============================================================================
