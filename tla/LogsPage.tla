------------------------------ MODULE LogsPage ------------------------------
(***************************************************************************)
(* The live logs (app/(dashboard)/logs/page.tsx).  An effect opens a       *)
(* stream of server-sent events and its cleanup closes the one in          *)
(* eventSourceRef.  A stream that fails is closed and, five seconds later, *)
(* connected again by the connectSSE of the render that had opened it,     *)
(* whatever has become of the page; the timer is never cleared.            *)
(*                                                                         *)
(* A stream is its number and the filter it was opened with.  A request is *)
(* its number in the order of the stamps; the server sends those a stream  *)
(* asks for, and may send one again or out of order, when its polls        *)
(* overlap or the first cursor of a stream lies back (module LogStream).   *)
(* MaxStreams, MaxArrivals and MaxRequests are bounds.                     *)
(***************************************************************************)
EXTENDS Sequences, Integers, FiniteSets

CONSTANTS Statuses,    \* that a request may have
          StatusOf,    \* the status of each request
          MaxStreams, MaxArrivals, MaxRequests,
          MaxEntries   \* MAX_ENTRIES, 200 in the code

Requests == 1 .. MaxRequests

ASSUME LogsAssumption ==
  /\ MaxStreams \in Nat \ {0} /\ MaxEntries \in Nat /\ MaxRequests \in Nat
  /\ StatusOf \in [Requests -> Statuses]

VARIABLES live,         \* isStreaming
          statusFilter,
          mounted,
          sources,      \* the event sources that are open
          ref,       \* eventSourceRef: the number of a stream, 0 for null
          timers,    \* the filters of connectSSEs that wait to be called again
          connects,
          due,       \* per stream, the requests sent on it and not handled
          entries,   \* newest first
          arrived,   \* how many were sent
          last,      \* history: the newest one sent since the list was emptied
          repeated,  \* history: an older one, or the same again, was sent since
          strayed    \* history: the effect was torn down while a timer ran

sending == <<arrived, last, repeated>>
logvars == <<live, statusFilter, mounted, sources, ref, timers, connects, due, entries, sending, strayed>>

Streams == 1 .. MaxStreams
StatusFilters == {"all"} \cup Statuses

LogsInit ==
  /\ live = TRUE /\ statusFilter \in StatusFilters /\ mounted = TRUE
  /\ sources = {[n |-> 1, filter |-> statusFilter]} /\ ref = 1 /\ connects = 1 /\ timers = <<>>
  /\ due = [n \in Streams |-> <<>>] /\ entries = <<>>
  /\ arrived = 0 /\ last = 0 /\ repeated = FALSE
  /\ strayed = FALSE

\* connectSSE, of a render with the statusFilter f; keep are the streams left open.
Connect(f, keep) ==
  /\ connects < MaxStreams
  /\ connects' = connects + 1 /\ ref' = connects + 1
  /\ sources' = keep \cup {[n |-> connects + 1, filter |-> f]}

\* Mutant: an error does not close the stream.
OnStreamErrorOpen(s) ==
  /\ timers' = Append(timers, s.filter)
  /\ UNCHANGED <<live, statusFilter, mounted, sources, ref, connects, due, entries, sending, strayed>>

\* onerror: isStreaming was true in the render of every connectSSE.
OnStreamError(s) ==
  /\ sources' = sources \ {s}
  /\ timers' = Append(timers, s.filter)
  /\ UNCHANGED <<live, statusFilter, mounted, ref, connects, due, entries, sending, strayed>>

\* The five seconds are over.
Reconnect ==
  /\ timers # <<>> /\ timers' = Tail(timers)
  /\ Connect(timers[1], sources)
  /\ UNCHANGED <<live, statusFilter, mounted, due, entries, sending, strayed>>

\* What the cleanup of the effect closes.
Closed == {s \in sources : s.n = ref}
Disconnect == sources' = sources \ Closed /\ ref' = 0 /\ UNCHANGED connects
TornDown == strayed' = (strayed \/ timers # <<>>)

\* toggleStreaming, and cleanup and effect of its render: what a timer has opened
\* on a page that is paused is closed, too.
ToggleStreaming ==
  /\ mounted
  /\ live' = ~live
  /\ TornDown
  /\ IF live THEN Disconnect ELSE Connect(statusFilter, sources \ Closed)
  /\ UNCHANGED <<statusFilter, mounted, timers, due, entries, sending>>

\* Another filter: cleanup and effect, and the entries are cleared.
SetFilter(f) ==
  /\ mounted /\ f # statusFilter
  /\ statusFilter' = f /\ entries' = <<>> /\ last' = 0 /\ repeated' = FALSE
  /\ TornDown
  /\ IF live THEN Connect(f, sources \ Closed) ELSE Disconnect
  /\ UNCHANGED <<live, mounted, timers, due, arrived>>

Unmount ==
  /\ mounted /\ mounted' = FALSE
  /\ Disconnect
  /\ TornDown
  /\ UNCHANGED <<live, statusFilter, timers, due, entries, sending>>

-----------------------------------------------------------------------------
Asked(filter, k) == filter \in {"all", StatusOf[k]}

\* The server sends the request k on the stream s, which asks for it.
Arrive(s, k) ==
  /\ Asked(s.filter, k)
  /\ arrived < MaxArrivals /\ arrived' = arrived + 1
  /\ due' = [due EXCEPT ![s.n] = Append(@, k)]
  /\ last' = IF k > last THEN k ELSE last
  /\ repeated' = (repeated \/ k <= last)
  /\ UNCHANGED <<live, statusFilter, mounted, sources, ref, timers, connects, entries, strayed>>

\* onmessage; a stream that is closed brings no more.
OnMessage(s) ==
  /\ due[s.n] # <<>>
  /\ due' = [due EXCEPT ![s.n] = Tail(@)]
  /\ entries' = IF mounted
                THEN SubSeq(<<due[s.n][1]>> \o entries, 1,
                            IF Len(entries) < MaxEntries THEN Len(entries) + 1 ELSE MaxEntries)
                ELSE entries
  /\ UNCHANGED <<live, statusFilter, mounted, sources, ref, timers, connects, sending, strayed>>

LogsNext ==
  \/ \E s \in sources : OnStreamError(s) \/ OnMessage(s) \/ \E k \in Requests : Arrive(s, k)
  \/ Reconnect
  \/ ToggleStreaming
  \/ \E f \in StatusFilters : SetFilter(f)
  \/ Unmount

LogsSpec == LogsInit /\ [][LogsNext]_logvars

-----------------------------------------------------------------------------
(***************************************************************************)
(* Unless the page is paused, filtered anew or left in the five seconds    *)
(* after an error, one stream is open at most, it is the one the page can  *)
(* close, only while it streams, and has the filter that is shown.  So     *)
(* whatever is listed passes the filter on show, and what the server sends *)
(* once and in order is listed once, the newest first, across errors and   *)
(* reconnections.  And whatever happens, a page that streams has a stream  *)
(* or is about to connect one.                                             *)
(***************************************************************************)
OneStream ==
  /\ ~strayed =>
       /\ \A s \in sources : s = [n |-> ref, filter |-> statusFilter] /\ live /\ mounted
       /\ timers # <<>> => sources = {} /\ Len(timers) = 1
       /\ \A i \in DOMAIN entries : Asked(statusFilter, entries[i])
       /\ ~repeated => \A i, j \in DOMAIN entries : i < j => entries[i] > entries[j]
  /\ live /\ mounted => sources # {} \/ timers # <<>>
=============================================================================
