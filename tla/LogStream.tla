----------------------------- MODULE LogStream -----------------------------
(***************************************************************************)
(* One connection of the live log (environments/[envId]/logs/stream/       *)
(* route.ts): a timer polls the requests table for rows newer than a       *)
(* cursor and sends them to the client.  setInterval does not wait for a   *)
(* poll to end, so polls overlap when the database is slow; a poll has its *)
(* cursor when it starts, its rows when the database runs the query, and   *)
(* moves the cursor when the answer arrives.                               *)
(*                                                                         *)
(* A row is stamped (created_at) when its transaction begins and is        *)
(* visible when it commits.  Polls bounds the polls under way at one time, *)
(* MaxNow the clock; a stamp of 0 is that of a row not begun.              *)
(***************************************************************************)
EXTENDS Integers

CONSTANTS Rows, Polls, MaxNow

ASSUME BoundsAssumption == MaxNow \in Nat

VARIABLES now, stamp, visible,   \* the clock of the database and the requests table
          state,       \* the connection: "none", "open", "aborted" (by the client)
          cursor,      \* lastCheckedAt
          ticking,     \* the interval is set
          listening,   \* the abort listener is registered
          initial,     \* polls that 'start' waits for: the first one
          pc, from, answer,      \* per poll: where it is, its cursor, its rows
          sent,        \* rows sent to the client
          opened,      \* history: the cursor of the connection when it was opened
          late,        \* history: rows committed after one with a stamp as new
          overlap,     \* history: two polls were under way at one time
          repeats      \* history: rows sent twice

database == <<now, stamp, visible, late>>
connection == <<state, ticking, listening, opened>>
vars == <<database, connection, cursor, initial, pc, from, answer,
          sent, overlap, repeats>>

Init ==
  /\ now = 1 /\ stamp = [r \in Rows |-> 0] /\ visible = {} /\ late = {}
  /\ state = "none" /\ ticking = FALSE /\ listening = FALSE
  /\ cursor = 0 /\ opened = 0 /\ initial = {}
  /\ pc = [p \in Polls |-> "idle"]
  /\ from = [p \in Polls |-> 0]
  /\ answer = [p \in Polls |-> {}]
  /\ sent = {} /\ overlap = FALSE /\ repeats = {}

Begin(r) ==
  /\ stamp[r] = 0
  /\ stamp' = [stamp EXCEPT ![r] = now]
  /\ UNCHANGED <<now, visible, late, connection, cursor, initial, pc, from, answer,
                 sent, overlap, repeats>>

Commit(r) ==
  /\ stamp[r] # 0 /\ r \notin visible
  /\ visible' = visible \cup {r}
  /\ late' = IF \E q \in visible : stamp[q] >= stamp[r] THEN late \cup {r} ELSE late
  /\ UNCHANGED <<now, stamp, connection, cursor, initial, pc, from, answer,
                 sent, overlap, repeats>>

Tick ==
  /\ now < MaxNow
  /\ now' = now + 1
  /\ UNCHANGED <<stamp, visible, late, connection, cursor, initial, pc, from, answer,
                 sent, overlap, repeats>>

\* The cursor starts at the clock of the web server, which need not be the database's.
Open(p, t) ==
  /\ state = "none"
  /\ state' = "open" /\ ticking' = TRUE
  /\ cursor' = t /\ opened' = t
  /\ pc' = [pc EXCEPT ![p] = "asked"]
  /\ from' = [from EXCEPT ![p] = t]
  /\ initial' = {p}
  /\ UNCHANGED <<database, listening, answer, sent, overlap, repeats>>

\* The interval fires.
Fire(p) ==
  /\ ticking /\ pc[p] = "idle"
  /\ pc' = [pc EXCEPT ![p] = "asked"]
  /\ from' = [from EXCEPT ![p] = cursor]
  /\ overlap' = (overlap \/ \E q \in Polls : pc[q] # "idle")
  /\ UNCHANGED <<database, connection, cursor, initial, answer, sent, repeats>>

\* Mutant: the cursor's own row is asked for again.
NewerOrSame(p) == {r \in visible : stamp[r] >= from[p]}

Newer(p) == {r \in visible : stamp[r] > from[p]}

\* The database runs the query.
Answer(p) ==
  /\ pc[p] = "asked"
  /\ answer' = [answer EXCEPT ![p] = Newer(p)]
  /\ pc' = [pc EXCEPT ![p] = "answered"]
  /\ UNCHANGED <<database, connection, cursor, initial, from, sent, overlap, repeats>>

\* The poll returns: when it was the first one, 'start' goes on to register its listener.
Finish(p) ==
  /\ pc' = [pc EXCEPT ![p] = "idle"]
  /\ from' = [from EXCEPT ![p] = 0]
  /\ answer' = [answer EXCEPT ![p] = {}]
  /\ initial' = initial \ {p}
  /\ listening' = (listening \/ p \in initial)

\* Mutant: an error ends the polling.
FailStops(p) ==
  /\ pc[p] = "asked"
  /\ Finish(p)
  /\ ticking' = FALSE
  /\ UNCHANGED <<database, state, opened, cursor, sent, overlap, repeats>>

\* The query fails: the client is told, and the next poll tries again.
Fail(p) ==
  /\ pc[p] = "asked"
  /\ Finish(p)
  /\ UNCHANGED <<database, state, ticking, opened, cursor, sent, overlap, repeats>>

\* Mutant: the cursor moves to the time of the answer.
HandleSetsNow(p) ==
  /\ pc[p] = "answered"
  /\ \/ /\ state = "aborted" \/ answer[p] = {}
        /\ UNCHANGED <<cursor, sent, repeats>>
     \/ /\ state = "open" /\ answer[p] # {}
        /\ cursor' = now
        /\ sent' = sent \cup answer[p]
        /\ repeats' = repeats \cup (sent \cap answer[p])
  /\ Finish(p)
  /\ UNCHANGED <<database, state, ticking, opened, overlap>>

(***************************************************************************)
(* The rows of the answer are sent in the order of their stamps and the    *)
(* last of them is the new cursor, wherever other polls have moved it.     *)
(* Once the client is gone sending throws, and nothing else is done.       *)
(***************************************************************************)
Handle(p) ==
  /\ pc[p] = "answered"
  /\ \/ /\ state = "aborted" \/ answer[p] = {}
        /\ UNCHANGED <<cursor, sent, repeats>>
     \/ /\ state = "open"
        /\ \E n \in answer[p] :
             /\ \A r \in answer[p] : stamp[r] <= stamp[n]
             /\ cursor' = stamp[n]
        /\ sent' = sent \cup answer[p]
        /\ repeats' = repeats \cup (sent \cap answer[p])
  /\ Finish(p)
  /\ UNCHANGED <<database, state, ticking, opened, overlap>>

\* The client goes away: the listener, if it is registered by now, stops the interval.
Abort ==
  /\ state = "open"
  /\ state' = "aborted"
  /\ ticking' = (ticking /\ ~listening)
  /\ UNCHANGED <<database, listening, opened, cursor, initial, pc, from, answer,
                 sent, overlap, repeats>>

Next ==
  \/ \E r \in Rows : Begin(r) \/ Commit(r)
  \/ Tick
  \/ \E p \in Polls, t \in 0 .. MaxNow : Open(p, t)
  \/ \E p \in Polls : Fire(p) \/ Answer(p) \/ Fail(p) \/ Handle(p)
  \/ Abort

Spec == Init /\ [][Next]_vars

\* The interval keeps firing, answers arrive, and the database does not fail every query.
FairSpec ==
  /\ Spec
  /\ WF_vars(\E p \in Polls : Fire(p))
  /\ \A p \in Polls : SF_vars(Answer(p)) /\ WF_vars(Handle(p))

-----------------------------------------------------------------------------
TypeOK ==
  /\ now \in Nat
  /\ stamp \in [Rows -> Nat]
  /\ visible \subseteq Rows /\ late \subseteq Rows
  /\ state \in {"none", "open", "aborted"}
  /\ ticking \in BOOLEAN /\ listening \in BOOLEAN /\ overlap \in BOOLEAN
  /\ cursor \in Nat /\ opened \in Nat
  /\ initial \subseteq Polls
  /\ pc \in [Polls -> {"idle", "asked", "answered"}]
  /\ from \in [Polls -> Nat]
  /\ answer \in [Polls -> SUBSET Rows]
  /\ sent \subseteq Rows /\ repeats \subseteq Rows

\* The rows the client is due: newer than its connection, and committed in order.
Due == {r \in visible \ late : stamp[r] > opened}

Pending == UNION {answer[p] : p \in Polls}

(***************************************************************************)
(* However polls overlap and whichever answer comes last, the cursor never *)
(* passes a row that is due and was not sent: only a row that commits      *)
(* after one as new can be lost.                                           *)
(***************************************************************************)
NoGap ==
  state = "open" =>
    \A r \in Due : r \in sent \/ r \in Pending \/ stamp[r] > cursor

(***************************************************************************)
(* While each poll ends before the next begins, no row is sent twice and   *)
(* the rows sent are those up to the cursor: they come in order.           *)
(***************************************************************************)
OnceInOrder ==
  ~overlap => repeats = {} /\ \A r \in sent : stamp[r] <= cursor

(***************************************************************************)
(* A row that is due is sent in the end, as long as the client stays.      *)
(***************************************************************************)
EventuallySent ==
  \A r \in Rows : (state = "open" /\ r \in Due) ~> (state = "aborted" \/ r \in sent)

(***************************************************************************)
(* "Cleanup on abort" (logs/stream/route.ts, 71): after the client is gone *)
(* the interval is cleared.                                                *)
(***************************************************************************)
CleanupOnAbort == (state = "aborted") ~> ~ticking
=============================================================================
