-------------------------- MODULE LogStreamProofs --------------------------
(***************************************************************************)
(* The live logs: what holds of a connection for any rows and any number   *)
(* of overlapping polls, and of the page that lists what it brings.        *)
(***************************************************************************)
EXTENDS LogStream, LogsPage, SequenceTheorems, TLAPS

\* Every row due up to time x is sent, or in an answer on its way.
Safe(x) == \A r \in Due : r \in sent \/ r \in Pending \/ stamp[r] > x

\* No time the polls work with is beyond what is committed.
Reached(x) == x <= opened \/ \E q \in visible : x <= stamp[q]

Shape ==
  /\ \A r \in visible : stamp[r] # 0
  /\ \A p \in Polls : /\ answer[p] \subseteq visible
                      /\ answer[p] # {} => pc[p] = "answered"
  /\ sent \subseteq visible
  /\ state = "none" => sent = {} /\ ~ticking /\ \A p \in Polls : pc[p] = "idle"

NothingPassed ==
  state = "open" =>
    /\ Reached(cursor) /\ Safe(cursor)
    /\ \A p \in Polls :
         /\ pc[p] # "idle" => Reached(from[p]) /\ Safe(from[p])
         /\ \A n \in answer[p] : Safe(stamp[n])

OneAtATime ==
  ~overlap =>
    /\ repeats = {} /\ \A r \in sent : stamp[r] <= cursor
    /\ \A p, q \in Polls : pc[p] # "idle" /\ pc[q] # "idle" => p = q
    /\ \A p \in Polls : /\ pc[p] # "idle" => from[p] = cursor
                        /\ \A r \in answer[p] : stamp[r] > cursor

IInv == TypeOK /\ Shape /\ NothingPassed /\ OneAtATime

-----------------------------------------------------------------------------
LEMMA InitIInv == Init => IInv
<1> SUFFICES ASSUME Init PROVE IInv
  OBVIOUS
<1>1. TypeOK
  BY DEF Init, TypeOK
<1>2. Shape /\ NothingPassed /\ OneAtATime
  BY DEF Init, Shape, NothingPassed, OneAtATime
<1> QED BY <1>1, <1>2 DEF IInv

\* A stamp is given once, to a row nobody can see yet.
LEMMA BeginIInv ==
  ASSUME IInv, NEW r \in Rows, Begin(r)
  PROVE  IInv'
<1> USE DEF IInv
<1>1. TypeOK'
  BY DEF Begin, TypeOK, connection
<1>2. r \notin visible /\ \A q \in Rows \ {r} : stamp'[q] = stamp[q]
  BY DEF Begin, Shape, TypeOK
<1>3. \A q \in visible : stamp'[q] = stamp[q]
  BY <1>2 DEF TypeOK
<1>4. /\ visible' = visible /\ late' = late /\ opened' = opened /\ sent' = sent
      /\ answer' = answer /\ cursor' = cursor /\ from' = from /\ pc' = pc
      /\ state' = state /\ overlap' = overlap /\ repeats' = repeats
  BY DEF Begin, connection
<1>5. Shape'
  BY <1>3, <1>4 DEF Begin, Shape, connection
<1>6. Due' = Due /\ Pending' = Pending
  BY <1>3, <1>4 DEF Due, Pending
<1>7. \A x : (Safe(x) => \A s \in Due' : s \in sent' \/ s \in Pending' \/ stamp'[s] > x)
  BY <1>3, <1>4, <1>6 DEF Safe, Due
<1>8. \A x : (Reached(x) => x <= opened' \/ \E q \in visible' : x <= stamp'[q])
  BY <1>3, <1>4 DEF Reached
<1>9. NothingPassed'
  <2>1. \A p \in Polls : \A n \in answer[p] : stamp'[n] = stamp[n]
    BY <1>3 DEF Shape
  <2> QED BY <1>4, <1>7, <1>8, <2>1 DEF NothingPassed, Safe, Reached
<1>10. OneAtATime'
  BY <1>3, <1>4 DEF OneAtATime, Shape
<1> QED BY <1>1, <1>5, <1>9, <1>10

\* A row that commits in order is newer than all that polls have reached.
LEMMA CommitIInv ==
  ASSUME IInv, NEW r \in Rows, Commit(r)
  PROVE  IInv'
<1> USE DEF IInv
<1>1. TypeOK'
  BY DEF Commit, TypeOK, connection
<1>2. /\ visible' = visible \cup {r} /\ stamp' = stamp /\ opened' = opened /\ sent' = sent
      /\ answer' = answer /\ cursor' = cursor /\ from' = from /\ pc' = pc
      /\ state' = state /\ overlap' = overlap /\ repeats' = repeats
  BY DEF Commit, connection
<1>3. Shape'
  BY <1>2 DEF Commit, Shape, connection
<1>4. ASSUME NEW s \in Due'
      PROVE  s \in Due \/ (s = r /\ stamp[s] > opened /\ \A q \in visible : stamp[s] > stamp[q])
  <2>1. CASE s \in visible
    BY <1>2, <2>1 DEF Commit, Due
  <2>2. CASE s = r /\ s \notin visible
    BY <1>2, <2>2 DEF Commit, Due, TypeOK
  <2> QED BY <1>2, <2>1, <2>2 DEF Due
<1>5. ASSUME NEW x \in Nat, Safe(x), Reached(x)
      PROVE  Safe(x)' /\ Reached(x)'
  <2>1. Reached(x)'
    BY <1>2, <1>5 DEF Reached
  <2>2. ASSUME NEW s \in Due' PROVE s \in sent \/ s \in Pending \/ stamp[s] > x
    <3>1. CASE s \in Due
      BY <3>1, <1>5 DEF Safe
    <3>2. CASE s = r /\ stamp[s] > opened /\ \A q \in visible : stamp[s] > stamp[q]
      BY <3>2, <1>5 DEF Reached, TypeOK
    <3> QED BY <1>4, <3>1, <3>2
  <2> QED BY <1>2, <2>1, <2>2 DEF Safe, Pending
<1>6. NothingPassed'
  <2> SUFFICES ASSUME state = "open" PROVE NothingPassed'
    BY <1>2 DEF NothingPassed
  <2>1. Reached(cursor)' /\ Safe(cursor)'
    <3>1. cursor \in Nat /\ Safe(cursor) /\ Reached(cursor)
      BY DEF TypeOK, NothingPassed
    <3> QED BY <1>2, <1>5, <3>1 DEF Safe, Reached
  <2>2. ASSUME NEW p \in Polls, pc[p] # "idle" PROVE Reached(from[p])' /\ Safe(from[p])'
    <3>1. from[p] \in Nat /\ Safe(from[p]) /\ Reached(from[p])
      BY <2>2 DEF TypeOK, NothingPassed
    <3> QED BY <1>2, <1>5, <3>1 DEF Safe, Reached
  <2>3. ASSUME NEW p \in Polls, NEW n \in answer[p] PROVE Safe(stamp[n])'
    <3>1. n \in visible /\ stamp[n] \in Nat /\ Safe(stamp[n])
      BY DEF Shape, TypeOK, NothingPassed
    <3>2. Reached(stamp[n])
      BY <3>1 DEF Reached
    <3> QED BY <1>2, <1>5, <3>1, <3>2 DEF Safe
  <2> QED BY <1>2, <2>1, <2>2, <2>3 DEF NothingPassed
<1>7. OneAtATime'
  BY <1>2 DEF OneAtATime
<1> QED BY <1>1, <1>3, <1>6, <1>7

LEMMA OpenIInv ==
  ASSUME IInv, NEW p \in Polls, NEW t \in 0 .. MaxNow, Open(p, t)
  PROVE  IInv'
<1> USE DEF IInv
<1>1. TypeOK'
  BY BoundsAssumption DEF Open, TypeOK, database
<1>2. /\ visible' = visible /\ stamp' = stamp /\ late' = late /\ answer' = answer /\ sent' = sent
      /\ cursor' = t /\ opened' = t /\ overlap' = overlap /\ repeats' = repeats
  BY DEF Open, database
<1>3. /\ \A q \in Polls : pc[q] = "idle" /\ answer[q] = {}
      /\ sent = {}
  BY DEF Open, Shape
<1>4. /\ pc'[p] = "asked" /\ from'[p] = t
      /\ \A q \in Polls \ {p} : pc'[q] = "idle"
  BY <1>3 DEF Open, TypeOK
<1>5. Shape'
  BY <1>2, <1>3, <1>4 DEF Open, Shape
<1>6. NothingPassed'
  <2>1. Safe(t)' /\ Reached(t)'
    BY <1>2 DEF Safe, Reached, Due
  <2> QED BY <1>2, <1>3, <1>4, <2>1 DEF NothingPassed, Safe, Reached
<1>7. OneAtATime'
  BY <1>2, <1>3, <1>4 DEF OneAtATime
<1> QED BY <1>1, <1>5, <1>6, <1>7

LEMMA FireIInv ==
  ASSUME IInv, NEW p \in Polls, Fire(p)
  PROVE  IInv'
<1> USE DEF IInv
<1>1. TypeOK'
  BY DEF Fire, TypeOK, database, connection
<1>2. /\ visible' = visible /\ stamp' = stamp /\ late' = late /\ answer' = answer /\ sent' = sent
      /\ cursor' = cursor /\ opened' = opened /\ state' = state /\ repeats' = repeats
      /\ state # "none"
  BY DEF Fire, database, connection, Shape
<1>3. /\ pc[p] = "idle" /\ answer[p] = {} /\ pc'[p] = "asked" /\ from'[p] = cursor
      /\ \A q \in Polls \ {p} : pc'[q] = pc[q] /\ from'[q] = from[q]
  BY DEF Fire, TypeOK, Shape
<1>4. Shape'
  BY <1>2, <1>3 DEF Shape
<1>5. NothingPassed'
  <2>1. \A x : (Safe(x) => Safe(x)') /\ (Reached(x) => Reached(x)')
    BY <1>2 DEF Safe, Reached, Due, Pending
  <2> QED BY <1>2, <1>3, <2>1 DEF NothingPassed, Safe, Reached, Due, Pending
<1>6. OneAtATime'
  <2> SUFFICES ASSUME ~overlap' PROVE OneAtATime'
    BY DEF OneAtATime
  <2>1. ~overlap /\ \A q \in Polls : pc[q] = "idle"
    BY DEF Fire, TypeOK
  <2> QED BY <1>2, <1>3, <2>1 DEF OneAtATime
<1> QED BY <1>1, <1>4, <1>5, <1>6

\* The answer has every row due after the cursor the poll set out from.
LEMMA AnswerIInv ==
  ASSUME IInv, NEW p \in Polls, Answer(p)
  PROVE  IInv'
<1> USE DEF IInv
<1>1. TypeOK'
  BY DEF Answer, TypeOK, database, connection, Newer
<1>2. /\ visible' = visible /\ stamp' = stamp /\ late' = late /\ from' = from /\ sent' = sent
      /\ cursor' = cursor /\ opened' = opened /\ state' = state /\ repeats' = repeats
      /\ overlap' = overlap
  BY DEF Answer, database, connection
<1>3. /\ pc[p] = "asked" /\ answer[p] = {} /\ pc'[p] = "answered" /\ answer'[p] = Newer(p)
      /\ \A q \in Polls \ {p} : pc'[q] = pc[q] /\ answer'[q] = answer[q]
  BY DEF Answer, TypeOK, Shape
<1>4. Shape'
  <2>1. state # "none" /\ Newer(p) \subseteq visible
    BY <1>3 DEF Shape, Newer
  <2> QED BY <1>2, <1>3, <2>1 DEF Shape
<1>5. Pending \subseteq Pending' /\ Newer(p) \subseteq Pending'
  BY <1>3 DEF Pending
<1>6. \A x : (Safe(x) => Safe(x)') /\ (Reached(x) => Reached(x)')
  BY <1>2, <1>5 DEF Safe, Reached, Due
<1>7. NothingPassed'
  <2> SUFFICES ASSUME state = "open" PROVE NothingPassed'
    BY <1>2 DEF NothingPassed
  <2>1. Safe(cursor)' /\ Reached(cursor)'
    BY <1>2, <1>6 DEF NothingPassed, Safe, Reached
  <2>2. ASSUME NEW q \in Polls, pc'[q] # "idle" PROVE Reached(from[q])' /\ Safe(from[q])'
    <3>1. Reached(from[q]) /\ Safe(from[q])
      BY <1>3, <2>2 DEF NothingPassed
    <3> QED BY <1>2, <1>6, <3>1 DEF Safe, Reached
  <2>3. ASSUME NEW n \in Newer(p) PROVE Safe(stamp[n])'
    <3> SUFFICES ASSUME NEW r \in Due PROVE r \in sent \/ r \in Pending' \/ stamp[r] > stamp[n]
      BY <1>2 DEF Safe, Due
    <3>1. r \in sent \/ r \in Pending \/ stamp[r] > from[p]
      BY <1>3 DEF NothingPassed, Safe
    <3>2. stamp[r] > from[p] => r \in Newer(p)
      BY DEF Newer, Due
    <3> QED BY <1>5, <3>1, <3>2
  <2>4. ASSUME NEW q \in Polls \ {p}, NEW n \in answer[q] PROVE Safe(stamp[n])'
    <3>1. Safe(stamp[n])
      BY DEF NothingPassed
    <3> QED BY <1>2, <1>6, <3>1 DEF Safe
  <2>5. \A q \in Polls : \A n \in answer'[q] : Safe(stamp[n])'
    BY <1>3, <2>3, <2>4
  <2> QED BY <1>2, <2>1, <2>2, <2>5 DEF NothingPassed, Safe, Reached
<1>8. OneAtATime'
  BY <1>2, <1>3 DEF OneAtATime, Newer
<1> QED BY <1>1, <1>4, <1>7, <1>8

\* A poll that failed or was handled is idle, with nothing in hand.
LEMMA Finished ==
  ASSUME TypeOK, NEW p \in Polls, Finish(p)
  PROVE  /\ pc'[p] = "idle" /\ from'[p] = 0 /\ answer'[p] = {}
         /\ \A q \in Polls \ {p} : pc'[q] = pc[q] /\ from'[q] = from[q] /\ answer'[q] = answer[q]
         /\ pc' \in [Polls -> {"idle", "asked", "answered"}]
         /\ from' \in [Polls -> Nat] /\ answer' \in [Polls -> SUBSET Rows]
         /\ initial' \subseteq Polls /\ listening' \in BOOLEAN
         /\ Pending \subseteq Pending' \cup answer[p]
<1>1. /\ pc'[p] = "idle" /\ from'[p] = 0 /\ answer'[p] = {}
      /\ \A q \in Polls \ {p} : pc'[q] = pc[q] /\ from'[q] = from[q] /\ answer'[q] = answer[q]
  BY DEF Finish, TypeOK
<1>2. Pending \subseteq Pending' \cup answer[p]
  BY <1>1 DEF Pending
<1>3. listening' \in BOOLEAN
  BY DEF Finish, TypeOK
<1> QED BY <1>1, <1>2, <1>3 DEF Finish, TypeOK

LEMMA FailIInv ==
  ASSUME IInv, NEW p \in Polls, Fail(p)
  PROVE  IInv'
<1> USE DEF IInv
<1>1. Finish(p) /\ answer[p] = {} /\ state # "none"
  BY DEF Fail, Shape
<1>2. TypeOK'
  BY <1>1, Finished DEF Fail, TypeOK, database
<1>3. /\ visible' = visible /\ stamp' = stamp /\ late' = late /\ sent' = sent
      /\ cursor' = cursor /\ opened' = opened /\ state' = state /\ repeats' = repeats
      /\ overlap' = overlap
  BY DEF Fail, database
<1>4. Shape'
  BY <1>1, <1>3, Finished DEF Shape
<1>5. \A x : (Safe(x) => Safe(x)') /\ (Reached(x) => Reached(x)')
  BY <1>1, <1>3, Finished DEF Safe, Reached, Due
<1>6. NothingPassed'
  BY <1>1, <1>3, <1>5, Finished DEF NothingPassed, Safe, Reached
<1>7. OneAtATime'
  BY <1>1, <1>3, Finished DEF OneAtATime
<1> QED BY <1>2, <1>4, <1>6, <1>7

\* The new cursor is the stamp of a row of the answer, and what was due up to it is sent.
LEMMA HandleIInv ==
  ASSUME IInv, NEW p \in Polls, Handle(p)
  PROVE  IInv'
<1> USE DEF IInv
<1>1. Finish(p) /\ state # "none" /\ pc[p] = "answered"
  BY DEF Handle, Shape
<1>2. /\ visible' = visible /\ stamp' = stamp /\ late' = late
      /\ opened' = opened /\ state' = state /\ overlap' = overlap
  BY DEF Handle, database
<1>3. \/ /\ state = "aborted" \/ answer[p] = {}
         /\ cursor' = cursor /\ sent' = sent /\ repeats' = repeats
      \/ /\ state = "open" /\ sent' = sent \cup answer[p]
         /\ repeats' = repeats \cup (sent \cap answer[p])
         /\ \E n \in answer[p] : cursor' = stamp[n] /\ \A r \in answer[p] : stamp[r] <= stamp[n]
  BY DEF Handle
<1>4. answer[p] \subseteq visible /\ visible \subseteq Rows
  BY DEF Shape, TypeOK
<1>5. TypeOK'
  <2>1. cursor' \in Nat /\ sent' \subseteq Rows /\ repeats' \subseteq Rows
    BY <1>3, <1>4 DEF TypeOK
  <2> QED BY <1>1, <2>1, Finished DEF Handle, TypeOK, database
<1>6. Shape'
  BY <1>1, <1>2, <1>3, <1>4, Finished DEF Shape
<1>7. NothingPassed'
  <2> SUFFICES ASSUME state = "open" PROVE NothingPassed'
    BY <1>2 DEF NothingPassed
  <2>1. \A x : (Safe(x) => Safe(x)') /\ (Reached(x) => Reached(x)')
    BY <1>1, <1>2, <1>3, Finished DEF Safe, Reached, Due
  <2>2. Safe(cursor') /\ Reached(cursor')
    BY <1>3, <1>4 DEF NothingPassed, Reached, TypeOK
  <2>3. \A q \in Polls : pc'[q] # "idle" => Reached(from'[q]) /\ Safe(from'[q])
    BY <1>1, Finished DEF NothingPassed
  <2>4. \A q \in Polls : \A n \in answer'[q] : Safe(stamp[n])
    BY <1>1, Finished DEF NothingPassed
  <2> QED BY <1>2, <2>1, <2>2, <2>3, <2>4 DEF NothingPassed, Safe, Reached
<1>8. OneAtATime'
  <2> SUFFICES ASSUME ~overlap PROVE OneAtATime'
    BY <1>2 DEF OneAtATime
  <2>1. \A q \in Polls \ {p} : pc[q] = "idle" /\ answer[q] = {}
    BY <1>1 DEF OneAtATime, Shape
  <2>2. \A q \in Polls : pc'[q] = "idle" /\ answer'[q] = {}
    BY <1>1, <2>1, Finished
  <2>3. repeats' = {} /\ \A r \in sent' : stamp[r] <= cursor'
    <3>1. CASE cursor' = cursor /\ sent' = sent /\ repeats' = repeats
      BY <3>1 DEF OneAtATime
    <3>2. CASE /\ sent' = sent \cup answer[p]
               /\ repeats' = repeats \cup (sent \cap answer[p])
               /\ \E n \in answer[p] : cursor' = stamp[n]
                                       /\ \A r \in answer[p] : stamp[r] <= stamp[n]
      <4>1. sent \subseteq Rows /\ cursor \in Nat /\ stamp \in [Rows -> Nat]
        BY DEF TypeOK
      <4>2. repeats = {} /\ (\A r \in sent : stamp[r] <= cursor)
            /\ \A r \in answer[p] : stamp[r] > cursor
        BY DEF OneAtATime
      <4> QED BY <1>4, <3>2, <4>1, <4>2
    <3> QED BY <1>3, <3>1, <3>2
  <2> QED BY <1>2, <2>2, <2>3 DEF OneAtATime
<1> QED BY <1>5, <1>6, <1>7, <1>8

LEMMA AbortIInv == IInv /\ Abort => IInv'
<1> SUFFICES ASSUME IInv, Abort PROVE IInv'
  OBVIOUS
<1> USE DEF IInv
<1>1. TypeOK'
  BY DEF Abort, TypeOK, database
<1>2. Shape' /\ NothingPassed' /\ OneAtATime'
  BY DEF Abort, Shape, NothingPassed, OneAtATime, database
<1> QED BY <1>1, <1>2

THEOREM Invariance == Spec => []IInv
<1>1. IInv /\ [Next]_vars => IInv'
  <2> SUFFICES ASSUME IInv, [Next]_vars PROVE IInv'
    OBVIOUS
  <2>1. CASE \E r \in Rows : Begin(r) \/ Commit(r)
    BY <2>1, BeginIInv, CommitIInv
  <2>2. CASE Tick
    <3>1. TypeOK'
      BY <2>2 DEF Tick, IInv, TypeOK, connection
    <3>2. Shape' /\ OneAtATime'
      BY <2>2 DEF Tick, IInv, Shape, OneAtATime, connection
    <3>3. NothingPassed'
      BY <2>2 DEF Tick, IInv, NothingPassed, Safe, Reached, Due, Pending, connection
    <3> QED BY <3>1, <3>2, <3>3 DEF IInv
  <2>3. CASE \E p \in Polls, t \in 0 .. MaxNow : Open(p, t)
    BY <2>3, OpenIInv
  <2>4. CASE \E p \in Polls : Fire(p) \/ Answer(p) \/ Fail(p) \/ Handle(p)
    BY <2>4, FireIInv, AnswerIInv, FailIInv, HandleIInv
  <2>5. CASE Abort
    BY <2>5, AbortIInv
  <2>6. CASE UNCHANGED vars
    <3>1. TypeOK'
      BY <2>6 DEF vars, IInv, TypeOK, connection, database
    <3>2. Shape' /\ OneAtATime'
      BY <2>6 DEF vars, IInv, Shape, OneAtATime, connection, database
    <3>3. NothingPassed'
      BY <2>6 DEF vars, IInv, NothingPassed, Safe, Reached, Due, Pending, connection, database
    <3> QED BY <3>1, <3>2, <3>3 DEF IInv
  <2> QED BY <2>1, <2>2, <2>3, <2>4, <2>5, <2>6 DEF Next
<1> QED BY <1>1, InitIInv, PTL DEF Spec

\* The types of the connection, its polls and the table.
THEOREM TypeCorrect == Spec => []TypeOK
  BY Invariance, PTL DEF IInv

(***************************************************************************)
(* No number of overlapping polls, answered in any order, moves the cursor *)
(* past a row that is due and unsent.                                      *)
(***************************************************************************)
THEOREM NothingLost == Spec => []NoGap
<1>1. IInv => NoGap
  BY DEF IInv, NothingPassed, NoGap, Safe
<1> QED BY <1>1, Invariance, PTL

(***************************************************************************)
(* As long as polls do not overlap every row is sent once, in order.       *)
(***************************************************************************)
THEOREM SentOnceInOrder == Spec => []OnceInOrder
<1>1. IInv => OnceInOrder
  BY DEF IInv, OneAtATime, OnceInOrder
<1> QED BY <1>1, Invariance, PTL

-----------------------------------------------------------------------------
(* The page.  A timer that runs while nothing was torn down belongs to the *)
(* page as it is: it has closed the only stream, and will open one with    *)
(* the filter shown.  What is due on that stream is newer than every       *)
(* request listed.                                                         *)

LogsTypeOK ==
  /\ live \in BOOLEAN /\ mounted \in BOOLEAN /\ strayed \in BOOLEAN
  /\ statusFilter \in StatusFilters
  /\ connects \in 1 .. MaxStreams /\ ref \in Nat /\ ref <= connects
  /\ sources \subseteq [n : 1 .. connects, filter : StatusFilters]
  /\ timers \in Seq(StatusFilters)
  /\ due \in [Streams -> Seq(Nat)] /\ entries \in Seq(Nat)
  /\ arrived \in Nat /\ last \in 0 .. MaxRequests /\ repeated \in BOOLEAN

\* Streams not opened yet have nothing due.
Unopened == \A n \in Streams : n > connects => due[n] = <<>>

Alone ==
  /\ \A s \in sources : s.n = ref /\ s.filter = statusFilter /\ live /\ mounted
  /\ timers # <<>> =>
       sources = {} /\ Len(timers) = 1 /\ timers[1] = statusFilter /\ live /\ mounted

\* What is due on a stream passes its filter, and what is listed the page's.
Sorted == \A s \in sources : \A i \in 1 .. Len(due[s.n]) : Asked(s.filter, due[s.n][i])
Filtered == \A e \in 1 .. Len(entries) : Asked(statusFilter, entries[e])

NewestFirst ==
  /\ \A e \in 1 .. Len(entries) : entries[e] <= last
  /\ \A i, j \in 1 .. Len(entries) : i < j => entries[i] > entries[j]
  /\ \A s \in sources :
       /\ \A i \in 1 .. Len(due[s.n]) :
            /\ due[s.n][i] <= last
            /\ \A e \in 1 .. Len(entries) : due[s.n][i] > entries[e]
       /\ \A i, j \in 1 .. Len(due[s.n]) : i < j => due[s.n][i] < due[s.n][j]

Connected == live /\ mounted => sources # {} \/ timers # <<>>

LogsInv ==
  /\ LogsTypeOK /\ Unopened /\ Connected
  /\ ~strayed => Alone /\ Sorted /\ Filtered
  /\ ~strayed /\ ~repeated => NewestFirst

LEMMA LogsBounds ==
  /\ MaxStreams \in Nat \ {0} /\ MaxEntries \in Nat /\ MaxRequests \in Nat
  /\ 0 \in 0 .. MaxRequests /\ Requests \subseteq Nat
  /\ \A k \in Requests : k \in 0 .. MaxRequests
<1>1. MaxStreams \in Nat \ {0} /\ MaxEntries \in Nat /\ MaxRequests \in Nat
  BY LogsAssumption
<1>2. 0 \in 0 .. MaxRequests
  BY <1>1
<1>3. Requests \subseteq Nat /\ \A k \in Requests : k \in 0 .. MaxRequests
  BY <1>1 DEF Requests
<1> QED BY <1>1, <1>2, <1>3

LEMMA LogsStart == LogsInit => LogsInv
<1> SUFFICES ASSUME LogsInit PROVE LogsInv
  OBVIOUS
<1> USE LogsBounds
<1>1. LogsTypeOK
  <2>1. [n |-> 1, filter |-> statusFilter] \in [n : 1 .. 1, filter : StatusFilters]
    BY DEF LogsInit
  <2>2. <<>> \in Seq(Nat) /\ <<>> \in Seq(StatusFilters) /\ 1 \in 1 .. MaxStreams
    OBVIOUS
  <2>3. sources \subseteq [n : 1 .. connects, filter : StatusFilters]
    BY <2>1 DEF LogsInit
  <2>4. due \in [Streams -> Seq(Nat)] /\ entries \in Seq(Nat) /\ timers \in Seq(StatusFilters)
    BY <2>2 DEF LogsInit
  <2>5. live \in BOOLEAN /\ mounted \in BOOLEAN /\ strayed \in BOOLEAN /\ statusFilter \in StatusFilters
    BY DEF LogsInit
  <2>6. /\ connects \in 1 .. MaxStreams /\ ref \in Nat /\ ref <= connects
        /\ arrived \in Nat /\ last \in 0 .. MaxRequests /\ repeated \in BOOLEAN
    <3>1. connects = 1 /\ ref = 1 /\ arrived = 0 /\ last = 0 /\ repeated = FALSE
      BY DEF LogsInit
    <3>2. 1 \in 1 .. MaxStreams /\ 1 \in Nat /\ 0 \in Nat /\ 1 <= 1 /\ 0 \in 0 .. MaxRequests
      BY LogsBounds
    <3> QED BY <3>1, <3>2
  <2> QED BY <2>3, <2>4, <2>5, <2>6 DEF LogsTypeOK
<1>2. Unopened /\ Connected
  BY DEF LogsInit, Unopened, Connected
<1>3. Alone /\ NewestFirst /\ Sorted /\ Filtered
  <2>1. \A s \in sources : s.n = 1 /\ s.filter = statusFilter /\ due[s.n] = <<>>
    BY DEF LogsInit, Streams
  <2> QED BY <2>1 DEF LogsInit, Alone, NewestFirst, Sorted, Filtered
<1> QED BY <1>1, <1>2, <1>3 DEF LogsInv

\* connectSSE opens a stream with nothing due, beside those kept.
LEMMA ConnectKeeps ==
  ASSUME LogsTypeOK, Unopened, NEW f \in StatusFilters, NEW keep \in SUBSET sources, Connect(f, keep)
  PROVE  /\ connects' \in 1 .. MaxStreams /\ ref' = connects + 1 /\ connects' = connects + 1
         /\ sources' \subseteq [n : 1 .. connects', filter : StatusFilters] /\ sources' # {}
         /\ \A s \in sources' : s \in keep \/ (s.n = connects + 1 /\ s.filter = f)
         /\ \A n \in Streams : n > connects' => due[n] = <<>>
         /\ connects + 1 \in Streams /\ due[connects + 1] = <<>>
<1> USE LogsBounds
<1>1. /\ connects < MaxStreams /\ connects' = connects + 1 /\ ref' = connects + 1
      /\ sources' = keep \cup {[n |-> connects + 1, filter |-> f]} /\ connects \in 1 .. MaxStreams
  BY DEF Connect, LogsTypeOK
<1>2. [n |-> connects + 1, filter |-> f] \in [n : 1 .. connects', filter : StatusFilters]
  BY <1>1
<1>3. [n : 1 .. connects, filter : StatusFilters] \subseteq [n : 1 .. connects', filter : StatusFilters]
  BY <1>1
<1>4. keep \subseteq [n : 1 .. connects', filter : StatusFilters]
  BY <1>3 DEF LogsTypeOK
<1>5. /\ connects + 1 \in Streams /\ due[connects + 1] = <<>>
      /\ \A n \in Streams : n > connects' => due[n] = <<>>
  BY <1>1 DEF Unopened, Streams
<1>6. \A s \in sources' : s \in keep \/ (s.n = connects + 1 /\ s.filter = f)
  BY <1>1
<1>7. sources' \subseteq [n : 1 .. connects', filter : StatusFilters] /\ sources' # {}
  BY <1>1, <1>2, <1>4
<1> QED BY <1>1, <1>5, <1>6, <1>7

LEMMA StreamErrorKept == ASSUME LogsInv, NEW s \in sources, OnStreamError(s) PROVE LogsInv'
<1> USE DEF LogsInv
<1>1. s.filter \in StatusFilters /\ timers' = Append(timers, s.filter) /\ sources' = sources \ {s}
  BY DEF OnStreamError, LogsTypeOK
<1>2. UNCHANGED <<live, statusFilter, mounted, ref, connects, due, entries, sending, strayed>>
  BY DEF OnStreamError
<1>3. LogsTypeOK' /\ Unopened' /\ Connected' /\ (~strayed => Sorted' /\ Filtered')
  BY <1>1, <1>2 DEF LogsTypeOK, Unopened, Connected, Sorted, Filtered, sending
<1>4. ~strayed => Alone'
  <2> SUFFICES ASSUME ~strayed PROVE Alone'
    OBVIOUS
  <2>1. timers = <<>> /\ s.n = ref /\ s.filter = statusFilter /\ live /\ mounted
    BY DEF Alone
  <2>2. sources' = {}
    <3>1. \A t \in sources : t = s
      BY <2>1 DEF Alone, LogsTypeOK
    <3> QED BY <1>1, <3>1
  <2>3. Len(timers') = 1 /\ timers'[1] = s.filter
    BY <1>1, <2>1
  <2> QED BY <1>2, <2>1, <2>2, <2>3 DEF Alone
<1>5. ~strayed /\ ~repeated => NewestFirst'
  BY <1>1, <1>2 DEF NewestFirst, sending
<1> QED BY <1>2, <1>3, <1>4, <1>5 DEF sending

LEMMA ReconnectKept == ASSUME LogsInv, Reconnect PROVE LogsInv'
<1> USE DEF LogsInv
<1>1. /\ timers # <<>> /\ timers' = Tail(timers) /\ Connect(timers[1], sources)
      /\ timers[1] \in StatusFilters
      /\ UNCHANGED <<live, statusFilter, mounted, due, entries, sending, strayed>>
  BY DEF Reconnect, LogsTypeOK
<1>2. /\ connects' \in 1 .. MaxStreams /\ ref' = connects + 1 /\ connects' = connects + 1
      /\ sources' \subseteq [n : 1 .. connects', filter : StatusFilters] /\ sources' # {}
      /\ \A s \in sources' : s \in sources \/ (s.n = connects + 1 /\ s.filter = timers[1])
      /\ \A n \in Streams : n > connects' => due[n] = <<>>
      /\ due[connects + 1] = <<>>
  BY <1>1, ConnectKeeps
<1>3. LogsTypeOK' /\ Unopened' /\ Connected'
  BY <1>1, <1>2 DEF LogsTypeOK, Unopened, Connected, sending
<1>4. ~strayed => Alone' /\ Sorted' /\ Filtered' /\ (~repeated => NewestFirst')
  <2> SUFFICES ASSUME ~strayed PROVE Alone' /\ Sorted' /\ Filtered' /\ (~repeated => NewestFirst')
    OBVIOUS
  <2>1. /\ sources = {} /\ Len(timers) = 1 /\ timers[1] = statusFilter /\ live /\ mounted
        /\ \A s \in sources' : s.n = ref' /\ s.filter = statusFilter /\ due[s.n] = <<>>
    BY <1>1, <1>2 DEF Alone
  <2>2. timers' = <<>>
    BY <1>1, <2>1 DEF LogsTypeOK
  <2> QED BY <1>1, <2>1, <2>2 DEF Alone, Sorted, NewestFirst, Filtered, sending
<1> QED BY <1>1, <1>3, <1>4 DEF sending

\* While nothing has strayed the cleanup closes the one stream there is.
LEMMA ClosesAll == ASSUME LogsInv, ~strayed PROVE sources \ Closed = {}
BY DEF LogsInv, Alone, Closed

\* A page that disconnects keeps its types; it is alone if it was, with nothing open.
LEMMA DisconnectKeeps ==
  ASSUME LogsInv, Disconnect
  PROVE  /\ connects' = connects /\ ref' \in Nat /\ ref' <= connects'
         /\ sources' \subseteq sources
         /\ ~strayed => sources' = {}
<1>1. sources' = sources \ Closed /\ ref' = 0 /\ connects' = connects
  BY DEF Disconnect
<1>2. connects \in Nat
  BY LogsBounds DEF LogsInv, LogsTypeOK
<1> QED BY <1>1, <1>2, ClosesAll

\* Another connection with the filter f, when the cleanup has closed the one before.
LEMMA AnewKeeps ==
  ASSUME LogsInv, NEW f \in StatusFilters, Connect(f, sources \ Closed)
  PROVE  /\ connects' \in 1 .. MaxStreams /\ ref' = connects'
         /\ sources' \subseteq [n : 1 .. connects', filter : StatusFilters] /\ sources' # {}
         /\ \A s \in sources' : s \in sources \/ (s.n = ref' /\ s.filter = f /\ due[s.n] = <<>>)
         /\ \A n \in Streams : n > connects' => due[n] = <<>>
         /\ ~strayed => \A s \in sources' : s.n = ref' /\ s.filter = f /\ due[s.n] = <<>>
<1>1. /\ connects' \in 1 .. MaxStreams /\ ref' = connects + 1 /\ connects' = connects + 1
      /\ sources' \subseteq [n : 1 .. connects', filter : StatusFilters] /\ sources' # {}
      /\ \A s \in sources' : s \in sources \ Closed \/ (s.n = connects + 1 /\ s.filter = f)
      /\ \A n \in Streams : n > connects' => due[n] = <<>>
      /\ due[connects + 1] = <<>>
  <2>1. sources \ Closed \in SUBSET sources
    OBVIOUS
  <2> QED BY <2>1, ConnectKeeps DEF LogsInv
<1> QED BY <1>1, ClosesAll

LEMMA ToggleKept == ASSUME LogsInv, ToggleStreaming PROVE LogsInv'
<1> USE DEF LogsInv
<1>1. /\ mounted /\ live' = ~live /\ strayed' = (strayed \/ timers # <<>>)
      /\ UNCHANGED <<statusFilter, mounted, timers, due, entries, sending>>
  BY DEF ToggleStreaming, TornDown
<1>2. CASE live
  <2>1. Disconnect
    BY <1>2 DEF ToggleStreaming
  <2>2. /\ connects' = connects /\ ref' \in Nat /\ ref' <= connects'
        /\ sources' \subseteq sources /\ (~strayed => sources' = {})
    BY <2>1, DisconnectKeeps
  <2>3. LogsTypeOK' /\ Unopened' /\ Connected'
    BY <1>1, <1>2, <2>2 DEF LogsTypeOK, Unopened, Connected, sending
  <2>4. ~strayed' => Alone' /\ Sorted' /\ Filtered' /\ (~repeated' => NewestFirst')
    BY <1>1, <2>2 DEF Alone, Sorted, NewestFirst, Filtered, sending
  <2> QED BY <2>3, <2>4
<1>3. CASE ~live
  <2>1. Connect(statusFilter, sources \ Closed) /\ statusFilter \in StatusFilters
    BY <1>3 DEF ToggleStreaming, LogsTypeOK
  <2>2. /\ connects' \in 1 .. MaxStreams /\ ref' = connects'
        /\ sources' \subseteq [n : 1 .. connects', filter : StatusFilters] /\ sources' # {}
        /\ \A s \in sources' :
              s \in sources \/ (s.n = ref' /\ s.filter = statusFilter /\ due[s.n] = <<>>)
        /\ \A n \in Streams : n > connects' => due[n] = <<>>
        /\ ~strayed => \A s \in sources' : s.n = ref' /\ s.filter = statusFilter /\ due[s.n] = <<>>
    BY <2>1, AnewKeeps
  <2>3. LogsTypeOK' /\ Unopened' /\ Connected'
    BY <1>1, <2>2 DEF LogsTypeOK, Unopened, Connected, sending
  <2>4. ~strayed' => Alone' /\ Sorted' /\ Filtered' /\ (~repeated' => NewestFirst')
    <3> SUFFICES ASSUME ~strayed' PROVE Alone' /\ Sorted' /\ Filtered' /\ (~repeated' => NewestFirst')
      OBVIOUS
    <3>1. /\ ~strayed /\ timers' = <<>> /\ live' /\ mounted'
          /\ \A s \in sources' : s.n = ref' /\ s.filter = statusFilter' /\ Len(due'[s.n]) = 0
      <4>1. /\ ~strayed /\ timers' = <<>> /\ live' /\ mounted'
            /\ due' = due /\ statusFilter' = statusFilter
        BY <1>1, <1>3
      <4>2. Len(<<>>) = 0
        OBVIOUS
      <4> QED BY <2>2, <4>1, <4>2
    <3>2. Alone' /\ Sorted'
      BY <3>1 DEF Alone, Sorted
    <3> QED BY <1>1, <3>1, <3>2 DEF NewestFirst, Filtered, sending, Asked
  <2> QED BY <2>3, <2>4
<1> QED BY <1>2, <1>3

LEMMA SetFilterKept == ASSUME LogsInv, NEW f \in StatusFilters, SetFilter(f) PROVE LogsInv'
<1> USE DEF LogsInv
<1>1. /\ mounted /\ statusFilter' = f /\ entries' = <<>> /\ last' = 0 /\ repeated' = FALSE
      /\ strayed' = (strayed \/ timers # <<>>)
      /\ UNCHANGED <<live, mounted, timers, due, arrived>>
  BY DEF SetFilter, TornDown
<1>2. /\ last' \in 0 .. MaxRequests /\ repeated' \in BOOLEAN /\ entries' \in Seq(Nat)
      /\ Len(entries') = 0
  <2>1. 0 \in 0 .. MaxRequests /\ <<>> \in Seq(Nat) /\ Len(<<>>) = 0
    BY LogsBounds
  <2> QED BY <1>1, <2>1
<1>3. CASE live
  <2>1. Connect(f, sources \ Closed)
    BY <1>3 DEF SetFilter
  <2>2. /\ connects' \in 1 .. MaxStreams /\ ref' = connects'
        /\ sources' \subseteq [n : 1 .. connects', filter : StatusFilters] /\ sources' # {}
        /\ \A s \in sources' : s \in sources \/ (s.n = ref' /\ s.filter = f /\ due[s.n] = <<>>)
        /\ \A n \in Streams : n > connects' => due[n] = <<>>
        /\ ~strayed => \A s \in sources' : s.n = ref' /\ s.filter = f /\ due[s.n] = <<>>
    BY <2>1, AnewKeeps
  <2>3. LogsTypeOK' /\ Unopened' /\ Connected'
    BY <1>1, <1>2, <2>2 DEF LogsTypeOK, Unopened, Connected
  <2>4. ~strayed' => Alone' /\ Sorted' /\ Filtered' /\ NewestFirst'
    <3> SUFFICES ASSUME ~strayed' PROVE Alone' /\ Sorted' /\ Filtered' /\ NewestFirst'
      OBVIOUS
    <3>1. /\ ~strayed /\ timers' = <<>> /\ live' /\ mounted'
          /\ \A s \in sources' : s.n = ref' /\ s.filter = statusFilter' /\ Len(due'[s.n]) = 0
      <4>1. ~strayed /\ timers' = <<>> /\ live' /\ mounted' /\ due' = due /\ statusFilter' = f
        BY <1>1, <1>3
      <4>2. Len(<<>>) = 0
        OBVIOUS
      <4> QED BY <2>2, <4>1, <4>2
    <3>2. Alone' /\ Sorted'
      BY <3>1 DEF Alone, Sorted
    <3> QED BY <1>2, <3>1, <3>2 DEF NewestFirst, Filtered
  <2> QED BY <2>3, <2>4
<1>4. CASE ~live
  <2>1. Disconnect
    BY <1>4 DEF SetFilter
  <2>2. /\ connects' = connects /\ ref' \in Nat /\ ref' <= connects'
        /\ sources' \subseteq sources /\ (~strayed => sources' = {})
    BY <2>1, DisconnectKeeps
  <2>3. LogsTypeOK' /\ Unopened' /\ Connected'
    BY <1>1, <1>2, <1>4, <2>2 DEF LogsTypeOK, Unopened, Connected
  <2>4. ~strayed' => Alone' /\ Sorted' /\ Filtered' /\ NewestFirst'
    <3>1. ~strayed' => sources' = {} /\ timers' = <<>>
      BY <1>1, <2>2
    <3> QED BY <1>2, <3>1 DEF Alone, Sorted, NewestFirst, Filtered
  <2> QED BY <2>3, <2>4
<1> QED BY <1>3, <1>4

LEMMA UnmountKept == ASSUME LogsInv, Unmount PROVE LogsInv'
<1> USE DEF LogsInv
<1>1. /\ mounted' = FALSE /\ Disconnect
      /\ strayed' = (strayed \/ timers # <<>>)
      /\ UNCHANGED <<live, statusFilter, timers, due, entries, sending>>
  BY DEF Unmount, TornDown
<1>2. /\ connects' = connects /\ ref' \in Nat /\ ref' <= connects'
      /\ sources' \subseteq sources /\ (~strayed => sources' = {})
  BY <1>1, DisconnectKeeps
<1>3. LogsTypeOK' /\ Unopened' /\ Connected'
  BY <1>1, <1>2 DEF LogsTypeOK, Unopened, Connected, sending
<1>4. ~strayed' => Alone' /\ Sorted' /\ Filtered' /\ (~repeated' => NewestFirst')
  BY <1>1, <1>2 DEF Alone, Sorted, NewestFirst, Filtered, sending
<1> QED BY <1>3, <1>4

LEMMA AppendedRow ==
  ASSUME NEW old \in Seq(Nat), NEW k \in Nat, NEW new, new = Append(old, k)
  PROVE  /\ Len(new) = Len(old) + 1 /\ Len(old) \in Nat /\ new[Len(old) + 1] = k
         /\ \A i \in 1 .. Len(old) : new[i] = old[i] /\ old[i] \in Nat
OBVIOUS

LEMMA ArriveKept == ASSUME LogsInv, NEW r \in sources, NEW k \in Requests, Arrive(r, k) PROVE LogsInv'
<1> USE DEF LogsInv
<1>9. k \in Nat
  BY LogsBounds
<1>1. /\ arrived' = arrived + 1 /\ Asked(r.filter, k)
      /\ last' = (IF k > last THEN k ELSE last) /\ repeated' = (repeated \/ k <= last)
      /\ due' = [due EXCEPT ![r.n] = Append(due[r.n], k)]
      /\ UNCHANGED <<live, statusFilter, mounted, sources, ref, timers, connects, entries, strayed>>
  BY DEF Arrive
<1>0. r.n \in Streams /\ r.n <= connects /\ due[r.n] \in Seq(Nat) /\ connects \in Nat
  BY LogsBounds DEF LogsTypeOK, Streams
<1>2. \A n \in Streams : due'[n] = IF n = r.n THEN Append(due[n], k) ELSE due[n]
  BY <1>0, <1>1 DEF LogsTypeOK
<1>3. LogsTypeOK'
  <2>1. last' \in 0 .. MaxRequests /\ repeated' \in BOOLEAN /\ arrived' \in Nat
    BY <1>1, LogsBounds DEF LogsTypeOK, Requests
  <2>2. due' \in [Streams -> Seq(Nat)]
    BY <1>0, <1>1, <1>9 DEF LogsTypeOK
  <2> QED BY <1>1, <2>1, <2>2 DEF LogsTypeOK
<1>4. Unopened' /\ Connected'
  BY <1>0, <1>1, <1>2 DEF Unopened, Connected, Streams
<1>5. ~strayed => Alone' /\ Filtered'
  BY <1>1 DEF Alone, Filtered
<1>7. ~strayed => Sorted'
  <2> SUFFICES ASSUME ~strayed, NEW s \in sources, NEW i \in 1 .. Len(due'[s.n])
               PROVE  Asked(s.filter, due'[s.n][i])
    BY <1>1 DEF Sorted, Asked
  <2>1. s.n = r.n /\ s.filter = r.filter
    BY DEF Alone
  <2>2. /\ Len(due'[s.n]) = Len(due[s.n]) + 1 /\ due'[s.n][Len(due[s.n]) + 1] = k
        /\ \A j \in 1 .. Len(due[s.n]) : due'[s.n][j] = due[s.n][j]
    <3>1. due'[s.n] = Append(due[s.n], k) /\ due[s.n] \in Seq(Nat)
      BY <1>0, <1>2, <2>1
    <3> QED BY ONLY <1>9, <3>1, AppendedRow
  <2>3. i \in 1 .. Len(due[s.n]) \/ i = Len(due[s.n]) + 1
    BY <1>0, <2>1, <2>2
  <2> QED BY <1>1, <2>1, <2>2, <2>3 DEF Sorted
<1>6. ~strayed /\ ~repeated' => NewestFirst'
  <2> SUFFICES ASSUME ~strayed, ~repeated' PROVE NewestFirst'
    OBVIOUS
  <2>0. /\ ~repeated /\ NewestFirst /\ k > last /\ last' = k
        /\ last \in Nat /\ k \in Nat /\ Requests \subseteq Nat
    <3>1. last \in 0 .. MaxRequests /\ repeated \in BOOLEAN
      BY DEF LogsTypeOK
    <3>2. last \in Nat /\ k \in Nat /\ Requests \subseteq Nat
      BY <3>1, LogsBounds
    <3>3. ~repeated /\ ~(k <= last)
      BY <1>1, <3>1
    <3> QED BY <1>1, <3>2, <3>3
  <2>1. \A s \in sources : s.n \in Streams
    BY LogsBounds DEF LogsTypeOK, Streams
  <2>2. ASSUME NEW s \in sources
        PROVE  /\ \A i \in 1 .. Len(due'[s.n]) :
                    /\ due'[s.n][i] <= k
                    /\ \A e \in 1 .. Len(entries) : due'[s.n][i] > entries[e]
               /\ \A i, j \in 1 .. Len(due'[s.n]) : i < j => due'[s.n][i] < due'[s.n][j]
    <3>1. /\ due[s.n] \in Seq(Nat) /\ entries \in Seq(Nat)
          /\ last \in Nat /\ k \in Nat /\ k > last /\ Requests \subseteq Nat
      BY <2>0, <2>1 DEF LogsTypeOK
    <3>2. CASE due'[s.n] = due[s.n]
      <4>1. /\ \A i \in 1 .. Len(due[s.n]) :
                 due[s.n][i] <= last /\ \A e \in 1 .. Len(entries) : due[s.n][i] > entries[e]
            /\ \A i, j \in 1 .. Len(due[s.n]) : i < j => due[s.n][i] < due[s.n][j]
        BY <2>0 DEF NewestFirst
      <4>2. \A i \in 1 .. Len(due[s.n]) : due[s.n][i] \in Nat
        BY ONLY <3>1
      <4>3. \A i \in 1 .. Len(due[s.n]) : due[s.n][i] <= k
        BY ONLY <3>1, <4>1, <4>2
      <4> QED BY ONLY <3>2, <4>1, <4>3
    <3>3. CASE due'[s.n] = Append(due[s.n], k)
      <4>1. /\ Len(due'[s.n]) = Len(due[s.n]) + 1 /\ Len(due[s.n]) \in Nat
            /\ due'[s.n][Len(due[s.n]) + 1] = k
            /\ \A i \in 1 .. Len(due[s.n]) : due'[s.n][i] = due[s.n][i] /\ due[s.n][i] \in Nat
        BY ONLY <3>1, <3>3, AppendedRow
      <4>2. /\ \A i \in 1 .. Len(due[s.n]) :
                 due[s.n][i] <= last /\ \A e \in 1 .. Len(entries) : due[s.n][i] > entries[e]
            /\ \A i, j \in 1 .. Len(due[s.n]) : i < j => due[s.n][i] < due[s.n][j]
            /\ \A e \in 1 .. Len(entries) : entries[e] <= last
        BY <2>0 DEF NewestFirst
      <4>3. \A e \in 1 .. Len(entries) : entries[e] \in Nat
        BY <3>1
      <4>4. \A i \in 1 .. Len(due'[s.n]) : i \in 1 .. Len(due[s.n]) \/ i = Len(due[s.n]) + 1
        BY <4>1
      <4>5. ASSUME NEW i \in 1 .. Len(due'[s.n])
            PROVE  due'[s.n][i] <= k
                   /\ \A e \in 1 .. Len(entries) : due'[s.n][i] > entries[e]
        <5>1. CASE i \in 1 .. Len(due[s.n])
          <6>1. /\ due'[s.n][i] = due[s.n][i] /\ due[s.n][i] \in Nat /\ due[s.n][i] <= last
                /\ \A e \in 1 .. Len(entries) : due[s.n][i] > entries[e]
            BY <5>1, <4>1, <4>2
          <6> QED BY ONLY <3>1, <6>1
        <5>2. CASE i = Len(due[s.n]) + 1
          <6>1. due'[s.n][i] = k
            BY <5>2, <4>1
          <6>2. \A e \in 1 .. Len(entries) : entries[e] \in Nat /\ entries[e] <= last
            BY <4>2, <4>3
          <6> QED BY ONLY <3>1, <6>1, <6>2
        <5> QED BY <4>4, <5>1, <5>2
      <4>6. ASSUME NEW i \in 1 .. Len(due'[s.n]), NEW j \in 1 .. Len(due'[s.n]), i < j
            PROVE  due'[s.n][i] < due'[s.n][j]
        <5>1. i \in 1 .. Len(due[s.n])
          BY <4>1, <4>6
        <5>2. CASE j \in 1 .. Len(due[s.n])
          BY <5>1, <5>2, <4>1, <4>2, <4>6
        <5>3. CASE j = Len(due[s.n]) + 1
          <6>1. due'[s.n][j] = k /\ due'[s.n][i] = due[s.n][i]
            BY <5>1, <5>3, <4>1
          <6>2. due[s.n][i] \in Nat /\ due[s.n][i] <= last
            BY <5>1, <4>1, <4>2
          <6> QED BY ONLY <3>1, <6>1, <6>2
        <5> QED BY <4>4, <5>2, <5>3
      <4> QED BY <4>5, <4>6
    <3> QED BY <1>2, <2>1, <3>2, <3>3
  <2>3. \A e \in 1 .. Len(entries) : entries[e] <= k
    <3>1. \A e \in 1 .. Len(entries) : entries[e] \in Nat /\ entries[e] <= last
      BY <2>0 DEF NewestFirst, LogsTypeOK
    <3> QED BY <2>0, <3>1
  <2> QED BY <1>1, <2>0, <2>2, <2>3 DEF NewestFirst
<1> QED BY <1>1, <1>3, <1>4, <1>5, <1>6, <1>7

LEMMA MessageKept == ASSUME LogsInv, NEW s \in sources, OnMessage(s) PROVE LogsInv'
<1> USE DEF LogsInv
<1>1. s.n \in Streams /\ s.n <= connects /\ due[s.n] \in Seq(Nat) /\ due[s.n] # <<>>
  BY LogsBounds DEF LogsTypeOK, Streams, OnMessage
<1>2. /\ due' = [due EXCEPT ![s.n] = Tail(due[s.n])]
      /\ UNCHANGED <<live, statusFilter, mounted, sources, ref, timers, connects, sending, strayed>>
  BY DEF OnMessage
<1>3. /\ Len(Tail(due[s.n])) = Len(due[s.n]) - 1 /\ Tail(due[s.n]) \in Seq(Nat)
      /\ \A i \in 1 .. Len(due[s.n]) - 1 : Tail(due[s.n])[i] = due[s.n][i + 1]
  BY <1>1
<1> DEFINE first == due[s.n][1]
           all   == <<first>> \o entries
           kept  == IF Len(entries) < MaxEntries THEN Len(entries) + 1 ELSE MaxEntries
<1>4. /\ first \in Nat /\ entries \in Seq(Nat) /\ kept \in 0 .. Len(entries) + 1
  BY <1>1, LogsBounds DEF LogsTypeOK
<1>5. /\ all \in Seq(Nat) /\ Len(all) = Len(entries) + 1 /\ all[1] = first
      /\ \A i \in 2 .. Len(entries) + 1 : all[i] = entries[i - 1]
  <2> HIDE DEF first
  <2> QED BY <1>4
<1>6. SubSeq(all, 1, kept) \in Seq(Nat) /\ Len(SubSeq(all, 1, kept)) = kept
      /\ \A i \in 1 .. kept : SubSeq(all, 1, kept)[i] = all[i]
  <2> HIDE DEF all, kept
  <2> QED BY <1>4, <1>5, SubSeqProperties
<1>7. entries' = IF mounted THEN SubSeq(all, 1, kept) ELSE entries
  BY DEF OnMessage
<1> HIDE DEF all, kept
<1>8. LogsTypeOK'
  <2>1. due' \in [Streams -> Seq(Nat)]
    BY <1>2, <1>3 DEF LogsTypeOK
  <2>2. entries' \in Seq(Nat)
    BY <1>4, <1>6, <1>7
  <2> QED BY <1>2, <2>1, <2>2 DEF LogsTypeOK, sending
<1>9. Unopened' /\ Connected'
  BY <1>1, <1>2 DEF LogsTypeOK, Unopened, Connected
<1>10. ~strayed => Alone'
  BY <1>2 DEF Alone
<1>12. ~strayed => Sorted' /\ Filtered'
  <2> SUFFICES ASSUME ~strayed PROVE Sorted' /\ Filtered'
    OBVIOUS
  <2>1. Alone /\ mounted /\ s.filter = statusFilter
    BY DEF Alone
  <2>2. \A t \in sources : t.n = s.n /\ t.filter = statusFilter /\ due'[t.n] = Tail(due[s.n])
    BY <1>1, <1>2, <2>1 DEF Alone, LogsTypeOK
  <2>3. \A i \in 1 .. Len(due[s.n]) : Asked(statusFilter, due[s.n][i])
    BY <2>1 DEF Sorted
  <2>4. \A i \in 1 .. Len(due[s.n]) - 1 : Asked(statusFilter, Tail(due[s.n])[i])
    <3> TAKE i \in 1 .. Len(due[s.n]) - 1
    <3>1. i + 1 \in 1 .. Len(due[s.n]) /\ Tail(due[s.n])[i] = due[s.n][i + 1]
      BY <1>1, <1>3
    <3> QED BY <2>3, <3>1
  <2>5. Sorted'
    <3>1. sources' = sources
      BY <1>2
    <3>2. ASSUME NEW t \in sources, NEW i \in 1 .. Len(due'[t.n])
          PROVE  t.filter \in {"all", StatusOf[due'[t.n][i]]}
      <4>1. t.filter = statusFilter /\ due'[t.n] = Tail(due[s.n])
        BY ONLY <2>2
      <4>2. i \in 1 .. Len(due[s.n]) - 1 /\ due'[t.n][i] = Tail(due[s.n])[i]
        BY ONLY <1>3, <4>1
      <4> QED BY ONLY <2>4, <4>1, <4>2 DEF Asked
    <3> QED BY ONLY <3>1, <3>2 DEF Sorted, Asked
  <2>6. Len(entries') = kept /\ \A i \in 1 .. kept : entries'[i] = all[i]
    <3>1. entries' = SubSeq(all, 1, kept)
      BY <1>7, <2>1
    <3> QED BY ONLY <1>6, <3>1
  <2>7. \A i \in 1 .. kept : Asked(statusFilter, all[i])
    <3> TAKE i \in 1 .. kept
    <3>1. 1 \in 1 .. Len(due[s.n])
      BY <1>1
    <3>2. CASE i = 1
      BY ONLY <1>5, <2>3, <3>1, <3>2 DEF first
    <3>3. CASE i # 1
      <4>1. i \in 2 .. Len(entries) + 1 /\ i - 1 \in 1 .. Len(entries)
        BY <1>4, <3>3
      <4> QED BY <1>5, <4>1 DEF Filtered
    <3> QED BY <3>2, <3>3
  <2>8. Filtered'
    BY <1>2, <2>6, <2>7 DEF Filtered, Asked
  <2> QED BY <2>5, <2>8
<1>11. ~strayed /\ ~repeated => NewestFirst'
  <2> SUFFICES ASSUME ~strayed, ~repeated PROVE NewestFirst'
    OBVIOUS
  <2>1. \A t \in sources : due'[t.n] = Tail(due[s.n])
    BY <1>1, <1>2 DEF Alone, LogsTypeOK
  <2>2. mounted
    BY DEF Alone
  <2>3. Len(entries') = kept /\ \A i \in 1 .. kept : entries'[i] = IF i = 1 THEN first ELSE entries[i - 1]
    <3>1. entries' = SubSeq(all, 1, kept)
      BY <1>7, <2>2
    <3>2. Len(entries') = kept /\ \A i \in 1 .. kept : entries'[i] = all[i]
      BY ONLY <1>6, <3>1
    <3>3. \A i \in 1 .. kept : all[i] = IF i = 1 THEN first ELSE entries[i - 1]
      <4> SUFFICES ASSUME NEW i \in 1 .. kept PROVE all[i] = IF i = 1 THEN first ELSE entries[i - 1]
        OBVIOUS
      <4>1. Len(entries) \in Nat /\ (i = 1 \/ i \in 2 .. Len(entries) + 1)
        BY ONLY <1>4
      <4> QED BY ONLY <1>5, <4>1
    <3> QED BY ONLY <3>2, <3>3
  <2>4. /\ first <= last
        /\ \A e \in 1 .. Len(entries) : first > entries[e] /\ entries[e] <= last
        /\ \A i \in 2 .. Len(due[s.n]) : first < due[s.n][i] /\ due[s.n][i] <= last
    <3>1. /\ \A i \in 1 .. Len(due[s.n]) :
               due[s.n][i] <= last /\ \A e \in 1 .. Len(entries) : due[s.n][i] > entries[e]
          /\ \A i, j \in 1 .. Len(due[s.n]) : i < j => due[s.n][i] < due[s.n][j]
          /\ \A e \in 1 .. Len(entries) : entries[e] <= last
      BY DEF NewestFirst
    <3>2. 1 \in 1 .. Len(due[s.n]) /\ \A i \in 2 .. Len(due[s.n]) : i \in 1 .. Len(due[s.n]) /\ 1 < i
      BY <1>1
    <3> QED BY <3>1, <3>2
  <2>5. /\ \A e \in 1 .. Len(entries') : entries'[e] <= last
        /\ \A i, j \in 1 .. Len(entries') : i < j => entries'[i] > entries'[j]
    <3> HIDE DEF first
    <3>1. \A i, j \in 1 .. Len(entries) : i < j => entries[i] > entries[j]
      BY DEF NewestFirst
    <3>2. \A i \in 1 .. kept : i = 1 \/ (i - 1 \in 1 .. Len(entries) /\ i \in Nat)
      BY <1>4
    <3>3. \A e \in 1 .. Len(entries') : entries'[e] <= last
      BY <2>3, <2>4, <3>2
    <3>4. ASSUME NEW i \in 1 .. kept, NEW j \in 1 .. kept, i < j
          PROVE  entries'[i] > entries'[j]
      <4>1. j - 1 \in 1 .. Len(entries) /\ entries'[j] = entries[j - 1]
        BY <1>4, <2>3, <3>4
      <4>2. CASE i = 1
        BY <4>1, <4>2, <2>3, <2>4
      <4>3. CASE i # 1
        <5>1. i - 1 \in 1 .. Len(entries) /\ entries'[i] = entries[i - 1] /\ i - 1 < j - 1
          BY <1>4, <2>3, <3>4, <4>3
        <5> QED BY <3>1, <4>1, <5>1
      <4> QED BY <4>2, <4>3
    <3> QED BY <2>3, <3>3, <3>4
  <2>6. \A i \in 1 .. Len(due[s.n]) - 1 :
          /\ Tail(due[s.n])[i] <= last
          /\ \A e \in 1 .. Len(entries') : Tail(due[s.n])[i] > entries'[e]
    <3> TAKE i \in 1 .. Len(due[s.n]) - 1
    <3>1. i + 1 \in 2 .. Len(due[s.n]) /\ Tail(due[s.n])[i] = due[s.n][i + 1]
      BY <1>1, <1>3
    <3>2. i + 1 \in 1 .. Len(due[s.n]) /\ due[s.n][i + 1] \in Nat
      BY <1>1, <3>1
    <3>3. \A e \in 1 .. Len(entries) : due[s.n][i + 1] > entries[e]
      BY <3>2 DEF NewestFirst
    <3> HIDE DEF first
    <3>4. due[s.n][i + 1] > first /\ due[s.n][i + 1] <= last
      BY <1>4, <2>4, <3>1, <3>2
    <3>5. \A e \in 1 .. kept : e = 1 \/ e - 1 \in 1 .. Len(entries)
      BY <1>4
    <3> QED BY <2>3, <3>1, <3>3, <3>4, <3>5
  <2>7. \A i, j \in 1 .. Len(due[s.n]) - 1 : i < j => Tail(due[s.n])[i] < Tail(due[s.n])[j]
    <3>1. \A i, j \in 1 .. Len(due[s.n]) : i < j => due[s.n][i] < due[s.n][j]
      BY DEF NewestFirst
    <3> TAKE i, j \in 1 .. Len(due[s.n]) - 1
    <3> HAVE i < j
    <3>2. i + 1 \in 1 .. Len(due[s.n]) /\ j + 1 \in 1 .. Len(due[s.n]) /\ i + 1 < j + 1
      BY <1>1
    <3> QED BY <1>3, <3>1, <3>2
  <2> DEFINE rest == Tail(due[s.n])
  <2>8. /\ \A i \in 1 .. Len(rest) :
             rest[i] <= last /\ \A e \in 1 .. Len(entries') : rest[i] > entries'[e]
        /\ \A i, j \in 1 .. Len(rest) : i < j => rest[i] < rest[j]
    BY <1>3, <2>6, <2>7
  <2>9. \A t \in sources : due'[t.n] = rest
    BY <2>1
  <2> HIDE DEF rest
  <2> QED BY <1>2, <2>5, <2>8, <2>9 DEF NewestFirst, sending
<1> QED BY <1>2, <1>8, <1>9, <1>10, <1>11, <1>12 DEF sending

\* OneStream: the page has one stream, the one it can close, or waits to open it,
\* and lists what passes its filter, each request once and the newest first if it
\* was sent so, unless it was torn down while a timer ran.
THEOREM OneStreamOpen == LogsSpec => []OneStream
<1>1. LogsInv /\ [LogsNext]_logvars => LogsInv'
  <2> SUFFICES ASSUME LogsInv, [LogsNext]_logvars PROVE LogsInv'
    OBVIOUS
  <2>1. CASE UNCHANGED logvars
    BY <2>1 DEF logvars, sending, LogsInv, LogsTypeOK, Unopened, Connected, Alone, Sorted, Filtered,
           NewestFirst, Asked
  <2> QED BY <2>1, StreamErrorKept, MessageKept, ReconnectKept, ToggleKept, SetFilterKept,
             UnmountKept, ArriveKept DEF LogsNext
<1>2. LogsInv => OneStream
  <2> SUFFICES ASSUME LogsInv PROVE OneStream
    OBVIOUS
  <2>1. \A s \in sources : s = [n |-> s.n, filter |-> s.filter]
    BY DEF LogsInv, LogsTypeOK
  <2>2. DOMAIN entries = 1 .. Len(entries)
    BY DEF LogsInv, LogsTypeOK
  <2> QED BY <2>1, <2>2 DEF LogsInv, Alone, Filtered, NewestFirst, Connected, OneStream
<1> QED BY <1>1, <1>2, LogsStart, PTL DEF LogsSpec
=============================================================================
