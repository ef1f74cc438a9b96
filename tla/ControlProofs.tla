---------------------------- MODULE ControlProofs ----------------------------
(***************************************************************************)
(* The control plane.  What holds of a template and its history for any    *)
(* number of requests, texts and edits; and what holds of the rows of the  *)
(* database, whatever requests run the handlers of its API at one time.    *)
(***************************************************************************)
EXTENDS Templates, ControlPlane, FiniteSetTheorems, FunctionTheorems, SequenceTheorems, TLAPS

-----------------------------------------------------------------------------
(* Templates.                                                              *)

\* The text, the variables and the version of x each occur in a snapshot of S.
Known(S, x) ==
  /\ \E s \in S : s.content = x.content
  /\ \E s \in S : s.variables = x.variables
  /\ \E s \in S : s.version = x.version

\* Text and variables of x occur together in one.
PairKnown(S, x) == \E s \in S : s.content = x.content /\ s.variables = x.variables

\* A template is created once; before that, and for good after its deletion, there is no row.
Life ==
  /\ deleted => row = NoRow
  /\ row = NoRow /\ ~deleted => \A e \in Editors : pc[e] = "idle"

\* What a request has read was in the row, and so in the history.
Patching(e) == pc[e] \in {"snapshot", "update"}

HasRead(e) ==
  /\ pc[e] # "idle" => current[e] \in Row
  /\ (row # NoRow /\ Patching(e)) =>
       /\ Known(Recorded, current[e])
       /\ ~partial => PairKnown(Recorded, current[e])
       /\ ~partial => (body[e].content = Absent <=> body[e].variables = Absent)

\* What a request is about to write has its snapshot.
Written(e) ==
  (row # NoRow /\ pc[e] = "update" /\ Changed(body[e], current[e])) =>
     NewVersion(body[e], current[e]) \in Recorded

IInv ==
  /\ TypeOK /\ Life
  /\ row # NoRow => Known(Recorded, row) /\ (~partial => PairKnown(Recorded, row))
  /\ \A e \in Editors : HasRead(e) /\ Written(e)

-----------------------------------------------------------------------------
LEMMA Monotone ==
  ASSUME NEW S, NEW T, NEW x, S \subseteq T
  PROVE  /\ Known(S, x) => Known(T, x)
         /\ PairKnown(S, x) => PairKnown(T, x)
  BY DEF Known, PairKnown

LEMMA KnownMember ==
  ASSUME NEW S, NEW x \in S
  PROVE  Known(S, x) /\ PairKnown(S, x)
  BY DEF Known, PairKnown

LEMMA NewVersionType ==
  ASSUME NEW b \in Body, NEW cur \in Row
  PROVE  /\ NewVersion(b, cur) \in Row
         /\ NewVersion(b, cur).content = Given(b.content, cur.content)
         /\ NewVersion(b, cur).variables = Given(b.variables, cur.variables)
         /\ NewVersion(b, cur).version = cur.version + 1
<1>1. Given(b.content, cur.content) \in Contents /\ Given(b.variables, cur.variables) \in Variables
  BY DEF Body, Row, Given
<1> QED BY <1>1 DEF NewVersion, Row

(***************************************************************************)
(* A step that forgets no snapshot and leaves the row and a request alone  *)
(* leaves what is known of the two alone.                                  *)
(***************************************************************************)
LEMMA RequestKept ==
  ASSUME NEW e \in Editors, HasRead(e), Written(e),
         row' # NoRow => Recorded \subseteq Recorded' /\ row # NoRow,
         partial => partial',
         pc'[e] = pc[e], body'[e] = body[e], current'[e] = current[e]
  PROVE  HasRead(e)' /\ Written(e)'
<1>1. HasRead(e)'
  <2>1. pc'[e] # "idle" => current'[e] \in Row
    BY DEF HasRead
  <2>2. ASSUME row' # NoRow, Patching(e)'
        PROVE  /\ Known(Recorded', current'[e])
               /\ ~partial' => PairKnown(Recorded', current'[e])
               /\ ~partial' => (body'[e].content = Absent <=> body'[e].variables = Absent)
    <3>1. row # NoRow /\ Patching(e)
      BY <2>2 DEF Patching
    <3> QED BY <2>2, <3>1, Monotone DEF HasRead
  <2> QED BY <2>1, <2>2 DEF HasRead
<1>2. Written(e)'
  BY DEF Written, Changed, NewVersion
<1> QED BY <1>1, <1>2

LEMMA RowKept ==
  ASSUME IInv, row' = row, partial => partial', Recorded \subseteq Recorded'
  PROVE  row' # NoRow => /\ Known(Recorded', row')
                         /\ ~partial' => PairKnown(Recorded', row')
  BY Monotone DEF IInv

LEMMA InitIInv == Init => IInv
<1> SUFFICES ASSUME Init PROVE IInv
  OBVIOUS
<1>1. TypeOK
  <2>1. Blank \in Body
    BY DEF Blank, Body
  <2>2. body \in [Editors -> Body] /\ current \in [Editors -> Row \cup {NoRow}]
    BY <2>1 DEF Init
  <2>3. pc \in [Editors -> {"idle", "initial", "snapshot", "update"}]
    BY DEF Init
  <2>4. edits \in 0 .. MaxEdits
    BY BoundsAssumption DEF Init
  <2> QED BY <2>2, <2>3, <2>4 DEF Init, TypeOK
<1>2. Life /\ \A e \in Editors : HasRead(e) /\ Written(e)
  BY DEF Init, Life, HasRead, Written
<1> QED BY <1>1, <1>2 DEF Init, IInv

LEMMA InsertIInv ==
  ASSUME IInv, NEW e \in Editors, NEW c \in Contents, NEW v \in Variables, Insert(e, c, v)
  PROVE  IInv'
<1> USE DEF IInv
<1>1. row' \in Row /\ row' # NoRow
  BY RowAssumption DEF Insert, Row
<1>2. TypeOK'
  BY <1>1 DEF Insert, TypeOK
<1>3. Life'
  BY <1>1 DEF Insert, Life
<1>4. \A f \in Editors : pc[f] = "idle"
  BY DEF Insert, Life
<1>5. \A f \in Editors : pc'[f] \in {"idle", "initial"}
  BY <1>4 DEF Insert, TypeOK
<1>6. row' \in Recorded'
  <2>1. pc'[e] = "initial" /\ current'[e] = row'
    BY DEF Insert, TypeOK
  <2> QED BY <2>1 DEF Recorded, Owed
<1>7. \A f \in Editors : HasRead(f)' /\ Written(f)'
  <2>1. \A f \in Editors : pc'[f] # "idle" => current'[f] \in Row
    BY <1>1, <1>4 DEF Insert, TypeOK
  <2> QED BY <1>5, <2>1 DEF HasRead, Written, Patching
<1> QED BY <1>2, <1>3, <1>6, <1>7, KnownMember DEF Life

\* The initial version moves to the history, or to what is missed.
LEMMA InsertInitialIInv ==
  ASSUME IInv, NEW e \in Editors, InsertInitial(e)
  PROVE  IInv'
<1> USE DEF IInv
<1>1. current[e] \in Row
  BY DEF InsertInitial, HasRead
<1>2. TypeOK'
  BY <1>1 DEF InsertInitial, Snapshot, TypeOK
<1>3. Life'
  BY DEF InsertInitial, Life, TypeOK
<1>4. Recorded \subseteq Recorded'
  <2> SUFFICES ASSUME NEW s \in Recorded PROVE s \in Recorded'
    OBVIOUS
  <2>1. CASE s \in history \cup missed
    BY <2>1 DEF InsertInitial, Snapshot, Recorded
  <2>2. CASE s \in Owed
    <3>1. PICK f \in Editors : pc[f] = "initial" /\ s = current[f]
      BY <2>2 DEF Owed
    <3>2. CASE f = e
      BY <3>1, <3>2 DEF InsertInitial, Snapshot, Recorded
    <3>3. CASE f # e
      <4>1. pc'[f] = "initial" /\ current'[f] = s
        BY <3>1, <3>3 DEF InsertInitial, TypeOK
      <4> QED BY <4>1 DEF Recorded, Owed
    <3> QED BY <3>2, <3>3
  <2> QED BY <2>1, <2>2 DEF Recorded
<1>5. ASSUME NEW f \in Editors PROVE HasRead(f)' /\ Written(f)'
  <2>1. CASE f = e
    <3>1. pc'[f] = "idle"
      BY <2>1 DEF InsertInitial, TypeOK
    <3> QED BY <3>1 DEF HasRead, Written, Patching
  <2>2. CASE f # e
    <3>1. pc'[f] = pc[f] /\ body'[f] = body[f] /\ current'[f] = current[f]
      BY <2>2 DEF InsertInitial, TypeOK
    <3> QED BY <3>1, <1>4, RequestKept DEF InsertInitial
  <2> QED BY <2>1, <2>2
<1>6. row' = row /\ partial' = partial
  BY DEF InsertInitial
<1> QED BY <1>2, <1>3, <1>4, <1>5, <1>6, RowKept

\* What a request reads is the row, which the history knows.
LEMMA FetchIInv ==
  ASSUME IInv, NEW e \in Editors, NEW b \in Body, Fetch(e, b)
  PROVE  IInv'
<1> USE DEF IInv
<1>1. TypeOK'
  BY BoundsAssumption DEF Fetch, TypeOK
<1>2. Life'
  BY DEF Fetch, Life
<1>3. pc[e] = "idle" /\ row # NoRow /\ row \in Row /\ row' = row
  BY DEF Fetch, TypeOK
<1>4. /\ pc'[e] \in {"snapshot", "update"} /\ body'[e] = b /\ current'[e] = row
      /\ pc'[e] = "update" => ~Changed(b, row)
  BY DEF Fetch, TypeOK
<1>5. \A f \in Editors \ {e} : pc'[f] = pc[f] /\ body'[f] = body[f] /\ current'[f] = current[f]
  BY DEF Fetch, TypeOK
<1>6. Recorded' = Recorded
  BY <1>3, <1>4, <1>5 DEF Fetch, Recorded, Owed
<1>7. /\ partial => partial'
      /\ ~partial' => (b.content = Absent <=> b.variables = Absent)
  BY DEF Fetch, TypeOK
<1>8. HasRead(e)' /\ Written(e)'
  BY <1>3, <1>4, <1>6, <1>7 DEF HasRead, Written, Patching
<1>9. \A f \in Editors \ {e} : HasRead(f)' /\ Written(f)'
  BY <1>3, <1>5, <1>6, <1>7, RequestKept
<1> QED BY <1>1, <1>2, <1>3, <1>6, <1>7, <1>8, <1>9, RowKept

LEMMA InsertVersionIInv ==
  ASSUME IInv, NEW e \in Editors, InsertVersion(e)
  PROVE  IInv'
<1> USE DEF IInv
<1> DEFINE s == NewVersion(body[e], current[e])
<1>1. pc[e] = "snapshot" /\ current[e] \in Row /\ body[e] \in Body /\ s \in Row
  BY NewVersionType DEF InsertVersion, HasRead, TypeOK
<1>2. TypeOK'
  BY <1>1 DEF InsertVersion, Snapshot, TypeOK
<1>3. Life'
  BY DEF InsertVersion, Life, TypeOK
<1>4. pc'[e] = "update" /\ \A f \in Editors \ {e} : pc'[f] = pc[f]
  BY DEF InsertVersion, TypeOK
<1>5. body' = body /\ current' = current /\ row' = row /\ partial' = partial
  BY DEF InsertVersion
<1>6. Recorded \subseteq Recorded' /\ s \in Recorded'
  <2>1. Owed' = Owed
    BY <1>1, <1>4, <1>5 DEF Owed
  <2> QED BY <2>1 DEF InsertVersion, Snapshot, Recorded
<1>7. HasRead(e)' /\ Written(e)'
  <2>1. HasRead(e)'
    <3>1. HasRead(e) /\ Patching(e) /\ Patching(e)'
      BY <1>1, <1>4 DEF Patching
    <3> QED BY <1>1, <1>5, <1>6, <3>1, Monotone DEF HasRead
  <2>2. Written(e)'
    BY <1>5, <1>6 DEF Written, NewVersion
  <2> QED BY <2>1, <2>2
<1>8. \A f \in Editors \ {e} : HasRead(f)' /\ Written(f)'
  BY <1>4, <1>5, <1>6, RequestKept
<1> QED BY <1>2, <1>3, <1>5, <1>6, <1>7, <1>8, RowKept

(***************************************************************************)
(* The row after an update: each field is one the row had or one the       *)
(* request read or sent, and in each case a snapshot has it.               *)
(***************************************************************************)
LEMMA MergedKnown ==
  ASSUME IInv, NEW e \in Editors, pc[e] = "update", row # NoRow
  PROVE  LET m == Merged(body[e], current[e])
         IN  /\ m \in Row
             /\ Known(Recorded, m)
             /\ ~partial => PairKnown(Recorded, m)
<1> USE DEF IInv
<1> DEFINE b == body[e]  cur == current[e]  m == Merged(b, cur)
<1>1. row \in Row /\ cur \in Row /\ b \in Body
  BY DEF TypeOK, HasRead
<1>2. /\ Known(Recorded, row) /\ Known(Recorded, cur)
      /\ ~partial => /\ PairKnown(Recorded, row) /\ PairKnown(Recorded, cur)
                     /\ b.content = Absent <=> b.variables = Absent
  BY DEF HasRead, Patching
<1>3. /\ m.content = Given(b.content, row.content)
      /\ m.variables = Given(b.variables, row.variables)
      /\ m.version = IF Changed(b, cur) THEN cur.version + 1 ELSE row.version
  BY DEF Merged
<1>4. m \in Row
  <2>1. /\ Given(b.content, row.content) \in Contents
        /\ Given(b.variables, row.variables) \in Variables
        /\ (IF Changed(b, cur) THEN cur.version + 1 ELSE row.version) \in Nat
    BY <1>1 DEF Body, Row, Given
  <2> QED BY <2>1 DEF Merged, Row
<1>5. CASE Changed(b, cur)
  <2> DEFINE s == NewVersion(b, cur)
  <2>1. s \in Recorded
    BY <1>5 DEF Written
  <2>2. /\ s.content = Given(b.content, cur.content)
        /\ s.variables = Given(b.variables, cur.variables)
        /\ s.version = m.version
    BY <1>1, <1>3, <1>5, NewVersionType
  <2>3. \E t \in Recorded : t.content = m.content
    BY <1>2, <1>3, <2>1, <2>2 DEF Known, Given
  <2>4. \E t \in Recorded : t.variables = m.variables
    BY <1>2, <1>3, <2>1, <2>2 DEF Known, Given
  <2>5. \E t \in Recorded : t.version = m.version
    BY <2>1, <2>2
  <2>6. ~partial => PairKnown(Recorded, m)
    BY <1>2, <1>3, <2>1, <2>2 DEF PairKnown, Given
  <2> HIDE DEF m
  <2> QED BY <1>4, <2>3, <2>4, <2>5, <2>6 DEF Known, m
<1>6. CASE ~Changed(b, cur)
  <2>1. /\ Given(b.content, cur.content) = cur.content
        /\ Given(b.variables, cur.variables) = cur.variables
        /\ m.version = row.version
    BY <1>3, <1>6 DEF Changed
  <2>2. m.content \in {row.content, cur.content} /\ m.variables \in {row.variables, cur.variables}
    BY <1>3, <2>1 DEF Given
  <2>3. Known(Recorded, m)
    BY <1>2, <2>1, <2>2 DEF Known
  <2>4. ~partial => PairKnown(Recorded, m)
    BY <1>2, <1>3, <2>1 DEF PairKnown, Given
  <2> QED BY <1>4, <2>3, <2>4
<1> QED BY <1>5, <1>6

LEMMA UpdateIInv ==
  ASSUME IInv, NEW e \in Editors, Update(e)
  PROVE  IInv'
<1> USE DEF IInv
<1>1. pc[e] = "update" /\ partial' = partial
  BY DEF Update
<1>2. \/ row # NoRow /\ row' = Merged(body[e], current[e]) /\ row' \in Row
      \/ row' = row
  BY <1>1, MergedKnown DEF Update
<1>3. TypeOK'
  <2>1. row' \in Row \cup {NoRow}
    BY <1>2 DEF TypeOK
  <2>2. halfway' \in BOOLEAN
    BY DEF Update, TypeOK, Changed
  <2> QED BY <2>1, <2>2 DEF Update, TypeOK, Body, Blank
<1>4. row' # NoRow => row # NoRow
  BY <1>2
<1>5. Life'
  BY <1>1, <1>2, RowAssumption DEF Update, Life, TypeOK, Row
<1>6. /\ pc'[e] = "idle"
      /\ \A f \in Editors \ {e} : pc'[f] = pc[f] /\ body'[f] = body[f] /\ current'[f] = current[f]
  BY DEF Update, TypeOK
<1>7. Recorded' = Recorded
  BY <1>1, <1>6 DEF Update, Recorded, Owed
<1>8. row' # NoRow => /\ Known(Recorded', row')
                      /\ ~partial' => PairKnown(Recorded', row')
  BY <1>1, <1>2, <1>7, MergedKnown
<1>9. HasRead(e)' /\ Written(e)'
  BY <1>6 DEF HasRead, Written, Patching
<1>10. \A f \in Editors \ {e} : HasRead(f)' /\ Written(f)'
  BY <1>1, <1>4, <1>6, <1>7, RequestKept
<1> QED BY <1>3, <1>5, <1>8, <1>9, <1>10

LEMMA DeleteIInv == IInv /\ Delete => IInv'
<1> SUFFICES ASSUME IInv, Delete PROVE IInv'
  OBVIOUS
<1> USE DEF IInv
<1>1. TypeOK' /\ Life' /\ row' = NoRow
  BY DEF Delete, TypeOK, Life
<1>2. \A f \in Editors : HasRead(f)' /\ Written(f)'
  BY <1>1 DEF Delete, HasRead, Written
<1> QED BY <1>1, <1>2

THEOREM Invariance == Spec => []IInv
<1>1. IInv /\ [Next]_vars => IInv'
  <2> SUFFICES ASSUME IInv, [Next]_vars PROVE IInv'
    OBVIOUS
  <2>1. CASE \E e \in Editors, c \in Contents, v \in Variables : Insert(e, c, v)
    BY <2>1, InsertIInv
  <2>2. CASE \E e \in Editors : InsertInitial(e)
    BY <2>2, InsertInitialIInv
  <2>3. CASE \E e \in Editors, b \in Body : Fetch(e, b)
    BY <2>3, FetchIInv
  <2>4. CASE \E e \in Editors : InsertVersion(e)
    BY <2>4, InsertVersionIInv
  <2>5. CASE \E e \in Editors : Update(e)
    BY <2>5, UpdateIInv
  <2>6. CASE Delete
    BY <2>6, DeleteIInv
  <2>7. CASE UNCHANGED vars
    <3>1. TypeOK' /\ Life' /\ Recorded' = Recorded
      BY <2>7 DEF vars, IInv, TypeOK, Life, Recorded, Owed
    <3>2. \A e \in Editors : HasRead(e)' /\ Written(e)'
      BY <2>7, RequestKept, <3>1 DEF vars, IInv
    <3> QED BY <2>7, <3>1, <3>2, RowKept DEF vars, IInv
  <2> QED BY <2>1, <2>2, <2>3, <2>4, <2>5, <2>6, <2>7 DEF Next
<1> QED BY <1>1, InitIInv, PTL DEF Spec

(***************************************************************************)
(* Types: no update leaves a field of the row blank, whatever the body     *)
(* leaves out.                                                             *)
(***************************************************************************)
THEOREM TypeCorrect == Spec => []TypeOK
  BY Invariance, PTL DEF IInv

(***************************************************************************)
(* The history has the text, the variables and the version of the template *)
(* whatever edits overlap: only a failed insert keeps them out.            *)
(***************************************************************************)
THEOREM HistoryHasTheTemplate == Spec => []EveryTextRecorded
<1>1. IInv => EveryTextRecorded
  BY DEF IInv, EveryTextRecorded, Known
<1> QED BY <1>1, Invariance, PTL

(***************************************************************************)
(* Edits of the dashboard never mix the text of one with the variables of  *)
(* another: the pair in the row is the pair of a snapshot.                 *)
(***************************************************************************)
THEOREM EditsNotMixed == Spec => []PairRecorded
<1>1. IInv => PairRecorded
  BY DEF IInv, PairRecorded, PairKnown
<1> QED BY <1>1, Invariance, PTL

-----------------------------------------------------------------------------
(* One request at a time.  Between requests the history is exact; a POST   *)
(* has yet to begin it, and a PATCH is one version ahead of the row from   *)
(* its snapshot to its update.                                             *)

Exact(h, r) ==
  /\ r \in h /\ r.version \in Nat \ {0}
  /\ \A s \in h : s.version \in 1 .. r.version
  /\ \A n \in 1 .. r.version : \E s \in h : s.version = n
  /\ \A s, t \in h : s.version = t.version => s = t

Midway(e) ==
  /\ current[e] = row
  /\ pc[e] = "initial" => history = {} /\ row.version = 1
  /\ pc[e] = "snapshot" => Changed(body[e], row) /\ Exact(history, row)
  /\ pc[e] = "update" =>
       Exact(history, IF Changed(body[e], row) THEN NewVersion(body[e], row) ELSE row)

Undisturbed == row # NoRow /\ ~overlap /\ ~halfway /\ missed = {}

Serial ==
  /\ row = NoRow => history = {}
  /\ Undisturbed =>
       /\ \A e, f \in Editors : pc[e] # "idle" /\ pc[f] # "idle" => e = f
       /\ (\A e \in Editors : pc[e] = "idle") => Exact(history, row)
       /\ \A e \in Editors : pc[e] # "idle" => Midway(e)

\* A version is added to an exact history.
LEMMA ExactGrows ==
  ASSUME NEW h, h \subseteq Row, NEW r \in Row, NEW s \in Row, Exact(h, r), s.version = r.version + 1
  PROVE  Exact(h \cup {s}, s)
<1>1. r.version \in Nat /\ \A t \in h : t.version \in 1 .. r.version
  BY DEF Exact, Row
<1>2. \A t \in h : t.version # s.version /\ t.version \in 1 .. s.version
  BY <1>1
<1>3. \A n \in 1 .. s.version : n \in 1 .. r.version \/ n = s.version
  BY <1>1
<1> QED BY <1>1, <1>2, <1>3 DEF Exact

\* The update of a request that has read the row.
LEMMA MergedOwn ==
  ASSUME NEW b \in Body, row \in Row
  PROVE  Merged(b, row) = IF Changed(b, row) THEN NewVersion(b, row) ELSE row
<1>1. CASE Changed(b, row)
  BY <1>1 DEF Merged, NewVersion
<1>2. CASE ~Changed(b, row)
  <2>1. Given(b.content, row.content) = row.content /\ Given(b.variables, row.variables) = row.variables
    BY <1>2 DEF Changed
  <2> QED BY <1>2, <2>1 DEF Merged, Row
<1> QED BY <1>1, <1>2

LEMMA SerialStep == ASSUME IInv, Serial, [Next]_vars PROVE Serial'
<1> SUFFICES ASSUME Next PROVE Serial'
  <2>1. CASE UNCHANGED vars
    BY <2>1 DEF vars, Serial, Undisturbed, Midway
  <2> QED BY <2>1
<1>1. ASSUME NEW e \in Editors, NEW c \in Contents, NEW v \in Variables, Insert(e, c, v) PROVE Serial'
  <2>1. /\ row = NoRow /\ ~deleted /\ history' = history /\ row'.version = 1
        /\ pc' = [pc EXCEPT ![e] = "initial"] /\ current' = [current EXCEPT ![e] = row']
    BY <1>1 DEF Insert
  <2>2. row' # NoRow
    BY <1>1, RowAssumption DEF Insert, Row
  <2>3. history = {} /\ \A f \in Editors : pc[f] = "idle"
    BY <2>1 DEF Serial, IInv, Life
  <2>4. pc'[e] = "initial" /\ current'[e] = row' /\ \A f \in Editors \ {e} : pc'[f] = "idle"
    BY <2>1, <2>3 DEF IInv, TypeOK
  <2> QED BY <2>1, <2>2, <2>3, <2>4 DEF Serial, Midway
<1>2. ASSUME NEW e \in Editors, InsertInitial(e) PROVE Serial'
  <2>1. /\ pc[e] = "initial" /\ pc' = [pc EXCEPT ![e] = "idle"]
        /\ UNCHANGED <<row, overlap, halfway>> /\ Snapshot(current[e])
    BY <1>2 DEF InsertInitial
  <2>2. row = NoRow => history' = {}
    BY <2>1 DEF Snapshot, Serial
  <2>3. ASSUME Undisturbed'
        PROVE  /\ \A f \in Editors : pc'[f] = "idle"
               /\ Exact(history', row')
    <3>1. Undisturbed /\ history' = history \cup {current[e]}
      BY <2>1, <2>3 DEF Undisturbed, Snapshot
    <3>2. Midway(e) /\ \A f \in Editors \ {e} : pc[f] = "idle"
      BY <2>1, <3>1 DEF Serial
    <3>3. history' = {row} /\ row.version = 1
      BY <2>1, <3>1, <3>2 DEF Midway
    <3> QED BY <2>1, <3>2, <3>3 DEF Exact, IInv, TypeOK
  <2> QED BY <2>1, <2>2, <2>3 DEF Serial
<1>3. ASSUME NEW e \in Editors, NEW b \in Body, Fetch(e, b) PROVE Serial'
  <2>1. /\ pc[e] = "idle" /\ row # NoRow /\ body' = [body EXCEPT ![e] = b]
        /\ current' = [current EXCEPT ![e] = row]
        /\ pc' = [pc EXCEPT ![e] = IF Changed(b, row) THEN "snapshot" ELSE "update"]
        /\ UNCHANGED <<row, history, missed, halfway>>
        /\ overlap' = (overlap \/ ~Alone(e))
    BY <1>3 DEF Fetch
  <2>2. ASSUME Undisturbed'
        PROVE  /\ Midway(e)'
               /\ \A f \in Editors \ {e} : pc'[f] = "idle"
               /\ pc'[e] # "idle"
    <3>1. Undisturbed /\ Alone(e)
      BY <2>1, <2>2 DEF Undisturbed
    <3>2. \A f \in Editors : pc[f] = "idle"
      BY <2>1, <3>1 DEF Alone
    <3>3. Exact(history, row)
      BY <3>1, <3>2 DEF Serial
    <3>4. /\ body'[e] = b /\ current'[e] = row /\ pc'[e] = IF Changed(b, row) THEN "snapshot" ELSE "update"
          /\ \A f \in Editors \ {e} : pc'[f] = "idle"
      BY <2>1, <3>2 DEF IInv, TypeOK
    <3> QED BY <2>1, <3>3, <3>4 DEF Midway, Changed
  <2> QED BY <2>1, <2>2 DEF Serial
<1>4. ASSUME NEW e \in Editors, InsertVersion(e) PROVE Serial'
  <2>1. /\ pc[e] = "snapshot" /\ pc' = [pc EXCEPT ![e] = "update"]
        /\ UNCHANGED <<row, body, current, overlap, halfway>>
        /\ Snapshot(NewVersion(body[e], current[e]))
    BY <1>4 DEF InsertVersion
  <2>2. row = NoRow => history' = {}
    BY <2>1 DEF Snapshot, Serial
  <2>3. ASSUME Undisturbed'
        PROVE  /\ Midway(e)'
               /\ \A f \in Editors \ {e} : pc'[f] = "idle"
               /\ pc'[e] # "idle"
    <3>1. Undisturbed /\ history' = history \cup {NewVersion(body[e], current[e])}
      BY <2>1, <2>3 DEF Undisturbed, Snapshot
    <3>2. Midway(e) /\ \A f \in Editors \ {e} : pc[f] = "idle"
      BY <2>1, <3>1 DEF Serial
    <3>3. /\ current[e] = row /\ Changed(body[e], row) /\ Exact(history, row)
      BY <2>1, <3>2 DEF Midway
    <3>4. row \in Row /\ body[e] \in Body /\ history \subseteq Row
      BY <3>1 DEF IInv, TypeOK, Undisturbed
    <3>5. NewVersion(body[e], row) \in Row /\ NewVersion(body[e], row).version = row.version + 1
      BY <3>4, NewVersionType
    <3>6. Exact(history', NewVersion(body[e], row))
      BY <3>1, <3>3, <3>4, <3>5, ExactGrows
    <3>7. pc'[e] = "update" /\ \A f \in Editors \ {e} : pc'[f] = "idle"
      BY <2>1, <3>2 DEF IInv, TypeOK
    <3> QED BY <2>1, <3>3, <3>6, <3>7 DEF Midway, Changed, NewVersion
  <2> QED BY <2>1, <2>2, <2>3 DEF Serial
<1>5. ASSUME NEW e \in Editors, Update(e) PROVE Serial'
  <2>1. /\ pc[e] = "update" /\ pc' = [pc EXCEPT ![e] = "idle"]
        /\ UNCHANGED <<history, missed, overlap>>
        /\ \/ row # NoRow /\ row' = Merged(body[e], current[e]) /\ halfway' = halfway
           \/ row' = row /\ halfway' = (halfway \/ Changed(body[e], current[e]))
    BY <1>5 DEF Update
  <2>2. row' # NoRow => row # NoRow
    BY <2>1
  <2>3. row' = NoRow => row = NoRow
    BY <2>1, MergedKnown, RowAssumption DEF Row
  <2>4. ASSUME Undisturbed'
        PROVE  Exact(history', row') /\ \A f \in Editors : pc'[f] = "idle"
    <3>0. row # NoRow /\ ~overlap /\ missed = {} /\ ~halfway'
      BY <2>1, <2>2, <2>4 DEF Undisturbed
    <3>1. Undisturbed
      <4>1. ~halfway
        BY <2>1, <3>0, Zenon
      <4> QED BY <3>0, <4>1 DEF Undisturbed
    <3>2. Midway(e) /\ \A f \in Editors \ {e} : pc[f] = "idle"
      BY <2>1, <3>1 DEF Serial
    <3>3. row \in Row /\ body[e] \in Body /\ current[e] = row
      BY <3>1, <3>2 DEF IInv, TypeOK, Undisturbed, Midway
    <3>4. row' = IF Changed(body[e], row) THEN NewVersion(body[e], row) ELSE row
      BY <2>1, <2>4, <3>3, MergedOwn DEF Undisturbed
    <3>5. Exact(history, row')
      BY <2>1, <3>2, <3>4 DEF Midway
    <3>6. \A f \in Editors : pc'[f] = "idle"
      BY <2>1, <3>2 DEF IInv, TypeOK
    <3> QED BY <2>1, <3>5, <3>6
  <2> QED BY <2>1, <2>3, <2>4 DEF Serial
<1>6. CASE Delete
  BY <1>6 DEF Delete, Serial, Undisturbed
<1> QED BY <1>1, <1>2, <1>3, <1>4, <1>5, <1>6 DEF Next

(***************************************************************************)
(* Edits that come one after the other, with no failure, leave one         *)
(* snapshot per version, and the last is the template.                     *)
(***************************************************************************)
THEOREM SerialHistoryIsExact == Spec => []SerialHistory
<1>1. Init => Serial
  BY DEF Init, Serial, Undisturbed
<1>2. Spec => []Serial
  BY <1>1, SerialStep, Invariance, PTL DEF Spec
<1>3. Serial => SerialHistory
  <2> SUFFICES ASSUME Serial, Undisturbed, \A e \in Editors : pc[e] = "idle"
               PROVE  /\ row \in history
                      /\ \A s \in history : s.version \in 1 .. row.version
                      /\ \A n \in 1 .. row.version : Cardinality({s \in history : s.version = n}) = 1
    BY DEF SerialHistory, Undisturbed
  <2>1. Exact(history, row)
    BY DEF Serial
  <2>2. ASSUME NEW n \in 1 .. row.version PROVE Cardinality({s \in history : s.version = n}) = 1
    <3>1. PICK s \in history : s.version = n
      BY <2>1 DEF Exact
    <3>2. {t \in history : t.version = n} = {s}
      BY <2>1, <3>1 DEF Exact
    <3> QED BY <3>2, FS_Singleton
  <2> QED BY <2>1, <2>2 DEF Exact
<1> QED BY <1>2, <1>3, PTL

-----------------------------------------------------------------------------
(* The handlers.  Every statement names a table there is, and what writes  *)
(* an incident or a test is the handler whose body has its status.         *)

Tables == DOMAIN Schema
Others == Tables \ {"incidents", "ab_tests"}

StmtOK(s, route, method) ==
  /\ s.cmd = "insert" => s.table \in Tables
  /\ s.cmd = "insert" /\ s.table = "incidents" => FALSE
  /\ s.cmd = "insert" /\ s.table = "ab_tests" => route = "ab_tests" /\ method = "POST"
  /\ s.cmd = "update" /\ s.table = "incidents" => route = "incident" /\ method = "PATCH"
  /\ s.cmd = "update" /\ s.table = "ab_tests" => route = "ab_test" /\ method = "PATCH"

PlanOK(plan, route, method) == \A i \in 1 .. Len(plan) : StmtOK(plan[i], route, method)

HandlersOK(handlers, route) == \A m \in DOMAIN handlers : PlanOK(handlers[m].plan, route, m)

LEMMA TableNames ==
  Tables = {"organizations", "memberships", "projects", "environments", "providers", "models", "routes",
            "api_keys", "requests", "incidents", "audit_log", "webhooks", "webhook_deliveries", "alert_rules",
            "ab_tests", "ab_test_assignments", "evaluations", "prompt_templates", "prompt_template_versions"}
BY DEF Tables, Schema

\* Statements that write nothing, or no row with a status.
LEMMA Reads ==
  ASSUME NEW route, NEW method
  PROVE  /\ \A t, by : /\ StmtOK(List(t, by), route, method) /\ StmtOK(One(t, by), route, method)
                       /\ StmtOK(Unused(t, by), route, method) /\ StmtOK(Erase(t, by), route, method)
                       /\ StmtOK(Ignoring(List(t, by)), route, method)
                       /\ \A a : /\ StmtOK(OrElse(One(t, by), a), route, method)
                                 /\ StmtOK(Optional(OrElse(One(t, by), a)), route, method)
         /\ \A t : /\ StmtOK(Need(t), route, method) /\ StmtOK(Copy(t), route, method)
                   /\ StmtOK(Ask(t), route, method) /\ StmtOK(Ignoring(Ask(t)), route, method)
<1> USE DEF StmtOK, List, One, Unused, Erase, Ignoring, OrElse, Optional, Need, Copy, Ask, Read
<1>1. ASSUME NEW t, NEW by
      PROVE  /\ StmtOK(List(t, by), route, method) /\ StmtOK(One(t, by), route, method)
             /\ StmtOK(Unused(t, by), route, method) /\ StmtOK(Erase(t, by), route, method)
             /\ StmtOK(Ignoring(List(t, by)), route, method)
             /\ \A a : /\ StmtOK(OrElse(One(t, by), a), route, method)
                       /\ StmtOK(Optional(OrElse(One(t, by), a)), route, method)
  OBVIOUS
<1>2. ASSUME NEW t
      PROVE  /\ StmtOK(Need(t), route, method) /\ StmtOK(Copy(t), route, method)
             /\ StmtOK(Ask(t), route, method) /\ StmtOK(Ignoring(Ask(t)), route, method)
  OBVIOUS
<1> QED BY <1>1, <1>2

LEMMA Writes ==
  ASSUME NEW route, NEW method
  PROVE  /\ \A t \in Others : /\ StmtOK(Add(t), route, method) /\ StmtOK(Put(t), route, method)
                              /\ StmtOK(Ignoring(Put(t)), route, method)
                              /\ \A by : StmtOK(Patch(t, by), route, method) /\ StmtOK(PatchFound(t, by), route, method)
                              /\ \A n : StmtOK(PatchNth(t, n), route, method)
         /\ StmtOK(Add("ab_tests"), "ab_tests", "POST")
         /\ \A by : /\ StmtOK(Patch("incidents", by), "incident", "PATCH")
                    /\ StmtOK(Patch("ab_tests", by), "ab_test", "PATCH")
<1> USE DEF StmtOK, Add, Put, Ignoring, Patch, PatchFound, PatchNth, OrElse, Read
<1>1. ASSUME NEW t \in Others
      PROVE  /\ StmtOK(Add(t), route, method) /\ StmtOK(Put(t), route, method)
             /\ StmtOK(Ignoring(Put(t)), route, method)
             /\ \A by : StmtOK(Patch(t, by), route, method) /\ StmtOK(PatchFound(t, by), route, method)
             /\ \A n : StmtOK(PatchNth(t, n), route, method)
  BY DEF Others
<1>2. StmtOK(Add("ab_tests"), "ab_tests", "POST")
  BY TableNames
<1>3. ASSUME NEW by PROVE StmtOK(Patch("incidents", by), "incident", "PATCH") /\ StmtOK(Patch("ab_tests", by), "ab_test", "PATCH")
  OBVIOUS
<1> QED BY <1>1, <1>2, <1>3

LEMMA OthersNames ==
  {"organizations", "memberships", "projects", "environments", "providers", "routes", "api_keys", "requests",
   "webhooks", "webhook_deliveries", "alert_rules", "evaluations"} \subseteq Others
BY TableNames DEF Others

LEMMA Plans ==
  ASSUME NEW route, NEW method
  PROVE  /\ \A a : StmtOK(a, route, method) => PlanOK(<<a>>, route, method)
         /\ \A a, b : StmtOK(a, route, method) /\ StmtOK(b, route, method) => PlanOK(<<a, b>>, route, method)
         /\ \A a, b, c : StmtOK(a, route, method) /\ StmtOK(b, route, method) /\ StmtOK(c, route, method)
                           => PlanOK(<<a, b, c>>, route, method)
         /\ \A a, b, c, d : /\ StmtOK(a, route, method) /\ StmtOK(b, route, method)
                            /\ StmtOK(c, route, method) /\ StmtOK(d, route, method)
                            => PlanOK(<<a, b, c, d>>, route, method)
         /\ \A a, b, c, d, e : /\ StmtOK(a, route, method) /\ StmtOK(b, route, method)
                               /\ StmtOK(c, route, method) /\ StmtOK(d, route, method) /\ StmtOK(e, route, method)
                               => PlanOK(<<a, b, c, d, e>>, route, method)
BY DEF PlanOK

LEMMA HandlersSound == \A route \in DOMAIN API : HandlersOK(API[route], route)
<1> USE DEF HandlersOK, Handler
<1>1. HandlersOK(OrganizationsRoute, "organizations")
  <2>1. PlanOK(OrganizationsRoute.GET.plan, "organizations", "GET")
    BY Plans, Reads, Writes, OthersNames DEF OrganizationsRoute
  <2>2. PlanOK(OrganizationsRoute.POST.plan, "organizations", "POST")
    BY Plans, Reads, Writes, OthersNames DEF OrganizationsRoute
  <2> QED BY <2>1, <2>2 DEF OrganizationsRoute
<1>2. HandlersOK(OrganizationRoute, "organization")
  <2>1. PlanOK(OrganizationRoute.GET.plan, "organization", "GET")
    BY Plans, Reads, Writes, OthersNames DEF OrganizationRoute
  <2>2. PlanOK(OrganizationRoute.PATCH.plan, "organization", "PATCH")
    BY Plans, Reads, Writes, OthersNames DEF OrganizationRoute
  <2>3. PlanOK(OrganizationRoute.DELETE.plan, "organization", "DELETE")
    BY Plans, Reads, Writes, OthersNames DEF OrganizationRoute
  <2> QED BY <2>1, <2>2, <2>3 DEF OrganizationRoute
<1>3. HandlersOK(ProjectsRoute, "projects")
  <2>1. PlanOK(ProjectsRoute.GET.plan, "projects", "GET")
    BY Plans, Reads, Writes, OthersNames DEF ProjectsRoute
  <2>2. PlanOK(ProjectsRoute.POST.plan, "projects", "POST")
    BY Plans, Reads, Writes, OthersNames DEF ProjectsRoute
  <2> QED BY <2>1, <2>2 DEF ProjectsRoute
<1>4. HandlersOK(MembersRoute, "members")
  <2>1. PlanOK(MembersRoute.GET.plan, "members", "GET")
    BY Plans, Reads, Writes, OthersNames DEF MembersRoute
  <2>2. PlanOK(MembersRoute.POST.plan, "members", "POST")
    BY Plans, Reads, Writes, OthersNames DEF MembersRoute
  <2> QED BY <2>1, <2>2 DEF MembersRoute
<1>5. HandlersOK(EnvironmentsRoute, "environments")
  <2>1. PlanOK(EnvironmentsRoute.GET.plan, "environments", "GET")
    BY Plans, Reads, Writes, OthersNames DEF EnvironmentsRoute
  <2>2. PlanOK(EnvironmentsRoute.POST.plan, "environments", "POST")
    BY Plans, Reads, Writes, OthersNames DEF EnvironmentsRoute
  <2> QED BY <2>1, <2>2 DEF EnvironmentsRoute
<1>6. HandlersOK(ProvidersRoute, "providers")
  <2>1. PlanOK(ProvidersRoute.GET.plan, "providers", "GET")
    BY Plans, Reads, Writes, OthersNames DEF ProvidersRoute
  <2>2. PlanOK(ProvidersRoute.POST.plan, "providers", "POST")
    BY Plans, Reads, Writes, OthersNames DEF ProvidersRoute
  <2> QED BY <2>1, <2>2 DEF ProvidersRoute
<1>7. HandlersOK(ProviderRoute, "provider")
  <2>1. PlanOK(ProviderRoute.GET.plan, "provider", "GET")
    BY Plans, Reads, Writes, OthersNames DEF ProviderRoute
  <2>2. PlanOK(ProviderRoute.PATCH.plan, "provider", "PATCH")
    BY Plans, Reads, Writes, OthersNames DEF ProviderRoute
  <2>3. PlanOK(ProviderRoute.DELETE.plan, "provider", "DELETE")
    BY Plans, Reads, Writes, OthersNames DEF ProviderRoute
  <2> QED BY <2>1, <2>2, <2>3 DEF ProviderRoute
<1>8. HandlersOK(ModelsRoute, "models")
  BY Plans, Reads, Writes, OthersNames DEF ModelsRoute
<1>9. HandlersOK(DashboardRoute, "dashboard")
  BY Plans, Reads, Writes, OthersNames DEF DashboardRoute
<1>10. HandlersOK(AnalyticsRoute, "analytics")
  BY Plans, Reads, Writes, OthersNames DEF AnalyticsRoute
<1>11. HandlersOK(SummaryRoute, "summary")
  BY Plans, Reads, Writes, OthersNames DEF SummaryRoute
<1>12. HandlersOK(AuditLogRoute, "audit_log")
  BY Plans, Reads, Writes, OthersNames DEF AuditLogRoute
<1>13. HandlersOK(RequestsRoute, "requests")
  BY Plans, Reads, Writes, OthersNames DEF RequestsRoute
<1>14. HandlersOK(CacheRoute, "cache")
  BY Plans, Reads, Writes, OthersNames DEF CacheRoute
<1>15. HandlersOK(WebhooksRoute, "webhooks")
  <2>1. PlanOK(WebhooksRoute.GET.plan, "webhooks", "GET")
    BY Plans, Reads, Writes, OthersNames DEF WebhooksRoute
  <2>2. PlanOK(WebhooksRoute.POST.plan, "webhooks", "POST")
    BY Plans, Reads, Writes, OthersNames DEF WebhooksRoute
  <2> QED BY <2>1, <2>2 DEF WebhooksRoute
<1>16. HandlersOK(WebhookRoute, "webhook")
  <2>1. PlanOK(WebhookRoute.GET.plan, "webhook", "GET")
    BY Plans, Reads, Writes, OthersNames DEF WebhookRoute
  <2>2. PlanOK(WebhookRoute.PATCH.plan, "webhook", "PATCH")
    BY Plans, Reads, Writes, OthersNames DEF WebhookRoute
  <2>3. PlanOK(WebhookRoute.DELETE.plan, "webhook", "DELETE")
    BY Plans, Reads, Writes, OthersNames DEF WebhookRoute
  <2> QED BY <2>1, <2>2, <2>3 DEF WebhookRoute
<1>17. HandlersOK(DeliveriesRoute, "deliveries")
  BY Plans, Reads, Writes, OthersNames DEF DeliveriesRoute
<1>18. HandlersOK(WebhookTestRoute, "test")
  BY Plans, Reads, Writes, OthersNames DEF WebhookTestRoute
<1>19. HandlersOK(AlertsRoute, "alerts")
  <2>1. PlanOK(AlertsRoute.GET.plan, "alerts", "GET")
    BY Plans, Reads, Writes, OthersNames DEF AlertsRoute
  <2>2. PlanOK(AlertsRoute.POST.plan, "alerts", "POST")
    BY Plans, Reads, Writes, OthersNames DEF AlertsRoute
  <2> QED BY <2>1, <2>2 DEF AlertsRoute
<1>20. HandlersOK(AlertRoute, "alert")
  <2>1. PlanOK(AlertRoute.GET.plan, "alert", "GET")
    BY Plans, Reads, Writes, OthersNames DEF AlertRoute
  <2>2. PlanOK(AlertRoute.PATCH.plan, "alert", "PATCH")
    BY Plans, Reads, Writes, OthersNames DEF AlertRoute
  <2>3. PlanOK(AlertRoute.DELETE.plan, "alert", "DELETE")
    BY Plans, Reads, Writes, OthersNames DEF AlertRoute
  <2> QED BY <2>1, <2>2, <2>3 DEF AlertRoute
<1>21. HandlersOK(EvaluationsRoute, "evaluations")
  <2>1. PlanOK(EvaluationsRoute.GET.plan, "evaluations", "GET")
    BY Plans, Reads, Writes, OthersNames DEF EvaluationsRoute
  <2>2. PlanOK(EvaluationsRoute.POST.plan, "evaluations", "POST")
    BY Plans, Reads, Writes, OthersNames DEF EvaluationsRoute
  <2> QED BY <2>1, <2>2 DEF EvaluationsRoute
<1>22. HandlersOK(RoutesRoute, "routes")
  <2>1. PlanOK(RoutesRoute.GET.plan, "routes", "GET")
    BY Plans, Reads, Writes, OthersNames DEF RoutesRoute
  <2>2. PlanOK(RoutesRoute.POST.plan, "routes", "POST")
    BY Plans, Reads, Writes, OthersNames DEF RoutesRoute
  <2> QED BY <2>1, <2>2 DEF RoutesRoute
<1>23. HandlersOK(ApiKeysRoute, "api_keys")
  <2>1. PlanOK(ApiKeysRoute.GET.plan, "api_keys", "GET")
    BY Plans, Reads, Writes, OthersNames DEF ApiKeysRoute
  <2>2. PlanOK(ApiKeysRoute.POST.plan, "api_keys", "POST")
    BY Plans, Reads, Writes, OthersNames DEF ApiKeysRoute
  <2> QED BY <2>1, <2>2 DEF ApiKeysRoute
<1>24. HandlersOK(RateLimitsRoute, "rate_limits")
  <2>1. PlanOK(RateLimitsRoute.GET.plan, "rate_limits", "GET")
    BY Plans, Reads, Writes, OthersNames DEF RateLimitsRoute
  <2>2. PlanOK(RateLimitsRoute.PATCH.plan, "rate_limits", "PATCH")
    BY Plans, Reads, Writes, OthersNames DEF RateLimitsRoute
  <2> QED BY <2>1, <2>2 DEF RateLimitsRoute
<1>25. HandlersOK(IncidentsRoute, "incidents")
  BY Plans, Reads, Writes, OthersNames DEF IncidentsRoute
<1>26. HandlersOK(IncidentRoute, "incident")
  <2>1. PlanOK(IncidentRoute.GET.plan, "incident", "GET")
    BY Plans, Reads, Writes, OthersNames DEF IncidentRoute
  <2>2. PlanOK(IncidentRoute.PATCH.plan, "incident", "PATCH")
    BY Plans, Reads, Writes, OthersNames DEF IncidentRoute
  <2> QED BY <2>1, <2>2 DEF IncidentRoute
<1>27. HandlersOK(AbTestsRoute, "ab_tests")
  <2>1. PlanOK(AbTestsRoute.GET.plan, "ab_tests", "GET")
    BY Plans, Reads, Writes, OthersNames DEF AbTestsRoute
  <2>2. PlanOK(AbTestsRoute.POST.plan, "ab_tests", "POST")
    BY Plans, Reads, Writes, OthersNames DEF AbTestsRoute
  <2> QED BY <2>1, <2>2 DEF AbTestsRoute
<1>28. HandlersOK(AbTestRoute, "ab_test")
  <2>1. PlanOK(AbTestRoute.GET.plan, "ab_test", "GET")
    BY Plans, Reads, Writes, OthersNames DEF AbTestRoute
  <2>2. PlanOK(AbTestRoute.PATCH.plan, "ab_test", "PATCH")
    BY Plans, Reads, Writes, OthersNames DEF AbTestRoute
  <2>3. PlanOK(AbTestRoute.DELETE.plan, "ab_test", "DELETE")
    BY Plans, Reads, Writes, OthersNames DEF AbTestRoute
  <2> QED BY <2>1, <2>2, <2>3 DEF AbTestRoute
<1>29. HandlersOK(AbResultsRoute, "results")
  BY Plans, Reads, Writes, OthersNames DEF AbResultsRoute
<1>30. HandlersOK(CloneRoute, "clone")
  <2>1. /\ StmtOK(One("environments", {"id", "home"}), "clone", "POST")
        /\ StmtOK(Unused("environments", {"home", "name"}), "clone", "POST")
        /\ StmtOK(Add("environments"), "clone", "POST")
        /\ StmtOK(List("routes", {"of"}), "clone", "POST") /\ StmtOK(Copy("routes"), "clone", "POST")
    BY Reads, Writes, OthersNames
  <2>2. PlanOK(CloneRoute.POST.plan, "clone", "POST")
    BY <2>1, Plans DEF CloneRoute
  <2> QED BY <2>2 DEF CloneRoute
<1>31. HandlersOK(ReplayRoute, "replay")
  BY Plans, Reads, Writes, OthersNames DEF ReplayRoute, Original, ReplayModel, SendReplay, RecordReplay
<1>32. HandlersOK(PlaygroundRoute, "playground")
  BY Plans, Reads, Writes, OthersNames DEF PlaygroundRoute, RouteAsked, AnyProvider, Upstream
<1>33. HandlersOK(TemplatesRoute, "templates")
  BY Plans, Reads, Writes, OthersNames DEF TemplatesRoute
<1>34. HandlersOK(TemplateRoute, "template")
  BY Plans, Reads, Writes, OthersNames DEF TemplateRoute
<1>35. HandlersOK(RenderRoute, "render")
  BY Plans, Reads, Writes, OthersNames DEF RenderRoute
<1>36. HandlersOK(VersionsRoute, "versions")
  BY Plans, Reads, Writes, OthersNames DEF VersionsRoute
<1>37. HandlersOK(BillingRoute, "billing")
  BY Plans, Reads, Writes, OthersNames DEF BillingRoute
<1>38. HandlersOK(PortalRoute, "portal")
  BY Plans, Reads, Writes, OthersNames DEF PortalRoute
<1> QED BY <1>1, <1>2, <1>3, <1>4, <1>5, <1>6, <1>7, <1>8, <1>9, <1>10, <1>11, <1>12, <1>13, <1>14, <1>15, <1>16, <1>17, <1>18, <1>19, <1>20, <1>21, <1>22, <1>23, <1>24, <1>25, <1>26, <1>27, <1>28, <1>29, <1>30, <1>31, <1>32, <1>33, <1>34, <1>35, <1>36, <1>37, <1>38 DEF API

-----------------------------------------------------------------------------
(* The rows.  A row is one level at least below each it may go with, and   *)
(* there are six levels: so what a delete takes along in five steps is all *)
(* that goes, and in what stays every row has its collection and its       *)
(* organization.                                                           *)

Depth ==
  [organizations |-> 0, memberships |-> 1, projects |-> 1, environments |-> 2, providers |-> 1, models |-> 2,
   routes |-> 3, api_keys |-> 3, requests |-> 3, incidents |-> 3, audit_log |-> 1, webhooks |-> 1,
   webhook_deliveries |-> 2, alert_rules |-> 3, ab_tests |-> 4, ab_test_assignments |-> 5, evaluations |-> 1,
   prompt_templates |-> 1, prompt_template_versions |-> 2]

LEMMA Depths ==
  \A t \in Tables :
    /\ Depth[t] \in Nat /\ Depth[t] <= 5
    /\ \A u \in Schema[t].cascade : u \in Tables /\ Depth[u] < Depth[t] /\ u # "memberships"
<1> SUFFICES ASSUME NEW t \in Tables
             PROVE  /\ Depth[t] \in Nat /\ Depth[t] <= 5
                    /\ \A u \in Schema[t].cascade : u \in Tables /\ Depth[u] < Depth[t] /\ u # "memberships"
  OBVIOUS
<1> USE TableNames DEF Schema, Depth
<1>1. CASE t \in {"organizations", "memberships", "projects", "providers", "audit_log"}
  BY <1>1 DEF organizations, memberships, projects, providers, audit_log
<1>2. CASE t \in {"environments", "models", "webhooks", "webhook_deliveries", "evaluations"}
  BY <1>2 DEF environments, models, webhooks, webhook_deliveries, evaluations
<1>3. CASE t \in {"routes", "api_keys", "requests", "incidents", "alert_rules"}
  BY <1>3 DEF routes, api_keys, requests, incidents, alert_rules
<1>4. CASE t \in {"ab_tests", "ab_test_assignments", "prompt_templates", "prompt_template_versions"}
  BY <1>4 DEF ab_tests, ab_test_assignments, prompt_templates, prompt_template_versions
<1> QED BY <1>1, <1>2, <1>3, <1>4

IsRow(r) ==
  r = [id |-> r.id, table |-> r.table, org |-> r.org, home |-> r.home, refs |-> r.refs,
       name |-> r.name, val |-> r.val, stamps |-> r.stamps]

RowOK(r, rows, n) ==
  /\ IsRow(r) /\ r.id \in 1 .. n /\ r.table \in Tables
  /\ r.refs \subseteq {p.id : p \in rows} /\ InPlace(r, rows) /\ Timed(r)
  /\ \E o \in rows : o.id = r.org /\ o.table = "organizations"

Apart(r, s) ==
  r.id = s.id \/ (r.table = s.table /\ r.home = s.home /\ r.name = s.name /\ Schema[r.table].unique) => r = s

LEMMA SoundParts ==
  ASSUME NEW rows, NEW n
  PROVE  SoundRows(rows, n) <=> /\ IsFiniteSet(rows) /\ \A r \in rows : RowOK(r, rows, n)
                                /\ \A r, s \in rows : Apart(r, s)
BY DEF SoundRows, RowOK, IsRow, Apart, Tables

\* What cascades from rows that come one level down at most.
LEMMA BelowOnce ==
  ASSUME NEW n, SoundRows(db, n), NEW E \in SUBSET db, NEW j \in Nat,
         \A p \in Below(E) : Depth[p.table] <= j => p \in E
  PROVE  \A d \in Below(Below(E)) : Depth[d.table] <= j + 1 => d \in Below(E)
<1> SUFFICES ASSUME NEW d \in Below(Below(E)), Depth[d.table] <= j + 1, d \notin Below(E) PROVE FALSE
  OBVIOUS
<1>1. d \in db
  BY DEF Below
<1>2. PICK p \in Below(E) : p.id \in d.refs /\ p.table \in Schema[d.table].cascade
  BY DEF Below
<1>3. d.table \in Tables
  BY <1>1, SoundParts DEF RowOK
<1>4. Depth[p.table] \in Nat /\ Depth[d.table] \in Nat /\ Depth[p.table] < Depth[d.table]
  BY <1>2, <1>3, Depths
<1>5. p \in E
  BY <1>4
<1> QED BY <1>1, <1>2, <1>5 DEF Below

LEMMA GoneClosed ==
  ASSUME NEW n, SoundRows(db, n), NEW D \in SUBSET db
  PROVE  /\ Gone(D) \subseteq db /\ D \subseteq Gone(D)
         /\ \A r \in db : \A d \in Gone(D) :
              d.id \in r.refs /\ d.table \in Schema[r.table].cascade => r \in Gone(D)
<1> DEFINE b1 == Below(D)  b2 == Below(b1)  b3 == Below(b2)  b4 == Below(b3)  b5 == Below(b4)
<1>1. Gone(D) = b5
  BY DEF Gone
<1>2. b1 \in SUBSET db /\ b2 \in SUBSET db /\ b3 \in SUBSET db /\ b4 \in SUBSET db /\ b5 \in SUBSET db
  BY DEF Below
<1>3. D \subseteq b5
  BY DEF Below
<1>4. \A p \in b1 : Depth[p.table] <= 0 => p \in D
  <2> SUFFICES ASSUME NEW p \in b1, p \notin D, Depth[p.table] <= 0 PROVE FALSE
    OBVIOUS
  <2>1. PICK d \in D : d.table \in Schema[p.table].cascade
    BY DEF Below
  <2>2. p.table \in Tables
    BY <1>2, SoundParts DEF RowOK
  <2> QED BY <2>1, <2>2, Depths
<1>5. \A p \in b2 : Depth[p.table] <= 1 => p \in b1
  <2>1. \A p \in Below(D) : Depth[p.table] <= 0 => p \in D
    BY <1>4
  <2>2. \A p \in Below(Below(D)) : Depth[p.table] <= 0 + 1 => p \in Below(D)
    BY <2>1, 0 \in Nat, BelowOnce
  <2> QED BY <2>2
<1> HIDE DEF b1
<1>6. \A p \in b3 : Depth[p.table] <= 2 => p \in b2
  <2>1. \A p \in Below(Below(b1)) : Depth[p.table] <= 1 + 1 => p \in Below(b1)
    BY <1>2, <1>5, 1 \in Nat, BelowOnce
  <2> QED BY <2>1
<1> HIDE DEF b2
<1>7. \A p \in b4 : Depth[p.table] <= 3 => p \in b3
  <2>1. \A p \in Below(Below(b2)) : Depth[p.table] <= 2 + 1 => p \in Below(b2)
    BY <1>2, <1>6, 2 \in Nat, BelowOnce
  <2> QED BY <2>1
<1> HIDE DEF b3
<1>8. \A p \in b5 : Depth[p.table] <= 4 => p \in b4
  <2>1. \A p \in Below(Below(b3)) : Depth[p.table] <= 3 + 1 => p \in Below(b3)
    BY <1>2, <1>7, 3 \in Nat, BelowOnce
  <2> QED BY <2>1
<1>9. ASSUME NEW r \in db, NEW d \in b5, d.id \in r.refs, d.table \in Schema[r.table].cascade PROVE r \in b5
  <2>1. r.table \in Tables
    BY SoundParts DEF RowOK
  <2>2. Depth[d.table] <= 4
    BY <1>9, <2>1, Depths
  <2>3. d \in b4
    BY <1>8, <2>2
  <2> QED BY <1>9, <2>3 DEF Below
<1> HIDE DEF b5
<1> QED BY <1>1, <1>2, <1>3, <1>9

\* A row without the references to those of G.
Forget(r, G) == [r EXCEPT !.refs = @ \ {d.id : d \in G}]

LEMMA Forgets ==
  ASSUME NEW r, IsRow(r), NEW G
  PROVE  LET s == Forget(r, G) IN
         /\ IsRow(s) /\ s.id = r.id /\ s.table = r.table /\ s.org = r.org /\ s.home = r.home
         /\ s.refs = r.refs \ {d.id : d \in G} /\ s.name = r.name /\ s.val = r.val /\ s.stamps = r.stamps
BY DEF Forget, IsRow

Closed(G) ==
  \A r \in db : \A d \in G : d.id \in r.refs /\ d.table \in Schema[r.table].cascade => r \in G

\* The organization of a row that stays and is at most k levels down stays.
Stays(G, k) ==
  \A r \in db \ G : Depth[r.table] <= k =>
    \A o \in db : o.id = r.org /\ o.table = "organizations" => o \notin G

LEMMA StaysBelow ==
  ASSUME NEW n, SoundRows(db, n), NEW G \in SUBSET db, Closed(G), NEW k \in Int, Stays(G, k)
  PROVE  Stays(G, k + 1)
<1> SUFFICES ASSUME NEW r \in db \ G, Depth[r.table] <= k + 1,
                    NEW o \in db, o.id = r.org, o.table = "organizations"
             PROVE  o \notin G
  BY DEF Stays
<1>1. RowOK(r, db, n) /\ r.table \in Tables
  BY SoundParts DEF RowOK
<1>2. \A s \in db : s.id = r.id => s = r
  BY SoundParts DEF Apart
<1>3. CASE r.table = "organizations"
  BY <1>1, <1>2, <1>3 DEF RowOK, InPlace
<1>4. CASE r.table # "organizations"
  <2>1. PICK p \in db : p.id = r.home /\ p.org = r.org /\ p.table \in Schema[r.table].cascade /\ r.home \in r.refs
    BY <1>1, <1>4 DEF RowOK, InPlace
  <2>2. p \notin G
    BY <2>1 DEF Closed
  <2>3. Depth[r.table] \in Nat /\ Depth[p.table] \in Nat /\ Depth[p.table] < Depth[r.table]
    BY <1>1, <2>1, Depths
  <2>4. Depth[p.table] <= k
    BY <2>3
  <2> QED BY <2>1, <2>2, <2>4 DEF Stays
<1> QED BY <1>3, <1>4

LEMMA AllStay ==
  ASSUME NEW n, SoundRows(db, n), NEW G \in SUBSET db, Closed(G)
  PROVE  \A r \in db \ G : \A o \in db : o.id = r.org /\ o.table = "organizations" => o \notin G
<1>1. \A r \in db : Depth[r.table] \in Nat /\ Depth[r.table] <= 5
  BY SoundParts, Depths DEF RowOK
<1>2. Stays(G, 0 - 1)
  BY <1>1 DEF Stays
<1>3. Stays(G, 0 - 1 + 1)
  BY <1>2, 0 - 1 \in Int, StaysBelow
<1>4. Stays(G, 0 + 1)
  BY <1>3, 0 \in Int, 0 - 1 + 1 = 0, StaysBelow
<1>5. Stays(G, 1 + 1)
  BY <1>4, 1 \in Int, 0 + 1 = 1, StaysBelow
<1>6. Stays(G, 2 + 1)
  BY <1>5, 2 \in Int, 1 + 1 = 2, StaysBelow
<1>7. Stays(G, 3 + 1)
  BY <1>6, 3 \in Int, 2 + 1 = 3, StaysBelow
<1>8. Stays(G, 4 + 1)
  BY <1>7, 4 \in Int, 3 + 1 = 4, StaysBelow
<1> QED BY <1>1, <1>8 DEF Stays

\* The image of a finite set is finite, and as large if nothing falls together.
LEMMA ImageFinite ==
  ASSUME NEW S, IsFiniteSet(S), NEW f, NEW T, T = {f[x] : x \in S}
  PROVE  /\ IsFiniteSet(T)
         /\ (\A x, y \in S : f[x] = f[y] => x = y) => Cardinality(T) = Cardinality(S)
<1> DEFINE g == [x \in S |-> f[x]]
<1>1. g \in Surjection(S, T)
  BY DEF Surjection
<1>2. IsFiniteSet(T)
  BY <1>1, FS_Surjection
<1>3. ASSUME \A x, y \in S : f[x] = f[y] => x = y PROVE Cardinality(T) = Cardinality(S)
  <2>1. g \in Bijection(S, T)
    BY <1>1, <1>3 DEF Bijection, Injection, IsInjective
  <2>2. ExistsBijection(S, T)
    BY <2>1 DEF ExistsBijection
  <2> QED BY <2>2, FS_Bijection
<1> QED BY <1>2, <1>3

LEMMA ImageIsFinite ==
  ASSUME NEW S, IsFiniteSet(S), NEW f, NEW T, T = {f[x] : x \in S}
  PROVE  IsFiniteSet(T)
BY ImageFinite

LEMMA WithoutSound ==
  ASSUME NEW n, SoundRows(db, n), NEW G \in SUBSET db, Closed(G)
  PROVE  SoundRows(Without(G), n)
<1>1. Without(G) = {Forget(r, G) : r \in db \ G}
  BY DEF Without, Forget
<1>2. \A r \in db : RowOK(r, db, n) /\ IsRow(r)
  BY SoundParts DEF RowOK
<1>3. \A r, s \in db : Apart(r, s)
  BY SoundParts
<1>4. IsFiniteSet(Without(G))
  <2> DEFINE f == [r \in db \ G |-> Forget(r, G)]
  <2>1. Without(G) = {f[r] : r \in db \ G}
    BY <1>1
  <2>2. IsFiniteSet(db \ G)
    BY SoundParts, FS_Subset
  <2> HIDE DEF f
  <2> QED BY <2>1, <2>2, ImageFinite
<1>5. ASSUME NEW r \in db \ G PROVE RowOK(Forget(r, G), Without(G), n)
  <2> DEFINE s == Forget(r, G)
  <2>1. /\ IsRow(s) /\ s.id = r.id /\ s.table = r.table /\ s.org = r.org /\ s.home = r.home
        /\ s.refs = r.refs \ {d.id : d \in G} /\ s.name = r.name /\ s.val = r.val /\ s.stamps = r.stamps
    BY <1>2, Forgets
  <2> HIDE DEF s
  <2>2. \A p \in db \ G : \E p2 \in Without(G) : p2.id = p.id /\ p2.table = p.table /\ p2.org = p.org
    BY <1>1, <1>2, Forgets
  <2>3. s.refs \subseteq {p.id : p \in Without(G)}
    <3> SUFFICES ASSUME NEW i \in s.refs PROVE \E p \in Without(G) : p.id = i
      OBVIOUS
    <3>1. i \in r.refs /\ i \notin {d.id : d \in G}
      BY <2>1
    <3>2. PICK p \in db : p.id = i
      BY <1>2, <3>1 DEF RowOK
    <3> QED BY <2>2, <3>1, <3>2
  <2>4. InPlace(s, Without(G))
    <3>1. CASE r.table = "organizations"
      BY <1>2, <2>1, <3>1 DEF RowOK, InPlace
    <3>2. CASE r.table # "organizations"
      <4>1. PICK p \in db : p.id = r.home /\ p.org = r.org /\ p.table \in Schema[r.table].cascade /\ r.home \in r.refs
        BY <1>2, <3>2 DEF RowOK, InPlace
      <4>2. p \notin G
        BY <4>1 DEF Closed
      <4>3. r.home \notin {d.id : d \in G}
        BY <1>3, <4>1, <4>2 DEF Apart
      <4>4. PICK p2 \in Without(G) : p2.id = p.id /\ p2.table = p.table /\ p2.org = p.org
        BY <2>2, <4>2
      <4>5. s.home \in s.refs
        BY <2>1, <4>1, <4>3
      <4> QED BY <2>1, <3>2, <4>1, <4>4, <4>5 DEF InPlace
    <3> QED BY <3>1, <3>2
  <2>5. \E o \in Without(G) : o.id = s.org /\ o.table = "organizations"
    <3>1. PICK o \in db : o.id = r.org /\ o.table = "organizations"
      BY <1>2 DEF RowOK
    <3>2. o \notin G
      BY <3>1, AllStay
    <3> QED BY <2>1, <2>2, <3>1, <3>2
  <2>6. Timed(s) /\ s.id \in 1 .. n /\ s.table \in Tables
    BY <1>2, <2>1 DEF RowOK, Timed
  <2>7. RowOK(s, Without(G), n)
    BY <2>1, <2>3, <2>4, <2>5, <2>6 DEF RowOK
  <2> QED BY <2>7 DEF s
<1>6. ASSUME NEW r \in db \ G, NEW s \in db \ G PROVE Apart(Forget(r, G), Forget(s, G))
  <2>1. Apart(r, s) /\ IsRow(r) /\ IsRow(s)
    BY <1>2, <1>3
  <2>2. /\ Forget(r, G).id = r.id /\ Forget(r, G).table = r.table /\ Forget(r, G).home = r.home /\ Forget(r, G).name = r.name
        /\ Forget(s, G).id = s.id /\ Forget(s, G).table = s.table /\ Forget(s, G).home = s.home /\ Forget(s, G).name = s.name
    BY <2>1, Forgets
  <2> QED BY <2>1, <2>2 DEF Apart
<1>7. \A r \in Without(G) : RowOK(r, Without(G), n)
  BY <1>1, <1>5
<1>8. \A r, s \in Without(G) : Apart(r, s)
  BY <1>1, <1>6
<1> QED BY <1>4, <1>7, <1>8, SoundParts

\* A row keeps its place when rows are added.
LEMMA RowStays ==
  ASSUME NEW rows, NEW more, \A r \in rows : r \in more, NEW n \in Nat, NEW m \in Nat, n <= m,
         NEW r, RowOK(r, rows, n)
  PROVE  RowOK(r, more, m)
<1>1. IsRow(r) /\ r.id \in 1 .. m /\ r.table \in Tables /\ Timed(r)
  BY DEF RowOK
<1>2. r.refs \subseteq {p.id : p \in more}
  BY DEF RowOK
<1>3. InPlace(r, more)
  <2>1. CASE r.table = "organizations"
    BY <2>1 DEF RowOK, InPlace
  <2>2. CASE r.table # "organizations"
    <3>1. PICK p \in rows : p.id = r.home /\ p.org = r.org /\ p.table \in Schema[r.table].cascade /\ r.home \in r.refs
      BY <2>2 DEF RowOK, InPlace
    <3> QED BY <2>2, <3>1 DEF InPlace
  <2> QED BY <2>1, <2>2
<1>4. \E o \in more : o.id = r.org /\ o.table = "organizations"
  BY DEF RowOK
<1> QED BY <1>1, <1>2, <1>3, <1>4 DEF RowOK

Unlike(r, s) == ~(r.table = s.table /\ r.home = s.home /\ r.name = s.name /\ Schema[r.table].unique)

LEMMA AddedSound ==
  ASSUME NEW n \in Nat, SoundRows(db, n), NEW m \in Nat, n <= m, NEW N, IsFiniteSet(N),
         \A r \in N : RowOK(r, db \cup N, m) /\ r.id \notin 1 .. n,
         \A r, s \in N : Apart(r, s),
         \A r \in N : \A s \in db : Unlike(r, s)
  PROVE  SoundRows(db \cup N, m)
<1>1. IsFiniteSet(db \cup N)
  BY SoundParts, FS_Union
<1>2. \A r \in db : RowOK(r, db \cup N, m)
  BY SoundParts, RowStays
<1>3. \A r \in N : \A s \in db : Apart(r, s) /\ Apart(s, r)
  BY SoundParts DEF Unlike, Apart, RowOK
<1>4. \A r, s \in db \cup N : Apart(r, s)
  BY <1>3, SoundParts
<1> QED BY <1>1, <1>2, <1>4, SoundParts

\* Rows are changed where they are.
LEMMA ReplacedSound ==
  ASSUME NEW n, SoundRows(db, n), NEW g, NEW T, T = {g[r] : r \in db},
         \A r \in db : /\ IsRow(g[r]) /\ g[r].id = r.id /\ g[r].table = r.table /\ g[r].org = r.org
                       /\ g[r].home = r.home /\ g[r].refs = r.refs /\ g[r].name = r.name /\ Timed(g[r])
  PROVE  SoundRows(T, n)
<1>1. IsFiniteSet(T)
  BY SoundParts, ImageFinite
<1>2. ASSUME NEW r \in db PROVE RowOK(g[r], T, n)
  <2>1. RowOK(r, db, n)
    BY SoundParts
  <2>2. g[r].refs \subseteq {p.id : p \in T}
    BY <2>1 DEF RowOK
  <2>3. InPlace(g[r], T)
    <3>1. CASE r.table = "organizations"
      BY <2>1, <3>1 DEF RowOK, InPlace
    <3>2. CASE r.table # "organizations"
      <4>1. PICK p \in db : p.id = r.home /\ p.org = r.org /\ p.table \in Schema[r.table].cascade /\ r.home \in r.refs
        BY <2>1, <3>2 DEF RowOK, InPlace
      <4>2. g[p] \in T /\ g[p].id = p.id /\ g[p].org = p.org /\ g[p].table = p.table
        OBVIOUS
      <4> QED BY <3>2, <4>1, <4>2 DEF InPlace
    <3> QED BY <3>1, <3>2
  <2>4. \E o \in T : o.id = g[r].org /\ o.table = "organizations"
    BY <2>1 DEF RowOK
  <2>5. IsRow(g[r]) /\ g[r].id \in 1 .. n /\ g[r].table \in Tables /\ Timed(g[r])
    BY <2>1 DEF RowOK
  <2> QED BY <2>2, <2>3, <2>4, <2>5 DEF RowOK
<1>3. ASSUME NEW r \in db, NEW s \in db PROVE Apart(g[r], g[s])
  <2>1. Apart(r, s)
    BY SoundParts
  <2> QED BY <2>1 DEF Apart
<1> QED BY <1>1, <1>2, <1>3, SoundParts

LEMMA SoundIsConsistent ==
  ASSUME nextId \in Nat, SoundRows(db, nextId - 1)
  PROVE  Consistent
<1>1. \A r \in db : RowOK(r, db, nextId - 1)
  BY SoundParts
<1>2. \A r, s \in db : Apart(r, s)
  BY SoundParts
<1>3. ASSUME NEW r \in db
      PROVE  /\ r.table \in DOMAIN Schema /\ r.id \in 1 .. nextId - 1
             /\ r.refs \subseteq Ids /\ r.org \in Ids /\ r.home \in r.refs \cup {0}
             /\ r.table \in {"incidents", "ab_tests"} => r.val \in r.stamps \cup {"open", "draft", "paused"}
  BY <1>1 DEF RowOK, InPlace, Timed, Tables, Ids
<1>4. Cardinality(Ids) = Cardinality(db)
  <2> DEFINE f == [r \in db |-> r.id]
  <2>1. Ids = {f[r] : r \in db}
    BY DEF Ids
  <2>2. \A r, s \in db : f[r] = f[s] => r = s
    BY <1>2 DEF Apart
  <2> HIDE DEF f
  <2> QED BY <2>1, <2>2, SoundParts, ImageFinite
<1>5. ASSUME NEW named, named = {r \in db : Schema[r.table].unique}
      PROVE  Cardinality({<<r.table, r.home, r.name>> : r \in named}) = Cardinality(named)
  <2> DEFINE f == [r \in db |-> <<r.table, r.home, r.name>>]
             T == {<<r.table, r.home, r.name>> : r \in named}
  <2>1. T = {f[r] : r \in named}
    BY <1>5
  <2>2. \A r, s \in named : f[r] = f[s] => r = s
    BY <1>2, <1>5 DEF Apart
  <2>3. IsFiniteSet(named)
    BY <1>5, SoundParts, FS_Subset
  <2> HIDE DEF f, T
  <2>4. Cardinality(T) = Cardinality(named)
    BY <2>1, <2>2, <2>3, ImageFinite
  <2> QED BY <2>4 DEF T
<1> QED BY <1>3, <1>4, <1>5 DEF Consistent

-----------------------------------------------------------------------------
(* The invariant: the rows are sound, and a request under way is one there *)
(* is a handler for.                                                       *)

CallOK(k) ==
  /\ k = [q |-> k.q, pc |-> k.pc, got |-> k.got, made |-> k.made, seen |-> k.seen, answer |-> k.answer]
  /\ k.pc \in Nat /\ IsFiniteSet(k.got) /\ (k.pc > 0 => ValidRequest(k.q))

CallsOK(calls) == calls = [c \in Calls |-> calls[c]] /\ \A c \in Calls : CallOK(calls[c])

CPInv ==
  /\ nextId \in Nat \ {0} /\ SoundRows(db, nextId - 1)
  /\ scene \in DOMAIN Scenes /\ CallsOK(call)

LEMMA CallChanged ==
  ASSUME CallsOK(call), NEW c \in Calls, NEW k, CallOK(k)
  PROVE  CallsOK([call EXCEPT ![c] = k])
BY DEF CallsOK

LEMMA CallSteps ==
  ASSUME NEW k, CallOK(k)
  PROVE  /\ \A a : CallOK([k EXCEPT !.answer = a])
         /\ k.pc > 0 => CallOK([k EXCEPT !.pc = @ + 1])
         /\ \A got : IsFiniteSet(got) /\ k.pc > 0 => CallOK([k EXCEPT !.pc = @ + 1, !.got = got])
         /\ \A made : k.pc > 0 => CallOK([k EXCEPT !.pc = @ + 1, !.made = made])
<1> DEFINE q == k.q  at == k.pc  got0 == k.got  made0 == k.made  seen == k.seen  answer == k.answer
<1>1. /\ k = [q |-> q, pc |-> at, got |-> got0, made |-> made0, seen |-> seen, answer |-> answer]
      /\ at \in Nat /\ IsFiniteSet(got0) /\ (at > 0 => ValidRequest(q))
  BY DEF CallOK
<1>2. k.pc = at
  OBVIOUS
<1> HIDE DEF q, at, got0, made0, seen, answer
<1>3. ASSUME NEW a PROVE CallOK([k EXCEPT !.answer = a])
  <2>1. [k EXCEPT !.answer = a] = [q |-> q, pc |-> at, got |-> got0, made |-> made0, seen |-> seen, answer |-> a]
    BY <1>1
  <2> QED BY <1>1, <2>1 DEF CallOK
<1>4. ASSUME k.pc > 0 PROVE CallOK([k EXCEPT !.pc = @ + 1])
  <2>1. [k EXCEPT !.pc = @ + 1] = [q |-> q, pc |-> at + 1, got |-> got0, made |-> made0, seen |-> seen, answer |-> answer]
    BY <1>1, <1>2
  <2> QED BY <1>1, <1>2, <1>4, <2>1 DEF CallOK
<1>5. ASSUME NEW got, IsFiniteSet(got), k.pc > 0 PROVE CallOK([k EXCEPT !.pc = @ + 1, !.got = got])
  <2> DEFINE k1 == [q |-> q, pc |-> at + 1, got |-> got0, made |-> made0, seen |-> seen, answer |-> answer]
  <2>a. [k EXCEPT !.pc = @ + 1] = k1
    BY <1>1, <1>2
  <2>b. [k1 EXCEPT !.got = got] = [q |-> q, pc |-> at + 1, got |-> got, made |-> made0, seen |-> seen, answer |-> answer]
    OBVIOUS
  <2> HIDE DEF k1
  <2>1. [k EXCEPT !.pc = @ + 1, !.got = got]
          = [q |-> q, pc |-> at + 1, got |-> got, made |-> made0, seen |-> seen, answer |-> answer]
    BY <2>a, <2>b
  <2> QED BY <1>1, <1>2, <1>5, <2>1 DEF CallOK
<1>6. ASSUME NEW made, k.pc > 0 PROVE CallOK([k EXCEPT !.pc = @ + 1, !.made = made])
  <2> DEFINE k1 == [q |-> q, pc |-> at + 1, got |-> got0, made |-> made0, seen |-> seen, answer |-> answer]
  <2>a. [k EXCEPT !.pc = @ + 1] = k1
    BY <1>1, <1>2
  <2>b. [k1 EXCEPT !.made = made] = [q |-> q, pc |-> at + 1, got |-> got0, made |-> made, seen |-> seen, answer |-> answer]
    OBVIOUS
  <2> HIDE DEF k1
  <2>1. [k EXCEPT !.pc = @ + 1, !.made = made]
          = [q |-> q, pc |-> at + 1, got |-> got0, made |-> made, seen |-> seen, answer |-> answer]
    BY <2>a, <2>b
  <2> QED BY <1>1, <1>2, <1>6, <2>1 DEF CallOK
<1> QED BY <1>3, <1>4, <1>5, <1>6

\* An answer, and the next statement.
LEMMA CallMoves ==
  ASSUME CallsOK(call), NEW c \in Calls
  PROVE  /\ \A a : Answer(c, a) => CallsOK(call')
         /\ Proceed(c) /\ call[c].pc > 0 => CallsOK(call')
<1>1. CallOK(call[c])
  BY DEF CallsOK
<1>2. ASSUME NEW a, Answer(c, a) PROVE CallsOK(call')
  <2>1. call' = [call EXCEPT ![c] = [call[c] EXCEPT !.answer = a]]
    BY <1>2 DEF Answer
  <2>2. CallOK([call[c] EXCEPT !.answer = a])
    BY <1>1, CallSteps
  <2> QED BY <2>1, <2>2, CallChanged
<1>3. ASSUME Proceed(c), call[c].pc > 0 PROVE CallsOK(call')
  <2>1. call' = [call EXCEPT ![c] = [call[c] EXCEPT !.pc = @ + 1]]
    BY <1>3 DEF Proceed
  <2>2. CallOK([call[c] EXCEPT !.pc = @ + 1])
    BY <1>1, <1>3, CallSteps
  <2> QED BY <2>1, <2>2, CallChanged
<1> QED BY <1>2, <1>3

\* What a request that waits for its n-th statement is about to do.
LEMMA AtStepOK ==
  ASSUME CPInv, NEW c \in Calls, NEW cmd, AtStep(c, cmd)
  PROVE  /\ Step(c).cmd = cmd /\ ValidRequest(call[c].q) /\ call[c].pc \in Nat /\ call[c].pc > 0
         /\ StmtOK(Step(c), call[c].q.route, call[c].q.method)
<1>1. call[c].pc \in Nat /\ call[c].pc > 0 /\ ValidRequest(call[c].q)
  BY DEF CPInv, CallsOK, CallOK, AtStep, Running
<1>2. PlanOK(Plan(c), call[c].q.route, call[c].q.method)
  BY <1>1, HandlersSound DEF ValidRequest, HandlersOK, Plan
<1>3. StmtOK(Step(c), call[c].q.route, call[c].q.method)
  BY <1>1, <1>2 DEF AtStep, PlanOK, Step
<1> QED BY <1>1, <1>3 DEF AtStep

-----------------------------------------------------------------------------
(* What a statement does to the rows.                                      *)

RowsOK == nextId' \in Nat \ {0} /\ SoundRows(db', nextId' - 1) /\ HeldKept

LEMMA NewFields ==
  ASSUME NEW i, NEW t, NEW o, NEW h, NEW refs, NEW nm, NEW v
  PROVE  LET r == NewRow(i, t, o, h, refs, nm, v) IN
         /\ IsRow(r) /\ r.id = i /\ r.table = t /\ r.org = o /\ r.home = h /\ r.refs = refs \ {0}
         /\ r.name = nm /\ r.val = v /\ r.stamps = {}
BY DEF NewRow, IsRow

\* A row is the only one with its id.
LEMMA TheRow ==
  ASSUME NEW n, SoundRows(db, n), NEW i, NEW r \in db, r.id = i
  PROVE  (CHOOSE x \in db : x.id = i) = r
<1>1. \A x \in db : x.id = i => x = r
  BY SoundParts DEF Apart
<1> QED BY <1>1

LEMMA NoneChanged ==
  ASSUME NEW N, db' = db \cup N
  PROVE  HeldKept
<1>1. db \ db' = {}
  OBVIOUS
<1> QED BY <1>1 DEF HeldKept

LEMMA OrgOfNew ==
  ASSUME CPInv, NEW q, NEW t, t # "organizations", NEW p \in db, p.id = q.home
  PROVE  OrgFor(q, t) = p.org
<1>1. (CHOOSE r \in db : r.id = q.home) = p
  BY TheRow DEF CPInv
<1> QED BY <1>1 DEF OrgFor

LEMMA NothingWritten ==
  ASSUME CPInv, UNCHANGED <<db, nextId>>
  PROVE  RowsOK
<1>1. HeldKept
  BY DEF HeldKept
<1> QED BY <1>1 DEF RowsOK, CPInv

LEMMA InsertOne ==
  ASSUME CPInv, NEW t \in Tables, t # "organizations", NEW h, NEW refs, refs \subseteq Ids \cup {0}, Placed(t, h),
         NEW nm, ~Taken(t, h, nm), NEW v, t # "incidents", t = "ab_tests" => v = "draft",
         NEW o, \A p \in db : p.id = h => p.org = o,
         nextId' = nextId + 1, db' = db \cup {NewRow(nextId, t, o, h, refs \cup {h}, nm, v)}
  PROVE  RowsOK
<1> DEFINE r == NewRow(nextId, t, o, h, refs \cup {h}, nm, v)
           N == {r}
<1>1. /\ IsRow(r) /\ r.id = nextId /\ r.table = t /\ r.org = o /\ r.home = h /\ r.refs = (refs \cup {h}) \ {0}
      /\ r.name = nm /\ r.val = v /\ r.stamps = {}
  BY NewFields
<1>2. nextId \in Nat /\ nextId > 0 /\ nextId - 1 \in Nat /\ SoundRows(db, nextId - 1) /\ db' = db \cup N
  BY DEF CPInv
<1>3. PICK p \in db : p.id = h /\ p.table \in Schema[t].cascade
  BY DEF Placed
<1>4. o = p.org
  BY <1>3
<1> HIDE DEF r
<1>5. RowOK(p, db, nextId - 1)
  BY <1>2, SoundParts
<1>6. h \in 1 .. nextId - 1 /\ h \in r.refs
  BY <1>1, <1>3, <1>5 DEF RowOK
<1>7. RowOK(r, db \cup N, nextId)
  <2>1. r.refs \subseteq {x.id : x \in db \cup N}
    BY <1>1, <1>3 DEF Ids
  <2>2. InPlace(r, db \cup N)
    BY <1>1, <1>3, <1>4, <1>6 DEF InPlace
  <2>3. \E x \in db \cup N : x.id = r.org /\ x.table = "organizations"
    BY <1>1, <1>4, <1>5 DEF RowOK
  <2>4. Timed(r)
    BY <1>1 DEF Timed
  <2> QED BY <1>1, <1>2, <2>1, <2>2, <2>3, <2>4 DEF RowOK
<1>8. SoundRows(db \cup N, nextId)
  <2>1. \A s \in db : Unlike(r, s)
    BY <1>1 DEF Taken, Unlike
  <2>2. IsFiniteSet(N)
    BY FS_Singleton
  <2>3. Apart(r, r)
    BY DEF Apart
  <2>4. r.id \notin 1 .. nextId - 1
    BY <1>1, <1>2
  <2> QED BY <1>2, <1>7, <2>1, <2>2, <2>3, <2>4, AddedSound
<1>9. HeldKept
  BY <1>2, NoneChanged
<1>10. nextId' - 1 = nextId /\ nextId' \in Nat \ {0}
  BY <1>2
<1> QED BY <1>2, <1>8, <1>9, <1>10 DEF RowsOK

LEMMA InsertOrganization ==
  ASSUME CPInv, NEW refs, refs \subseteq Ids \cup {0}, NEW nm, ~Taken("organizations", 0, nm), NEW v, NEW u,
         nextId' = nextId + 2,
         db' = db \cup {NewRow(nextId, "organizations", nextId, 0, refs \cup {0}, nm, v)}
                  \cup {NewRow(nextId + 1, "memberships", nextId, nextId, {nextId}, u, "owner")}
  PROVE  RowsOK
<1> DEFINE r == NewRow(nextId, "organizations", nextId, 0, refs \cup {0}, nm, v)
           w == NewRow(nextId + 1, "memberships", nextId, nextId, {nextId}, u, "owner")
           N == {r, w}
<1>1. /\ IsRow(r) /\ r.id = nextId /\ r.table = "organizations" /\ r.org = nextId /\ r.home = 0
      /\ r.refs = (refs \cup {0}) \ {0} /\ r.name = nm
  BY NewFields
<1>2. /\ IsRow(w) /\ w.id = nextId + 1 /\ w.table = "memberships" /\ w.org = nextId /\ w.home = nextId
      /\ w.refs = {nextId} \ {0}
  BY NewFields
<1>3. nextId \in Nat /\ nextId > 0 /\ nextId - 1 \in Nat /\ SoundRows(db, nextId - 1) /\ db' = db \cup N
  BY DEF CPInv
<1> HIDE DEF r, w
<1>4. RowOK(r, db \cup N, nextId + 1)
  <2>1. r.refs \subseteq {x.id : x \in db \cup N}
    BY <1>1 DEF Ids
  <2>2. InPlace(r, db \cup N) /\ Timed(r)
    BY <1>1 DEF InPlace, Timed
  <2>3. \E x \in db \cup N : x.id = r.org /\ x.table = "organizations"
    BY <1>1
  <2>4. r.table \in Tables
    BY <1>1, TableNames
  <2> QED BY <1>1, <1>3, <2>1, <2>2, <2>3, <2>4 DEF RowOK
<1>5. RowOK(w, db \cup N, nextId + 1)
  <2>1. w.refs = {nextId}
    BY <1>2, <1>3
  <2>2. w.refs \subseteq {x.id : x \in db \cup N}
    BY <1>1, <2>1
  <2>3. "organizations" \in Schema[w.table].cascade
    BY <1>2 DEF Schema, memberships
  <2>4. InPlace(w, db \cup N) /\ Timed(w)
    BY <1>1, <1>2, <2>1, <2>3 DEF InPlace, Timed
  <2>5. \E x \in db \cup N : x.id = w.org /\ x.table = "organizations"
    BY <1>1, <1>2
  <2>6. w.table \in Tables
    BY <1>2, TableNames
  <2> QED BY <1>2, <1>3, <2>2, <2>4, <2>5, <2>6 DEF RowOK
<1>6. \A s \in db : Unlike(r, s)
  BY <1>1 DEF Taken, Unlike
<1>7. ASSUME NEW s \in db PROVE Unlike(w, s)
  <2>1. RowOK(s, db, nextId - 1)
    BY <1>3, SoundParts
  <2>2. CASE s.table # "memberships"
    BY <1>2, <2>2 DEF Unlike
  <2>3. CASE s.table = "memberships"
    <3>1. PICK p \in db : p.id = s.home
      BY <2>1, <2>3 DEF RowOK, InPlace
    <3>2. p.id \in 1 .. nextId - 1
      BY <1>3, SoundParts DEF RowOK
    <3> QED BY <1>2, <1>3, <3>1, <3>2 DEF Unlike
  <2> QED BY <2>2, <2>3
<1>8. \A a, b \in N : Apart(a, b)
  BY <1>1, <1>2, <1>3 DEF Apart
<1>9. IsFiniteSet(N)
  <2>1. IsFiniteSet({r}) /\ IsFiniteSet({w}) /\ N = {r} \cup {w}
    BY FS_Singleton
  <2>2. IsFiniteSet({r} \cup {w})
    BY <2>1, FS_Union
  <2> QED BY <2>1, <2>2
<1>10. r.id \notin 1 .. nextId - 1 /\ w.id \notin 1 .. nextId - 1
  BY <1>1, <1>2, <1>3
<1>11. \A a \in N : RowOK(a, db \cup N, nextId + 1) /\ a.id \notin 1 .. nextId - 1
  BY <1>4, <1>5, <1>10
<1>12. nextId + 1 \in Nat /\ nextId - 1 <= nextId + 1
  BY <1>3
<1>13. \A a \in N : \A s \in db : Unlike(a, s)
  BY <1>6, <1>7
<1> HIDE DEF N
<1>14. SoundRows(db \cup N, nextId + 1)
  BY <1>3, <1>8, <1>9, <1>11, <1>12, <1>13, AddedSound
<1>15. HeldKept
  BY <1>3, NoneChanged
<1>16. nextId' - 1 = nextId + 1 /\ nextId' \in Nat \ {0}
  BY <1>3
<1> QED BY <1>3, <1>14, <1>15, <1>16 DEF RowsOK

LEMMA InsertSound ==
  ASSUME CPInv, NEW c \in Calls, InsertRow(c)
  PROVE  RowsOK /\ CallsOK(call')
<1> DEFINE q == call[c].q  s == Step(c)  t == Step(c).table
<1>1. /\ s.cmd = "insert" /\ ValidRequest(q) /\ call[c].pc \in Nat /\ call[c].pc > 0
      /\ StmtOK(s, q.route, q.method)
  BY AtStepOK DEF InsertRow
<1>2. CallsOK(call) /\ CallOK(call[c])
  BY DEF CPInv, CallsOK
<1>3. CASE Insertable(q, s)
  <2>1. CallsOK(call')
    <3> DEFINE k == [call[c] EXCEPT !.pc = @ + 1, !.made = @ \cup {nextId}]
    <3>1. call' = [call EXCEPT ![c] = k]
      BY <1>3 DEF InsertRow
    <3>2. CallOK(k)
      BY <1>1, <1>2, CallSteps
    <3> HIDE DEF k
    <3> QED BY <1>2, <3>1, <3>2, CallChanged
  <2>2. t \in Tables /\ t # "incidents" /\ (t = "ab_tests" => q.val = "draft")
    BY <1>1 DEF StmtOK, ValidRequest
  <2>3. Placed(t, q.home) /\ q.refs \subseteq Ids \cup {0} /\ ~Taken(t, q.home, q.name)
    BY <1>3 DEF Insertable
  <2>4. CASE t = "organizations"
    <3>1. q.home = 0
      BY <2>3, <2>4 DEF Placed
    <3>2. OrgFor(q, t) = nextId
      BY <2>4 DEF OrgFor
    <3>3. /\ nextId' = nextId + 2
          /\ db' = db \cup {NewRow(nextId, "organizations", nextId, 0, q.refs \cup {0}, q.name, q.val)} \cup {Owner(q)}
      BY <1>3, <2>4, <3>1, <3>2 DEF InsertRow
    <3>4. Owner(q) = NewRow(nextId + 1, "memberships", nextId, nextId, {nextId}, q.user, "owner")
      BY DEF Owner
    <3>5. ~Taken("organizations", 0, q.name)
      BY <2>3, <2>4, <3>1
    <3>6. RowsOK
      BY <2>3, <3>3, <3>4, <3>5, InsertOrganization
    <3> QED BY <2>1, <3>6
  <2>5. CASE t # "organizations"
    <3>1. nextId' = nextId + 1 /\ db' = db \cup {NewRow(nextId, t, OrgFor(q, t), q.home, q.refs \cup {q.home}, q.name, q.val)}
      BY <1>3, <2>5 DEF InsertRow
    <3>2. ASSUME NEW p \in db, p.id = q.home PROVE p.org = OrgFor(q, t)
      BY <2>5, <3>2, OrgOfNew
    <3>3. RowsOK
      <4> DEFINE o == OrgFor(q, t)
      <4>1. \A p \in db : p.id = q.home => p.org = o
        BY <3>2
      <4> HIDE DEF q, o, t
      <4> QED BY <2>2, <2>3, <2>5, <3>1, <4>1, InsertOne DEF o
    <3> QED BY <2>1, <3>3
  <2> QED BY <2>4, <2>5
<1>4. CASE ~Insertable(q, s)
  <2>1. UNCHANGED <<db, nextId>> /\ (Answer(c, "error") \/ Proceed(c))
    BY <1>4 DEF InsertRow
  <2>2. CallsOK(call')
    BY <1>2, <1>1, <2>1, CallMoves
  <2> QED BY <2>1, <2>2, NothingWritten
<1> QED BY <1>3, <1>4

\* The rows of a finite set can be numbered.
LEMMA Places ==
  ASSUME NEW S, IsFiniteSet(S)
  PROVE  \E f \in [S -> 0 .. Cardinality(S) - 1] : \A r, s \in S : r # s => f[r] # f[s]
<1> DEFINE n == Cardinality(S)
<1>1. n \in Nat /\ ExistsBijection(1 .. n, S)
  BY FS_CardinalityType
<1>2. PICK g : g \in Bijection(1 .. n, S)
  BY <1>1 DEF ExistsBijection
<1> HIDE DEF n
<1>3. \A s \in S : \E i \in 1 .. n : g[i] = s
  BY <1>2 DEF Bijection, Surjection
<1> DEFINE at == [s \in S |-> CHOOSE i \in 1 .. n : g[i] = s]
           f == [s \in S |-> at[s] - 1]
<1>4. \A s \in S : at[s] \in 1 .. n /\ g[at[s]] = s
  BY <1>3
<1> HIDE DEF at
<1>5. f \in [S -> 0 .. n - 1]
  BY <1>1, <1>4
<1>6. \A r, s \in S : r # s => f[r] # f[s]
  BY <1>4
<1> HIDE DEF f
<1> QED BY <1>5, <1>6 DEF n

\* f takes each row of got to a route of e, numbered from nextId on.
CopiesOf(got, e, o, place, f) ==
  /\ IsFiniteSet(got) /\ \A p \in db : p.id = e => p.org = o
  /\ place \in [got -> 0 .. Cardinality(got) - 1] /\ \A r, s \in got : r # s => place[r] # place[s]
  /\ \A r \in got : \E refs, nm, v : e \in refs /\ f[r] = NewRow(nextId + place[r], "routes", o, e, refs, nm, v)

LEMMA CopiesSound ==
  ASSUME CPInv, NEW got, NEW e, NEW o, NEW place, NEW f, CopiesOf(got, e, o, place, f), Placed("routes", e),
         NEW copies, copies = {f[r] : r \in got},
         \A r \in copies : r.refs \subseteq Ids /\ ~Taken("routes", e, r.name),
         \A r, s \in copies : r.name = s.name => r = s,
         nextId' = nextId + Cardinality(copies), db' = db \cup copies
  PROVE  RowsOK
<1> USE DEF CopiesOf
<1> DEFINE n == Cardinality(got)
<1>1. nextId \in Nat /\ nextId > 0 /\ nextId - 1 \in Nat /\ SoundRows(db, nextId - 1)
  BY DEF CPInv
<1>2. PICK p \in db : p.id = e /\ p.table \in Schema["routes"].cascade
  BY DEF Placed
<1>3. RowOK(p, db, nextId - 1) /\ p.org = o /\ e \in 1 .. nextId - 1
  BY <1>1, <1>2, SoundParts DEF RowOK
<1>4. n \in Nat
  BY FS_CardinalityType
<1>5. \A r \in got : place[r] \in Int /\ 0 <= place[r] /\ place[r] <= n - 1
  BY <1>4
<1>6. ASSUME NEW r \in got
      PROVE  /\ IsRow(f[r]) /\ f[r].id = nextId + place[r] /\ f[r].table = "routes" /\ f[r].org = o
             /\ f[r].home = e /\ e \in f[r].refs
  <2>1. 0 # e
    BY <1>3
  <2>2. PICK refs, nm, v : e \in refs /\ f[r] = NewRow(nextId + place[r], "routes", o, e, refs, nm, v)
    OBVIOUS
  <2> QED BY <2>1, <2>2, NewFields
<1>7. copies = {f[r] : r \in got}
  OBVIOUS
<1> HIDE DEF n
<1>8. \A r, s \in got : f[r] = f[s] => r = s
  <2> SUFFICES ASSUME NEW r \in got, NEW s \in got, f[r] = f[s], r # s PROVE FALSE
    OBVIOUS
  <2>1. nextId + place[r] = nextId + place[s]
    BY <1>6
  <2> QED BY <1>1, <1>5, <2>1
<1>9. IsFiniteSet(copies) /\ Cardinality(copies) = n
  <2>1. IsFiniteSet(got)
    OBVIOUS
  <2>2. Cardinality(copies) = Cardinality(got)
    BY ONLY <1>7, <1>8, <2>1, ImageFinite
  <2>3. IsFiniteSet(copies)
    BY ONLY <1>7, <2>1, ImageIsFinite
  <2> QED BY <2>2, <2>3 DEF n
<1>10. ASSUME NEW k \in copies
       PROVE  RowOK(k, db \cup copies, nextId + n - 1) /\ k.id \notin 1 .. nextId - 1 /\ k.table = "routes" /\ k.home = e
  <2>1. PICK r \in got : k = f[r]
    BY <1>7
  <2>2. k.id \in Int /\ nextId <= k.id /\ k.id <= nextId + n - 1
    BY <1>1, <1>4, <1>5, <1>6, <2>1
  <2>3. k.refs \subseteq {x.id : x \in db \cup copies}
    <3>1. k.refs \subseteq Ids
      OBVIOUS
    <3> QED BY <3>1 DEF Ids
  <2>4. InPlace(k, db \cup copies) /\ Timed(k)
    BY <1>2, <1>3, <1>6, <2>1 DEF InPlace, Timed
  <2>5. \E x \in db \cup copies : x.id = k.org /\ x.table = "organizations"
    BY <1>3, <1>6, <2>1 DEF RowOK
  <2>6. IsRow(k) /\ k.table = "routes" /\ k.home = e /\ k.table \in Tables
    BY <1>6, <2>1, TableNames
  <2>7. k.id \in 1 .. nextId + n - 1 /\ k.id \notin 1 .. nextId - 1
    BY <1>1, <1>4, <2>2
  <2> QED BY <2>3, <2>4, <2>5, <2>6, <2>7 DEF RowOK
<1>11. \A r, s \in copies : Apart(r, s)
  <2> SUFFICES ASSUME NEW k \in copies, NEW l \in copies PROVE Apart(k, l)
    OBVIOUS
  <2>1. PICK r \in got, s \in got : k = f[r] /\ l = f[s]
    BY <1>7
  <2>2. k.id = l.id => r = s
    BY <1>1, <1>5, <1>6, <2>1
  <2>3. k.name = l.name => k = l
    OBVIOUS
  <2> QED BY <2>1, <2>2, <2>3 DEF Apart
<1>12. \A k \in copies : \A s \in db : Unlike(k, s)
  BY <1>10 DEF Taken, Unlike
<1>13. nextId + n - 1 \in Nat /\ nextId - 1 <= nextId + n - 1
  BY <1>1, <1>4
<1>14. SoundRows(db \cup copies, nextId + n - 1)
  BY <1>1, <1>9, <1>10, <1>11, <1>12, <1>13, AddedSound
<1>15. nextId' - 1 = nextId + n - 1 /\ nextId' \in Nat \ {0}
  BY <1>1, <1>4, <1>9
<1>16. HeldKept
  BY NoneChanged
<1> QED BY <1>14, <1>15, <1>16 DEF RowsOK

LEMMA CopySound ==
  ASSUME CPInv, NEW c \in Calls, CopyRows(c)
  PROVE  RowsOK /\ CallsOK(call')
<1> DEFINE q == call[c].q
           got == call[c].got
           e == CHOOSE i \in call[c].made : TRUE
           org == (CHOOSE r \in db : r.id = e).org
           place == CHOOSE f \in [got -> 0 .. Cardinality(got) - 1] : \A r, s \in got : r # s => f[r] # f[s]
           copies == {NewRow(nextId + place[r], "routes", org, e, {e} \cup {i \in r.refs : i # r.home}, r.name,
                        IF q.val = "configs" THEN r.val ELSE "unlimited") : r \in got}
           fits == /\ Placed("routes", e)
                   /\ \A r \in copies : r.refs \subseteq Ids /\ ~Taken("routes", e, r.name)
                   /\ \A r, s \in copies : r.name = s.name => r = s
                   /\ May(q.user, "insert", "routes", org)
           stored == /\ db' = db \cup copies
                     /\ nextId' = nextId + Cardinality(copies)
                     /\ call' = [call EXCEPT ![c].pc = @ + 1, ![c].made = @ \cup {r.id : r \in copies}]
<1>1. AtStep(c, "copy") /\ CallsOK(call) /\ CallOK(call[c]) /\ call[c].pc > 0
  BY AtStepOK DEF CopyRows, CPInv, CallsOK
<1>2. \/ Proceed(c) /\ UNCHANGED <<db, nextId>>
      \/ Answer(c, "error") /\ UNCHANGED <<db, nextId>>
      \/ fits /\ stored
  BY DEF CopyRows
<1>3. CASE (Proceed(c) \/ Answer(c, "error")) /\ UNCHANGED <<db, nextId>>
  BY <1>1, <1>3, CallMoves, NothingWritten
<1>4. CASE fits /\ stored
  <2>1. place \in [got -> 0 .. Cardinality(got) - 1] /\ \A r, s \in got : r # s => place[r] # place[s]
    <3>1. IsFiniteSet(got)
      BY <1>1 DEF CallOK
    <3>2. \E f \in [got -> 0 .. Cardinality(got) - 1] : \A r, s \in got : r # s => f[r] # f[s]
      BY <3>1, Places
    <3> QED BY <3>2
  <2>2. \A p \in db : p.id = e => p.org = org
    <3> SUFFICES ASSUME NEW p \in db, p.id = e PROVE p.org = org
      OBVIOUS
    <3> HIDE DEF e
    <3>1. (CHOOSE r \in db : r.id = e) = p
      BY TheRow DEF CPInv
    <3> QED BY <3>1
  <2>3. IsFiniteSet(got)
    BY <1>1 DEF CallOK
  <2> HIDE DEF e, org, place
  <2> DEFINE k == [call[c] EXCEPT !.pc = @ + 1, !.made = @ \cup {r.id : r \in copies}]
  <2>4. call' = [call EXCEPT ![c] = k]
    BY <1>4
  <2>5. CallOK(k)
    BY <1>1, CallSteps
  <2>6. CallsOK(call')
    <3> HIDE DEF k
    <3> QED BY <1>1, <2>4, <2>5, CallChanged
  <2>7. RowsOK
    <3> HIDE DEF k, q, got
    <3> DEFINE f == [r \in got |-> NewRow(nextId + place[r], "routes", org, e, {e} \cup {i \in r.refs : i # r.home},
                                         r.name, IF q.val = "configs" THEN r.val ELSE "unlimited")]
    <3>1. copies = {f[r] : r \in got}
      OBVIOUS
    <3>3. \A r \in got : \E refs, nm, v : e \in refs /\ f[r] = NewRow(nextId + place[r], "routes", org, e, refs, nm, v)
      OBVIOUS
    <3>2. /\ Placed("routes", e)
          /\ \A r \in copies : r.refs \subseteq Ids /\ ~Taken("routes", e, r.name)
          /\ \A r, s \in copies : r.name = s.name => r = s
          /\ db' = db \cup copies
          /\ nextId' = nextId + Cardinality(copies)
      BY <1>4
    <3> HIDE DEF copies, f
    <3>4. CopiesOf(got, e, org, place, f)
      BY <2>1, <2>2, <2>3, <3>3 DEF CopiesOf
    <3> QED BY <3>1, <3>2, <3>4, CopiesSound
  <2> QED BY <2>6, <2>7
<1> QED BY <1>2, <1>3, <1>4

\* Rows changed where they are hold what they held.
LEMMA ReplacedHold ==
  ASSUME NEW n, SoundRows(db, n), NEW g, db' = {g[r] : r \in db},
         \A r \in db : g[r].id = r.id /\ g[r].refs = r.refs
  PROVE  HeldKept
<1> SUFFICES ASSUME NEW r \in db, NEW s \in db', r.id = s.id PROVE s.refs = r.refs
  BY DEF HeldKept
<1>1. PICK x \in db : s = g[x]
  OBVIOUS
<1>2. x = r
  BY <1>1, SoundParts DEF Apart
<1> QED BY <1>1, <1>2

LEMMA ValFields ==
  ASSUME NEW r, IsRow(r), NEW v
  PROVE  LET s == WithVal(r, v) IN
         /\ IsRow(s) /\ s.id = r.id /\ s.table = r.table /\ s.org = r.org /\ s.home = r.home
         /\ s.refs = r.refs /\ s.name = r.name /\ s.val = v
         /\ r.table = "incidents" => s.stamps = r.stamps \cup ({v} \cap {"acknowledged", "resolved"})
         /\ r.table = "ab_tests" => s.stamps = r.stamps \cup ({v} \cap {"running", "completed"})
<1> DEFINE more == {v} \cap IF r.table = "incidents" THEN {"acknowledged", "resolved"}
                            ELSE IF r.table = "ab_tests" THEN {"running", "completed"} ELSE {}
           k == [r EXCEPT !.val = v]
           s == [k EXCEPT !.stamps = @ \cup more]
<1>1. WithVal(r, v) = s
  BY DEF WithVal
<1>2. more = {v} \cap {"acknowledged", "resolved"} \/ r.table # "incidents"
  OBVIOUS
<1>3. more = {v} \cap {"running", "completed"} \/ r.table # "ab_tests"
  OBVIOUS
<1>4. /\ IsRow(k) /\ k.id = r.id /\ k.table = r.table /\ k.org = r.org /\ k.home = r.home
      /\ k.refs = r.refs /\ k.name = r.name /\ k.val = v /\ k.stamps = r.stamps
  BY DEF IsRow
<1> HIDE DEF more, k
<1>5. /\ IsRow(s) /\ s.id = k.id /\ s.table = k.table /\ s.org = k.org /\ s.home = k.home
      /\ s.refs = k.refs /\ s.name = k.name /\ s.val = k.val /\ s.stamps = k.stamps \cup more
  BY <1>4 DEF IsRow
<1> HIDE DEF s
<1> QED BY <1>1, <1>2, <1>3, <1>4, <1>5

LEMMA UpdateSound ==
  ASSUME CPInv, NEW c \in Calls, UpdateRows(c)
  PROVE  RowsOK /\ CallsOK(call')
<1> DEFINE q == call[c].q  s == Step(c)  hit == Found(s, q, "update")  v == call[c].q.val
           g == [r \in db |-> IF r \in hit THEN WithVal(r, v) ELSE r]
<1>1. /\ AtStep(c, "update") /\ s.cmd = "update" /\ ValidRequest(q) /\ call[c].pc > 0
      /\ StmtOK(s, q.route, q.method)
  BY AtStepOK DEF UpdateRows
<1>2. CallsOK(call) /\ nextId' = nextId
  BY DEF CPInv, UpdateRows
<1>3. CASE Answer(c, s.none) /\ UNCHANGED db
  BY <1>2, <1>3, CallMoves, NothingWritten
<1>4. CASE db' = (db \ hit) \cup {WithVal(r, v) : r \in hit} /\ Proceed(c)
  <2>1. \A r \in hit : r \in db /\ r.table = s.table
    BY DEF Found, Matches
  <2>2. s.table = "incidents" => v \in {"acknowledged", "resolved"}
    BY <1>1 DEF StmtOK, ValidRequest
  <2>3. s.table = "ab_tests" => v \in {"draft", "running", "paused", "completed"}
    BY <1>1 DEF StmtOK, ValidRequest
  <2> HIDE DEF q, s, hit, v
  <2>4. ASSUME NEW r \in db
        PROVE  /\ IsRow(g[r]) /\ g[r].id = r.id /\ g[r].table = r.table /\ g[r].org = r.org
               /\ g[r].home = r.home /\ g[r].refs = r.refs /\ g[r].name = r.name /\ Timed(g[r])
    <3>1. RowOK(r, db, nextId - 1)
      BY SoundParts DEF CPInv
    <3>2. CASE r \notin hit
      BY <3>1, <3>2 DEF RowOK
    <3>3. CASE r \in hit
      <4> DEFINE w == WithVal(r, v)
      <4>1. g[r] = w
        BY <3>3
      <4>2. /\ IsRow(w) /\ w.id = r.id /\ w.table = r.table /\ w.org = r.org /\ w.home = r.home
            /\ w.refs = r.refs /\ w.name = r.name /\ w.val = v
            /\ r.table = "incidents" => w.stamps = r.stamps \cup ({v} \cap {"acknowledged", "resolved"})
            /\ r.table = "ab_tests" => w.stamps = r.stamps \cup ({v} \cap {"running", "completed"})
        BY <3>1, ValFields DEF RowOK
      <4> HIDE DEF w
      <4>3. Timed(w)
        BY <2>1, <2>2, <2>3, <3>3, <4>2 DEF Timed
      <4> HIDE DEF g
      <4> QED BY <4>1, <4>2, <4>3
    <3> QED BY <3>2, <3>3
  <2>5. db' = {g[r] : r \in db}
    BY <1>4, <2>1
  <2> HIDE DEF g
  <2>6. SoundRows(db', nextId - 1)
    BY <2>4, <2>5, ReplacedSound DEF CPInv
  <2>7. HeldKept
    BY <2>4, <2>5, ReplacedHold DEF CPInv
  <2>8. CallsOK(call')
    BY <1>1, <1>2, <1>4, CallMoves
  <2> QED BY <1>2, <2>6, <2>7, <2>8 DEF RowsOK, CPInv
<1>5. hit = {} => Answer(c, s.none) /\ UNCHANGED db
  BY DEF UpdateRows
<1>6. hit # {} => db' = (db \ hit) \cup {WithVal(r, v) : r \in hit} /\ Proceed(c)
  BY DEF UpdateRows
<1> QED BY <1>3, <1>4, <1>5, <1>6

\* What a statement that goes with G leaves behind forgets only what went.
LEMMA WithoutHolds ==
  ASSUME NEW n, SoundRows(db, n), NEW G \in SUBSET db, db' = Without(G),
         \A r \in db \ G : \A d \in G : d.id \in r.refs =>
           <<r.table, d.table>> \notin {<<"alert_rules", "webhooks">>, <<"requests", "models">>, <<"requests", "providers">>}
  PROVE  HeldKept
<1> SUFFICES ASSUME NEW r \in db, NEW s \in db', r.id = s.id, NEW i \in r.refs, i \notin s.refs,
                    <<r.table, TableOf(i)>> \in {<<"alert_rules", "webhooks">>, <<"requests", "models">>,
                                                 <<"requests", "providers">>}
             PROVE  FALSE
  BY DEF HeldKept
<1>1. PICK x \in db \ G : s = Forget(x, G)
  BY DEF Without, Forget
<1>2. IsRow(x)
  BY SoundParts DEF RowOK
<1>3. s.id = x.id /\ s.refs = x.refs \ {d.id : d \in G}
  BY <1>1, <1>2, Forgets
<1>4. x = r
  BY <1>3, SoundParts DEF Apart
<1>5. PICK d \in G : d.id = i
  BY <1>3, <1>4
<1>6. TableOf(i) = d.table
  BY <1>5, TheRow DEF TableOf
<1> QED BY <1>1, <1>4, <1>5, <1>6

LEMMA Holds ==
  /\ "webhooks" \in Schema["alert_rules"].hold
  /\ "models" \in Schema["requests"].hold /\ "providers" \in Schema["requests"].hold
BY DEF Schema, alert_rules, requests

LEMMA DeleteSound ==
  ASSUME CPInv, NEW c \in Calls, DeleteRows(c)
  PROVE  RowsOK /\ CallsOK(call')
<1> DEFINE hit == Found(Step(c), call[c].q, "delete")  G == Gone(hit)
<1>1. AtStep(c, "delete") /\ call[c].pc > 0 /\ CallsOK(call) /\ nextId' = nextId
  BY AtStepOK DEF DeleteRows, CPInv
<1>2. \/ Answer(c, "error") /\ UNCHANGED db
      \/ ~Held(G) /\ db' = Without(G) /\ Proceed(c)
  BY DEF DeleteRows
<1>3. CASE Answer(c, "error") /\ UNCHANGED db
  BY <1>1, <1>3, CallMoves, NothingWritten
<1>4. CASE ~Held(G) /\ db' = Without(G) /\ Proceed(c)
  <2>1. SoundRows(db, nextId - 1) /\ nextId \in Nat \ {0}
    BY DEF CPInv
  <2>2. hit \in SUBSET db
    BY DEF Found
  <2> HIDE DEF hit
  <2>3. G \in SUBSET db /\ Closed(G)
    BY <2>1, <2>2, GoneClosed DEF Closed
  <2> HIDE DEF G
  <2>4. SoundRows(db', nextId - 1)
    BY <1>4, <2>1, <2>3, WithoutSound
  <2>5. ASSUME NEW r \in db \ G, NEW d \in G, d.id \in r.refs
        PROVE  <<r.table, d.table>> \notin {<<"alert_rules", "webhooks">>, <<"requests", "models">>,
                                             <<"requests", "providers">>}
    <3>1. d.table \notin Schema[r.table].hold
      BY <1>4, <2>5 DEF Held
    <3> QED BY <3>1, Holds
  <2>6. HeldKept
    BY <1>4, <2>1, <2>3, <2>5, WithoutHolds
  <2>7. CallsOK(call')
    BY <1>1, <1>4, CallMoves
  <2> QED BY <1>1, <2>1, <2>4, <2>6, <2>7 DEF RowsOK
<1> QED BY <1>2, <1>3, <1>4

LEMMA EditSound ==
  ASSUME CPInv, EditRole
  PROVE  RowsOK /\ CallsOK(call')
<1>1. SoundRows(db, nextId - 1) /\ nextId \in Nat \ {0} /\ nextId' = nextId /\ CallsOK(call')
  BY DEF CPInv, EditRole
<1>2. PICK m \in db : /\ m.table = "memberships"
                      /\ \/ \E v \in EditedRoles : db' = (db \ {m}) \cup {[m EXCEPT !.val = v]}
                         \/ db' = Without({m})
  BY DEF EditRole
<1>3. CASE db' = Without({m})
  <2>1. {m} \in SUBSET db
    OBVIOUS
  <2>2. Closed({m})
    <3> SUFFICES ASSUME NEW r \in db, "memberships" \in Schema[r.table].cascade PROVE FALSE
      BY <1>2 DEF Closed
    <3> QED BY <1>1, SoundParts, Depths DEF RowOK
  <2>3. SoundRows(db', nextId - 1)
    BY <1>1, <1>3, <2>1, <2>2, WithoutSound
  <2>4. HeldKept
    BY <1>1, <1>2, <1>3, <2>1, WithoutHolds
  <2> QED BY <1>1, <2>3, <2>4 DEF RowsOK
<1>4. ASSUME NEW v, db' = (db \ {m}) \cup {[m EXCEPT !.val = v]} PROVE RowsOK
  <2> DEFINE w == [m EXCEPT !.val = v]
             g == [r \in db |-> IF r = m THEN w ELSE r]
  <2>1. \A r \in db : RowOK(r, db, nextId - 1)
    BY <1>1, SoundParts
  <2>2. /\ IsRow(w) /\ w.id = m.id /\ w.table = m.table /\ w.org = m.org /\ w.home = m.home
        /\ w.refs = m.refs /\ w.name = m.name
    BY <2>1 DEF RowOK, IsRow
  <2>3. db' = (db \ {m}) \cup {w}
    BY <1>4
  <2> HIDE DEF w
  <2>4. db' = {g[r] : r \in db}
    BY <2>3
  <2>5. ASSUME NEW r \in db
        PROVE  /\ IsRow(g[r]) /\ g[r].id = r.id /\ g[r].table = r.table /\ g[r].org = r.org
               /\ g[r].home = r.home /\ g[r].refs = r.refs /\ g[r].name = r.name /\ Timed(g[r])
    <3>1. CASE r = m
      BY <1>2, <2>2, <3>1 DEF Timed
    <3>2. CASE r # m
      BY <2>1, <3>2 DEF RowOK
    <3> QED BY <3>1, <3>2
  <2> HIDE DEF g
  <2>6. SoundRows(db', nextId - 1)
    BY <1>1, <2>4, <2>5, ReplacedSound
  <2>7. HeldKept
    BY <1>1, <2>4, <2>5, ReplacedHold
  <2> QED BY <1>1, <2>6, <2>7 DEF RowsOK
<1> QED BY <1>1, <1>2, <1>3, <1>4

-----------------------------------------------------------------------------

LEMMA CPInit_Inv == CPInit => CPInv
<1> SUFFICES ASSUME CPInit PROVE CPInv
  OBVIOUS
<1>1. SoundRows(db, Cardinality(db))
  BY SceneAssumption DEF CPInit
<1>2. IsFiniteSet(db) /\ Cardinality(db) \in Nat
  BY <1>1, SoundParts, FS_CardinalityType
<1>3. nextId = Cardinality(db) + 1 /\ scene \in DOMAIN Scenes
  BY DEF CPInit
<1>4. nextId - 1 = Cardinality(db) /\ nextId \in Nat \ {0}
  BY <1>2, <1>3
<1>5. CallOK(NoCall)
  BY FS_EmptySet DEF CallOK, NoCall
<1>6. CallsOK(call)
  BY <1>5 DEF CPInit, CallsOK
<1> QED BY <1>1, <1>3, <1>4, <1>6 DEF CPInv

LEMMA CPNext_Inv ==
  ASSUME CPInv, [CPNext]_cpvars
  PROVE  CPInv' /\ HeldKept
<1>1. /\ CallsOK(call) /\ scene \in DOMAIN Scenes /\ SoundRows(db, nextId - 1) /\ nextId \in Nat \ {0}
      /\ \A c \in Calls : CallOK(call[c])
  BY DEF CPInv, CallsOK
<1>2. SUFFICES scene' = scene /\ RowsOK /\ CallsOK(call')
  BY <1>1 DEF RowsOK, CPInv, CallsOK, SoundRows, InPlace
<1>3. CASE UNCHANGED cpvars
  BY <1>1, <1>3, NothingWritten DEF cpvars
<1>4. ASSUME NEW c \in Calls, NEW q \in Scenes[scene].requests[c], Guard(c, q) PROVE scene' = scene /\ RowsOK /\ CallsOK(call')
  <2> DEFINE k == [NoCall EXCEPT !.q = q, !.pc = 1, !.seen = RoutesAsked(q),
                     !.answer = IF q.user = Nobody THEN "unauthorized"
                                ELSE IF RoleIn(q.user, q.org) \notin API[q.route][q.method].guard
                                THEN "forbidden" ELSE "none"]
  <2>1. UNCHANGED <<db, nextId, scene>> /\ call' = [call EXCEPT ![c] = k]
    BY <1>4 DEF Guard
  <2>2. ValidRequest(q)
    BY <1>1, <1>4, SceneAssumption
  <2>3. CallOK(k)
    <3> DEFINE seen == RoutesAsked(q)
               a == IF q.user = Nobody THEN "unauthorized"
                    ELSE IF RoleIn(q.user, q.org) \notin API[q.route][q.method].guard THEN "forbidden" ELSE "none"
    <3>1. k = [NoCall EXCEPT !.q = q, !.pc = 1, !.seen = seen, !.answer = a]
      OBVIOUS
    <3> HIDE DEF k, seen, a
    <3>2. k = [q |-> q, pc |-> 1, got |-> {}, made |-> {}, seen |-> seen, answer |-> a]
      BY <3>1 DEF NoCall
    <3> QED BY <2>2, <3>2, FS_EmptySet DEF CallOK
  <2> HIDE DEF k
  <2> QED BY <1>1, <2>1, <2>3, CallChanged, NothingWritten
<1>5. ASSUME NEW c \in Calls, Skip(c) \/ Asking(c) \/ Needing(c) PROVE scene' = scene /\ RowsOK /\ CallsOK(call')
  <2>1. call[c].pc > 0 /\ UNCHANGED <<db, nextId, scene>> /\ (Proceed(c) \/ \E a : Answer(c, a))
    BY <1>5 DEF Skip, Asking, Needing, AtStep, Running
  <2> QED BY <1>1, <2>1, CallMoves, NothingWritten
<1>6. ASSUME NEW c \in Calls, Select(c) PROVE scene' = scene /\ RowsOK /\ CallsOK(call')
  <2> DEFINE got == Found(Step(c), call[c].q, "select")
  <2>1. /\ call[c].pc > 0 /\ UNCHANGED <<db, nextId, scene>>
        /\ (\E a : Answer(c, a)) \/ call' = [call EXCEPT ![c].pc = @ + 1, ![c].got = got]
    BY <1>6 DEF Select, AtStep, Running
  <2>2. CASE \E a : Answer(c, a)
    BY <1>1, <2>1, <2>2, CallMoves, NothingWritten
  <2>3. CASE call' = [call EXCEPT ![c].pc = @ + 1, ![c].got = got]
    <3>1. IsFiniteSet(got)
      BY <1>1, SoundParts, FS_Subset DEF Found
    <3> DEFINE k == [call[c] EXCEPT !.pc = @ + 1, !.got = got]
    <3>2. call' = [call EXCEPT ![c] = k]
      BY <2>3
    <3>3. CallOK(k)
      BY <1>1, <2>1, <3>1, CallSteps
    <3> HIDE DEF k
    <3> QED BY <1>1, <2>1, <3>2, <3>3, CallChanged, NothingWritten
  <2> QED BY <2>1, <2>2, <2>3
<1>7. ASSUME NEW c \in Calls, Fail(c) \/ Finish(c) PROVE scene' = scene /\ RowsOK /\ CallsOK(call')
  <2>1. call[c].pc > 0 /\ UNCHANGED <<db, nextId, scene>> /\ (Proceed(c) \/ \E a : Answer(c, a))
    BY <1>7 DEF Fail, Finish, Running
  <2> QED BY <1>1, <2>1, CallMoves, NothingWritten
<1>8. ASSUME NEW c \in Calls, InsertRow(c) PROVE scene' = scene /\ RowsOK /\ CallsOK(call')
  BY <1>8, InsertSound DEF InsertRow
<1>9. ASSUME NEW c \in Calls, CopyRows(c) PROVE scene' = scene /\ RowsOK /\ CallsOK(call')
  BY <1>9, CopySound DEF CopyRows
<1>10. ASSUME NEW c \in Calls, UpdateRows(c) PROVE scene' = scene /\ RowsOK /\ CallsOK(call')
  BY <1>10, UpdateSound DEF UpdateRows
<1>11. ASSUME NEW c \in Calls, DeleteRows(c) PROVE scene' = scene /\ RowsOK /\ CallsOK(call')
  BY <1>11, DeleteSound DEF DeleteRows
<1>12. CASE EditRole
  BY <1>12, EditSound DEF EditRole
<1> QED BY <1>3, <1>4, <1>5, <1>6, <1>7, <1>8, <1>9, <1>10, <1>11, <1>12 DEF CPNext

(***************************************************************************)
(* RowsSound (the handlers of app/api/v1 over the schema of the            *)
(* migrations): whatever the requests, and however their statements, their *)
(* failures and changes of membership interleave, the rows stay consistent *)
(* and nothing a row holds is taken from under it.                         *)
(***************************************************************************)
THEOREM RowsStaySound == CPSpec => RowsSound
<1>1. CPInv /\ [CPNext]_cpvars => CPInv'
  BY CPNext_Inv
<1>2. CPInv /\ [CPNext]_cpvars => HeldKept
  BY CPNext_Inv
<1>3. CPInv => Consistent
  BY SoundIsConsistent DEF CPInv
<1> QED BY <1>1, <1>2, <1>3, CPInit_Inv, PTL DEF CPSpec, RowsSound

-----------------------------------------------------------------------------
(* The guard, again.  Every statement that writes is open, by the policies *)
(* of its table, only to roles its handler is open to; and of environments *)
(* and routes none deletes one by itself, a route is changed by its id, and *)
(* only a clone copies routes.                                             *)

StmtKeeps(s, route, guard) ==
  /\ s.cmd \in {"insert", "update", "delete"} => s.table \in Tables /\ Policy[s.table][s.cmd] \subseteq guard
  /\ s.cmd = "copy" => route = "clone" /\ Admins \subseteq guard
  /\ s.cmd = "update" /\ s.table = "routes" => "id" \in s.by
  /\ s.cmd = "delete" => s.table \notin {"environments", "routes"}

PlanKeeps(plan, route, guard) == \A i \in 1 .. Len(plan) : StmtKeeps(plan[i], route, guard)

HandlersKeep(handlers, route) == \A m \in DOMAIN handlers : PlanKeeps(handlers[m].plan, route, handlers[m].guard)

LEMMA ReadsKeep ==
  ASSUME NEW route, NEW guard
  PROVE  /\ \A t, by : /\ StmtKeeps(List(t, by), route, guard) /\ StmtKeeps(One(t, by), route, guard)
                       /\ StmtKeeps(Unused(t, by), route, guard)
                       /\ StmtKeeps(Ignoring(List(t, by)), route, guard)
                       /\ \A a : /\ StmtKeeps(OrElse(One(t, by), a), route, guard)
                                 /\ StmtKeeps(Optional(OrElse(One(t, by), a)), route, guard)
         /\ \A t : /\ StmtKeeps(Need(t), route, guard) /\ StmtKeeps(Ask(t), route, guard)
                   /\ StmtKeeps(Ignoring(Ask(t)), route, guard)
<1> USE DEF StmtKeeps, List, One, Unused, Ignoring, OrElse, Optional, Need, Ask, Read
<1>1. ASSUME NEW t, NEW by
      PROVE  /\ StmtKeeps(List(t, by), route, guard) /\ StmtKeeps(One(t, by), route, guard)
             /\ StmtKeeps(Unused(t, by), route, guard) /\ StmtKeeps(Ignoring(List(t, by)), route, guard)
             /\ \A a : /\ StmtKeeps(OrElse(One(t, by), a), route, guard)
                       /\ StmtKeeps(Optional(OrElse(One(t, by), a)), route, guard)
  OBVIOUS
<1>2. ASSUME NEW t
      PROVE  /\ StmtKeeps(Need(t), route, guard) /\ StmtKeeps(Ask(t), route, guard)
             /\ StmtKeeps(Ignoring(Ask(t)), route, guard)
  OBVIOUS
<1> QED BY <1>1, <1>2

\* The roles a handler's guard has if those of its statement's policy are in it.
LEMMA WritesKeep ==
  ASSUME NEW route, NEW guard
  PROVE  /\ \A t \in Tables : Policy[t].insert \subseteq guard =>
              /\ StmtKeeps(Add(t), route, guard) /\ StmtKeeps(Put(t), route, guard)
              /\ StmtKeeps(Ignoring(Put(t)), route, guard)
         /\ \A t \in Tables : Policy[t].update \subseteq guard =>
              /\ \A by : t # "routes" => StmtKeeps(Patch(t, by), route, guard) /\ StmtKeeps(PatchFound(t, by), route, guard)
              /\ \A n : StmtKeeps(PatchNth(t, n), route, guard)
         /\ \A t \in Tables \ {"environments", "routes"} : Policy[t].delete \subseteq guard =>
              \A by : StmtKeeps(Erase(t, by), route, guard)
         /\ \A t : Admins \subseteq guard => StmtKeeps(Copy(t), "clone", guard)
<1> USE DEF StmtKeeps, Add, Put, Ignoring, Patch, PatchFound, PatchNth, OrElse, Erase, Copy, Read
<1>1. ASSUME NEW t \in Tables, Policy[t].insert \subseteq guard
      PROVE  /\ StmtKeeps(Add(t), route, guard) /\ StmtKeeps(Put(t), route, guard)
             /\ StmtKeeps(Ignoring(Put(t)), route, guard)
  BY <1>1
<1>2. ASSUME NEW t \in Tables, Policy[t].update \subseteq guard
      PROVE  /\ \A by : t # "routes" => StmtKeeps(Patch(t, by), route, guard) /\ StmtKeeps(PatchFound(t, by), route, guard)
             /\ \A n : StmtKeeps(PatchNth(t, n), route, guard)
  BY <1>2
<1>3. ASSUME NEW t \in Tables \ {"environments", "routes"}, Policy[t].delete \subseteq guard, NEW by
      PROVE  StmtKeeps(Erase(t, by), route, guard)
  BY <1>3
<1>4. ASSUME NEW t, Admins \subseteq guard PROVE StmtKeeps(Copy(t), "clone", guard)
  BY <1>4
<1> QED BY <1>1, <1>2, <1>3, <1>4

LEMMA PlansKeep ==
  ASSUME NEW route, NEW guard
  PROVE  /\ \A a : StmtKeeps(a, route, guard) => PlanKeeps(<<a>>, route, guard)
         /\ \A a, b : StmtKeeps(a, route, guard) /\ StmtKeeps(b, route, guard) => PlanKeeps(<<a, b>>, route, guard)
         /\ \A a, b, c : StmtKeeps(a, route, guard) /\ StmtKeeps(b, route, guard) /\ StmtKeeps(c, route, guard)
                           => PlanKeeps(<<a, b, c>>, route, guard)
         /\ \A a, b, c, d : /\ StmtKeeps(a, route, guard) /\ StmtKeeps(b, route, guard)
                            /\ StmtKeeps(c, route, guard) /\ StmtKeeps(d, route, guard)
                            => PlanKeeps(<<a, b, c, d>>, route, guard)
         /\ \A a, b, c, d, e : /\ StmtKeeps(a, route, guard) /\ StmtKeeps(b, route, guard)
                               /\ StmtKeeps(c, route, guard) /\ StmtKeeps(d, route, guard) /\ StmtKeeps(e, route, guard)
                               => PlanKeeps(<<a, b, c, d, e>>, route, guard)
BY DEF PlanKeeps

\* The policies of the tables handlers write, and the roles in each other.
LEMMA Policies ==
  /\ Owners \subseteq Admins /\ Admins \subseteq Writers /\ Writers \subseteq Members /\ Members \subseteq Anyone
  /\ \A t \in {"memberships", "environments", "providers", "routes", "api_keys", "webhooks", "alert_rules",
               "ab_tests"} :
       Policy[t].insert = Admins /\ Policy[t].update = Admins /\ Policy[t].delete = Admins
  /\ Policy["organizations"].insert = Anyone /\ Policy["organizations"].update = Admins
  /\ Policy["organizations"].delete = Owners
  /\ Policy["projects"].insert = Writers /\ Policy["incidents"].update = Admins
  /\ Policy["evaluations"].insert = Members
  /\ Policy["requests"].insert = {} /\ Policy["webhook_deliveries"].insert = {}
<1>1. AdminManaged.insert = Admins /\ AdminManaged.update = Admins /\ AdminManaged.delete = Admins
  BY DEF AdminManaged
<1>2. Owners \subseteq Admins /\ Admins \subseteq Writers /\ Writers \subseteq Members /\ Members \subseteq Anyone
  BY DEF Owners, Admins, Writers, Members, Anyone
<1>3. /\ Policy["memberships"] = AdminManaged /\ Policy["environments"] = AdminManaged
      /\ Policy["providers"] = AdminManaged /\ Policy["routes"] = AdminManaged /\ Policy["api_keys"] = AdminManaged
      /\ Policy["webhooks"] = AdminManaged /\ Policy["alert_rules"] = AdminManaged /\ Policy["ab_tests"] = AdminManaged
  BY DEF Policy, managed_policy, webhooks_policy, ab_tests_policy
<1>4. /\ Policy["organizations"].insert = Anyone /\ Policy["organizations"].update = Admins
      /\ Policy["organizations"].delete = Owners /\ Policy["projects"].insert = Writers
  BY DEF Policy, organizations_policy, projects_policy, AdminManaged
<1>5. /\ Policy["incidents"].update = Admins /\ Policy["evaluations"].insert = Members
      /\ Policy["requests"].insert = {} /\ Policy["webhook_deliveries"].insert = {}
  BY DEF Policy, incidents_policy, evaluations_policy, requests_policy, deliveries_policy, ReadOnly
<1> HIDE DEF AdminManaged
<1>6. \A t \in {"memberships", "environments", "providers", "routes", "api_keys", "webhooks", "alert_rules",
                "ab_tests"} : Policy[t] = AdminManaged
  BY <1>3
<1> QED BY <1>1, <1>2, <1>4, <1>5, <1>6

LEMMA HandlersGuarded == \A route \in DOMAIN API : HandlersKeep(API[route], route)
<1> USE DEF HandlersKeep, Handler
<1>1. HandlersKeep(OrganizationsRoute, "organizations")
  <2>1. PlanKeeps(OrganizationsRoute.GET.plan, "organizations", OrganizationsRoute.GET.guard)
    BY PlansKeep, ReadsKeep DEF OrganizationsRoute
  <2>2. PlanKeeps(OrganizationsRoute.POST.plan, "organizations", OrganizationsRoute.POST.guard)
    BY PlansKeep, ReadsKeep, WritesKeep, Policies, TableNames DEF OrganizationsRoute
  <2> QED BY <2>1, <2>2 DEF OrganizationsRoute
<1>2. HandlersKeep(OrganizationRoute, "organization")
  <2>1. PlanKeeps(OrganizationRoute.GET.plan, "organization", OrganizationRoute.GET.guard)
    BY PlansKeep, ReadsKeep DEF OrganizationRoute
  <2>2. PlanKeeps(OrganizationRoute.PATCH.plan, "organization", OrganizationRoute.PATCH.guard)
    BY PlansKeep, ReadsKeep, WritesKeep, Policies, TableNames DEF OrganizationRoute
  <2>3. PlanKeeps(OrganizationRoute.DELETE.plan, "organization", OrganizationRoute.DELETE.guard)
    BY PlansKeep, ReadsKeep, WritesKeep, Policies, TableNames DEF OrganizationRoute
  <2> QED BY <2>1, <2>2, <2>3 DEF OrganizationRoute
<1>3. HandlersKeep(ProjectsRoute, "projects")
  <2>1. PlanKeeps(ProjectsRoute.GET.plan, "projects", ProjectsRoute.GET.guard)
    BY PlansKeep, ReadsKeep DEF ProjectsRoute
  <2>2. PlanKeeps(ProjectsRoute.POST.plan, "projects", ProjectsRoute.POST.guard)
    BY PlansKeep, ReadsKeep, WritesKeep, Policies, TableNames DEF ProjectsRoute
  <2> QED BY <2>1, <2>2 DEF ProjectsRoute
<1>4. HandlersKeep(MembersRoute, "members")
  <2>1. PlanKeeps(MembersRoute.GET.plan, "members", MembersRoute.GET.guard)
    BY PlansKeep, ReadsKeep DEF MembersRoute
  <2>2. PlanKeeps(MembersRoute.POST.plan, "members", MembersRoute.POST.guard)
    BY PlansKeep, ReadsKeep, WritesKeep, Policies, TableNames DEF MembersRoute
  <2> QED BY <2>1, <2>2 DEF MembersRoute
<1>5. HandlersKeep(EnvironmentsRoute, "environments")
  <2>1. PlanKeeps(EnvironmentsRoute.GET.plan, "environments", EnvironmentsRoute.GET.guard)
    BY PlansKeep, ReadsKeep DEF EnvironmentsRoute
  <2>2. PlanKeeps(EnvironmentsRoute.POST.plan, "environments", EnvironmentsRoute.POST.guard)
    BY PlansKeep, ReadsKeep, WritesKeep, Policies, TableNames DEF EnvironmentsRoute
  <2> QED BY <2>1, <2>2 DEF EnvironmentsRoute
<1>6. HandlersKeep(ProvidersRoute, "providers")
  <2>1. PlanKeeps(ProvidersRoute.GET.plan, "providers", ProvidersRoute.GET.guard)
    BY PlansKeep, ReadsKeep DEF ProvidersRoute
  <2>2. PlanKeeps(ProvidersRoute.POST.plan, "providers", ProvidersRoute.POST.guard)
    BY PlansKeep, ReadsKeep, WritesKeep, Policies, TableNames DEF ProvidersRoute
  <2> QED BY <2>1, <2>2 DEF ProvidersRoute
<1>7. HandlersKeep(ProviderRoute, "provider")
  <2>1. PlanKeeps(ProviderRoute.GET.plan, "provider", ProviderRoute.GET.guard)
    BY PlansKeep, ReadsKeep DEF ProviderRoute
  <2>2. PlanKeeps(ProviderRoute.PATCH.plan, "provider", ProviderRoute.PATCH.guard)
    BY PlansKeep, ReadsKeep, WritesKeep, Policies, TableNames DEF ProviderRoute
  <2>3. PlanKeeps(ProviderRoute.DELETE.plan, "provider", ProviderRoute.DELETE.guard)
    BY PlansKeep, ReadsKeep, WritesKeep, Policies, TableNames DEF ProviderRoute
  <2> QED BY <2>1, <2>2, <2>3 DEF ProviderRoute
<1>8. HandlersKeep(ModelsRoute, "models")
  <2>1. PlanKeeps(ModelsRoute.GET.plan, "models", ModelsRoute.GET.guard)
    BY PlansKeep, ReadsKeep DEF ModelsRoute
  <2> QED BY <2>1 DEF ModelsRoute
<1>9. HandlersKeep(DashboardRoute, "dashboard")
  <2>1. PlanKeeps(DashboardRoute.GET.plan, "dashboard", DashboardRoute.GET.guard)
    BY PlansKeep, ReadsKeep DEF DashboardRoute
  <2> QED BY <2>1 DEF DashboardRoute
<1>10. HandlersKeep(AnalyticsRoute, "analytics")
  <2>1. PlanKeeps(AnalyticsRoute.GET.plan, "analytics", AnalyticsRoute.GET.guard)
    BY PlansKeep, ReadsKeep DEF AnalyticsRoute
  <2> QED BY <2>1 DEF AnalyticsRoute
<1>11. HandlersKeep(SummaryRoute, "summary")
  <2>1. PlanKeeps(SummaryRoute.GET.plan, "summary", SummaryRoute.GET.guard)
    BY PlansKeep, ReadsKeep DEF SummaryRoute
  <2> QED BY <2>1 DEF SummaryRoute
<1>12. HandlersKeep(AuditLogRoute, "audit_log")
  <2>1. PlanKeeps(AuditLogRoute.GET.plan, "audit_log", AuditLogRoute.GET.guard)
    BY PlansKeep, ReadsKeep DEF AuditLogRoute
  <2> QED BY <2>1 DEF AuditLogRoute
<1>13. HandlersKeep(RequestsRoute, "requests")
  <2>1. PlanKeeps(RequestsRoute.GET.plan, "requests", RequestsRoute.GET.guard)
    BY PlansKeep, ReadsKeep DEF RequestsRoute
  <2> QED BY <2>1 DEF RequestsRoute
<1>14. HandlersKeep(CacheRoute, "cache")
  <2>1. PlanKeeps(CacheRoute.GET.plan, "cache", CacheRoute.GET.guard)
    BY PlansKeep, ReadsKeep DEF CacheRoute
  <2> QED BY <2>1 DEF CacheRoute
<1>15. HandlersKeep(WebhooksRoute, "webhooks")
  <2>1. PlanKeeps(WebhooksRoute.GET.plan, "webhooks", WebhooksRoute.GET.guard)
    BY PlansKeep, ReadsKeep DEF WebhooksRoute
  <2>2. PlanKeeps(WebhooksRoute.POST.plan, "webhooks", WebhooksRoute.POST.guard)
    BY PlansKeep, ReadsKeep, WritesKeep, Policies, TableNames DEF WebhooksRoute
  <2> QED BY <2>1, <2>2 DEF WebhooksRoute
<1>16. HandlersKeep(WebhookRoute, "webhook")
  <2>1. PlanKeeps(WebhookRoute.GET.plan, "webhook", WebhookRoute.GET.guard)
    BY PlansKeep, ReadsKeep DEF WebhookRoute
  <2>2. PlanKeeps(WebhookRoute.PATCH.plan, "webhook", WebhookRoute.PATCH.guard)
    BY PlansKeep, ReadsKeep, WritesKeep, Policies, TableNames DEF WebhookRoute
  <2>3. PlanKeeps(WebhookRoute.DELETE.plan, "webhook", WebhookRoute.DELETE.guard)
    BY PlansKeep, ReadsKeep, WritesKeep, Policies, TableNames DEF WebhookRoute
  <2> QED BY <2>1, <2>2, <2>3 DEF WebhookRoute
<1>17. HandlersKeep(DeliveriesRoute, "deliveries")
  <2>1. PlanKeeps(DeliveriesRoute.GET.plan, "deliveries", DeliveriesRoute.GET.guard)
    BY PlansKeep, ReadsKeep DEF DeliveriesRoute
  <2> QED BY <2>1 DEF DeliveriesRoute
<1>18. HandlersKeep(WebhookTestRoute, "test")
  <2>1. PlanKeeps(WebhookTestRoute.POST.plan, "test", WebhookTestRoute.POST.guard)
    BY PlansKeep, ReadsKeep, WritesKeep, Policies, TableNames DEF WebhookTestRoute
  <2> QED BY <2>1 DEF WebhookTestRoute
<1>19. HandlersKeep(AlertsRoute, "alerts")
  <2>1. PlanKeeps(AlertsRoute.GET.plan, "alerts", AlertsRoute.GET.guard)
    BY PlansKeep, ReadsKeep DEF AlertsRoute
  <2>2. PlanKeeps(AlertsRoute.POST.plan, "alerts", AlertsRoute.POST.guard)
    BY PlansKeep, ReadsKeep, WritesKeep, Policies, TableNames DEF AlertsRoute
  <2> QED BY <2>1, <2>2 DEF AlertsRoute
<1>20. HandlersKeep(AlertRoute, "alert")
  <2>1. PlanKeeps(AlertRoute.GET.plan, "alert", AlertRoute.GET.guard)
    BY PlansKeep, ReadsKeep DEF AlertRoute
  <2>2. PlanKeeps(AlertRoute.PATCH.plan, "alert", AlertRoute.PATCH.guard)
    BY PlansKeep, ReadsKeep, WritesKeep, Policies, TableNames DEF AlertRoute
  <2>3. PlanKeeps(AlertRoute.DELETE.plan, "alert", AlertRoute.DELETE.guard)
    BY PlansKeep, ReadsKeep, WritesKeep, Policies, TableNames DEF AlertRoute
  <2> QED BY <2>1, <2>2, <2>3 DEF AlertRoute
<1>21. HandlersKeep(EvaluationsRoute, "evaluations")
  <2>1. PlanKeeps(EvaluationsRoute.GET.plan, "evaluations", EvaluationsRoute.GET.guard)
    BY PlansKeep, ReadsKeep DEF EvaluationsRoute
  <2>2. PlanKeeps(EvaluationsRoute.POST.plan, "evaluations", EvaluationsRoute.POST.guard)
    BY PlansKeep, ReadsKeep, WritesKeep, Policies, TableNames DEF EvaluationsRoute
  <2> QED BY <2>1, <2>2 DEF EvaluationsRoute
<1>22. HandlersKeep(RoutesRoute, "routes")
  <2>1. PlanKeeps(RoutesRoute.GET.plan, "routes", RoutesRoute.GET.guard)
    BY PlansKeep, ReadsKeep DEF RoutesRoute
  <2>2. PlanKeeps(RoutesRoute.POST.plan, "routes", RoutesRoute.POST.guard)
    BY PlansKeep, ReadsKeep, WritesKeep, Policies, TableNames DEF RoutesRoute
  <2> QED BY <2>1, <2>2 DEF RoutesRoute
<1>23. HandlersKeep(ApiKeysRoute, "api_keys")
  <2>1. PlanKeeps(ApiKeysRoute.GET.plan, "api_keys", ApiKeysRoute.GET.guard)
    BY PlansKeep, ReadsKeep DEF ApiKeysRoute
  <2>2. PlanKeeps(ApiKeysRoute.POST.plan, "api_keys", ApiKeysRoute.POST.guard)
    BY PlansKeep, ReadsKeep, WritesKeep, Policies, TableNames DEF ApiKeysRoute
  <2> QED BY <2>1, <2>2 DEF ApiKeysRoute
<1>24. HandlersKeep(RateLimitsRoute, "rate_limits")
  <2>1. PlanKeeps(RateLimitsRoute.GET.plan, "rate_limits", RateLimitsRoute.GET.guard)
    BY PlansKeep, ReadsKeep DEF RateLimitsRoute
  <2>2. PlanKeeps(RateLimitsRoute.PATCH.plan, "rate_limits", RateLimitsRoute.PATCH.guard)
    BY PlansKeep, ReadsKeep, WritesKeep, Policies, TableNames DEF RateLimitsRoute
  <2> QED BY <2>1, <2>2 DEF RateLimitsRoute
<1>25. HandlersKeep(IncidentsRoute, "incidents")
  <2>1. PlanKeeps(IncidentsRoute.GET.plan, "incidents", IncidentsRoute.GET.guard)
    BY PlansKeep, ReadsKeep DEF IncidentsRoute
  <2> QED BY <2>1 DEF IncidentsRoute
<1>26. HandlersKeep(IncidentRoute, "incident")
  <2>1. PlanKeeps(IncidentRoute.GET.plan, "incident", IncidentRoute.GET.guard)
    BY PlansKeep, ReadsKeep DEF IncidentRoute
  <2>2. PlanKeeps(IncidentRoute.PATCH.plan, "incident", IncidentRoute.PATCH.guard)
    BY PlansKeep, ReadsKeep, WritesKeep, Policies, TableNames DEF IncidentRoute
  <2> QED BY <2>1, <2>2 DEF IncidentRoute
<1>27. HandlersKeep(AbTestsRoute, "ab_tests")
  <2>1. PlanKeeps(AbTestsRoute.GET.plan, "ab_tests", AbTestsRoute.GET.guard)
    BY PlansKeep, ReadsKeep DEF AbTestsRoute
  <2>2. PlanKeeps(AbTestsRoute.POST.plan, "ab_tests", AbTestsRoute.POST.guard)
    BY PlansKeep, ReadsKeep, WritesKeep, Policies, TableNames DEF AbTestsRoute
  <2> QED BY <2>1, <2>2 DEF AbTestsRoute
<1>28. HandlersKeep(AbTestRoute, "ab_test")
  <2>1. PlanKeeps(AbTestRoute.GET.plan, "ab_test", AbTestRoute.GET.guard)
    BY PlansKeep, ReadsKeep DEF AbTestRoute
  <2>2. PlanKeeps(AbTestRoute.PATCH.plan, "ab_test", AbTestRoute.PATCH.guard)
    BY PlansKeep, ReadsKeep, WritesKeep, Policies, TableNames DEF AbTestRoute
  <2>3. PlanKeeps(AbTestRoute.DELETE.plan, "ab_test", AbTestRoute.DELETE.guard)
    BY PlansKeep, ReadsKeep, WritesKeep, Policies, TableNames DEF AbTestRoute
  <2> QED BY <2>1, <2>2, <2>3 DEF AbTestRoute
<1>29. HandlersKeep(AbResultsRoute, "results")
  <2>1. PlanKeeps(AbResultsRoute.GET.plan, "results", AbResultsRoute.GET.guard)
    BY PlansKeep, ReadsKeep DEF AbResultsRoute
  <2> QED BY <2>1 DEF AbResultsRoute
<1>30. HandlersKeep(CloneRoute, "clone")
  <2>1. PlanKeeps(CloneRoute.POST.plan, "clone", CloneRoute.POST.guard)
    BY PlansKeep, ReadsKeep, WritesKeep, Policies, TableNames DEF CloneRoute
  <2> QED BY <2>1 DEF CloneRoute
<1>31. HandlersKeep(ReplayRoute, "replay")
  <2>1. PlanKeeps(ReplayRoute.POST.plan, "replay", ReplayRoute.POST.guard)
    BY PlansKeep, ReadsKeep, WritesKeep, Policies, TableNames DEF ReplayRoute, Original, ReplayModel, SendReplay, RecordReplay
  <2> QED BY <2>1 DEF ReplayRoute
<1>32. HandlersKeep(PlaygroundRoute, "playground")
  <2>1. PlanKeeps(PlaygroundRoute.POST.plan, "playground", PlaygroundRoute.POST.guard)
    BY PlansKeep, ReadsKeep DEF PlaygroundRoute, RouteAsked, AnyProvider, Upstream
  <2> QED BY <2>1 DEF PlaygroundRoute
<1>33. HandlersKeep(TemplatesRoute, "templates")
  <2>1. PlanKeeps(TemplatesRoute.GET.plan, "templates", TemplatesRoute.GET.guard)
    BY PlansKeep, ReadsKeep DEF TemplatesRoute
  <2> QED BY <2>1 DEF TemplatesRoute
<1>34. HandlersKeep(TemplateRoute, "template")
  <2>1. PlanKeeps(TemplateRoute.GET.plan, "template", TemplateRoute.GET.guard)
    BY PlansKeep, ReadsKeep DEF TemplateRoute
  <2> QED BY <2>1 DEF TemplateRoute
<1>35. HandlersKeep(RenderRoute, "render")
  <2>1. PlanKeeps(RenderRoute.POST.plan, "render", RenderRoute.POST.guard)
    BY PlansKeep, ReadsKeep DEF RenderRoute
  <2> QED BY <2>1 DEF RenderRoute
<1>36. HandlersKeep(VersionsRoute, "versions")
  <2>1. PlanKeeps(VersionsRoute.GET.plan, "versions", VersionsRoute.GET.guard)
    BY PlansKeep, ReadsKeep DEF VersionsRoute
  <2> QED BY <2>1 DEF VersionsRoute
<1>37. HandlersKeep(BillingRoute, "billing")
  <2>1. PlanKeeps(BillingRoute.GET.plan, "billing", BillingRoute.GET.guard)
    BY PlansKeep, ReadsKeep DEF BillingRoute
  <2> QED BY <2>1 DEF BillingRoute
<1>38. HandlersKeep(PortalRoute, "portal")
  <2>1. PlanKeeps(PortalRoute.POST.plan, "portal", PortalRoute.POST.guard)
    BY PlansKeep, ReadsKeep DEF PortalRoute
  <2> QED BY <2>1 DEF PortalRoute
<1> QED BY <1>1, <1>2, <1>3, <1>4, <1>5, <1>6, <1>7, <1>8, <1>9, <1>10, <1>11, <1>12, <1>13, <1>14, <1>15, <1>16, <1>17, <1>18, <1>19, <1>20, <1>21, <1>22, <1>23, <1>24, <1>25, <1>26, <1>27, <1>28, <1>29, <1>30, <1>31, <1>32, <1>33, <1>34, <1>35, <1>36, <1>37, <1>38 DEF API

-----------------------------------------------------------------------------
(* What a step makes of the calls.                                         *)

Acts(c) ==
  \/ Skip(c) \/ Select(c) \/ InsertRow(c) \/ CopyRows(c) \/ UpdateRows(c) \/ DeleteRows(c)
  \/ Asking(c) \/ Needing(c) \/ Fail(c) \/ Finish(c)

Begins(c) == \E q \in Scenes[scene].requests[c] : Guard(c, q)

LEMMA CallFields ==
  ASSUME NEW k, CallOK(k)
  PROVE  /\ \A a : LET m == [k EXCEPT !.answer = a] IN
              /\ m.q = k.q /\ m.seen = k.seen /\ m.pc = k.pc /\ m.got = k.got /\ m.made = k.made /\ m.answer = a
         /\ LET m == [k EXCEPT !.pc = @ + 1] IN
              /\ m.q = k.q /\ m.seen = k.seen /\ m.pc = k.pc + 1 /\ m.got = k.got /\ m.made = k.made
              /\ m.answer = k.answer
         /\ \A got : LET m == [k EXCEPT !.pc = @ + 1, !.got = got] IN
              /\ m.q = k.q /\ m.seen = k.seen /\ m.pc = k.pc + 1 /\ m.got = got /\ m.made = k.made
              /\ m.answer = k.answer
         /\ \A made : LET m == [k EXCEPT !.pc = @ + 1, !.made = made] IN
              /\ m.q = k.q /\ m.seen = k.seen /\ m.pc = k.pc + 1 /\ m.got = k.got /\ m.made = made
              /\ m.answer = k.answer
<1> DEFINE q == k.q  at == k.pc  got0 == k.got  made0 == k.made  seen == k.seen  answer == k.answer
<1>1. k = [q |-> q, pc |-> at, got |-> got0, made |-> made0, seen |-> seen, answer |-> answer]
  BY DEF CallOK
<1> HIDE DEF q, at, got0, made0, seen, answer
<1>2. ASSUME NEW a
      PROVE  LET m == [k EXCEPT !.answer = a] IN
              /\ m.q = k.q /\ m.seen = k.seen /\ m.pc = k.pc /\ m.got = k.got /\ m.made = k.made /\ m.answer = a
  BY <1>1
<1>3. LET m == [k EXCEPT !.pc = @ + 1] IN
        /\ m.q = k.q /\ m.seen = k.seen /\ m.pc = k.pc + 1 /\ m.got = k.got /\ m.made = k.made /\ m.answer = k.answer
  BY <1>1
<1>4. ASSUME NEW got
      PROVE  LET m == [k EXCEPT !.pc = @ + 1, !.got = got] IN
              /\ m.q = k.q /\ m.seen = k.seen /\ m.pc = k.pc + 1 /\ m.got = got /\ m.made = k.made
              /\ m.answer = k.answer
  BY <1>1
<1>5. ASSUME NEW made
      PROVE  LET m == [k EXCEPT !.pc = @ + 1, !.made = made] IN
              /\ m.q = k.q /\ m.seen = k.seen /\ m.pc = k.pc + 1 /\ m.got = k.got /\ m.made = made
              /\ m.answer = k.answer
  BY <1>1
<1> QED BY <1>2, <1>3, <1>4, <1>5

\* Answered, or gone on: with what was read, what was made, or neither.
Answers(c) ==
  /\ call'[c].pc = call[c].pc /\ call'[c].got = call[c].got /\ call'[c].made = call[c].made
  /\ UNCHANGED <<db, nextId>>

Advances(c) ==
  /\ call'[c].pc = call[c].pc + 1 /\ call'[c].answer = call[c].answer
  /\ \/ call'[c].got = call[c].got
     \/ Select(c) /\ call'[c].got = Found(Step(c), call[c].q, "select")
  /\ \/ call'[c].made = call[c].made
     \/ InsertRow(c) /\ call'[c].made = call[c].made \cup {nextId}
     \/ CopyRows(c) /\ call'[c].made \subseteq call[c].made \cup (nextId .. nextId' - 1)

OthersWait(c) == \A d \in Calls : d # c => call'[d] = call[d]

LEMMA Simple ==
  ASSUME CallsOK(call), NEW c \in Calls, call[c].pc > 0
  PROVE  /\ \A a : Answer(c, a) => OthersWait(c) /\ call'[c] = [call[c] EXCEPT !.answer = a]
         /\ Proceed(c) => OthersWait(c) /\ call'[c] = [call[c] EXCEPT !.pc = @ + 1]
         /\ \A k : call' = [call EXCEPT ![c] = k] => OthersWait(c) /\ call'[c] = k
<1>1. call = [d \in Calls |-> call[d]]
  BY DEF CallsOK
<1>2. ASSUME NEW k, call' = [call EXCEPT ![c] = k] PROVE OthersWait(c) /\ call'[c] = k
  BY <1>1, <1>2 DEF OthersWait
<1>3. ASSUME NEW a, Answer(c, a) PROVE call' = [call EXCEPT ![c] = [call[c] EXCEPT !.answer = a]]
  BY <1>3 DEF Answer
<1>4. ASSUME Proceed(c) PROVE call' = [call EXCEPT ![c] = [call[c] EXCEPT !.pc = @ + 1]]
  BY <1>4 DEF Proceed
<1> QED BY <1>2, <1>3, <1>4

\* k copies the route r into the environment e of organization o.
CopyOf(k, r, e, o, v) ==
  /\ k.id \in Nat /\ k.id >= nextId /\ k.table = "routes" /\ k.org = o /\ k.home = e
  /\ k.refs = ({e} \cup {i \in r.refs : i # r.home}) \ {0}
  /\ k.name = r.name /\ (v = "configs" => k.val = r.val)

CopiesRows(c, copies, e, o) ==
  /\ e = CHOOSE i \in call[c].made : TRUE
  /\ \A p \in db : p.id = e => p.org = o
  /\ Placed("routes", e) /\ May(call[c].q.user, "insert", "routes", o)
  /\ \A k \in copies : k.refs \subseteq Ids /\ \E r \in call[c].got : CopyOf(k, r, e, o, call[c].q.val)
  /\ \A r \in call[c].got : \E k \in copies : CopyOf(k, r, e, o, call[c].q.val)
  /\ db' = db \cup copies /\ nextId <= nextId'
  /\ call' = [call EXCEPT ![c] = [call[c] EXCEPT !.pc = @ + 1, !.made = @ \cup {k.id : k \in copies}]]

LEMMA CopyMeans ==
  ASSUME CPInv, NEW c \in Calls, CopyRows(c)
  PROVE  \/ Answer(c, "error") /\ UNCHANGED <<db, nextId>>
         \/ Proceed(c) /\ UNCHANGED <<db, nextId>> /\ call[c].got = {}
         \/ \E copies, e, o : CopiesRows(c, copies, e, o)
<1> DEFINE q == call[c].q
           got == call[c].got
           e == CHOOSE i \in call[c].made : TRUE
           org == (CHOOSE r \in db : r.id = e).org
           place == CHOOSE f \in [got -> 0 .. Cardinality(got) - 1] : \A r, s \in got : r # s => f[r] # f[s]
           copy(r) == NewRow(nextId + place[r], "routes", org, e, {e} \cup {i \in r.refs : i # r.home}, r.name,
                             IF q.val = "configs" THEN r.val ELSE "unlimited")
           copies == {copy(r) : r \in got}
           fits == /\ Placed("routes", e)
                   /\ \A r \in copies : r.refs \subseteq Ids /\ ~Taken("routes", e, r.name)
                   /\ \A r, s \in copies : r.name = s.name => r = s
                   /\ May(q.user, "insert", "routes", org)
           stored == /\ db' = db \cup copies
                     /\ nextId' = nextId + Cardinality(copies)
                     /\ call' = [call EXCEPT ![c].pc = @ + 1, ![c].made = @ \cup {r.id : r \in copies}]
<1>1. CallOK(call[c])
  BY DEF CPInv, CallsOK
<1>2. \/ copies = {} /\ Proceed(c) /\ UNCHANGED <<db, nextId>>
      \/ Answer(c, "error") /\ UNCHANGED <<db, nextId>>
      \/ fits /\ stored
  BY DEF CopyRows
<1>3. CASE copies = {} /\ Proceed(c) /\ UNCHANGED <<db, nextId>>
  <2>1. got = {}
    BY <1>3
  <2> QED BY <1>3, <2>1
<1>4. CASE fits /\ stored
  <2>1. place \in [got -> 0 .. Cardinality(got) - 1]
    <3>1. IsFiniteSet(got)
      BY <1>1 DEF CallOK
    <3>2. \E f \in [got -> 0 .. Cardinality(got) - 1] : \A r, s \in got : r # s => f[r] # f[s]
      BY <3>1, Places
    <3> QED BY <3>2
  <2>2. \A p \in db : p.id = e => p.org = org
    <3> SUFFICES ASSUME NEW p \in db, p.id = e PROVE p.org = org
      OBVIOUS
    <3> HIDE DEF e
    <3>1. (CHOOSE r \in db : r.id = e) = p
      BY TheRow DEF CPInv
    <3> QED BY <3>1
  <2>3. nextId \in Nat /\ \A r \in got : place[r] \in Nat
    <3>1. IsFiniteSet(got)
      BY <1>1 DEF CallOK
    <3>2. Cardinality(got) \in Nat
      BY <3>1, FS_CardinalityType
    <3>3. nextId \in Nat
      BY DEF CPInv
    <3> HIDE DEF place, got
    <3>4. \A r \in got : place[r] \in Nat
      BY <2>1, <3>2
    <3> QED BY <3>3, <3>4
  <2>e. e = CHOOSE i \in call[c].made : TRUE
    OBVIOUS
  <2> HIDE DEF e, org, place
  <2>4. ASSUME NEW r \in got PROVE CopyOf(copy(r), r, e, org, q.val)
    <3> DEFINE k == copy(r)
    <3>1. /\ k.id = nextId + place[r] /\ k.table = "routes" /\ k.org = org /\ k.home = e
          /\ k.refs = ({e} \cup {i \in r.refs : i # r.home}) \ {0} /\ k.name = r.name
          /\ k.val = IF q.val = "configs" THEN r.val ELSE "unlimited"
      BY NewFields
    <3> HIDE DEF k
    <3>2. CopyOf(k, r, e, org, q.val)
      BY <2>3, <3>1 DEF CopyOf
    <3> QED BY <3>2 DEF k
  <2>5. call' = [call EXCEPT ![c] = [call[c] EXCEPT !.pc = @ + 1, !.made = @ \cup {r.id : r \in copies}]]
    BY <1>4
  <2> HIDE DEF copy
  <2>6. CopiesRows(c, copies, e, org)
    <3>1. \A k \in copies : k.refs \subseteq Ids /\ \E r \in got : CopyOf(k, r, e, org, q.val)
      BY <1>4, <2>4
    <3>2. \A r \in got : \E k \in copies : CopyOf(k, r, e, org, q.val)
      BY <2>4
    <3>3. nextId <= nextId'
      <4>1. RowsOK /\ nextId \in Nat
        BY CopySound DEF CPInv
      <4>2. IsFiniteSet(copies)
        BY <1>4, <4>1, SoundParts, FS_Subset DEF RowsOK
      <4>3. Cardinality(copies) \in Nat
        BY <4>2, FS_CardinalityType
      <4> QED BY <1>4, <4>1, <4>3
    <3> QED BY <1>4, <2>2, <2>5, <2>e, <3>1, <3>2, <3>3 DEF CopiesRows
  <2> QED BY <2>6
<1> QED BY <1>2, <1>3, <1>4

LEMMA Acting ==
  ASSUME CPInv, NEW c \in Calls, Acts(c)
  PROVE  /\ OthersWait(c) /\ call[c].pc \in Nat /\ call[c].pc > 0
         /\ call'[c].q = call[c].q /\ call'[c].seen = call[c].seen
         /\ Answers(c) \/ Advances(c)
<1> DEFINE Fine == /\ OthersWait(c) /\ call'[c].q = call[c].q /\ call'[c].seen = call[c].seen
                   /\ Answers(c) \/ Advances(c)
<1>1. CallsOK(call) /\ CallOK(call[c]) /\ call[c].pc \in Nat
  BY DEF CPInv, CallsOK, CallOK
<1>2. call[c].pc > 0
  BY DEF Acts, Skip, Select, InsertRow, CopyRows, UpdateRows, DeleteRows, Asking, Needing, Fail, Finish, AtStep, Running
<1>3. ASSUME NEW a, Answer(c, a), UNCHANGED <<db, nextId>> PROVE Fine
  <2>1. OthersWait(c) /\ call'[c] = [call[c] EXCEPT !.answer = a]
    BY <1>1, <1>2, <1>3, Simple
  <2> QED BY <1>1, <1>3, <2>1, CallFields DEF Answers
<1>4. ASSUME Proceed(c) PROVE Fine
  <2>1. OthersWait(c) /\ call'[c] = [call[c] EXCEPT !.pc = @ + 1]
    BY <1>1, <1>2, <1>4, Simple
  <2> QED BY <1>1, <2>1, CallFields DEF Advances
<1>5. CASE Skip(c) \/ Asking(c) \/ Needing(c) \/ Fail(c) \/ Finish(c)
  <2>1. UNCHANGED <<db, nextId>> /\ (Proceed(c) \/ \E a : Answer(c, a))
    BY <1>5 DEF Skip, Asking, Needing, Fail, Finish
  <2> HIDE DEF Fine
  <2> QED BY <1>1, <1>2, <1>3, <1>4, <2>1 DEF Fine
<1>6. CASE Select(c)
  <2> DEFINE got == Found(Step(c), call[c].q, "select")
  <2>1. /\ UNCHANGED <<db, nextId>>
        /\ (\E a : Answer(c, a)) \/ call' = [call EXCEPT ![c] = [call[c] EXCEPT !.pc = @ + 1, !.got = got]]
    BY <1>6 DEF Select
  <2>2. ASSUME call' = [call EXCEPT ![c] = [call[c] EXCEPT !.pc = @ + 1, !.got = got]] PROVE Fine
    <3> DEFINE k == [call[c] EXCEPT !.pc = @ + 1, !.got = got]
    <3>1. OthersWait(c) /\ call'[c] = k
      <4> HIDE DEF k
      <4>1. call' = [call EXCEPT ![c] = k]
        BY <2>2 DEF k
      <4> QED BY <1>1, <1>2, <4>1, Simple
    <3>2. /\ k.q = call[c].q /\ k.seen = call[c].seen /\ k.pc = call[c].pc + 1 /\ k.got = got /\ k.made = call[c].made
          /\ k.answer = call[c].answer
      BY <1>1, CallFields
    <3> HIDE DEF k
    <3>3. call'[c].got = Found(Step(c), call[c].q, "select")
      BY <3>1, <3>2
    <3> HIDE DEF got
    <3> QED BY <1>6, <3>1, <3>2, <3>3 DEF Advances
  <2> HIDE DEF Fine
  <2> QED BY <1>1, <1>2, <1>3, <2>1, <2>2 DEF Fine
<1>7. CASE InsertRow(c)
  <2>1. \/ UNCHANGED <<db, nextId>> /\ (Answer(c, "error") \/ Proceed(c))
        \/ call' = [call EXCEPT ![c] = [call[c] EXCEPT !.pc = @ + 1, !.made = @ \cup {nextId}]]
    BY <1>7 DEF InsertRow
  <2>2. ASSUME call' = [call EXCEPT ![c] = [call[c] EXCEPT !.pc = @ + 1, !.made = @ \cup {nextId}]] PROVE Fine
    <3> DEFINE made == call[c].made \cup {nextId}
               k == [call[c] EXCEPT !.pc = @ + 1, !.made = made]
    <3>1. OthersWait(c) /\ call'[c] = k
      <4>1. call' = [call EXCEPT ![c] = k]
        BY <2>2
      <4> HIDE DEF k
      <4> QED BY <1>1, <1>2, <4>1, Simple
    <3>2. /\ k.q = call[c].q /\ k.seen = call[c].seen /\ k.pc = call[c].pc + 1 /\ k.got = call[c].got
          /\ k.made = call[c].made \cup {nextId} /\ k.answer = call[c].answer
      <4> HIDE DEF made
      <4>1. k.made = made
        BY <1>1, CallFields
      <4> QED BY <1>1, <4>1, CallFields DEF made
    <3> HIDE DEF k
    <3> QED BY <1>7, <3>1, <3>2 DEF Advances
  <2> HIDE DEF Fine
  <2> QED BY <1>1, <1>2, <1>3, <1>4, <2>1, <2>2 DEF Fine
<1>8. CASE CopyRows(c)
  <2>1. RowsOK
    BY <1>8, CopySound
  <2>2. ASSUME NEW copies, NEW e, NEW o, CopiesRows(c, copies, e, o) PROVE Fine
    <3> DEFINE ids == {r.id : r \in copies}
               made == call[c].made \cup ids
               k == [call[c] EXCEPT !.pc = @ + 1, !.made = made]
    <3>1. OthersWait(c) /\ call'[c] = k
      <4>1. call' = [call EXCEPT ![c] = k]
        BY <2>2 DEF CopiesRows
      <4> HIDE DEF k
      <4> QED BY <1>1, <1>2, <4>1, Simple
    <3>2. /\ k.q = call[c].q /\ k.seen = call[c].seen /\ k.pc = call[c].pc + 1 /\ k.got = call[c].got
          /\ k.made = call[c].made \cup ids /\ k.answer = call[c].answer
      <4> HIDE DEF made, ids
      <4>1. k.made = made
        BY <1>1, CallFields
      <4> QED BY <1>1, <4>1, CallFields DEF made
    <3> HIDE DEF k
    <3>3. ASSUME NEW r \in copies PROVE r.id \in nextId .. nextId' - 1
      <4>1. r.id \in Nat /\ r.id >= nextId /\ r \in db'
        BY <2>2 DEF CopiesRows, CopyOf
      <4>2. r.id \in 1 .. nextId' - 1
        BY <2>1, <4>1, SoundParts DEF RowsOK, RowOK
      <4>3. nextId \in Nat /\ nextId' \in Nat
        BY <2>1 DEF CPInv, RowsOK
      <4> QED BY <4>1, <4>2, <4>3
    <3>4. ids \subseteq nextId .. nextId' - 1
      BY <3>3
    <3> HIDE DEF ids
    <3>5. call'[c].made \subseteq call[c].made \cup (nextId .. nextId' - 1)
      BY <3>1, <3>2, <3>4
    <3> QED BY <1>8, <3>1, <3>2, <3>5 DEF Advances
  <2> HIDE DEF Fine
  <2> QED BY <1>1, <1>2, <1>3, <1>4, <1>8, <2>2, CopyMeans DEF Fine
<1>9. CASE UpdateRows(c)
  <2>1. nextId' = nextId /\ ((UNCHANGED db /\ Answer(c, Step(c).none)) \/ Proceed(c))
    BY <1>9 DEF UpdateRows
  <2> HIDE DEF Fine
  <2> QED BY <1>1, <1>2, <1>3, <1>4, <2>1 DEF Fine
<1>10. CASE DeleteRows(c)
  <2>1. nextId' = nextId /\ ((UNCHANGED db /\ Answer(c, "error")) \/ Proceed(c))
    BY <1>10 DEF DeleteRows
  <2> HIDE DEF Fine
  <2> QED BY <1>1, <1>2, <1>3, <1>4, <2>1 DEF Fine
<1> QED BY <1>1, <1>2, <1>5, <1>6, <1>7, <1>8, <1>9, <1>10 DEF Acts

-----------------------------------------------------------------------------
(* What a step makes of the rows.  A row that is there is one that was     *)
(* there, in the same place and with no new references, or is new and fits *)
(* what it refers to.                                                      *)

Alike(r, s) == r.id = s.id /\ r.table = s.table /\ r.org = s.org /\ r.home = s.home /\ r.name = s.name

Fresh(r) == r.id >= nextId /\ \A p \in db' : p.id \in r.refs => Fits(r, p)

Evolves ==
  /\ nextId <= nextId'
  /\ \A r \in db' : Fresh(r) \/ \E s \in db : Alike(r, s) /\ r.refs \subseteq s.refs

\* The routes a clone has read refer to their environment and to models.
Rooted(k, rows, n) ==
  k.pc = 5 /\ k.q.route = "clone" /\ ~Bare(k.q) =>
    \A r \in k.got :
      /\ r.refs \subseteq 1 .. n - 1
      /\ \A p \in rows : p.id \in r.refs => p.id = r.home \/ p.table \in Schema["routes"].refers

ApartInv ==
  /\ \A r, p \in db : p.id \in r.refs => Fits(r, p)
  /\ \A c \in Calls : Rooted(call[c], db, nextId)

LEMMA IdsBelow ==
  ASSUME CPInv
  PROVE  /\ nextId \in Nat /\ nextId > 0
         /\ \A r \in db : /\ r.id \in Nat /\ r.id > 0 /\ r.id < nextId /\ r.refs \subseteq Ids /\ IsRow(r)
                          /\ r.table \in Tables
         /\ \A i \in Ids : i \in Nat /\ i > 0 /\ i < nextId
         /\ \A r, s \in db : r.id = s.id => r = s
<1>1. nextId \in Nat /\ nextId > 0 /\ SoundRows(db, nextId - 1)
  BY DEF CPInv
<1>2. ASSUME NEW r \in db PROVE /\ r.id \in Nat /\ r.id > 0 /\ r.id < nextId /\ r.refs \subseteq Ids /\ IsRow(r)
                                /\ r.table \in Tables
  <2>1. RowOK(r, db, nextId - 1)
    BY <1>1, SoundParts
  <2> QED BY <1>1, <2>1 DEF RowOK, Ids
<1>3. \A r, s \in db : r.id = s.id => r = s
  BY <1>1, SoundParts DEF Apart
<1> QED BY <1>1, <1>2, <1>3 DEF Ids

\* What the body of an insert refers to fits the row it makes.
LEMMA BodyFits ==
  ASSUME CPInv, NEW c \in Calls, Insertable(call[c].q, Step(c)),
         NEW p \in db, p.id \in call[c].q.refs \ {0, call[c].q.home}
  PROVE  p.table \in Schema[Step(c).table].refers
<1>1. TableOf(p.id) \in Schema[Step(c).table].refers
  BY DEF Insertable
<1>2. TableOf(p.id) = p.table
  BY IdsBelow DEF TableOf
<1> QED BY <1>1, <1>2

LEMMA AtStepKeeps ==
  ASSUME CPInv, NEW c \in Calls, NEW cmd, AtStep(c, cmd)
  PROVE  StmtKeeps(Step(c), call[c].q.route, API[call[c].q.route][call[c].q.method].guard)
<1>1. call[c].pc \in Nat /\ call[c].pc > 0 /\ ValidRequest(call[c].q)
  BY AtStepOK
<1>2. PlanKeeps(Plan(c), call[c].q.route, API[call[c].q.route][call[c].q.method].guard)
  BY <1>1, HandlersGuarded DEF ValidRequest, HandlersKeep, Plan
<1> QED BY <1>1, <1>2 DEF AtStep, PlanKeeps, Step

\* The statements of a clone.
LEMMA CloneSteps ==
  ASSUME CPInv, NEW c \in Calls, call[c].pc > 0, call[c].q.route = "clone"
  PROVE  /\ Len(Plan(c)) = 5
         /\ Plan(c)[1] = One("environments", {"id", "home"})
         /\ Plan(c)[2] = Unused("environments", {"home", "name"})
         /\ Plan(c)[3] = Add("environments") /\ Plan(c)[4] = List("routes", {"of"}) /\ Plan(c)[5] = Copy("routes")
<1>1. ValidRequest(call[c].q)
  BY DEF CPInv, CallsOK, CallOK
<1>2. API["clone"] = CloneRoute
  BY DEF API
<1>3. call[c].q.method = "POST"
  BY <1>1, <1>2 DEF ValidRequest, CloneRoute
<1>4. Plan(c) = <<One("environments", {"id", "home"}), Unused("environments", {"home", "name"}), Add("environments"),
                  List("routes", {"of"}), Copy("routes")>>
  BY <1>2, <1>3 DEF Plan, CloneRoute, Handler
<1> DEFINE a == One("environments", {"id", "home"})  b == Unused("environments", {"home", "name"})
           d == Add("environments")  l == List("routes", {"of"})  k == Copy("routes")
<1>5. Plan(c) = <<a, b, d, l, k>>
  BY <1>4
<1> HIDE DEF a, b, d, l, k
<1>6. Len(Plan(c)) = 5 /\ Plan(c)[1] = a /\ Plan(c)[2] = b /\ Plan(c)[3] = d /\ Plan(c)[4] = l /\ Plan(c)[5] = k
  BY <1>5
<1> QED BY <1>6 DEF a, b, d, l, k

LEMMA CloneCommands ==
  /\ One("environments", {"id", "home"}).cmd = "one" /\ One("environments", {"id", "home"}).fatal
  /\ Unused("environments", {"home", "name"}).cmd = "unused"
  /\ Add("environments").cmd = "insert" /\ Add("environments").table = "environments" /\ Add("environments").fatal
  /\ List("routes", {"of"}).cmd = "list" /\ List("routes", {"of"}).fatal
  /\ Copy("routes").cmd = "copy" /\ Copy("routes").fatal
BY DEF One, Unused, Ignoring, Add, Put, List, Copy, Read

LEMMA CopyIsFifth ==
  ASSUME CPInv, NEW c \in Calls, AtStep(c, "copy")
  PROVE  /\ call[c].pc = 5 /\ call[c].q.route = "clone"
         /\ Bare(call[c].q) => Skipped(c)
<1>1. call[c].pc \in Nat /\ call[c].pc > 0 /\ Step(c).cmd = "copy" /\ call[c].pc <= Len(Plan(c))
  BY AtStepOK DEF AtStep
<1>2. call[c].q.route = "clone"
  BY <1>1, AtStepKeeps DEF StmtKeeps
<1>3. Len(Plan(c)) = 5 /\ call[c].pc \in Nat
  BY <1>1, <1>2, CloneSteps
<1>4. call[c].pc \in 1 .. 5
  BY <1>1, <1>3
<1>5. Plan(c)[1].cmd = "one" /\ Plan(c)[2].cmd = "unused" /\ Plan(c)[3].cmd = "insert" /\ Plan(c)[4].cmd = "list"
  BY <1>1, <1>2, CloneSteps, CloneCommands
<1>6. Plan(c)[call[c].pc].cmd = "copy"
  BY <1>1 DEF Step
<1>7. call[c].pc # 1 /\ call[c].pc # 2 /\ call[c].pc # 3 /\ call[c].pc # 4
  BY <1>5, <1>6
<1>8. Bare(call[c].q) => Skipped(c)
  BY <1>1 DEF Skipped
<1> QED BY <1>2, <1>4, <1>7, <1>8

LEMMA StillEvolves ==
  ASSUME CPInv, UNCHANGED <<db, nextId>>
  PROVE  Evolves
<1>1. nextId <= nextId'
  BY IdsBelow
<1> QED BY <1>1 DEF Evolves, Alike

LEMMA InsertEvolves ==
  ASSUME CPInv, NEW c \in Calls, InsertRow(c)
  PROVE  Evolves
<1> DEFINE q == call[c].q  t == Step(c).table
           r == NewRow(nextId, t, OrgFor(q, t), q.home, q.refs \cup {q.home}, q.name, q.val)
           w == Owner(q)
<1>1. AtStep(c, "insert")
  BY DEF InsertRow
<1>2. CASE ~Insertable(q, Step(c))
  BY <1>2, StillEvolves DEF InsertRow
<1>3. CASE Insertable(q, Step(c))
  <2>1. Placed(t, q.home) /\ q.refs \subseteq Ids \cup {0}
    BY <1>3 DEF Insertable
  <2>2. /\ db' = db \cup {r} \cup IF t = "organizations" THEN {w} ELSE {}
        /\ nextId' = nextId + IF t = "organizations" THEN 2 ELSE 1
    BY <1>3 DEF InsertRow
  <2>3. /\ r.id = nextId /\ r.table = t /\ r.org = OrgFor(q, t) /\ r.home = q.home
        /\ r.refs = (q.refs \cup {q.home}) \ {0}
    BY NewFields
  <2>4. w.id = nextId + 1 /\ w.home = nextId /\ w.refs = {nextId} \ {0}
    BY NewFields DEF Owner
  <2>5. /\ nextId \in Nat /\ nextId > 0 /\ \A x \in db : x.id < nextId /\ x.id \in Nat
        /\ \A i \in Ids : i < nextId /\ i \in Nat
    BY IdsBelow
  <2>6. \A p \in db : p.id \in q.refs \ {0, q.home} => p.table \in Schema[t].refers
    BY <1>3, BodyFits
  <2> HIDE DEF q, t, r, w
  <2>7. Fresh(r)
    <3> SUFFICES ASSUME NEW p \in db', p.id \in r.refs PROVE Fits(r, p)
      BY <2>3, <2>5 DEF Fresh
    <3>1. CASE p.id = q.home
      BY <2>3, <3>1 DEF Fits
    <3>2. CASE p.id # q.home
      <4>1. p.id \in q.refs \ {0, q.home}
        BY <2>3, <3>2
      <4>2. p.id < nextId
        BY <2>1, <2>5, <4>1
      <4>3. p \in db
        BY <2>2, <2>3, <2>4, <2>5, <4>2
      <4> QED BY <2>3, <2>6, <4>1, <4>3 DEF Fits
    <3> QED BY <3>1, <3>2
  <2>8. Fresh(w)
    BY <2>4, <2>5 DEF Fresh, Fits
  <2>9. nextId <= nextId'
    BY <2>2, <2>5
  <2>10. \A x \in db' : x \in db \/ x = r \/ x = w
    BY <2>2
  <2> QED BY <2>7, <2>8, <2>9, <2>10 DEF Evolves, Alike
<1> QED BY <1>2, <1>3

LEMMA CopyEvolves ==
  ASSUME CPInv, ApartInv, NEW c \in Calls, CopyRows(c)
  PROVE  Evolves
<1>1. call[c].pc = 5 /\ call[c].q.route = "clone" /\ ~Bare(call[c].q)
  BY CopyIsFifth DEF CopyRows
<1>2. CASE UNCHANGED <<db, nextId>>
  BY <1>2, StillEvolves
<1>3. ASSUME NEW copies, NEW e, NEW o, CopiesRows(c, copies, e, o) PROVE Evolves
  <2>1. /\ db' = db \cup copies
        /\ \A k \in copies : k.refs \subseteq Ids /\ \E r \in call[c].got : CopyOf(k, r, e, o, call[c].q.val)
    BY <1>3 DEF CopiesRows
  <2>2. nextId \in Nat /\ \A i \in Ids : i < nextId /\ i \in Nat
    BY IdsBelow
  <2>3. ASSUME NEW k \in copies PROVE Fresh(k)
    <3>1. PICK r \in call[c].got : CopyOf(k, r, e, o, call[c].q.val)
      BY <2>1
    <3>2. /\ k.id \in Nat /\ k.id >= nextId /\ k.table = "routes" /\ k.home = e
          /\ k.refs = ({e} \cup {i \in r.refs : i # r.home}) \ {0}
      BY <3>1 DEF CopyOf
    <3> SUFFICES ASSUME NEW p \in db', p.id \in k.refs PROVE Fits(k, p)
      BY <3>2 DEF Fresh
    <3>3. p.id < nextId /\ p.id \in Nat
      BY <2>1, <2>2
    <3>4. p \in db
      BY <2>1, <2>2, <3>3 DEF CopyOf
    <3>5. CASE p.id = e
      BY <3>2, <3>5 DEF Fits
    <3>6. CASE p.id # e
      <4>1. p.id \in r.refs /\ p.id # r.home
        BY <3>2, <3>6
      <4>2. Rooted(call[c], db, nextId)
        BY DEF ApartInv
      <4>3. p.table \in Schema["routes"].refers
        BY <1>1, <3>4, <4>1, <4>2 DEF Rooted
      <4> QED BY <3>2, <4>3 DEF Fits
    <3> QED BY <3>5, <3>6
  <2>4. nextId <= nextId'
    BY <1>3 DEF CopiesRows
  <2> QED BY <2>1, <2>3, <2>4 DEF Evolves, Alike
<1> QED BY <1>2, <1>3, CopyMeans

LEMMA UpdateEvolves ==
  ASSUME CPInv, NEW c \in Calls, UpdateRows(c)
  PROVE  Evolves
<1> DEFINE hit == Found(Step(c), call[c].q, "update")  v == call[c].q.val
<1>1. nextId' = nextId /\ nextId \in Nat
  BY IdsBelow DEF UpdateRows
<1>2. UNCHANGED db \/ db' = (db \ hit) \cup {WithVal(r, v) : r \in hit}
  BY DEF UpdateRows
<1>3. hit \subseteq db
  BY DEF Found
<1> HIDE DEF hit, v
<1>4. \A r \in db : Alike(WithVal(r, v), r) /\ WithVal(r, v).refs = r.refs
  BY IdsBelow, ValFields DEF Alike
<1>5. ASSUME NEW x \in db' PROVE \E s \in db : Alike(x, s) /\ x.refs \subseteq s.refs
  <2>1. CASE x \in db
    BY <2>1 DEF Alike
  <2>2. CASE x \notin db
    <3>1. PICK r \in hit : x = WithVal(r, v)
      BY <1>2, <2>2
    <3> QED BY <1>3, <1>4, <3>1
  <2> QED BY <2>1, <2>2
<1> QED BY <1>1, <1>5 DEF Evolves

LEMMA WithoutEvolves ==
  ASSUME CPInv, NEW G, db' = Without(G), nextId' = nextId
  PROVE  Evolves
<1>1. nextId <= nextId'
  BY IdsBelow
<1>2. ASSUME NEW x \in db' PROVE \E s \in db : Alike(x, s) /\ x.refs \subseteq s.refs
  <2>1. PICK r \in db : x = Forget(r, G)
    BY DEF Without, Forget
  <2>2. IsRow(r)
    BY IdsBelow
  <2> QED BY <2>1, <2>2, Forgets DEF Alike
<1> QED BY <1>1, <1>2 DEF Evolves

LEMMA EditEvolves ==
  ASSUME CPInv, EditRole
  PROVE  Evolves
<1>1. nextId' = nextId /\ nextId \in Nat
  BY IdsBelow DEF EditRole
<1>2. PICK m \in db : \/ \E v \in EditedRoles : db' = (db \ {m}) \cup {[m EXCEPT !.val = v]}
                      \/ db' = Without({m})
  BY DEF EditRole
<1>3. CASE db' = Without({m})
  BY <1>1, <1>3, WithoutEvolves
<1>4. ASSUME NEW v, db' = (db \ {m}) \cup {[m EXCEPT !.val = v]} PROVE Evolves
  <2> DEFINE w == [m EXCEPT !.val = v]
  <2>1. IsRow(m)
    BY IdsBelow
  <2>2. Alike(w, m) /\ w.refs = m.refs
    BY <2>1 DEF IsRow, Alike
  <2>3. db' = (db \ {m}) \cup {w}
    BY <1>4
  <2> HIDE DEF w
  <2>4. \A x \in db' : \E s \in db : Alike(x, s) /\ x.refs \subseteq s.refs
    BY <2>2, <2>3 DEF Alike
  <2> QED BY <1>1, <2>4 DEF Evolves
<1> QED BY <1>2, <1>3, <1>4

\* Who moves: nobody, the database's owner, or a call that begins or goes on.
LEMMA Movers ==
  ASSUME [CPNext]_cpvars
  PROVE  UNCHANGED cpvars \/ EditRole \/ \E c \in Calls : Begins(c) \/ Acts(c)
BY DEF CPNext, Begins, Acts

LEMMA ActsEvolve ==
  ASSUME CPInv, ApartInv, NEW c \in Calls, Acts(c)
  PROVE  Evolves
<1>1. CASE InsertRow(c)
  BY <1>1, InsertEvolves
<1>2. CASE CopyRows(c)
  BY <1>2, CopyEvolves
<1>3. CASE UpdateRows(c)
  BY <1>3, UpdateEvolves
<1>4. CASE DeleteRows(c)
  <2>1. nextId' = nextId /\ (UNCHANGED db \/ db' = Without(Gone(Found(Step(c), call[c].q, "delete"))))
    BY <1>4 DEF DeleteRows
  <2> QED BY <2>1, StillEvolves, WithoutEvolves
<1>5. CASE Skip(c) \/ Select(c) \/ Asking(c) \/ Needing(c) \/ Fail(c) \/ Finish(c)
  BY <1>5, StillEvolves DEF Skip, Select, Asking, Needing, Fail, Finish
<1> QED BY <1>1, <1>2, <1>3, <1>4, <1>5 DEF Acts

LEMMA StepEvolves ==
  ASSUME CPInv, ApartInv, [CPNext]_cpvars
  PROVE  Evolves
<1>1. CASE UNCHANGED cpvars \/ \E c \in Calls : Begins(c)
  BY <1>1, StillEvolves DEF cpvars, Begins, Guard
<1> QED BY <1>1, Movers, EditEvolves, ActsEvolve

\* The statement a clone is at is the one that moves it on.
LEMMA CloneActs ==
  ASSUME CPInv, NEW c \in Calls, Acts(c), call[c].q.route = "clone"
  PROVE  \/ Answers(c) /\ OthersWait(c)
         \/ call[c].pc = 1 /\ Select(c) /\ Advances(c)
         \/ call[c].pc = 2 /\ Advances(c) /\ call'[c].made = call[c].made /\ UNCHANGED <<db, nextId>>
         \/ call[c].pc = 3 /\ InsertRow(c) /\ Advances(c)
         \/ call[c].pc = 4 /\ ~Bare(call[c].q) /\ Select(c) /\ Advances(c)
         \/ call[c].pc = 5 /\ ~Bare(call[c].q) /\ CopyRows(c) /\ Advances(c)
         \/ /\ call[c].pc \in {4, 5} /\ Bare(call[c].q) /\ Advances(c)
            /\ call'[c].made = call[c].made /\ UNCHANGED <<db, nextId>>
<1>1. /\ call[c].pc \in Nat /\ call[c].pc > 0 /\ OthersWait(c) /\ (Answers(c) \/ Advances(c))
  BY Acting
<1> SUFFICES ASSUME Advances(c), ~Answers(c)
             PROVE  \/ call[c].pc = 1 /\ Select(c)
                    \/ call[c].pc = 2 /\ call'[c].made = call[c].made /\ UNCHANGED <<db, nextId>>
                    \/ call[c].pc = 3 /\ InsertRow(c)
                    \/ call[c].pc = 4 /\ ~Bare(call[c].q) /\ Select(c)
                    \/ call[c].pc = 5 /\ ~Bare(call[c].q) /\ CopyRows(c)
                    \/ /\ call[c].pc \in {4, 5} /\ Bare(call[c].q)
                       /\ call'[c].made = call[c].made /\ UNCHANGED <<db, nextId>>
  BY <1>1
<1>2. \A a : ~Answer(c, a) \/ ~UNCHANGED <<db, nextId>>
  <2> SUFFICES ASSUME NEW a, Answer(c, a), UNCHANGED <<db, nextId>> PROVE Answers(c)
    OBVIOUS
  <2>1. CallsOK(call) /\ CallOK(call[c])
    BY DEF CPInv, CallsOK
  <2>2. call'[c] = [call[c] EXCEPT !.answer = a]
    BY <1>1, <2>1, Simple
  <2> QED BY <2>1, <2>2, CallFields DEF Answers
<1>3. call[c].pc <= 5
  <2>1. ~Finish(c)
    BY <1>2 DEF Finish
  <2>2. call[c].pc <= Len(Plan(c))
    BY <2>1 DEF Acts, Skip, Select, InsertRow, CopyRows, UpdateRows, DeleteRows, Asking, Needing, Fail, AtStep
  <2> QED BY <1>1, <2>2, CloneSteps
<1>4. /\ Plan(c)[1].cmd = "one" /\ Plan(c)[1].fatal /\ Plan(c)[2].cmd = "unused"
      /\ Plan(c)[3].cmd = "insert" /\ Plan(c)[3].fatal
      /\ Plan(c)[4].cmd = "list" /\ Plan(c)[4].fatal /\ Plan(c)[5].cmd = "copy" /\ Plan(c)[5].fatal
  BY <1>1, CloneSteps, CloneCommands
<1>5. Fail(c) => ~Step(c).fatal
  BY <1>2 DEF Fail
<1>6. Step(c) = Plan(c)[call[c].pc]
  BY DEF Step
<1>7. /\ AtStep(c, "optional") => Step(c).cmd = "optional"
      /\ AtStep(c, "insert") => Step(c).cmd = "insert"
      /\ AtStep(c, "copy") => Step(c).cmd = "copy"
      /\ AtStep(c, "update") => Step(c).cmd = "update"
      /\ AtStep(c, "delete") => Step(c).cmd = "delete"
      /\ AtStep(c, "ask") => Step(c).cmd = "ask"
      /\ AtStep(c, "need") => Step(c).cmd = "need"
      /\ Select(c) => Step(c).cmd \in {"one", "optional", "list", "unused"}
  BY DEF AtStep, Select
<1>8. /\ Skip(c) => Step(c).cmd = "optional" \/ (Step(c).cmd \in {"list", "copy"} /\ Bare(call[c].q))
      /\ InsertRow(c) => Step(c).cmd = "insert"
      /\ CopyRows(c) => Step(c).cmd = "copy"
      /\ UpdateRows(c) => Step(c).cmd = "update"
      /\ DeleteRows(c) => Step(c).cmd = "delete"
      /\ Asking(c) => Step(c).cmd = "ask"
      /\ Needing(c) => Step(c).cmd = "need"
  BY <1>7 DEF Skip, Skipped, InsertRow, CopyRows, UpdateRows, DeleteRows, Asking, Needing
<1>9. ~Finish(c)
  BY <1>2 DEF Finish
<1>a. /\ Step(c).cmd \in {"list", "copy"} => (Skipped(c) <=> Bare(call[c].q))
      /\ Skip(c) => Skipped(c) /\ UNCHANGED <<db, nextId>>
      /\ Select(c) \/ CopyRows(c) => ~Skipped(c)
  BY DEF Skipped, Skip, Select, CopyRows
<1>10. CASE call[c].pc = 1
  BY <1>4, <1>5, <1>6, <1>7, <1>8, <1>9, <1>10 DEF Acts
<1>11. CASE call[c].pc = 2
  <2>1. Select(c) \/ Fail(c)
    BY <1>4, <1>6, <1>7, <1>8, <1>9, <1>11 DEF Acts
  <2>2. UNCHANGED <<db, nextId>>
    BY <2>1 DEF Select, Fail
  <2>3. Step(c).cmd = "unused"
    BY <1>4, <1>6, <1>11
  <2>4. ~InsertRow(c) /\ ~CopyRows(c)
    BY <1>8, <2>3
  <2> QED BY <1>11, <2>2, <2>4 DEF Advances
<1>12. CASE call[c].pc = 3
  BY <1>4, <1>5, <1>6, <1>7, <1>8, <1>9, <1>12 DEF Acts
<1>13. CASE call[c].pc = 4
  <2>1. Select(c) \/ Skip(c)
    BY <1>4, <1>5, <1>6, <1>7, <1>8, <1>9, <1>13 DEF Acts
  <2>2. Step(c).cmd = "list" /\ ~InsertRow(c) /\ ~CopyRows(c)
    BY <1>4, <1>6, <1>8, <1>13
  <2> QED BY <1>13, <1>a, <2>1, <2>2 DEF Advances
<1>14. CASE call[c].pc = 5
  <2>1. CopyRows(c) \/ Skip(c)
    BY <1>4, <1>5, <1>6, <1>7, <1>8, <1>9, <1>14 DEF Acts
  <2>2. Step(c).cmd = "copy" /\ ~InsertRow(c)
    BY <1>4, <1>6, <1>8, <1>14
  <2> QED BY <1>14, <1>a, <2>1, <2>2 DEF Advances
<1> QED BY <1>1, <1>3, <1>10, <1>11, <1>12, <1>13, <1>14

\* A row that is not new is as it was.
LEMMA Older ==
  ASSUME CPInv, Evolves, NEW r \in db', r.id \in Nat, r.id < nextId
  PROVE  \E s \in db : Alike(r, s) /\ r.refs \subseteq s.refs
<1>1. nextId \in Nat /\ \A s \in db : s.id \in Nat
  BY IdsBelow
<1>2. CASE Fresh(r)
  BY <1>1, <1>2 DEF Fresh
<1> QED BY <1>2 DEF Evolves

\* A select that goes on has read what there is.
LEMMA ReadsRows ==
  ASSUME CPInv, NEW c \in Calls, Select(c), ~Answers(c)
  PROVE  /\ call'[c].got = Found(Step(c), call[c].q, "select") /\ call'[c].made = call[c].made
         /\ call'[c].pc = call[c].pc + 1 /\ call'[c].q = call[c].q /\ UNCHANGED <<db, nextId>> /\ OthersWait(c)
<1> DEFINE got == Found(Step(c), call[c].q, "select")
           k == [call[c] EXCEPT !.pc = @ + 1, !.got = got]
<1>1. CallsOK(call) /\ CallOK(call[c]) /\ call[c].pc > 0
  BY DEF CPInv, CallsOK, Select, AtStep, Running
<1>2. UNCHANGED <<db, nextId>> /\ ((\E a : Answer(c, a)) \/ call' = [call EXCEPT ![c] = k])
  BY DEF Select
<1>3. \A a : ~Answer(c, a)
  <2> SUFFICES ASSUME NEW a, Answer(c, a) PROVE Answers(c)
    OBVIOUS
  <2>1. call'[c] = [call[c] EXCEPT !.answer = a]
    BY <1>1, Simple
  <2> QED BY <1>1, <1>2, <2>1, CallFields DEF Answers
<1>4. k.got = got /\ k.made = call[c].made /\ k.pc = call[c].pc + 1 /\ k.q = call[c].q
  BY <1>1, CallFields
<1> HIDE DEF k
<1>5. call'[c] = k /\ OthersWait(c)
  BY <1>1, <1>2, <1>3, Simple
<1> QED BY <1>2, <1>4, <1>5

\* A call that begins.
LEMMA GuardFields ==
  ASSUME CPInv, NEW c \in Calls, NEW q, Guard(c, q)
  PROVE  /\ call'[c].q = q /\ call'[c].pc = 1 /\ call'[c].got = {} /\ call'[c].made = {}
         /\ call'[c].seen = RoutesAsked(q) /\ call'[c].answer # "ok"
         /\ OthersWait(c) /\ UNCHANGED <<db, nextId>>
<1> DEFINE seen == RoutesAsked(q)
           a == IF q.user = Nobody THEN "unauthorized"
                ELSE IF RoleIn(q.user, q.org) \notin API[q.route][q.method].guard THEN "forbidden" ELSE "none"
           k == [NoCall EXCEPT !.q = q, !.pc = 1, !.seen = seen, !.answer = a]
<1>1. call' = [call EXCEPT ![c] = k] /\ UNCHANGED <<db, nextId>>
  BY DEF Guard
<1>2. a # "ok"
  OBVIOUS
<1> HIDE DEF seen, a
<1>3. k.q = q /\ k.pc = 1 /\ k.got = {} /\ k.made = {} /\ k.seen = seen /\ k.answer = a
  BY DEF NoCall
<1> HIDE DEF k
<1>4. call = [d \in Calls |-> call[d]]
  BY DEF CPInv, CallsOK
<1>5. call'[c] = k /\ OthersWait(c)
  BY <1>1, <1>4 DEF OthersWait
<1> QED BY <1>1, <1>2, <1>3, <1>5 DEF seen

LEMMA ApartInit ==
  ASSUME CPInit
  PROVE  ApartInv
<1>1. db = Scenes[scene].rows /\ scene \in DOMAIN Scenes
  BY DEF CPInit
<1>2. \A r, p \in db : p.id \in r.refs => Fits(r, p)
  BY <1>1, SceneAssumption
<1>3. \A c \in Calls : call[c].pc = 0
  BY DEF CPInit, NoCall
<1> QED BY <1>2, <1>3 DEF ApartInv, Rooted

\* A clone that stays where it is, or has not read its routes yet.
LEMMA RootedStays ==
  ASSUME CPInv, Evolves, nextId' \in Nat, NEW k, Rooted(k, db, nextId)
  PROVE  Rooted(k, db', nextId')
<1> SUFFICES ASSUME k.pc = 5, k.q.route = "clone", ~Bare(k.q), NEW r \in k.got
             PROVE  /\ r.refs \subseteq 1 .. nextId' - 1
                    /\ \A p \in db' : p.id \in r.refs => p.id = r.home \/ p.table \in Schema["routes"].refers
  BY DEF Rooted
<1>1. /\ r.refs \subseteq 1 .. nextId - 1
      /\ \A p \in db : p.id \in r.refs => p.id = r.home \/ p.table \in Schema["routes"].refers
  BY DEF Rooted
<1>2. nextId \in Nat /\ nextId <= nextId'
  BY IdsBelow DEF Evolves
<1>3. ASSUME NEW p \in db', p.id \in r.refs PROVE p.id = r.home \/ p.table \in Schema["routes"].refers
  <2>1. p.id < nextId /\ p.id \in Nat
    BY <1>1, <1>2, <1>3
  <2>2. PICK u \in db : Alike(p, u)
    BY <2>1, Older
  <2> QED BY <1>1, <1>3, <2>2 DEF Alike
<1> QED BY <1>1, <1>2, <1>3

LEMMA RootedActs ==
  ASSUME CPInv, ApartInv, Evolves, nextId' \in Nat, NEW c \in Calls, Acts(c)
  PROVE  Rooted(call'[c], db', nextId')
<1>1. call'[c].q = call[c].q /\ call[c].pc \in Nat
  BY Acting
<1> SUFFICES ASSUME call'[c].pc = 5, call[c].q.route = "clone", ~Bare(call[c].q) PROVE Rooted(call'[c], db', nextId')
  BY <1>1 DEF Rooted
<1>2. CASE Answers(c)
  <2>1. Rooted(call[c], db', nextId')
    BY RootedStays DEF ApartInv
  <2> QED BY <1>1, <1>2, <2>1 DEF Answers, Rooted
<1>3. CASE ~Answers(c)
  <2>1. call[c].pc = 4 /\ Select(c)
    BY <1>1, <1>3, CloneActs DEF Advances
  <2>2. call'[c].got = Found(Step(c), call[c].q, "select") /\ UNCHANGED <<db, nextId>>
    BY <1>3, <2>1, ReadsRows
  <2>3. Step(c) = List("routes", {"of"})
    BY <2>1, CloneSteps DEF Step
  <2>4. List("routes", {"of"}).table = "routes"
    BY DEF List, Read
  <2>5. ASSUME NEW r \in call'[c].got PROVE r \in db /\ r.table = "routes"
    BY <2>2, <2>3, <2>4 DEF Found, Matches
  <2>6. ASSUME NEW r \in call'[c].got
        PROVE  /\ r.refs \subseteq 1 .. nextId - 1
               /\ \A p \in db : p.id \in r.refs => p.id = r.home \/ p.table \in Schema["routes"].refers
    <3>1. r.refs \subseteq 1 .. nextId - 1
      BY <2>5, IdsBelow
    <3>2. ASSUME NEW p \in db, p.id \in r.refs PROVE p.id = r.home \/ p.table \in Schema["routes"].refers
      <4>1. Fits(r, p)
        BY <2>5, <3>2 DEF ApartInv
      <4> QED BY <2>5, <4>1 DEF Fits
    <3> QED BY <3>1, <3>2
  <2> QED BY <2>2, <2>6 DEF Rooted
<1> QED BY <1>2, <1>3

LEMMA ApartStep ==
  ASSUME CPInv, ApartInv, [CPNext]_cpvars
  PROVE  ApartInv'
<1>1. Evolves
  BY StepEvolves
<1>2. CPInv'
  BY CPNext_Inv
<1>3. nextId \in Nat /\ nextId' \in Nat /\ nextId <= nextId'
  BY <1>1, <1>2 DEF CPInv, Evolves
<1>4. ASSUME NEW r \in db', NEW p \in db', p.id \in r.refs PROVE Fits(r, p)
  <2>1. CASE Fresh(r)
    BY <1>4, <2>1 DEF Fresh
  <2>2. CASE ~Fresh(r)
    <3>1. PICK t \in db : Alike(r, t) /\ r.refs \subseteq t.refs
      BY <1>1, <2>2 DEF Evolves
    <3>2. p.id \in t.refs /\ p.id < nextId /\ p.id \in Nat
      BY <1>4, <3>1, IdsBelow
    <3>3. PICK u \in db : Alike(p, u)
      BY <1>1, <3>2, Older
    <3>4. Fits(t, u)
      BY <3>2, <3>3 DEF ApartInv, Alike
    <3> QED BY <3>1, <3>3, <3>4 DEF Alike, Fits
  <2> QED BY <2>1, <2>2
<1>5. ASSUME NEW c \in Calls PROVE Rooted(call'[c], db', nextId')
  <2>1. CASE call'[c] = call[c]
    <3>1. Rooted(call[c], db', nextId')
      BY <1>1, <1>3, RootedStays DEF ApartInv
    <3> QED BY <2>1, <3>1 DEF Rooted
  <2>2. CASE Begins(c)
    <3>1. call'[c].pc # 5
      BY <2>2, GuardFields DEF Begins
    <3> QED BY <3>1 DEF Rooted
  <2>3. CASE Acts(c)
    BY <1>1, <1>3, <2>3, RootedActs
  <2>4. ASSUME NEW d \in Calls, d # c, Begins(d) \/ Acts(d) PROVE call'[c] = call[c]
    BY <2>4, Acting, GuardFields DEF OthersWait, Begins
  <2>5. CASE UNCHANGED cpvars \/ EditRole
    BY <2>1, <2>5 DEF cpvars, EditRole
  <2> QED BY <2>1, <2>2, <2>3, <2>4, <2>5, Movers
<1> QED BY <1>4, <1>5 DEF ApartInv

-----------------------------------------------------------------------------
(* Whom a step needs.  A delete takes what it is of, what refers to a row  *)
(* that goes, and the references to one: so where the policies let a       *)
(* caller begin, it may do all that is not done for it by the schema.      *)

\* What goes is asked to, or goes with what it cascades from.
LEMMA WhyGone ==
  ASSUME NEW D \in SUBSET db, NEW r \in Gone(D), r \notin D
  PROVE  \E d \in Gone(D) : d.id \in r.refs /\ d.table \in Schema[r.table].cascade
<1> DEFINE b1 == Below(D)  b2 == Below(b1)  b3 == Below(b2)  b4 == Below(b3)  b5 == Below(b4)
           From(E) == \E d \in E : d.id \in r.refs /\ d.table \in Schema[r.table].cascade
<1>1. Gone(D) = b5
  BY DEF Gone
<1>2. \A E : E \subseteq Below(E) /\ (r \in Below(E) => r \in E \/ From(E))
  BY DEF Below
<1>3. D \subseteq b1 /\ (r \in b1 => r \in D \/ From(D))
  BY <1>2
<1>4. b1 \subseteq b2 /\ (r \in b2 => r \in b1 \/ From(b1))
  BY <1>2
<1>5. b2 \subseteq b3 /\ (r \in b3 => r \in b2 \/ From(b2))
  BY <1>2
<1>6. b3 \subseteq b4 /\ (r \in b4 => r \in b3 \/ From(b3))
  BY <1>2
<1>7. b4 \subseteq b5 /\ (r \in b5 => r \in b4 \/ From(b4))
  BY <1>2
<1> HIDE DEF b1, b2, b3, b4, b5
<1>8. From(b5)
  BY <1>1, <1>3, <1>4, <1>5, <1>6, <1>7
<1> QED BY <1>1, <1>8

LEMMA WithoutAlike ==
  ASSUME CPInv, NEW G, db' = Without(G)
  PROVE  \A s \in db' : \E r \in db : Alike(s, r)
<1> SUFFICES ASSUME NEW s \in db' PROVE \E r \in db : Alike(s, r)
  OBVIOUS
<1>1. PICK r \in db : s = Forget(r, G)
  BY DEF Without, Forget
<1>2. IsRow(r)
  BY IdsBelow
<1> QED BY <1>1, <1>2, Forgets DEF Alike

\* What goes is not there any more.
LEMMA Leaves ==
  ASSUME CPInv, NEW G \in SUBSET db, db' = Without(G), NEW d \in G
  PROVE  d.id \notin Ids'
<1> SUFFICES ASSUME NEW s \in db', s.id = d.id PROVE FALSE
  BY DEF Ids
<1>1. PICK x \in db \ G : s = Forget(x, G)
  BY DEF Without, Forget
<1>2. x.id = d.id
  BY <1>1, IdsBelow, Forgets
<1> QED BY <1>1, <1>2, IdsBelow

\* A row a delete changes is one it is of, or refers to a row that goes.
LEMMA DeleteReaches ==
  ASSUME CPInv, NEW D \in SUBSET db, db' = Without(Gone(D)), NEW r \in db, r \notin db', r \notin D
  PROVE  \E p \in db : p.id \in r.refs /\ p.id \notin Ids'
<1> DEFINE G == Gone(D)
<1>1. G \in SUBSET db
  BY GoneClosed DEF CPInv
<1>2. \E d \in G : d.id \in r.refs
  <2>1. CASE r \in G
    BY <2>1, WhyGone
  <2>2. CASE r \notin G
    <3> HIDE DEF G
    <3>1. Forget(r, G) \in db'
      BY <2>2 DEF Without, Forget, G
    <3>2. IsRow(r)
      BY IdsBelow
    <3> SUFFICES ASSUME r.refs \ {d.id : d \in G} = r.refs PROVE FALSE
      OBVIOUS
    <3> DEFINE s == Forget(r, G)
    <3>3. /\ IsRow(s) /\ s.id = r.id /\ s.table = r.table /\ s.org = r.org /\ s.home = r.home
          /\ s.refs = r.refs /\ s.name = r.name /\ s.val = r.val /\ s.stamps = r.stamps
      BY <3>2, Forgets
    <3> HIDE DEF s
    <3>4. s = r
      BY <3>2, <3>3 DEF IsRow
    <3> QED BY <3>1, <3>4 DEF s
  <2> QED BY <2>1, <2>2
<1>3. PICK d \in G : d.id \in r.refs
  BY <1>2
<1>4. d.id \notin Ids'
  <2>1. db' = Without(G)
    OBVIOUS
  <2> HIDE DEF G
  <2> QED BY <1>1, <1>3, <2>1, Leaves
<1> QED BY <1>1, <1>3, <1>4

Authorized(c, o) == RoleIn(call[c].q.user, o) \in API[call[c].q.route][call[c].q.method].guard

LEMMA MayMeans ==
  ASSUME CPInv, NEW c \in Calls, NEW cmd \in {"insert", "update", "delete"}, AtStep(c, cmd), NEW o,
         May(call[c].q.user, cmd, Step(c).table, o)
  PROVE  Authorized(c, o)
<1>1. Policy[Step(c).table][cmd] \subseteq API[call[c].q.route][call[c].q.method].guard
  <2>1. Step(c).cmd = cmd
    BY DEF AtStep
  <2> QED BY <2>1, AtStepKeeps DEF StmtKeeps
<1> QED BY <1>1 DEF May, Authorized

LEMMA InsertAuthorized ==
  ASSUME CPInv, NEW c \in Calls, InsertRow(c), NEW r \in (db \ db') \cup (db' \ db)
  PROVE  Authorized(c, r.org) \/ r.org \notin Ids
<1> DEFINE q == call[c].q  t == Step(c).table
           n == NewRow(nextId, t, OrgFor(q, t), q.home, q.refs \cup {q.home}, q.name, q.val)
           w == Owner(q)
<1>1. AtStep(c, "insert")
  BY DEF InsertRow
<1>2. Insertable(q, Step(c)) /\ (r = n \/ r = w)
  BY DEF InsertRow
<1>3. n.org = OrgFor(q, t) /\ w.org = nextId
  BY NewFields DEF Owner
<1>4. May(q.user, "insert", t, OrgFor(q, t))
  BY <1>2 DEF Insertable
<1>5. nextId \notin Ids
  BY IdsBelow
<1>6. Authorized(c, OrgFor(q, t))
  BY <1>1, <1>4, MayMeans
<1> HIDE DEF n, w
<1> QED BY <1>2, <1>3, <1>5, <1>6

LEMMA CopyAuthorized ==
  ASSUME CPInv, NEW c \in Calls, CopyRows(c), NEW r \in (db \ db') \cup (db' \ db)
  PROVE  Authorized(c, r.org)
<1>1. PICK copies, e, o : CopiesRows(c, copies, e, o)
  BY CopyMeans
<1>2. r \in copies /\ May(call[c].q.user, "insert", "routes", o)
  BY <1>1 DEF CopiesRows
<1>3. r.org = o
  BY <1>1, <1>2 DEF CopiesRows, CopyOf
<1>4. AtStep(c, "copy") /\ Step(c).cmd = "copy"
  BY DEF CopyRows, AtStep
<1>5. Admins \subseteq API[call[c].q.route][call[c].q.method].guard
  BY <1>4, AtStepKeeps DEF StmtKeeps
<1>6. Policy["routes"]["insert"] = Admins
  BY Policies
<1> QED BY <1>2, <1>3, <1>5, <1>6 DEF May, Authorized

LEMMA UpdateAuthorized ==
  ASSUME CPInv, NEW c \in Calls, UpdateRows(c), NEW r \in (db \ db') \cup (db' \ db)
  PROVE  Authorized(c, r.org)
<1> DEFINE hit == Found(Step(c), call[c].q, "update")  v == call[c].q.val
<1>1. AtStep(c, "update")
  BY DEF UpdateRows
<1>2. r \in hit \/ \E x \in hit : r = WithVal(x, v)
  BY DEF UpdateRows
<1>3. \A x \in hit : x \in db /\ Authorized(c, x.org)
  <2> SUFFICES ASSUME NEW x \in hit PROVE x \in db /\ Authorized(c, x.org)
    OBVIOUS
  <2>1. x \in db /\ x.table = Step(c).table /\ May(call[c].q.user, "update", x.table, x.org)
    BY DEF Found, Matches
  <2> QED BY <1>1, <2>1, MayMeans
<1> HIDE DEF hit, v
<1>4. \A x \in hit : WithVal(x, v).org = x.org
  BY <1>3, IdsBelow, ValFields
<1> QED BY <1>2, <1>3, <1>4

LEMMA DeleteAuthorized ==
  ASSUME CPInv, NEW c \in Calls, DeleteRows(c), NEW r \in (db \ db') \cup {n \in db' : n.id \notin Ids}
  PROVE  Authorized(c, r.org) \/ \E p \in db : p.id \in r.refs /\ p.id \notin Ids'
<1> DEFINE hit == Found(Step(c), call[c].q, "delete")
<1>1. AtStep(c, "delete") /\ (UNCHANGED db \/ db' = Without(Gone(hit)))
  BY DEF DeleteRows
<1>2. \A x \in hit : Authorized(c, x.org)
  <2> SUFFICES ASSUME NEW x \in hit PROVE Authorized(c, x.org)
    OBVIOUS
  <2>1. x.table = Step(c).table /\ May(call[c].q.user, "delete", x.table, x.org)
    BY DEF Found, Matches
  <2> QED BY <1>1, <2>1, MayMeans
<1>3. hit \in SUBSET db
  BY DEF Found
<1> HIDE DEF hit
<1>4. \A n \in db' : n.id \in Ids
  BY <1>1, WithoutAlike DEF Ids, Alike
<1>5. r \in db /\ r \notin db' /\ db' = Without(Gone(hit))
  BY <1>1, <1>4
<1> QED BY <1>2, <1>3, <1>5, DeleteReaches

LEMMA AuthorizedSteps ==
  ASSUME CPInv, [CPNext]_cpvars, NEW c \in Calls, call[c] # call'[c],
         NEW r \in (db \ db') \cup {n \in db' : n.id \notin Ids}
  PROVE  \/ Authorized(c, r.org) \/ r.org \notin Ids
         \/ \E p \in db : p.id \in r.refs /\ p.id \notin Ids'
<1>1. ~UNCHANGED cpvars /\ ~EditRole
  BY DEF cpvars, EditRole
<1>2. r \in (db \ db') \cup (db' \ db)
  BY DEF Ids
<1>3. ASSUME NEW d \in Calls, Begins(d) PROVE FALSE
  BY <1>2, <1>3 DEF Begins, Guard
<1>4. Acts(c)
  <2>1. PICK d \in Calls : Acts(d)
    BY <1>1, <1>3, Movers
  <2> QED BY <2>1, Acting DEF OthersWait
<1>5. CASE Skip(c) \/ Select(c) \/ Asking(c) \/ Needing(c) \/ Fail(c) \/ Finish(c)
  BY <1>2, <1>5 DEF Skip, Select, Asking, Needing, Fail, Finish
<1> QED BY <1>2, <1>4, <1>5, InsertAuthorized, CopyAuthorized, UpdateAuthorized, DeleteAuthorized DEF Acts

(***************************************************************************)
(* GuardStillHolds (requireOrgRole of lib/api/helpers.ts and the policies  *)
(* of 00002_rls_policies.sql): the role the guard read may be long gone    *)
(* when a handler writes; but whatever the requests, whatever the rows of  *)
(* other organizations they refer to, and whatever becomes of the          *)
(* memberships, a row comes or changes only where its caller may still     *)
(* call that handler, and goes only there or because a row it refers to    *)
(* goes.                                                                   *)
(***************************************************************************)
THEOREM GuardHoldsAgain == CPSpec => GuardStillHolds
<1>1. CPInit => CPInv
  BY CPInit_Inv
<1>2. CPInv /\ [CPNext]_cpvars => CPInv'
  BY CPNext_Inv
<1>3. CPInv /\ [CPNext]_cpvars =>
        [\A c \in Calls :
           call[c] # call'[c] =>
             \A r \in (db \ db') \cup {n \in db' : n.id \notin Ids} :
               \/ RoleIn(call[c].q.user, r.org) \in API[call[c].q.route][call[c].q.method].guard
               \/ r.org \notin Ids
               \/ \E p \in db : p.id \in r.refs /\ p.id \notin Ids']_cpvars
  BY AuthorizedSteps DEF Authorized
<1> QED BY <1>1, <1>2, <1>3, PTL DEF CPSpec, GuardStillHolds

-----------------------------------------------------------------------------
(* Routes.  One that is there stays as long as its environment, and keeps  *)
(* its limits until a request names it.                                    *)

RoutesAt(e, rows) == {r \in rows : r.table = "routes" /\ r.home = e}

RoutesStay ==
  \A r \in db : r.table = "routes" /\ r.home \in Ids' =>
    \E s \in db' : Alike(s, r) /\ (s.val = r.val \/ r.id \in Named)

LEMMA StillStay ==
  ASSUME UNCHANGED db
  PROVE  RoutesStay
BY DEF RoutesStay, Alike

LEMMA HomeInPlace ==
  ASSUME CPInv, NEW r \in db, NEW p \in db, p.id = r.home
  PROVE  p.org = r.org /\ r.table # "organizations" /\ p.table \in Schema[r.table].cascade
<1>1. InPlace(r, db) /\ p.id > 0 /\ p.id \in Nat
  BY IdsBelow, SoundParts DEF CPInv, RowOK
<1>2. r.table # "organizations"
  BY <1>1 DEF InPlace
<1>3. PICK h \in db : h.id = r.home /\ h.org = r.org /\ h.table \in Schema[r.table].cascade
  BY <1>1, <1>2 DEF InPlace
<1> QED BY <1>2, <1>3, IdsBelow

LEMMA RouteTables == Schema["routes"].cascade = {"environments"} /\ Schema["routes"].refers = {"models"} /\ "routes" \in Tables
BY TableNames DEF Schema, routes

LEMMA DeleteStays ==
  ASSUME CPInv, ApartInv, NEW D \in SUBSET db, \A d \in D : d.table # "routes", NEW G, G = Gone(D), db' = Without(G)
  PROVE  RoutesStay
<1> SUFFICES ASSUME NEW r \in db, r.table = "routes", r.home \in Ids'
             PROVE  \E s \in db' : Alike(s, r) /\ s.val = r.val
  BY DEF RoutesStay
<1>1. db' = {Forget(x, G) : x \in db \ G}
  BY DEF Without, Forget
<1>2. \A x \in db : Alike(Forget(x, G), x) /\ Forget(x, G).val = x.val
  BY IdsBelow, Forgets DEF Alike
<1>3. G \subseteq db
  BY GoneClosed DEF CPInv
<1>4. r \notin G
  <2> SUFFICES ASSUME r \in G PROVE FALSE
    OBVIOUS
  <2>1. PICK d \in G : d.id \in r.refs /\ d.table \in Schema["routes"].cascade
    BY WhyGone
  <2>2. Fits(r, d) /\ d \in db
    BY <1>3, <2>1 DEF ApartInv
  <2>3. d.id = r.home
    BY <2>1, <2>2, RouteTables DEF Fits
  <2>4. PICK x \in db \ G : Forget(x, G).id = r.home
    BY <1>1 DEF Ids
  <2>5. x.id = d.id
    BY <1>2, <2>3, <2>4 DEF Alike
  <2> QED BY <2>1, <2>2, <2>4, <2>5, IdsBelow
<1> QED BY <1>1, <1>2, <1>4

LEMMA EditRoutes ==
  ASSUME CPInv, EditRole
  PROVE  RoutesStay
<1>1. PICK m \in db : /\ m.table = "memberships"
                      /\ \/ \E v \in EditedRoles : db' = (db \ {m}) \cup {[m EXCEPT !.val = v]}
                         \/ db' = Without({m})
  BY DEF EditRole
<1>2. CASE db' = Without({m})
  <2>1. \A r \in db \ {m} : Forget(r, {m}) \in db'
    BY <1>2 DEF Without, Forget
  <2>2. \A r \in db : Alike(Forget(r, {m}), r) /\ Forget(r, {m}).val = r.val
    BY IdsBelow, Forgets DEF Alike
  <2> QED BY <1>1, <2>1, <2>2 DEF RoutesStay
<1>3. ASSUME NEW v, db' = (db \ {m}) \cup {[m EXCEPT !.val = v]} PROVE RoutesStay
  BY <1>1, <1>3 DEF RoutesStay, Alike
<1> QED BY <1>1, <1>2, <1>3

\* A request that changes limits names whose.
LEMMA UpdateRoutes ==
  ASSUME CPInv, NEW c \in Calls, UpdateRows(c)
  PROVE  RoutesStay
<1> DEFINE q == call[c].q  hit == Found(Step(c), q, "update")  v == q.val
<1>1. AtStep(c, "update") /\ Step(c).cmd = "update"
  BY DEF UpdateRows, AtStep
<1>2. UNCHANGED db \/ db' = (db \ hit) \cup {WithVal(r, v) : r \in hit}
  BY DEF UpdateRows
<1>3. ASSUME NEW r \in hit, r.table = "routes" PROVE r.id \in Named
  <2>1. Step(c).table = "routes"
    BY <1>3 DEF Found, Matches
  <2>2. "id" \in Step(c).by
    BY <1>1, <2>1, AtStepKeeps DEF StmtKeeps
  <2>3. r.id = q.ids[Step(c).n]
    BY <2>2 DEF Found, Matches
  <2>4. ValidRequest(q) /\ call[c].pc \in Nat /\ call[c].pc > 0 /\ call[c].pc <= Len(Plan(c))
    BY <1>1, AtStepOK DEF AtStep
  <2>5. \A i \in 1 .. Len(Plan(c)) : Plan(c)[i].cmd = "update" => Plan(c)[i].n \in DOMAIN q.ids
    BY <2>4 DEF ValidRequest, Plan
  <2>6. Step(c).n \in DOMAIN q.ids
    <3>1. call[c].pc \in 1 .. Len(Plan(c))
      <4> DEFINE n == Len(Plan(c))
      <4> HIDE DEF n
      <4>1. call[c].pc \in Nat /\ call[c].pc > 0 /\ call[c].pc <= n /\ n \in Nat
        BY <1>1, <2>4, AtStepOK DEF n
      <4> QED BY <4>1 DEF n
    <3> QED BY <1>1, <2>5, <3>1 DEF Step
  <2> QED BY <2>3, <2>4, <2>6 DEF Named, Waiting
<1> HIDE DEF hit, v, q
<1>4. \A r \in db : Alike(WithVal(r, v), r)
  BY IdsBelow, ValFields DEF Alike
<1> SUFFICES ASSUME NEW r \in db, r.table = "routes"
             PROVE  \E s \in db' : Alike(s, r) /\ (s.val = r.val \/ r.id \in Named)
  BY DEF RoutesStay
<1>5. CASE r \in db'
  BY <1>5 DEF Alike
<1>6. CASE r \notin db'
  <2>1. r \in hit /\ WithVal(r, v) \in db'
    BY <1>2, <1>6
  <2> QED BY <1>3, <1>4, <2>1
<1> QED BY <1>5, <1>6

LEMMA DeleteRoutes ==
  ASSUME CPInv, ApartInv, NEW c \in Calls, DeleteRows(c)
  PROVE  RoutesStay
<1> DEFINE hit == Found(Step(c), call[c].q, "delete")
<1>1. AtStep(c, "delete") /\ Step(c).cmd = "delete"
  BY DEF DeleteRows, AtStep
<1>2. UNCHANGED db \/ db' = Without(Gone(hit))
  BY DEF DeleteRows
<1>3. Step(c).table # "routes"
  BY <1>1, AtStepKeeps DEF StmtKeeps
<1>4. hit \in SUBSET db /\ \A d \in hit : d.table # "routes"
  BY <1>3 DEF Found, Matches
<1> HIDE DEF hit
<1> QED BY <1>2, <1>4, StillStay, DeleteStays

LEMMA ActRoutes ==
  ASSUME CPInv, ApartInv, NEW c \in Calls, Acts(c)
  PROVE  RoutesStay
<1>1. ASSUME db \subseteq db' PROVE RoutesStay
  BY <1>1 DEF RoutesStay, Alike
<1>2. CASE InsertRow(c)
  BY <1>1, <1>2 DEF InsertRow
<1>3. CASE CopyRows(c)
  BY <1>1, <1>3, CopyMeans DEF CopiesRows
<1>4. CASE Skip(c) \/ Select(c) \/ Asking(c) \/ Needing(c) \/ Fail(c) \/ Finish(c)
  BY <1>4, StillStay DEF Skip, Select, Asking, Needing, Fail, Finish
<1> QED BY <1>2, <1>3, <1>4, UpdateRoutes, DeleteRoutes DEF Acts

-----------------------------------------------------------------------------
(* Clones.  What a call has made was not there before; and a clone finds   *)
(* the routes it was asked of for as long as their environment is there.   *)

OwnInv == \A c \in Calls : call[c].made \subseteq 1 .. nextId - 1

NamesOf(rows) == {r.name : r \in rows}
IdsOf(rows)   == {r.id : r \in rows}

\* The routes in environment e that call k has made.
Copies(k, e, rows) == {r \in RoutesAt(e, rows) : r.id \in k.made}

\* N: the ids that requests have named.
Whole(k, e, rows, N) ==
  IF Bare(k.q) THEN Copies(k, e, rows) = {}
  ELSE \/ k.got = {} /\ Copies(k, e, rows) = {}
       \/ /\ k.seen \subseteq NamesOf(Copies(k, e, rows))
          /\ \A r \in k.got : \E x \in Copies(k, e, rows) :
               x.name = r.name /\ (k.q.val = "configs" => x.val = r.val \/ x.id \in N)

Environments(rows) == {x \in rows : x.table = "environments"}

\* How far a clone is, and what it has seen, read and made by then.
Cloning(k, rows, n, N) ==
  /\ k.answer = "ok" => k.pc > 0
  /\ k.pc > 0 /\ k.q.route = "clone" =>
       /\ k.answer = "ok" => k.pc > 5
       /\ k.pc <= 3 => k.made = {}
       /\ k.pc <= 4 /\ k.seen # {} =>
            /\ k.q.ids[1] \in 1 .. n - 1
            /\ k.q.ids[1] \in IdsOf(rows) => k.seen \subseteq NamesOf(RoutesAt(k.q.ids[1], rows))
       /\ k.pc \in {4, 5} => \E e : k.made = {e} /\ Copies(k, e, rows) = {}
       /\ k.pc = 5 /\ ~Bare(k.q) => k.got = {} \/ k.seen \subseteq NamesOf(k.got)
       /\ k.pc > 5 => \A e \in k.made \cap IdsOf(Environments(rows)) : Whole(k, e, rows, N)

CloneInv == OwnInv /\ \A c \in Calls : Cloning(call[c], db, nextId, Named)

\* No name is taken back.
LEMMA NamedStay ==
  ASSUME CPInv, [CPNext]_cpvars
  PROVE  Named \subseteq Named'
<1> SUFFICES ASSUME NEW c \in Calls, call[c].pc # 0
             PROVE  call'[c].pc # 0 /\ call'[c].q = call[c].q
  BY DEF Named, Waiting
<1>1. call[c].pc \in Nat
  BY DEF CPInv, CallsOK, CallOK
<1>2. CASE UNCHANGED cpvars \/ EditRole
  BY <1>2 DEF cpvars, EditRole
<1>3. ASSUME NEW d \in Calls, Begins(d) PROVE call'[c] = call[c]
  <2>1. d # c /\ OthersWait(d)
    BY <1>3, GuardFields DEF Begins, Guard, Waiting
  <2> QED BY <2>1 DEF OthersWait
<1>4. ASSUME NEW d \in Calls, Acts(d) PROVE call'[c].pc # 0 /\ call'[c].q = call[c].q
  <2>1. CASE d = c
    BY <1>1, <1>4, <2>1, Acting DEF Answers, Advances
  <2>2. CASE d # c
    BY <1>4, <2>2, Acting DEF OthersWait
  <2> QED BY <2>1, <2>2
<1> QED BY <1>2, <1>3, <1>4, Movers

LEMMA InsertMeans ==
  ASSUME CPInv, NEW c \in Calls, InsertRow(c)
  PROVE  \/ UNCHANGED <<db, nextId>> /\ call'[c].made = call[c].made /\ (Step(c).fatal => Answers(c))
         \/ /\ call'[c].made = call[c].made \cup {nextId} /\ nextId < nextId'
            /\ Step(c).table # "organizations" => \E x : x.table = Step(c).table /\ db' = db \cup {x}
<1> DEFINE q == call[c].q  t == Step(c).table
           n == NewRow(nextId, t, OrgFor(q, t), q.home, q.refs \cup {q.home}, q.name, q.val)
<1>1. CallsOK(call) /\ CallOK(call[c]) /\ call[c].pc > 0 /\ nextId \in Nat
  BY DEF CPInv, CallsOK, InsertRow, AtStep, Running
<1>2. CASE Insertable(q, Step(c))
  <2> DEFINE made == call[c].made \cup {nextId}
             k == [call[c] EXCEPT !.pc = @ + 1, !.made = made]
  <2>1. call' = [call EXCEPT ![c] = k] /\ nextId' = nextId + IF t = "organizations" THEN 2 ELSE 1
    BY <1>2 DEF InsertRow
  <2>2. k.made = made
    <3> HIDE DEF made
    <3> QED BY <1>1, CallFields
  <2> HIDE DEF k
  <2>3. call'[c] = k
    BY <1>1, <2>1, Simple
  <2>4. nextId < nextId'
    BY <1>1, <2>1
  <2>5. n.table = t
    BY NewFields
  <2>6. t # "organizations" => db' = db \cup {n}
    BY <1>2 DEF InsertRow
  <2> HIDE DEF n
  <2> QED BY <2>2, <2>3, <2>4, <2>5, <2>6
<1>3. CASE ~Insertable(q, Step(c))
  <2>1. UNCHANGED <<db, nextId>> /\ IF Step(c).fatal THEN Answer(c, "error") ELSE Proceed(c)
    BY <1>3 DEF InsertRow
  <2>2. CASE Step(c).fatal
    <3>1. call'[c] = [call[c] EXCEPT !.answer = "error"]
      BY <1>1, <2>1, <2>2, Simple
    <3> QED BY <1>1, <2>1, <3>1, CallFields DEF Answers
  <2>3. CASE ~Step(c).fatal
    <3>1. call'[c] = [call[c] EXCEPT !.pc = @ + 1]
      BY <1>1, <2>1, <2>3, Simple
    <3> QED BY <1>1, <2>1, <2>3, <3>1, CallFields
  <2> QED BY <2>2, <2>3
<1> QED BY <1>2, <1>3

LEMMA Ranges ==
  ASSUME NEW m \in Nat, NEW n \in Nat, m > 0, m <= n
  PROVE  /\ \A i \in m .. n - 1 : i \in 1 .. n - 1 /\ i \notin 1 .. m - 1
         /\ \A i \in 1 .. m - 1 : i \in 1 .. n - 1 /\ i \in Nat /\ i < m
OBVIOUS

\* A call makes only what is new.
LEMMA MakesNew ==
  ASSUME CPInv, OwnInv, NEW c \in Calls, Acts(c), nextId' \in Nat, nextId <= nextId'
  PROVE  call'[c].made \subseteq call[c].made \cup (nextId .. nextId' - 1)
<1>1. Answers(c) \/ Advances(c)
  BY Acting
<1>2. CASE InsertRow(c)
  <2>1. nextId \in Nat
    BY DEF CPInv
  <2> QED BY <1>2, <2>1, InsertMeans
<1>3. CASE ~InsertRow(c)
  BY <1>1, <1>3 DEF Answers, Advances
<1> QED BY <1>2, <1>3

LEMMA OwnStep ==
  ASSUME CPInv, ApartInv, OwnInv, [CPNext]_cpvars
  PROVE  OwnInv'
<1>1. CPInv' /\ Evolves
  BY CPNext_Inv, StepEvolves
<1>2. nextId \in Nat /\ nextId > 0 /\ nextId' \in Nat /\ nextId <= nextId'
  BY <1>1, IdsBelow DEF CPInv, Evolves
<1> DEFINE new == nextId .. nextId' - 1
<1>3. new \subseteq 1 .. nextId' - 1 /\ 1 .. nextId - 1 \subseteq 1 .. nextId' - 1
  <2>1. \A i \in new : i \in 1 .. nextId' - 1
    BY <1>2, Ranges
  <2>2. \A i \in 1 .. nextId - 1 : i \in 1 .. nextId' - 1
    BY <1>2, Ranges
  <2> QED BY <2>1, <2>2
<1> HIDE DEF new
<1> SUFFICES ASSUME NEW d \in Calls PROVE call'[d].made \subseteq call[d].made \cup new
  BY <1>3 DEF OwnInv
<1>4. CASE UNCHANGED cpvars \/ EditRole
  BY <1>4 DEF cpvars, EditRole
<1>5. ASSUME NEW c \in Calls, Begins(c) PROVE call'[d].made \subseteq call[d].made
  <2>1. call'[c].made = {} /\ OthersWait(c)
    BY <1>5, GuardFields DEF Begins
  <2> QED BY <2>1 DEF OthersWait
<1>6. ASSUME NEW c \in Calls, Acts(c) PROVE call'[d].made \subseteq call[d].made \cup new
  <2>1. OthersWait(c) /\ call'[c].made \subseteq call[c].made \cup new
    BY <1>2, <1>6, Acting, MakesNew DEF new
  <2> QED BY <2>1 DEF OthersWait
<1> QED BY <1>4, <1>5, <1>6, Movers

\* A clone that does not move, whoever else does.
LEMMA CloningStays ==
  ASSUME CPInv, Evolves, RoutesStay, nextId' \in Nat, NEW N, NEW M, N \subseteq M, Named \subseteq M,
         NEW k, k.made \subseteq 1 .. nextId - 1, Cloning(k, db, nextId, N)
  PROVE  Cloning(k, db', nextId', M)
<1> SUFFICES ASSUME k.pc > 0, k.q.route = "clone"
             PROVE  /\ k.pc <= 4 /\ k.seen # {} =>
                         /\ k.q.ids[1] \in 1 .. nextId' - 1
                         /\ k.q.ids[1] \in IdsOf(db') => k.seen \subseteq NamesOf(RoutesAt(k.q.ids[1], db'))
                    /\ k.pc \in {4, 5} => \E e : k.made = {e} /\ Copies(k, e, db') = {}
                    /\ k.pc > 5 => \A e \in k.made \cap IdsOf(Environments(db')) : Whole(k, e, db', M)
  BY DEF Cloning
<1>1. nextId \in Nat /\ nextId > 0 /\ nextId <= nextId'
  BY IdsBelow DEF Evolves
<1>2. 1 .. nextId - 1 \subseteq 1 .. nextId' - 1 /\ \A i \in 1 .. nextId - 1 : i \in Nat /\ i < nextId
  <2>1. \A i \in 1 .. nextId - 1 : i \in 1 .. nextId' - 1 /\ i \in Nat /\ i < nextId
    BY <1>1, Ranges
  <2> QED BY <2>1
<1>3. ASSUME NEW i \in 1 .. nextId - 1, i \in IdsOf(db') PROVE i \in IdsOf(db)
  <2>1. PICK s \in db' : s.id = i
    BY <1>3 DEF IdsOf
  <2>2. PICK r \in db : Alike(s, r)
    BY <1>2, <2>1, Older
  <2> QED BY <2>1, <2>2 DEF Alike, IdsOf
<1>4. ASSUME NEW i \in IdsOf(db'), NEW r \in RoutesAt(i, db)
      PROVE  \E s \in RoutesAt(i, db') : s.id = r.id /\ s.name = r.name /\ (s.val = r.val \/ r.id \in M)
  <2>1. r \in db /\ r.table = "routes" /\ r.home \in Ids'
    BY <1>4 DEF RoutesAt, IdsOf, Ids
  <2>2. PICK s \in db' : Alike(s, r) /\ (s.val = r.val \/ r.id \in Named)
    BY <2>1 DEF RoutesStay
  <2> QED BY <2>2 DEF RoutesAt, Alike
<1>5. ASSUME NEW e, Copies(k, e, db) = {} PROVE Copies(k, e, db') = {}
  <2> SUFFICES ASSUME NEW s \in db', s.table = "routes", s.home = e, s.id \in k.made PROVE FALSE
    BY DEF Copies, RoutesAt
  <2>1. PICK r \in db : Alike(s, r)
    BY <1>2, Older
  <2> QED BY <1>5, <2>1 DEF Alike, Copies, RoutesAt
<1>6. ASSUME k.pc <= 4, k.seen # {}
      PROVE  /\ k.q.ids[1] \in 1 .. nextId' - 1
             /\ k.q.ids[1] \in IdsOf(db') => k.seen \subseteq NamesOf(RoutesAt(k.q.ids[1], db'))
  <2> DEFINE i == k.q.ids[1]
  <2>1. i \in 1 .. nextId - 1 /\ (i \in IdsOf(db) => k.seen \subseteq NamesOf(RoutesAt(i, db)))
    BY <1>6 DEF Cloning
  <2> HIDE DEF i
  <2>2. ASSUME i \in IdsOf(db') PROVE k.seen \subseteq NamesOf(RoutesAt(i, db'))
    <3>1. k.seen \subseteq NamesOf(RoutesAt(i, db))
      BY <1>3, <2>1, <2>2
    <3> QED BY <1>4, <2>2, <3>1 DEF NamesOf
  <2> QED BY <1>2, <2>1, <2>2 DEF i
<1>7. ASSUME k.pc \in {4, 5} PROVE \E e : k.made = {e} /\ Copies(k, e, db') = {}
  <2>1. PICK e : k.made = {e} /\ Copies(k, e, db) = {}
    BY <1>7 DEF Cloning
  <2> QED BY <1>5, <2>1
<1>8. ASSUME k.pc > 5, NEW e \in k.made \cap IdsOf(Environments(db')) PROVE Whole(k, e, db', M)
  <2>1. e \in IdsOf(db') /\ e \in 1 .. nextId - 1
    BY <1>8 DEF Environments, IdsOf
  <2>2. e \in IdsOf(Environments(db))
    <3>1. PICK s \in db' : s.id = e /\ s.table = "environments"
      BY <1>8 DEF Environments, IdsOf
    <3>2. PICK r \in db : Alike(s, r)
      BY <1>2, <2>1, <3>1, Older
    <3> QED BY <3>1, <3>2 DEF Alike, Environments, IdsOf
  <2>3. Whole(k, e, db, N)
    BY <1>8, <2>2 DEF Cloning
  <2>4. CASE Copies(k, e, db) = {} /\ (Bare(k.q) \/ k.got = {})
    BY <1>5, <2>4 DEF Whole
  <2>5. CASE /\ ~Bare(k.q) /\ k.seen \subseteq NamesOf(Copies(k, e, db))
             /\ \A r \in k.got : \E x \in Copies(k, e, db) :
                  x.name = r.name /\ (k.q.val = "configs" => x.val = r.val \/ x.id \in N)
    <3>1. ASSUME NEW r \in Copies(k, e, db)
          PROVE  \E s \in Copies(k, e, db') : s.id = r.id /\ s.name = r.name /\ (s.val = r.val \/ r.id \in M)
      BY <1>4, <2>1 DEF Copies
    <3>2. k.seen \subseteq NamesOf(Copies(k, e, db'))
      BY <2>5, <3>1 DEF NamesOf
    <3>3. ASSUME NEW r \in k.got
          PROVE  \E s \in Copies(k, e, db') :
                   s.name = r.name /\ (k.q.val = "configs" => s.val = r.val \/ s.id \in M)
      <4>1. PICK x \in Copies(k, e, db) : x.name = r.name /\ (k.q.val = "configs" => x.val = r.val \/ x.id \in N)
        BY <2>5
      <4>2. PICK s \in Copies(k, e, db') : s.id = x.id /\ s.name = x.name /\ (s.val = x.val \/ x.id \in M)
        BY <3>1, <4>1
      <4> QED BY <4>1, <4>2
    <3> QED BY <2>5, <3>2, <3>3 DEF Whole
  <2> QED BY <2>3, <2>4, <2>5 DEF Whole
<1> QED BY <1>6, <1>7, <1>8

\* A clone that begins.
LEMMA CloningBegins ==
  ASSUME CPInv, NEW c \in Calls, NEW q, Guard(c, q), NEW N
  PROVE  Cloning(call'[c], db', nextId', N)
<1> DEFINE k == call'[c]
<1>1. k.q = q /\ k.pc = 1 /\ k.made = {} /\ k.seen = RoutesAsked(q) /\ k.answer # "ok" /\ UNCHANGED <<db, nextId>>
  BY GuardFields
<1> HIDE DEF k
<1> SUFFICES ASSUME q.route = "clone", k.seen # {}
             PROVE  /\ q.ids[1] \in 1 .. nextId - 1 /\ k.seen \subseteq NamesOf(RoutesAt(q.ids[1], db))
  BY <1>1 DEF Cloning, k
<1>2. k.seen = NamesOf(RoutesAt(q.ids[1], db))
  BY <1>1 DEF RoutesAsked, NamesOf, RoutesAt
<1>3. PICK r \in db : r.table = "routes" /\ r.home = q.ids[1]
  BY <1>2 DEF NamesOf, RoutesAt
<1>4. RowOK(r, db, nextId - 1)
  BY SoundParts DEF CPInv
<1>5. r.home \in r.refs
  BY <1>3, <1>4 DEF RowOK, InPlace
<1>6. r.home \in Ids
  BY <1>5, IdsBelow
<1>7. q.ids[1] \in Nat /\ q.ids[1] > 0 /\ q.ids[1] < nextId /\ nextId \in Nat
  BY <1>3, <1>6, IdsBelow
<1> QED BY <1>2, <1>7

\* A clone is answered with success by its end alone.
LEMMA OkLate ==
  ASSUME CPInv, NEW c \in Calls, Acts(c), call[c].q.route = "clone", call'[c].answer = "ok"
  PROVE  call[c].pc > 5
<1>1. CallsOK(call) /\ CallOK(call[c]) /\ call[c].pc > 0 /\ call[c].pc \in Nat
  BY Acting DEF CPInv, CallsOK, CallOK
<1>2. call[c].answer = "none"
  BY DEF Acts, Skip, Select, InsertRow, CopyRows, UpdateRows, DeleteRows, Asking, Needing, Fail, Finish, AtStep, Running
<1>3. ~Advances(c)
  BY <1>2 DEF Advances
<1>4. ASSUME NEW a, Answer(c, a) PROVE a = "ok"
  <2>1. call'[c] = [call[c] EXCEPT !.answer = a]
    BY <1>1, <1>4, Simple
  <2> QED BY <1>1, <2>1, CallFields
<1>5. ~Proceed(c)
  <2> SUFFICES ASSUME Proceed(c) PROVE FALSE
    OBVIOUS
  <2>1. call'[c] = [call[c] EXCEPT !.pc = @ + 1]
    BY <1>1, Simple
  <2> QED BY <1>1, <1>2, <2>1, CallFields
<1> SUFFICES ASSUME call[c].pc <= 5 PROVE FALSE
  BY <1>1
<1>6. /\ Plan(c)[1].cmd = "one" /\ Plan(c)[2].cmd = "unused" /\ Plan(c)[3].cmd = "insert"
      /\ Plan(c)[4].cmd = "list" /\ Plan(c)[5].cmd = "copy" /\ Plan(c)[1].none = "not_found"
  <2>1. One("environments", {"id", "home"}).none = "not_found"
    BY DEF One, Read
  <2> QED BY <1>1, <2>1, CloneSteps, CloneCommands
<1>7. Len(Plan(c)) = 5 /\ call[c].pc \in 1 .. 5
  BY <1>1, CloneSteps
<1>8. /\ Step(c).cmd \in {"one", "unused", "insert", "list", "copy"}
      /\ Step(c).cmd = "one" => Step(c).none = "not_found"
  BY <1>6, <1>7 DEF Step
<1>9. CASE Skip(c) \/ UpdateRows(c) \/ DeleteRows(c) \/ Asking(c) \/ Needing(c)
  BY <1>5, <1>8, <1>9 DEF Skip, UpdateRows, DeleteRows, Asking, Needing, AtStep
<1>10. CASE InsertRow(c) \/ CopyRows(c)
  <2>1. CASE InsertRow(c)
    <3>1. Answers(c)
      BY <1>3, <2>1, Acting
    <3>2. ~Answer(c, "error")
      BY <1>4
    <3>3. Insertable(call[c].q, Step(c))
      BY <1>5, <2>1, <3>2 DEF InsertRow
    <3>4. nextId' = nextId + IF Step(c).table = "organizations" THEN 2 ELSE 1
      BY <2>1, <3>3 DEF InsertRow
    <3>5. nextId \in Nat /\ nextId' = nextId
      BY <3>1 DEF Answers, CPInv
    <3> QED BY <3>4, <3>5
  <2>2. CASE CopyRows(c)
    <3>1. PICK copies, e, o : CopiesRows(c, copies, e, o)
      BY <1>4, <1>5, <2>2, CopyMeans
    <3> DEFINE made == call[c].made \cup {k.id : k \in copies}
               k == [call[c] EXCEPT !.pc = @ + 1, !.made = made]
    <3>2. call' = [call EXCEPT ![c] = k]
      BY <3>1 DEF CopiesRows
    <3>3. k.answer = call[c].answer
      <4> HIDE DEF made
      <4> QED BY <1>1, CallFields
    <3> HIDE DEF k
    <3> QED BY <1>1, <1>2, <3>2, <3>3, Simple
  <2> QED BY <1>10, <2>1, <2>2
<1>11. CASE Select(c)
  <2>1. Answers(c)
    BY <1>3, <1>11, Acting
  <2>2. \E a : Answer(c, a) /\ ((a = Step(c).none /\ Step(c).cmd \in {"one", "optional"}) \/ a = "bad_request")
    <3> DEFINE got == Found(Step(c), call[c].q, "select")
               k == [call[c] EXCEPT !.pc = @ + 1, !.got = got]
    <3>1. \/ Answer(c, Step(c).none) /\ Step(c).cmd \in {"one", "optional"}
          \/ Answer(c, "bad_request")
          \/ call' = [call EXCEPT ![c] = k]
      BY <1>11 DEF Select, AtStep
    <3>2. k.pc = call[c].pc + 1
      BY <1>1, CallFields
    <3> HIDE DEF k
    <3>3. call' # [call EXCEPT ![c] = k]
      <4> SUFFICES ASSUME call' = [call EXCEPT ![c] = k] PROVE FALSE
        OBVIOUS
      <4>1. call'[c] = k
        BY <1>1, Simple
      <4> QED BY <1>1, <2>1, <3>2, <4>1 DEF Answers
    <3> QED BY <3>1, <3>3
  <2> QED BY <1>4, <1>8, <2>2
<1>12. CASE Fail(c)
  <2>1. \E a : Answer(c, a) /\ ((a = Step(c).none /\ Step(c).cmd \in {"one", "optional", "update"}) \/ a = "error")
    BY <1>5, <1>12 DEF Fail
  <2> QED BY <1>4, <1>8, <2>1
<1>13. CASE Finish(c)
  BY <1>7, <1>13 DEF Finish
<1> QED BY <1>9, <1>10, <1>11, <1>12, <1>13 DEF Acts

\* A clone that reads its routes reads all of them, or may read none.
LEMMA ReadsAll ==
  ASSUME CPInv, NEW c \in Calls, call[c].pc = 4, call[c].q.route = "clone",
         NEW N, Cloning(call[c], db, nextId, N),
         NEW got, got = Found(Step(c), call[c].q, "select"), got # {}
  PROVE  call[c].seen \subseteq NamesOf(got)
<1> DEFINE q == call[c].q  i == call[c].q.ids[1]
<1>1. Step(c) = List("routes", {"of"})
  BY CloneSteps DEF Step
<1>2. List("routes", {"of"}) = [cmd |-> "list", table |-> "routes", by |-> {"of"}, n |-> 1, none |-> "ok", fatal |-> TRUE]
  BY DEF List, Read
<1>3. got = {r \in db : r.table = "routes" /\ r.home = i /\ May(q.user, "select", r.table, r.org)}
  BY <1>1, <1>2 DEF Found, Matches
<1>4. PICK r \in db : r.table = "routes" /\ r.home = i /\ May(q.user, "select", "routes", r.org)
  BY <1>3
<1>5. RowOK(r, db, nextId - 1)
  BY SoundParts DEF CPInv
<1>6. i \in r.refs
  BY <1>4, <1>5 DEF RowOK, InPlace
<1>7. PICK p \in db : p.id = i
  BY <1>6, IdsBelow DEF Ids
<1>8. \A x \in RoutesAt(i, db) : x \in got
  <2> SUFFICES ASSUME NEW x \in RoutesAt(i, db) PROVE x \in got
    OBVIOUS
  <2>1. x \in db /\ x.table = "routes" /\ x.home = i
    BY DEF RoutesAt
  <2>2. x.org = p.org /\ r.org = p.org
    BY <1>4, <1>7, <2>1, HomeInPlace
  <2> QED BY <1>3, <1>4, <2>1, <2>2
<1>9. call[c].seen # {} => call[c].seen \subseteq NamesOf(RoutesAt(i, db))
  <2>1. i \in IdsOf(db)
    BY <1>7 DEF IdsOf
  <2> QED BY <2>1 DEF Cloning
<1> HIDE DEF i
<1> QED BY <1>8, <1>9 DEF NamesOf

\* What a clone has made is whole once its routes are copied.
LEMMA CopiesAll ==
  ASSUME CPInv, NEW c \in Calls, CopyRows(c), Advances(c), NEW N, Cloning(call[c], db, nextId, N), NEW M
  PROVE  /\ call'[c].pc = 6 /\ call'[c].q = call[c].q
         /\ \A e \in call'[c].made \cap IdsOf(Environments(db')) : Whole(call'[c], e, db', M)
<1>1. call[c].pc = 5 /\ call[c].q.route = "clone" /\ call[c].pc > 0 /\ ~Bare(call[c].q)
  BY CopyIsFifth DEF CopyRows
<1>2. CallsOK(call) /\ CallOK(call[c])
  BY DEF CPInv, CallsOK
<1>3. call'[c].q = call[c].q /\ call'[c].seen = call[c].seen /\ call'[c].pc = 6
  BY <1>1, Acting DEF Acts, Advances
<1>4. PICK e : call[c].made = {e} /\ Copies(call[c], e, db) = {}
  BY <1>1 DEF Cloning
<1>5. CASE Answer(c, "error") /\ UNCHANGED <<db, nextId>>
  <2>1. call'[c] = [call[c] EXCEPT !.answer = "error"]
    BY <1>1, <1>2, <1>5, Simple
  <2>2. LET m == [call[c] EXCEPT !.answer = "error"] IN m.pc = call[c].pc
    BY <1>2, CallFields
  <2>3. call'[c].pc = 5
    BY <1>1, <2>1, <2>2
  <2> QED BY <1>3, <2>3
<1>6. CASE Proceed(c) /\ UNCHANGED <<db, nextId>> /\ call[c].got = {}
  <2>1. call'[c] = [call[c] EXCEPT !.pc = @ + 1]
    BY <1>1, <1>2, <1>6, Simple
  <2>2. LET m == [call[c] EXCEPT !.pc = @ + 1] IN m.made = call[c].made /\ m.got = call[c].got
    BY <1>2, CallFields
  <2>3. call'[c].made = {e} /\ call'[c].got = {}
    BY <1>4, <1>6, <2>1, <2>2
  <2>4. db' = db
    BY <1>6
  <2>5. Copies(call'[c], e, db') = {}
    BY <1>4, <2>3, <2>4 DEF Copies
  <2>6. Whole(call'[c], e, db', M)
    BY <2>3, <2>5 DEF Whole
  <2> QED BY <1>3, <2>3, <2>6
<1>7. ASSUME NEW copies, NEW i, NEW o, CopiesRows(c, copies, i, o)
      PROVE  \A x \in call'[c].made \cap IdsOf(Environments(db')) : Whole(call'[c], x, db', M)
  <2> DEFINE got == call[c].got  v == call[c].q.val  made == {e} \cup {k.id : k \in copies}
  <2>1. i = e /\ db' = db \cup copies
    BY <1>4, <1>7 DEF CopiesRows
  <2>2. /\ \A k \in copies : \E r \in got : CopyOf(k, r, e, o, v)
        /\ \A r \in got : \E k \in copies : CopyOf(k, r, e, o, v)
    BY <1>7, <2>1 DEF CopiesRows
  <2>3. call'[c].got = got /\ call'[c].made = made
    <3> DEFINE all == call[c].made \cup {k.id : k \in copies}
               m == [call[c] EXCEPT !.pc = @ + 1, !.made = all]
    <3>1. call' = [call EXCEPT ![c] = m]
      BY <1>7 DEF CopiesRows
    <3>2. m.got = got /\ m.made = all
      <4> HIDE DEF all
      <4> QED BY <1>2, CallFields
    <3> HIDE DEF m
    <3>3. call'[c] = m
      BY <1>1, <1>2, <3>1, Simple
    <3> QED BY <1>4, <3>2, <3>3
  <2>4. \A k \in copies : k.table = "routes" /\ k.home = e /\ k.id >= nextId
    BY <2>2 DEF CopyOf
  <2>5. \A r \in db : ~(r.id >= nextId)
    BY IdsBelow
  <2>6. ASSUME NEW x \in made \cap IdsOf(Environments(db')) PROVE x = e
    <3>1. PICK s \in db' : s.id = x /\ s.table = "environments"
      BY <2>6 DEF IdsOf, Environments
    <3>2. s \in db
      BY <2>1, <2>4, <3>1
    <3> QED BY <2>4, <2>5, <2>6, <3>1, <3>2
  <2>7. copies \subseteq Copies(call'[c], e, db')
    BY <2>1, <2>3, <2>4 DEF Copies, RoutesAt
  <2>8. \A r \in got : \E k \in Copies(call'[c], e, db') : k.name = r.name /\ (v = "configs" => k.val = r.val)
    BY <2>2, <2>7 DEF CopyOf
  <2>9. CASE got = {}
    <3>1. copies = {}
      BY <2>2, <2>9
    <3>2. db' = db /\ made = call[c].made
      BY <1>4, <2>1, <3>1
    <3>3. Copies(call'[c], e, db') = {}
      BY <1>4, <2>3, <3>2 DEF Copies
    <3> QED BY <2>3, <2>6, <2>9, <3>3 DEF Whole
  <2>10. CASE got # {}
    <3>1. call[c].seen \subseteq NamesOf(got)
      BY <1>1, <2>10 DEF Cloning
    <3>2. call[c].seen \subseteq NamesOf(Copies(call'[c], e, db'))
      BY <2>8, <3>1 DEF NamesOf
    <3> HIDE DEF made
    <3> QED BY <1>1, <1>3, <2>3, <2>6, <2>8, <3>2 DEF Whole
  <2> QED BY <2>9, <2>10
<1> QED BY <1>3, <1>5, <1>6, <1>7, CopyMeans

LEMMA CloningActs ==
  ASSUME CPInv, ApartInv, CloneInv, nextId' \in Nat, NEW c \in Calls, Acts(c), NEW M, Named \subseteq M
  PROVE  Cloning(call'[c], db', nextId', M)
<1> DEFINE k == call[c]  m == call'[c]
<1>1. Cloning(k, db, nextId, Named) /\ k.made \subseteq 1 .. nextId - 1
  BY DEF CloneInv, OwnInv
<1>2. m.q = k.q /\ m.seen = k.seen /\ k.pc \in Nat /\ k.pc > 0 /\ (Answers(c) \/ Advances(c))
  BY Acting
<1>3. m.pc > 0
  BY <1>2 DEF Answers, Advances
<1> SUFFICES ASSUME k.q.route = "clone" PROVE Cloning(m, db', nextId', M)
  BY <1>2, <1>3 DEF Cloning
<1>4. m.answer = "ok" => k.pc > 5 /\ m.pc > 5
  BY <1>2, OkLate DEF Answers, Advances
\* What its own step leaves of where the clone was.
<1>5. Cloning(k, db', nextId', M)
  <2>1. RoutesStay /\ Evolves
    BY ActRoutes, ActsEvolve
  <2> HIDE DEF k
  <2> QED BY <1>1, <2>1, CloningStays
<1>6. m.made = k.made => \A e, rows : Copies(m, e, rows) = Copies(k, e, rows)
  BY DEF Copies
<1>7. CASE Answers(c)
  <2>1. m.pc = k.pc /\ m.got = k.got /\ m.made = k.made
    BY <1>7 DEF Answers
  <2>2. \A e, rows : Whole(k, e, rows, M) => Whole(m, e, rows, M)
    BY <1>2, <1>6, <2>1 DEF Whole
  <2> HIDE DEF k, m
  <2> QED BY <1>2, <1>4, <1>5, <1>6, <2>1, <2>2 DEF Cloning
<1>8. CASE ~Answers(c) /\ k.pc \in {1, 2}
  <2>1. m.pc = k.pc + 1 /\ m.made = k.made
    BY <1>8, CloneActs, ReadsRows DEF Advances
  <2>2. m.pc \in {2, 3}
    BY <1>8, <2>1
  <2> HIDE DEF k, m
  <2> QED BY <1>2, <1>4, <1>5, <1>8, <2>1, <2>2 DEF Cloning
<1>9. CASE ~Answers(c) /\ k.pc = 3
  <2>1. InsertRow(c) /\ m.pc = 4
    BY <1>9, CloneActs DEF Advances
  <2>2. Step(c).fatal /\ Step(c).table = "environments"
    BY <1>9, CloneSteps, CloneCommands DEF Step
  <2>3. k.made = {}
    BY <1>1, <1>9 DEF Cloning
  <2>4. m.made = {nextId} /\ \E x : x.table = "environments" /\ db' = db \cup {x}
    BY <1>9, <2>1, <2>2, <2>3, InsertMeans
  <2>5. Copies(m, nextId, db') = {}
    <3> SUFFICES ASSUME NEW r \in db', r.table = "routes", r.home = nextId PROVE FALSE
      BY DEF Copies, RoutesAt
    <3>1. r \in db
      BY <2>4
    <3>2. RowOK(r, db, nextId - 1)
      BY <3>1, SoundParts DEF CPInv
    <3>3. r.home \in Ids
      BY <3>1, <3>2, IdsBelow DEF RowOK, InPlace
    <3> QED BY <3>3, IdsBelow
  <2>6. m.made = {nextId} /\ k.pc = 3 /\ m.pc = 4
    BY <1>9, <2>1, <2>4
  <2> HIDE DEF k, m
  <2>7. \E e : m.made = {e} /\ Copies(m, e, db') = {}
    BY <2>5, <2>6
  <2> QED BY <1>2, <1>4, <1>5, <2>6, <2>7 DEF Cloning
<1>10. CASE ~Answers(c) /\ k.pc = 4 /\ ~Bare(k.q)
  <2>1. Select(c)
    BY <1>10, CloneActs
  <2>2. m.got = Found(Step(c), k.q, "select") /\ m.made = k.made /\ m.pc = 5
    BY <1>10, <2>1, ReadsRows
  <2>3. m.got = {} \/ k.seen \subseteq NamesOf(m.got)
    BY <1>1, <1>10, <2>2, ReadsAll
  <2>4. \E e : k.made = {e} /\ Copies(k, e, db') = {}
    BY <1>5, <1>10 DEF Cloning
  <2> HIDE DEF k, m
  <2> QED BY <1>2, <1>4, <1>6, <2>2, <2>3, <2>4 DEF Cloning
<1>11. CASE ~Answers(c) /\ k.pc = 5 /\ ~Bare(k.q)
  <2>1. CopyRows(c) /\ Advances(c)
    BY <1>11, CloneActs
  <2>2. m.pc = 6 /\ \A e \in m.made \cap IdsOf(Environments(db')) : Whole(m, e, db', M)
    BY <1>1, <2>1, CopiesAll
  <2> HIDE DEF k, m
  <2> QED BY <1>4, <2>2 DEF Cloning
<1>12. CASE ~Answers(c) /\ k.pc \in {4, 5} /\ Bare(k.q)
  <2>1. m.made = k.made /\ m.pc = k.pc + 1
    BY <1>12, CloneActs DEF Advances
  <2>2. PICK e : k.made = {e} /\ Copies(k, e, db') = {}
    BY <1>5, <1>12 DEF Cloning
  <2>3. \A i \in m.made : Whole(m, i, db', M)
    BY <1>2, <1>6, <1>12, <2>1, <2>2 DEF Whole
  <2>4. m.pc \in {5, 6}
    BY <1>12, <2>1
  <2> HIDE DEF k, m
  <2> QED BY <1>2, <1>4, <1>6, <1>12, <2>1, <2>2, <2>3, <2>4 DEF Cloning
<1>13. Answers(c) \/ k.pc \in {1, 2, 3} \/ (k.pc \in {4, 5} /\ (Bare(k.q) \/ ~Bare(k.q)))
  BY CloneActs
<1> QED BY <1>7, <1>8, <1>9, <1>10, <1>11, <1>12, <1>13

LEMMA CloneInit ==
  ASSUME CPInit
  PROVE  CloneInv
<1>1. \A c \in Calls : call[c].made = {} /\ call[c].pc = 0 /\ call[c].answer = "none"
  BY DEF CPInit, NoCall
<1> QED BY <1>1 DEF CloneInv, OwnInv, Cloning

LEMMA CloneStep ==
  ASSUME CPInv, ApartInv, CloneInv, [CPNext]_cpvars
  PROVE  CloneInv'
<1>1. OwnInv'
  BY OwnStep DEF CloneInv
<1>2. Evolves /\ nextId' \in Nat /\ Named \subseteq Named'
  BY StepEvolves, CPNext_Inv, NamedStay DEF CPInv
<1>3. ASSUME NEW c \in Calls, call'[c] = call[c], RoutesStay
      PROVE  Cloning(call'[c], db', nextId', Named')
  <2> DEFINE k == call[c]
  <2>1. k.made \subseteq 1 .. nextId - 1 /\ Cloning(k, db, nextId, Named)
    BY DEF CloneInv, OwnInv
  <2>2. call'[c] = k
    BY <1>3
  <2> HIDE DEF k
  <2>3. Cloning(k, db', nextId', Named')
    BY <1>2, <1>3, <2>1, CloningStays
  <2> QED BY <2>2, <2>3
<1>4. ASSUME NEW c \in Calls PROVE Cloning(call'[c], db', nextId', Named')
  <2>1. CASE UNCHANGED cpvars
    BY <1>3, <2>1, StillStay DEF cpvars
  <2>2. CASE EditRole
    BY <1>3, <2>2, EditRoutes DEF EditRole
  <2>3. CASE Begins(c)
    BY <2>3, CloningBegins DEF Begins
  <2>4. CASE Acts(c)
    BY <1>2, <2>4, CloningActs
  <2>5. ASSUME NEW d \in Calls \ {c}, Begins(d) PROVE Cloning(call'[c], db', nextId', Named')
    <3>1. UNCHANGED db /\ call'[c] = call[c]
      BY <2>5, GuardFields DEF Begins, OthersWait
    <3> QED BY <1>3, <3>1, StillStay
  <2>6. ASSUME NEW d \in Calls \ {c}, Acts(d) PROVE Cloning(call'[c], db', nextId', Named')
    <3>1. call'[c] = call[c]
      BY <2>6, Acting DEF OthersWait
    <3> QED BY <1>3, <2>6, <3>1, ActRoutes
  <2> QED BY <2>1, <2>2, <2>3, <2>4, <2>5, <2>6, Movers
<1> QED BY <1>1, <1>4 DEF CloneInv

LEMMA ClonesAreWhole == CloneInv => CloneWhole
<1> SUFFICES ASSUME CloneInv, NEW c \in Calls, call[c].answer = "ok", call[c].q.route = "clone",
                    NEW e \in call[c].made \cap IdsOf(Environments(db))
             PROVE  Whole(call[c], e, db, Named)
  BY DEF CloneWhole, IdsOf, Environments, Copies, RoutesAt, NamesOf, Whole
<1>1. Cloning(call[c], db, nextId, Named)
  BY DEF CloneInv
<1> QED BY <1>1 DEF Cloning

(***************************************************************************)
(* CloneWhole (clone/route.ts): whatever else is under way, and whoever    *)
(* loses a role or a row meanwhile, a clone answered with success has made *)
(* a copy of every route its source had when it was asked for, with its    *)
(* limits if those were asked for and no request has named the copy since; *)
(* none where it was asked for without routes, or where its caller could   *)
(* not read them any more.  What others add to the new environment, or     *)
(* make of a copy they find there, is not the clone's.                     *)
(***************************************************************************)
THEOREM ClonesStayWhole == CPSpec => []CloneWhole
<1>1. CPInit => CPInv /\ ApartInv /\ CloneInv
  BY CPInit_Inv, ApartInit, CloneInit
<1>2. CPInv /\ ApartInv /\ CloneInv /\ [CPNext]_cpvars => CPInv' /\ ApartInv' /\ CloneInv'
  BY CPNext_Inv, ApartStep, CloneStep
<1> QED BY <1>1, <1>2, ClonesAreWhole, PTL DEF CPSpec
=============================================================================
