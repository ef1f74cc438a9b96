-------------------------- MODULE MeteringProofs --------------------------
(***************************************************************************)
(* What holds of the metering writer, which writes a row for every request *)
(* of the gateway, for every batch size and every set of records and       *)
(* callers; and what holds of the figures that the control plane computes  *)
(* from those rows, whatever they are.                                     *)
(***************************************************************************)
EXTENDS MeterWriter, Analytics, FiniteSetTheorems, TLAPS

\* Only finitely many calls have been made: both sets of BufferBound can be counted.
Finite == IsFiniteSet(buffer) /\ IsFiniteSet(Flushing)

IInv == TypeOK /\ OnePlace /\ Finite /\ BufferBound

-----------------------------------------------------------------------------
LEMMA FinitelyMany ==
  ASSUME IInv
  PROVE  /\ Cardinality(buffer) \in Nat /\ Cardinality(Flushing) \in Nat
         /\ LessThanBatch \in Nat
  BY FS_CardinalityType, WriterAssumption DEF IInv, Finite, LessThanBatch

\* The bound on the buffer survives a step that leaves buffer and callers' flushes alone.
LEMMA BoundKept ==
  ASSUME IInv, buffer' = buffer, Flushing' = Flushing
  PROVE  Finite' /\ BufferBound'
  BY DEF IInv, Finite, BufferBound, LessThanBatch

LEMMA InitIInv == Init => IInv
<1> SUFFICES ASSUME Init PROVE IInv
  OBVIOUS
<1>1. TypeOK
  BY WriterAssumption DEF Init, TypeOK, Flushers
<1>2. OnePlace
  BY DEF Init, OnePlace, InFlight, Written
<1>3. buffer = {} /\ Flushing = {}
  BY DEF Init, Flushing, Flushers
<1>4. Finite /\ Cardinality(buffer) = 0 /\ Cardinality(Flushing) = 0
  BY <1>3, FS_EmptySet DEF Finite
<1>5. BufferBound
  BY <1>4, WriterAssumption DEF BufferBound, LessThanBatch
<1> QED BY <1>1, <1>2, <1>4, <1>5 DEF IInv

(***************************************************************************)
(* A Record whose append makes the buffer a batch becomes a flushing       *)
(* caller; any other leaves less than a batch behind.                      *)
(***************************************************************************)
LEMMA RecordIInv ==
  ASSUME IInv, NEW c \in Callers, NEW r \in Records, Record(c, r)
  PROVE  IInv'
<1> USE DEF IInv
<1>1. TypeOK'
  BY WriterAssumption DEF Record, TypeOK, Flushers
<1>2. OnePlace'
  BY DEF Record, OnePlace, InFlight, Written, TypeOK
<1>3. r \notin buffer
  BY DEF Record, OnePlace
<1>4. /\ IsFiniteSet(buffer') /\ Cardinality(buffer') = Cardinality(buffer) + 1
      /\ Cardinality(buffer') \in Nat
  BY <1>3, FinitelyMany, FS_AddElement DEF Record, Finite
<1>5. CASE Full(buffer')
  <2>1. Flushing' = Flushing \cup {c} /\ c \notin Flushing
    BY <1>5 DEF Record, Flushing, TypeOK, Flushers
  <2>2. IsFiniteSet(Flushing') /\ Cardinality(Flushing') = Cardinality(Flushing) + 1
    BY <2>1, FS_AddElement DEF Finite
  <2> QED BY <1>1, <1>2, <1>4, <2>2, FinitelyMany DEF Finite, BufferBound, LessThanBatch
<1>6. CASE ~Full(buffer')
  <2>1. Flushing' = Flushing
    BY <1>6 DEF Record, Flushing, TypeOK, Flushers
  <2>2. Cardinality(buffer') < BatchSize
    BY <1>4, <1>6, WriterAssumption DEF Full
  <2>3. BufferBound'
    BY <1>4, <2>1, <2>2, FinitelyMany, WriterAssumption DEF BufferBound, LessThanBatch
  <2> QED BY <1>1, <1>2, <1>4, <2>1, <2>3 DEF Finite
<1> QED BY <1>5, <1>6

\* A flush takes the whole buffer: whatever callers were flushing, nothing is left.
LEMMA TakeIInv ==
  ASSUME IInv, NEW p \in Flushers, Take(p)
  PROVE  IInv'
<1> USE DEF IInv
<1>1. TypeOK'
  <2>1. Rest(p) \in {"idle", "stopped"} /\ (Rest(p) = "stopped" => p = Loop /\ closed)
    BY DEF Rest, TypeOK
  <2>2. late[p] = FALSE
    BY DEF Take, TypeOK
  <2> QED BY <2>1, <2>2 DEF Take, TypeOK
<1>2. batch[p] = {}
  BY DEF Take, TypeOK
<1>3. OnePlace'
  <2>1. InFlight' = InFlight \cup buffer
    BY <1>2 DEF Take, InFlight, TypeOK
  <2>2. \A x, y \in Flushers : x # y => batch'[x] \cap batch'[y] = {}
    BY DEF Take, OnePlace, InFlight, TypeOK
  <2> QED BY <2>1, <2>2 DEF Take, OnePlace, Written
<1>4. Flushing' \subseteq Flushing
  BY DEF Take, Flushing, TypeOK, Flushers, Rest
<1>5. IsFiniteSet(Flushing') /\ Cardinality(Flushing') \in Nat
  BY <1>4, FS_Subset, FS_CardinalityType DEF Finite
<1>6. IsFiniteSet(buffer') /\ Cardinality(buffer') = 0
  BY FS_EmptySet DEF Take
<1>7. BufferBound'
  BY <1>5, <1>6, FinitelyMany DEF BufferBound, LessThanBatch
<1> QED BY <1>1, <1>3, <1>5, <1>6, <1>7 DEF Finite

\* An insert moves its record from one batch to what was tried.
LEMMA InsertIInv ==
  ASSUME IInv, NEW p \in Flushers, NEW r \in Records, Insert(p, r)
  PROVE  IInv'
<1> USE DEF IInv
<1>1. TypeOK'
  <2>1. Rest(p) \in {"idle", "stopped"} /\ (Rest(p) = "stopped" => p = Loop /\ closed)
    BY DEF Rest, TypeOK
  <2>2. stored' \subseteq Records /\ failed' \subseteq Records
    BY DEF Insert, TypeOK
  <2>3. /\ batch' \in [Flushers -> SUBSET Records]
        /\ late' \in [Flushers -> BOOLEAN]
        /\ pc' \in [Flushers -> {"idle", "flush", "write", "stopped"}]
    BY <2>1 DEF Insert, TypeOK
  <2>4. \A q \in Flushers : /\ batch'[q] # {} <=> pc'[q] = "write"
                            /\ late'[q] => pc'[q] = "write"
                            /\ pc'[q] = "stopped" => q = Loop /\ closed
    BY <2>1 DEF Insert, TypeOK
  <2> QED BY <2>2, <2>3, <2>4 DEF Insert, TypeOK
<1>2. OnePlace'
  <2>1. InFlight' = InFlight \ {r}
    BY DEF Insert, OnePlace, InFlight, TypeOK
  <2>2. Written' = Written \cup {r} /\ r \in InFlight
    BY DEF Insert, Written, InFlight
  <2>3. \A x, y \in Flushers : x # y => batch'[x] \cap batch'[y] = {}
    BY DEF Insert, OnePlace, TypeOK
  <2>4. buffer' = buffer /\ recorded' = recorded
    BY DEF Insert
  <2> QED BY <2>1, <2>2, <2>3, <2>4 DEF OnePlace
<1>3. buffer' = buffer /\ Flushing' = Flushing
  BY DEF Insert, Flushing, TypeOK, Flushers, Rest
<1> QED BY <1>1, <1>2, <1>3, BoundKept

\* The steps that move no record.
LEMMA OtherIInv ==
  ASSUME IInv,
         \/ \E p \in Flushers : Deadline(p)
         \/ TickerFires \/ DoneReceived \/ Close \/ End \/ UNCHANGED vars
  PROVE  IInv'
<1> USE DEF IInv
<1>1. UNCHANGED <<recorded, buffer, batch, stored, failed>>
  BY DEF Deadline, TickerFires, DoneReceived, Close, End, vars
<1>2. OnePlace'
  BY <1>1 DEF OnePlace, InFlight, Written
<1>3. TypeOK' /\ Flushing' = Flushing
  <2>1. ASSUME NEW p \in Flushers, Deadline(p) PROVE TypeOK' /\ Flushing' = Flushing
    BY <2>1 DEF Deadline, TypeOK, Flushing
  <2>2. CASE TickerFires
    BY <2>2, WriterAssumption DEF TickerFires, TypeOK, Flushing, Flushers
  <2>3. CASE DoneReceived
    BY <2>3, WriterAssumption DEF DoneReceived, TypeOK, Flushing, Flushers
  <2>4. CASE Close
    BY <2>4 DEF Close, TypeOK, Flushing
  <2>5. CASE End \/ UNCHANGED vars
    BY <2>5 DEF End, vars, TypeOK, Flushing
  <2> QED BY <2>1, <2>2, <2>3, <2>4, <2>5
<1> QED BY <1>1, <1>2, <1>3, BoundKept

LEMMA NextIInv == IInv /\ [Next]_vars => IInv'
  BY RecordIInv, TakeIInv, InsertIInv, OtherIInv DEF Next, Flush

-----------------------------------------------------------------------------
THEOREM Invariance == Spec => []IInv
  BY InitIInv, NextIInv, PTL DEF Spec

(***************************************************************************)
(* Types, and each goroutine holds a batch exactly while it writes one.    *)
(***************************************************************************)
THEOREM TypeCorrect == Spec => []TypeOK
<1>1. IInv => TypeOK
  BY DEF IInv
<1> QED BY <1>1, Invariance, PTL

(***************************************************************************)
(* No record is lost or handled twice while the process runs (writer.go,   *)
(* Record and Flush), whatever flushes run side by side.                   *)
(***************************************************************************)
THEOREM RecordsInOnePlace == Spec => []OnePlace
<1>1. IInv => OnePlace
  BY DEF IInv
<1> QED BY <1>1, Invariance, PTL

(***************************************************************************)
(* The buffer outgrows a batch by at most one record per flushing caller.  *)
(***************************************************************************)
THEOREM BoundedBuffer == Spec => []BufferBound
<1>1. IInv => BufferBound
  BY DEF IInv
<1> QED BY <1>1, Invariance, PTL

-----------------------------------------------------------------------------
(* The figures.  First what a sum over a set is: SumFunctionOnSet is a     *)
(* recursion along the elements that CHOOSE takes, and a sum must not      *)
(* depend on them.                                                         *)

\* What holds of a set when it holds of all smaller ones holds of all.
LEMMA BySmaller ==
  ASSUME NEW S, NEW T, IsFiniteSet(S),
         \A A \in SUBSET S : (\A B \in SUBSET A : B # A => B \in T) => A \in T
  PROVE  SUBSET S \subseteq T
<1> SUFFICES ASSUME NEW B \in SUBSET S, B \notin T PROVE FALSE
  OBVIOUS
<1> DEFINE Without == {A \in SUBSET S : A \notin T}
<1>1. IsWellFoundedOn(StrictSubsetOrdering(S), SUBSET S)
  <2>1. IsWellFoundedOn(StrictSubsetOrdering(S), FiniteSubsetsOf(S))
    BY FS_StrictSubsetOrderingWellFounded
  <2>2. FiniteSubsetsOf(S) = SUBSET S
    BY FS_FiniteSubsetsOfFinite
  <2> QED BY <2>1, <2>2
<1>2. Without \subseteq SUBSET S /\ B \in Without
  OBVIOUS
<1>3. PICK A \in Without : \A C \in Without : ~(<<C, A>> \in StrictSubsetOrdering(S))
  <2> HIDE DEF Without
  <2> QED BY <1>1, <1>2, WFMin
<1>4. PICK C \in SUBSET A : C # A /\ C \notin T
  BY <1>3
<1> QED BY <1>3, <1>4 DEF StrictSubsetOrdering

\* What holds of the empty set, and of a set with an element more, holds of all.
LEMMA Grow ==
  ASSUME NEW S, NEW T, IsFiniteSet(S), {} \in T,
         \A A \in SUBSET S : \A x \in S \ A : A \in T => A \cup {x} \in T
  PROVE  SUBSET S \subseteq T
<1>1. ASSUME NEW A \in SUBSET S, \A B \in SUBSET A : B # A => B \in T
      PROVE  A \in T
  <2>1. CASE A # {}
    <3>1. PICK x \in A : TRUE
      BY <2>1
    <3>2. A \ {x} \in SUBSET S /\ x \in S \ (A \ {x}) /\ (A \ {x}) \cup {x} = A /\ A \ {x} \in T
      BY <1>1
    <3> QED BY <3>2
  <2> QED BY <2>1
<1> QED BY <1>1, BySmaller

\* h adds up f along the subsets of S, from one to the next without its first.
First(A) == CHOOSE x \in A : TRUE
Adds(h, f, S) ==
  /\ h[{}] = 0
  /\ \A A \in SUBSET S : A # {} => h[A] = f[First(A)] + h[A \ {First(A)}]

\* CHOOSE takes an element when there is one.
LEMMA FirstIn == \A A : A # {} => First(A) \in A
BY DEF First

\* There is one such sum of the rows of a set.
LEMMA SameSum ==
  ASSUME NEW S, NEW f, NEW g, NEW h, IsFiniteSet(S), Adds(g, f, S), Adds(h, f, S)
  PROVE  \A A \in SUBSET S : g[A] = h[A]
<1> DEFINE T == {A \in SUBSET S : g[A] = h[A]}
<1>1. ASSUME NEW A \in SUBSET S, \A B \in SUBSET A : B # A => B \in T
      PROVE  A \in T
  <2>1. CASE A = {}
    BY <2>1 DEF Adds
  <2>2. CASE A # {}
    <3>1. First(A) \in A
      BY <2>2, FirstIn
    <3>2. A \ {First(A)} \in T
      BY <1>1, <3>1
    <3>3. g[A] = f[First(A)] + g[A \ {First(A)}] /\ h[A] = f[First(A)] + h[A \ {First(A)}]
      BY <2>2 DEF Adds
    <3> QED BY <3>2, <3>3
  <2> QED BY <2>1, <2>2
<1>2. SUBSET S \subseteq T
  <2> HIDE DEF T
  <2> QED BY <1>1, BySmaller
<1> QED BY <1>2

LEMMA Adding ==
  ASSUME NEW S, NEW f, IsFiniteSet(S), \A i \in S : f[i] \in Int
  PROVE  \E h \in [SUBSET S -> Int] : Adds(h, f, S)
<1> DEFINE Sum(A) == CHOOSE h : h \in [SUBSET A -> Int] /\ Adds(h, f, A)
           T == {A \in SUBSET S : \E h : h \in [SUBSET A -> Int] /\ Adds(h, f, A)}
<1>1. ASSUME NEW A \in SUBSET S, \A B \in SUBSET A : B # A => B \in T
      PROVE  A \in T
  <2> DEFINE Before(B) == IF B = {} THEN 0 ELSE f[First(B)] + Sum(B \ {First(B)})[B \ {First(B)}]
             g == [B \in SUBSET A |-> Before(B)]
  <2>1. ASSUME NEW B \in SUBSET A, B # {}
        PROVE  /\ First(B) \in B /\ B \ {First(B)} \in SUBSET A
               /\ Sum(B \ {First(B)}) \in [SUBSET (B \ {First(B)}) -> Int]
               /\ Adds(Sum(B \ {First(B)}), f, B \ {First(B)})
    <3>1. First(B) \in B
      BY <2>1, FirstIn
    <3>2. B \ {First(B)} \in SUBSET A /\ B \ {First(B)} # A
      BY <3>1
    <3>3. \E h : h \in [SUBSET (B \ {First(B)}) -> Int] /\ Adds(h, f, B \ {First(B)})
      BY <1>1, <3>2
    <3> QED BY <3>1, <3>2, <3>3
  <2>2. ASSUME NEW B \in SUBSET A PROVE Before(B) \in Int
    <3>1. CASE B = {}
      BY <3>1
    <3>2. CASE B # {}
      <4>1. Sum(B \ {First(B)})[B \ {First(B)}] \in Int
        BY <2>1, <3>2
      <4>2. f[First(B)] \in Int
        BY <2>1, <3>2
      <4> HIDE DEF Sum
      <4> QED BY <3>2, <4>1, <4>2
    <3> QED BY <3>1, <3>2
  <2>3. g \in [SUBSET A -> Int] /\ g[{}] = 0
    <3>1. Before({}) = 0
      OBVIOUS
    <3> HIDE DEF Before
    <3> QED BY <2>2, <3>1
  <2>4. ASSUME NEW B \in SUBSET A, B # {} PROVE g[B] = f[First(B)] + g[B \ {First(B)}]
    <3> DEFINE C == B \ {First(B)}
    <3>1. C \in SUBSET A /\ C \in SUBSET C /\ Adds(Sum(C), f, C)
      BY <2>1, <2>4
    <3>2. g[C] = Before(C) /\ g[B] = f[First(B)] + Sum(C)[C]
      <4> HIDE DEF Sum
      <4> QED BY <2>1, <2>4
    <3>3. Before(C) = Sum(C)[C]
      <4> HIDE DEF C
      <4>1. CASE C = {}
        <5> HIDE DEF Sum
        <5> QED BY <3>1, <4>1 DEF Adds
      <4>2. CASE C # {}
        <5> DEFINE D == C \ {First(C)}
        <5>1. First(C) \in C /\ D \in SUBSET C /\ D \in SUBSET D /\ D \in SUBSET A
              /\ Adds(Sum(D), f, D) /\ IsFiniteSet(D)
          BY <2>1, <3>1, <4>2, FS_Subset
        <5>2. Adds(Sum(C), f, D)
          <6> HIDE DEF Sum
          <6> QED BY <3>1, <5>1 DEF Adds
        <5>3. Sum(C)[C] = f[First(C)] + Sum(C)[D]
          <6> HIDE DEF Sum
          <6> QED BY <3>1, <4>2 DEF Adds
        <5>4. Before(C) = f[First(C)] + Sum(D)[D]
          <6> HIDE DEF Sum
          <6> QED BY <4>2
        <5> HIDE DEF Sum, D, Before
        <5>5. Sum(C)[D] = Sum(D)[D]
          BY <5>1, <5>2, SameSum
        <5> QED BY <5>3, <5>4, <5>5
      <4> QED BY <4>1, <4>2
    <3> HIDE DEF Sum, Before, g, C
    <3> QED BY <3>2, <3>3 DEF C
  <2> HIDE DEF g
  <2>5. Adds(g, f, A)
    BY <2>3, <2>4 DEF Adds
  <2> QED BY <2>3, <2>5
<1>2. SUBSET S \subseteq T
  <2> HIDE DEF T
  <2> QED BY <1>1, BySmaller
<1>3. S \in T
  BY <1>2
<1> QED BY <1>3

\* Total is such a sum.
LEMMA TotalAdds ==
  ASSUME NEW S, NEW f, IsFiniteSet(S), \A i \in S : f[i] \in Int
  PROVE  \E h : Adds(h, f, S) /\ Total(f, S) = h[S]
<1> DEFINE Fn(h) == [s \in SUBSET S |->
             IF s = {} THEN 0 ELSE f[CHOOSE x \in s : TRUE] + h[s \ {CHOOSE x \in s : TRUE}]]
           iter == CHOOSE h : h = Fn(h)
<1>1. Total(f, S) = iter[S]
  BY DEF Total, SumFunctionOnSet, FoldFunctionOnSet, MapThenFoldSet
<1>2. PICK g \in [SUBSET S -> Int] : Adds(g, f, S)
  BY Adding
<1>3. g = Fn(g)
  <2>1. ASSUME NEW A \in SUBSET S
        PROVE  g[A] = IF A = {} THEN 0
                      ELSE f[CHOOSE x \in A : TRUE] + g[A \ {CHOOSE x \in A : TRUE}]
    BY <1>2 DEF Adds, First
  <2> QED BY <2>1
<1>4. iter = Fn(iter)
  <2> HIDE DEF Fn
  <2> QED BY <1>3
<1> HIDE DEF iter
<1>5. Adds(iter, f, S)
  <2>1. \A A \in SUBSET S : iter[A] = IF A = {} THEN 0 ELSE f[First(A)] + iter[A \ {First(A)}]
    BY <1>4 DEF First
  <2> QED BY <2>1 DEF Adds
<1> QED BY <1>1, <1>5

\* A function of integers, and one that adds up whichever row is taken first.
Ints(f, S) == \A i \in S : f[i] \in Int
Regular(h, f, S) == \A A \in SUBSET S : \A x \in A : h[A] = f[x] + h[A \ {x}]

\* The order of its elements is not among what a sum depends on.
LEMMA AnyFirst ==
  ASSUME NEW S, NEW f, NEW h, IsFiniteSet(S), Ints(f, S), Ints(h, SUBSET S), Adds(h, f, S)
  PROVE  Regular(h, f, S)
<1> DEFINE T == {A \in SUBSET S : \A x \in A : h[A] = f[x] + h[A \ {x}]}
<1>1. ASSUME NEW A \in SUBSET S, \A B \in SUBSET A : B # A => B \in T
      PROVE  A \in T
  <2> SUFFICES ASSUME NEW x \in A PROVE h[A] = f[x] + h[A \ {x}]
    BY <1>1
  <2> DEFINE y == First(A)
  <2>1. y \in A
    BY FirstIn
  <2>2. h[A] = f[y] + h[A \ {y}]
    BY <2>1 DEF Adds
  <2> HIDE DEF y
  <2>3. CASE x # y
    <3>1. A \ {y} \in T /\ A \ {x} \in T /\ x \in A \ {y} /\ y \in A \ {x}
      BY <1>1, <2>1, <2>3
    <3>2. (A \ {y}) \ {x} = (A \ {x}) \ {y} /\ (A \ {x}) \ {y} \in SUBSET S
      OBVIOUS
    <3>3. h[A \ {y}] = f[x] + h[(A \ {x}) \ {y}] /\ h[A \ {x}] = f[y] + h[(A \ {x}) \ {y}]
      BY <3>1, <3>2
    <3>4. h[(A \ {x}) \ {y}] \in Int /\ f[x] \in Int /\ f[y] \in Int
      BY <2>1, <3>2 DEF Ints
    <3> QED BY <2>2, <3>3, <3>4
  <2> QED BY <2>2, <2>3
<1>2. SUBSET S \subseteq T
  <2> HIDE DEF T
  <2> QED BY <1>1, BySmaller
<1> QED BY <1>2 DEF Regular

\* What a sum is: nothing for no rows, and with any row it has that row more.
LEMMA Totals ==
  ASSUME NEW S, NEW f, IsFiniteSet(S), \A i \in S : f[i] \in Int
  PROVE  /\ Total(f, {}) = 0
         /\ \A A \in SUBSET S : Total(f, A) \in Int
         /\ \A A \in SUBSET S : \A x \in A : Total(f, A) = f[x] + Total(f, A \ {x})
<1>1. \E h : Adds(h, f, S) /\ \A A \in SUBSET S : h[A] \in Int
  <2>1. PICK h \in [SUBSET S -> Int] : Adds(h, f, S)
    BY Adding
  <2> QED BY <2>1
<1>2. PICK h : Adds(h, f, S) /\ \A A \in SUBSET S : h[A] \in Int
  BY <1>1
<1>3. ASSUME NEW A \in SUBSET S PROVE Total(f, A) = h[A]
  <2>1. IsFiniteSet(A) /\ \A i \in A : f[i] \in Int
    BY FS_Subset
  <2>2. PICK g : Adds(g, f, A) /\ Total(f, A) = g[A]
    BY <2>1, TotalAdds
  <2>3. Adds(h, f, A)
    BY <1>2 DEF Adds
  <2>4. A \in SUBSET A
    OBVIOUS
  <2> QED BY <2>1, <2>2, <2>3, <2>4, SameSum
<1>4. \A A \in SUBSET S : \A x \in A : h[A] = f[x] + h[A \ {x}]
  <2>1. Ints(f, S) /\ Ints(h, SUBSET S)
    BY <1>2 DEF Ints
  <2>2. Regular(h, f, S)
    BY <1>2, <2>1, AnyFirst
  <2> QED BY <2>2 DEF Regular
<1>5. h[{}] = 0
  BY <1>2 DEF Adds
<1>6. {} \in SUBSET S /\ \A A \in SUBSET S : \A x \in A : A \ {x} \in SUBSET S
  OBVIOUS
<1> QED BY <1>2, <1>3, <1>4, <1>5, <1>6

\* No rows, no sum.
LEMMA TotalNone == ASSUME NEW f PROVE Total(f, {}) = 0
<1>1. IsFiniteSet({}) /\ \A i \in {} : f[i] \in Int
  BY FS_EmptySet
<1> QED BY <1>1, Totals

\* A row more.
LEMMA TotalMore ==
  ASSUME NEW S, NEW f, NEW A \in SUBSET S, NEW x \in S \ A, IsFiniteSet(S),
         \A i \in S : f[i] \in Int
  PROVE  Total(f, A \cup {x}) = f[x] + Total(f, A)
<1>1. A \cup {x} \in SUBSET S /\ (A \cup {x}) \ {x} = A /\ x \in A \cup {x}
  OBVIOUS
<1> QED BY <1>1, Totals

\* A sum of integers is one.
LEMMA TotalType ==
  ASSUME NEW S, NEW f, IsFiniteSet(S), \A i \in S : f[i] \in Int
  PROVE  Total(f, S) \in Int
BY Totals

\* Two disjoint sets add up.
LEMMA TotalUnion ==
  ASSUME NEW S, NEW f, NEW A \in SUBSET S, NEW B \in SUBSET S, IsFiniteSet(S),
         \A i \in S : f[i] \in Int, A \cap B = {}
  PROVE  Total(f, A \cup B) = Total(f, A) + Total(f, B)
<1> DEFINE T == {C \in SUBSET B : Total(f, A \cup C) = Total(f, A) + Total(f, C)}
<1>1. IsFiniteSet(B) /\ \A C \in SUBSET S : Total(f, C) \in Int
  BY FS_Subset, Totals
<1>2. {} \in T
  <2>1. Total(f, {}) = 0 /\ A \cup {} = A
    BY Totals
  <2> QED BY <1>1, <2>1
<1>3. ASSUME NEW C \in SUBSET B, NEW x \in B \ C, C \in T
      PROVE  C \cup {x} \in T
  <2>1. A \cup (C \cup {x}) = (A \cup C) \cup {x}
    OBVIOUS
  <2>2. Total(f, (A \cup C) \cup {x}) = f[x] + Total(f, A \cup C)
    <3>1. A \cup C \in SUBSET S /\ x \in S \ (A \cup C)
      OBVIOUS
    <3> QED BY <3>1, TotalMore
  <2>3. Total(f, C \cup {x}) = f[x] + Total(f, C)
    <3>1. C \in SUBSET S /\ x \in S \ C
      OBVIOUS
    <3> QED BY <3>1, TotalMore
  <2>4. f[x] \in Int /\ Total(f, A) \in Int /\ Total(f, C) \in Int /\ Total(f, A \cup C) \in Int
    BY <1>1
  <2>5. Total(f, A \cup C) = Total(f, A) + Total(f, C)
    BY <1>3
  <2>6. Total(f, A \cup (C \cup {x})) = Total(f, A) + Total(f, C \cup {x})
    <3>1. Total(f, A \cup (C \cup {x})) = f[x] + Total(f, A \cup C)
      BY <2>1, <2>2
    <3> QED BY <2>3, <2>4, <2>5, <3>1
  <2> QED BY <2>6
<1>4. SUBSET B \subseteq T
  <2> HIDE DEF T
  <2> QED BY <1>1, <1>2, <1>3, Grow
<1> QED BY <1>4

\* Groups, each with its sum, add up to the sum of all that is in one.
Sums(g, N, f, S, key)   == \A k \in N : g[k] = Total(f, {i \in S : key[i] = k})
Counts(g, N, S, key)    == \A k \in N : g[k] = Cardinality({i \in S : key[i] = k})
Under(S, key, N)        == {i \in S : key[i] \in N}

LEMMA TotalOfGroups ==
  ASSUME NEW S, NEW f, NEW N, NEW key, NEW g, IsFiniteSet(S), IsFiniteSet(N), Ints(f, S),
         Sums(g, N, f, S, key)
  PROVE  Total(g, N) = Total(f, Under(S, key, N))
<1> DEFINE In(M) == {i \in S : key[i] \in M}
           T == {M \in SUBSET N : Total(g, M) = Total(f, In(M))}
<1>1. \A C \in SUBSET S : Total(f, C) \in Int
  BY Totals DEF Ints
<1>2. \A k \in N : g[k] \in Int
  <2>1. \A k \in N : {i \in S : key[i] = k} \in SUBSET S
    OBVIOUS
  <2> QED BY <1>1, <2>1 DEF Sums
<1>3. {} \in T
  <2>1. In({}) = {}
    OBVIOUS
  <2> QED BY <2>1, TotalNone
<1>4. ASSUME NEW M \in SUBSET N, NEW k \in N \ M, M \in T
      PROVE  M \cup {k} \in T
  <2> DEFINE G == {i \in S : key[i] = k}
  <2>1. In(M \cup {k}) = In(M) \cup G /\ In(M) \cap G = {} /\ In(M) \in SUBSET S /\ G \in SUBSET S
    OBVIOUS
  <2>2. Total(g, M \cup {k}) = g[k] + Total(g, M)
    BY <1>2, TotalMore
  <2>3. Total(g, M) = Total(f, In(M)) /\ g[k] = Total(f, G)
    BY <1>4 DEF Sums
  <2>4. Total(f, In(M) \cup G) = Total(f, In(M)) + Total(f, G)
    <3> HIDE DEF In, G
    <3>1. \A i \in S : f[i] \in Int
      BY DEF Ints
    <3> QED BY <2>1, <3>1, TotalUnion
  <2>5. Total(f, In(M)) \in Int /\ Total(f, G) \in Int
    BY <1>1, <2>1
  <2>6. Total(g, M \cup {k}) = Total(f, In(M \cup {k}))
    <3>1. Total(f, In(M \cup {k})) = Total(f, In(M)) + Total(f, G)
      <4> HIDE DEF In, G
      <4> QED BY <2>1, <2>4
    <3> HIDE DEF In, G
    <3> QED BY <2>2, <2>3, <2>5, <3>1
  <2> QED BY <2>6
<1>5. SUBSET N \subseteq T
  <2> HIDE DEF T
  <2> QED BY <1>3, <1>4, Grow
<1> QED BY <1>5 DEF Under

\* To count is to add up ones.
LEMMA Counting ==
  ASSUME NEW S, NEW f, IsFiniteSet(S), \A i \in S : f[i] = 1
  PROVE  Total(f, S) = Cardinality(S)
<1> DEFINE T == {C \in SUBSET S : Total(f, C) = Cardinality(C)}
<1>1. \A i \in S : f[i] \in Int
  OBVIOUS
<1>2. \A C \in SUBSET S : IsFiniteSet(C) /\ Cardinality(C) \in Nat
  BY FS_Subset, FS_CardinalityType
<1>3. {} \in T
  BY <1>1, Totals, FS_EmptySet
<1>4. ASSUME NEW C \in SUBSET S, NEW x \in S \ C, C \in T
      PROVE  C \cup {x} \in T
  <2>1. Total(f, C \cup {x}) = 1 + Total(f, C)
    BY <1>1, TotalMore
  <2>2. Cardinality(C \cup {x}) = Cardinality(C) + 1
    BY <1>2, FS_AddElement
  <2> QED BY <1>2, <1>4, <2>1, <2>2
<1>5. SUBSET S \subseteq T
  <2> HIDE DEF T
  <2> QED BY <1>3, <1>4, Grow
<1> QED BY <1>5

\* Groups, each with its number, add up to the number of all that is in one.
LEMMA CountOfGroups ==
  ASSUME NEW S, NEW N, NEW key, NEW g, IsFiniteSet(S), IsFiniteSet(N),
         Counts(g, N, S, key)
  PROVE  Total(g, N) = Cardinality(Under(S, key, N))
<1> DEFINE one == [i \in S |-> 1]
<1>1. \A A \in SUBSET S : Total(one, A) = Cardinality(A)
  <2> SUFFICES ASSUME NEW A \in SUBSET S PROVE Total(one, A) = Cardinality(A)
    OBVIOUS
  <2>1. IsFiniteSet(A) /\ \A i \in A : one[i] = 1
    BY FS_Subset
  <2> HIDE DEF one
  <2> QED BY <2>1, Counting
<1>2. Ints(one, S)
  BY DEF Ints
<1> HIDE DEF one
<1>3. \A k \in N : {i \in S : key[i] = k} \in SUBSET S
  OBVIOUS
<1>4. Sums(g, N, one, S, key)
  BY <1>1, <1>3 DEF Counts, Sums
<1>5. Total(g, N) = Total(one, Under(S, key, N))
  BY <1>2, <1>4, TotalOfGroups
<1>6. Under(S, key, N) \in SUBSET S
  BY DEF Under

<1> QED BY <1>1, <1>5, <1>6

\* A quotient is what it is by its bounds.
LEMMA Quotient ==
  ASSUME NEW a \in Int, NEW d \in Nat \ {0}, NEW q \in Int
  PROVE  /\ a \div d \in Int
         /\ a \div d >= q <=> a >= d * q
<1> DEFINE p == a \div d
<1>1. p \in Int /\ a % d \in 0 .. d - 1 /\ a = d * p + (a % d)
  BY Z3
<1> HIDE DEF p
<1>2. ASSUME p >= q PROVE a >= d * q
  <2>1. d * p >= d * q
    BY <1>1, <1>2
  <2>2. d * p \in Int /\ d * q \in Int
    BY <1>1
  <2> QED BY <1>1, <2>1, <2>2
<1>3. ASSUME p < q PROVE a < d * q
  <2>1. d * q >= d * (p + 1)
    BY <1>1, <1>3
  <2>2. d * (p + 1) = d * p + d
    BY <1>1
  <2>3. d * p \in Int /\ d * q \in Int
    BY <1>1
  <2> QED BY <1>1, <2>1, <2>2, <2>3
<1> QED BY <1>1, <1>2, <1>3 DEF p

\* A finite set of integers has a least and a greatest element.
LEMMA Extremes ==
  ASSUME NEW S, IsFiniteSet(S), S \subseteq Int, S # {}
  PROVE  /\ \E m \in S : \A x \in S : m <= x
         /\ \E m \in S : \A x \in S : x <= m
<1> DEFINE Both(A) == /\ \E m \in A : \A x \in A : m <= x
                      /\ \E m \in A : \A x \in A : x <= m
           T == {A \in SUBSET S : A # {} => Both(A)}
<1>1. {} \in T
  OBVIOUS
<1>2. ASSUME NEW A \in SUBSET S, NEW x \in S \ A, A \in T
      PROVE  A \cup {x} \in T
  <2>1. CASE A = {}
    BY <2>1
  <2>2. CASE A # {}
    <3>1. PICK l \in A : \A y \in A : l <= y
      BY <1>2, <2>2
    <3>2. PICK m \in A : \A y \in A : y <= m
      BY <1>2, <2>2
    <3>3. \E k \in A \cup {x} : \A y \in A \cup {x} : k <= y
      <4>1. CASE x <= l
        BY <3>1, <4>1
      <4>2. CASE l <= x
        BY <3>1, <4>2
      <4> QED BY <4>1, <4>2
    <3>4. \E k \in A \cup {x} : \A y \in A \cup {x} : y <= k
      <4>1. CASE x <= m
        BY <3>2, <4>1
      <4>2. CASE m <= x
        BY <3>2, <4>2
      <4> QED BY <4>1, <4>2
    <3> QED BY <3>3, <3>4
  <2> QED BY <2>1, <2>2
<1>3. SUBSET S \subseteq T
  <2> HIDE DEF T
  <2> QED BY <1>1, <1>2, Grow
<1> QED BY <1>3

\* Min is the least element of a set.
LEMMA MinIs ==
  ASSUME NEW S, IsFiniteSet(S), S \subseteq Int, S # {}
  PROVE  Min(S) \in S /\ \A x \in S : Min(S) <= x
<1>1. \E m \in S : \A x \in S : m <= x
  BY Extremes
<1> QED BY <1>1 DEF Min

\* Min of two numbers is the smaller one.
LEMMA MinOfTwo ==
  ASSUME NEW a \in Int, NEW b \in Int
  PROVE  Min({a, b}) = IF a <= b THEN a ELSE b
<1>1. IsFiniteSet({a, b})
  <2>1. IsFiniteSet({a}) /\ IsFiniteSet({b}) /\ {a, b} = {a} \cup {b}
    BY FS_Singleton
  <2> QED BY <2>1, FS_Union
<1>2. Min({a, b}) \in {a, b} /\ \A x \in {a, b} : Min({a, b}) <= x
  BY <1>1, MinIs
<1> QED BY <1>2

\* The image of a finite set.
LEMMA Image ==
  ASSUME NEW S, NEW key, IsFiniteSet(S)
  PROVE  /\ IsFiniteSet({key[i] : i \in S})
         /\ Cardinality({key[i] : i \in S}) <= Cardinality(S)
<1> DEFINE N == {key[i] : i \in S}
           f == [i \in S |-> key[i]]
<1>1. f \in Surjection(S, N)
  BY DEF Surjection
<1> QED BY <1>1, FS_Surjection

\* A sum of natural numbers is one.
LEMMA TotalNat ==
  ASSUME NEW S, NEW f, IsFiniteSet(S), \A i \in S : f[i] \in Nat
  PROVE  Total(f, S) \in Nat
<1> DEFINE T == {A \in SUBSET S : Total(f, A) \in Nat}
<1>1. {} \in T
  BY Totals
<1>2. ASSUME NEW A \in SUBSET S, NEW x \in S \ A, A \in T
      PROVE  A \cup {x} \in T
  <2>1. Total(f, A \cup {x}) = f[x] + Total(f, A)
    BY TotalMore
  <2> QED BY <1>2, <2>1
<1>3. SUBSET S \subseteq T
  <2> HIDE DEF T
  <2> QED BY <1>1, <1>2, Grow
<1> QED BY <1>3
-----------------------------------------------------------------------------
(* The rows.                                                               *)

\* The tables and the time are among the given ones.
Looked ==
  /\ table \in Tables /\ hour \in Hours /\ opinions \in Opinions /\ trials \in Trials
  /\ maxRows \in Limits
  /\ \A i \in DOMAIN table : table[i].at <= hour

\* What is known of the rows: their types, and that there are finitely many.
LEMMA Rows ==
  ASSUME Looked
  PROVE  /\ hour \in Nat /\ Day \in Nat \ {0} /\ Target \in Nat \ {0} /\ Variants \in Nat
         /\ NoValue \notin Int /\ maxRows \in Nat
         /\ IsFiniteSet(DOMAIN table) /\ IsFiniteSet(DOMAIN opinions) /\ IsFiniteSet(DOMAIN trials)
         /\ \A i \in DOMAIN table : /\ table[i].at \in Nat /\ table[i].ms \in Nat \cup {NoValue}
                                    /\ Cost[i] \in Nat
         /\ \A i \in DOMAIN opinions : opinions[i].overall \in Nat \cup {NoValue}
         /\ Len(trials) \in Nat /\ Cardinality(DOMAIN trials) = Len(trials)
<1>1. \A n \in Nat : IsFiniteSet(1 .. n) /\ Cardinality(1 .. n) = n
  BY FS_Interval
<1>2. \A s \in Tables \cup Opinions \cup Trials :
        Len(s) \in Nat /\ IsFiniteSet(DOMAIN s) /\ Cardinality(DOMAIN s) = Len(s)
  BY <1>1, FigureAssumption
<1>3. \A i \in DOMAIN table : table[i].at \in Nat /\ table[i].cost \in Nat
  BY FigureAssumption DEF Looked
<1>4. \A i \in DOMAIN table : table[i].ms \in Nat \cup {NoValue}
  BY FigureAssumption DEF Looked
<1>5. \A i \in DOMAIN opinions : opinions[i].overall \in Nat \cup {NoValue}
  BY FigureAssumption DEF Looked
<1>6. hour \in Nat /\ Day \in Nat \ {0} /\ Target \in Nat \ {0} /\ Variants \in Nat /\ NoValue \notin Int
      /\ maxRows \in Nat
  BY FigureAssumption DEF Looked
<1>7. \A i \in DOMAIN table : Cost[i] \in Nat
  BY <1>3 DEF Cost
<1> QED BY <1>2, <1>3, <1>4, <1>5, <1>6, <1>7 DEF Looked

\* What some of the rows cost, and what the others do.
LEMMA Spent ==
  ASSUME NEW S \in SUBSET DOMAIN table, Looked
  PROVE  /\ IsFiniteSet(S) /\ Cardinality(S) \in Nat /\ Spend(S) \in Nat
         /\ \A A \in SUBSET S : /\ Spend(S) = Spend(A) + Spend(S \ A)
                                /\ Spend(A) \in Nat /\ Spend(A) <= Spend(S)
<1>1. \A A \in SUBSET DOMAIN table : IsFiniteSet(A) /\ Cardinality(A) \in Nat
  BY Rows, FS_Subset, FS_CardinalityType
<1>2. ASSUME NEW A \in SUBSET DOMAIN table PROVE Spend(A) \in Nat
  <2>1. \A i \in A : Cost[i] \in Nat
    BY Rows
  <2> QED BY <1>1, <2>1, TotalNat DEF Spend
<1>3. ASSUME NEW A \in SUBSET S PROVE Spend(S) = Spend(A) + Spend(S \ A)
  <2>1. \A i \in S : Cost[i] \in Int
    BY Rows
  <2>2. S \ A \in SUBSET S /\ A \cap (S \ A) = {} /\ A \cup (S \ A) = S
    OBVIOUS
  <2>3. Total(Cost, A \cup (S \ A)) = Total(Cost, A) + Total(Cost, S \ A)
    BY <1>1, <2>1, <2>2, TotalUnion
  <2> QED BY <2>2, <2>3 DEF Spend
<1>4. \A A \in SUBSET S : A \in SUBSET DOMAIN table /\ S \ A \in SUBSET DOMAIN table
  OBVIOUS
<1>5. ASSUME NEW A \in SUBSET S PROVE Spend(A) <= Spend(S)
  <2>1. Spend(S) = Spend(A) + Spend(S \ A)
    BY <1>3
  <2>2. Spend(S) \in Nat /\ Spend(A) \in Nat /\ Spend(S \ A) \in Nat
    BY <1>2, <1>4
  <2> QED BY <2>1, <2>2
<1> QED BY <1>1, <1>2, <1>3, <1>4, <1>5

\* The groups of any rows by any key.
LEMMA Groups ==
  ASSUME NEW S \in SUBSET DOMAIN table, NEW key, NEW f, Looked,
         f.total_requests = Cardinality(S), f.total_cost = Spend(S)
  PROVE  GroupsAddUp(GroupBy(S, key), f)
<1> DEFINE groups == GroupBy(S, key)
           N == {key[i] : i \in S}
<1>1. IsFiniteSet(S) /\ IsFiniteSet(N)
  <2>1. IsFiniteSet(S)
    BY Spent
  <2> QED BY <2>1, Image
<1>2. DOMAIN groups = N
  BY DEF GroupBy
<1>3. \A k \in N : /\ Requests(groups)[k] = Cardinality({i \in S : key[i] = k})
                   /\ GroupCost(groups)[k] = Total(Cost, {i \in S : key[i] = k})
  BY DEF GroupBy, Requests, GroupCost, Spend
<1>4. Under(S, key, N) = S
  BY DEF Under
<1>5. Ints(Cost, S)
  BY Rows DEF Ints
<1> HIDE DEF N, groups
<1>6. Total(Requests(groups), N) = Cardinality(S)
  <2>1. Counts(Requests(groups), N, S, key)
    BY <1>3 DEF Counts
  <2> QED BY <1>1, <1>4, <2>1, CountOfGroups
<1>7. Total(GroupCost(groups), N) = Spend(S)
  <2>1. Sums(GroupCost(groups), N, Cost, S, key)
    BY <1>3 DEF Sums
  <2> QED BY <1>1, <1>4, <1>5, <2>1, TotalOfGroups DEF Spend
<1> QED BY <1>2, <1>6, <1>7 DEF GroupsAddUp, groups

\* Element ceil(0.95 n) is the percentile.
LEMMA PercentileRight ==
  ASSUME NEW S \in SUBSET DOMAIN table, Looked, S # {},
         \A i \in S : table[i].ms # NoValue
  PROVE  IsP95(P95(S), S)
<1> DEFINE n == Cardinality(S)
           k == (95 * n + 99) \div 100
           V == {table[i].ms : i \in S}
           within(x) == Cardinality({i \in S : table[i].ms <= x})
           below(x) == Cardinality({i \in S : table[i].ms < x})
<1>1. /\ IsFiniteSet(S) /\ n \in Nat \ {0}
      /\ \A A \in SUBSET S : Cardinality(A) \in Nat /\ Cardinality(A) <= n
  <2>1. \A A \in SUBSET S : IsFiniteSet(A) /\ Cardinality(A) \in Nat
    BY Spent
  <2> QED BY <2>1, FS_Subset, FS_EmptySet
<1>2. k \in Nat /\ 1 <= k /\ k <= n /\ 100 * k >= 95 * n /\ 100 * (k - 1) < 95 * n
  <2> HIDE DEF n
  <2> QED BY <1>1
<1>3. IsFiniteSet(V) /\ V \subseteq Nat /\ V # {}
  <2> DEFINE ms == [i \in S |-> table[i].ms]
  <2>1. V = {ms[i] : i \in S}
    OBVIOUS
  <2>2. IsFiniteSet({ms[i] : i \in S})
    <3> HIDE DEF ms
    <3> QED BY <1>1, Image
  <2>3. V \subseteq Nat
    BY Rows
  <2> QED BY <2>1, <2>2, <2>3
<1>4. \A x : within(x) \in Nat /\ within(x) <= n /\ below(x) \in Nat
  BY <1>1
<1>5. \A i \in S : table[i].ms \in V
  OBVIOUS
<1> HIDE DEF V
<1>6. ASSUME NEW x \in V, NEW y \in V, x < y
      PROVE  within(x) <= below(y)
  <2>1. \A i \in S : table[i].ms <= x => table[i].ms < y
    BY <1>3, <1>5, <1>6
  <2>4. {i \in S : table[i].ms <= x} \subseteq {i \in S : table[i].ms < y}
    BY <2>1
  <2>2. {i \in S : table[i].ms < y} \subseteq S
    OBVIOUS
  <2>3. IsFiniteSet({i \in S : table[i].ms < y})
    BY <1>1, <2>2, FS_Subset
  <2> QED BY <2>3, <2>4, FS_Subset
<1>7. \E v \in V : below(v) < k /\ k <= within(v)
  <2> DEFINE C == {v \in V : k <= within(v)}
  <2>1. PICK m \in V : \A x \in V : x <= m
    <3>1. IsFiniteSet(V) /\ V \subseteq Int /\ V # {}
      BY <1>3
    <3> QED BY <3>1, Extremes
  <2>2. {i \in S : table[i].ms <= m} = S
    BY <1>5, <2>1
  <2>3. m \in C
    BY <1>2, <2>2
  <2>4. IsFiniteSet(C) /\ C \subseteq Int
    <3>1. C \in SUBSET V
      OBVIOUS
    <3> HIDE DEF C
    <3>2. IsFiniteSet(C)
      BY <1>3, <3>1, FS_Subset
    <3> QED BY <1>3, <3>1, <3>2
  <2>5. PICK v \in C : \A x \in C : v <= x
    <3> HIDE DEF C
    <3> QED BY <2>3, <2>4, Extremes
  <2>6. below(v) < k
    <3> DEFINE U == {u \in V : u < v}
    <3>1. CASE U = {}
      <4>1. {i \in S : table[i].ms < v} = {}
        BY <1>5, <3>1
      <4>2. below(v) = 0
        BY <4>1, FS_EmptySet
      <4> QED BY <1>2, <4>2
    <3>2. CASE U # {}
      <4>1. IsFiniteSet(U) /\ U \subseteq Int
        <5>1. U \in SUBSET V
          OBVIOUS
        <5> HIDE DEF U
        <5>2. IsFiniteSet(U)
          BY <1>3, <5>1, FS_Subset
        <5> QED BY <1>3, <5>1, <5>2
      <4>2. PICK u \in U : \A x \in U : x <= u
        <5> HIDE DEF U
        <5> QED BY <3>2, <4>1, Extremes
      <4>3. {i \in S : table[i].ms < v} = {i \in S : table[i].ms <= u}
        <5>1. \A i \in S : table[i].ms < v <=> table[i].ms <= u
          <6>1. \A x \in V : x < v <=> x <= u
            <7>1. V \subseteq Nat /\ v \in V /\ u \in V /\ u < v
              BY <1>3
            <7>2. \A x \in V : x < v => x <= u
              BY <4>2
            <7> HIDE DEF U, C
            <7> QED BY <7>1, <7>2
          <6> QED BY <1>5, <6>1
        <5> QED BY <5>1
      <4>4. u \notin C
        <5>1. u \in V /\ v \in V /\ u < v
          OBVIOUS
        <5> HIDE DEF C, U
        <5> QED BY <1>3, <2>5, <5>1
      <4>5. below(v) = within(u) /\ ~(k <= within(u))
        BY <4>2, <4>3, <4>4
      <4> HIDE DEF k, n, within, below
      <4> QED BY <1>2, <1>4, <4>5
    <3> QED BY <3>1, <3>2
  <2> QED BY <2>5, <2>6
<1> DEFINE v == InOrder(S, k)
<1>8. v \in V /\ below(v) < k /\ k <= within(v)
  <2> HIDE DEF k
  <2> QED BY <1>7 DEF InOrder, V
<1>9. P95(S) = v
  BY <1>1 DEF P95
<1> HIDE DEF v, k, n, V
<1>10. 100 * within(v) >= 95 * n
  <2> HIDE DEF within
  <2> QED BY <1>1, <1>2, <1>4, <1>8
<1>11. ASSUME NEW i \in S, table[i].ms < v
       PROVE  100 * within(table[i].ms) < 95 * n
  <2>1. within(table[i].ms) <= below(v)
    BY <1>5, <1>6, <1>8, <1>11
  <2> HIDE DEF within, below
  <2> QED BY <1>1, <1>2, <1>4, <1>8, <2>1
<1> QED BY <1>9, <1>10, <1>11 DEF IsP95, n

\* A row has a bar when its day is one of seven; else its time lies before them.
LEMMA BarsRight ==
  ASSUME NEW week \in SUBSET DOMAIN table, NEW d, Looked, d.spend_7d = Spend(week),
         d.spend_today = Spend(Past(week, Day * (hour \div Day))),
         d.spend_by_day = SpendByDay(week)
  PROVE  BarsAddUp(d, week)
<1> DEFINE today == hour \div Day
           N == today - 6 .. today
           bars == d.spend_by_day
           Before == {i \in week : table[i].at < Day * (today - 6)}
           Barred == {i \in week : DayKey[i] \in N}
<1>1. today \in Int /\ IsFiniteSet(N) /\ today \in N
  <2>1. today \in Int
    BY Rows, Quotient
  <2> HIDE DEF today
  <2>2. IsFiniteSet(N)
    BY <2>1, FS_Interval
  <2>3. today \in N
    BY <2>1
  <2> QED BY <2>1, <2>2, <2>3
<1>2. week \in SUBSET DOMAIN table
  OBVIOUS
<1>3. ASSUME NEW i \in week
      PROVE  /\ DayKey[i] \in Int /\ DayKey[i] <= today
             /\ \A q \in Int : DayKey[i] >= q <=> table[i].at >= Day * q
  <2>1. table[i].at \in Nat /\ table[i].at <= hour /\ hour \in Nat /\ Day \in Nat \ {0}
    BY <1>2, Rows DEF Looked
  <2>2. DayKey[i] = table[i].at \div Day
    BY <1>2 DEF DayKey
  <2>3. DayKey[i] \in Int /\ \A q \in Int : DayKey[i] >= q <=> table[i].at >= Day * q
    BY <2>1, <2>2, Quotient
  <2>4. hour >= Day * DayKey[i]
    <3>1. table[i].at >= Day * DayKey[i] /\ Day * DayKey[i] \in Int
      BY <2>1, <2>3
    <3> QED BY <2>1, <3>1
  <2>5. today >= DayKey[i]
    <3>1. \A q \in Int : hour \div Day >= q <=> hour >= Day * q
      BY <2>1, Quotient
    <3> QED BY <2>3, <2>4, <3>1
  <2> QED BY <1>1, <2>3, <2>5
<1>4. bars = [k \in N |-> Spend({i \in week : DayKey[i] = k})]
  BY DEF SpendByDay
<1> HIDE DEF today, N
<1>5. bars[today] = d.spend_today + Spend(Stamped(week, Day * today))
  <2> DEFINE T == {i \in week : table[i].at >= Day * today}
             A == Past(week, Day * today)
             B == Stamped(week, Day * today)
  <2>1. {i \in week : DayKey[i] = today} = T
    BY <1>1, <1>3
  <2>2. T \in SUBSET DOMAIN table /\ A \in SUBSET T /\ T \ A = B
    <3>1. \A i \in week : table[i].at \in Int /\ Day * today \in Int
      BY <1>1, <1>2, Rows
    <3> QED BY <1>2, <3>1 DEF Past, Stamped
  <2>3. bars[today] = Spend(T) /\ d.spend_today = Spend(A)
    BY <1>1, <1>4, <2>1 DEF today
  <2> HIDE DEF T, A, B
  <2>4. Spend(T) = Spend(A) + Spend(B)
    BY <2>2, Spent
  <2> QED BY <2>3, <2>4 DEF B
<1>6. Total(bars, N) = Spend(Barred)
  <2>1. \A k \in N : bars[k] = Total(Cost, {i \in week : DayKey[i] = k})
    BY <1>4 DEF Spend
  <2>2. IsFiniteSet(week) /\ Ints(Cost, week)
    BY <1>2, Spent, Rows DEF Ints
  <2> HIDE DEF bars
  <2>3. Sums(bars, N, Cost, week, DayKey)
    BY <2>1 DEF Sums
  <2>4. Total(bars, N) = Total(Cost, Under(week, DayKey, N))
    BY <1>1, <2>2, <2>3, TotalOfGroups
  <2> QED BY <2>4 DEF Spend, Under
<1>7. week \ Barred = Before
  <2>1. ASSUME NEW i \in week PROVE i \notin Barred <=> table[i].at < Day * (today - 6)
    <3>1. i \notin Barred <=> ~(DayKey[i] >= today - 6)
      BY <1>1, <1>3 DEF N
    <3>2. DayKey[i] >= today - 6 <=> table[i].at >= Day * (today - 6)
      BY <1>1, <1>3
    <3>3. table[i].at \in Int /\ Day * (today - 6) \in Int
      BY <1>1, <1>2, Rows
    <3> HIDE DEF Barred
    <3> QED BY <3>1, <3>2, <3>3
  <2> QED BY <2>1
<1>8. Spend(week) = Spend(Barred) + Spend(Before) /\ Spend(Barred) \in Nat /\ Spend(Before) \in Nat
  <2>1. Barred \in SUBSET week /\ Before \in SUBSET week
    OBVIOUS
  <2> HIDE DEF Barred, Before
  <2> QED BY <1>2, <1>7, <2>1, Spent
<1>9. DOMAIN bars = N /\ d.spend_7d = Spend(week)
  BY <1>4
<1>10. d.spend_7d - Total(bars, DOMAIN bars) = Spend(Before)
  <2> HIDE DEF bars, Barred, Before
  <2> QED BY <1>6, <1>8, <1>9
<1> QED BY <1>5, <1>10 DEF BarsAddUp, today

\* The figures of the cache page, of whatever rows.
LEMMA CacheRight ==
  ASSUME NEW rows \in SUBSET DOMAIN table, Looked
  PROVE  LET c == CacheFigures(rows)
         IN  /\ c.hits + c.misses = Cardinality(rows)
             /\ c.saved_cost <= Spend(rows)
             /\ c.misses = 0 => c.saved_cost = Spend(rows)
             /\ c.unique_prompts <= c.hits + c.misses
<1> DEFINE hits == {i \in rows : table[i].hit}
           prompt == [i \in DOMAIN table |-> table[i].prompt]
           n == Cardinality(rows)
           h == Cardinality(hits)
<1>1. rows \in SUBSET DOMAIN table /\ hits \in SUBSET rows
  OBVIOUS
<1>2. IsFiniteSet(rows) /\ n \in Nat /\ h \in Nat /\ h <= n /\ (h = n => hits = rows)
  BY <1>1, Spent, FS_Subset, FS_CardinalityType
<1>3. Spend(hits) <= Spend(rows)
  BY <1>1, Spent
<1>4. Cardinality({table[i].prompt : i \in rows} \ {NoName}) <= n
  <2>1. {table[i].prompt : i \in rows} = {prompt[i] : i \in rows}
    BY <1>1
  <2>2. IsFiniteSet({prompt[i] : i \in rows}) /\ Cardinality({prompt[i] : i \in rows}) <= n
    <3> HIDE DEF prompt
    <3> QED BY <1>2, Image
  <2> DEFINE P == {prompt[i] : i \in rows}
  <2> HIDE DEF P
  <2>3. Cardinality(P) \in Nat /\ Cardinality(P \ {NoName}) \in Nat /\ Cardinality(P \ {NoName}) <= Cardinality(P)
    <3>1. IsFiniteSet(P) /\ P \ {NoName} \in SUBSET P
      BY <2>2 DEF P
    <3> QED BY <3>1, FS_Subset, FS_CardinalityType
  <2>4. Cardinality(P \ {NoName}) <= n
    <3>1. Cardinality(P) <= n
      BY <2>2 DEF P
    <3> HIDE DEF n
    <3> QED BY <1>2, <2>3, <3>1
  <2> QED BY <2>1, <2>4 DEF P
<1> DEFINE c == CacheFigures(rows)
<1>5. /\ c.hits = h /\ c.misses = n - h /\ c.saved_cost = Spend(hits)
      /\ c.unique_prompts = Cardinality({table[i].prompt : i \in rows} \ {NoName})
  BY DEF CacheFigures
<1> HIDE DEF hits, n, h, c
<1>6. n - h = 0 => hits = rows
  BY <1>2
<1>7. h + (n - h) = n
  BY <1>2
<1> QED BY <1>3, <1>4, <1>5, <1>6, <1>7 DEF n, c

\* Twenty times a sum and as much for each of its rows.
LEMMA TotalLinear ==
  ASSUME NEW S, NEW f, NEW w \in Int, NEW g, IsFiniteSet(S), \A i \in S : f[i] \in Int,
         \A i \in S : g[i] = 20 * f[i] + w
  PROVE  Total(g, S) = 20 * Total(f, S) + w * Cardinality(S)
<1> DEFINE T == {A \in SUBSET S : Total(g, A) = 20 * Total(f, A) + w * Cardinality(A)}
<1>1. \A i \in S : g[i] \in Int
  OBVIOUS
<1>2. \A A \in SUBSET S : IsFiniteSet(A) /\ Cardinality(A) \in Nat /\ Total(f, A) \in Int /\ Total(g, A) \in Int
  BY <1>1, FS_Subset, FS_CardinalityType, Totals
<1>3. {} \in T
  <2>1. Total(f, {}) = 0 /\ Total(g, {}) = 0 /\ Cardinality({}) = 0
    BY <1>1, Totals, FS_EmptySet
  <2> QED BY <2>1
<1>4. ASSUME NEW A \in SUBSET S, NEW x \in S \ A, A \in T
      PROVE  A \cup {x} \in T
  <2>1. Total(f, A \cup {x}) = f[x] + Total(f, A) /\ Total(g, A \cup {x}) = g[x] + Total(g, A)
    BY <1>1, TotalMore
  <2>2. Cardinality(A \cup {x}) = Cardinality(A) + 1
    BY <1>2, FS_AddElement
  <2>3. w * (Cardinality(A) + 1) = w * Cardinality(A) + w
    BY <1>2
  <2>4. g[x] = 20 * f[x] + w /\ f[x] \in Int /\ w * Cardinality(A) \in Int
    BY <1>2
  <2> QED BY <1>2, <1>4, <2>1, <2>2, <2>3, <2>4
<1>5. SUBSET S \subseteq T
  <2> HIDE DEF T
  <2> QED BY <1>3, <1>4, Grow
<1> QED BY <1>5

\* A sum of negative numbers, at least one, is negative.
LEMMA TotalNegative ==
  ASSUME NEW S, NEW f, IsFiniteSet(S), S # {}, \A i \in S : f[i] \in Int /\ f[i] < 0
  PROVE  Total(f, S) < 0
<1> DEFINE T == {A \in SUBSET S : A # {} => Total(f, A) < 0}
<1>1. \A A \in SUBSET S : Total(f, A) \in Int
  BY Totals
<1>2. {} \in T
  OBVIOUS
<1>3. ASSUME NEW A \in SUBSET S, NEW x \in S \ A, A \in T
      PROVE  A \cup {x} \in T
  <2>1. Total(f, A \cup {x}) = f[x] + Total(f, A)
    BY TotalMore
  <2>2. Total(f, A) <= 0
    <3>1. CASE A = {}
      BY <3>1, TotalNone
    <3> QED BY <1>1, <1>3, <3>1
  <2> QED BY <1>1, <2>1, <2>2
<1>4. SUBSET S \subseteq T
  <2> HIDE DEF T
  <2> QED BY <1>2, <1>3, Grow
<1> QED BY <1>4

\* An average is q at least if and only if what its scores are above q adds up.
Above(q) == [i \in Scored(DOMAIN opinions) |-> 20 * opinions[i].overall + (1 - 2 * q)]

LEMMA AverageAbove ==
  ASSUME NEW S \in SUBSET DOMAIN opinions, NEW q \in Int, Looked, Scored(S) # {}
  PROVE  /\ Average(S) \in Int
         /\ Average(S) >= q <=> Total(Above(q), Scored(S)) >= 0
<1> DEFINE K == Scored(S)
           n == Cardinality(K)
           f == [i \in K |-> opinions[i].overall]
           sum == Total(f, K)
           a == 20 * sum + n
<1>1. K \in SUBSET Scored(DOMAIN opinions) /\ K \in SUBSET DOMAIN opinions
  BY DEF Scored
<1>2. IsFiniteSet(K) /\ n \in Nat \ {0}
  BY <1>1, Rows, FS_Subset, FS_EmptySet, FS_CardinalityType
<1>3. \A i \in K : f[i] \in Int /\ f[i] = opinions[i].overall
  BY <1>1, Rows DEF Scored
<1>4. \A i \in K : Above(q)[i] = 20 * f[i] + (1 - 2 * q)
  BY <1>1, <1>3 DEF Above
<1>5. Average(S) = a \div (2 * n)
  BY <1>2 DEF Average
<1> HIDE DEF f, K
<1>6. sum \in Int
  BY <1>2, <1>3, TotalType
<1>7. Total(Above(q), K) = 20 * sum + (1 - 2 * q) * n
  BY <1>2, <1>3, <1>4, TotalLinear
<1> HIDE DEF n, sum
<1>8. (1 - 2 * q) * n = n - (2 * n) * q
  BY <1>2
<1>9. a \in Int /\ 2 * n \in Nat \ {0} /\ (2 * n) * q \in Int
  BY <1>2, <1>6
<1>10. a >= (2 * n) * q <=> 20 * sum + (1 - 2 * q) * n >= 0
  BY <1>2, <1>6, <1>8, <1>9
<1> HIDE DEF a
<1>11. Average(S) \in Int /\ (Average(S) >= q <=> a >= (2 * n) * q)
  BY <1>5, <1>9, Quotient
<1> QED BY <1>7, <1>10, <1>11 DEF K

\* What the scores are above q adds up to less than 0 when q is more than the
\* average of all, and then so does it for some model; and when q is that average
\* it adds up to 0 at least, and then so does it for some model.
LEMMA AveragesRight ==
  ASSUME NEW rows \in SUBSET DOMAIN opinions, Looked PROVE AveragesAgree(Summary(rows), rows)
<1> DEFINE R == Scored(rows)
           model == [i \in rows |-> opinions[i].model]
           Own(m) == {i \in rows : opinions[i].model = m}
           N == {model[i] : i \in R}
           M == {model[i] : i \in rows}
           s == Summary(rows)
<1>1. IsFiniteSet(rows) /\ IsFiniteSet(R) /\ R \subseteq rows
  BY Rows, FS_Subset DEF Scored
<1>2. /\ s.total = Cardinality(rows) /\ s.avg_overall = Average(rows)
      /\ DOMAIN s.by_model = M
      /\ \A m \in M : s.by_model[m].count = Cardinality(Own(m)) /\ s.by_model[m].avg = Average(Own(m))
  BY DEF Summary
<1>3. IsFiniteSet(N) /\ IsFiniteSet(M)
  <2> HIDE DEF model, R
  <2> QED BY <1>1, Image
<1>4. N \subseteq M /\ N = {opinions[i].model : i \in R}
  BY <1>1
<1>5. \A m \in N : /\ Own(m) \in SUBSET rows
                   /\ Scored(Own(m)) = {i \in R : model[i] = m} /\ Scored(Own(m)) # {}
  BY DEF Scored
<1>6. \A q \in Int : \A i \in R : Above(q)[i] \in Int
  BY <1>1, Rows DEF Above, Scored
<1> HIDE DEF s
<1>7. Total([m \in M |-> s.by_model[m].count], M) = s.total
  <2> DEFINE g == [m \in M |-> s.by_model[m].count]
  <2>1. Counts(g, M, rows, model)
    BY <1>2 DEF Counts
  <2>2. Under(rows, model, M) = rows
    BY DEF Under
  <2> HIDE DEF g, M, model
  <2>3. Total(g, M) = Cardinality(Under(rows, model, M))
    BY <1>1, <1>3, <2>1, CountOfGroups
  <2> QED BY <1>2, <2>2, <2>3 DEF g
<1>8. ASSUME NEW q \in Int
      PROVE  \E g : /\ \A m \in N : g[m] \in Int /\ (Average(Own(m)) >= q <=> g[m] >= 0)
                    /\ Total(g, N) = Total(Above(q), R)
  <2> DEFINE g == [m \in N |-> Total(Above(q), {i \in R : model[i] = m})]
  <2>1. \A m \in N : g[m] = Total(Above(q), {i \in R : model[i] = m})
    OBVIOUS
  <2>2. Under(R, model, N) = R
    BY DEF Under
  <2>3. \A m \in N : {i \in R : model[i] = m} \in SUBSET R
    OBVIOUS
  <2> HIDE DEF g, N, model, R
  <2>4. \A m \in N : g[m] \in Int
    <3>1. \A i \in R : Above(q)[i] \in Int
      BY <1>6
    <3>2. \A A \in SUBSET R : Total(Above(q), A) \in Int
      BY <1>1, <3>1, Totals
    <3> QED BY <2>1, <2>3, <3>2
  <2>5. \A m \in N : Average(Own(m)) >= q <=> g[m] >= 0
    <3> SUFFICES ASSUME NEW m \in N PROVE Average(Own(m)) >= q <=> g[m] >= 0
      OBVIOUS
    <3>1. Own(m) \in SUBSET DOMAIN opinions /\ Scored(Own(m)) # {}
      BY <1>5
    <3> HIDE DEF Own
    <3>2. Average(Own(m)) >= q <=> Total(Above(q), Scored(Own(m))) >= 0
      BY <3>1, AverageAbove
    <3> QED BY <1>5, <2>1, <3>2
  <2>6. Total(g, N) = Total(Above(q), Under(R, model, N))
    <3>1. Ints(Above(q), R) /\ Sums(g, N, Above(q), R, model)
      BY <1>6, <2>1 DEF Ints, Sums
    <3> QED BY <1>1, <1>3, <3>1, TotalOfGroups
  <2> QED BY <2>2, <2>4, <2>5, <2>6
<1>9. ASSUME R # {}
      PROVE  /\ \E m \in N : Average(Own(m)) <= Average(rows)
             /\ \E m \in N : Average(Own(m)) >= Average(rows)
  <2>1. /\ Average(rows) \in Int
        /\ \A q \in Int : Average(rows) >= q <=> Total(Above(q), R) >= 0
    BY <1>9, AverageAbove
  <2>2. \A m \in N : Average(Own(m)) \in Int
    <3> SUFFICES ASSUME NEW m \in N PROVE Average(Own(m)) \in Int
      OBVIOUS
    <3>1. Own(m) \in SUBSET DOMAIN opinions /\ Scored(Own(m)) # {}
      BY <1>5
    <3> HIDE DEF Own
    <3> QED BY <3>1, AverageAbove
  <2>3. N # {}
    BY <1>9
  <2> HIDE DEF N, R, Own
  <2>4. \E m \in N : Average(Own(m)) <= Average(rows)
    <3> DEFINE q == Average(rows) + 1
    <3>1. q \in Int /\ ~(Average(rows) >= q)
      BY <2>1
    <3> HIDE DEF q
    <3>2. PICK g : /\ \A m \in N : g[m] \in Int /\ (Average(Own(m)) >= q <=> g[m] >= 0)
                   /\ Total(g, N) = Total(Above(q), R)
      BY <1>8, <3>1
    <3>3. \E m \in N : ~(g[m] >= 0)
      <4> SUFFICES ASSUME \A m \in N : g[m] >= 0 PROVE FALSE
        OBVIOUS
      <4>1. \A m \in N : g[m] \in Nat
        BY <3>2
      <4>2. Total(g, N) \in Nat
        BY <1>3, <4>1, TotalNat
      <4> QED BY <2>1, <3>1, <3>2, <4>2
    <3> QED BY <2>1, <2>2, <3>2, <3>3 DEF q
  <2>5. \E m \in N : Average(Own(m)) >= Average(rows)
    <3> DEFINE q == Average(rows)
    <3>1. q \in Int /\ Average(rows) >= q
      BY <2>1
    <3> HIDE DEF q
    <3>2. PICK g : /\ \A m \in N : g[m] \in Int /\ (Average(Own(m)) >= q <=> g[m] >= 0)
                   /\ Total(g, N) = Total(Above(q), R)
      BY <1>8, <3>1
    <3>3. Total(g, N) >= 0
      BY <2>1, <3>1, <3>2
    <3>4. \E m \in N : g[m] >= 0
      <4> SUFFICES ASSUME \A m \in N : g[m] < 0 PROVE FALSE
        BY <3>2
      <4>1. Total(g, N) < 0
        BY <1>3, <2>3, <3>2, TotalNegative
      <4>2. Total(g, N) \in Int
        BY <1>3, <3>2, TotalType
      <4> QED BY <3>3, <4>1, <4>2
    <3> QED BY <3>2, <3>4 DEF q
  <2> QED BY <2>4, <2>5
<1>10. N # {} => R # {}
  OBVIOUS
<1> HIDE DEF N, M, Own, R
<1> QED BY <1>2, <1>4, <1>7, <1>9, <1>10 DEF AveragesAgree, R, s

\* A test's winner and confidence are what its samples are due.
LEMMA WinnerRight ==
  ASSUME NEW rows \in SUBSET DOMAIN trials, Looked PROVE WinnerIsDue(Results(rows))
<1> DEFINE N == 0 .. Variants - 1
           A == {i \in rows : trials[i].request}
           variant == [i \in DOMAIN trials |-> trials[i].variant]
           samples == [v \in N |->
                         Cardinality({i \in rows : trials[i].variant = v /\ trials[i].request})]
           scored == {v \in DOMAIN samples : samples[v] >= 10}
           first == Min(scored)
           second == Min(scored \ {first})
           least == Min({samples[first], samples[second]})
           c == (101 * Target + 90 * least) \div (2 * Target)
           t == Results(rows)
<1>1. /\ t.samples = samples /\ t.total_samples = Total(samples, DOMAIN samples)
      /\ t.winner = IF Cardinality(scored) >= 2 THEN first ELSE NoValue
      /\ t.confidence = IF Cardinality(scored) >= 2 THEN Min({c, 95}) ELSE NoValue
  BY DEF Results
<1>2. DOMAIN samples = N
  OBVIOUS
<1>3. ASSUME NEW v \in N PROVE samples[v] \in Nat
  <2>1. {i \in rows : trials[i].variant = v /\ trials[i].request} \in SUBSET DOMAIN trials
    OBVIOUS
  <2>2. Cardinality({i \in rows : trials[i].variant = v /\ trials[i].request}) \in Nat
    BY <2>1, Rows, FS_Subset, FS_CardinalityType
  <2> QED BY <2>2
<1>4. IsFiniteSet(N) /\ N \subseteq Int /\ Target \in Nat \ {0} /\ NoValue \notin Int
  BY Rows, FS_Interval
<1>5. Total(samples, N) <= Len(trials)
  <2>1. A \in SUBSET DOMAIN trials /\ Under(A, variant, N) \in SUBSET DOMAIN trials
    BY DEF Under
  <2>2. Counts(samples, N, A, variant)
    <3>1. ASSUME NEW v \in N
          PROVE  samples[v] = Cardinality({i \in A : variant[i] = v})
      <4>1. {i \in A : variant[i] = v} =
              {i \in rows : trials[i].variant = v /\ trials[i].request}
        OBVIOUS
      <4> QED BY <4>1
    <3> HIDE DEF samples, A, variant, N
    <3> QED BY <3>1 DEF Counts
  <2> HIDE DEF samples, A, variant, N
  <2>3. IsFiniteSet(A)
    BY <2>1, Rows, FS_Subset
  <2>4. Total(samples, N) = Cardinality(Under(A, variant, N))
    BY <1>4, <2>2, <2>3, CountOfGroups
  <2>5. Cardinality(Under(A, variant, N)) <= Cardinality(DOMAIN trials)
    BY <2>1, Rows, FS_Subset
  <2> QED BY <2>4, <2>5, Rows
<1>6. scored \in SUBSET N /\ IsFiniteSet(scored) /\ scored \subseteq Int
  <2>1. scored \in SUBSET N
    OBVIOUS
  <2> HIDE DEF scored
  <2>2. IsFiniteSet(scored)
    BY <1>4, <2>1, FS_Subset
  <2> QED BY <1>4, <2>1, <2>2
<1>7. ASSUME Cardinality(scored) >= 2
      PROVE  /\ first \in scored /\ second \in scored /\ first # second
             /\ first \in Int
  <2> HIDE DEF scored
  <2>1. scored # {}
    BY <1>7, FS_EmptySet
  <2>2. first \in scored
    BY <1>6, <2>1, MinIs
  <2> HIDE DEF first
  <2>3. scored \ {first} # {}
    <3> SUFFICES ASSUME scored = {first} PROVE FALSE
      BY <2>2
    <3>1. Cardinality({first}) = 1
      BY FS_Singleton
    <3> QED BY <1>7, <3>1
  <2>4. scored \ {first} \in SUBSET scored /\ scored \ {first} \subseteq Int
    BY <1>6
  <2>5. IsFiniteSet(scored \ {first})
    BY <1>6, <2>4, FS_Subset
  <2>6. second \in scored \ {first}
    BY <2>3, <2>4, <2>5, MinIs
  <2> QED BY <1>6, <2>2, <2>6
<1>8. \A v \in scored : v \in N /\ samples[v] >= 10 /\ samples[v] \in Nat
  BY <1>3
<1> HIDE DEF t, samples, N, scored, first, second
<1>9. ASSUME Cardinality(scored) >= 2
      PROVE  /\ least \in Nat /\ least >= 10
             /\ samples[first] >= least /\ samples[second] >= least
  <2>1. samples[first] \in Nat /\ samples[second] \in Nat /\ samples[first] >= 10 /\ samples[second] >= 10
    BY <1>7, <1>8, <1>9
  <2>2. least = IF samples[first] <= samples[second] THEN samples[first] ELSE samples[second]
    <3>1. samples[first] \in Int /\ samples[second] \in Int
      BY <2>1
    <3> QED BY <3>1, MinOfTwo
  <2> HIDE DEF least
  <2> QED BY <2>1, <2>2
<1> HIDE DEF least
<1>10. ASSUME Cardinality(scored) >= 2
       PROVE  /\ c \in Int /\ c >= 50
              /\ c >= 95 => 90 * least >= 89 * Target
  <2>1. 101 * Target + 90 * least \in Int /\ 2 * Target \in Nat \ {0}
    BY <1>4, <1>9, <1>10
  <2>2. c \in Int /\ (c >= 50 <=> 101 * Target + 90 * least >= (2 * Target) * 50)
    BY <2>1, Quotient
  <2>3. c >= 95 <=> 101 * Target + 90 * least >= (2 * Target) * 95
    BY <2>1, Quotient
  <2> HIDE DEF c
  <2> QED BY <1>4, <1>9, <1>10, <2>2, <2>3
<1> HIDE DEF c
<1>11. ASSUME Cardinality(scored) >= 2
       PROVE  t.confidence \in 50 .. 95 /\ (t.confidence = 95 => c >= 95)
  <2>1. t.confidence = Min({c, 95})
    BY <1>1, <1>11
  <2>2. Min({c, 95}) = IF c <= 95 THEN c ELSE 95
    BY <1>10, <1>11, MinOfTwo
  <2> QED BY <1>10, <1>11, <2>1, <2>2
<1> DEFINE near == {v \in N : 90 * samples[v] >= 89 * Target}
<1>12. ASSUME t.confidence = 95
       PROVE  Cardinality(near) >= 2
  <2>1. Cardinality(scored) >= 2
    BY <1>1, <1>4, <1>12
  <2>2. 90 * least >= 89 * Target
    BY <1>10, <1>11, <1>12, <2>1
  <2>3. first \in near /\ second \in near
    <3>1. first \in N /\ second \in N /\ samples[first] \in Nat /\ samples[second] \in Nat
      BY <1>7, <1>8, <2>1
    <3>2. 90 * samples[first] >= 89 * Target /\ 90 * samples[second] >= 89 * Target
      BY <1>4, <1>9, <2>1, <2>2, <3>1
    <3> QED BY <3>1, <3>2
  <2>4. near \in SUBSET N
    OBVIOUS
  <2> HIDE DEF near
  <2>5. IsFiniteSet(near)
    BY <1>4, <2>4, FS_Subset
  <2>6. IsFiniteSet({first}) /\ Cardinality({first}) = 1 /\ second \notin {first}
    BY <1>7, <2>1, FS_Singleton
  <2>7. Cardinality({first} \cup {second}) = 2
    BY <2>6, FS_AddElement
  <2>8. {first} \cup {second} \in SUBSET near
    BY <2>3
  <2>9. Cardinality({first} \cup {second}) <= Cardinality(near)
    BY <2>5, <2>8, FS_Subset
  <2>10. Cardinality(near) \in Nat
    BY <2>5, FS_CardinalityType
  <2> QED BY <2>7, <2>9, <2>10
<1>13. Cardinality(scored) \in Nat
  BY <1>6, FS_CardinalityType
<1>14. t.winner # NoValue <=> Cardinality(scored) >= 2
  BY <1>1, <1>4, <1>7
<1>15. ASSUME t.winner # NoValue PROVE t.winner \in scored /\ t.confidence \in 50 .. 95
  BY <1>1, <1>7, <1>11, <1>14, <1>15
<1>16. t.total_samples <= Len(trials)
  BY <1>1, <1>2, <1>5
<1>17. {v \in DOMAIN t.samples : t.samples[v] >= 10} = scored
  BY <1>1, <1>2 DEF scored
<1>18. {v \in DOMAIN t.samples : 90 * t.samples[v] >= 89 * Target} = near
  BY <1>1, <1>2
<1> HIDE DEF near
<1> QED BY <1>12, <1>14, <1>15, <1>16, <1>17, <1>18 DEF WinnerIsDue, t

\* A select returns all of its rows, or maxRows of them.
LEMMA CutIs ==
  ASSUME NEW S, NEW C \in Cuts(S)
  PROVE  /\ C \in SUBSET S
         /\ Cardinality(S) <= maxRows => C = S
         /\ ~(Cardinality(S) <= maxRows) => Cardinality(C) = maxRows
  BY DEF Cuts, kSubset

\* What the pages have read, of the rows of their windows.
LEMMA ReadIs ==
  ASSUME NEW r \in Reads
  PROVE  /\ r.dashboard \in Cuts(Since(hour - 7 * Day)) /\ r.week \in Cuts(Since(hour - 7 * Day))
         /\ r.day \in Cuts(Since(hour - Day)) /\ r.cache \in Cuts(Since(hour - Day))
         /\ r.summary \in Cuts(DOMAIN opinions) /\ r.results \in Cuts(DOMAIN trials)
  BY DEF Reads, Oldest

\* The windows, and the rows of the day among those of the week.
LEMMA Windows ==
  ASSUME Looked
  PROVE  LET day == Since(hour - Day)  week == Since(hour - 7 * Day)
         IN  /\ week \in SUBSET DOMAIN table /\ day \in SUBSET week
             /\ Past(week, hour - Day) \in SUBSET day
             /\ day \ Past(week, hour - Day) = Stamped(day, hour - Day)
             /\ \A W \in SUBSET week :
                  Past(W, hour - Day) \subseteq day /\ Past(W, hour - Day) \subseteq W
<1>1. \A i \in DOMAIN table : table[i].at \in Int
  BY Rows
<1>2. hour \in Int /\ Day \in Nat
  BY Rows
<1>3. \A x \in Int : /\ x >= hour - Day => x >= hour - 7 * Day
                     /\ x > hour - Day <=> x >= hour - Day /\ x # hour - Day
  BY <1>2
<1> DEFINE day == Since(hour - Day)
           week == Since(hour - 7 * Day)
<1>4. week \in SUBSET DOMAIN table /\ day \in SUBSET week
  BY <1>1, <1>3 DEF Since
<1>5. \A i \in DOMAIN table : i \in day <=> table[i].at >= hour - Day
  BY DEF Since
<1> HIDE DEF day, week
<1>6. \A W \in SUBSET week : Past(W, hour - Day) \subseteq day /\ Past(W, hour - Day) \subseteq W
  <2>1. ASSUME NEW i \in DOMAIN table, table[i].at > hour - Day PROVE i \in day
    BY <1>1, <1>3, <1>5, <2>1
  <2> QED BY <1>4, <2>1 DEF Past
<1>7. \A i \in week : i \in Past(week, hour - Day) <=> i \in day /\ ~(table[i].at = hour - Day)
  BY <1>1, <1>3, <1>4, <1>5 DEF Past
<1>8. day \ Past(week, hour - Day) = Stamped(day, hour - Day)
  BY <1>4, <1>7 DEF Stamped
<1>9. Past(week, hour - Day) \in SUBSET day
  BY <1>6
<1> QED BY <1>4, <1>6, <1>8, <1>9 DEF day, week

\* Whatever the cuts are, the dashboard counts no more requests of the last day than the analytics page.
LEMMA CountedOnce ==
  ASSUME Looked, NEW W \in Cuts(Since(hour - 7 * Day)), NEW D \in Cuts(Since(hour - Day))
  PROVE  Cardinality(Past(W, hour - Day)) <= Cardinality(D)
<1> DEFINE day == Since(hour - Day)
           week == Since(hour - 7 * Day)
           last == Past(W, hour - Day)
<1>1. W \in SUBSET week /\ D \in SUBSET day
  BY CutIs
<1>2. day \in SUBSET week /\ week \in SUBSET DOMAIN table
  BY Windows
<1>3. last \in SUBSET day /\ last \in SUBSET W
  BY <1>1, Windows
<1>4. /\ Cardinality(day) <= maxRows => D = day
      /\ ~(Cardinality(day) <= maxRows) => Cardinality(D) = maxRows
      /\ ~(Cardinality(week) <= maxRows) => Cardinality(W) = maxRows
  BY CutIs
<1> HIDE DEF day, week, last
<1>5. \A A \in SUBSET DOMAIN table : IsFiniteSet(A) /\ Cardinality(A) \in Nat
  BY Spent
<1>6. /\ Cardinality(last) <= Cardinality(day) /\ Cardinality(last) <= Cardinality(W)
      /\ Cardinality(day) <= Cardinality(week)
  BY <1>1, <1>2, <1>3, <1>5, FS_Subset
<1>7. /\ Cardinality(last) \in Nat /\ Cardinality(day) \in Nat /\ Cardinality(week) \in Nat
      /\ Cardinality(W) \in Nat /\ Cardinality(D) \in Nat /\ maxRows \in Nat
  BY <1>1, <1>2, <1>3, <1>5, Rows
<1> QED BY <1>4, <1>6, <1>7 DEF last

\* The fields of the dashboard, whichever names lead its lists.
LEMMA DashboardOf ==
  ASSUME NEW week, NEW d \in Dashboard(week)
  PROVE  LET last == Past(week, hour - Day)
         IN  /\ d.spend_7d = Spend(week)
             /\ d.spend_today = Spend(Past(week, Day * (hour \div Day)))
             /\ d.spend_by_day = SpendByDay(week)
             /\ d.p95_latency = P95(KnownLatencies(last))
             /\ d.request_count_24h = Cardinality(last)
             /\ d.successes = Successes(last)
             /\ d.top_models \subseteq DOMAIN GroupBy(last, ModelKey)
<1> DEFINE last == Past(week, hour - Day)
           today == Past(week, Day * (hour \div Day))
           M == Largest(Requests(GroupBy(last, ModelKey)), Top)
           R == Largest(GroupCost(GroupBy(last, RouteKey)), Top)
           Of(m, r) ==
             [spend_today |-> Spend(today), spend_7d |-> Spend(week),
              p95_latency |-> P95(KnownLatencies(last)), request_count_24h |-> Cardinality(last),
              successes |-> Successes(last), spend_by_day |-> SpendByDay(week),
              top_models |-> m, top_routes |-> r]
<1>1. PICK m \in M, r \in R : d = Of(m, r)
  <2>1. Dashboard(week) = {Of(m, r) : m \in M, r \in R}
    BY DEF Dashboard
  <2> HIDE DEF Of, M, R
  <2> QED BY <2>1
<1>2. m \subseteq DOMAIN GroupBy(last, ModelKey)
  BY DEF Largest, Requests
<1> QED BY <1>1, <1>2

\* The groups of the analytics page add up, for any rows.
LEMMA FiguresRight ==
  ASSUME NEW rows \in SUBSET DOMAIN table, NEW byHour, Looked
  PROVE  AddUp(Figures(rows, byHour))
<1> DEFINE f == Figures(rows, byHour)
           key == IF byHour THEN TimeKey ELSE DayKey
<1>1. /\ f.total_requests = Cardinality(rows) /\ f.total_cost = Spend(rows)
      /\ f.by_model = GroupBy(rows, ModelKey) /\ f.by_route = GroupBy(rows, RouteKey)
      /\ f.over_time = GroupBy(rows, key)
  BY DEF Figures
<1> HIDE DEF f, key
<1>2. GroupsAddUp(f.by_model, f)
  BY <1>1, Groups
<1>3. GroupsAddUp(f.by_route, f)
  BY <1>1, Groups
<1>4. GroupsAddUp(f.over_time, f)
  BY <1>1, Groups
<1> QED BY <1>2, <1>3, <1>4 DEF f, AddUp

\* What the pages answer, from what they have read.
Answered(r, d) == r \in Reads /\ d \in Dashboard(r.dashboard) /\ report = Shown(r, d)

\* The pages agree as far as nothing is cut.
LEMMA PagesRight ==
  ASSUME Looked, NEW r, NEW d, Answered(r, d) PROVE PagesAgree(d, report.cache)
<1> DEFINE day == Since(hour - Day)
           week == Since(hour - 7 * Day)
           last == Past(r.dashboard, hour - Day)
           first == Stamped(day, hour - Day)
           c == report.cache
<1>1. /\ report.day = Figures(r.day, TRUE) /\ report.week = Figures(r.week, FALSE)
      /\ c = CacheFigures(r.cache) /\ r \in Reads /\ d \in Dashboard(r.dashboard)
  BY DEF Answered, Shown
<1>2. /\ r.dashboard \in Cuts(week) /\ r.week \in Cuts(week) /\ r.day \in Cuts(day) /\ r.cache \in Cuts(day)
  BY <1>1, ReadIs
<1>3. /\ d.spend_7d = Spend(r.dashboard) /\ d.request_count_24h = Cardinality(last)
      /\ d.successes = Successes(last) /\ d.top_models \subseteq DOMAIN GroupBy(last, ModelKey)
  BY <1>1, DashboardOf
<1>4. /\ report.day.total_requests = Cardinality(r.day) /\ report.day.total_cost = Spend(r.day)
      /\ report.day.successes = Successes(r.day) /\ report.day.by_model = GroupBy(r.day, ModelKey)
      /\ report.week.total_cost = Spend(r.week)
  BY <1>1 DEF Figures
<1>5. /\ week \in SUBSET DOMAIN table /\ day \in SUBSET week
      /\ r.day \in SUBSET day /\ r.cache \in SUBSET day
  BY <1>2, CutIs, Windows
<1>6. /\ c.hits + c.misses = Cardinality(r.cache) /\ c.saved_cost <= Spend(r.cache)
      /\ c.misses = 0 => c.saved_cost = Spend(r.cache)
  <2>1. r.cache \in SUBSET DOMAIN table
    BY <1>5
  <2> QED BY <1>1, <2>1, CacheRight
<1> HIDE DEF last, c, first
<1>7. d.request_count_24h <= report.day.total_requests
  BY <1>2, <1>3, <1>4, CountedOnce DEF last
<1>8. Cardinality(r.cache) = Cardinality(r.day)
  <2> HIDE DEF day, week
  <2> QED BY <1>2, CutIs
<1>9. ASSUME Cardinality(day) <= maxRows PROVE r.cache = day /\ r.day = day
  <2> HIDE DEF day, week
  <2> QED BY <1>2, <1>9, CutIs
<1>10. ASSUME Cardinality(week) <= maxRows
       PROVE  /\ Cardinality(last) + Cardinality(first) = Cardinality(r.day)
              /\ Successes(last) + Successes(first) = Successes(r.day)
              /\ Spend(r.dashboard) = Spend(r.week)
              /\ DOMAIN GroupBy(last, ModelKey) \subseteq DOMAIN GroupBy(r.day, ModelKey)
  <2>1. r.dashboard = week /\ r.week = week
    <3> HIDE DEF day, week
    <3> QED BY <1>2, <1>10, CutIs
  <2>2. r.day = day
    <3>1. IsFiniteSet(week) /\ Cardinality(week) \in Nat /\ Cardinality(day) \in Nat /\ maxRows \in Nat
      <4>1. day \in SUBSET DOMAIN table
        BY <1>5
      <4> HIDE DEF day, week
      <4> QED BY <1>5, <4>1, Spent, Rows
    <3>2. Cardinality(day) <= Cardinality(week)
      <4> HIDE DEF day, week
      <4> QED BY <1>5, <3>1, FS_Subset
    <3> HIDE DEF day, week
    <3> QED BY <1>9, <1>10, <3>1, <3>2
  <2>3. last \in SUBSET day /\ first = day \ last
    BY <2>1, Windows DEF last, first
  <2> DEFINE ok == {i \in DOMAIN table : table[i].ok}
  <2>4. Successes(last) = Cardinality(last \cap ok) /\ Successes(first) = Cardinality(first \cap ok)
        /\ Successes(day) = Cardinality(day \cap ok)
    <3>1. \A S \in SUBSET DOMAIN table : Successes(S) = Cardinality(S \cap ok)
      <4>1. \A S \in SUBSET DOMAIN table : {i \in S : table[i].ok} = S \cap ok
        OBVIOUS
      <4> QED BY <4>1 DEF Successes
    <3>2. day \in SUBSET DOMAIN table
      BY <1>5
    <3> HIDE DEF ok, day, week
    <3> QED BY <2>3, <3>1, <3>2
  <2> HIDE DEF day, week, ok
  <2>5. IsFiniteSet(day)
    BY <1>5, Spent
  <2>6. \A A, B \in SUBSET day : A \cap B = {} => Cardinality(A) + Cardinality(B) = Cardinality(A \cup B)
    <3>1. SUFFICES ASSUME NEW A \in SUBSET day, NEW B \in SUBSET day, A \cap B = {}
                   PROVE  Cardinality(A) + Cardinality(B) = Cardinality(A \cup B)
      OBVIOUS
    <3>2. IsFiniteSet(A) /\ IsFiniteSet(B)
      BY <2>5, FS_Subset
    <3>3. Cardinality(A) \in Nat /\ Cardinality(B) \in Nat
      BY <3>2, FS_CardinalityType
    <3>4. Cardinality(A \cup B) = Cardinality(A) + Cardinality(B) - Cardinality(A \cap B)
      BY <3>2, FS_Union
    <3>5. Cardinality(A \cap B) = 0
      BY <3>1, FS_EmptySet
    <3> QED BY <3>3, <3>4, <3>5
  <2>7. Cardinality(last) + Cardinality(first) = Cardinality(day)
    <3>1. last \cup first = day /\ last \cap first = {} /\ first \in SUBSET day
      BY <2>3
    <3> QED BY <2>3, <2>6, <3>1
  <2>8. Successes(last) + Successes(first) = Successes(day)
    <3>1. /\ (last \cap ok) \cup (first \cap ok) = day \cap ok /\ (last \cap ok) \cap (first \cap ok) = {}
          /\ last \cap ok \in SUBSET day /\ first \cap ok \in SUBSET day
      BY <2>3
    <3> QED BY <2>4, <2>6, <3>1
  <2>9. DOMAIN GroupBy(last, ModelKey) \subseteq DOMAIN GroupBy(day, ModelKey)
    BY <2>3 DEF GroupBy
  <2> QED BY <2>1, <2>2, <2>7, <2>8, <2>9
<1> QED BY <1>3, <1>4, <1>6, <1>7, <1>8, <1>9, <1>10 DEF PagesAgree, c, first

\* What Report answers agrees.
LEMMA AnswerRight ==
  ASSUME Looked, NEW r, NEW d, Answered(r, d) PROVE FiguresAgree
<1>1. /\ report.dashboard = d /\ report.day = Figures(r.day, TRUE) /\ report.week = Figures(r.week, FALSE)
      /\ report.cache = CacheFigures(r.cache) /\ report.summary = Summary(r.summary)
      /\ report.results = Results(r.results) /\ report.read = r
      /\ r \in Reads /\ d \in Dashboard(r.dashboard)
  BY DEF Answered, Shown
<1> DEFINE last == Past(r.dashboard, hour - Day)
           slow == KnownLatencies(last)
<1>2. /\ r.dashboard \in SUBSET DOMAIN table /\ r.week \in SUBSET DOMAIN table
      /\ r.day \in SUBSET DOMAIN table /\ r.cache \in SUBSET DOMAIN table
      /\ r.summary \in SUBSET DOMAIN opinions /\ r.results \in SUBSET DOMAIN trials
  BY <1>1, ReadIs, CutIs, Windows
<1>3. PagesAgree(report.dashboard, report.cache)
  BY <1>1, PagesRight
<1>4. AddUp(report.day) /\ AddUp(report.week)
  BY <1>1, <1>2, FiguresRight
<1>5. BarsAddUp(report.dashboard, r.dashboard)
  BY <1>1, <1>2, DashboardOf, BarsRight
<1>6. ASSUME slow # {} PROVE IsP95(d.p95_latency, slow)
  <2>1. slow \in SUBSET DOMAIN table /\ \A i \in slow : table[i].ms # NoValue
    BY <1>2 DEF KnownLatencies, Past
  <2>2. d.p95_latency = P95(slow)
    BY <1>1, DashboardOf
  <2> HIDE DEF slow
  <2> QED BY <1>6, <2>1, <2>2, PercentileRight
<1>7. report.cache.unique_prompts <= report.cache.hits + report.cache.misses
  BY <1>1, <1>2, CacheRight
<1>8. AveragesAgree(report.summary, r.summary)
  BY <1>1, <1>2, AveragesRight
<1>9. WinnerIsDue(report.results)
  BY <1>1, <1>2, WinnerRight
<1> QED BY <1>1, <1>3, <1>4, <1>5, <1>6, <1>7, <1>8, <1>9 DEF FiguresAgree

\* The invariant: an answer is that of the tables as they are.
Reported == Looked /\ (report # Nothing => \E r, d : Answered(r, d))

LEMMA Reporting == RpSpec => []Reported
<1>1. ReportInit => Reported
  BY DEF ReportInit, Reported, Looked
<1>2. ASSUME Reported, [Report]_reportvars PROVE Reported'
  <2>1. UNCHANGED <<table, hour, opinions, trials, maxRows>>
    BY <1>2 DEF Report, reportvars, tablevars
  <2>2. Looked'
    BY <1>2, <2>1 DEF Reported, Looked
  <2>3. Reads' = Reads
    BY <2>1 DEF Reads, Oldest, Cuts, Since
  <2>4. \A r : Dashboard(r.dashboard)' = Dashboard(r.dashboard)
    BY <2>1 DEF Dashboard, Past, P95, KnownLatencies, Spend, Cost, Total, SpendByDay, DayKey, Largest,
                Requests, GroupBy, ModelKey, RouteKey, GroupCost, Successes, InOrder
  <2>5. \A r, d : Shown(r, d)' = Shown(r, d)
    <3>1. \A S, byHour : Figures(S, byHour)' = Figures(S, byHour)
      BY <2>1 DEF Figures, Spend, Cost, Total, DayKey, TimeKey, GroupBy, ModelKey, RouteKey, Successes
    <3>2. \A S : Results(S)' = Results(S)
      BY <2>1 DEF Results, Total
    <3>3. \A S : Summary(S)' = Summary(S)
      BY <2>1 DEF Summary, Total, Average, Scored
    <3>4. \A S : CacheFigures(S)' = CacheFigures(S)
      BY <2>1 DEF CacheFigures, Spend, Cost, Total
    <3> QED BY <3>1, <3>2, <3>3, <3>4 DEF Shown
  <2>6. CASE Report
    <3>1. PICK r \in Reads : \E d \in Dashboard(r.dashboard) : report' = Shown(r, d)
      BY <2>6 DEF Report
    <3>2. PICK d \in Dashboard(r.dashboard) : report' = Shown(r, d)
      BY <3>1
    <3>3. Answered(r, d)'
      BY <2>3, <2>4, <2>5, <3>2 DEF Answered
    <3> QED BY <2>2, <3>3 DEF Reported
  <2>7. CASE UNCHANGED reportvars
    <3>1. report' = report
      BY <2>7 DEF reportvars
    <3>2. \A r, d : Answered(r, d) => Answered(r, d)'
      BY <2>3, <2>4, <2>5, <3>1 DEF Answered
    <3> QED BY <1>2, <2>2, <3>1, <3>2 DEF Reported, Nothing
  <2> QED BY <1>2, <2>6, <2>7
<1> QED BY <1>1, <1>2, PTL DEF RpSpec

(***************************************************************************)
(* Of the rows that it has read each page is right, and they agree as far  *)
(* as no select is cut, whatever the rows, the time, the evaluations and   *)
(* the assignments are, wherever the API cuts a select, and whatever the   *)
(* length of a day, the number of variants and the target of a test.       *)
(***************************************************************************)
THEOREM PagesTellTheSame == RpSpec => []FiguresAgree
<1>1. Reported => FiguresAgree
  BY AnswerRight DEF Reported, FiguresAgree
<1> QED BY <1>1, Reporting, PTL
=============================================================================
