---------------------------- MODULE CacheProofs ----------------------------
(***************************************************************************)
(* What holds of the cache for every set of keys and callers, every limit  *)
(* and TTL, and every number of calls.                                     *)
(***************************************************************************)
EXTENDS Cache, FiniteSetTheorems, TLAPS

(***************************************************************************)
(* The map holds finitely many keys, even if there are infinitely many to  *)
(* choose from.  The two bounds on the size are not inductive without it,  *)
(* nor without the types.                                                  *)
(***************************************************************************)
IInv ==
  /\ TypeOK
  /\ IsFiniteSet(Stored)
  /\ SizeBound
  /\ EntriesNeverOvercounts

-----------------------------------------------------------------------------
\* evictLRU takes at least one entry of a map that has any, and never more than it has.
LEMMA RemoveCountBounds ==
  ASSUME NEW n \in Nat
  PROVE  /\ RemoveCount(n) \in Nat
         /\ RemoveCount(n) <= n
         /\ n > 0 => RemoveCount(n) >= 1
  BY DEF RemoveCount

\* After a Set the map holds what eviction left and the new key.
LEMMA StoredAfterSet ==
  ASSUME NEW k \in Keys, NEW V, TypeOK,
         entries' = [j \in Keys |-> IF j = k THEN sets + 1
                                    ELSE IF j \in V THEN Absent ELSE entries[j]]
  PROVE  Stored' = (Stored \ V) \cup {k}
  BY BoundsAssumption DEF TypeOK, Stored, Absent

\* What a Set evicts is part of a finite map: it can be counted, and makes room.
LEMMA EvictedBounds ==
  ASSUME IsFiniteSet(Stored), NEW V \in Evicted
  PROVE  /\ V \subseteq Stored
         /\ IsFiniteSet(V) /\ Cardinality(V) \in Nat
         /\ Cardinality(Stored \ V) = Cardinality(Stored) - Cardinality(V)
         /\ Cardinality(Stored) >= MaxEntries =>
              Cardinality(V) = RemoveCount(Cardinality(Stored))
<1>1. V \subseteq Stored
  BY DEF Evicted, Victims
<1>2. IsFiniteSet(V) /\ Cardinality(V) \in Nat
  BY <1>1, FS_Subset, FS_CardinalityType
<1>3. Cardinality(Stored \ V) = Cardinality(Stored) - Cardinality(V)
  <2>1. Stored \cap V = V
    BY <1>1
  <2> QED BY <2>1, FS_Difference
<1>4. Cardinality(Stored) >= MaxEntries =>
        Cardinality(V) = RemoveCount(Cardinality(Stored))
  BY DEF Evicted, Victims
<1> QED BY <1>1, <1>2, <1>3, <1>4

-----------------------------------------------------------------------------
LEMMA InitIInv == Init => IInv
<1> SUFFICES ASSUME Init PROVE IInv
  OBVIOUS
<1>1. TypeOK
  BY ConfigAssumption, BoundsAssumption
     DEF Init, TypeOK, Entry, Stats, Labels, Ids, Absent
<1>2. Stored = {}
  BY DEF Init, Stored
<1>3. IsFiniteSet(Stored) /\ Cardinality(Stored) = 0
  BY <1>2, FS_EmptySet
<1> QED
  BY <1>1, <1>3, ConfigAssumption DEF IInv, SizeBound, Limit, EntriesNeverOvercounts, Init

(***************************************************************************)
(* A step that leaves the map alone, or takes keys out of it, keeps the    *)
(* bound on its size; one that also leaves the statistic keeps both.       *)
(***************************************************************************)
LEMMA Shrink ==
  ASSUME IInv, Stored' \subseteq Stored
  PROVE  /\ IsFiniteSet(Stored')
         /\ Cardinality(Stored') \in Nat
         /\ Cardinality(Stored) \in Nat
         /\ SizeBound'
<1>1. IsFiniteSet(Stored') /\ Cardinality(Stored') <= Cardinality(Stored)
  BY FS_Subset DEF IInv
<1>2. Cardinality(Stored') \in Nat /\ Cardinality(Stored) \in Nat
  BY <1>1, FS_CardinalityType DEF IInv
<1> QED
  BY <1>1, <1>2, ConfigAssumption DEF IInv, SizeBound, Limit

\* The steps of a Get that only look or touch an entry it holds.
LEMMA GetIInv ==
  ASSUME IInv, NEW c \in Callers, Get(c)
  PROVE  IInv'
<1> USE DEF IInv
<1>1. ASSUME NEW k \in Keys, Lookup(c, k) PROVE IInv'
  <2>1. TypeOK'
    BY <1>1, BoundsAssumption DEF Lookup, TypeOK, Idle, Labels, Absent
  <2>2. Stored' = Stored /\ stats' = stats
    BY <1>1 DEF Lookup, Stored
  <2> QED BY <2>1, <2>2 DEF SizeBound, Limit, EntriesNeverOvercounts
<1>2. CASE JudgeExpiry(c)
  <2>1. TypeOK'
    BY <1>2 DEF JudgeExpiry, TypeOK, Labels
  <2>2. Stored' = Stored /\ stats' = stats
    BY <1>2 DEF JudgeExpiry, Stored
  <2> QED BY <2>1, <2>2 DEF SizeBound, Limit, EntriesNeverOvercounts
<1>3. CASE DropExpired(c)
  <2>1. TypeOK'
    <3>1. stats' \in Stats
      <4>1. stats \in Stats
        BY DEF TypeOK
      <4>2. stats' = [hits |-> stats.hits, misses |-> stats.misses,
                      evictions |-> stats.evictions + 1, entries |-> stats.entries - 1]
        BY <1>3, <4>1 DEF DropExpired, Stats
      <4> QED BY <4>1, <4>2 DEF Stats
    <3>2. entries' \in [Keys -> Ids \cup {Absent}]
      BY <1>3 DEF DropExpired, TypeOK
    <3>3. pc' \in [Callers -> Labels]
      BY <1>3 DEF DropExpired, TypeOK, Labels
    <3> QED BY <1>3, <3>1, <3>2, <3>3 DEF DropExpired, TypeOK
  <2>2. Stored' = Stored \ {key[c]}
    BY <1>3 DEF DropExpired, TypeOK, Stored, Absent
  <2>3. Cardinality(Stored') >= Cardinality(Stored) - 1 /\ Cardinality(Stored') \in Nat
    <3>1. Cardinality(Stored) \in Nat /\ IsFiniteSet(Stored')
      BY <2>2, FS_RemoveElement, FS_CardinalityType
    <3>2. Cardinality(Stored') \in Nat
      BY <3>1, FS_CardinalityType
    <3>3. Cardinality(Stored') = IF key[c] \in Stored THEN Cardinality(Stored) - 1
                                                     ELSE Cardinality(Stored)
      BY <2>2, FS_RemoveElement
    <3> QED BY <3>1, <3>2, <3>3
  <2>4. stats'.entries = stats.entries - 1
    BY <1>3 DEF DropExpired, TypeOK, Stats
  <2>5. EntriesNeverOvercounts'
    <3>1. stats.entries \in Int /\ Cardinality(Stored) \in Nat
      BY FS_CardinalityType DEF TypeOK, Stats
    <3> QED BY <3>1, <2>3, <2>4 DEF EntriesNeverOvercounts
  <2>6. Stored' \subseteq Stored
    BY <2>2
  <2> QED BY <2>1, <2>5, <2>6, Shrink
<1>4. CASE Touch(c)
  <2>1. TypeOK'
    <3>1. heap' \in [Ids -> Entry]
      <4>1. CASE held[c] \in Ids
        <5> DEFINE e == [heap[held[c]] EXCEPT !.hitCount = heap[held[c]].hitCount + 1,
                                              !.lastAccessedAt = now]
        <5>1. heap[held[c]] \in Entry /\ now \in Nat
          BY <4>1 DEF TypeOK
        <5>2. heap[held[c]].hitCount + 1 \in Nat
          BY <5>1 DEF Entry
        <5>3. heap' = [heap EXCEPT ![held[c]] = e]
          BY <1>4 DEF Touch, TypeOK
        <5>4. e \in Entry
          BY <5>1, <5>2 DEF Entry
        <5> HIDE DEF e
        <5> QED BY <5>3, <5>4 DEF TypeOK
      <4>2. CASE held[c] \notin Ids
        <5>1. heap' = heap
          BY <1>4, <4>2 DEF Touch, TypeOK
        <5> QED BY <5>1 DEF TypeOK
      <4> QED BY <4>1, <4>2
    <3>2. pc' \in [Callers -> Labels]
      BY <1>4 DEF Touch, TypeOK, Labels
    <3> QED BY <1>4, <3>1, <3>2 DEF Touch, TypeOK
  <2>2. Stored' = Stored /\ stats' = stats
    BY <1>4 DEF Touch, Stored
  <2> QED BY <2>1, <2>2 DEF SizeBound, Limit, EntriesNeverOvercounts
<1>5. CASE Return(c)
  <2>1. TypeOK'
    BY <1>5 DEF Return, TypeOK, Labels, Stats, Absent
  <2>2. Stored' = Stored /\ stats'.entries = stats.entries
    BY <1>5 DEF Return, Stored, TypeOK, Stats
  <2> QED BY <2>1, <2>2 DEF SizeBound, Limit, EntriesNeverOvercounts
<1> QED BY <1>1, <1>2, <1>3, <1>4, <1>5 DEF Get

\* Set evicts first, then stores: it never leaves more than the limit.
LEMMA SetIInv ==
  ASSUME IInv, NEW k \in Keys, Set(k)
  PROVE  IInv'
<1> USE DEF IInv
<1> DEFINE n == Cardinality(Stored)
<1>1. PICK V \in Evicted :
        /\ entries' = [j \in Keys |-> IF j = k THEN sets + 1
                                      ELSE IF j \in V THEN Absent ELSE entries[j]]
        /\ stats' = [stats EXCEPT !.evictions = @ + Cardinality(V),
                                  !.entries = Cardinality(Stored')]
  BY DEF Set
<1>2. n \in Nat
  BY FS_CardinalityType
<1>3. Stored' = (Stored \ V) \cup {k}
  BY <1>1, StoredAfterSet
<1>4. /\ V \subseteq Stored /\ Cardinality(V) \in Nat
      /\ Cardinality(Stored \ V) = n - Cardinality(V)
      /\ n >= MaxEntries => Cardinality(V) = RemoveCount(n)
  BY EvictedBounds
<1>5. IsFiniteSet(Stored \ V)
  BY FS_Subset
<1>6. IsFiniteSet(Stored') /\ Cardinality(Stored') <= n - Cardinality(V) + 1
  <2>1. IsFiniteSet(Stored')
    BY <1>3, <1>5, FS_AddElement
  <2>2. Cardinality(Stored') = IF k \in Stored \ V THEN Cardinality(Stored \ V)
                                                  ELSE Cardinality(Stored \ V) + 1
    BY <1>3, <1>5, FS_AddElement
  <2> QED BY <2>1, <2>2, <1>2, <1>4
<1>7. Cardinality(Stored') \in Nat
  BY <1>6, FS_CardinalityType
<1>8. SizeBound'
  <2>1. CASE n >= MaxEntries
    BY <2>1, <1>2, <1>4, <1>6, <1>7, RemoveCountBounds, ConfigAssumption
       DEF SizeBound, Limit
  <2>2. CASE n < MaxEntries
    BY <2>2, <1>2, <1>4, <1>6, <1>7, ConfigAssumption DEF SizeBound, Limit
  <2> QED BY <2>1, <2>2, <1>2, ConfigAssumption
<1>9. stats' = [hits |-> stats.hits, misses |-> stats.misses,
                evictions |-> stats.evictions + Cardinality(V),
                entries |-> Cardinality(Stored')]
  BY <1>1 DEF TypeOK, Stats
<1>10. EntriesNeverOvercounts'
  BY <1>7, <1>9 DEF EntriesNeverOvercounts
<1>11. TypeOK'
  <2>1. stats' \in Stats
    BY <1>4, <1>7, <1>9 DEF TypeOK, Stats
  <2>2. sets' = sets + 1 /\ sets + 1 \in Ids
    BY BoundsAssumption DEF Set, TypeOK, Ids
  <2>3. entries' \in [Keys -> Ids \cup {Absent}]
    BY <1>1, <2>2 DEF TypeOK
  <2>4. [expiresAt |-> now + TTL, lastAccessedAt |-> now, hitCount |-> 0] \in Entry
    BY ConfigAssumption DEF TypeOK, Entry
  <2>5. heap' \in [Ids -> Entry]
    BY <2>4 DEF Set, TypeOK
  <2>6. sets' \in 0 .. MaxSets
    BY <2>2, BoundsAssumption DEF Ids
  <2> QED BY <2>1, <2>3, <2>5, <2>6 DEF Set, TypeOK
<1> QED BY <1>6, <1>8, <1>10, <1>11

\* The eviction loop only takes keys out, and counts what is left.
LEMMA EvictionTickIInv ==
  ASSUME IInv, EvictionTick
  PROVE  IInv'
<1> USE DEF IInv
<1>1. Stored' \subseteq Stored
  BY DEF EvictionTick, Stored, TypeOK
<1>2. SizeBound' /\ IsFiniteSet(Stored') /\ Cardinality(Stored') \in Nat
  BY <1>1, Shrink
<1>3. Cardinality(Dead) \in Nat
  BY FS_Subset, FS_CardinalityType DEF Dead
<1>4. stats' = [hits |-> stats.hits, misses |-> stats.misses,
                evictions |-> stats.evictions + Cardinality(Dead),
                entries |-> Cardinality(Stored')]
  BY DEF EvictionTick, TypeOK, Stats
<1>5. EntriesNeverOvercounts'
  BY <1>2, <1>4 DEF EntriesNeverOvercounts
<1>6. TypeOK'
  <2>1. stats' \in Stats
    BY <1>2, <1>3, <1>4 DEF TypeOK, Stats
  <2>2. entries' \in [Keys -> Ids \cup {Absent}]
    BY DEF EvictionTick, TypeOK
  <2> QED BY <2>1, <2>2 DEF EvictionTick, TypeOK
<1> QED BY <1>2, <1>5, <1>6

\* Invalidate counts one entry out and takes one out.
LEMMA InvalidateIInv ==
  ASSUME IInv, NEW k \in Keys, Invalidate(k)
  PROVE  IInv'
<1> USE DEF IInv
<1>1. Stored' = Stored \ {k} /\ k \in Stored
  BY DEF Invalidate, Stored, TypeOK, Absent
<1>2. Cardinality(Stored') = Cardinality(Stored) - 1 /\ Cardinality(Stored) \in Nat
  BY <1>1, FS_RemoveElement, FS_CardinalityType
<1>3. SizeBound' /\ IsFiniteSet(Stored')
  BY <1>1, Shrink
<1>4. stats.entries \in Int /\ stats'.entries = stats.entries - 1 /\ stats' \in Stats
  BY DEF Invalidate, TypeOK, Stats
<1>5. EntriesNeverOvercounts'
  BY <1>2, <1>4 DEF EntriesNeverOvercounts
<1>6. TypeOK'
  BY <1>4 DEF Invalidate, TypeOK
<1> QED BY <1>3, <1>5, <1>6

LEMMA ClearIInv ==
  ASSUME IInv, Clear
  PROVE  IInv'
<1> USE DEF IInv
<1>1. Stored' = {}
  BY DEF Clear, Stored
<1>2. SizeBound' /\ IsFiniteSet(Stored') /\ Cardinality(Stored') = 0
  BY <1>1, Shrink, FS_EmptySet
<1>3. stats'.entries = 0 /\ stats' \in Stats
  BY DEF Clear, TypeOK, Stats
<1>4. TypeOK'
  BY <1>3 DEF Clear, TypeOK
<1> QED BY <1>2, <1>3, <1>4 DEF EntriesNeverOvercounts

LEMMA TickIInv ==
  ASSUME IInv, Tick \/ UNCHANGED vars
  PROVE  IInv'
<1> USE DEF IInv
<1>1. TypeOK'
  BY DEF Tick, vars, TypeOK
<1>2. Stored' = Stored /\ stats' = stats
  BY DEF Tick, vars, Stored
<1> QED BY <1>1, <1>2 DEF SizeBound, Limit, EntriesNeverOvercounts

LEMMA NextIInv == IInv /\ [Next]_vars => IInv'
  BY GetIInv, SetIInv, InvalidateIInv, ClearIInv, EvictionTickIInv, TickIInv DEF Next

-----------------------------------------------------------------------------
THEOREM Invariance == Spec => []IInv
  BY InitIInv, NextIInv, PTL DEF Spec

(***************************************************************************)
(* Every reachable state is well typed: no counter but Entries goes below  *)
(* zero, and no caller holds an entry that was never stored.               *)
(***************************************************************************)
THEOREM TypeCorrect == Spec => []TypeOK
<1>1. IInv => TypeOK
  BY DEF IInv
<1> QED BY <1>1, Invariance, PTL

(***************************************************************************)
(* The cache never holds more than MaxEntries responses (cache.go, Set),   *)
(* whatever Gets of expired entries do between its steps.                  *)
(***************************************************************************)
THEOREM BoundedSize == Spec => []SizeBound
<1>1. IInv => SizeBound
  BY DEF IInv
<1> QED BY <1>1, Invariance, PTL

(***************************************************************************)
(* The Entries statistic never exceeds the number of cached responses.     *)
(***************************************************************************)
THEOREM EntriesAtMostSize == Spec => []EntriesNeverOvercounts
<1>1. IInv => EntriesNeverOvercounts
  BY DEF IInv
<1> QED BY <1>1, Invariance, PTL

-----------------------------------------------------------------------------
(***************************************************************************)
(* The cache implements LossyMap.  Beside the types it takes that no entry *)
(* is numbered beyond the Sets made so far.                                *)
(***************************************************************************)
Numbered == entries \in [Keys -> 0 .. sets]

AnswerMap == [c \in Callers |-> Answer(c)]

LEMMA NumberedInv == Spec => []Numbered
<1>1. Init => Numbered
  BY DEF Init, Numbered, Absent
<1>2. TypeOK /\ Numbered /\ [Next]_vars => Numbered'
  <2> SUFFICES ASSUME TypeOK, Numbered, [Next]_vars PROVE Numbered'
    OBVIOUS
  <2> USE BoundsAssumption DEF TypeOK, Numbered, Absent
  <2>1. ASSUME NEW c \in Callers, Get(c) PROVE Numbered'
    BY <2>1 DEF Get, Lookup, JudgeExpiry, DropExpired, Touch, Return
  <2>2. ASSUME NEW k \in Keys, Set(k) PROVE Numbered'
    BY <2>2 DEF Set
  <2>3. ASSUME NEW k \in Keys, Invalidate(k) PROVE Numbered'
    BY <2>3 DEF Invalidate
  <2>4. CASE Clear \/ EvictionTick \/ Tick \/ UNCHANGED vars
    BY <2>4 DEF Clear, EvictionTick, Tick, vars
  <2> QED BY <2>1, <2>2, <2>3, <2>4 DEF Next
<1> QED BY <1>1, <1>2, TypeCorrect, PTL DEF Spec

\* Outside a Get a caller has no answer; inside one it has its entry or a miss.
LEMMA AnswerOf ==
  ASSUME TypeOK, NEW c \in Callers
  PROVE  /\ pc[c] = "idle" => Answer(c) = -1
         /\ pc[c] \in {"found", "live", "hit"} => Answer(c) = held[c]
         /\ pc[c] \in {"expired", "miss"} => Answer(c) = Absent
         /\ pc[c] # "idle" => Answer(c) # -1
  BY BoundsAssumption DEF TypeOK, Labels, Answer, Absent, Ids

\* A step that moves caller c alone changes no other caller's answer.
LEMMA OnlyCaller ==
  ASSUME NEW c \in Callers,
         \A d \in Callers \ {c} : pc'[d] = pc[d] /\ held'[d] = held[d]
  PROVE  AnswerMap' = [AnswerMap EXCEPT ![c] = Answer(c)']
<1>1. ASSUME NEW d \in Callers, d # c PROVE Answer(d)' = Answer(d)
  BY <1>1 DEF Answer
<1> QED BY <1>1 DEF AnswerMap

LEMMA LookupRefines ==
  ASSUME TypeOK, TypeOK', NEW c \in Callers, NEW k \in Keys, Lookup(c, k)
  PROVE  Abstract!Look(c, k)
<1>1. AnswerMap' = [AnswerMap EXCEPT ![c] = Answer(c)']
  BY OnlyCaller DEF Lookup, TypeOK
<1>2. AnswerMap[c] = -1
  BY AnswerOf DEF AnswerMap, Lookup, Idle
<1>3. Answer(c)' \in {entries[k], Absent}
  BY DEF Lookup, TypeOK, Answer
<1> QED BY <1>1, <1>2, <1>3 DEF Abstract!Look, Abstract!Miss, Abstract!NoCall,
                                Absent, Lookup, AnswerMap

LEMMA GetRefines ==
  ASSUME TypeOK, TypeOK', Numbered, NEW c \in Callers, Get(c)
  PROVE  Abstract!Next \/ UNCHANGED <<entries, sets, AnswerMap>>
<1>1. ASSUME NEW k \in Keys, Lookup(c, k) PROVE Abstract!Next
  BY <1>1, LookupRefines DEF Abstract!Next
<1>2. CASE JudgeExpiry(c)
  <2>1. AnswerMap' = [AnswerMap EXCEPT ![c] = Answer(c)']
    BY <1>2, OnlyCaller DEF JudgeExpiry, TypeOK
  <2>2. AnswerMap[c] = held[c] /\ AnswerMap[c] # -1
    BY <1>2, AnswerOf DEF AnswerMap, JudgeExpiry
  <2>3. Answer(c)' = Absent \/ Answer(c)' = held[c]
    BY <1>2 DEF JudgeExpiry, TypeOK, Answer
  <2>4. CASE Answer(c)' = held[c]
    BY <1>2, <2>1, <2>2, <2>4 DEF JudgeExpiry, AnswerMap
  <2>5. CASE Answer(c)' = Absent
    <3>1. Abstract!Forget(c)
      BY <1>2, <2>1, <2>2, <2>5
         DEF Abstract!Forget, Abstract!Miss, Abstract!NoCall, Absent, JudgeExpiry, AnswerMap
    <3> QED BY <3>1 DEF Abstract!Next
  <2> QED BY <2>3, <2>4, <2>5
<1>3. CASE DropExpired(c)
  <2>1. Answer(c) = Absent /\ Answer(c)' = Absent
    BY <1>3, AnswerOf DEF DropExpired, TypeOK, Answer
  <2>2. AnswerMap' = AnswerMap
    BY <1>3, <2>1, OnlyCaller DEF DropExpired, TypeOK, AnswerMap
  <2>3. Abstract!Lose
    BY <1>3, <2>2 DEF Abstract!Lose, Abstract!LoseAmong, Abstract!Miss, Absent,
                      DropExpired, TypeOK, Numbered, AnswerMap
  <2> QED BY <2>3 DEF Abstract!Next
<1>4. CASE Touch(c)
  <2>1. Answer(c) = held[c] /\ Answer(c)' = held[c]
    BY <1>4, AnswerOf DEF Touch, TypeOK, Answer
  <2>2. AnswerMap' = AnswerMap
    BY <1>4, <2>1, OnlyCaller DEF Touch, TypeOK, AnswerMap
  <2> QED BY <1>4, <2>2 DEF Touch
<1>5. CASE Return(c)
  <2>1. AnswerMap' = [AnswerMap EXCEPT ![c] = Answer(c)']
    BY <1>5, OnlyCaller DEF Return, TypeOK
  <2>2. AnswerMap[c] # -1
    BY <1>5, AnswerOf DEF AnswerMap, Return
  <2>3. Answer(c)' = -1
    BY <1>5 DEF Return, TypeOK, Answer
  <2>4. Abstract!Return(c)
    BY <1>5, <2>1, <2>2, <2>3 DEF Abstract!Return, Abstract!NoCall, Return, AnswerMap
  <2> QED BY <2>4 DEF Abstract!Next
<1> QED BY <1>1, <1>2, <1>3, <1>4, <1>5 DEF Get

LEMMA StepRefines ==
  ASSUME TypeOK, TypeOK', Numbered, Numbered', [Next]_vars
  PROVE  [Abstract!Next]_<<entries, sets, AnswerMap>>
<1>1. ASSUME NEW c \in Callers, Get(c)
      PROVE  Abstract!Next \/ UNCHANGED <<entries, sets, AnswerMap>>
  BY <1>1, GetRefines
<1>2. ASSUME NEW k \in Keys, Set(k) PROVE Abstract!Next
  <2>1. AnswerMap' = AnswerMap
    BY <1>2 DEF Set, AnswerMap, Answer
  <2>2. Abstract!Put(k)
    BY <1>2, <2>1 DEF Abstract!Put, Abstract!LoseAmong, Abstract!Miss, Absent,
                      Set, TypeOK, Numbered, AnswerMap
  <2> QED BY <2>2 DEF Abstract!Next
<1>3. ASSUME NEW k \in Keys, Invalidate(k) PROVE Abstract!Lose
  BY <1>3 DEF Abstract!Lose, Abstract!LoseAmong, Abstract!Miss, Absent,
              Invalidate, TypeOK, Numbered, AnswerMap, Answer
<1>4. CASE Clear \/ EvictionTick
  <2>1. AnswerMap' = AnswerMap /\ sets' = sets
    <3>1. pc' = pc /\ held' = held /\ sets' = sets
      BY <1>4 DEF Clear, EvictionTick
    <3> QED BY <3>1 DEF AnswerMap, Answer
  <2>2. \A k \in Keys : entries'[k] \in {entries[k], Absent}
    BY <1>4 DEF Clear, EvictionTick, TypeOK
  <2>3. Abstract!Lose
    BY <2>1, <2>2 DEF Abstract!Lose, Abstract!LoseAmong, Abstract!Miss, Absent,
                      Numbered, AnswerMap
  <2> QED BY <2>3 DEF Abstract!Next
<1>5. CASE Tick \/ UNCHANGED vars
  <2>1. entries' = entries /\ sets' = sets /\ pc' = pc /\ held' = held
    BY <1>5 DEF Tick, vars
  <2>2. AnswerMap' = AnswerMap
    BY <2>1 DEF AnswerMap, Answer
  <2> QED BY <2>1, <2>2
<1> QED BY <1>1, <1>2, <1>3, <1>4, <1>5 DEF Next, Abstract!Next

(***************************************************************************)
(* The cache keeps the promise of LossyMap (cache.go, Get and Set): a hit  *)
(* is the response most recently stored under the key when Get looked, for *)
(* every interleaving of any number of callers.                            *)
(***************************************************************************)
THEOREM CacheImplementsLossyMap == Spec => ImplementsLossyMap
<1>1. Init => Abstract!Init
  BY DEF Init, Abstract!Init, Abstract!Miss, Abstract!NoCall, Absent, Answer
<1>2. ASSUME TypeOK, TypeOK', Numbered, Numbered', [Next]_vars
      PROVE  [Abstract!Next]_<<entries, sets, AnswerMap>>
  BY <1>2, StepRefines
<1> QED BY <1>1, <1>2, TypeCorrect, NumberedInv, PTL
           DEF Spec, ImplementsLossyMap, Abstract!Spec, AnswerMap

-----------------------------------------------------------------------------
(***************************************************************************)
(* An entry carries the time of its last use, or a later one: that of the  *)
(* last Get that was answered with it, and of a Get about to be.           *)
(***************************************************************************)
UsesSeen ==
  /\ \A i \in Ids : used[i] <= heap[i].lastAccessedAt /\ heap[i].lastAccessedAt <= now
  /\ \A c \in Callers :
       /\ asked[c] <= now
       /\ pc[c] \in {"found", "expired", "live", "hit"} => held[c] \in Ids
       /\ pc[c] = "hit" => asked[c] <= heap[held[c]].lastAccessedAt

LEMMA GetSeesUses ==
  ASSUME TypeOK, UsesSeen, NEW c \in Callers, Get(c)
  PROVE  UsesSeen'
<1> USE DEF UsesSeen, TypeOK
<1>1. ASSUME NEW k \in Keys, Lookup(c, k) PROVE UsesSeen'
  <2>1. asked' = [asked EXCEPT ![c] = now] /\ now' = now /\ heap' = heap /\ used' = used
    BY <1>1 DEF Lookup
  <2>2. pc'[c] \in {"found", "miss"} /\ (pc'[c] = "found" => held'[c] \in Ids)
    BY <1>1 DEF Lookup
  <2>3. \A d \in Callers \ {c} : pc'[d] = pc[d] /\ held'[d] = held[d]
    BY <1>1 DEF Lookup
  <2> QED BY <2>1, <2>2, <2>3
<1>2. CASE JudgeExpiry(c)
  <2>1. pc'[c] \in {"expired", "live"} /\ pc[c] = "found" /\ \A d \in Callers \ {c} : pc'[d] = pc[d]
    BY <1>2 DEF JudgeExpiry
  <2> QED BY <1>2, <2>1 DEF JudgeExpiry
<1>3. CASE DropExpired(c)
  <2>1. pc'[c] = "miss" /\ \A d \in Callers \ {c} : pc'[d] = pc[d]
    BY <1>3 DEF DropExpired
  <2> QED BY <1>3, <2>1 DEF DropExpired
<1>4. CASE Touch(c)
  <2>1. held[c] \in Ids
    BY <1>4 DEF Touch
  <2>2. /\ \A i \in Ids \ {held[c]} : heap'[i] = heap[i]
        /\ heap'[held[c]].lastAccessedAt = now
    <3>1. heap[held[c]] \in Entry
      BY <2>1
    <3>2. heap' = [heap EXCEPT ![held[c]] = [heap[held[c]] EXCEPT !.hitCount = heap[held[c]].hitCount + 1,
                                                                   !.lastAccessedAt = now]]
      BY <1>4 DEF Touch
    <3> QED BY <2>1, <3>1, <3>2 DEF Entry
  <2>3. /\ pc' = [pc EXCEPT ![c] = "hit"]
        /\ UNCHANGED <<now, held, asked, used>>
    BY <1>4 DEF Touch
  <2>4. \A i \in Ids : /\ heap[i].lastAccessedAt <= heap'[i].lastAccessedAt
                       /\ heap'[i].lastAccessedAt <= now
    BY <2>1, <2>2 DEF Entry
  <2>5. \A i \in Ids : used[i] \in Nat /\ heap[i].lastAccessedAt \in Nat /\ heap'[i].lastAccessedAt \in Nat
    BY <2>1, <2>2 DEF Entry
  <2>6. \A i \in Ids : used'[i] <= heap'[i].lastAccessedAt /\ heap'[i].lastAccessedAt <= now'
    BY <2>3, <2>4, <2>5
  <2>7. pc'[c] = "hit" /\ asked'[c] <= heap'[held'[c]].lastAccessedAt
    BY <2>2, <2>3
  <2>8. \A d \in Callers \ {c} : pc'[d] = pc[d]
    BY <2>3
  <2>9. \A d \in Callers : pc'[d] = "hit" => asked'[d] <= heap'[held'[d]].lastAccessedAt
    <3>1. ASSUME NEW d \in Callers \ {c}, pc'[d] = "hit" PROVE asked[d] <= heap'[held[d]].lastAccessedAt
      <4>1. held[d] \in Ids /\ asked[d] <= heap[held[d]].lastAccessedAt /\ asked[d] \in Nat
        BY <2>8, <3>1
      <4> QED BY <2>4, <2>5, <4>1
    <3> QED BY <2>3, <2>7, <3>1
  <2>10. \A d \in Callers : /\ asked'[d] <= now'
                            /\ pc'[d] \in {"found", "expired", "live", "hit"} => held'[d] \in Ids
    BY <2>1, <2>3, <2>8
  <2> QED BY <2>6, <2>9, <2>10
<1>5. CASE Return(c)
  <2>1. /\ pc'[c] = "idle" /\ asked'[c] = 0
        /\ \A d \in Callers \ {c} : pc'[d] = pc[d] /\ asked'[d] = asked[d] /\ held'[d] = held[d]
        /\ heap' = heap /\ now' = now
    BY <1>5 DEF Return
  <2>2. used' = used \/ (pc[c] = "hit" /\ used' = [used EXCEPT ![held[c]] = IF asked[c] > used[held[c]]
                                                                            THEN asked[c] ELSE used[held[c]]])
    BY <1>5 DEF Return
  <2>3. \A i \in Ids : used'[i] <= heap[i].lastAccessedAt
    BY <2>2
  <2> QED BY <2>1, <2>3
<1> QED BY <1>1, <1>2, <1>3, <1>4, <1>5 DEF Get

LEMMA UsesSeenInv == Spec => []UsesSeen
<1>1. Init => UsesSeen
  BY DEF Init, UsesSeen
<1>2. TypeOK /\ UsesSeen /\ [Next]_vars => UsesSeen'
  <2> SUFFICES ASSUME TypeOK, UsesSeen, [Next]_vars PROVE UsesSeen'
    OBVIOUS
  <2>1. ASSUME NEW c \in Callers, Get(c) PROVE UsesSeen'
    BY <2>1, GetSeesUses
  <2>2. ASSUME NEW k \in Keys, Set(k) PROVE UsesSeen'
    <3>1. /\ heap' = [heap EXCEPT ![sets + 1] =
                        [expiresAt |-> now + TTL, lastAccessedAt |-> now, hitCount |-> 0]]
          /\ used' = [used EXCEPT ![sets + 1] = now]
          /\ UNCHANGED <<now, pc, held, asked>>
      BY <2>2 DEF Set
    <3>2. sets + 1 \in Ids
      BY <2>2, BoundsAssumption DEF Set, TypeOK, Ids
    <3>3. \A i \in Ids : /\ used'[i] <= heap'[i].lastAccessedAt /\ heap'[i].lastAccessedAt <= now'
                         /\ heap[i].lastAccessedAt <= heap'[i].lastAccessedAt
                         /\ heap'[i].lastAccessedAt \in Nat /\ heap[i].lastAccessedAt \in Nat
      BY <3>1, <3>2 DEF UsesSeen, TypeOK, Entry
    <3>4. \A c \in Callers : pc[c] = "hit" => asked[c] <= heap'[held[c]].lastAccessedAt
      BY <3>3 DEF UsesSeen, TypeOK
    <3> QED BY <3>1, <3>3, <3>4 DEF UsesSeen
  <2>3. ASSUME NEW k \in Keys, Invalidate(k) PROVE UsesSeen'
    BY <2>3 DEF Invalidate, UsesSeen
  <2>4. CASE Clear \/ EvictionTick \/ UNCHANGED vars
    BY <2>4 DEF Clear, EvictionTick, vars, UsesSeen
  <2>5. CASE Tick
    BY <2>5 DEF Tick, UsesSeen, TypeOK, Entry
  <2> QED BY <2>1, <2>2, <2>3, <2>4, <2>5 DEF Next
<1> QED BY <1>1, <1>2, TypeCorrect, PTL DEF Spec

(***************************************************************************)
(* What a Set evicts was last asked for, by a Get that was answered, no    *)
(* later than what it keeps was last used (cache.go, Get and evictLRU),    *)
(* whatever Gets have touched entries that were replaced since.  The key   *)
(* it stores under is not among those kept: its entry is a new one, which  *)
(* needs the numbers of the entries.                                       *)
(***************************************************************************)
THEOREM EvictionIsLeastUsed == Spec => EvictsLeastUsed
<1> DEFINE LeastUsedFirst ==
      \A v, s \in Stored :
        (entries'[v] = Absent /\ entries'[s] = entries[s]) =>
          used[entries[v]] <= heap[entries[s]].lastAccessedAt
<1>1. ASSUME TypeOK, Numbered, UsesSeen, NEW k \in Keys, Set(k) PROVE LeastUsedFirst
  <2>1. PICK V \in Evicted : entries' = [j \in Keys |-> IF j = k THEN sets + 1
                                                        ELSE IF j \in V THEN Absent ELSE entries[j]]
    BY <1>1 DEF Set
  <2> SUFFICES ASSUME NEW v \in Stored, NEW s \in Stored,
                      entries'[v] = Absent, entries'[s] = entries[s]
               PROVE  used[entries[v]] <= heap[entries[s]].lastAccessedAt
    OBVIOUS
  <2>2. v \in Keys /\ s \in Keys /\ entries[s] # Absent /\ entries[s] \in 0 .. sets /\ sets \in Nat
    BY <1>1 DEF Stored, Numbered, TypeOK
  <2>3. v \in V
    BY <2>1, <2>2 DEF Stored, Absent
  <2>4. s \notin V
    BY <2>1, <2>2 DEF Absent
  <2>5. V \in Victims
    BY <2>3 DEF Evicted
  <2>6. heap[entries[v]].lastAccessedAt <= heap[entries[s]].lastAccessedAt
    BY <2>3, <2>4, <2>5 DEF Victims
  <2>7. entries[v] \in Ids /\ entries[s] \in Ids
    BY <1>1 DEF Stored, TypeOK
  <2>8. used[entries[v]] <= heap[entries[v]].lastAccessedAt
    BY <1>1, <2>7 DEF UsesSeen
  <2>9. /\ used[entries[v]] \in Nat /\ heap[entries[v]].lastAccessedAt \in Nat
        /\ heap[entries[s]].lastAccessedAt \in Nat
    BY <1>1, <2>7 DEF TypeOK, Entry
  <2> QED BY <2>6, <2>8, <2>9
<1>2. ASSUME TypeOK, Numbered, UsesSeen, [Next]_vars PROVE sets' > sets => LeastUsedFirst
  <2>1. sets \in Nat
    BY <1>2 DEF TypeOK
  <2>2. (\E k \in Keys : Set(k)) \/ sets' = sets
    BY <1>2 DEF Next, Get, Lookup, JudgeExpiry, DropExpired, Touch, Return, Invalidate, Clear,
                EvictionTick, Tick, vars
  <2>3. CASE \E k \in Keys : Set(k)
    BY <1>1, <1>2, <2>3
  <2>4. CASE sets' = sets
    BY <2>1, <2>4
  <2> QED BY <2>2, <2>3, <2>4
<1>3. TypeOK /\ Numbered /\ UsesSeen /\ [Next]_vars => [sets' > sets => LeastUsedFirst]_vars
  BY <1>2
<1> QED BY <1>3, TypeCorrect, NumberedInv, UsesSeenInv, PTL DEF Spec, EvictsLeastUsed
=============================================================================
