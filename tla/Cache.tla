------------------------------- MODULE Cache -------------------------------
(***************************************************************************)
(* The gateway's in-memory prompt cache (internal/cache/cache.go).         *)
(*                                                                         *)
(* Every Set allocates a new entry, so an entry is identified by the       *)
(* number of the Set that made it: 'entries' maps a key to the entry the   *)
(* map points to, 'heap' holds the mutable fields of every entry ever made *)
(* (a caller of Get may hold a pointer to one the map no longer has).      *)
(* Get gives up the lock between its lookup, its look at the clock and its *)
(* update, so each of these is a step of its own; Set, Invalidate, Clear   *)
(* and a pass of the eviction loop hold the lock from end to end.          *)
(*                                                                         *)
(* MaxNow, MaxSets and MaxGets bound the clock and the number of calls.    *)
(***************************************************************************)
EXTENDS Integers, FiniteSets

CONSTANTS Keys, NoKey, Callers,
          MaxEntries, TTL, Enabled,   \* Config
          MaxNow, MaxSets, MaxGets    \* bounds of the model

ASSUME ConfigAssumption ==
         /\ MaxEntries \in Nat
         /\ TTL \in Nat
         /\ Enabled \in BOOLEAN
         /\ NoKey \notin Keys

ASSUME BoundsAssumption == MaxNow \in Nat /\ MaxSets \in Nat /\ MaxGets \in Nat

VARIABLES now,       \* time.Now()
          entries,   \* the map: key -> entry, or Absent
          heap,      \* entry -> its fields
          sets,      \* entries allocated so far
          stats,     \* Stats
          gets,      \* calls of Get so far
          pc, key, held,  \* per caller of Get: where it is, its key, its entry
          asked,     \* history, per caller of Get: when it asked
          used       \* history, per entry: when the last asked of those who got it, or its Set

vars == <<now, entries, heap, sets, stats, gets, pc, key, held, asked, used>>

Ids    == 1 .. MaxSets
Absent == 0

Entry == [expiresAt : Nat, lastAccessedAt : Nat, hitCount : Nat]
Stats == [hits : Nat, misses : Nat, evictions : Nat, entries : Int]

Labels == {"idle", "found", "expired", "live", "hit", "miss"}

Stored     == {k \in Keys : entries[k] # Absent}
IsExpired(id) == now > heap[id].expiresAt
Idle(c)    == pc[c] = "idle"

Init ==
  /\ now = 0
  /\ entries = [k \in Keys |-> Absent]
  /\ heap = [i \in Ids |-> [expiresAt |-> 0, lastAccessedAt |-> 0, hitCount |-> 0]]
  /\ sets = 0
  /\ stats = [hits |-> 0, misses |-> 0, evictions |-> 0, entries |-> 0]
  /\ gets = 0
  /\ pc = [c \in Callers |-> "idle"]
  /\ key = [c \in Callers |-> NoKey]
  /\ held = [c \in Callers |-> Absent]
  /\ asked = [c \in Callers |-> 0]
  /\ used = [i \in Ids |-> 0]

(***************************************************************************)
(* Get: the lookup under the read lock.  A disabled cache always misses.   *)
(***************************************************************************)
Lookup(c, k) ==
  /\ Idle(c) /\ gets < MaxGets
  /\ gets' = gets + 1
  /\ key' = [key EXCEPT ![c] = k]
  /\ held' = [held EXCEPT ![c] = IF Enabled THEN entries[k] ELSE Absent]
  /\ pc' = [pc EXCEPT ![c] = IF held'[c] = Absent THEN "miss" ELSE "found"]
  /\ asked' = [asked EXCEPT ![c] = now]
  /\ UNCHANGED <<now, entries, heap, sets, stats, used>>

\* Get compares the clock with the entry it holds; it holds no lock here.
JudgeExpiry(c) ==
  /\ pc[c] = "found"
  /\ pc' = [pc EXCEPT ![c] = IF IsExpired(held[c]) THEN "expired" ELSE "live"]
  /\ UNCHANGED <<now, entries, heap, sets, stats, gets, key, held, asked, used>>

\* Get deletes whatever its key maps to by now and counts an eviction for it.
DropExpired(c) ==
  /\ pc[c] = "expired"
  /\ entries' = [entries EXCEPT ![key[c]] = Absent]
  /\ stats' = [stats EXCEPT !.evictions = @ + 1, !.entries = @ - 1]
  /\ pc' = [pc EXCEPT ![c] = "miss"]
  /\ UNCHANGED <<now, heap, sets, gets, key, held, asked, used>>

\* Mutant: a hit puts the entry back under its key to refresh it.
TouchReinserts(c) ==
  /\ pc[c] = "live"
  /\ entries' = [entries EXCEPT ![key[c]] = held[c]]
  /\ heap' = [heap EXCEPT ![held[c]].lastAccessedAt = now]
  /\ pc' = [pc EXCEPT ![c] = "hit"]
  /\ UNCHANGED <<now, sets, stats, gets, key, held, asked, used>>

\* Mutant: a hit is counted, and the time of it is not.
TouchOnlyCounts(c) ==
  /\ pc[c] = "live"
  /\ heap' = [heap EXCEPT ![held[c]].hitCount = @ + 1]
  /\ pc' = [pc EXCEPT ![c] = "hit"]
  /\ UNCHANGED <<now, entries, sets, stats, gets, key, held, asked, used>>

\* Get updates the entry it holds, in the map or not.
Touch(c) ==
  /\ pc[c] = "live"
  /\ heap' = [heap EXCEPT ![held[c]].hitCount = @ + 1,
                          ![held[c]].lastAccessedAt = now]
  /\ pc' = [pc EXCEPT ![c] = "hit"]
  /\ UNCHANGED <<now, entries, sets, stats, gets, key, held, asked, used>>

\* recordHit or recordMiss, under the lock of the statistics; then Get returns.
Return(c) ==
  /\ \/ /\ pc[c] = "hit"
        /\ stats' = [stats EXCEPT !.hits = @ + 1]
        /\ used' = [used EXCEPT ![held[c]] = IF asked[c] > @ THEN asked[c] ELSE @]
     \/ /\ pc[c] = "miss"
        /\ stats' = [stats EXCEPT !.misses = @ + 1]
        /\ UNCHANGED used
  /\ pc' = [pc EXCEPT ![c] = "idle"]
  /\ key' = [key EXCEPT ![c] = NoKey]
  /\ held' = [held EXCEPT ![c] = Absent]
  /\ asked' = [asked EXCEPT ![c] = 0]
  /\ UNCHANGED <<now, entries, heap, sets, gets>>

(***************************************************************************)
(* evictLRU: a tenth of the entries, one at least, the least recently      *)
(* accessed first.  The sort is unstable: any choice among equals.         *)
(***************************************************************************)
RemoveCount(n) == IF n = 0 THEN 0 ELSE IF n \div 10 < 1 THEN 1 ELSE n \div 10

Victims ==
  {V \in SUBSET Stored :
     /\ Cardinality(V) = RemoveCount(Cardinality(Stored))
     /\ \A v \in V, s \in Stored \ V :
          heap[entries[v]].lastAccessedAt <= heap[entries[s]].lastAccessedAt}

\* Mutant: the limit is tested with > for >=.
EvictedTooLate == IF Cardinality(Stored) > MaxEntries THEN Victims ELSE {{}}

\* What Set evicts before it stores: nothing below the limit.
Evicted == IF Cardinality(Stored) >= MaxEntries THEN Victims ELSE {{}}

Set(k) ==
  /\ Enabled /\ sets < MaxSets
  /\ sets' = sets + 1
  /\ \E V \in Evicted :
       /\ entries' = [j \in Keys |-> IF j = k THEN sets + 1
                                     ELSE IF j \in V THEN Absent ELSE entries[j]]
       /\ stats' = [stats EXCEPT !.evictions = @ + Cardinality(V),
                                 !.entries = Cardinality(Stored')]
  /\ heap' = [heap EXCEPT ![sets + 1] =
                [expiresAt |-> now + TTL, lastAccessedAt |-> now, hitCount |-> 0]]
  /\ used' = [used EXCEPT ![sets + 1] = now]
  /\ UNCHANGED <<now, gets, pc, key, held, asked>>

Invalidate(k) ==
  /\ k \in Stored
  /\ entries' = [entries EXCEPT ![k] = Absent]
  /\ stats' = [stats EXCEPT !.entries = @ - 1]
  /\ UNCHANGED <<now, heap, sets, gets, pc, key, held, asked, used>>

\* Mutant: the statistic is not reset.
ClearKeepsCount ==
  /\ entries' = [k \in Keys |-> Absent]
  /\ UNCHANGED <<now, heap, sets, stats, gets, pc, key, held, asked, used>>

Clear ==
  /\ entries' = [k \in Keys |-> Absent]
  /\ stats' = [stats EXCEPT !.entries = 0]
  /\ UNCHANGED <<now, heap, sets, gets, pc, key, held, asked, used>>

\* Mutant: the loop spares an entry that was ever hit.
DeadUnlessHit == {k \in Stored : IsExpired(entries[k]) /\ heap[entries[k]].hitCount = 0}

Dead == {k \in Stored : IsExpired(entries[k])}

\* One tick of the goroutine New starts for an enabled cache.
EvictionTick ==
  /\ Enabled
  /\ entries' = [k \in Keys |-> IF k \in Dead THEN Absent ELSE entries[k]]
  /\ stats' = [stats EXCEPT !.evictions = @ + Cardinality(Dead),
                            !.entries = Cardinality(Stored')]
  /\ UNCHANGED <<now, heap, sets, gets, pc, key, held, asked, used>>

Tick ==
  /\ now < MaxNow
  /\ now' = now + 1
  /\ UNCHANGED <<entries, heap, sets, stats, gets, pc, key, held, asked, used>>

Get(c) == (\E k \in Keys : Lookup(c, k)) \/ JudgeExpiry(c) \/ DropExpired(c)
            \/ Touch(c) \/ Return(c)

Next ==
  \/ \E c \in Callers : Get(c)
  \/ \E k \in Keys : Set(k) \/ Invalidate(k)
  \/ Clear
  \/ EvictionTick
  \/ Tick

Spec == Init /\ [][Next]_vars

\* The ticker of the eviction loop never stops while the process runs.
FairSpec == Spec /\ WF_vars(EvictionTick)

-----------------------------------------------------------------------------
TypeOK ==
  /\ now \in Nat
  /\ entries \in [Keys -> Ids \cup {Absent}]
  /\ heap \in [Ids -> Entry]
  /\ sets \in 0 .. MaxSets
  /\ stats \in Stats
  /\ gets \in 0 .. MaxGets
  /\ pc \in [Callers -> Labels]
  /\ key \in [Callers -> Keys \cup {NoKey}]
  /\ held \in [Callers -> Ids \cup {Absent}]
  /\ asked \in [Callers -> Nat]
  /\ used \in [Ids -> Nat]

(***************************************************************************)
(* The number of cached responses never passes MaxEntries, whatever Gets   *)
(* of expired entries delete behind Set's back.  A limit of zero still     *)
(* leaves room for one: Set evicts before it stores, never after.          *)
(***************************************************************************)
Limit == IF MaxEntries = 0 THEN 1 ELSE MaxEntries

SizeBound == Cardinality(Stored) <= Limit

(***************************************************************************)
(* The Entries statistic may fall short of the size of the map (two Gets   *)
(* that meet the same expired entry both count it out), but it never       *)
(* reports more responses than are cached.                                 *)
(***************************************************************************)
EntriesNeverOvercounts == stats.entries <= Cardinality(Stored)

(***************************************************************************)
(* And it does not stay wrong: the eviction loop keeps putting it right.   *)
(***************************************************************************)
EntriesHeals == []<>(stats.entries = Cardinality(Stored))

(***************************************************************************)
(* A Set evicts the least recently used: no Get that was answered with the *)
(* response it drops had asked later than the last use of any response     *)
(* that it keeps, whatever was overwritten or dropped while they waited.   *)
(***************************************************************************)
EvictsLeastUsed ==
  [][sets' > sets =>
       \A v, s \in Stored :
         (entries'[v] = Absent /\ entries'[s] = entries[s]) =>
           used[entries[v]] <= heap[entries[s]].lastAccessedAt]_vars

(***************************************************************************)
(* An entry whose TTL has passed does not stay in memory: the eviction     *)
(* loop, a Get or a Set takes it out.                                      *)
(***************************************************************************)
ExpiredGoes ==
  \A k \in Keys, i \in Ids :
    (entries[k] = i /\ IsExpired(i)) ~> (entries[k] # i)

(***************************************************************************)
(* What the ticker is for: neither a wrong count nor an expired entry      *)
(* stays.                                                                  *)
(***************************************************************************)
TickerHeals == EntriesHeals /\ ExpiredGoes

(***************************************************************************)
(* What the cache promises is LossyMap: a hit is the response most         *)
(* recently stored under its key when Get looked, whatever expires, is     *)
(* evicted, invalidated or overwritten meanwhile; anything may be a miss.  *)
(***************************************************************************)
Answer(c) == CASE pc[c] = "idle" -> -1
               [] pc[c] \in {"found", "live", "hit"} -> held[c]
               [] pc[c] \in {"expired", "miss"} -> Absent

Abstract == INSTANCE LossyMap WITH
              store <- entries, puts <- sets,
              answer <- [c \in Callers |-> Answer(c)]

ImplementsLossyMap == Abstract!Spec
=============================================================================
