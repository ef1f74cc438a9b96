---------------------------- MODULE RateLimiter ----------------------------
(***************************************************************************)
(* The gateway's rate limiter (internal/budget/tokenbucket.go): a map of   *)
(* token buckets, looked up under a read lock and filled in under the      *)
(* write lock, each bucket with a lock of its own.                         *)
(*                                                                         *)
(* Time passes in clock units, Minute of them to the minute.  A bucket of  *)
(* capacity n gains n tokens a minute; its tokens are counted in Minute-ths *)
(* of a token, so that the gain of one clock unit is the integer n.        *)
(* (Rounding of the code's floating-point tokens is left out.)             *)
(*                                                                         *)
(* MaxNow and MaxBuckets bound the clock and the buckets ever made.        *)
(***************************************************************************)
EXTENDS Integers

CONSTANTS Keys, Callers,
          Limits,              \* the limits per minute callers may pass
          Minute,
          MaxNow, MaxBuckets

ASSUME RateAssumption == Limits \subseteq Nat /\ Minute \in Nat \ {0}
ASSUME BoundsAssumption == MaxNow \in Nat /\ MaxBuckets \in Nat

VARIABLES now,
          buckets,     \* RateLimiter.buckets: key -> bucket, or NoBucket
          heap,        \* bucket -> its fields
          made,        \* buckets made so far
          pc,          \* per caller of Allow: "idle", "missing", "found"
          call,        \* per caller: the arguments of its Allow
          held,        \* per caller: the bucket it has in hand
          since        \* history: requests allowed per key at or after a time

vars == <<now, buckets, heap, made, pc, call, held, since>>

NoBucket == 0
Ids      == 1 .. MaxBuckets
Times    == 0 .. MaxNow
Bucket   == [tokens : Nat, capacity : Nat, lastTime : Nat]
Call     == [key : Keys, limit : Limits]

Blank == [tokens |-> 0, capacity |-> 0, lastTime |-> 0]

Init ==
  /\ now = 0
  /\ buckets = [k \in Keys |-> NoBucket]
  /\ heap = [b \in Ids |-> Blank]
  /\ made = 0
  /\ pc = [c \in Callers |-> "idle"]
  /\ call \in [Callers -> Call]
  /\ held = [c \in Callers |-> NoBucket]
  /\ since = [k \in Keys |-> [t \in Times |-> 0]]

\* RateLimiter.Allow looks its key up under the read lock.
Lookup(c, a) ==
  /\ pc[c] = "idle"
  /\ call' = [call EXCEPT ![c] = a]
  /\ held' = [held EXCEPT ![c] = buckets[a.key]]
  /\ pc' = [pc EXCEPT ![c] = IF buckets[a.key] = NoBucket THEN "missing" ELSE "found"]
  /\ UNCHANGED <<now, buckets, heap, made, since>>

NewTokenBucket(limit) ==
  [tokens |-> limit * Minute, capacity |-> limit, lastTime |-> now]

\* Under the write lock it looks again, and makes a bucket if there is still none.
Create(c) ==
  LET k == call[c].key
  IN /\ pc[c] = "missing"
     /\ \/ /\ buckets[k] # NoBucket
           /\ held' = [held EXCEPT ![c] = buckets[k]]
           /\ UNCHANGED <<buckets, heap, made>>
        \/ /\ buckets[k] = NoBucket /\ made < MaxBuckets
           /\ made' = made + 1
           /\ buckets' = [buckets EXCEPT ![k] = made + 1]
           /\ heap' = [heap EXCEPT ![made + 1] = NewTokenBucket(call[c].limit)]
           /\ held' = [held EXCEPT ![c] = made + 1]
     /\ pc' = [pc EXCEPT ![c] = "found"]
     /\ UNCHANGED <<now, call, since>>

\* Mutant: the refill is not cut off at the capacity.
RefilledUncapped(b) ==
  heap[b].tokens + (now - heap[b].lastTime) * heap[b].capacity

\* The tokens of bucket b once Allow has refilled it.
Refilled(b) ==
  LET full  == heap[b].capacity * Minute
      grown == heap[b].tokens + (now - heap[b].lastTime) * heap[b].capacity
  IN IF grown > full THEN full ELSE grown

\* The request of key k is allowed now: it counts from every time up to now.
CountGrant(k) ==
  since' = [since EXCEPT ![k] = [t \in Times |-> IF t <= now THEN @[t] + 1 ELSE @[t]]]

\* Mutant: a refused request moves lastTime and loses its refill.
AllowLosesRefill(c) ==
  LET b == held[c]
  IN /\ pc[c] = "found"
     /\ \/ /\ Refilled(b) < Minute
           /\ heap' = [heap EXCEPT ![b].lastTime = now]
           /\ UNCHANGED since
        \/ /\ Refilled(b) >= Minute
           /\ heap' = [heap EXCEPT ![b].tokens = Refilled(b) - Minute, ![b].lastTime = now]
           /\ CountGrant(call[c].key)
     /\ pc' = [pc EXCEPT ![c] = "idle"]
     /\ held' = [held EXCEPT ![c] = NoBucket]
     /\ UNCHANGED <<now, buckets, made, call>>

\* TokenBucket.Allow, under the bucket's lock: less than a token refuses.
Allow(c) ==
  LET b == held[c]
  IN /\ pc[c] = "found"
     /\ \/ /\ Refilled(b) < Minute
           /\ heap' = [heap EXCEPT ![b].tokens = Refilled(b), ![b].lastTime = now]
           /\ UNCHANGED since
        \/ /\ Refilled(b) >= Minute
           /\ heap' = [heap EXCEPT ![b].tokens = Refilled(b) - Minute, ![b].lastTime = now]
           /\ CountGrant(call[c].key)
     /\ pc' = [pc EXCEPT ![c] = "idle"]
     /\ held' = [held EXCEPT ![c] = NoBucket]
     /\ UNCHANGED <<now, buckets, made, call>>

Tick ==
  /\ now < MaxNow
  /\ now' = now + 1
  /\ UNCHANGED <<buckets, heap, made, pc, call, held, since>>

Next ==
  \/ \E c \in Callers : (\E a \in Call : Lookup(c, a)) \/ Create(c) \/ Allow(c)
  \/ Tick

Spec == Init /\ [][Next]_vars

-----------------------------------------------------------------------------
TypeOK ==
  /\ now \in Times
  /\ buckets \in [Keys -> Ids \cup {NoBucket}]
  /\ heap \in [Ids -> Bucket]
  /\ made \in 0 .. MaxBuckets
  /\ pc \in [Callers -> {"idle", "missing", "found"}]
  /\ call \in [Callers -> Call]
  /\ held \in [Callers -> Ids \cup {NoBucket}]
  /\ since \in [Keys -> [Times -> Nat]]

(***************************************************************************)
(* However callers race to make it, a key has one bucket, and every caller *)
(* draws from that one.                                                    *)
(***************************************************************************)
OneBucketPerKey ==
  /\ \A c \in Callers : pc[c] = "found" =>
       held[c] = buckets[call[c].key] /\ held[c] # NoBucket
  /\ \A j, k \in Keys : j # k /\ buckets[j] # NoBucket => buckets[j] # buckets[k]

Capacity(k) == heap[buckets[k]].capacity

(***************************************************************************)
(* The rate limit: over any stretch of time up to now a key is allowed no  *)
(* more than its capacity at once and its capacity per minute on top.      *)
(***************************************************************************)
RateBound ==
  \A k \in Keys : buckets[k] # NoBucket =>
    \A t \in 0 .. now : Minute * since[k][t] <= Capacity(k) * (Minute + (now - t))

(***************************************************************************)
(* And it takes no more away than that: a request is refused only if       *)
(* allowing it would break the bound for some stretch of time.             *)
(***************************************************************************)
RefusesOnlyWhenDue ==
  [][\A c \in Callers :
       (pc[c] = "found" /\ pc'[c] = "idle" /\ since' = since) =>
         LET k == call[c].key
         IN \E t \in 0 .. now :
              Minute * (since[k][t] + 1) > Capacity(k) * (Minute + (now - t))]_vars
=============================================================================
