---------------------------- MODULE LimitProofs ----------------------------
(***************************************************************************)
(* What the two guards that count calls promise: the rate limiter for any  *)
(* keys, callers and limits, and every granularity of the clock; the loop  *)
(* detector for any prompts, callers, windows and limits, with any number  *)
(* of calls.  And what the router promises of the models a call may take:  *)
(* for any candidates, routes and needs; and the validator of the outputs  *)
(* it rejects: for any outputs and schemas, however deep.                  *)
(***************************************************************************)
EXTENDS RateLimiter, LoopDetector, RouterEngine, Validator, FiniteSetTheorems, TLAPS

-----------------------------------------------------------------------------
(* The rate limiter.                                                       *)

\* What a bucket of capacity n can have given out over d clock units.
Earned(n, d) == n * (Minute + d)

(***************************************************************************)
(* A key's account: given[t] is what its bucket gave out since t, 'tokens' *)
(* what was left at 'time', its last refill.  For every start t up to then *)
(* the two come to no more than was earned since t, for some t to just it. *)
(***************************************************************************)
Balanced(given, tokens, n, time) ==
  /\ tokens \in Nat /\ tokens <= Earned(n, 0)
  /\ \A t \in Times : t > time => given[t] = 0
  /\ \A t \in 0 .. time : tokens + Minute * given[t] <= Earned(n, time - t)
  /\ \E t \in 0 .. time : tokens + Minute * given[t] = Earned(n, time - t)

Account(k) ==
  IF buckets[k] = NoBucket
  THEN \A t \in Times : since[k][t] = 0
  ELSE LET b == heap[buckets[k]]
       IN b.lastTime <= now /\ Balanced(since[k], b.tokens, b.capacity, b.lastTime)

Numbered == \A k \in Keys : buckets[k] <= made

IInv ==
  /\ TypeOK
  /\ OneBucketPerKey
  /\ Numbered
  /\ \A k \in Keys : Account(k)

-----------------------------------------------------------------------------
\* Earning is linear in time.
LEMMA EarnedFacts ==
  ASSUME NEW n \in Nat
  PROVE  /\ \A d \in Nat : Earned(n, d) \in Nat
         /\ Earned(n, 0) = n * Minute
         /\ \A d, e \in Nat : Earned(n, d + e) = Earned(n, d) + e * n
         /\ \A d, e \in Nat : e * n \in Nat
<1>1. \A d \in Nat : Earned(n, d) \in Nat
  BY RateAssumption DEF Earned
<1>2. Earned(n, 0) = n * Minute
  BY RateAssumption DEF Earned
<1>3. \A d, e \in Nat : Earned(n, d + e) = Earned(n, d) + e * n
  BY RateAssumption DEF Earned
<1>4. \A d, e \in Nat : e * n \in Nat
  OBVIOUS
<1> QED BY <1>1, <1>2, <1>3, <1>4

\* One more grant costs a whole token.
LEMMA OneMore ==
  ASSUME NEW s \in Nat
  PROVE  Minute * (s + 1) = Minute * s + Minute /\ Minute * s \in Nat
  BY RateAssumption

(***************************************************************************)
(* Refilling a bucket up to time u keeps its account balanced: before the  *)
(* cap every start earns the same, and the cap makes u itself the start    *)
(* that is paid out exactly.                                               *)
(***************************************************************************)
LEMMA RefillBalanced ==
  ASSUME NEW given \in [Times -> Nat], NEW x \in Nat, NEW n \in Nat, NEW time \in Nat, NEW u \in Times,
         time <= u, Balanced(given, x, n, time),
         NEW r, r = IF x + (u - time) * n > n * Minute THEN n * Minute
                                                       ELSE x + (u - time) * n
  PROVE  Balanced(given, r, n, u)
<1> DEFINE e == u - time
<1> HIDE DEF e
<1>e. e = u - time /\ e \in Nat /\ time + e = u
  BY BoundsAssumption DEF Times, e
<1>f. /\ \A d \in Nat : Earned(n, d) \in Nat
      /\ Earned(n, 0) = n * Minute
      /\ \A d, g \in Nat : Earned(n, d + g) = Earned(n, d) + g * n
      /\ \A d \in Nat : d * n \in Nat
  BY EarnedFacts
<1>1. e * n \in Nat /\ Earned(n, 0) = n * Minute /\ Earned(n, 0) \in Nat
  BY <1>e, <1>f
<1>2. r \in Nat /\ r <= Earned(n, 0) /\ r <= x + e * n
  BY <1>1, <1>e
<1>3. \A t \in Times : t > u => given[t] = 0
  BY BoundsAssumption DEF Times, Balanced
<1>4. ASSUME NEW t \in 0 .. u PROVE r + Minute * given[t] <= Earned(n, u - t)
  <2>1. given[t] \in Nat /\ Minute * given[t] \in Nat /\ t \in Times
    <3>1. t \in Times /\ given[t] \in Nat
      BY BoundsAssumption DEF Times
    <3> QED BY <3>1, OneMore
  <2>2. CASE t <= time
    <3>1. x + Minute * given[t] <= Earned(n, time - t)
      BY <2>2 DEF Balanced
    <3>2. Earned(n, (time - t) + e) = Earned(n, time - t) + e * n
      <4>1. time - t \in Nat
        BY <2>1, <2>2 DEF Times
      <4> QED BY <4>1, <1>e, <1>f
    <3>3. (time - t) + e = u - t
      BY <1>e, <2>2 DEF Times
    <3>4. Earned(n, time - t) \in Nat
      BY <1>f, <2>2
    <3> QED BY <1>1, <1>2, <2>1, <3>1, <3>2, <3>3, <3>4
  <2>3. CASE t > time
    <3>1. given[t] = 0 /\ Minute * 0 = 0
      BY <2>1, <2>3, RateAssumption DEF Balanced
    <3>2. u - t \in Nat /\ Earned(n, 0 + (u - t)) = Earned(n, 0) + (u - t) * n
      <4>1. u - t \in Nat
        BY <2>1 DEF Times
      <4> QED BY <4>1, <1>f
    <3>3. (u - t) * n \in Nat /\ 0 + (u - t) = u - t
      BY <3>2, <1>f
    <3> QED BY <1>1, <1>2, <3>1, <3>2, <3>3
  <2> QED BY <2>2, <2>3 DEF Times
<1>5. \E t \in 0 .. u : r + Minute * given[t] = Earned(n, u - t)
  <2>1. CASE x + e * n > n * Minute
    <3>1. time < u
      <4>1. x <= n * Minute
        BY <1>1 DEF Balanced
      <4>2. time = u => e = 0 /\ 0 * n = 0
        BY <1>e
      <4> QED BY <2>1, <1>1, <1>e, <4>1, <4>2 DEF Times
    <3>2. given[u] = 0 /\ Minute * 0 = 0 /\ u - u = 0
      BY <3>1, RateAssumption DEF Balanced, Times
    <3>3. r + Minute * given[u] = Earned(n, u - u)
      BY <1>1, <1>e, <2>1, <3>2
    <3> QED BY <3>3 DEF Times
  <2>2. CASE ~(x + e * n > n * Minute)
    <3>1. PICK t \in 0 .. time : x + Minute * given[t] = Earned(n, time - t)
      BY DEF Balanced
    <3>2. /\ t \in 0 .. u /\ t \in Times
          /\ (time - t) + e = u - t /\ time - t \in Nat
      <4>1. t \in Int /\ 0 <= t /\ t <= time /\ u \in Int /\ time \in Int
        BY DEF Times
      <4>2. u <= MaxNow /\ MaxNow \in Int
        BY BoundsAssumption DEF Times
      <4> QED BY <1>e, <4>1, <4>2 DEF Times
    <3>3. Earned(n, u - t) = Earned(n, time - t) + e * n
      <4>1. Earned(n, (time - t) + e) = Earned(n, time - t) + e * n
        BY <1>e, <1>f, <3>2
      <4> QED BY <4>1, <3>2
    <3>4. Minute * given[t] \in Nat
      BY <3>2, OneMore
    <3>5. r = x + e * n
      BY <1>e, <2>2
    <3> QED BY <1>1, <3>1, <3>2, <3>3, <3>4, <3>5
  <2> QED BY <2>1, <2>2
<1> QED BY <1>2, <1>3, <1>4, <1>5 DEF Balanced

-----------------------------------------------------------------------------
LEMMA InitIInv == Init => IInv
<1> SUFFICES ASSUME Init PROVE IInv
  OBVIOUS
<1>1. TypeOK
  BY RateAssumption, BoundsAssumption DEF Init, TypeOK, Times, Bucket, Blank, NoBucket
<1>2. OneBucketPerKey /\ Numbered /\ \A k \in Keys : Account(k)
  BY DEF Init, OneBucketPerKey, Numbered, Account, NoBucket
<1> QED BY <1>1, <1>2 DEF IInv

\* A step that leaves the buckets and the grants alone, and the clock not behind.
LEMMA AccountsKept ==
  ASSUME IInv, UNCHANGED <<buckets, heap, since>>, now' \in Times, now' >= now
  PROVE  \A k \in Keys : Account(k)'
<1> SUFFICES ASSUME NEW k \in Keys PROVE Account(k)'
  OBVIOUS
<1>1. CASE buckets[k] = NoBucket
  BY <1>1 DEF IInv, Account
<1>2. CASE buckets[k] # NoBucket
  <2>1. heap[buckets[k]].lastTime \in Nat /\ heap[buckets[k]].lastTime <= now
    BY <1>2 DEF IInv, TypeOK, Bucket, Account
  <2>2. heap[buckets[k]].lastTime <= now'
    BY <2>1, BoundsAssumption DEF Times, IInv, TypeOK
  <2> QED BY <1>2, <2>2 DEF IInv, Account, Balanced
<1> QED BY <1>1, <1>2

LEMMA LookupIInv ==
  ASSUME IInv, NEW c \in Callers, NEW a \in Call, Lookup(c, a)
  PROVE  IInv'
<1>1. TypeOK'
  BY DEF IInv, TypeOK, Lookup, Call
<1>2. OneBucketPerKey' /\ Numbered'
  BY DEF IInv, TypeOK, Lookup, Call, OneBucketPerKey, Numbered
<1>3. \A k \in Keys : Account(k)'
  BY AccountsKept, BoundsAssumption DEF Lookup, IInv, TypeOK, Times
<1> QED BY <1>1, <1>2, <1>3 DEF IInv

LEMMA TickIInv ==
  ASSUME IInv, Tick \/ UNCHANGED vars
  PROVE  IInv'
<1>1. TypeOK'
  BY BoundsAssumption DEF IInv, TypeOK, Tick, vars, Times
<1>2. OneBucketPerKey' /\ Numbered'
  BY DEF IInv, TypeOK, Tick, vars, OneBucketPerKey, Numbered
<1>3. UNCHANGED <<buckets, heap, since>> /\ now' \in Times /\ now' >= now
  BY BoundsAssumption DEF Tick, vars, IInv, TypeOK, Times
<1>4. \A k \in Keys : Account(k)'
  BY <1>3, AccountsKept
<1> QED BY <1>1, <1>2, <1>4 DEF IInv

(***************************************************************************)
(* Create: the caller adopts the bucket another made, or makes the key's   *)
(* first, full and with nothing yet given out.                             *)
(***************************************************************************)
LEMMA CreateIInv ==
  ASSUME IInv, NEW c \in Callers, Create(c)
  PROVE  IInv'
<1> DEFINE k == call[c].key
<1>k. k \in Keys /\ call[c].limit \in Nat
  BY RateAssumption DEF IInv, TypeOK, Call
<1>1. CASE buckets[k] # NoBucket
  <2>1. TypeOK'
    BY <1>1, <1>k DEF IInv, TypeOK, Create
  <2>2. OneBucketPerKey' /\ Numbered'
    BY <1>1, <1>k DEF IInv, TypeOK, Create, OneBucketPerKey, Numbered
  <2>3. UNCHANGED <<buckets, heap, since, now>>
    BY <1>1 DEF Create
  <2>4. \A j \in Keys : Account(j)'
    BY <2>3, AccountsKept, BoundsAssumption DEF IInv, TypeOK, Times
  <2> QED BY <2>1, <2>2, <2>4 DEF IInv
<1>2. CASE buckets[k] = NoBucket
  <2> DEFINE n == call[c].limit
             new == NewTokenBucket(n)
  <2>1. /\ made + 1 \in Ids /\ made + 1 # NoBucket /\ made' = made + 1
        /\ buckets' = [buckets EXCEPT ![k] = made + 1]
        /\ heap' = [heap EXCEPT ![made + 1] = new]
        /\ held' = [held EXCEPT ![c] = made + 1]
        /\ UNCHANGED <<now, call, since>>
        /\ pc' = [pc EXCEPT ![c] = "found"]
    BY <1>2, BoundsAssumption DEF Create, IInv, TypeOK, Ids, NoBucket
  <2>2. now \in Nat /\ now \in Times
    BY BoundsAssumption DEF IInv, TypeOK, Times
  <2>3. /\ new \in Bucket
        /\ new.tokens = Earned(n, 0) /\ new.capacity = n /\ new.lastTime = now
    <3>1. n * Minute \in Nat /\ Earned(n, 0) = n * Minute
      BY <1>k, EarnedFacts
    <3> QED BY <1>k, <2>2, <3>1 DEF NewTokenBucket, Bucket
  <2> HIDE DEF new
  <2>4. TypeOK'
    BY <1>k, <2>1, <2>3, BoundsAssumption DEF IInv, TypeOK, Ids
  <2>5. made \in Int /\ \A j \in Keys : buckets[j] <= made /\ buckets[j] \in Int
    BY BoundsAssumption DEF IInv, Numbered, TypeOK, Ids, NoBucket
  <2>6. Numbered'
    BY <1>k, <2>1, <2>5 DEF IInv, TypeOK, Numbered
  <2>7. ASSUME NEW j \in Keys PROVE buckets[j] # made + 1
    <3>1. buckets[j] \in Int /\ buckets[j] <= made
      BY <2>5
    <3> QED BY <2>5, <3>1
  <2>8. OneBucketPerKey'
    <3>1. ASSUME NEW d \in Callers, pc'[d] = "found" 
          PROVE  held'[d] = buckets'[call'[d].key] /\ held'[d] # NoBucket
      <4>1. CASE d = c
        BY <4>1, <1>k, <2>1 DEF IInv, TypeOK
      <4>2. CASE d # c
        <5>1. held'[d] = held[d] /\ pc[d] = "found" /\ call[d].key \in Keys
          BY <3>1, <4>2, <2>1 DEF IInv, TypeOK, Call
        <5>2. held[d] = buckets[call[d].key] /\ held[d] # NoBucket
          BY <5>1 DEF IInv, OneBucketPerKey
        <5> QED BY <5>1, <5>2, <1>2, <2>1 DEF IInv, TypeOK
      <4> QED BY <4>1, <4>2
    <3>2. ASSUME NEW i \in Keys, NEW j \in Keys, i # j, buckets'[i] # NoBucket
          PROVE  buckets'[i] # buckets'[j]
      BY <3>2, <1>k, <2>1, <2>7 DEF IInv, TypeOK, OneBucketPerKey
    <3> QED BY <3>1, <3>2 DEF OneBucketPerKey
  <2>9. ASSUME NEW j \in Keys PROVE Account(j)'
    <3>1. CASE j = k
      <4>1. \A t \in Times : since[k][t] = 0
        BY <1>k, <1>2 DEF IInv, Account
      <4>2. Balanced(since[k], new.tokens, n, now)
        <5>1. \A d \in Nat : /\ Earned(n, d) \in Nat /\ d * n \in Nat
                             /\ Earned(n, 0 + d) = Earned(n, 0) + d * n
          BY <1>k, EarnedFacts
        <5>2. ASSUME NEW t \in 0 .. now
              PROVE  since[k][t] = 0 /\ Minute * since[k][t] = 0 /\ now - t \in Nat
          BY <2>2, <4>1, RateAssumption, BoundsAssumption DEF Times
        <5>3. ASSUME NEW t \in 0 .. now PROVE Earned(n, 0) <= Earned(n, now - t)
          <6>1. now - t \in Nat /\ 0 + (now - t) = now - t
            BY <5>2
          <6> QED BY <5>1, <6>1
        <5>4. now \in 0 .. now /\ now - now = 0
          BY <2>2
        <5>5. Earned(n, 0) \in Nat
          BY <5>1
        <5> QED BY <2>3, <4>1, <5>2, <5>3, <5>4, <5>5 DEF Balanced
      <4>3. buckets'[k] = made + 1 /\ heap'[made + 1] = new
        BY <1>k, <2>1 DEF IInv, TypeOK
      <4> QED BY <2>1, <2>2, <2>3, <3>1, <4>2, <4>3 DEF Account
    <3>2. CASE j # k
      <4>1. buckets'[j] = buckets[j]
        BY <2>1, <3>2 DEF IInv, TypeOK
      <4>2. buckets[j] # NoBucket => heap'[buckets[j]] = heap[buckets[j]]
        BY <2>1, <2>7 DEF IInv, TypeOK
      <4>3. Account(j) /\ UNCHANGED <<now, since>>
        BY <2>1 DEF IInv
      <4> QED BY <4>1, <4>2, <4>3 DEF Account, Balanced
    <3> QED BY <3>1, <3>2
  <2> QED BY <2>4, <2>6, <2>8, <2>9 DEF IInv
<1> QED BY <1>1, <1>2

(***************************************************************************)
(* Allow refills the bucket of the key, which balances its account at the  *)
(* present, and a grant moves one token from what is left to what was      *)
(* given out since every time up to now.                                   *)
(***************************************************************************)
LEMMA AllowAccount ==
  ASSUME IInv, NEW c \in Callers, pc[c] = "found"
  PROVE  LET k == call[c].key
             b == held[c]
         IN /\ k \in Keys /\ buckets[k] = b /\ b \in Ids /\ heap[b] \in Bucket
            /\ now \in Times /\ now \in Nat
            /\ Balanced(since[k], Refilled(b), heap[b].capacity, now)
<1> DEFINE k == call[c].key
           b == held[c]
<1>1. /\ k \in Keys /\ buckets[k] = b /\ b # NoBucket
      /\ b \in Ids /\ heap[b] \in Bucket
      /\ now \in Times /\ now \in Nat /\ since[k] \in [Times -> Nat]
  BY BoundsAssumption DEF IInv, TypeOK, OneBucketPerKey, Call, Times
<1>2. /\ heap[b].tokens \in Nat /\ heap[b].capacity \in Nat /\ heap[b].lastTime \in Nat
      /\ heap[b].lastTime <= now
      /\ Balanced(since[k], heap[b].tokens, heap[b].capacity, heap[b].lastTime)
  BY <1>1 DEF IInv, Account, Bucket
<1>3. Balanced(since[k], Refilled(b), heap[b].capacity, now)
  BY <1>1, <1>2, RefillBalanced DEF Refilled
<1> QED BY <1>1, <1>3

LEMMA GrantBalanced ==
  ASSUME NEW given \in [Times -> Nat], NEW x, NEW n \in Nat, NEW u \in Times,
         Balanced(given, x, n, u), x >= Minute
  PROVE  Balanced([t \in Times |-> IF t <= u THEN given[t] + 1 ELSE given[t]],
                  x - Minute, n, u)
<1> DEFINE g == [t \in Times |-> IF t <= u THEN given[t] + 1 ELSE given[t]]
<1>1. x \in Nat /\ x - Minute \in Nat /\ Minute \in Nat /\ x - Minute <= Earned(n, 0)
  BY RateAssumption, EarnedFacts DEF Balanced
<1>2. ASSUME NEW t \in 0 .. u
      PROVE  /\ (x - Minute) + Minute * g[t] = x + Minute * given[t]
  <2>1. t \in Times /\ given[t] \in Nat /\ g[t] = given[t] + 1
    BY BoundsAssumption DEF Times
  <2>2. Minute * (given[t] + 1) = Minute * given[t] + Minute /\ Minute * given[t] \in Nat
    BY <2>1, OneMore
  <2> QED BY <1>1, <2>1, <2>2
<1>3. \A t \in Times : t > u => g[t] = 0
  BY BoundsAssumption DEF Balanced, Times
<1>4. \E t \in 0 .. u : (x - Minute) + Minute * g[t] = Earned(n, u - t)
  BY <1>2 DEF Balanced
<1> HIDE DEF g
<1>5. Balanced(g, x - Minute, n, u)
  BY <1>1, <1>2, <1>3, <1>4 DEF Balanced
<1> QED BY <1>5 DEF g

LEMMA AllowIInv ==
  ASSUME IInv, NEW c \in Callers, Allow(c)
  PROVE  IInv'
<1> DEFINE k == call[c].key
           b == held[c]
           r == Refilled(b)
<1>1. /\ k \in Keys /\ buckets[k] = b /\ b \in Ids /\ heap[b] \in Bucket
      /\ now \in Times /\ now \in Nat
      /\ Balanced(since[k], r, heap[b].capacity, now)
  BY AllowAccount DEF Allow
<1>2. PICK left \in Nat, given \in [Times -> Nat] :
        /\ heap' = [heap EXCEPT ![b].tokens = left, ![b].lastTime = now]
        /\ since' = [since EXCEPT ![k] = given]
        /\ Balanced(given, left, heap[b].capacity, now)
  <2>1. since[k] \in [Times -> Nat] /\ heap[b].capacity \in Nat /\ r \in Nat
    BY <1>1 DEF IInv, TypeOK, Bucket, Balanced
  <2>2. CASE r < Minute /\ since' = since
                        /\ heap' = [heap EXCEPT ![b].tokens = r, ![b].lastTime = now]
    <3>1. since' = [since EXCEPT ![k] = since[k]]
      BY <2>2, <1>1 DEF IInv, TypeOK
    <3> QED BY <1>1, <2>1, <2>2, <3>1
  <2>3. CASE /\ r >= Minute /\ CountGrant(k)
             /\ heap' = [heap EXCEPT ![b].tokens = r - Minute, ![b].lastTime = now]
    <3> DEFINE g == [t \in Times |-> IF t <= now THEN since[k][t] + 1 ELSE since[k][t]]
    <3>1. g \in [Times -> Nat]
      BY <2>1
    <3>2. since' = [since EXCEPT ![k] = g]
      BY <2>3, <1>1 DEF CountGrant, IInv, TypeOK
    <3>3. r - Minute \in Nat
      BY <2>1, <2>3, RateAssumption
    <3>4. Balanced(g, r - Minute, heap[b].capacity, now)
      BY <1>1, <2>1, <2>3, GrantBalanced
    <3> HIDE DEF g
    <3> QED BY <2>3, <3>1, <3>2, <3>3, <3>4
  <2> QED BY <2>2, <2>3 DEF Allow
<1>3. /\ heap'[b] = [tokens |-> left, capacity |-> heap[b].capacity, lastTime |-> now]
      /\ \A i \in Ids \ {b} : heap'[i] = heap[i]
      /\ heap' \in [Ids -> Bucket]
  <2>1. heap[b] = [tokens |-> heap[b].tokens, capacity |-> heap[b].capacity,
                   lastTime |-> heap[b].lastTime]
    BY <1>1 DEF Bucket
  <2>2. heap'[b] = [tokens |-> left, capacity |-> heap[b].capacity, lastTime |-> now]
    BY <1>1, <1>2, <2>1 DEF IInv, TypeOK
  <2>3. \A i \in Ids \ {b} : heap'[i] = heap[i]
    BY <1>2 DEF IInv, TypeOK
  <2>4. heap'[b] \in Bucket
    BY <1>1, <1>2, <2>2 DEF Bucket
  <2>5. heap' = [heap EXCEPT ![b] = heap'[b]]
    BY <1>1, <1>2 DEF IInv, TypeOK
  <2> QED BY <1>1, <2>2, <2>3, <2>4, <2>5 DEF IInv, TypeOK
<1>4. UNCHANGED <<now, buckets, made, call>>
  BY DEF Allow
<1>5. TypeOK'
  BY <1>1, <1>2, <1>3 DEF IInv, TypeOK, Allow, NoBucket
<1>6. OneBucketPerKey' /\ Numbered'
  BY DEF IInv, TypeOK, Allow, OneBucketPerKey, Numbered
<1>7. ASSUME NEW j \in Keys PROVE Account(j)'
  <2>1. CASE j = k
    <3>1. since'[k] = given /\ buckets'[k] = b /\ b # NoBucket
      BY <1>1, <1>2, <1>4 DEF IInv, TypeOK, Ids, NoBucket
    <3> QED BY <1>1, <1>2, <1>3, <1>4, <2>1, <3>1 DEF Account
  <2>2. CASE j # k
    <3>1. since'[j] = since[j]
      BY <1>2, <2>2 DEF IInv, TypeOK
    <3>2. buckets[j] # NoBucket => buckets[j] # b /\ buckets[j] \in Ids
      BY <1>1, <2>2 DEF IInv, TypeOK, OneBucketPerKey
    <3>3. buckets[j] # NoBucket => heap'[buckets[j]] = heap[buckets[j]]
      BY <1>3, <3>2
    <3> QED BY <1>4, <3>1, <3>3 DEF IInv, Account
  <2> QED BY <2>1, <2>2
<1> QED BY <1>5, <1>6, <1>7 DEF IInv

LEMMA NextIInv == IInv /\ [Next]_vars => IInv'
  BY LookupIInv, CreateIInv, AllowIInv, TickIInv DEF Next

-----------------------------------------------------------------------------
LEMMA IInvBound == IInv => RateBound
<1> SUFFICES ASSUME IInv, NEW k \in Keys, buckets[k] # NoBucket, NEW t \in 0 .. now
             PROVE  Minute * since[k][t] <= Capacity(k) * (Minute + (now - t))
  BY DEF RateBound
<1> DEFINE b == heap[buckets[k]]
           r == IF b.tokens + (now - b.lastTime) * b.capacity > b.capacity * Minute
                THEN b.capacity * Minute
                ELSE b.tokens + (now - b.lastTime) * b.capacity
<1>1. /\ b.tokens \in Nat /\ b.capacity \in Nat /\ b.lastTime \in Nat /\ b.lastTime <= now
      /\ now \in Times /\ now \in Nat /\ since[k] \in [Times -> Nat]
      /\ Balanced(since[k], b.tokens, b.capacity, b.lastTime)
  BY BoundsAssumption DEF IInv, TypeOK, Account, Bucket, Times
<1>2. Balanced(since[k], r, b.capacity, now)
  BY <1>1, RefillBalanced
<1>3. r \in Nat /\ r + Minute * since[k][t] <= Earned(b.capacity, now - t)
  BY <1>2 DEF Balanced
<1>4. since[k][t] \in Nat
  BY <1>1, BoundsAssumption DEF Times
<1>5. Minute * since[k][t] \in Nat
  BY <1>4, OneMore
<1>6. now - t \in Nat
  BY <1>1
<1>7. Earned(b.capacity, now - t) \in Nat
  BY <1>1, <1>6, EarnedFacts
<1> HIDE DEF r
<1>8. Minute * since[k][t] <= Earned(b.capacity, now - t)
  BY <1>3, <1>5, <1>7
<1> QED BY <1>8 DEF Earned, Capacity

LEMMA RefusalDue ==
  ASSUME IInv, [Next]_vars, NEW c \in Callers,
         pc[c] = "found", pc'[c] = "idle", since' = since
  PROVE  LET k == call[c].key
         IN \E t \in 0 .. now :
              Minute * (since[k][t] + 1) > Capacity(k) * (Minute + (now - t))
<1> DEFINE k == call[c].key
           b == held[c]
           r == Refilled(b)
<1>1. Allow(c)
  <2>1. ~Tick /\ ~UNCHANGED vars
    BY DEF Tick, vars
  <2>2. ASSUME NEW d \in Callers, NEW a \in Call, Lookup(d, a) PROVE FALSE
    BY <2>2 DEF Lookup, IInv, TypeOK
  <2>3. ASSUME NEW d \in Callers, Create(d) PROVE FALSE
    BY <2>3 DEF Create, IInv, TypeOK
  <2>4. ASSUME NEW d \in Callers, Allow(d), d # c PROVE FALSE
    BY <2>4 DEF Allow, IInv, TypeOK
  <2> QED BY <2>1, <2>2, <2>3, <2>4 DEF Next
<1>2. /\ k \in Keys /\ buckets[k] = b /\ heap[b] \in Bucket /\ now \in Times /\ now \in Nat
      /\ Balanced(since[k], r, heap[b].capacity, now) /\ since[k] \in [Times -> Nat]
  BY AllowAccount DEF IInv, TypeOK
<1>3. r < Minute /\ r \in Nat
  <2>1. ~CountGrant(k)
    <3>1. CountGrant(k) => since'[k][now] = since[k][now] + 1
      BY <1>2 DEF CountGrant, IInv, TypeOK
    <3>2. since[k][now] \in Nat
      BY <1>2
    <3> QED BY <3>1, <3>2
  <2> QED BY <1>1, <1>2, <2>1 DEF Allow, Balanced
<1>4. PICK t \in 0 .. now : r + Minute * since[k][t] = Earned(heap[b].capacity, now - t)
  BY <1>2 DEF Balanced
<1>5. since[k][t] \in Nat
  BY <1>2, BoundsAssumption DEF Times
<1>6. Minute * (since[k][t] + 1) = Minute * since[k][t] + Minute /\ Minute * since[k][t] \in Nat
  BY <1>5, OneMore
<1> HIDE DEF r
<1>7. Minute * (since[k][t] + 1) > Earned(heap[b].capacity, now - t)
  BY <1>3, <1>4, <1>6, RateAssumption
<1> QED BY <1>2, <1>7 DEF Earned, Capacity

-----------------------------------------------------------------------------
THEOREM Invariance == Spec => []IInv
  BY InitIInv, NextIInv, PTL DEF Spec

(***************************************************************************)
(* The double-checked creation of tokenbucket.go (RateLimiter.Allow) never *)
(* gives a key a second bucket, nor a caller a bucket of its own.          *)
(***************************************************************************)
THEOREM SingleBucket == Spec => [](TypeOK /\ OneBucketPerKey)
<1>1. IInv => TypeOK /\ OneBucketPerKey
  BY DEF IInv
<1> QED BY <1>1, Invariance, PTL

(***************************************************************************)
(* Over every stretch of time, a key is allowed at most its capacity plus  *)
(* its capacity per minute: for any callers, keys, limits and clock.       *)
(***************************************************************************)
THEOREM RateLimited == Spec => []RateBound
  BY Invariance, IInvBound, PTL

(***************************************************************************)
(* No request is refused that the bound would have let through.            *)
(***************************************************************************)
THEOREM NoNeedlessRefusal == Spec => RefusesOnlyWhenDue
<1>1. IInv /\ [Next]_vars =>
        [\A c \in Callers :
           (pc[c] = "found" /\ pc'[c] = "idle" /\ since' = since) =>
             LET k == call[c].key
             IN \E t \in 0 .. now :
                  Minute * (since[k][t] + 1) > Capacity(k) * (Minute + (now - t))]_vars
  BY RefusalDue
<1> QED BY <1>1, Invariance, PTL DEF Spec, RefusesOnlyWhenDue

-----------------------------------------------------------------------------
(* The loop detector.                                                      *)

\* Only what is no later than some cutoff a prompt was pruned by is gone.
Complete ==
  \A p \in Prompts : \A i \in 1 .. calls :
     (of[i] = p /\ at[i] > forgot[p]) => i \in history[p]

\* A caller's cutoff is as old as its wait for the lock, or older.
CutoffPast ==
  \A c \in Checkers : lpPc[c] = "waiting" => cutoff[c] <= lpNow - arg[c].window

LpIInv == LpTypeOK /\ Complete /\ CutoffPast

-----------------------------------------------------------------------------
LEMMA LaterFacts ==
  ASSUME NEW s \in Int, NEW t \in Int
  PROVE  Later(s, t) \in Int /\ Later(s, t) >= s /\ Later(s, t) >= t
  BY DEF Later

LEMMA LpInitIInv == LpInit => LpIInv
<1> SUFFICES ASSUME LpInit PROVE LpIInv
  OBVIOUS
<1>1. LpTypeOK
  <2>1. arg \in [Checkers -> Argument \cup {NoCall}]
    BY DEF LpInit
  <2> QED BY <2>1, LpBoundsAssumption DEF LpInit, LpTypeOK, LpIds
<1>2. Complete /\ CutoffPast
  BY DEF LpInit, Complete, CutoffPast
<1> QED BY <1>1, <1>2 DEF LpIInv

LEMMA CallIInv ==
  ASSUME LpIInv, NEW c \in Checkers, NEW a \in Argument, LpCall(c, a)
  PROVE  LpIInv'
<1> USE DEF LpIInv
<1>1. a.window \in Nat /\ lpNow - a.window \in Int
  <2>1. a.window \in Windows
    BY DEF Argument
  <2>2. a.window \in Nat
    BY <2>1, ArgumentsAssumption
  <2>3. lpNow \in Nat
    BY DEF LpTypeOK
  <2>4. \A w \in Nat : lpNow - w \in Int
    BY <2>3
  <2> QED BY <2>2, <2>4
<1>2. LpTypeOK'
  BY <1>1 DEF LpCall, LpTypeOK
<1>3. Complete'
  BY DEF LpCall, Complete
<1>4. CutoffPast'
  BY <1>1 DEF LpCall, CutoffPast, LpTypeOK
<1> QED BY <1>2, <1>3, <1>4

(***************************************************************************)
(* Check under the lock: 'recent' is what its cutoff leaves, and the call. *)
(***************************************************************************)
Recent(c) == Kept(arg[c].prompt, cutoff[c]) \cup {calls + 1}

LEMMA CheckIInv ==
  ASSUME LpIInv, NEW c \in Checkers, Check(c)
  PROVE  LpIInv'
<1> USE DEF LpIInv
<1> DEFINE p == arg[c].prompt
<1>1. arg[c] \in Argument /\ p \in Prompts /\ cutoff[c] \in Int /\ calls + 1 \in LpIds
  BY LpBoundsAssumption DEF Check, LpTypeOK, Argument, LpIds
<1>2. Recent(c) \subseteq LpIds
  BY <1>1 DEF Recent, Kept, LpTypeOK
<1>3. /\ calls' = calls + 1 /\ lpNow' = lpNow
      /\ at' = [at EXCEPT ![calls + 1] = lpNow]
      /\ of' = [of EXCEPT ![calls + 1] = p]
      /\ history' = [history EXCEPT ![p] = Recent(c)]
      /\ forgot' = [forgot EXCEPT ![p] = Later(forgot[p], cutoff[c])]
  BY <1>1 DEF Check, Recent, LpTypeOK
<1>4. /\ forgot[p] \in Int /\ forgot'[p] \in Int
      /\ forgot'[p] >= forgot[p] /\ forgot'[p] >= cutoff[c]
  BY <1>1, <1>3, LaterFacts DEF LpTypeOK
<1>5. LpTypeOK'
  <2>1. history' \in [Prompts -> SUBSET LpIds] /\ forgot' \in [Prompts -> Int]
    BY <1>1, <1>2, <1>3, <1>4 DEF LpTypeOK
  <2>2. calls' \in 0 .. MaxCalls /\ lpNow' \in Nat
    BY <1>1, <1>3 DEF LpTypeOK, LpIds
  <2>3. at' \in [LpIds -> Nat] /\ of' \in [LpIds -> Prompts \cup {NoPrompt}]
    BY <1>1, <1>3 DEF LpTypeOK
  <2>4. /\ lpPc' \in [Checkers -> {"idle", "waiting"}]
        /\ arg' \in [Checkers -> Argument \cup {NoCall}]
        /\ \A d \in Checkers : lpPc'[d] = "waiting" => arg'[d] \in Argument
        /\ cutoff' \in [Checkers -> Int]
        /\ alarm' \in [Checkers -> BOOLEAN]
    BY DEF Check, LpTypeOK
  <2>5. ASSUME NEW q \in Prompts, NEW i \in history'[q]
        PROVE  i <= calls' /\ of'[i] = q
    <3>1. CASE q = p
      BY <1>1, <1>2, <1>3, <2>5, <3>1 DEF Recent, Kept, LpTypeOK, LpIds
    <3>2. CASE q # p
      <4>1. i \in history[q] /\ i \in LpIds /\ i <= calls /\ of[i] = q
        BY <1>1, <1>3, <2>5, <3>2 DEF LpTypeOK
      <4> QED BY <1>1, <1>3, <4>1 DEF LpTypeOK, LpIds
    <3> QED BY <3>1, <3>2
  <2> QED BY <2>1, <2>2, <2>3, <2>4, <2>5 DEF LpTypeOK
<1>6. Complete'
  <2> SUFFICES ASSUME NEW q \in Prompts, NEW i \in 1 .. calls',
                      of'[i] = q, at'[i] > forgot'[q]
               PROVE  i \in history'[q]
    BY DEF Complete
  <2>1. i \in LpIds
    BY <1>1, <1>3, LpBoundsAssumption DEF LpIds, LpTypeOK
  <2>2. CASE i = calls + 1
    BY <1>1, <1>3, <2>1, <2>2 DEF Recent, LpTypeOK
  <2>3. CASE i # calls + 1
    <3>1. i \in 1 .. calls /\ of[i] = q /\ at'[i] = at[i] /\ at[i] \in Nat
      BY <1>1, <1>3, <2>1, <2>3 DEF LpTypeOK
    <3>2. CASE q = p
      <4>1. at[i] > forgot[p] /\ at[i] > cutoff[c]
        BY <1>1, <1>4, <3>1, <3>2
      <4>2. i \in Kept(p, cutoff[c])
        BY <1>1, <3>1, <3>2, <4>1 DEF Complete, Kept
      <4> QED BY <1>1, <1>3, <3>2, <4>2 DEF Recent, LpTypeOK
    <3>3. CASE q # p
      BY <1>1, <1>3, <3>1, <3>3 DEF Complete, LpTypeOK
    <3> QED BY <3>2, <3>3
  <2> QED BY <2>2, <2>3
<1>7. CutoffPast'
  <2>1. ASSUME NEW d \in Checkers, lpPc'[d] = "waiting"
        PROVE  d # c /\ lpPc[d] = "waiting" /\ cutoff'[d] = cutoff[d] /\ arg'[d] = arg[d]
    BY <2>1 DEF Check, LpTypeOK
  <2> QED BY <1>3, <2>1 DEF CutoffPast
<1> QED BY <1>5, <1>6, <1>7

LEMMA CleanupIInv ==
  ASSUME LpIInv, NEW age \in Ages, Cleanup(age)
  PROVE  LpIInv'
<1> USE DEF LpIInv
<1>1. lpNow - age \in Int
  BY ArgumentsAssumption DEF LpTypeOK
<1>2. \A p \in Prompts : /\ forgot[p] \in Int
                         /\ forgot'[p] = Later(forgot[p], lpNow - age)
                         /\ forgot'[p] \in Int
                         /\ forgot'[p] >= forgot[p] /\ forgot'[p] >= lpNow - age
  BY <1>1, LaterFacts DEF Cleanup, LpTypeOK
<1>3. LpTypeOK'
  <2>1. forgot' \in [Prompts -> Int]
    BY <1>2 DEF Cleanup
  <2>2. /\ history' \in [Prompts -> SUBSET LpIds]
        /\ \A p \in Prompts : \A i \in history'[p] : i <= calls' /\ of'[i] = p
    BY DEF Cleanup, LpTypeOK, Kept
  <2> QED BY <2>1, <2>2 DEF Cleanup, LpTypeOK
<1>4. Complete'
  <2> SUFFICES ASSUME NEW p \in Prompts, NEW i \in 1 .. calls, of[i] = p, at[i] > forgot'[p]
               PROVE  i \in history'[p]
    BY DEF Cleanup, Complete
  <2>1. at[i] \in Nat
    BY LpBoundsAssumption DEF LpTypeOK, LpIds
  <2>2. at[i] > forgot[p] /\ at[i] > lpNow - age
    BY <1>1, <1>2, <2>1
  <2> QED BY <2>2 DEF Cleanup, Complete, Kept
<1>5. CutoffPast'
  BY DEF Cleanup, CutoffPast
<1> QED BY <1>3, <1>4, <1>5

LEMMA LpTickIInv ==
  ASSUME LpIInv, LpTick
  PROVE  LpIInv'
<1> USE DEF LpIInv
<1>1. LpTypeOK' /\ Complete'
  BY DEF LpTick, LpTypeOK, Complete
<1>2. CutoffPast'
  <2> SUFFICES ASSUME NEW c \in Checkers, lpPc[c] = "waiting"
               PROVE  cutoff[c] <= lpNow' - arg[c].window
    BY DEF LpTick, CutoffPast
  <2>1. arg[c].window \in Nat /\ cutoff[c] \in Int
    BY ArgumentsAssumption DEF LpTypeOK, Argument
  <2> QED BY <2>1 DEF LpTick, CutoffPast, LpTypeOK
<1> QED BY <1>1, <1>2

LEMMA LpInvariance == LpSpec => []LpIInv
<1>1. LpIInv /\ [LpNext]_lpvars => LpIInv'
  <2> SUFFICES ASSUME LpIInv, [LpNext]_lpvars PROVE LpIInv'
    OBVIOUS
  <2>1. CASE \E c \in Checkers : \E a \in Argument : LpCall(c, a)
    BY <2>1, CallIInv
  <2>2. CASE \E c \in Checkers : Check(c)
    BY <2>2, CheckIInv
  <2>3. CASE \E age \in Ages : Cleanup(age)
    BY <2>3, CleanupIInv
  <2>4. CASE LpTick
    BY <2>4, LpTickIInv
  <2>5. CASE UNCHANGED lpvars
    BY <2>5 DEF lpvars, LpIInv, LpTypeOK, Complete, CutoffPast
  <2> QED BY <2>1, <2>2, <2>3, <2>4, <2>5 DEF LpNext
<1> QED BY <1>1, LpInitIInv, PTL DEF LpSpec

\* The types of the detector; no history holds a call of another prompt.
THEOREM LpTypeCorrect == LpSpec => []LpTypeOK
  BY LpInvariance, PTL DEF LpIInv

-----------------------------------------------------------------------------
\* A caller that goes from waiting to idle was in Check.
LEMMA OnlyCheck ==
  ASSUME LpIInv, LpNext, NEW c \in Checkers, lpPc[c] = "waiting", lpPc'[c] = "idle"
  PROVE  Check(c)
<1>1. CASE \E d \in Checkers : \E a \in Argument : LpCall(d, a)
  BY <1>1 DEF LpCall, LpIInv, LpTypeOK
<1>2. CASE \E d \in Checkers : Check(d)
  <2> PICK d \in Checkers : Check(d)
    BY <1>2
  <2>1. d = c
    BY DEF Check, LpIInv, LpTypeOK
  <2> QED BY <2>1
<1>3. CASE (\E age \in Ages : Cleanup(age)) \/ LpTick
  BY <1>3 DEF Cleanup, LpTick
<1> QED BY <1>1, <1>2, <1>3 DEF LpNext

\* What Check compares, and that it can be counted.
LEMMA Compared ==
  ASSUME LpIInv, NEW c \in Checkers, Check(c)
  PROVE  /\ arg[c] \in Argument /\ arg[c].prompt \in Prompts /\ arg[c].max \in Nat
         /\ cutoff[c] \in Int /\ lpNow \in Nat /\ arg[c].window \in Nat
         /\ calls \in Nat /\ calls' = calls + 1
         /\ of' = [of EXCEPT ![calls + 1] = arg[c].prompt]
         /\ at' = [at EXCEPT ![calls + 1] = lpNow]
         /\ of'[calls + 1] = arg[c].prompt
         /\ \A i \in 1 .. calls : of'[i] = of[i] /\ at'[i] = at[i] /\ at[i] \in Nat
         /\ Recent(c) \subseteq 1 .. calls'
         /\ alarm'[c] <=> Cardinality(Recent(c)) > arg[c].max
<1> USE DEF LpIInv
<1>1. arg[c] \in Argument /\ arg[c].prompt \in Prompts /\ arg[c].max \in Nat /\ arg[c].window \in Nat
  BY ArgumentsAssumption DEF Check, LpTypeOK, Argument
<1>2. cutoff[c] \in Int /\ lpNow \in Nat /\ calls \in Nat /\ calls + 1 \in LpIds
  BY LpBoundsAssumption DEF Check, LpTypeOK, LpIds
<1>3. calls' = calls + 1 /\ of' = [of EXCEPT ![calls + 1] = arg[c].prompt]
                         /\ at' = [at EXCEPT ![calls + 1] = lpNow]
  BY DEF Check
<1>4. \A i \in 1 .. calls : i \in LpIds /\ i # calls + 1
  BY <1>2, LpBoundsAssumption DEF LpIds, LpTypeOK
<1>5. of'[calls + 1] = arg[c].prompt
  BY <1>2, <1>3 DEF LpTypeOK
<1>6. \A i \in 1 .. calls : of'[i] = of[i] /\ at'[i] = at[i] /\ at[i] \in Nat
  BY <1>3, <1>4 DEF LpTypeOK
<1>7. Recent(c) \subseteq 1 .. calls'
  BY <1>1, <1>2, <1>3 DEF Recent, Kept, LpTypeOK, LpIds
<1>8. alarm'[c] <=> Cardinality(Recent(c)) > arg[c].max
  BY DEF Check, Recent, LpTypeOK
<1> QED BY <1>1, <1>2, <1>3, <1>5, <1>6, <1>7, <1>8

LEMMA CountsAreMonotone ==
  ASSUME NEW n \in Nat, NEW S, NEW T, S \subseteq T, T \subseteq 1 .. n
  PROVE  /\ Cardinality(S) \in Nat /\ Cardinality(T) \in Nat
         /\ Cardinality(S) <= Cardinality(T)
<1>1. IsFiniteSet(1 .. n)
  BY FS_Interval
<1>2. IsFiniteSet(T)
  BY <1>1, FS_Subset
<1> QED BY <1>2, FS_Subset, FS_CardinalityType

(***************************************************************************)
(* A loop within the window is not overlooked, however long CheckPrompt    *)
(* waited for the lock, unless somebody had pruned into the window.        *)
(***************************************************************************)
THEOREM LoopsAreDetected == LpSpec => DetectsLoop
<1>1. ASSUME LpIInv, [LpNext]_lpvars, NEW c \in Checkers,
             lpPc[c] = "waiting", lpPc'[c] = "idle", ~alarm'[c],
             forgot[arg[c].prompt] <= lpNow - arg[c].window
      PROVE  Cardinality(SeenBy(arg[c].prompt, lpNow - arg[c].window)) <= arg[c].max
  <2> DEFINE p == arg[c].prompt
             start == lpNow - arg[c].window
  <2>1. Check(c)
    BY <1>1, OnlyCheck DEF lpvars
  <2>2. cutoff[c] <= start /\ start \in Int /\ p \in Prompts /\ forgot[p] \in Int
    BY <1>1, <2>1, Compared DEF LpIInv, CutoffPast, LpTypeOK
  <2>3. SeenBy(p, start) \subseteq Recent(c)
    <3> SUFFICES ASSUME NEW i \in SeenBy(p, start), i # calls + 1
                 PROVE  i \in Kept(p, cutoff[c])
      BY DEF Recent
    <3>1. i \in 1 .. calls /\ of[i] = p /\ at[i] \in Nat /\ at[i] > start
      <4>1. i \in 1 .. calls' /\ of'[i] = p /\ (at'[i] > start \/ i = calls')
        BY DEF SeenBy
      <4>2. i \in 1 .. calls /\ at'[i] > start
        BY <1>1, <2>1, <4>1, Compared
      <4> QED BY <1>1, <2>1, <4>1, <4>2, Compared
    <3>2. at[i] > forgot[p] /\ at[i] > cutoff[c]
      BY <1>1, <2>1, <2>2, <3>1, Compared
    <3> QED BY <1>1, <2>2, <3>1, <3>2 DEF LpIInv, Complete, Kept
  <2>4. /\ Cardinality(Recent(c)) \in Nat
        /\ Cardinality(SeenBy(p, start)) \in Nat
        /\ Cardinality(SeenBy(p, start)) <= Cardinality(Recent(c))
    <3>1. calls' \in Nat /\ Recent(c) \subseteq 1 .. calls'
      BY <1>1, <2>1, Compared
    <3> QED BY <2>3, <3>1, CountsAreMonotone
  <2>5. arg[c].max \in Nat /\ ~(Cardinality(Recent(c)) > arg[c].max)
    BY <1>1, <2>1, Compared
  <2> QED BY <2>4, <2>5
<1>2. LpIInv /\ [LpNext]_lpvars =>
        \A c \in Checkers :
          LET p == arg[c].prompt
              start == lpNow - arg[c].window
          IN (lpPc[c] = "waiting" /\ lpPc'[c] = "idle" /\ ~alarm'[c] /\ forgot[p] <= start) =>
               Cardinality(SeenBy(p, start)) <= arg[c].max
  BY <1>1
<1> QED BY <1>2, LpInvariance, PTL DEF LpSpec, DetectsLoop

(***************************************************************************)
(* No alarm is raised without more than the limit of identical prompts     *)
(* since a window before CheckPrompt was called.                           *)
(***************************************************************************)
THEOREM AlarmsAreReal == LpSpec => NoFalseAlarm
<1>1. ASSUME LpIInv, [LpNext]_lpvars, NEW c \in Checkers,
             lpPc[c] = "waiting", lpPc'[c] = "idle", alarm'[c]
      PROVE  Cardinality(SeenBy(arg[c].prompt, cutoff[c])) > arg[c].max
  <2> DEFINE p == arg[c].prompt
             S == SeenBy(p, cutoff[c])
  <2>1. Check(c)
    BY <1>1, OnlyCheck DEF lpvars
  <2>2. Recent(c) \subseteq S
    <3>1. calls + 1 \in S
      BY <1>1, <2>1, Compared DEF SeenBy
    <3>2. ASSUME NEW i \in Kept(p, cutoff[c]) PROVE i \in S
      <4>1. i \in history[p] /\ i \in LpIds /\ at[i] > cutoff[c] /\ i <= calls /\ of[i] = p
        BY <1>1, <2>1, Compared DEF Kept, LpIInv, LpTypeOK
      <4>2. i \in 1 .. calls /\ i \in 1 .. calls'
        BY <1>1, <2>1, <4>1, Compared DEF LpIds
      <4> QED BY <1>1, <2>1, <4>1, <4>2, Compared DEF SeenBy
    <3> QED BY <3>1, <3>2 DEF Recent
  <2>3. S \subseteq 1 .. calls' /\ calls' \in Nat
    BY <1>1, <2>1, Compared DEF SeenBy
  <2>4. /\ Cardinality(Recent(c)) \in Nat /\ Cardinality(S) \in Nat
        /\ Cardinality(Recent(c)) <= Cardinality(S)
    <3> HIDE DEF S
    <3> QED BY <2>2, <2>3, CountsAreMonotone
  <2>5. arg[c].max \in Nat /\ Cardinality(Recent(c)) > arg[c].max
    BY <1>1, <2>1, Compared
  <2> HIDE DEF S
  <2>6. Cardinality(S) > arg[c].max
    BY <2>4, <2>5
  <2> QED BY <2>6 DEF S
<1>2. LpIInv /\ [LpNext]_lpvars =>
        \A c \in Checkers :
          (lpPc[c] = "waiting" /\ lpPc'[c] = "idle" /\ alarm'[c]) =>
             Cardinality(SeenBy(arg[c].prompt, cutoff[c])) > arg[c].max
  BY <1>1
<1> QED BY <1>2, LpInvariance, PTL DEF LpSpec, NoFalseAlarm

-----------------------------------------------------------------------------
(* The router.  A loop over a sequence is a recursive function, so what it *)
(* leaves is proved by induction over the natural numbers; Upward is that  *)
(* induction, with a set in the place of a predicate.                      *)

\* What holds of 0 and of the next of every number it holds of holds of all.
LEMMA Upward ==
  ASSUME NEW T, 0 \in T, \A n \in Nat : n \in T => n + 1 \in T
  PROVE  Nat \subseteq T
<1> SUFFICES ASSUME NEW k \in Nat, k \notin T PROVE FALSE
  OBVIOUS
<1> DEFINE S == 0 .. k
           Stops == {A \in SUBSET S : \E m \in 0 .. k : m \notin T /\ A = 0 .. m}
<1>1. IsFiniteSet(S)
  BY FS_Interval
<1>2. IsWellFoundedOn(StrictSubsetOrdering(S), SUBSET S)
  BY <1>1, FS_StrictSubsetOrderingWellFounded, FS_FiniteSubsetsOfFinite
<1>3. Stops \subseteq SUBSET S /\ S \in Stops
  OBVIOUS
<1>4. PICK A \in Stops : \A B \in Stops : ~(<<B, A>> \in StrictSubsetOrdering(S))
  <2> HIDE DEF Stops, S
  <2> QED BY <1>2, <1>3, WFMin
<1>5. PICK m \in 0 .. k : m \notin T /\ A = 0 .. m
  OBVIOUS
<1>6. m # 0 /\ m - 1 \in Nat /\ m - 1 \notin T
  BY <1>5
<1>7. 0 .. m - 1 \in Stops /\ 0 .. m - 1 \subseteq A /\ 0 .. m - 1 # A
  BY <1>5, <1>6
<1> QED BY <1>3, <1>4, <1>7 DEF StrictSubsetOrdering
\* f takes the steps g from x0 on.
Takes(f, n, x0, g) == f[0] = x0 /\ \A i \in 1 .. n : f[i] = g[i][f[i - 1]]

\* There is a function that takes the steps.
LEMMA Recursion ==
  ASSUME NEW n \in Nat, NEW X, NEW x0 \in X, NEW g \in [1 .. n -> [X -> X]]
  PROVE  \E f \in [0 .. n -> X] : Takes(f, n, x0, g)
<1> DEFINE T == {k \in Nat : k <= n => \E f \in [0 .. k -> X] : Takes(f, k, x0, g)}
<1>1. 0 \in T
  <2>1. [i \in 0 .. 0 |-> x0] \in [0 .. 0 -> X] /\ Takes([i \in 0 .. 0 |-> x0], 0, x0, g)
    BY DEF Takes
  <2> QED BY <2>1
<1>2. ASSUME NEW k \in Nat, k \in T PROVE k + 1 \in T
  <2> SUFFICES ASSUME k + 1 <= n PROVE  \E f \in [0 .. k + 1 -> X] : Takes(f, k + 1, x0, g)
    BY <1>2
  <2>1. PICK f \in [0 .. k -> X] : Takes(f, k, x0, g)
    BY <1>2
  <2> DEFINE h == [i \in 0 .. k + 1 |-> IF i = k + 1 THEN g[k + 1][f[k]] ELSE f[i]]
  <2>2. h \in [0 .. k + 1 -> X]
    BY <1>2, <2>1
  <2>3. h[0] = x0
    BY <2>1 DEF Takes
  <2>4. ASSUME NEW i \in 1 .. k + 1 PROVE h[i] = g[i][h[i - 1]]
    <3>1. CASE i = k + 1
      BY <3>1
    <3>2. CASE i # k + 1
      BY <2>1, <3>2 DEF Takes
    <3> QED BY <3>1, <3>2
  <2>5. Takes(h, k + 1, x0, g)
    <3> HIDE DEF h
    <3> QED BY <2>3, <2>4 DEF Takes
  <2> QED BY <2>2, <2>5
<1>3. Nat \subseteq T
  <2> HIDE DEF T
  <2> QED BY <1>1, <1>2, Upward
<1> QED BY <1>3

\* Two that take the same steps from the same start go the same way.
SameWay(f, h, n) == f[0] = h[0] /\ \A i \in 1 .. n : f[i - 1] = h[i - 1] => f[i] = h[i]

LEMMA OneWay ==
  ASSUME NEW n \in Nat, NEW f, NEW h, SameWay(f, h, n)
  PROVE  \A i \in 0 .. n : f[i] = h[i]
<1> USE DEF SameWay
<1> DEFINE T == {k \in Nat : k <= n => f[k] = h[k]}
<1>1. 0 \in T
  OBVIOUS
<1>2. ASSUME NEW k \in Nat, k \in T PROVE k + 1 \in T
  <2> SUFFICES ASSUME k + 1 <= n PROVE f[k + 1] = h[k + 1]
    OBVIOUS
  <2>1. k + 1 \in 1 .. n /\ (k + 1) - 1 = k
    OBVIOUS
  <2> QED BY <1>2, <2>1
<1>3. Nat \subseteq T
  <2> HIDE DEF T
  <2> QED BY <1>1, <1>2, Upward
<1> QED BY <1>3

\* The loop of Sifted, from one pass to the next.
LEMMA SiftedSteps ==
  ASSUME NEW X, NEW s \in Seq(X), NEW S
  PROVE  \E f \in [0 .. Len(s) -> Seq(X)] :
           /\ Sifted(s, S) = f[Len(s)]
           /\ f[0] = <<>>
           /\ \A i \in 1 .. Len(s) : f[i] = IF s[i] \in S THEN Append(f[i - 1], s[i]) ELSE f[i - 1]
<1> DEFINE n == Len(s)
           Step(i, x) == IF s[i] \in S THEN Append(x, s[i]) ELSE x
           g == [i \in 1 .. n |-> [x \in Seq(X) |-> Step(i, x)]]
           Fn(f) == [i \in 0 .. n |-> IF i = 0 THEN <<>> ELSE Step(i, f[i - 1])]
           sifted == CHOOSE f : f = Fn(f)
<1>1. n \in Nat /\ <<>> \in Seq(X) /\ \A i \in 1 .. n : \A x \in Seq(X) : Step(i, x) \in Seq(X)
  OBVIOUS
<1>2. \E f \in [0 .. n -> Seq(X)] : f[0] = <<>> /\ \A i \in 1 .. n : f[i] = Step(i, f[i - 1])
  <2> HIDE DEF n, Step
  <2>1. g \in [1 .. n -> [Seq(X) -> Seq(X)]]
    BY <1>1
  <2>2. \A i \in 1 .. n : \A x \in Seq(X) : g[i][x] = Step(i, x)
    OBVIOUS
  <2> HIDE DEF g
  <2>3. PICK f \in [0 .. n -> Seq(X)] : Takes(f, n, <<>>, g)
    BY <1>1, <2>1, Recursion
  <2>4. \A i \in 1 .. n : f[i - 1] \in Seq(X)
    BY <1>1
  <2> QED BY <2>2, <2>3, <2>4 DEF Takes
<1>3. PICK f \in [0 .. n -> Seq(X)] : f[0] = <<>> /\ \A i \in 1 .. n : f[i] = Step(i, f[i - 1])
  BY <1>2
<1>4. f = Fn(f)
  <2> HIDE DEF Step
  <2> QED BY <1>1, <1>3
<1>5. sifted = Fn(sifted)
  <2> HIDE DEF Fn
  <2> QED BY <1>4
<1>6. PICK h : h = Fn(h) /\ Sifted(s, S) = h[n]
  <2>1. Sifted(s, S) = sifted[n]
    BY DEF Sifted
  <2> HIDE DEF sifted, Fn, n
  <2> QED BY <1>5, <2>1
<1>7. h[0] = <<>> /\ \A i \in 1 .. n : h[i] = Step(i, h[i - 1])
  <2> HIDE DEF Step
  <2> QED BY <1>1, <1>6
<1>8. Sifted(s, S) = f[n]
  <2> HIDE DEF Step
  <2>1. SameWay(h, f, n)
    BY <1>3, <1>7 DEF SameWay
  <2>2. n \in 0 .. n
    BY <1>1
  <2> HIDE DEF n, Fn
  <2>3. n \in Nat
    BY <1>1
  <2>4. \A i \in 0 .. n : h[i] = f[i]
    BY <2>1, <2>3, OneWay
  <2>5. h[n] = f[n]
    BY <2>2, <2>4
  <2> QED BY <1>6, <2>5
<1>9. /\ f[0] = <<>>
      /\ \A i \in 1 .. Len(s) : f[i] = IF s[i] \in S THEN Append(f[i - 1], s[i]) ELSE f[i - 1]
  BY <1>3
<1> QED BY <1>8, <1>9

-----------------------------------------------------------------------------
(* Where the loop puts what it keeps.                                      *)

\* How many of the first i of s are in S.
Count(s, S, i) == Cardinality({j \in 1 .. i : s[j] \in S})

LEMMA CountType ==
  ASSUME NEW s, NEW S
  PROVE  Count(s, S, 0) = 0 /\ \A i \in Nat : Count(s, S, i) \in Nat
<1> DEFINE J(i) == {j \in 1 .. i : s[j] \in S}
<1>1. \A i \in Nat : Cardinality(J(i)) \in Nat
  <2> TAKE i \in Nat
  <2>1. IsFiniteSet(1 .. i) /\ J(i) \in SUBSET (1 .. i)
    BY FS_Interval
  <2> QED BY <2>1, FS_Subset, FS_CardinalityType
<1>2. J(0) = {}
  OBVIOUS
<1> QED BY <1>1, <1>2, FS_EmptySet DEF Count

LEMMA CountStep ==
  ASSUME NEW s, NEW S, NEW i \in Nat \ {0}
  PROVE  Count(s, S, i) = IF s[i] \in S THEN Count(s, S, i - 1) + 1 ELSE Count(s, S, i - 1)
<1> DEFINE J(k) == {j \in 1 .. k : s[j] \in S}
<1>1. IsFiniteSet(J(i - 1))
  <2>1. IsFiniteSet(1 .. i - 1) /\ J(i - 1) \in SUBSET (1 .. i - 1)
    BY FS_Interval
  <2> QED BY <2>1, FS_Subset
<1>2. J(i) = IF s[i] \in S THEN J(i - 1) \cup {i} ELSE J(i - 1)
  OBVIOUS
<1>3. i \notin J(i - 1)
  OBVIOUS
<1>4. Count(s, S, i) = Cardinality(J(i)) /\ Count(s, S, i - 1) = Cardinality(J(i - 1))
  BY DEF Count
<1> HIDE DEF J
<1> QED BY <1>1, <1>2, <1>3, <1>4, FS_AddElement

LEMMA CountGrows ==
  ASSUME NEW s, NEW S, NEW i \in Nat, NEW j \in Nat, i <= j
  PROVE  Count(s, S, i) <= Count(s, S, j)
<1>1. IsFiniteSet(1 .. j)
  BY FS_Interval
<1>2. {k \in 1 .. j : s[k] \in S} \in SUBSET (1 .. j)
  OBVIOUS
<1>3. IsFiniteSet({k \in 1 .. j : s[k] \in S})
  BY <1>1, <1>2, FS_Subset
<1>4. {k \in 1 .. i : s[k] \in S} \in SUBSET {k \in 1 .. j : s[k] \in S}
  OBVIOUS
<1> QED BY <1>3, <1>4, FS_Subset DEF Count

\* What is kept later is put later.
LEMMA CountOrders ==
  ASSUME NEW s, NEW S, NEW i \in Nat \ {0}, NEW j \in Nat \ {0}, i < j, s[j] \in S
  PROVE  Count(s, S, i) < Count(s, S, j)
<1>1. j - 1 \in Nat /\ i <= j - 1 /\ (j - 1) + 1 = j
  OBVIOUS
<1>2. Count(s, S, i) <= Count(s, S, j - 1)
  BY <1>1, CountGrows
<1>3. Count(s, S, j - 1) \in Nat /\ Count(s, S, i) \in Nat /\ Count(s, S, j) = Count(s, S, j - 1) + 1
  <2>1. Count(s, S, j) = Count(s, S, j - 1) + 1
    BY CountStep
  <2> QED BY <1>1, <2>1, CountType
<1> QED BY <1>2, <1>3

\* Everything of s in S is in the result, at the place its count says, and nothing else.
LEMMA SiftedPlaces ==
  ASSUME NEW X, NEW s \in Seq(X), NEW S
  PROVE  /\ Sifted(s, S) \in Seq(X)
         /\ Len(Sifted(s, S)) = Count(s, S, Len(s))
         /\ \A i \in 1 .. Len(s) : s[i] \in S =>
              Count(s, S, i) \in 1 .. Len(Sifted(s, S)) /\ Sifted(s, S)[Count(s, S, i)] = s[i]
         /\ \A k \in 1 .. Len(Sifted(s, S)) : \E i \in 1 .. Len(s) : s[i] \in S /\ Count(s, S, i) = k
<1> DEFINE n == Len(s)
           C(i) == Count(s, S, i)
<1>1. PICK f \in [0 .. n -> Seq(X)] :
        /\ Sifted(s, S) = f[n]
        /\ f[0] = <<>>
        /\ \A i \in 1 .. n : f[i] = IF s[i] \in S THEN Append(f[i - 1], s[i]) ELSE f[i - 1]
  BY SiftedSteps
<1>2. n \in Nat /\ C(0) = 0 /\ \A i \in Nat : C(i) \in Nat
  <2>1. C(0) = 0 /\ \A i \in Nat : C(i) \in Nat
    BY CountType, Zenon
  <2> HIDE DEF C
  <2> QED BY <2>1
<1>c. \A i \in 1 .. n : C(i) = IF s[i] \in S THEN C(i - 1) + 1 ELSE C(i - 1)
  <2> TAKE i \in 1 .. n
  <2>1. i \in Nat \ {0}
    BY <1>2
  <2> QED BY <2>1, CountStep
<1> DEFINE Placed(m) ==
             /\ Len(f[m]) = C(m)
             /\ \A i \in 1 .. m : s[i] \in S => C(i) \in 1 .. C(m) /\ f[m][C(i)] = s[i]
             /\ \A k \in 1 .. C(m) : \E i \in 1 .. m : s[i] \in S /\ C(i) = k
           T == {m \in Nat : m <= n => Placed(m)}
<1> HIDE DEF C
<1>3. 0 \in T
  <2>1. Len(f[0]) = 0
    BY <1>1
  <2>2. Placed(0)
    BY <1>2, <2>1
  <2> HIDE DEF Placed
  <2> QED BY <2>2
<1>4. ASSUME NEW m \in Nat, m \in T PROVE m + 1 \in T
  <2> SUFFICES ASSUME m + 1 <= n PROVE Placed(m + 1)
    <3> HIDE DEF Placed
    <3> QED OBVIOUS
  <2>1. Placed(m) /\ f[m] \in Seq(X) /\ C(m) \in Nat
    <3>1. m \in 0 .. n
      BY <1>2
    <3> HIDE DEF Placed
    <3>2. m \in T => Placed(m)
      BY <1>2
    <3> HIDE DEF T
    <3> QED BY <1>1, <1>2, <1>4, <3>1, <3>2
  <2>2. m + 1 \in 1 .. n /\ (m + 1) - 1 = m /\ s[m + 1] \in X
    BY <1>2
  <2>3. CASE s[m + 1] \in S
    <3>1. f[m + 1] = Append(f[m], s[m + 1]) /\ C(m + 1) = C(m) + 1
      BY <1>1, <1>c, <2>2, <2>3
    <3>2. Len(f[m + 1]) = C(m + 1) /\ f[m + 1][C(m + 1)] = s[m + 1]
      BY <2>1, <2>2, <3>1
    <3>3. \A k \in 1 .. C(m) : f[m + 1][k] = f[m][k]
      BY <2>1, <2>2, <3>1
    <3>4. \A i \in 1 .. m + 1 : s[i] \in S => C(i) \in 1 .. C(m + 1) /\ f[m + 1][C(i)] = s[i]
      BY <2>1, <3>1, <3>2, <3>3
    <3>5. ASSUME NEW k \in 1 .. C(m + 1) PROVE \E i \in 1 .. m + 1 : s[i] \in S /\ C(i) = k
      <4>1. CASE k = C(m + 1)
        BY <2>2, <2>3, <4>1
      <4>2. CASE k # C(m + 1)
        <5>1. k \in 1 .. C(m)
          BY <2>1, <3>1, <4>2
        <5>2. PICK i \in 1 .. m : s[i] \in S /\ C(i) = k
          BY <2>1, <5>1
        <5>3. i \in 1 .. m + 1
          OBVIOUS
        <5> QED BY <5>2, <5>3
      <4> QED BY <4>1, <4>2
    <3> QED BY <3>2, <3>4, <3>5
  <2>4. CASE s[m + 1] \notin S
    <3>1. f[m + 1] = f[m] /\ C(m + 1) = C(m)
      BY <1>1, <1>c, <2>2, <2>4
    <3> QED BY <2>1, <2>4, <3>1
  <2> QED BY <2>3, <2>4
<1>5. Placed(n)
  <2>1. Nat \subseteq T
    <3> HIDE DEF T
    <3> QED BY <1>3, <1>4, Upward
  <2> HIDE DEF Placed
  <2> QED BY <1>2, <2>1
<1>6. Sifted(s, S) = f[n] /\ f[n] \in Seq(X) /\ Len(f[n]) = C(n)
  <2>1. n \in 0 .. n
    BY <1>2
  <2> QED BY <1>1, <1>5, <2>1
<1> QED BY <1>5, <1>6 DEF C

-----------------------------------------------------------------------------
(* The least and the greatest of what the models cost, and the least       *)
(* latency by the loop that looks for it.                                  *)

LEMMA LeastIs ==
  ASSUME NEW S \in SUBSET Nat, S # {}
  PROVE  Least(S) \in S /\ \A y \in S : Least(S) <= y
<1>1. \E x \in S : \A y \in S : x <= y
  <2> SUFFICES ASSUME \A x \in S : \E y \in S : ~(x <= y) PROVE FALSE
    OBVIOUS
  <2> DEFINE T == {k \in Nat : \A x \in S : k < x}
  <2>1. 0 \in T
    OBVIOUS
  <2>2. ASSUME NEW k \in Nat, k \in T PROVE k + 1 \in T
    BY <2>2
  <2>3. Nat \subseteq T
    <3> HIDE DEF T
    <3> QED BY <2>1, <2>2, Upward
  <2>4. PICK x \in S : TRUE
    OBVIOUS
  <2>5. x \in T
    BY <2>3, <2>4
  <2>6. x < x
    BY <2>5
  <2> QED BY <2>6
<1> QED BY <1>1 DEF Least

LEMMA GreatestIs ==
  ASSUME NEW n \in Nat \ {0}, NEW g \in [1 .. n -> Nat], NEW S, S = {g[i] : i \in 1 .. n}
  PROVE  Greatest(S) \in S /\ \A y \in S : Greatest(S) >= y
<1>1. \E x \in S : \A y \in S : x >= y
  <2> DEFINE Top(k) == \E i \in 1 .. k : \A j \in 1 .. k : g[j] <= g[i]
             T == {k \in Nat : k + 1 <= n => Top(k + 1)}
  <2>1. 0 \in T
    OBVIOUS
  <2>2. ASSUME NEW k \in Nat, k \in T PROVE k + 1 \in T
    <3> SUFFICES ASSUME (k + 1) + 1 <= n PROVE Top((k + 1) + 1)
      OBVIOUS
    <3>1. PICK i \in 1 .. k + 1 : \A j \in 1 .. k + 1 : g[j] <= g[i]
      BY <2>2
    <3>2. CASE g[k + 2] <= g[i]
      <4>1. i \in 1 .. k + 2 /\ \A j \in 1 .. k + 2 : g[j] <= g[i]
        BY <3>1, <3>2
      <4> QED BY <4>1
    <3>3. CASE ~(g[k + 2] <= g[i])
      <4>1. \A j \in 1 .. k + 2 : g[j] <= g[k + 2]
        BY <3>1, <3>3
      <4> QED BY <4>1
    <3> QED BY <3>2, <3>3
  <2>3. n - 1 \in T
    <3>1. n - 1 \in Nat
      OBVIOUS
    <3> HIDE DEF T
    <3>2. Nat \subseteq T
      BY <2>1, <2>2, Upward
    <3> QED BY <3>1, <3>2
  <2>4. Top(n)
    BY <2>3
  <2> QED BY <2>4
<1> QED BY <1>1 DEF Greatest

\* The loop of MinLat, from one pass to the next.
LEMMA MinLatSteps ==
  ASSUME NEW X, NEW s \in Seq(X), \A i \in 1 .. Len(s) : s[i].latency \in Nat
  PROVE  \E f \in [0 .. Len(s) -> Nat] :
           /\ MinLat(s) = f[Len(s)]
           /\ f[0] = 0
           /\ \A i \in 1 .. Len(s) :
                f[i] = IF s[i].latency < f[i - 1] \/ f[i - 1] = 0 THEN s[i].latency ELSE f[i - 1]
<1> DEFINE n == Len(s)
           Step(i, x) == IF s[i].latency < x \/ x = 0 THEN s[i].latency ELSE x
           g == [i \in 1 .. n |-> [x \in Nat |-> Step(i, x)]]
           Fn(f) == [i \in 0 .. n |-> IF i = 0 THEN 0 ELSE Step(i, f[i - 1])]
           low == CHOOSE f : f = Fn(f)
<1>1. n \in Nat /\ \A i \in 1 .. n : \A x \in Nat : Step(i, x) \in Nat
  OBVIOUS
<1>2. \E f \in [0 .. n -> Nat] : f[0] = 0 /\ \A i \in 1 .. n : f[i] = Step(i, f[i - 1])
  <2> HIDE DEF n, Step
  <2>1. g \in [1 .. n -> [Nat -> Nat]]
    BY <1>1
  <2>2. \A i \in 1 .. n : \A x \in Nat : g[i][x] = Step(i, x)
    OBVIOUS
  <2> HIDE DEF g
  <2>3. PICK f \in [0 .. n -> Nat] : Takes(f, n, 0, g)
    BY <1>1, <2>1, Recursion
  <2>4. \A i \in 1 .. n : f[i - 1] \in Nat
    BY <1>1
  <2> QED BY <2>2, <2>3, <2>4 DEF Takes
<1>3. PICK f \in [0 .. n -> Nat] : f[0] = 0 /\ \A i \in 1 .. n : f[i] = Step(i, f[i - 1])
  BY <1>2
<1>4. f = Fn(f)
  <2> HIDE DEF Step
  <2> QED BY <1>1, <1>3
<1>5. low = Fn(low)
  <2> HIDE DEF Fn
  <2> QED BY <1>4
<1>6. PICK h : h = Fn(h) /\ MinLat(s) = h[n]
  <2>1. MinLat(s) = low[n]
    BY DEF MinLat
  <2> HIDE DEF low, Fn, n
  <2> QED BY <1>5, <2>1
<1>7. h[0] = 0 /\ \A i \in 1 .. n : h[i] = Step(i, h[i - 1])
  <2> HIDE DEF Step, n
  <2>1. h[0] = 0
    BY <1>1, <1>6
  <2>2. ASSUME NEW i \in 1 .. n PROVE h[i] = Step(i, h[i - 1])
    <3>1. i \in 0 .. n /\ i # 0
      BY <1>1
    <3> QED BY <1>6, <3>1
  <2> QED BY <2>1, <2>2
<1>8. MinLat(s) = f[n]
  <2> HIDE DEF Step
  <2>1. SameWay(h, f, n)
    BY <1>3, <1>7 DEF SameWay
  <2>2. n \in 0 .. n
    BY <1>1
  <2> HIDE DEF n, Fn
  <2>3. n \in Nat
    BY <1>1
  <2>4. \A i \in 0 .. n : h[i] = f[i]
    BY <2>1, <2>3, OneWay
  <2>5. h[n] = f[n]
    BY <2>2, <2>4
  <2> QED BY <1>6, <2>5
<1>9. /\ f[0] = 0
      /\ \A i \in 1 .. Len(s) :
           f[i] = IF s[i].latency < f[i - 1] \/ f[i - 1] = 0 THEN s[i].latency ELSE f[i - 1]
  BY <1>3
<1> QED BY <1>8, <1>9

\* When all latencies are known the loop finds the least.
LEMMA MinLatIs ==
  ASSUME NEW X, NEW s \in Seq(X), s # <<>>, \A i \in 1 .. Len(s) : s[i].latency \in Nat \ {0}
  PROVE  MinLat(s) \in Latencies(s) /\ \A y \in Latencies(s) : MinLat(s) <= y
<1>1. PICK f \in [0 .. Len(s) -> Nat] :
        /\ MinLat(s) = f[Len(s)]
        /\ f[0] = 0
        /\ \A i \in 1 .. Len(s) :
             f[i] = IF s[i].latency < f[i - 1] \/ f[i - 1] = 0 THEN s[i].latency ELSE f[i - 1]
  BY MinLatSteps
<1> DEFINE n == Len(s)
           Low(k) == /\ f[k] # 0
                     /\ \E i \in 1 .. k : f[k] = s[i].latency
                     /\ \A i \in 1 .. k : f[k] <= s[i].latency
           T == {k \in Nat : k + 1 <= n => Low(k + 1)}
<1>2. n \in Nat /\ n # 0
  OBVIOUS
<1>3. 0 \in T
  <2>1. f[1] = s[1].latency
    BY <1>1, <1>2
  <2> QED BY <1>2, <2>1
<1>4. ASSUME NEW k \in Nat, k \in T PROVE k + 1 \in T
  <2> SUFFICES ASSUME k + 2 <= n PROVE Low(k + 2)
    OBVIOUS
  <2>1. Low(k + 1)
    BY <1>4
  <2>2. /\ f[k + 1] \in Nat /\ s[k + 2].latency \in Nat \ {0}
        /\ f[k + 2] = IF s[k + 2].latency < f[k + 1] \/ f[k + 1] = 0 THEN s[k + 2].latency ELSE f[k + 1]
    BY <1>1, <1>2
  <2>3. CASE s[k + 2].latency < f[k + 1]
    <3>1. f[k + 2] = s[k + 2].latency
      BY <2>2, <2>3
    <3>2. \A i \in 1 .. k + 1 : f[k + 2] <= s[i].latency
      BY <2>1, <2>2, <2>3, <3>1
    <3> QED BY <2>2, <3>1, <3>2
  <2>4. CASE ~(s[k + 2].latency < f[k + 1])
    BY <2>1, <2>2, <2>4
  <2> QED BY <2>3, <2>4
<1>5. Low(n)
  <2>1. n - 1 \in Nat
    BY <1>2
  <2>2. n - 1 \in T
    <3> HIDE DEF T
    <3>1. Nat \subseteq T
      BY <1>3, <1>4, Upward
    <3> QED BY <2>1, <3>1
  <2> QED BY <1>2, <2>2
<1>6. DOMAIN s = 1 .. n
  OBVIOUS
<1> QED BY <1>1, <1>5, <1>6 DEF Latencies

\* The figures of the models of s are numbers, and no latency is unknown.
FiguresKnown(s) ==
  \A i \in DOMAIN s :
    s[i].price \in Nat /\ s[i].latency \in Nat \ {0} /\ s[i].reliability \in Nat

Weighted == route.weightCost \in Nat /\ route.weightLatency \in Nat /\ route.weightReliability \in Nat

\* The bounds of prices and latencies are those of some of the models.
LEMMA Bounds ==
  ASSUME NEW X, NEW s \in Seq(X), s # <<>>, FiguresKnown(s)
  PROVE  /\ Least(Costs(s)) \in Nat /\ Greatest(Costs(s)) \in Nat
         /\ MinLat(s) \in Nat /\ Greatest(Latencies(s)) \in Nat
         /\ \A m \in ToSet(s) :
              /\ m.price \in Nat /\ Least(Costs(s)) <= m.price /\ m.price <= Greatest(Costs(s))
              /\ m.latency \in Nat /\ MinLat(s) <= m.latency /\ m.latency <= Greatest(Latencies(s))
              /\ m.reliability \in Nat
<1>1. Len(s) \in Nat \ {0} /\ DOMAIN s = 1 .. Len(s)
  OBVIOUS
<1>2. /\ \A i \in 1 .. Len(s) : s[i].price \in Nat
      /\ \A i \in 1 .. Len(s) : s[i].latency \in Nat \ {0}
      /\ \A i \in 1 .. Len(s) : s[i].reliability \in Nat
  BY <1>1 DEF FiguresKnown
<1>3. Costs(s) \in SUBSET Nat /\ Latencies(s) \in SUBSET Nat
  BY <1>1, <1>2 DEF Costs, Latencies
<1>4. Costs(s) # {} /\ Latencies(s) # {}
  BY <1>1 DEF Costs, Latencies
<1>5. Least(Costs(s)) \in Costs(s) /\ \A y \in Costs(s) : Least(Costs(s)) <= y
  BY <1>3, <1>4, LeastIs
<1>6. Greatest(Costs(s)) \in Costs(s) /\ \A y \in Costs(s) : Greatest(Costs(s)) >= y
  <2> DEFINE g == [i \in 1 .. Len(s) |-> s[i].price]
  <2>1. g \in [1 .. Len(s) -> Nat]
    BY <1>2
  <2>2. Costs(s) = {g[i] : i \in 1 .. Len(s)}
    BY <1>1 DEF Costs
  <2> HIDE DEF g
  <2> QED BY <1>1, <2>1, <2>2, GreatestIs
<1>7. Greatest(Latencies(s)) \in Latencies(s) /\ \A y \in Latencies(s) : Greatest(Latencies(s)) >= y
  <2> DEFINE g == [i \in 1 .. Len(s) |-> s[i].latency]
  <2>1. g \in [1 .. Len(s) -> Nat]
    BY <1>2
  <2>2. Latencies(s) = {g[i] : i \in 1 .. Len(s)}
    BY <1>1 DEF Latencies
  <2> HIDE DEF g
  <2> QED BY <1>1, <2>1, <2>2, GreatestIs
<1>8. MinLat(s) \in Latencies(s) /\ \A y \in Latencies(s) : MinLat(s) <= y
  BY <1>2, MinLatIs
<1>9. ASSUME NEW m \in ToSet(s)
      PROVE  m.price \in Costs(s) /\ m.latency \in Latencies(s) /\ m.reliability \in Nat
  <2>1. PICK i \in 1 .. Len(s) : m = s[i]
    BY <1>1 DEF ToSet
  <2> QED BY <1>1, <1>2, <2>1 DEF Costs, Latencies
<1>10. /\ Least(Costs(s)) \in Nat /\ Greatest(Costs(s)) \in Nat
       /\ MinLat(s) \in Nat /\ Greatest(Latencies(s)) \in Nat
  BY <1>3, <1>5, <1>6, <1>7, <1>8
<1>11. ASSUME NEW m \in ToSet(s)
       PROVE  /\ m.price \in Nat /\ Least(Costs(s)) <= m.price /\ m.price <= Greatest(Costs(s))
              /\ m.latency \in Nat /\ MinLat(s) <= m.latency /\ m.latency <= Greatest(Latencies(s))
  <2>1. Greatest(Costs(s)) >= m.price /\ Greatest(Latencies(s)) >= m.latency
    BY <1>6, <1>7, <1>9
  <2>2. Least(Costs(s)) <= m.price /\ MinLat(s) <= m.latency
    BY <1>5, <1>8, <1>9
  <2>3. m.price \in Nat /\ m.latency \in Nat
    BY <1>3, <1>9
  <2> QED BY <1>10, <2>1, <2>2, <2>3
<1> QED BY <1>9, <1>10, <1>11

\* When all latencies are known the least is a matter of which there are, not of their order.
LEMMA MinLatLeast ==
  ASSUME NEW X, NEW s \in Seq(X), s # <<>>, FiguresKnown(s)
  PROVE  MinLat(s) = Least(Latencies(s))
<1>1. Len(s) \in Nat \ {0} /\ DOMAIN s = 1 .. Len(s)
  OBVIOUS
<1>2. \A i \in 1 .. Len(s) : s[i].latency \in Nat \ {0}
  BY <1>1 DEF FiguresKnown
<1>3. MinLat(s) \in Latencies(s) /\ \A y \in Latencies(s) : MinLat(s) <= y
  BY <1>2, MinLatIs
<1>4. Latencies(s) \in SUBSET Nat /\ Latencies(s) # {}
  BY <1>1, <1>2 DEF Latencies
<1>5. Least(Latencies(s)) \in Latencies(s) /\ \A y \in Latencies(s) : Least(Latencies(s)) <= y
  BY <1>4, LeastIs
<1>6. MinLat(s) <= Least(Latencies(s)) /\ Least(Latencies(s)) <= MinLat(s)
  BY <1>3, <1>5
<1>7. MinLat(s) \in Nat /\ Least(Latencies(s)) \in Nat
  BY <1>3, <1>4, <1>5
<1> QED BY <1>6, <1>7

\* Two lists of the same models give the same scores.
LEMMA SameScores ==
  ASSUME NEW X, NEW s \in Seq(X), NEW t \in Seq(X), s # <<>>, ToSet(s) = ToSet(t), FiguresKnown(s), FiguresKnown(t)
  PROVE  \A m : Score(s, m) = Score(t, m)
<1>1. t # <<>>
  BY DEF ToSet
<1>2. Costs(s) = {m.price : m \in ToSet(s)} /\ Costs(t) = {m.price : m \in ToSet(t)}
  BY DEF Costs, ToSet
<1>3. Latencies(s) = {m.latency : m \in ToSet(s)} /\ Latencies(t) = {m.latency : m \in ToSet(t)}
  BY DEF Latencies, ToSet
<1>4. MinLat(s) = Least(Latencies(s)) /\ MinLat(t) = Least(Latencies(t))
  BY <1>1, MinLatLeast
<1>5. Costs(s) = Costs(t) /\ Latencies(s) = Latencies(t) /\ MinLat(s) = MinLat(t)
  BY <1>2, <1>3, <1>4
<1> QED BY <1>5 DEF Score

\* More of one factor is more of the product: the first two parts of a score, and the third.
LEMMA CostTimes ==
  ASSUME NEW w \in Nat, NEW x \in Nat, NEW y \in Nat, NEW l \in Nat, x >= y
  PROVE  /\ w * x * l * 100 \in Nat /\ w * y * l * 100 \in Nat
         /\ w * x * l * 100 >= w * y * l * 100
         /\ w > 0 /\ x > y /\ l > 0 => w * x * l * 100 > w * y * l * 100
<1>1. PICK d \in Nat : x = y + d
  <2>1. x - y \in Nat /\ x = y + (x - y)
    OBVIOUS
  <2> QED BY <2>1
<1>2. w * x * l = w * y * l + w * d * l
  BY <1>1
<1>3. w * y * l \in Nat /\ w * d * l \in Nat /\ w * x * l \in Nat
  OBVIOUS
<1>4. w > 0 /\ d > 0 /\ l > 0 => w * d * l > 0
  OBVIOUS
<1>5. x > y => d > 0
  BY <1>1
<1> DEFINE p == w * y * l
           q == w * d * l
           u == w * x * l
<1>6. u = p + q /\ p \in Nat /\ q \in Nat /\ u \in Nat /\ (w > 0 /\ x > y /\ l > 0 => q > 0)
  BY <1>2, <1>3, <1>4, <1>5
<1> HIDE DEF p, q, u
<1>7. u * 100 \in Nat /\ p * 100 \in Nat /\ u * 100 >= p * 100 /\ (q > 0 => u * 100 > p * 100)
  BY <1>6
<1>8. u * 100 \in Nat /\ p * 100 \in Nat /\ u * 100 >= p * 100
      /\ (w > 0 /\ x > y /\ l > 0 => u * 100 > p * 100)
  BY <1>6, <1>7
<1> QED BY <1>8 DEF p, q, u

LEMMA QualityTimes ==
  ASSUME NEW w \in Nat, NEW x \in Nat, NEW y \in Nat, NEW c \in Nat, NEW l \in Nat, x >= y
  PROVE  /\ w * x * c * l \in Nat /\ w * y * c * l \in Nat
         /\ w * x * c * l >= w * y * c * l
         /\ w > 0 /\ x > y /\ c > 0 /\ l > 0 => w * x * c * l > w * y * c * l
<1>1. PICK d \in Nat : x = y + d
  <2>1. x - y \in Nat /\ x = y + (x - y)
    OBVIOUS
  <2> QED BY <2>1
<1> DEFINE k == c * l
<1>2. k \in Nat /\ (c > 0 /\ l > 0 => k > 0)
  OBVIOUS
<1>3. w * x * c * l = w * x * k /\ w * y * c * l = w * y * k
  OBVIOUS
<1> HIDE DEF k
<1>4. w * x * k = w * y * k + w * d * k
  BY <1>1, <1>2
<1>5. w * y * k \in Nat /\ w * d * k \in Nat /\ w * x * k \in Nat
  BY <1>2
<1>6. w > 0 /\ d > 0 /\ k > 0 => w * d * k > 0
  BY <1>2
<1>7. x > y => d > 0
  BY <1>1
<1>8. /\ w * x * k >= w * y * k
      /\ w > 0 /\ x > y /\ c > 0 /\ l > 0 => w * x * k > w * y * k
  BY <1>2, <1>4, <1>5, <1>6, <1>7
<1> QED BY <1>3, <1>5, <1>8

\* Less is worth more, within the bounds.
LEMMA NormIs ==
  ASSUME NEW low \in Nat, NEW high \in Nat, NEW x \in Nat, NEW y \in Nat,
         low <= x, x <= y, y <= high
  PROVE  /\ Norm(low, high, x) \in Nat /\ Norm(low, high, y) \in Nat /\ Spread(low, high) \in Nat \ {0}
         /\ Norm(low, high, x) >= Norm(low, high, y)
         /\ x < y => Norm(low, high, x) > Norm(low, high, y)
BY DEF Norm, Spread

\* A better model has a higher score.
LEMMA ScoreBetter ==
  ASSUME NEW X, NEW s \in Seq(X), s # <<>>, FiguresKnown(s), Weighted,
         NEW a \in ToSet(s), NEW b \in ToSet(s), Better(a, b)
  PROVE  Score(s, a) \in Nat /\ Score(s, b) \in Nat /\ Score(s, a) > Score(s, b)
<1> DEFINE minCost == Least(Costs(s))
           maxCost == Greatest(Costs(s))
           minLat == MinLat(s)
           maxLat == Greatest(Latencies(s))
           c == Spread(minCost, maxCost)
           l == Spread(minLat, maxLat)
           ac == Norm(minCost, maxCost, a.price)
           bc == Norm(minCost, maxCost, b.price)
           al == Norm(minLat, maxLat, a.latency)
           bl == Norm(minLat, maxLat, b.latency)
           cost(x) == route.weightCost * x * l * 100
           latency(x) == route.weightLatency * x * c * 100
           reliability(x) == route.weightReliability * x * c * l
<1>1. /\ Score(s, a) = cost(ac) + latency(al) + reliability(a.reliability)
      /\ Score(s, b) = cost(bc) + latency(bl) + reliability(b.reliability)
  BY DEF Score
<1>2. /\ minCost \in Nat /\ maxCost \in Nat /\ minLat \in Nat /\ maxLat \in Nat
      /\ \A m \in ToSet(s) :
           /\ m.price \in Nat /\ minCost <= m.price /\ m.price <= maxCost
           /\ m.latency \in Nat /\ minLat <= m.latency /\ m.latency <= maxLat
           /\ m.reliability \in Nat
  BY Bounds
<1>3. /\ a.price <= b.price /\ a.latency <= b.latency /\ a.reliability >= b.reliability
      /\ \/ a.price < b.price /\ route.weightCost > 0
         \/ a.latency < b.latency /\ route.weightLatency > 0
         \/ a.reliability > b.reliability /\ route.weightReliability > 0
  BY DEF Better
<1>4. /\ ac \in Nat /\ bc \in Nat /\ c \in Nat \ {0} /\ ac >= bc
      /\ a.price < b.price => ac > bc
  <2> HIDE DEF minCost, maxCost
  <2> QED BY <1>2, <1>3, NormIs
<1>5. /\ al \in Nat /\ bl \in Nat /\ l \in Nat \ {0} /\ al >= bl
      /\ a.latency < b.latency => al > bl
  <2> HIDE DEF minLat, maxLat
  <2> QED BY <1>2, <1>3, NormIs
<1>6. /\ route.weightCost \in Nat /\ route.weightLatency \in Nat /\ route.weightReliability \in Nat
      /\ a.reliability \in Nat /\ b.reliability \in Nat
  BY <1>2 DEF Weighted
<1> HIDE DEF ac, bc, al, bl, c, l, minCost, maxCost, minLat, maxLat
<1>7. /\ cost(ac) \in Nat /\ cost(bc) \in Nat /\ cost(ac) >= cost(bc)
      /\ a.price < b.price /\ route.weightCost > 0 => cost(ac) > cost(bc)
  <2>1. c > 0 /\ l > 0 /\ c \in Nat /\ l \in Nat
    BY <1>4, <1>5
  <2>2. /\ cost(ac) \in Nat /\ cost(bc) \in Nat /\ cost(ac) >= cost(bc)
        /\ route.weightCost > 0 /\ ac > bc /\ l > 0 => cost(ac) > cost(bc)
    BY <1>4, <1>6, <2>1, CostTimes
  <2> HIDE DEF cost
  <2> QED BY <1>4, <2>1, <2>2
<1>8. /\ latency(al) \in Nat /\ latency(bl) \in Nat /\ latency(al) >= latency(bl)
      /\ a.latency < b.latency /\ route.weightLatency > 0 => latency(al) > latency(bl)
  <2>1. c > 0 /\ l > 0 /\ c \in Nat /\ l \in Nat
    BY <1>4, <1>5
  <2>2. /\ latency(al) \in Nat /\ latency(bl) \in Nat /\ latency(al) >= latency(bl)
        /\ route.weightLatency > 0 /\ al > bl /\ c > 0 => latency(al) > latency(bl)
    BY <1>5, <1>6, <2>1, CostTimes
  <2> HIDE DEF latency
  <2> QED BY <1>5, <2>1, <2>2
<1>9. /\ reliability(a.reliability) \in Nat /\ reliability(b.reliability) \in Nat
      /\ reliability(a.reliability) >= reliability(b.reliability)
      /\ a.reliability > b.reliability /\ route.weightReliability > 0 =>
           reliability(a.reliability) > reliability(b.reliability)
  <2>1. c > 0 /\ l > 0 /\ c \in Nat /\ l \in Nat
    BY <1>4, <1>5
  <2>2. /\ reliability(a.reliability) \in Nat /\ reliability(b.reliability) \in Nat
        /\ reliability(a.reliability) >= reliability(b.reliability)
        /\ route.weightReliability > 0 /\ a.reliability > b.reliability /\ c > 0 /\ l > 0 =>
             reliability(a.reliability) > reliability(b.reliability)
    BY <1>3, <1>6, <2>1, QualityTimes
  <2> HIDE DEF reliability
  <2> QED BY <2>1, <2>2
<1> HIDE DEF cost, latency, reliability
<1> QED BY <1>1, <1>3, <1>7, <1>8, <1>9

-----------------------------------------------------------------------------
\* A list without repetitions is as long as the set of its members is large.
LEMMA CountOf ==
  ASSUME NEW X, NEW s \in Seq(X), IsInjective(s)
  PROVE  IsFiniteSet(ToSet(s)) /\ Cardinality(ToSet(s)) = Len(s)
<1>1. s \in Bijection(1 .. Len(s), ToSet(s))
  BY DEF Bijection, Injection, Surjection, IsInjective, ToSet
<1>2. ExistsBijection(1 .. Len(s), ToSet(s))
  BY <1>1 DEF ExistsBijection
<1>3. Len(s) \in Nat
  OBVIOUS
<1>4. Cardinality(ToSet(s)) = Len(s)
  BY <1>2, <1>3, FS_CountingElements
<1> QED BY <1>2, <1>3, <1>4, FS_NatBijection

LEMMA FiniteSeq ==
  ASSUME NEW X, NEW s \in Seq(X)
  PROVE  IsFiniteSet(ToSet(s))
<1>1. s \in Surjection(1 .. Len(s), ToSet(s))
  BY DEF Surjection, ToSet
<1>2. IsFiniteSet(1 .. Len(s))
  BY FS_Interval
<1> QED BY <1>1, <1>2, FS_Surjection

\* A ranking names every model once, the higher scores first.
LEMMA RankedIs ==
  ASSUME NEW X, NEW s \in Seq(X), NEW r \in Ranked(s)
  PROVE  /\ r \in Seq(ToSet(s)) /\ Len(r) = Cardinality(ToSet(s))
         /\ IsInjective(r) /\ ToSet(r) = ToSet(s)
         /\ \A i, j \in DOMAIN r : i < j => Score(s, r[i]) >= Score(s, r[j])
<1> DEFINE n == Cardinality(ToSet(s))
<1>1. IsFiniteSet(ToSet(s)) /\ n \in Nat
  BY FiniteSeq, FS_CardinalityType
<1>2. /\ r \in [1 .. n -> ToSet(s)]
      /\ \A i, j \in 1 .. n : i # j => r[i] # r[j]
      /\ \A i, j \in DOMAIN r : i < j => Score(s, r[i]) >= Score(s, r[j])
  BY DEF Ranked, SetToSeqs
<1> HIDE DEF n
<1>3. r \in Seq(ToSet(s)) /\ Len(r) = n /\ DOMAIN r = 1 .. n
  BY <1>1, <1>2
<1>4. IsInjective(r)
  BY <1>2, <1>3 DEF IsInjective
<1>5. r \in Injection(1 .. n, ToSet(s))
  BY <1>2, <1>4 DEF Injection
<1>6. Cardinality(1 .. n) = n
  BY <1>1, FS_Interval
<1>7. r \in Surjection(1 .. n, ToSet(s))
  BY <1>1, <1>5, <1>6, FS_Injection DEF n
<1>8. ToSet(r) = ToSet(s)
  BY <1>3, <1>7 DEF Surjection, ToSet
<1> QED BY <1>2, <1>3, <1>4, <1>8 DEF n

\* What the loop keeps of a list without repetitions: each of them once, in the list's order.
LEMMA SiftedOnce ==
  ASSUME NEW X, NEW s \in Seq(X), NEW S, S \subseteq ToSet(s), IsInjective(s)
  PROVE  /\ Sifted(s, S) \in Seq(X) /\ IsInjective(Sifted(s, S)) /\ ToSet(Sifted(s, S)) = S
         /\ IsFiniteSet(S) /\ Len(Sifted(s, S)) = Cardinality(S)
<1> DEFINE q == Sifted(s, S)
<1>1. /\ q \in Seq(X)
      /\ \A i \in 1 .. Len(s) : s[i] \in S => Count(s, S, i) \in 1 .. Len(q) /\ q[Count(s, S, i)] = s[i]
      /\ \A k \in 1 .. Len(q) : \E i \in 1 .. Len(s) : s[i] \in S /\ Count(s, S, i) = k
  BY SiftedPlaces
<1> HIDE DEF q
<1>2. DOMAIN s = 1 .. Len(s) /\ DOMAIN q = 1 .. Len(q)
  BY <1>1
<1>3. IsInjective(q)
  <2> SUFFICES ASSUME NEW k \in 1 .. Len(q), NEW l \in 1 .. Len(q), q[k] = q[l] PROVE k = l
    BY <1>2 DEF IsInjective
  <2>1. PICK i \in 1 .. Len(s) : s[i] \in S /\ Count(s, S, i) = k
    BY <1>1
  <2>2. PICK j \in 1 .. Len(s) : s[j] \in S /\ Count(s, S, j) = l
    BY <1>1
  <2>3. s[i] = s[j]
    BY <1>1, <2>1, <2>2
  <2>4. i = j
    BY <1>2, <2>3 DEF IsInjective
  <2> QED BY <2>1, <2>2, <2>4
<1>4. ToSet(q) = S
  <2>1. ASSUME NEW x \in S PROVE x \in ToSet(q)
    <3>1. PICK i \in 1 .. Len(s) : s[i] = x
      BY <1>2 DEF ToSet
    <3>2. Count(s, S, i) \in 1 .. Len(q) /\ q[Count(s, S, i)] = x
      BY <1>1, <3>1
    <3> QED BY <1>2, <3>2 DEF ToSet
  <2>2. ASSUME NEW x \in ToSet(q) PROVE x \in S
    <3>1. PICK k \in 1 .. Len(q) : q[k] = x
      BY <1>2 DEF ToSet
    <3> QED BY <1>1, <3>1
  <2> QED BY <2>1, <2>2
<1>5. IsFiniteSet(ToSet(q)) /\ Cardinality(ToSet(q)) = Len(q)
  BY <1>1, <1>3, CountOf
<1> QED BY <1>1, <1>3, <1>4, <1>5 DEF q

\* p is ids with the preferred model in front: the same models, no others changing places.
Promotes(ids, p) ==
  /\ Len(p) = Len(ids) /\ IsInjective(p) /\ ToSet(p) = ToSet(ids)
  /\ route.preferred \in ToSet(ids) => p[1] = route.preferred
  /\ \A i, j \in 1 .. Len(ids) : i < j /\ ids[j] # route.preferred =>
       \E k, l \in 1 .. Len(p) : k < l /\ p[k] = ids[i] /\ p[l] = ids[j]

LEMMA PreferredIs ==
  ASSUME NEW X, NEW ids \in Seq(X), IsInjective(ids), NEW p, p = Preferred(ids)
  PROVE  p \in Seq(X) /\ Promotes(ids, p)
<1>1. DOMAIN ids = 1 .. Len(ids) /\ Len(ids) \in Nat
  OBVIOUS
<1>2. CASE route.preferred \notin ToSet(ids)
  <2>1. p = ids
    BY <1>2 DEF Preferred
  <2> QED BY <1>2, <2>1 DEF Promotes
<1>3. CASE route.preferred \in ToSet(ids)
  <2> DEFINE x == route.preferred
             S == ToSet(ids) \ {x}
             q == Sifted(ids, S)
  <2>1. p = <<x>> \o q
    BY <1>3 DEF Preferred
  <2>2. /\ q \in Seq(X) /\ IsInjective(q) /\ ToSet(q) = S
        /\ IsFiniteSet(S) /\ Len(q) = Cardinality(S)
    BY SiftedOnce
  <2>3. IsFiniteSet(ToSet(ids)) /\ Cardinality(ToSet(ids)) = Len(ids)
    BY CountOf
  <2>4. Len(q) = Len(ids) - 1
    BY <1>3, <2>2, <2>3, FS_RemoveElement
  <2>5. x \in X
    BY <1>3 DEF ToSet
  <2>6. \A i \in 1 .. Len(ids) : ids[i] \in S => Count(ids, S, i) \in 1 .. Len(q) /\ q[Count(ids, S, i)] = ids[i]
    BY SiftedPlaces
  <2>7. \A i \in 1 .. Len(ids) : ids[i] \in S <=> ids[i] # x
    BY <1>1 DEF ToSet
  <2>8. \A i, j \in 1 .. Len(ids) : i < j /\ ids[j] \in S => Count(ids, S, i) < Count(ids, S, j)
    BY CountOrders
  <2>s. x \notin S
    OBVIOUS
  <2>t. ToSet(ids) = S \cup {x}
    BY <1>3
  <2> HIDE DEF q, S, x
  <2>9. /\ p \in Seq(X) /\ Len(p) = Len(q) + 1 /\ DOMAIN p = 1 .. Len(q) + 1
        /\ p[1] = x /\ \A k \in 1 .. Len(q) : p[k + 1] = q[k]
    BY <2>1, <2>2, <2>5
  <2>10. \A k \in 1 .. Len(q) : q[k] \in S
    BY <2>2 DEF ToSet
  <2>11. IsInjective(p)
    <3> SUFFICES ASSUME NEW k \in 1 .. Len(q) + 1, NEW l \in 1 .. Len(q) + 1, k < l PROVE p[k] # p[l]
      BY <2>9 DEF IsInjective
    <3>1. l - 1 \in 1 .. Len(q) /\ p[l] = q[l - 1] /\ q[l - 1] \in S
      <4>1. l - 1 \in 1 .. Len(q) /\ (l - 1) + 1 = l
        BY <2>2
      <4> QED BY <2>9, <2>10, <4>1
    <3>2. CASE k = 1
      BY <2>9, <2>s, <3>1, <3>2
    <3>3. CASE k # 1
      <4>1. k - 1 \in 1 .. Len(q) /\ (k - 1) + 1 = k /\ k - 1 # l - 1
        BY <2>2, <3>3
      <4>2. p[k] = q[k - 1]
        BY <2>9, <4>1
      <4>3. q[k - 1] # q[l - 1]
        BY <2>2, <3>1, <4>1 DEF IsInjective
      <4> QED BY <3>1, <4>2, <4>3
    <3> QED BY <3>2, <3>3
  <2>12. ToSet(p) = ToSet(ids)
    <3>1. ASSUME NEW y \in ToSet(ids) PROVE y \in ToSet(p)
      <4>1. CASE y = x
        BY <2>2, <2>9, <4>1 DEF ToSet
      <4>2. CASE y \in S
        <5>1. PICK k \in 1 .. Len(q) : q[k] = y
          BY <2>2, <4>2 DEF ToSet
        <5>2. k + 1 \in 1 .. Len(q) + 1 /\ p[k + 1] = y
          BY <2>2, <2>9, <5>1
        <5> QED BY <2>9, <5>2 DEF ToSet
      <4> QED BY <2>t, <4>1, <4>2
    <3>2. ASSUME NEW y \in ToSet(p) PROVE y \in ToSet(ids)
      <4>1. PICK k \in 1 .. Len(q) + 1 : p[k] = y
        BY <2>9, <3>2 DEF ToSet
      <4>2. CASE k = 1
        BY <2>9, <2>t, <4>1, <4>2
      <4>3. CASE k # 1
        <5>1. k - 1 \in 1 .. Len(q) /\ (k - 1) + 1 = k
          BY <2>2, <4>3
        <5> QED BY <2>9, <2>10, <2>t, <4>1, <5>1
      <4> QED BY <4>2, <4>3
    <3> QED BY <3>1, <3>2
  <2>13. ASSUME NEW i \in 1 .. Len(ids), NEW j \in 1 .. Len(ids), i < j, ids[j] # x
         PROVE  \E k, l \in 1 .. Len(p) : k < l /\ p[k] = ids[i] /\ p[l] = ids[j]
    <3> DEFINE K == Count(ids, S, i)
               L == Count(ids, S, j)
    <3>1. L \in 1 .. Len(q) /\ q[L] = ids[j]
      BY <2>6, <2>7, <2>13
    <3>2. L + 1 \in 1 .. Len(p) /\ p[L + 1] = ids[j] /\ 1 < L + 1
      <4> HIDE DEF L
      <4> QED BY <2>2, <2>9, <3>1
    <3>3. CASE ids[i] = x
      <4>1. 1 \in 1 .. Len(p) /\ p[1] = ids[i]
        BY <2>2, <2>9, <3>3
      <4> HIDE DEF L
      <4> QED BY <3>2, <4>1
    <3>4. CASE ids[i] # x
      <4>1. K \in 1 .. Len(q) /\ q[K] = ids[i]
        BY <2>6, <2>7, <3>4
      <4>2. K < L
        BY <2>7, <2>8, <2>13
      <4> HIDE DEF K, L
      <4>3. K + 1 \in 1 .. Len(p) /\ p[K + 1] = ids[i] /\ K + 1 < L + 1
        BY <2>2, <2>9, <3>1, <4>1, <4>2
      <4> QED BY <3>2, <4>3
    <3> QED BY <3>3, <3>4
  <2>14. Len(p) = Len(ids)
    BY <1>1, <2>4, <2>9
  <2> QED BY <2>9, <2>11, <2>12, <2>13, <2>14 DEF x, Promotes
<1> QED BY <1>2, <1>3

\* The top of a list.
LEMMA CutIs ==
  ASSUME NEW X, NEW p \in Seq(X)
  PROVE  /\ Cut(p) \in Seq(X) /\ Len(Cut(p)) = IF Len(p) > Attempts THEN Attempts ELSE Len(p)
         /\ \A k \in 1 .. Len(Cut(p)) : Cut(p)[k] = p[k]
<1>1. CASE Len(p) > Attempts
  <2>1. Cut(p) = SubSeq(p, 1, 3) /\ Len(p) > 3
    BY <1>1 DEF Cut, Attempts
  <2> QED BY <1>1, <2>1 DEF Attempts
<1>2. CASE ~(Len(p) > Attempts)
  <2>1. Cut(p) = p
    BY <1>2 DEF Cut
  <2> QED BY <1>2, <2>1
<1> QED BY <1>1, <1>2

\* The lesser of the number of attempts and of the models.
LEMMA LesserIs ==
  ASSUME NEW n \in Nat
  PROVE  Least({Attempts, n}) = IF n > Attempts THEN Attempts ELSE n
<1>1. {Attempts, n} \in SUBSET Nat /\ {Attempts, n} # {}
  BY DEF Attempts
<1>2. Least({Attempts, n}) \in {Attempts, n} /\ \A y \in {Attempts, n} : Least({Attempts, n}) <= y
  BY <1>1, LeastIs
<1> QED BY <1>2 DEF Attempts

\* The models of s have different ids.
Distinct(s) == \A i, j \in DOMAIN s : s[i].id = s[j].id => s[i] = s[j]

\* top are the models to try first of s, the better before the worse.
Heads(s, top) ==
  /\ IsInjective(top) /\ ToSet(top) \subseteq IdsIn(s) /\ DOMAIN top = 1 .. Len(top)
  /\ Len(top) = Least({Attempts, Cardinality(ToSet(s))})
  /\ route.preferred \in IdsIn(s) => top[1] = route.preferred
  /\ s # <<>> /\ FiguresKnown(s) /\ Weighted =>
       \A a, b \in ToSet(s) :
         Better(a, b) /\ b.id \in ToSet(top) /\ b.id # route.preferred =>
           \E k, l \in 1 .. Len(top) : k < l /\ top[k] = a.id /\ top[l] = b.id

LEMMA TopIs ==
  ASSUME NEW X, NEW s \in Seq(X), Distinct(s), NEW top \in TopOfRanking(s)
  PROVE  Heads(s, top)
<1>1. PICK r \in Ranked(s) : top = Cut(Preferred(IdsOf(r)))
  BY DEF TopOfRanking
<1> DEFINE n == Cardinality(ToSet(s))
           ids == IdsOf(r)
<1>2. /\ r \in Seq(ToSet(s)) /\ Len(r) = n /\ IsInjective(r) /\ ToSet(r) = ToSet(s)
      /\ \A i, j \in DOMAIN r : i < j => Score(s, r[i]) >= Score(s, r[j])
  BY RankedIs
<1>3. n \in Nat /\ DOMAIN r = 1 .. n
  BY <1>2
<1>d. \A a, b \in ToSet(s) : a.id = b.id => a = b
  BY DEF Distinct, ToSet
<1>i. IdsIn(s) = {m.id : m \in ToSet(s)}
  BY DEF IdsIn, ToSet
<1>m. \A i \in 1 .. n : r[i] \in ToSet(s)
  BY <1>2, <1>3
<1>o. \A m \in ToSet(s) : \E i \in 1 .. n : r[i] = m
  BY <1>2, <1>3 DEF ToSet
<1>4. /\ ids \in Seq(IdsIn(s)) /\ Len(ids) = n
      /\ \A i \in 1 .. n : ids[i] = r[i].id
  <2>1. ids = [i \in 1 .. n |-> r[i].id]
    BY <1>3 DEF IdsOf
  <2>2. ids \in [1 .. n -> IdsIn(s)]
    BY <1>m, <1>i, <2>1
  <2> HIDE DEF ids, n
  <2> QED BY <1>3, <2>1, <2>2
<1> HIDE DEF ids, n
<1>5. IsInjective(ids)
  <2> SUFFICES ASSUME NEW i \in 1 .. n, NEW j \in 1 .. n, ids[i] = ids[j] PROVE i = j
    BY <1>3, <1>4 DEF IsInjective
  <2>1. r[i] = r[j]
    BY <1>4, <1>d, <1>m
  <2> QED BY <1>2, <1>3, <2>1 DEF IsInjective
<1>6. ToSet(ids) = IdsIn(s)
  <2>1. ASSUME NEW x \in IdsIn(s) PROVE x \in ToSet(ids)
    <3>1. PICK m \in ToSet(s) : x = m.id
      BY <1>i
    <3>2. PICK i \in 1 .. n : r[i] = m
      BY <1>o
    <3>3. i \in DOMAIN ids /\ ids[i] = x
      BY <1>3, <1>4, <3>1, <3>2
    <3> QED BY <3>3 DEF ToSet
  <2>2. ToSet(ids) \subseteq IdsIn(s)
    BY <1>4 DEF ToSet
  <2> QED BY <2>1, <2>2
<1>p. PICK p : p = Preferred(ids)
  OBVIOUS
<1>7. /\ p \in Seq(IdsIn(s)) /\ Len(p) = n /\ IsInjective(p) /\ ToSet(p) = IdsIn(s)
      /\ route.preferred \in IdsIn(s) => p[1] = route.preferred
      /\ \A i, j \in 1 .. n : i < j /\ ids[j] # route.preferred =>
           \E k, l \in 1 .. n : k < l /\ p[k] = ids[i] /\ p[l] = ids[j]
  <2>1. /\ p \in Seq(IdsIn(s)) /\ Len(p) = Len(ids) /\ IsInjective(p) /\ ToSet(p) = ToSet(ids)
        /\ route.preferred \in ToSet(ids) => p[1] = route.preferred
        /\ \A i, j \in 1 .. Len(ids) : i < j /\ ids[j] # route.preferred =>
             \E k, l \in 1 .. Len(p) : k < l /\ p[k] = ids[i] /\ p[l] = ids[j]
    <3>1. p \in Seq(IdsIn(s)) /\ Promotes(ids, p)
      BY <1>4, <1>5, <1>p, PreferredIs
    <3> QED BY <3>1 DEF Promotes
  <2>2. Len(ids) = n /\ Len(p) = n
    BY <1>4, <2>1
  <2> QED BY <1>6, <2>1, <2>2
<1>8. top = Cut(p)
  BY <1>1, <1>p DEF ids
<1>9. /\ top \in Seq(IdsIn(s)) /\ Len(top) = IF n > Attempts THEN Attempts ELSE n
      /\ \A k \in 1 .. Len(top) : top[k] = p[k]
  BY <1>7, <1>8, CutIs
<1>10. DOMAIN top = 1 .. Len(top) /\ DOMAIN p = 1 .. n /\ Len(top) <= n /\ Len(top) \in Nat
  <2>1. top \in Seq(IdsIn(s)) /\ p \in Seq(IdsIn(s)) /\ Len(p) = n
    BY <1>7, <1>9
  <2>2. Len(top) = IF n > Attempts THEN Attempts ELSE n
    BY <1>9
  <2>3. DOMAIN top = 1 .. Len(top) /\ DOMAIN p = 1 .. n /\ Len(top) \in Nat
    BY <2>1
  <2>4. Len(top) <= n
    BY <1>3, <2>2 DEF Attempts
  <2> QED BY <2>3, <2>4
<1>11. IsInjective(top)
  <2> SUFFICES ASSUME NEW i \in 1 .. Len(top), NEW j \in 1 .. Len(top), top[i] = top[j] PROVE i = j
    BY <1>10 DEF IsInjective
  <2>1. i \in DOMAIN p /\ j \in DOMAIN p /\ p[i] = p[j]
    BY <1>3, <1>9, <1>10
  <2> QED BY <1>7, <2>1 DEF IsInjective
<1>12. ToSet(top) \subseteq IdsIn(s)
  BY <1>9, <1>10 DEF ToSet
<1>13. Len(top) = Least({Attempts, n})
  BY <1>3, <1>9, LesserIs
<1>14. ASSUME route.preferred \in IdsIn(s) PROVE top[1] = route.preferred
  <2>1. n # 0
    BY <1>6, <1>4, <1>14 DEF ToSet
  <2>2. 1 \in 1 .. Len(top)
    BY <1>3, <1>9, <2>1 DEF Attempts
  <2> QED BY <1>7, <1>9, <1>14, <2>2
<1>15. ASSUME s # <<>>, FiguresKnown(s), Weighted, NEW a \in ToSet(s), NEW b \in ToSet(s),
              Better(a, b), b.id \in ToSet(top), b.id # route.preferred
       PROVE  \E k, l \in 1 .. Len(top) : k < l /\ top[k] = a.id /\ top[l] = b.id
  <2>1. Score(s, a) \in Nat /\ Score(s, b) \in Nat /\ Score(s, a) > Score(s, b)
    BY <1>15, ScoreBetter
  <2>2. PICK i \in 1 .. n : r[i] = a
    BY <1>o
  <2>3. PICK j \in 1 .. n : r[j] = b
    BY <1>o
  <2>4. i < j
    <3>1. i # j
      BY <2>1, <2>2, <2>3
    <3>2. ~(j < i)
      <4> SUFFICES ASSUME j < i PROVE FALSE
        OBVIOUS
      <4>1. Score(s, r[j]) >= Score(s, r[i])
        BY <1>2, <1>3
      <4> QED BY <2>1, <2>2, <2>3, <4>1
    <3> QED BY <1>3, <3>1, <3>2
  <2>5. ids[i] = a.id /\ ids[j] = b.id
    BY <1>4, <2>2, <2>3
  <2>6. PICK k \in 1 .. n, l \in 1 .. n : k < l /\ p[k] = a.id /\ p[l] = b.id
    BY <1>7, <1>15, <2>4, <2>5
  <2>7. PICK h \in 1 .. Len(top) : top[h] = b.id
    BY <1>10, <1>15 DEF ToSet
  <2>8. h = l
    <3>1. h \in DOMAIN p /\ l \in DOMAIN p /\ p[h] = p[l]
      BY <1>3, <1>9, <1>10, <2>6, <2>7
    <3> QED BY <1>7, <3>1 DEF IsInjective
  <2>9. k \in 1 .. Len(top) /\ l \in 1 .. Len(top)
    BY <1>3, <1>10, <2>6, <2>8
  <2>10. top[k] = a.id /\ top[l] = b.id
    BY <1>9, <2>6, <2>9
  <2> QED BY <2>6, <2>9, <2>10
<1> QED BY <1>10, <1>11, <1>12, <1>13, <1>14, <1>15 DEF n, Heads

-----------------------------------------------------------------------------
\* What Select answers.
Selected ==
  /\ error = (Filtered = <<>>)
  /\ \/ Filtered = <<>> /\ models = <<>>
     \/ Filtered # <<>> /\ route.chain # <<>> /\ models = Resolved(Filtered)
     \/ Filtered # <<>> /\ route.chain = <<>> /\ models \in TopOfRanking(Filtered)

\* The inductive invariant: the arguments are from the tables, and the answer theirs.
RtInv ==
  /\ candidates \in Catalogues /\ route \in Routes
  /\ models = Pending \/ Selected

\* What Select answers stays what it answers from its arguments.
LEMMA RtInvHolds == RtSpec => []RtInv
<1>1. RtInit => RtInv
  BY DEF RtInit, RtInv
<1>2. RtInv /\ [Select]_rtvars => RtInv'
  <2> SUFFICES ASSUME RtInv, [Select]_rtvars PROVE RtInv'
    OBVIOUS
  <2>1. CASE Select
    <3>1. candidates' = candidates /\ route' = route /\ needs' = needs
      BY <2>1 DEF Select
    <3>2. Filtered' = Filtered
      BY <3>1 DEF Filtered, Capable, IsAllowed
    <3>3. /\ Resolved(Filtered)' = Resolved(Filtered)
          /\ TopOfRanking(Filtered)' = TopOfRanking(Filtered)
      BY <3>1, <3>2 DEF Resolved, TopOfRanking, Preferred, Ranked, Score
    <3>4. Selected'
      <4>1. /\ error' = (Filtered = <<>>)
            /\ \/ Filtered = <<>> /\ models' = <<>>
               \/ Filtered # <<>> /\ route.chain # <<>> /\ models' = Resolved(Filtered)
               \/ Filtered # <<>> /\ route.chain = <<>> /\ models' \in TopOfRanking(Filtered)
        BY <2>1 DEF Select
      <4> QED BY <3>1, <3>2, <3>3, <4>1 DEF Selected
    <3> QED BY <3>1, <3>4 DEF RtInv
  <2>2. CASE UNCHANGED rtvars
    <3>1. candidates' = candidates /\ route' = route /\ needs' = needs /\ error' = error /\ models' = models
      BY <2>2 DEF rtvars
    <3>2. Filtered' = Filtered
      BY <3>1 DEF Filtered, Capable, IsAllowed
    <3>3. /\ Resolved(Filtered)' = Resolved(Filtered)
          /\ TopOfRanking(Filtered)' = TopOfRanking(Filtered)
      BY <3>1, <3>2 DEF Resolved, TopOfRanking, Preferred, Ranked, Score
    <3>4. Selected' <=> Selected
      BY <3>1, <3>2, <3>3 DEF Selected
    <3>5. Pending' = Pending
      BY DEF Pending
    <3> QED BY <3>1, <3>4, <3>5 DEF RtInv
  <2> QED BY <2>1, <2>2
<1> QED BY <1>1, <1>2, PTL DEF RtSpec

LEMMA SelectsWellFollows == RtInv => SelectsWell
<1> SUFFICES ASSUME RtInv PROVE SelectsWell
  OBVIOUS
<1> DEFINE s == Filtered
           X == ToSet(candidates)
           S == IdsIn(s)
<1>1. /\ candidates \in Seq(X)
      /\ \A i \in DOMAIN candidates :
           candidates[i].price \in Nat /\ candidates[i].latency \in Nat /\ candidates[i].reliability \in Nat
      /\ \A i, j \in DOMAIN candidates : candidates[i].id = candidates[j].id => i = j
  BY RouterAssumption DEF RtInv
<1>2. /\ \A m \in X : m.price \in Nat /\ m.latency \in Nat /\ m.reliability \in Nat
      /\ \A a, b \in X : a.id = b.id => a = b
  BY <1>1 DEF ToSet
<1>3. s \in Seq(X)
  BY <1>1, SiftedPlaces DEF Filtered
<1>4. route.chain \in Seq(ToSet(route.chain)) /\ Weighted
  BY RouterAssumption DEF RtInv, Weighted
<1> HIDE DEF X, s
<1>5. Distinct(s) /\ DOMAIN s = 1 .. Len(s) /\ \A i \in 1 .. Len(s) : s[i] \in X
  BY <1>2, <1>3 DEF Distinct
<1>6. S = {m.id : m \in ToSet(s)} /\ Eligible = ToSet(s)
  <2>1. Eligible = ToSet(s)
    BY DEF Eligible, s
  <2> QED BY <2>1 DEF IdsIn, ToSet
<1>7. s = <<>> <=> ToSet(s) = {}
  <2>1. ASSUME s # <<>> PROVE s[1] \in ToSet(s)
    BY <1>3, <1>5, <2>1 DEF ToSet
  <2>2. ASSUME s = <<>> PROVE ToSet(s) = {}
    BY <2>2 DEF ToSet
  <2> QED BY <2>1, <2>2
<1>8. LatenciesKnown => FiguresKnown(s)
  <2> SUFFICES ASSUME LatenciesKnown PROVE FiguresKnown(s)
    OBVIOUS
  <2>1. \A m \in ToSet(s) : m.latency > 0
    BY <1>6 DEF LatenciesKnown
  <2>2. \A i \in 1 .. Len(s) : s[i] \in ToSet(s)
    BY <1>5 DEF ToSet
  <2>3. \A i \in 1 .. Len(s) :
          s[i].price \in Nat /\ s[i].latency \in Nat /\ s[i].latency > 0 /\ s[i].reliability \in Nat
    BY <1>2, <1>5, <2>1, <2>2
  <2> QED BY <1>5, <2>3 DEF FiguresKnown
<1>9. Answered => Selected
  BY DEF RtInv, Answered
<1>10. CASE ~Answered
  BY <1>10 DEF SelectsWell, NoAttemptWasted, MeritFirst, OrderIrrelevant, ByRanking
<1>11. ASSUME Answered PROVE OrderIrrelevant
  <2> SUFFICES ASSUME s # <<>>, LatenciesKnown, NEW t \in SetToSeqs(ToSet(s)), NEW m \in ToSet(s)
               PROVE  Score(t, m) = Score(s, m)
    BY <1>6 DEF OrderIrrelevant, s
  <2> DEFINE n == Cardinality(ToSet(s))
  <2>1. IsFiniteSet(ToSet(s)) /\ n \in Nat
    BY <1>3, FiniteSeq, FS_CardinalityType
  <2>2. t \in [1 .. n -> ToSet(s)] /\ \A i, j \in 1 .. n : i # j => t[i] # t[j]
    BY DEF SetToSeqs
  <2> HIDE DEF n
  <2>3. t \in Seq(ToSet(s)) /\ Len(t) = n /\ DOMAIN t = 1 .. n
    BY <2>1, <2>2
  <2>4. IsInjective(t)
    BY <2>2, <2>3 DEF IsInjective
  <2>5. t \in Injection(1 .. n, ToSet(s))
    BY <2>2, <2>4 DEF Injection
  <2>6. Cardinality(1 .. n) = n
    BY <2>1, FS_Interval
  <2>7. t \in Surjection(1 .. n, ToSet(s))
    BY <2>1, <2>5, <2>6, FS_Injection DEF n
  <2>8. ToSet(t) = ToSet(s)
    BY <2>3, <2>7 DEF Surjection, ToSet
  <2>9. ToSet(s) \subseteq X
    BY <1>5 DEF ToSet
  <2>10. t \in Seq(X)
    BY <2>1, <2>2, <2>9
  <2>11. FiguresKnown(s)
    BY <1>8
  <2>12. FiguresKnown(t)
    <3>1. \A x \in ToSet(s) : x.price \in Nat /\ x.latency \in Nat \ {0} /\ x.reliability \in Nat
      BY <2>11 DEF FiguresKnown, ToSet
    <3> QED BY <2>2, <2>3, <3>1 DEF FiguresKnown
  <2> QED BY <1>3, <2>8, <2>10, <2>11, <2>12, SameScores
<1>12. CASE Answered /\ s = <<>>
  <2>1. models = <<>> /\ error = TRUE
    BY <1>9, <1>12 DEF Selected, s
  <2>2. S = {} /\ ToSet(models) = {} /\ Eligible = {} /\ IsInjective(models) /\ Len(models) = 0
    BY <1>6, <1>7, <1>12, <2>1 DEF ToSet, IsInjective
  <2>3. Least({Attempts, Cardinality(Eligible)}) = 0
    BY <2>2, FS_EmptySet, LesserIs DEF Attempts
  <2>4. NoAttemptWasted
    BY <2>1, <2>2, <2>3 DEF NoAttemptWasted, s
  <2>5. MeritFirst
    BY <2>2 DEF MeritFirst, s
  <2> QED BY <1>11, <1>12, <2>4, <2>5 DEF SelectsWell
<1>13. CASE Answered /\ s # <<>> /\ route.chain # <<>>
  <2>1. models = Sifted(route.chain, S) /\ error = FALSE
    BY <1>9, <1>13 DEF Selected, Resolved, s
  <2> DEFINE Y == ToSet(route.chain)
             c == route.chain
  <2>2. /\ models \in Seq(Y)
        /\ \A i \in 1 .. Len(c) : c[i] \in S =>
             Count(c, S, i) \in 1 .. Len(models) /\ models[Count(c, S, i)] = c[i]
        /\ \A k \in 1 .. Len(models) : \E i \in 1 .. Len(c) : c[i] \in S /\ Count(c, S, i) = k
    <3> HIDE DEF S
    <3> QED BY <1>4, <2>1, SiftedPlaces
  <2>3. DOMAIN c = 1 .. Len(c) /\ DOMAIN models = 1 .. Len(models) /\ Len(c) \in Nat
    BY <1>4, <2>2
  <2>4. ToSet(models) \subseteq S
    <3> HIDE DEF S
    <3>1. \A k \in 1 .. Len(models) : models[k] \in S
      <4> TAKE k \in 1 .. Len(models)
      <4>1. PICK i \in 1 .. Len(c) : c[i] \in S /\ Count(c, S, i) = k
        BY <2>2
      <4> QED BY <2>2, <4>1
    <3> QED BY <2>3, <3>1 DEF ToSet
  <2>5. ASSUME NEW i \in DOMAIN c, c[i] \in S
        PROVE  \E k \in DOMAIN models :
                 models[k] = c[i] /\ k = 1 + Cardinality({j \in 1 .. i - 1 : c[j] \in S})
    <3> HIDE DEF S
    <3>1. i \in 1 .. Len(c) /\ i \in Nat \ {0} /\ i - 1 \in Nat
      BY <2>3
    <3>2. Count(c, S, i) = Count(c, S, i - 1) + 1
      BY <2>5, <3>1, CountStep
    <3>3. Count(c, S, i - 1) \in Nat
      BY <3>1, CountType
    <3>4. Count(c, S, i - 1) = Cardinality({j \in 1 .. i - 1 : c[j] \in S})
      BY DEF Count
    <3>5. Count(c, S, i) \in DOMAIN models /\ models[Count(c, S, i)] = c[i]
      BY <2>2, <2>3, <2>5, <3>1
    <3>6. Count(c, S, i) = 1 + Cardinality({j \in 1 .. i - 1 : c[j] \in S})
      BY <3>2, <3>3, <3>4
    <3> QED BY <3>5, <3>6
  <2>6. NoAttemptWasted
    <3>1. ~ByRanking
      BY <1>13 DEF ByRanking
    <3>2. error <=> Eligible = {}
      BY <1>6, <1>7, <1>13, <2>1
    <3>3. ToSet(models) \subseteq {m.id : m \in Eligible}
      BY <1>6, <2>4
    <3> QED BY <2>5, <3>1, <3>2, <3>3 DEF NoAttemptWasted, s
  <2>7. MeritFirst
    BY <1>13 DEF MeritFirst, ByRanking
  <2> QED BY <1>11, <1>13, <2>6, <2>7 DEF SelectsWell
<1>14. CASE Answered /\ s # <<>> /\ route.chain = <<>>
  <2>1. models \in TopOfRanking(s) /\ error = FALSE
    BY <1>9, <1>14 DEF Selected, s
  <2>2. /\ IsInjective(models) /\ ToSet(models) \subseteq S /\ DOMAIN models = 1 .. Len(models)
        /\ Len(models) = Least({Attempts, Cardinality(ToSet(s))})
        /\ route.preferred \in S => models[1] = route.preferred
        /\ s # <<>> /\ FiguresKnown(s) /\ Weighted =>
             \A a, b \in ToSet(s) :
               Better(a, b) /\ b.id \in ToSet(models) /\ b.id # route.preferred =>
                 \E k, l \in 1 .. Len(models) : k < l /\ models[k] = a.id /\ models[l] = b.id
    <3>1. Heads(s, models)
      BY <1>3, <1>5, <2>1, TopIs
    <3> QED BY <3>1 DEF Heads
  <2>3. NoAttemptWasted
    <3>1. error <=> Eligible = {}
      BY <1>6, <1>7, <1>14, <2>1
    <3>2. ToSet(models) \subseteq {m.id : m \in Eligible}
      BY <1>6, <2>2
    <3>3. Len(models) = Least({Attempts, Cardinality(Eligible)})
      BY <1>6, <2>2
    <3> QED BY <1>14, <2>2, <3>1, <3>2, <3>3 DEF NoAttemptWasted
  <2>4. ASSUME LatenciesKnown, NEW a \in ToSet(s), NEW b \in ToSet(s),
               Better(a, b), b.id \in ToSet(models), b.id # route.preferred
        PROVE  a.id \in ToSet(models) /\ Position(a.id) < Position(b.id)
    <3>1. PICK k \in 1 .. Len(models), l \in 1 .. Len(models) :
            k < l /\ models[k] = a.id /\ models[l] = b.id
      BY <1>4, <1>8, <1>14, <2>2, <2>4
    <3>2. \A h \in 1 .. Len(models), g \in 1 .. Len(models) : models[h] = models[g] => h = g
      BY <2>2 DEF IsInjective
    <3>3. Position(a.id) = k
      BY <2>2, <3>1, <3>2 DEF Position
    <3>4. Position(b.id) = l
      BY <2>2, <3>1, <3>2 DEF Position
    <3>5. a.id \in ToSet(models)
      BY <2>2, <3>1 DEF ToSet
    <3> QED BY <3>1, <3>3, <3>4, <3>5
  <2>5. MeritFirst
    BY <1>6, <2>2, <2>4 DEF MeritFirst, s
  <2> QED BY <1>11, <1>14, <2>3, <2>5 DEF SelectsWell
<1> QED BY <1>10, <1>12, <1>13, <1>14

\* SelectsWell: the models the router answers with can serve the request, the
\* better ones first, and in whatever order the candidates were listed.
THEOREM SelectsRightly == RtSpec => []SelectsWell
<1>1. RtInv => SelectsWell
  BY SelectsWellFollows
<1> QED BY <1>1, RtInvHolds, PTL

-----------------------------------------------------------------------------
(* The validator.  Its recursion goes from one depth to the one below, and *)
(* there is nothing below 0; what holds at one depth is shown from what    *)
(* holds at the depth below, by the same induction.                        *)

AcceptedFrom(n, S) ==
  { p \in Outputs[n] \X Schemas[n] :
      LET value == p[1]  s == p[2]
      IN  /\ KindFits(value.kind, s)
          /\ AsksForObject(s) =>
               Missing(value, s) = {} /\ \A q \in Below(value, s) : q \in S }

\* What JSON Schema says of the kind of a value.
FormAllows(kind, s) ==
  /\ s.form # "false"
  /\ s.form \in {"typed", "listed"} => \E t \in s.types : kind \in Meant(t)

ConformingFrom(n, S) ==
  { p \in Outputs[n] \X Schemas[n] :
      LET value == p[1]  s == p[2]
      IN  /\ FormAllows(value.kind, s)
          /\ value.kind = "object" =>
               /\ s.required \subseteq DOMAIN value.fields
               /\ \A q \in Below(value, s) : q \in S }

\* That the code checks the kind as it is meant.
FormKnown(s) ==
  /\ s.form \notin {"listed", "false"}
  /\ s.form = "typed" => s.types \cap {"integer", "null"} = {}

ExplicitFrom(n, S) ==
  { s \in Schemas[n] :
      /\ FormKnown(s)
      /\ AsksForObject(s) \/ (s.required = {} /\ Properties(s) = {})
      /\ \A t \in Properties(s) : t \in S }

\* What lies below what is nested at most n deep.
LEMMA Nesting ==
  ASSUME NEW n \in 0 .. Depth
  PROVE  /\ \A s \in Schemas[n] : Properties(s) # {} => n # 0 /\ Properties(s) \subseteq Schemas[n - 1]
         /\ \A p \in Outputs[n] \X Schemas[n] :
              Below(p[1], p[2]) # {} =>
                n # 0 /\ Below(p[1], p[2]) \subseteq Outputs[n - 1] \X Schemas[n - 1]
<1>1. \A s \in Schemas[n] : Properties(s) # {} => n > 0 /\ Properties(s) \subseteq Schemas[n - 1]
  BY NestingAssumption
<1>2. ASSUME NEW p \in Outputs[n] \X Schemas[n], NEW q \in Below(p[1], p[2])
      PROVE  n > 0 /\ q \in Outputs[n - 1] \X Schemas[n - 1]
  <2>1. PICK k \in DOMAIN p[2].properties \cap DOMAIN p[1].fields :
          q = <<p[1].fields[k], p[2].properties[k]>>
    BY DEF Below
  <2>2. n > 0 /\ p[1].fields[k] \in Outputs[n - 1]
    BY NestingAssumption
  <2>3. p[2].properties[k] \in Properties(p[2])
    BY DEF Properties
  <2>4. p[2].properties[k] \in Schemas[n - 1]
    BY <1>1, <2>3
  <2> QED BY <2>1, <2>2, <2>4
<1> QED BY <1>1, <1>2, NestingAssumption

\* There is a function that goes up from nothing, from one depth to the next.
LEMMA Levels ==
  ASSUME NEW d \in Nat, NEW X, {} \in X, NEW g \in [0 .. d -> [X -> X]]
  PROVE  \E f \in [0 .. d -> X] :
           /\ f[0] = g[0][{}]
           /\ \A i \in 1 .. d : f[i] = g[i][f[i - 1]]
<1> DEFINE h == [i \in 1 .. d |-> g[i]]
<1>1. h \in [1 .. d -> [X -> X]] /\ g[0][{}] \in X
  <2>1. \A i \in 0 .. d : g[i] \in [X -> X]
    OBVIOUS
  <2>2. 0 \in 0 .. d /\ \A i \in 1 .. d : i \in 0 .. d
    OBVIOUS
  <2> QED BY <2>1, <2>2
<1>2. \A i \in 1 .. d : h[i] = g[i]
  OBVIOUS
<1> HIDE DEF h
<1>3. PICK f \in [0 .. d -> X] : Takes(f, d, g[0][{}], h)
  BY <1>1, Recursion
<1> QED BY <1>2, <1>3 DEF Takes

LEMMA AcceptedIs ==
  \A n \in 0 .. Depth : Accepted[n] = AcceptedFrom(n, IF n = 0 THEN {} ELSE Accepted[n - 1])
<1> DEFINE U == UNION {Outputs[n] \X Schemas[n] : n \in 0 .. Depth}
           X == SUBSET U
           g == [n \in 0 .. Depth |-> [S \in X |-> AcceptedFrom(n, S)]]
           Fn(f) == [n \in 0 .. Depth |->
             { p \in Outputs[n] \X Schemas[n] :
                 LET value == p[1]  s == p[2]
                 IN  /\ KindFits(value.kind, s)
                     /\ AsksForObject(s) =>
                          Missing(value, s) = {} /\ \A q \in Below(value, s) : q \in f[n - 1] }]
           accepted == CHOOSE f : f = Fn(f)
<1>1. {} \in X /\ g \in [0 .. Depth -> [X -> X]]
  <2>1. \A n \in 0 .. Depth : \A S : AcceptedFrom(n, S) \in X
    BY DEF AcceptedFrom
  <2> HIDE DEF U
  <2> QED BY <2>1
<1>2. \A n \in 0 .. Depth : \A S \in X : g[n][S] = AcceptedFrom(n, S)
  OBVIOUS
<1>3. PICK f \in [0 .. Depth -> X] :
        /\ f[0] = g[0][{}]
        /\ \A i \in 1 .. Depth : f[i] = g[i][f[i - 1]]
  <2>1. Depth \in Nat
    BY NestingAssumption
  <2> HIDE DEF g, X
  <2> QED BY <1>1, <2>1, Levels
<1>4. \A n \in 0 .. Depth : f[n] = AcceptedFrom(n, IF n = 0 THEN {} ELSE f[n - 1])
  <2>1. Depth \in Nat
    BY NestingAssumption
  <2> HIDE DEF X, g
  <2>2. f[0] = AcceptedFrom(0, {})
    BY <1>1, <1>2, <1>3, <2>1
  <2>3. ASSUME NEW n \in 1 .. Depth
        PROVE  f[n] = AcceptedFrom(n, f[n - 1])
    <3>1. n \in 0 .. Depth /\ f[n - 1] \in X /\ f[n] = g[n][f[n - 1]]
      BY <1>3, <2>1
    <3> QED BY <1>2, <3>1
  <2> QED BY <2>1, <2>2, <2>3
<1>5. ASSUME NEW h, NEW n \in 0 .. Depth
      PROVE  Fn(h)[n] = AcceptedFrom(n, IF n = 0 THEN {} ELSE h[n - 1])
  <2>1. ASSUME NEW p \in Outputs[n] \X Schemas[n], NEW q \in Below(p[1], p[2])
        PROVE  n # 0
    BY <2>1, Nesting
  <2> QED BY <2>1 DEF AcceptedFrom
<1>6. f = Fn(f)
  <2>1. Fn(f) = [n \in 0 .. Depth |-> Fn(f)[n]]
    OBVIOUS
  <2> HIDE DEF Fn
  <2> QED BY <1>4, <1>5, <2>1
<1>7. accepted = Fn(accepted)
  <2> HIDE DEF Fn
  <2> QED BY <1>6
<1>8. Accepted = accepted
  BY DEF Accepted
<1> HIDE DEF Fn, accepted
<1> QED BY <1>5, <1>7, <1>8

LEMMA ConformingIs ==
  \A n \in 0 .. Depth : Conforming[n] = ConformingFrom(n, IF n = 0 THEN {} ELSE Conforming[n - 1])
<1> DEFINE U == UNION {Outputs[n] \X Schemas[n] : n \in 0 .. Depth}
           X == SUBSET U
           g == [n \in 0 .. Depth |-> [S \in X |-> ConformingFrom(n, S)]]
           Fn(f) == [n \in 0 .. Depth |->
             { p \in Outputs[n] \X Schemas[n] :
                 LET value == p[1]  s == p[2]
                 IN  /\ FormAllows(value.kind, s)
                     /\ value.kind = "object" =>
                          /\ s.required \subseteq DOMAIN value.fields
                          /\ \A q \in Below(value, s) : q \in f[n - 1] }]
           conforming == CHOOSE f : f = Fn(f)
<1>1. {} \in X /\ g \in [0 .. Depth -> [X -> X]]
  <2>1. \A n \in 0 .. Depth : \A S : ConformingFrom(n, S) \in X
    BY DEF ConformingFrom
  <2> HIDE DEF U
  <2> QED BY <2>1
<1>2. \A n \in 0 .. Depth : \A S \in X : g[n][S] = ConformingFrom(n, S)
  OBVIOUS
<1>3. PICK f \in [0 .. Depth -> X] :
        /\ f[0] = g[0][{}]
        /\ \A i \in 1 .. Depth : f[i] = g[i][f[i - 1]]
  <2>1. Depth \in Nat
    BY NestingAssumption
  <2> HIDE DEF g, X
  <2> QED BY <1>1, <2>1, Levels
<1>4. \A n \in 0 .. Depth : f[n] = ConformingFrom(n, IF n = 0 THEN {} ELSE f[n - 1])
  <2>1. Depth \in Nat
    BY NestingAssumption
  <2> HIDE DEF X, g
  <2>2. f[0] = ConformingFrom(0, {})
    BY <1>1, <1>2, <1>3, <2>1
  <2>3. ASSUME NEW n \in 1 .. Depth
        PROVE  f[n] = ConformingFrom(n, f[n - 1])
    <3>1. n \in 0 .. Depth /\ f[n - 1] \in X /\ f[n] = g[n][f[n - 1]]
      BY <1>3, <2>1
    <3> QED BY <1>2, <3>1
  <2> QED BY <2>1, <2>2, <2>3
<1>5. ASSUME NEW h, NEW n \in 0 .. Depth
      PROVE  Fn(h)[n] = ConformingFrom(n, IF n = 0 THEN {} ELSE h[n - 1])
  <2>1. ASSUME NEW p \in Outputs[n] \X Schemas[n], NEW q \in Below(p[1], p[2])
        PROVE  n # 0
    BY <2>1, Nesting
  <2> QED BY <2>1 DEF ConformingFrom
<1>6. f = Fn(f)
  <2>1. Fn(f) = [n \in 0 .. Depth |-> Fn(f)[n]]
    OBVIOUS
  <2> HIDE DEF Fn
  <2> QED BY <1>4, <1>5, <2>1
<1>7. conforming = Fn(conforming)
  <2> HIDE DEF Fn
  <2> QED BY <1>6
<1>8. Conforming = conforming
  BY DEF Conforming, FormAllows
<1> HIDE DEF Fn, conforming
<1> QED BY <1>5, <1>7, <1>8

LEMMA ExplicitIs ==
  \A n \in 0 .. Depth : Explicit[n] = ExplicitFrom(n, IF n = 0 THEN {} ELSE Explicit[n - 1])
<1> DEFINE U == UNION {Schemas[n] : n \in 0 .. Depth}
           X == SUBSET U
           g == [n \in 0 .. Depth |-> [S \in X |-> ExplicitFrom(n, S)]]
           Fn(f) == [n \in 0 .. Depth |->
             { s \in Schemas[n] :
                 /\ FormKnown(s)
                 /\ AsksForObject(s) \/ (s.required = {} /\ Properties(s) = {})
                 /\ \A t \in Properties(s) : t \in f[n - 1] }]
           explicit == CHOOSE f : f = Fn(f)
<1>1. {} \in X /\ g \in [0 .. Depth -> [X -> X]]
  <2>1. \A n \in 0 .. Depth : \A S : ExplicitFrom(n, S) \in X
    BY DEF ExplicitFrom
  <2> HIDE DEF U
  <2> QED BY <2>1
<1>2. \A n \in 0 .. Depth : \A S \in X : g[n][S] = ExplicitFrom(n, S)
  OBVIOUS
<1>3. PICK f \in [0 .. Depth -> X] :
        /\ f[0] = g[0][{}]
        /\ \A i \in 1 .. Depth : f[i] = g[i][f[i - 1]]
  <2>1. Depth \in Nat
    BY NestingAssumption
  <2> HIDE DEF g, X
  <2> QED BY <1>1, <2>1, Levels
<1>4. \A n \in 0 .. Depth : f[n] = ExplicitFrom(n, IF n = 0 THEN {} ELSE f[n - 1])
  <2>1. Depth \in Nat
    BY NestingAssumption
  <2> HIDE DEF X, g
  <2>2. f[0] = ExplicitFrom(0, {})
    BY <1>1, <1>2, <1>3, <2>1
  <2>3. ASSUME NEW n \in 1 .. Depth
        PROVE  f[n] = ExplicitFrom(n, f[n - 1])
    <3>1. n \in 0 .. Depth /\ f[n - 1] \in X /\ f[n] = g[n][f[n - 1]]
      BY <1>3, <2>1
    <3> QED BY <1>2, <3>1
  <2> QED BY <2>1, <2>2, <2>3
<1>5. ASSUME NEW h, NEW n \in 0 .. Depth
      PROVE  Fn(h)[n] = ExplicitFrom(n, IF n = 0 THEN {} ELSE h[n - 1])
  <2>1. ASSUME NEW s \in Schemas[n], NEW t \in Properties(s)
        PROVE  n # 0
    BY <2>1, Nesting
  <2> QED BY <2>1 DEF ExplicitFrom
<1>6. f = Fn(f)
  <2>1. Fn(f) = [n \in 0 .. Depth |-> Fn(f)[n]]
    OBVIOUS
  <2> HIDE DEF Fn
  <2> QED BY <1>4, <1>5, <2>1
<1>7. explicit = Fn(explicit)
  <2> HIDE DEF Fn
  <2> QED BY <1>6
<1>8. Explicit = explicit
  BY DEF Explicit, FormKnown
<1> HIDE DEF Fn, explicit
<1> QED BY <1>5, <1>7, <1>8

\* A kind the schema allows passes, and only such a one if the code knows its form.
LEMMA KindsFit ==
  ASSUME NEW n \in 0 .. Depth, NEW p \in Outputs[n] \X Schemas[n]
  PROVE  LET kind == p[1].kind  s == p[2]
         IN  /\ FormAllows(kind, s) => KindFits(kind, s)
             /\ FormKnown(s) /\ KindFits(kind, s) => FormAllows(kind, s)
             /\ AsksForObject(s) /\ KindFits(kind, s) => kind = "object"
<1> DEFINE kind == p[1].kind
           s == p[2]
<1>1. kind \in Kinds /\ s.form \in Forms /\ s.types \subseteq Types
      /\ (s.form = "typed" => \E t \in Types : s.types = {t})
  BY SchemaAssumption
<1>2. ASSUME NEW t \in Types
      PROVE  /\ Meant(t) \cap Kinds \subseteq Taken(t)
             /\ t \notin {"integer", "null"} => Taken(t) = Meant(t)
             /\ t = "object" => Taken(t) = {"object"}
  BY DEF Types, Kinds, Meant, Taken
<1> HIDE DEF kind, s
<1>3. FormAllows(kind, s) => KindFits(kind, s)
  BY <1>1, <1>2 DEF FormAllows, KindFits
<1>4. FormKnown(s) /\ KindFits(kind, s) => FormAllows(kind, s)
  BY <1>1, <1>2 DEF FormAllows, KindFits, FormKnown
<1>5. AsksForObject(s) /\ KindFits(kind, s) => kind = "object"
  BY <1>1, <1>2 DEF AsksForObject, KindFits
<1> QED BY <1>3, <1>4, <1>5 DEF kind, s

\* What conforms is accepted, and what is accepted of an explicit schema conforms.
LEMMA AcceptsRightly ==
  \A n \in 0 .. Depth :
    /\ Conforming[n] \subseteq Accepted[n]
    /\ \A p \in Accepted[n] : p[2] \in Explicit[n] => p \in Conforming[n]
<1> DEFINE Right(n) == /\ Conforming[n] \subseteq Accepted[n]
                       /\ \A p \in Accepted[n] : p[2] \in Explicit[n] => p \in Conforming[n]
           T == {n \in Nat : n <= Depth => Right(n)}
<1>1. ASSUME NEW n \in 0 .. Depth, NEW A, NEW C, NEW E, C \subseteq A,
             \A p \in A : p[2] \in E => p \in C
      PROVE  /\ ConformingFrom(n, C) \subseteq AcceptedFrom(n, A)
             /\ \A p \in AcceptedFrom(n, A) : p[2] \in ExplicitFrom(n, E) => p \in ConformingFrom(n, C)
  <2>1. ASSUME NEW p \in ConformingFrom(n, C)
        PROVE  p \in AcceptedFrom(n, A)
    <3>1. /\ p \in Outputs[n] \X Schemas[n]
          /\ FormAllows(p[1].kind, p[2])
          /\ p[1].kind = "object" =>
               p[2].required \subseteq DOMAIN p[1].fields /\ Below(p[1], p[2]) \subseteq C
      BY <2>1 DEF ConformingFrom
    <3>2. KindFits(p[1].kind, p[2])
      BY <3>1, KindsFit
    <3>3. ASSUME AsksForObject(p[2])
          PROVE  Missing(p[1], p[2]) = {} /\ Below(p[1], p[2]) \subseteq A
      BY <1>1, <3>1, <3>2, <3>3, KindsFit DEF Missing
    <3> QED BY <3>1, <3>2, <3>3 DEF AcceptedFrom
  <2>2. ASSUME NEW p \in AcceptedFrom(n, A), p[2] \in ExplicitFrom(n, E)
        PROVE  p \in ConformingFrom(n, C)
    <3>1. /\ p \in Outputs[n] \X Schemas[n]
          /\ KindFits(p[1].kind, p[2])
          /\ AsksForObject(p[2]) => Missing(p[1], p[2]) = {} /\ Below(p[1], p[2]) \subseteq A
      BY <2>2 DEF AcceptedFrom
    <3>2. /\ FormKnown(p[2])
          /\ AsksForObject(p[2]) \/ (p[2].required = {} /\ Properties(p[2]) = {})
          /\ Properties(p[2]) \subseteq E
      BY <2>2 DEF ExplicitFrom
    <3>3. FormAllows(p[1].kind, p[2])
      BY <3>1, <3>2, KindsFit
    <3>4. \A q \in Below(p[1], p[2]) : q[2] \in Properties(p[2])
      BY DEF Below, Properties
    <3>5. p[2].required \subseteq DOMAIN p[1].fields /\ Below(p[1], p[2]) \subseteq C
      <4>1. CASE AsksForObject(p[2])
        BY <1>1, <3>1, <3>2, <3>4, <4>1 DEF Missing
      <4>2. CASE p[2].required = {} /\ Properties(p[2]) = {}
        BY <3>4, <4>2
      <4> QED BY <3>2, <4>1, <4>2
    <3> QED BY <3>1, <3>3, <3>5 DEF ConformingFrom
  <2> QED BY <2>1, <2>2
<1>2. 0 \in T
  <2>1. /\ Conforming[0] = ConformingFrom(0, {}) /\ Accepted[0] = AcceptedFrom(0, {})
        /\ Explicit[0] = ExplicitFrom(0, {})
    BY NestingAssumption, AcceptedIs, ConformingIs, ExplicitIs
  <2>2. /\ ConformingFrom(0, {}) \subseteq AcceptedFrom(0, {})
        /\ \A p \in AcceptedFrom(0, {}) : p[2] \in ExplicitFrom(0, {}) => p \in ConformingFrom(0, {})
    BY <1>1, NestingAssumption
  <2> QED BY <2>1, <2>2
<1>3. ASSUME NEW n \in Nat, n \in T PROVE n + 1 \in T
  <2> SUFFICES ASSUME n + 1 <= Depth PROVE Right(n + 1)
    OBVIOUS
  <2>1. n + 1 \in 0 .. Depth /\ n + 1 # 0 /\ (n + 1) - 1 = n /\ n <= Depth
    BY NestingAssumption
  <2>2. /\ Conforming[n + 1] = ConformingFrom(n + 1, Conforming[n])
        /\ Accepted[n + 1] = AcceptedFrom(n + 1, Accepted[n])
        /\ Explicit[n + 1] = ExplicitFrom(n + 1, Explicit[n])
    BY <2>1, AcceptedIs, ConformingIs, ExplicitIs
  <2>3. Right(n)
    BY <1>3, <2>1
  <2>4. /\ ConformingFrom(n + 1, Conforming[n]) \subseteq AcceptedFrom(n + 1, Accepted[n])
        /\ \A p \in AcceptedFrom(n + 1, Accepted[n]) :
             p[2] \in ExplicitFrom(n + 1, Explicit[n]) => p \in ConformingFrom(n + 1, Conforming[n])
    BY <1>1, <2>1, <2>3
  <2> QED BY <2>2, <2>4
<1>4. Nat \subseteq T
  <2> HIDE DEF T
  <2> QED BY <1>2, <1>3, Upward
<1> QED BY <1>4, NestingAssumption

\* The verdict is that of the output and the schema of the call.
VaInv ==
  /\ output \in Outputs[Depth] \cup {NotJson} /\ schema \in Schemas[Depth] \cup {NoSchema}
  /\ verdict = "valid" =>
       schema = NoSchema \/ (output # NotJson /\ <<output, schema>> \in Accepted[Depth])
  /\ verdict = "invalid" =>
       schema # NoSchema /\ (output = NotJson \/ <<output, schema>> \notin Accepted[Depth])

\* RejectsRightly: the validator rejects no output that the schema allows, and
\* accepts none that an explicit schema forbids, however deep they are.
THEOREM ValidatesRightly == VaSpec => []RejectsRightly
<1>1. VaInit => VaInv
  BY DEF VaInit, VaInv
<1>2. VaInv /\ [Validate]_vavars => VaInv'
  BY DEF VaInv, Validate, vavars
<1>3. VaInv => RejectsRightly
  <2> SUFFICES ASSUME VaInv PROVE RejectsRightly
    OBVIOUS
  <2>1. /\ Conforming[Depth] \subseteq Accepted[Depth]
        /\ \A p \in Accepted[Depth] : p[2] \in Explicit[Depth] => p \in Conforming[Depth]
    BY AcceptsRightly, NestingAssumption
  <2>2. <<output, schema>>[2] = schema
    OBVIOUS
  <2> QED BY <2>1, <2>2 DEF VaInv, RejectsRightly
<1> QED BY <1>1, <1>2, <1>3, PTL DEF VaSpec
=============================================================================
