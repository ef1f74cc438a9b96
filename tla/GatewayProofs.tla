--------------------------- MODULE GatewayProofs ---------------------------
(***************************************************************************)
(* What the gateway's parts promise besides its limits on calls: the       *)
(* budget, the cost window, the kill switch, the check of API keys, the    *)
(* reader of a provider's stream, and the process with its shutdown.       *)
(***************************************************************************)
EXTENDS Budget, Anomaly, KillSwitch, Authenticator, Provider, Server,
        FiniteSetTheorems, TLAPS

-----------------------------------------------------------------------------
(* The budget.  What requests agree on with the row: its limit never       *)
(* changes, and its spend only grows.                                      *)

Agrees ==
  \A r \in Requests :
    /\ loaded[r].mode = env.mode /\ loaded[r].limit = env.limit
    /\ loaded[r].used <= env.used

LEMMA BudgetTypes ==
  ASSUME BgTypeOK, Agrees, [BgNext]_bgvars
  PROVE  /\ BgTypeOK' /\ Agrees'
         /\ env'.used >= env.used
<1> USE DEF BgTypeOK, Environment
<1> DEFINE Goal == /\ BgTypeOK' /\ Agrees'
                   /\ env'.used >= env.used
<1> USE MoneyAssumption
<1>1. ASSUME NEW r \in Requests, Over(r), UNCHANGED <<env, short>>
      PROVE  Goal
  BY <1>1 DEF Over, Agrees
<1>2. ASSUME NEW r \in Requests, NEW c \in Estimates, LoadEnvironment(r, c)
      PROVE  Goal
  BY <1>2 DEF LoadEnvironment, Agrees
<1>3. ASSUME NEW r \in Requests, Evaluate(r)
      PROVE  Goal
  <2>1. CASE Verdict(loaded[r], estimate[r]) = "block"
    BY <2>1, <1>1, <1>3 DEF Evaluate
  <2>2. CASE Verdict(loaded[r], estimate[r]) # "block"
    BY <2>2, <1>3 DEF Evaluate, Agrees
  <2> QED BY <2>1, <2>2
<1>4. ASSUME NEW r \in Requests, NEW c \in Charges, IncrementBudgetUsed(r, c)
      PROVE  Goal
  <2>1. c \in Nat /\ estimate[r] \in Nat
    OBVIOUS
  <2>2. env' = [env EXCEPT !.used = @ + c] /\ Over(r) /\ short' \in Nat
    BY <1>4, <2>1 DEF IncrementBudgetUsed
  <2> QED BY <2>1, <2>2 DEF Over, Agrees
<1>5. ASSUME NEW r \in Requests, IncrementFails(r)
      PROVE  Goal
  BY <1>5, <1>1 DEF IncrementFails
<1>6. CASE UNCHANGED bgvars
  BY <1>6 DEF bgvars, Agrees
<1> QED BY <1>2, <1>3, <1>4, <1>5, <1>6 DEF BgNext

LEMMA BudgetStarts == BgInit => BgTypeOK /\ Agrees
BY MoneyAssumption DEF BgInit, BgTypeOK, Environment, Agrees

\* The types of the budget, and what a request was decided on.
THEOREM BudgetTypeCorrect == BgSpec => []BgTypeOK
<1>1. BgTypeOK /\ Agrees /\ [BgNext]_bgvars => (BgTypeOK /\ Agrees)'
  BY BudgetTypes
<1> QED BY <1>1, BudgetStarts, PTL DEF BgSpec

\* SpendOnlyGrows: the row's spend does not go back, and no request in hand
\* has read more of it than there is.
THEOREM SpendNeverGoesBack == BgSpec => SpendOnlyGrows
<1>1. BgTypeOK /\ Agrees /\ [BgNext]_bgvars => (BgTypeOK /\ Agrees)'
  BY BudgetTypes
<1>2. BgTypeOK /\ Agrees /\ [BgNext]_bgvars =>
        [env'.used >= env.used /\ \A r \in Requests : loaded'[r].used <= env'.used]_bgvars
  BY BudgetTypes DEF Agrees
<1> QED BY <1>1, <1>2, BudgetStarts, PTL DEF BgSpec, SpendOnlyGrows

-----------------------------------------------------------------------------
(* The overdraft.  The requests that go on may still all be charged what   *)
(* they were estimated at.  One of them, the last that was let through,    *)
(* still had its estimate left in the budget; the others cost MaxEstimate  *)
(* each at most, and there are fewer of them than requests.                *)

Limited == env.mode = "hard" /\ env.limit # NoLimit

Going == {r \in Requests :
            \/ stage[r] = "spending"
            \/ stage[r] = "loaded" /\ Verdict(loaded[r], estimate[r]) # "block"}

Ceiling == env.limit + (Cardinality(Requests) - 1) * MaxEstimate + short

Reserved ==
  Limited =>
    /\ Going = {} => env.used <= Ceiling
    /\ Going # {} => \E w \in Going :
         env.used + estimate[w] + (Cardinality(Going) - 1) * MaxEstimate <= Ceiling

LEMMA GoingCount ==
  ASSUME NEW G \in SUBSET Requests
  PROVE  /\ IsFiniteSet(G) /\ Cardinality(G) \in 0 .. Cardinality(Requests)
         /\ Cardinality(Requests) \in Nat \ {0}
         /\ G # {} => Cardinality(G) >= 1
         /\ \A r \in Requests \ G : Cardinality(G) + 1 = Cardinality(G \cup {r})
                                    /\ Cardinality(G) + 1 <= Cardinality(Requests)
         /\ \A r \in G : Cardinality(G \ {r}) = Cardinality(G) - 1
<1>1. IsFiniteSet(G) /\ Cardinality(G) <= Cardinality(Requests)
  BY RequestsAssumption, FS_Subset
<1>2. Cardinality(G) \in Nat /\ Cardinality(Requests) \in Nat
  BY <1>1, RequestsAssumption, FS_CardinalityType
<1>3. Cardinality(Requests) # 0 /\ (G # {} => Cardinality(G) # 0)
  BY <1>1, RequestsAssumption, FS_EmptySet
<1>4. \A r \in Requests \ G : Cardinality(G \cup {r}) = Cardinality(G) + 1
  BY <1>1, FS_AddElement
<1>5. \A r \in Requests \ G : Cardinality(G \cup {r}) <= Cardinality(Requests)
  <2> TAKE r \in Requests \ G
  <2> QED BY FS_Subset, RequestsAssumption, G \cup {r} \subseteq Requests
<1>6. \A r \in G : Cardinality(G \ {r}) = Cardinality(G) - 1
  BY <1>1, FS_RemoveElement
<1> QED BY <1>1, <1>2, <1>3, <1>4, <1>5, <1>6

LEMMA Products ==
  ASSUME NEW m \in Nat, NEW n \in Int
  PROVE  /\ (n + 1) * m = n * m + m /\ (n - 1) * m = n * m - m
         /\ n * m \in Int
         /\ \A k \in Int : n <= k => n * m <= k * m
OBVIOUS

\* Request r was among those that go on, and ends: it is charged at most its
\* estimate and what that fell short by.
LEMMA ReservedWhenOver ==
  ASSUME BgTypeOK, BgTypeOK', Reserved, NEW r \in Requests, stage[r] = "spending", Over(r),
         env'.mode = env.mode, env'.limit = env.limit,
         env'.used - short' <= env.used - short + estimate[r]
  PROVE  Reserved'
<1> USE MoneyAssumption DEF BgTypeOK, Environment
<1> SUFFICES ASSUME Limited'
             PROVE  /\ Going' = {} => env'.used <= Ceiling'
                    /\ Going' # {} => \E w \in Going' :
                         env'.used + estimate'[w] + (Cardinality(Going') - 1) * MaxEstimate <= Ceiling'
  BY DEF Reserved
<1>1. Limited /\ env.limit \in Nat
  BY DEF Limited
<1>2. r \in Going /\ Going' = Going \ {r} /\ Going \in SUBSET Requests
  BY DEF Going, Over
<1>3. PICK w \in Going :
        env.used + estimate[w] + (Cardinality(Going) - 1) * MaxEstimate <= Ceiling
  BY <1>1, <1>2 DEF Reserved
<1> DEFINE n == Cardinality(Going)
           K == (Cardinality(Requests) - 1) * MaxEstimate
<1>4. /\ n \in Nat /\ n >= 1 /\ Cardinality(Going') = n - 1
      /\ Cardinality(Requests) \in Nat
  BY <1>2, GoingCount
<1>5. /\ (n - 1) * MaxEstimate \in Int /\ K \in Int
      /\ ((n - 1) - 1) * MaxEstimate = (n - 1) * MaxEstimate - MaxEstimate
  <2>1. Cardinality(Requests) - 1 \in Int /\ n - 1 \in Int
    BY <1>4
  <2> QED BY <2>1, Products
<1>6. \A x \in Going : estimate[x] \in 0 .. MaxEstimate
  BY <1>2
<1>7. \A x \in Going' : estimate'[x] = estimate[x] /\ x \in Going
  BY <1>2 DEF Over
<1>8. env.used + estimate[w] + (n - 1) * MaxEstimate <= env.limit + K + short
  BY <1>3 DEF Ceiling
<1>9. Ceiling' = env.limit + K + short' /\ env'.used \in Nat /\ short' \in Nat
  BY DEF Ceiling
<1>10. CASE Going' = {}
  <2>1. n - 1 = 0
    BY <1>2, <1>4, <1>10, FS_EmptySet
  <2>2. (n - 1) * MaxEstimate = 0 /\ w = r
    BY <2>1, <1>2, <1>10
  <2>3. env.used + estimate[r] <= env.limit + K + short
    BY <2>2, <1>8, <1>6, <1>1, <1>5
  <2> HIDE DEF K, n
  <2>4. env'.used <= env.limit + K + short'
    BY <2>3, <1>6, <1>1, <1>5, <1>9, <1>2
  <2> QED BY <2>4, <1>9, <1>10
<1>11. CASE Going' # {}
  <2>1. PICK x \in Going' : w = r \/ x = w
    BY <1>2, <1>11
  <2>2. estimate'[x] = estimate[x] /\ estimate[x] \in 0 .. MaxEstimate /\ x # r
    BY <1>6, <1>7, <1>2
  <2>3. w \in Going /\ estimate[w] \in 0 .. MaxEstimate /\ estimate[r] \in 0 .. MaxEstimate
    BY <1>6, <1>2
  <2> DEFINE N == (n - 1) * MaxEstimate
  <2>4. (Cardinality(Going') - 1) * MaxEstimate = N - MaxEstimate
    BY <1>4, <1>5
  <2>5. N \in Int /\ K \in Int /\ env.used + estimate[w] + N <= env.limit + K + short
    BY <1>5, <1>8
  <2> HIDE DEF N, K, n
  <2>6. env'.used + estimate[x] + (N - MaxEstimate) <= env.limit + K + short'
    <3>1. CASE w = r
      BY <3>1, <2>2, <2>3, <2>5, <1>1, <1>9
    <3>2. CASE x = w
      BY <3>2, <2>2, <2>3, <2>5, <1>1, <1>9
    <3> QED BY <3>1, <3>2, <2>1
  <2> QED BY <2>2, <2>4, <2>6, <1>9, <1>11
<1> QED BY <1>10, <1>11

\* Request r is let through: its own estimate still fits into the budget.
LEMMA ReservedWhenLoaded ==
  ASSUME BgTypeOK, BgTypeOK', Reserved, NEW r \in Requests, NEW c \in Estimates,
         LoadEnvironment(r, c)
  PROVE  Reserved'
<1> USE MoneyAssumption DEF BgTypeOK, Environment
<1> SUFFICES ASSUME Limited'
             PROVE  /\ Going' = {} => env'.used <= Ceiling'
                    /\ Going' # {} => \E w \in Going' :
                         env'.used + estimate'[w] + (Cardinality(Going') - 1) * MaxEstimate <= Ceiling'
  BY DEF Reserved
<1>1. Limited /\ env.limit \in Nat /\ env' = env /\ Ceiling' = Ceiling
  BY DEF Limited, LoadEnvironment, Ceiling
<1>2. Going \in SUBSET Requests /\ r \notin Going
  BY DEF Going, LoadEnvironment
<1>3. \A x \in Going : estimate'[x] = estimate[x]
  BY <1>2 DEF LoadEnvironment
<1>4. CASE Verdict(env, c) = "block"
  <2>1. Going' = Going
    BY <1>4 DEF Going, LoadEnvironment
  <2> QED BY <2>1, <1>1, <1>3 DEF Reserved
<1>5. CASE Verdict(env, c) # "block"
  <2>1. Going' = Going \cup {r}
    BY <1>5 DEF Going, LoadEnvironment
  <2>2. env.used + c <= env.limit
    BY <1>5, <1>1 DEF Verdict, Limited
  <2> DEFINE n == Cardinality(Going)  k == Cardinality(Requests)
  <2>3. /\ n \in Nat /\ k \in Nat /\ n + 1 <= k
        /\ Cardinality(Going') = n + 1
    BY <1>2, <2>1, GoingCount
  <2>4. n * MaxEstimate <= (k - 1) * MaxEstimate
    <3>1. n \in Int /\ k - 1 \in Int /\ n <= k - 1
      BY <2>3
    <3> QED BY <3>1, Products
  <2>5. (k - 1) * MaxEstimate \in Int /\ n * MaxEstimate \in Int
    <3>1. n \in Int /\ k - 1 \in Int
      BY <2>3
    <3> QED BY <3>1, Products
  <2>6. estimate'[r] = c /\ r \in Going'
    BY <2>1 DEF LoadEnvironment
  <2>7. (Cardinality(Going') - 1) * MaxEstimate = n * MaxEstimate
    BY <2>3
  <2> DEFINE A == n * MaxEstimate  B == (k - 1) * MaxEstimate
  <2>8. A \in Int /\ B \in Int /\ A <= B
    BY <2>4, <2>5
  <2>9. Ceiling = env.limit + B + short
    BY DEF Ceiling
  <2> HIDE DEF A, B, n, k
  <2>10. env.used + c + A <= env.limit + B + short
    BY <2>2, <2>8, <1>1
  <2>11. env'.used + estimate'[r] + (Cardinality(Going') - 1) * MaxEstimate <= Ceiling'
    BY <2>10, <2>9, <2>6, <2>7, <1>1 DEF A
  <2> QED BY <2>11, <2>6
<1> QED BY <1>4, <1>5

LEMMA ReservedStays ==
  ASSUME BgTypeOK, BgTypeOK', Reserved, [BgNext]_bgvars
  PROVE  Reserved'
<1> USE MoneyAssumption
<1>1. ASSUME NEW r \in Requests, Evaluate(r)
      PROVE  Reserved'
  <2>1. Going' = Going /\ \A x \in Going : estimate'[x] = estimate[x]
    BY <1>1 DEF Evaluate, Over, Going, BgTypeOK, Environment
  <2>2. env' = env /\ short' = short
    BY <1>1 DEF Evaluate
  <2> QED BY <2>1, <2>2 DEF Reserved, Limited, Ceiling
<1>2. ASSUME NEW r \in Requests, NEW c \in Charges, IncrementBudgetUsed(r, c)
      PROVE  Reserved'
  <2>1. /\ c \in Nat /\ estimate[r] \in Nat /\ short \in Nat /\ env.used \in Nat
        /\ env' = [env EXCEPT !.used = @ + c]
        /\ env \in [mode : {"hard", "soft"}, limit : Budgets \cup {NoLimit}, used : Nat]
    BY <1>2 DEF BgTypeOK, Environment, IncrementBudgetUsed
  <2>2. env'.used - short' <= env.used - short + estimate[r]
    BY <2>1, <1>2 DEF IncrementBudgetUsed
  <2>3. env'.mode = env.mode /\ env'.limit = env.limit
    BY <2>1
  <2> QED BY <2>2, <2>3, <1>2, ReservedWhenOver DEF IncrementBudgetUsed
<1>3. ASSUME NEW r \in Requests, IncrementFails(r)
      PROVE  Reserved'
  <2>1. estimate[r] \in Nat /\ short \in Nat /\ env.used \in Nat /\ env' = env /\ short' = short
    BY <1>3 DEF BgTypeOK, Environment, IncrementFails
  <2>2. env'.used - short' <= env.used - short + estimate[r]
    BY <2>1
  <2> QED BY <2>1, <2>2, <1>3, ReservedWhenOver DEF IncrementFails
<1>4. CASE UNCHANGED bgvars
  BY <1>4 DEF bgvars, Reserved, Limited, Ceiling, Going
<1> QED BY <1>1, <1>2, <1>3, <1>4, ReservedWhenLoaded DEF BgNext

LEMMA ReservedAtFirst == BgInit => Reserved
<1> SUFFICES ASSUME BgInit, Limited
             PROVE  env.used <= Ceiling /\ Going = {}
  BY DEF Reserved
<1>1. Going = {} /\ env.used = 0 /\ env.limit \in Nat /\ short = 0
  BY MoneyAssumption DEF Going, BgInit, Limited
<1>2. Cardinality(Requests) - 1 \in Int /\ 0 <= Cardinality(Requests) - 1
  BY GoingCount
<1>3. /\ 0 * MaxEstimate <= (Cardinality(Requests) - 1) * MaxEstimate
      /\ (Cardinality(Requests) - 1) * MaxEstimate \in Int
  BY <1>2, MoneyAssumption, Products
<1> DEFINE K == (Cardinality(Requests) - 1) * MaxEstimate
<1>4. K \in Int /\ 0 <= K /\ Ceiling = env.limit + K + short
  BY <1>3, MoneyAssumption DEF Ceiling
<1> HIDE DEF K
<1> QED BY <1>1, <1>4

LEMMA ReservedBounds ==
  ASSUME BgTypeOK, Reserved
  PROVE  OverdraftBound
<1> USE MoneyAssumption DEF BgTypeOK, Environment
<1> SUFFICES ASSUME Limited
             PROVE  env.used <= Ceiling
  BY DEF OverdraftBound, Limited, Ceiling
<1>1. CASE Going = {}
  BY <1>1 DEF Reserved
<1>2. CASE Going # {}
  <2>1. Going \in SUBSET Requests
    BY DEF Going
  <2>2. PICK w \in Going :
          env.used + estimate[w] + (Cardinality(Going) - 1) * MaxEstimate <= Ceiling
    BY <1>2 DEF Reserved
  <2> DEFINE n == Cardinality(Going) - 1  N == n * MaxEstimate
             K == (Cardinality(Requests) - 1) * MaxEstimate
  <2>3. n \in Int /\ 0 <= n /\ Cardinality(Requests) - 1 \in Int
    BY <2>1, <1>2, GoingCount
  <2>4. 0 * MaxEstimate <= N /\ N \in Int /\ K \in Int
    BY <2>3, Products
  <2>5. Ceiling = env.limit + K + short /\ env.limit \in Nat /\ estimate[w] \in Nat
    <3>1. estimate[w] \in 0 .. MaxEstimate
      BY <2>1
    <3>2. env.limit \in Nat
      BY DEF Limited
    <3> QED BY <3>1, <3>2 DEF Ceiling
  <2>6. 0 <= N
    BY <2>4
  <2>7. env.used + estimate[w] + N <= Ceiling
    BY <2>2
  <2> HIDE DEF N, n, K
  <2> QED BY <2>4, <2>5, <2>6, <2>7
<1> QED BY <1>1, <1>2

\* OverdraftBound: requests that all read the same remaining budget overdraw a
\* hard limit by no more than the others among them were estimated to cost.
THEOREM OverdraftIsBounded == BgSpec => []OverdraftBound
<1> DEFINE I == BgTypeOK /\ Agrees /\ Reserved
<1>1. I /\ [BgNext]_bgvars => I'
  BY BudgetTypes, ReservedStays
<1>2. BgInit => I
  BY BudgetStarts, ReservedAtFirst
<1>3. I => OverdraftBound
  BY ReservedBounds
<1> QED BY <1>1, <1>2, <1>3, PTL DEF BgSpec

-----------------------------------------------------------------------------
(* The cost window: what has been evicted had expired, and whatever comes  *)
(* later in the window is no older.                                        *)

Ordered ==
  /\ \A i \in 1 .. observed : time[i] <= clock
  /\ \A i, j \in 1 .. observed : i <= j => time[i] <= time[j]
  /\ \A i \in 1 .. first - 1 : time[i] < clock - duration

LEMMA WindowStep ==
  ASSUME AnTypeOK, Ordered, NEW c \in SampleCosts, NEW m \in Multipliers, NEW d \in Durations,
         Observe(c, m, d)
  PROVE  AnTypeOK' /\ Ordered' /\ first' .. observed' = Recent
<1> USE AnomalyAssumption DEF AnTypeOK
<1> DEFINE n == observed + 1  length == IF observed = 0 THEN d ELSE duration
<1>1. /\ n \in Observations /\ n \in Nat /\ observed' = n /\ length \in Nat
      /\ duration' = length /\ clock' = clock
      /\ time' = [time EXCEPT ![n] = clock]
  BY DEF Observe, Observations
<1>2. PICK i \in first .. n :
        /\ first' = i
        /\ \A j \in first .. i - 1 : Expired(j, clock - length)
        /\ i = n \/ ~Expired(i, clock - length)
  BY DEF Observe
<1>3. \A j \in 1 .. observed : j # n /\ time'[j] = time[j]
  BY <1>1 DEF Observations
<1>4. time'[n] = clock /\ \A j \in 1 .. n : j = n \/ j \in 1 .. observed
  BY <1>1 DEF Observations
<1>5. AnTypeOK'
  BY <1>1, <1>2 DEF Observe, Observations
<1>6. i \in Nat /\ i >= 1 /\ i <= n /\ first >= 1
  BY <1>2, <1>1
<1>7. \A j \in 1 .. i - 1 : time[j] < clock - length
  <2> SUFFICES ASSUME NEW j \in 1 .. i - 1  PROVE time[j] < clock - length
    OBVIOUS
  <2>1. CASE j < first
    <3>1. j \in 1 .. first - 1 /\ observed # 0
      BY <2>1, <1>6
    <3> QED BY <3>1 DEF Ordered
  <2>2. CASE j >= first
    BY <2>2, <1>2, <1>6 DEF Expired
  <2> QED BY <2>1, <2>2, <1>6
<1>8. \A j \in i .. n : time'[j] >= clock - length
  <2> SUFFICES ASSUME NEW j \in i .. n, j # n  PROVE time'[j] >= clock - length
    BY <1>4, <1>1
  <2>1. i \in 1 .. observed /\ j \in 1 .. observed /\ i <= j
    BY <1>6, <1>1
  <2>2. time[i] <= time[j] /\ time'[j] = time[j] /\ time[i] \in Nat /\ time[j] \in Nat
    BY <2>1, <1>3 DEF Ordered, Observations
  <2>3. ~(time[i] < clock - length)
    BY <1>2, <2>1, <1>1 DEF Expired
  <2> QED BY <2>2, <2>3, <1>1
<1>9. Ordered'
  <2>1. \A j \in 1 .. observed' : time'[j] <= clock'
    BY <1>1, <1>3, <1>4 DEF Ordered
  <2>2. \A j, k \in 1 .. observed' : j <= k => time'[j] <= time'[k]
    BY <1>1, <1>3, <1>4 DEF Ordered
  <2>3. \A j \in 1 .. first' - 1 : time'[j] < clock' - duration'
    BY <1>1, <1>2, <1>3, <1>6, <1>7
  <2> QED BY <2>1, <2>2, <2>3 DEF Ordered
<1>10. Recent = {j \in 1 .. n : time'[j] >= clock - length}
  BY <1>1 DEF Recent
<1>11. \A j \in 1 .. i - 1 : ~(time'[j] >= clock - length)
  BY <1>7, <1>3, <1>6, <1>1 DEF Observations
<1> QED BY <1>2, <1>1, <1>5, <1>6, <1>8, <1>9, <1>10, <1>11

LEMMA WindowElse ==
  ASSUME AnTypeOK, Ordered,
         (\E b \in Baselines : SetBaseline(b)) \/ AnTick \/ UNCHANGED anvars
  PROVE  AnTypeOK' /\ Ordered' /\ observed' = observed
<1> USE AnomalyAssumption
<1>1. AnTypeOK' /\ observed' = observed
  BY DEF AnTypeOK, SetBaseline, AnTick, anvars
<1>2. /\ time' = time /\ first' = first /\ duration' = duration
      /\ clock \in Nat /\ clock' \in Nat /\ clock <= clock' /\ duration \in Nat
      /\ first \in 1 .. observed + 1 /\ observed \in 0 .. MaxObserved
      /\ \A i \in 1 .. observed : time[i] \in Nat
  BY DEF AnTypeOK, SetBaseline, AnTick, anvars, Observations
<1>3. Ordered'
  <2>1. \A i \in 1 .. observed : time[i] <= clock'
    BY <1>2 DEF Ordered
  <2>2. \A i \in 1 .. first - 1 : time[i] < clock' - duration
    BY <1>2 DEF Ordered
  <2> QED BY <2>1, <2>2, <1>1, <1>2 DEF Ordered
<1> QED BY <1>1, <1>3

\* JudgesRecentSpend: Observe judges by exactly what was spent in the window.
THEOREM SpendIsRecent == AnSpec => JudgesRecentSpend
<1> DEFINE I == AnTypeOK /\ Ordered
           A == observed' # observed => total' = Total(cost', Recent)
<1>1. AnInit => I
  <2>1. ASSUME AnInit PROVE AnTypeOK
    <3>1. baseline \in Baselines \cup {NoBaseline} /\ alarmed \in BOOLEAN
      BY <2>1 DEF AnInit
    <3>2. /\ clock \in Nat /\ duration \in Nat
          /\ observed \in 0 .. MaxObserved /\ first \in 1 .. observed + 1
          /\ time \in [Observations -> Nat] /\ cost \in [Observations -> Nat]
      BY <2>1, AnomalyAssumption DEF AnInit
    <3> QED BY <3>1, <3>2 DEF AnTypeOK
  <2>2. ASSUME AnInit PROVE Ordered
    BY <2>2 DEF AnInit, Ordered
  <2> QED BY <2>1, <2>2
<1>2. I /\ [AnNext]_anvars => I' /\ [A]_anvars
  <2> SUFFICES ASSUME I, [AnNext]_anvars PROVE I' /\ A
    OBVIOUS
  <2>1. ASSUME NEW c \in SampleCosts, NEW m \in Multipliers, NEW d \in Durations, Observe(c, m, d)
        PROVE  I' /\ A
    <3>1. I' /\ first' .. observed' = Recent
      BY <2>1, WindowStep
    <3>2. total' = Total(cost', first' .. observed')
      BY <2>1 DEF Observe
    <3> QED BY <3>1, <3>2
  <2>2. CASE (\E b \in Baselines : SetBaseline(b)) \/ AnTick \/ UNCHANGED anvars
    BY <2>2, WindowElse
  <2> QED BY <2>1, <2>2 DEF AnNext
<1> QED BY <1>1, <1>2, PTL DEF AnSpec, JudgesRecentSpend

-----------------------------------------------------------------------------
\* KilledOnRecord: an environment that is shut off has an incident to say why.
THEOREM KilledHasIncident == KsSpec => []KilledOnRecord
<1> DEFINE I == KsTypeOK /\ KilledOnRecord
<1> USE DEF KsTypeOK, KilledOnRecord
<1>1. KsInit => I
  <2> SUFFICES ASSUME KsInit PROVE I
    OBVIOUS
  <2>1. switched \in BOOLEAN /\ ~switched
    BY DEF KsInit
  <2>2. recorded \in Nat /\ cleared \in 0 .. recorded
    BY DEF KsInit
  <2>3. tx \in [Activators -> {"none", "updated", "inserted"}]
    BY DEF KsInit
  <2> QED BY <2>1, <2>2, <2>3
<1>2. I /\ [KsNext]_ksvars => I'
  <2> SUFFICES ASSUME I, [KsNext]_ksvars PROVE I'
    OBVIOUS
  <2>1. ASSUME NEW a \in Activators, ActivateUpdate(a) \/ ActivateInsert(a) \/ Rollback(a)
        PROVE  I'
    BY <2>1 DEF ActivateUpdate, ActivateInsert, Rollback
  <2>2. ASSUME NEW a \in Activators, ActivateCommit(a)  PROVE I'
    BY <2>2 DEF ActivateCommit
  <2>3. CASE Deactivate
    <3>1. switched' \in BOOLEAN /\ ~switched'
      BY <2>3 DEF Deactivate
    <3>2. recorded' \in Nat /\ cleared' \in 0 .. recorded' /\ tx' = tx
      BY <2>3 DEF Deactivate
    <3> QED BY <3>1, <3>2
  <2>4. CASE UNCHANGED ksvars
    BY <2>4 DEF ksvars
  <2> QED BY <2>1, <2>2, <2>3, <2>4 DEF KsNext
<1> QED BY <1>1, <1>2, PTL DEF KsSpec

-----------------------------------------------------------------------------
(* API keys.  What a call under way knows of its token: it has judged it   *)
(* by the row as it is, and a first lookup in vain leaves either a moment  *)
(* at which the token was not good, or a hash that is another's.           *)

Informed ==
  /\ key.hash \in issued /\ key.previous \in issued \cup {NoToken}
  /\ Asking => /\ token # NoToken
               /\ Valid(key, dbNow, token) \in judged
               /\ token \notin issued => FALSE \in judged
  /\ attempt = "second" /\ ~hitches => FALSE \in judged \/ key.hash # token

AuInv == AuTypeOK /\ Informed /\ AnswerTrue

LEMMA AuStarts == AuInit => AuInv
<1> SUFFICES ASSUME AuInit PROVE AuInv
  OBVIOUS
<1>1. AuTypeOK
  <2>1. key \in KeyRow
    BY DEF AuInit, KeyRow
  <2>2. issued \subseteq Tokens
    BY <2>1 DEF AuInit, KeyRow
  <2>3. judged \subseteq BOOLEAN
    BY DEF AuInit
  <2> QED BY <2>1, <2>2, <2>3 DEF AuInit, AuTypeOK
<1>2. Informed /\ AnswerTrue
  BY DEF AuInit, Informed, AnswerTrue, Asking
<1> QED BY <1>1, <1>2 DEF AuInv

\* The lookups answer by the row as it is.
LEMMA AuLookups ==
  ASSUME AuInv, FindByHash \/ FindByPreviousHash \/ QueryFails
  PROVE  AuInv'
<1> USE DEF AuInv, Asking
<1>1. AuTypeOK'
  BY DEF AuTypeOK, FindByHash, FindByPreviousHash, QueryFails
<1>2. CASE FindByHash
  BY <1>1, <1>2 DEF FindByHash, Finds, HasHash, HadHash, Valid, Informed, AnswerTrue, AuTypeOK
<1>3. CASE FindByPreviousHash
  BY <1>1, <1>3 DEF FindByPreviousHash, Finds, HasHash, HadHash, Valid, Informed, AnswerTrue, AuTypeOK
<1>4. CASE QueryFails
  BY <1>1, <1>4 DEF QueryFails, Informed, AnswerTrue
<1> QED BY <1>2, <1>3, <1>4

\* Whatever happens to the row, the call judges its token again.
LEMMA AuChanges ==
  ASSUME AuInv, (\E t \in Tokens : Rotate(t)) \/ Revoke \/ ClockTick
  PROVE  AuInv'
<1> USE DEF AuInv, Asking
<1>1. Judge /\ UNCHANGED <<attempt, token, hitches>>
  BY DEF Rotate, Revoke, ClockTick
<1>2. Valid(key', dbNow', token) \in BOOLEAN
  BY DEF Valid, HasHash, HadHash
<1>3. AuTypeOK'
  <2>1. judged' \subseteq BOOLEAN
    <3>1. judged \subseteq BOOLEAN
      BY DEF AuTypeOK
    <3>2. judged' = judged \/ judged' = judged \cup {Valid(key', dbNow', token)}
      BY <1>1 DEF Judge
    <3> QED BY <1>2, <3>1, <3>2, Zenon
  <2>2. dbNow' \in Nat /\ key' \in KeyRow /\ issued' \subseteq Tokens
    <3>1. CASE \E t \in Tokens : Rotate(t)
      BY <3>1 DEF Rotate, AuTypeOK, KeyRow
    <3>2. CASE Revoke
      <4>1. key' = [key EXCEPT !.active = FALSE] /\ key \in KeyRow
        BY <3>2 DEF Revoke, AuTypeOK
      <4>2. key' \in KeyRow
        BY <4>1 DEF KeyRow
      <4> QED BY <3>2, <4>2 DEF Revoke, AuTypeOK
    <3>3. CASE ClockTick
      BY <3>3 DEF ClockTick, AuTypeOK
    <3> QED BY <3>1, <3>2, <3>3
  <2> QED BY <1>1, <2>1, <2>2 DEF AuTypeOK
<1>4. /\ key'.hash \in issued' /\ key'.previous \in issued' \cup {NoToken}
      /\ issued \subseteq issued'
      /\ key'.hash # key.hash => key'.hash \notin issued
  BY DEF Rotate, Revoke, ClockTick, AuTypeOK, KeyRow, Informed
<1>5. judged \subseteq judged' /\ (Asking => Valid(key', dbNow', token') \in judged')
  BY <1>1 DEF Judge
<1>6. Informed'
  BY <1>1, <1>4, <1>5 DEF Informed
<1>7. AnswerTrue'
  BY <1>1, <1>5 DEF AnswerTrue
<1> QED BY <1>3, <1>6, <1>7

\* AnswerTrue: what Authenticate answers was so at some moment of the call.
THEOREM AuthenticatesTruly == AuSpec => []AnswerTrue
<1>1. AuInv /\ [AuNext]_auvars => AuInv'
  <2> SUFFICES ASSUME AuInv, [AuNext]_auvars PROVE AuInv'
    OBVIOUS
  <2>1. ASSUME NEW t \in Tokens \cup {NoToken}, Authenticate(t)
        PROVE  AuInv'
    <3>1. Valid(key, dbNow, t) \in BOOLEAN /\ (t \notin issued => ~Valid(key, dbNow, t))
      BY DEF Valid, HasHash, HadHash, AuInv, Informed
    <3>2. AuTypeOK'
      BY <2>1, <3>1 DEF Authenticate, AuInv, AuTypeOK
    <3>3. Informed'
      BY <2>1, <3>1 DEF Authenticate, AuInv, Informed, Asking
    <3>4. AnswerTrue'
      BY <2>1 DEF Authenticate, AnswerTrue, Valid
    <3> QED BY <3>2, <3>3, <3>4 DEF AuInv
  <2>2. CASE FindByHash \/ FindByPreviousHash \/ QueryFails
    BY <2>2, AuLookups
  <2>3. CASE (\E t \in Tokens : Rotate(t)) \/ Revoke \/ ClockTick
    BY <2>3, AuChanges
  <2>4. CASE UNCHANGED auvars
    BY <2>4 DEF auvars, AuInv, AuTypeOK, Informed, AnswerTrue, Asking
  <2> QED BY <2>1, <2>2, <2>3, <2>4 DEF AuNext
<1>2. AuInv => AnswerTrue
  BY DEF AuInv
<1> QED BY <1>1, <1>2, AuStarts, PTL DEF AuSpec

-----------------------------------------------------------------------------
(* The reader of a stream.  It has returned the chunks of the first n      *)
(* lines: n is how far the scanner is until the reader says there are no   *)
(* more, and from then on where the stream stopped for it.                 *)

Ends == {"done", "toolong"}

PvTypeOK ==
  /\ lines \in Seq(Line) /\ next \in 0 .. Len(lines) /\ got \in Seq(Chunks)
  /\ wire \in {"up", "ended", "broken"} /\ end \in {"none", "eof", "error"}

Fed(n) ==
  /\ \A i \in 1 .. n : lines[i] \notin Ends
  /\ Len(got) = Cardinality(Sent(n))
  /\ \A i \in Sent(n) : got[Cardinality(Sent(i))] = lines[i]

Stopped(n) ==
  \/ n = Len(lines) /\ wire # "up"
  \/ n < Len(lines) /\ lines[n + 1] \in Ends

Reading ==
  /\ end = "none" => Fed(next)
  /\ end # "none" => \E n \in 0 .. Len(lines) : Fed(n) /\ Stopped(n)
  /\ end = "eof" => \/ \E i \in 1 .. Len(lines) : lines[i] = "done"
                    \/ wire = "ended" /\ next = Len(lines)
  /\ end = "error" => wire = "broken"

PvInv == PvTypeOK /\ Reading /\ (pvStage = "returned" => body # "open")

LEMMA SentFacts ==
  ASSUME PvTypeOK, NEW n \in 0 .. Len(lines)
  PROVE  /\ IsFiniteSet(Sent(n)) /\ Cardinality(Sent(n)) \in Nat
         /\ \A m \in 0 .. n : Sent(m) \subseteq Sent(n) /\ Cardinality(Sent(m)) <= Cardinality(Sent(n))
         /\ \A m \in 0 .. n - 1 : \A i \in Sent(n) \ Sent(m) : Cardinality(Sent(m)) < Cardinality(Sent(n))
<1>1. n \in Nat /\ IsFiniteSet(1 .. n)
  <2>1. n \in Nat
    BY DEF PvTypeOK
  <2> QED BY <2>1, FS_Interval
<1>2. IsFiniteSet(Sent(n)) /\ Cardinality(Sent(n)) \in Nat
  <2>1. Sent(n) \subseteq 1 .. n
    BY DEF Sent
  <2> QED BY <1>1, <2>1, FS_Subset, FS_CardinalityType
<1>3. \A m \in 0 .. n : Sent(m) \subseteq Sent(n)
  BY <1>1 DEF Sent
<1>4. \A m \in 0 .. n : Cardinality(Sent(m)) <= Cardinality(Sent(n))
  BY <1>2, <1>3, FS_Subset
<1>5. ASSUME NEW m \in 0 .. n - 1, NEW i \in Sent(n) \ Sent(m)
      PROVE  Cardinality(Sent(m)) < Cardinality(Sent(n))
  <2>1. m \in 0 .. n
    BY <1>1
  <2>2. Sent(m) \subseteq Sent(n) /\ IsFiniteSet(Sent(m)) /\ Cardinality(Sent(m)) \in Nat
    BY <1>2, <1>3, <2>1, FS_Subset, FS_CardinalityType
  <2>3. Cardinality(Sent(m) \cup {i}) = Cardinality(Sent(m)) + 1 /\ IsFiniteSet(Sent(m) \cup {i})
    BY <1>5, <2>2, FS_AddElement
  <2>4. Cardinality(Sent(m) \cup {i}) <= Cardinality(Sent(n))
    BY <1>2, <1>5, <2>2, FS_Subset
  <2> QED BY <1>2, <2>2, <2>3, <2>4
<1> QED BY <1>2, <1>3, <1>4, <1>5

\* What was returned of lines that stay is returned still.
LEMMA FedStays ==
  ASSUME PvTypeOK, NEW n \in 0 .. Len(lines), Fed(n), got' = got,
         \A i \in 1 .. Len(lines) : lines'[i] = lines[i]
  PROVE  Fed(n)'
<1>1. \A m \in 0 .. n : Sent(m)' = Sent(m)
  BY DEF PvTypeOK, Sent
<1>2. \A i \in Sent(n) : i \in 1 .. n /\ Sent(i)' = Sent(i)
  BY <1>1 DEF PvTypeOK, Sent
<1> QED BY <1>1, <1>2 DEF Fed, PvTypeOK

\* A line more is delivered.
LEMMA DeliverKept == ASSUME PvInv, NEW l \in Line, Deliver(l) PROVE PvInv'
<1> USE DEF PvInv
<1>1. /\ lines' = Append(lines, l) /\ wire = "up"
      /\ UNCHANGED <<pvStage, body, next, wire, got, end>>
  BY DEF Deliver, Under
<1>2. /\ Len(lines) \in Nat /\ Len(lines') = Len(lines) + 1
      /\ \A i \in 1 .. Len(lines) : lines'[i] = lines[i]
  BY <1>1 DEF PvTypeOK
<1>3. PvTypeOK'
  BY <1>1, <1>2 DEF PvTypeOK
<1>4. \A n \in 0 .. Len(lines) : Fed(n) => Fed(n)'
  BY <1>1, <1>2, FedStays
<1>5. \A n \in 0 .. Len(lines) : Stopped(n) => Stopped(n)'
  BY <1>1, <1>2 DEF Stopped
<1> QED BY <1>1, <1>2, <1>3, <1>4, <1>5 DEF Reading, PvTypeOK

\* The reader takes the chunk in line "at", after lines that are none.
LEMMA ChunkTaken ==
  ASSUME PvInv, end = "none", UNCHANGED lines,
         NEW at \in next + 1 .. Len(lines), StopsAt(at), lines[at] \in Chunks,
         got' = Append(got, lines[at])
  PROVE  Fed(at)'
<1>1. /\ next \in Nat /\ Len(lines) \in Nat /\ at \in 1 .. Len(lines) /\ Fed(next)
      /\ lines \in Seq(Line) /\ got \in Seq(Chunks)
  BY DEF PvInv, PvTypeOK, Reading
<1>2. \A i \in next + 1 .. at - 1 : lines[i] \notin Chunks /\ lines[i] \notin Ends
  BY ChunksAssumption DEF StopsAt, Skipped, Ends
<1>3. Sent(at) = Sent(next) \cup {at} /\ at \notin Sent(next)
  BY <1>1, <1>2 DEF Sent
<1>4. IsFiniteSet(Sent(next)) /\ Cardinality(Sent(next)) \in Nat
  BY <1>1, SentFacts DEF PvInv, PvTypeOK
<1>5. Cardinality(Sent(at)) = Cardinality(Sent(next)) + 1
  BY <1>3, <1>4, FS_AddElement
<1>6. \A n : Sent(n)' = Sent(n)
  BY DEF Sent
<1>7. Len(got') = Cardinality(Sent(at))
  BY <1>1, <1>5 DEF Fed
<1>8. \A i \in Sent(at) : got'[Cardinality(Sent(i))] = lines[i]
  <2> TAKE i \in Sent(at)
  <2>1. CASE i = at
    BY <1>1, <1>5, <2>1 DEF Fed
  <2>2. CASE i # at
    <3>1. i \in Sent(next) /\ i \in 1 .. next /\ got[Cardinality(Sent(i))] = lines[i]
      BY <1>1, <1>3, <2>2 DEF Fed, Sent
    <3>2. Cardinality(Sent(i)) <= Len(got)
      BY <1>1, <3>1, SentFacts DEF Fed, PvInv, PvTypeOK
    <3>3. Cardinality(Sent(i)) \in 1 .. Len(got)
      <4>1. i \in Sent(i) /\ i \in 0 .. Len(lines)
        BY <1>1, <3>1 DEF Sent
      <4>2. IsFiniteSet(Sent(i)) /\ Cardinality(Sent(i)) \in Nat
        BY <4>1, SentFacts DEF PvInv
      <4>3. Cardinality(Sent(i)) # 0
        BY <4>1, <4>2, FS_EmptySet
      <4> QED BY <3>2, <4>2, <4>3, <1>1
    <3> QED BY <1>1, <3>1, <3>3
  <2> QED BY <2>1, <2>2
<1>9. \A i \in 1 .. at : lines[i] \notin Ends
  BY <1>1, <1>2, ChunksAssumption DEF Fed, Ends
<1> QED BY <1>6, <1>7, <1>8, <1>9 DEF Fed

\* The reader comes to the end at "at", after lines that are no chunks.
LEMMA EndReached ==
  ASSUME PvInv, end = "none", UNCHANGED <<lines, got>>,
         NEW at \in next + 1 .. Len(lines) + 1, StopsAt(at)
  PROVE  Fed(at - 1)'
<1>1. /\ next \in Nat /\ Len(lines) \in Nat /\ at \in 1 .. Len(lines) + 1 /\ Fed(next)
      /\ at - 1 \in 0 .. Len(lines) /\ next \in 0 .. at - 1
  BY DEF PvInv, PvTypeOK, Reading
<1>2. \A i \in next + 1 .. at - 1 : lines[i] \notin Chunks /\ lines[i] \notin Ends
  BY ChunksAssumption DEF StopsAt, Skipped, Ends
<1>3. Sent(at - 1) = Sent(next)
  BY <1>1, <1>2 DEF Sent
<1>4. Fed(at - 1)
  BY <1>1, <1>2, <1>3 DEF Fed
<1> QED BY <1>1, <1>4, FedStays DEF PvInv

LEMMA NextChunkKept == ASSUME PvInv, NextChunk PROVE PvInv'
<1>1. /\ pvStage' = pvStage /\ pvStage = "reading" /\ UNCHANGED <<body, lines>>
      /\ lines \in Seq(Line) /\ Len(lines) \in Nat /\ next \in 0 .. Len(lines) /\ got \in Seq(Chunks)
  BY DEF NextChunk, Under, PvInv, PvTypeOK
<1>2. PICK at \in next + 1 .. Len(lines) + 1 :
        /\ StopsAt(at)
        /\ \/ /\ at > Len(lines) /\ wire # "up"
              /\ next' = Len(lines) /\ UNCHANGED wire
              /\ EndsWith(AtEnd)
           \/ /\ at <= Len(lines) /\ lines[at] = "toolong"
              /\ next' = Len(lines) /\ wire' = "broken" /\ EndsWith("error")
           \/ /\ at <= Len(lines) /\ lines[at] = "done"
              /\ next' = at /\ UNCHANGED wire /\ EndsWith("eof")
           \/ /\ at <= Len(lines) /\ lines[at] \in Chunks
              /\ next' = at /\ UNCHANGED <<wire, end>>
              /\ got' = IF end = "none" THEN Append(got, lines[at]) ELSE got
  BY DEF NextChunk
<1>3. at \in 1 .. Len(lines) + 1 /\ at - 1 \in 0 .. Len(lines) /\ wire \in {"up", "ended", "broken"}
      /\ end \in {"none", "eof", "error"}
  BY <1>1 DEF PvInv, PvTypeOK
<1>4. PvTypeOK'
  <2>1. next' \in 0 .. Len(lines)
    BY <1>1, <1>2, <1>3
  <2>2. wire' \in {"up", "ended", "broken"} /\ end' \in {"none", "eof", "error"}
    BY <1>2, <1>3 DEF EndsWith, AtEnd
  <2>3. got' \in Seq(Chunks)
    <3>1. CASE at <= Len(lines) /\ lines[at] \in Chunks /\ got' = Append(got, lines[at])
      BY <1>1, <3>1
    <3>2. CASE got' = got
      BY <1>1, <3>2
    <3> QED BY <1>2, <3>1, <3>2 DEF EndsWith
  <2> QED BY <1>1, <2>1, <2>2, <2>3 DEF PvTypeOK
<1>5. CASE end = "none" /\ at <= Len(lines) /\ lines[at] \in Chunks
  <2>1. lines[at] \notin Ends /\ end' = "none" /\ next' = at /\ got' = Append(got, lines[at])
    BY <1>2, <1>5, <1>3, ChunksAssumption DEF Ends
  <2>2. Fed(at)'
    BY <1>1, <1>2, <1>3, <1>5, <2>1, ChunkTaken
  <2> QED BY <1>1, <1>4, <2>1, <2>2 DEF PvInv, Reading
<1>6. CASE end = "none" /\ ~(at <= Len(lines) /\ lines[at] \in Chunks)
  <2>1. UNCHANGED got /\ end' # "none"
    BY <1>2, <1>6 DEF EndsWith, AtEnd
  <2>2. Fed(at - 1)'
    BY <1>1, <1>2, <1>6, <2>1, EndReached
  <2>3. Stopped(at - 1)'
    BY <1>1, <1>2, <1>3, <1>6 DEF Stopped, Ends
  <2>4. /\ end' = "eof" => \/ \E i \in 1 .. Len(lines) : lines[i] = "done"
                           \/ wire' = "ended" /\ next' = Len(lines)
        /\ end' = "error" => wire' = "broken"
    BY <1>2, <1>3, <1>6 DEF EndsWith, AtEnd
  <2> QED BY <1>1, <1>3, <1>4, <2>1, <2>2, <2>3, <2>4 DEF PvInv, Reading
<1>7. CASE end # "none"
  <2>1. UNCHANGED <<got, end>>
    BY <1>2, <1>7 DEF EndsWith
  <2>2. \A n \in 0 .. Len(lines) : Fed(n) => Fed(n)'
    BY <1>1, <2>1, FedStays DEF PvInv
  <2>3. wire # "up" => wire' # "up"
    BY <1>2
  <2>4. PICK n \in 0 .. Len(lines) : Fed(n) /\ Stopped(n)
    BY <1>7 DEF PvInv, Reading
  <2>5. Fed(n)' /\ Stopped(n)'
    BY <1>1, <2>2, <2>3, <2>4 DEF Stopped
  <2>6. /\ end = "eof" => \/ \E i \in 1 .. Len(lines) : lines[i] = "done"
                          \/ wire' = "ended" /\ next' = Len(lines)
        /\ end = "error" => wire' = "broken"
    BY <1>1, <1>2, <1>3 DEF PvInv, Reading
  <2> QED BY <1>1, <1>4, <1>7, <2>1, <2>4, <2>5, <2>6 DEF PvInv, Reading
<1> QED BY <1>3, <1>5, <1>6, <1>7

\* A call begins: there are no lines, and nothing was returned.
LEMMA NothingReadYet ==
  ASSUME lines' = <<>>, next' = 0, wire' = "up", got' = <<>>, end' = "none",
         pvStage' = "returned" => body' # "open"
  PROVE  PvInv'
<1>1. Sent(0)' = {}
  BY DEF Sent
<1>2. Fed(0)'
  BY <1>1, FS_EmptySet DEF Fed
<1> QED BY <1>2 DEF PvInv, PvTypeOK, Reading

LEMMA PvStarts == PvInit => PvInv
<1> SUFFICES ASSUME PvInit PROVE PvInv
  OBVIOUS
<1>1. Sent(0) = {}
  BY DEF Sent
<1>2. lines = <<>> /\ next = 0 /\ wire = "up" /\ got = <<>> /\ end = "none" /\ pvStage = "idle"
  BY DEF PvInit
<1>3. Fed(0)
  BY <1>1, <1>2, FS_EmptySet DEF Fed
<1> QED BY <1>2, <1>3 DEF PvInv, PvTypeOK, Reading

\* The lines, what the scanner took of them and what the reader returned stay.
LEMMA ReaderRests ==
  ASSUME PvInv, UNCHANGED <<lines, next, got, end>>, wire' \in {wire, "ended", "broken"},
         wire # "up" => wire' = wire, pvStage' = "returned" => body' # "open"
  PROVE  PvInv'
<1>1. PvTypeOK'
  BY DEF PvInv, PvTypeOK
<1>2. \A n \in 0 .. Len(lines) : Fed(n) => Fed(n)'
  BY FedStays DEF PvInv
<1>3. \A n \in 0 .. Len(lines) : Stopped(n) => Stopped(n)'
  BY DEF Stopped
<1>4. next \in 0 .. Len(lines)
  BY DEF PvInv, PvTypeOK
<1> QED BY <1>1, <1>2, <1>3, <1>4 DEF PvInv, Reading

LEMMA PvStep == PvInv /\ [PvNext]_pvvars => PvInv'
<1> SUFFICES ASSUME PvInv, [PvNext]_pvvars PROVE PvInv'
  OBVIOUS
<1>1. CASE \E p \in ProviderTypes, enc \in KeysEnc \cup {NoKey} :
             Send(p, enc) \/ SendStream(p, enc) \/ Repair(p, enc)
  BY <1>1, NothingReadYet DEF Send, SendStream, Repair, Ask
<1>2. CASE \E p \in ProviderTypes : UnknownProvider(p)
  BY <1>2, NothingReadYet DEF UnknownProvider
<1>3. CASE NoResponse
  BY <1>3, ReaderRests DEF NoResponse, Under
<1>4. ASSUME NEW b \in BOOLEAN, Respond(b) PROVE PvInv'
  BY <1>4, ReaderRests DEF Respond, Under
<1>5. ASSUME NEW whole \in BOOLEAN, NEW text \in BOOLEAN, Decode(whole, text) PROVE PvInv'
  BY <1>5, ReaderRests DEF Decode, Under
<1>6. ASSUME NEW l \in Line, Deliver(l) PROVE PvInv'
  BY <1>6, DeliverKept
<1>7. CASE HangUp("ended") \/ HangUp("broken")
  BY <1>7, ReaderRests DEF HangUp, Under
<1>8. CASE NextChunk
  BY <1>8, NextChunkKept
<1>9. CASE CloseReader
  BY <1>9, ReaderRests DEF CloseReader, Under
<1>10. CASE UNCHANGED pvvars
  BY <1>10, ReaderRests DEF pvvars, PvInv
<1> QED BY <1>1, <1>2, <1>3, <1>4, <1>5, <1>6, <1>7, <1>8, <1>9, <1>10 DEF PvNext

\* StreamFaithful: the chunks of the first n lines, in order, are the first of
\* those wanted, and all of them once the reader has said there are no more.
THEOREM StreamsAreFaithful == PvSpec => []StreamFaithful
<1>1. ASSUME PvInv PROVE StreamFaithful
  <2> DEFINE wanted == {i \in Sent(Len(lines)) : \A j \in 1 .. i : lines[j] \notin {"done", "toolong"}}
  <2>1. Len(lines) \in Nat /\ lines \in Seq(Line) /\ next \in 0 .. Len(lines) /\ PvTypeOK
    BY <1>1 DEF PvInv, PvTypeOK
  <2>2. PICK n \in 0 .. Len(lines) : Fed(n) /\ (end # "none" => Stopped(n))
    BY <1>1, <2>1 DEF PvInv, Reading
  <2>3. Sent(n) \subseteq wanted
    BY <2>1, <2>2 DEF Sent, Fed, Ends
  <2>4. IsFiniteSet(wanted) /\ Cardinality(wanted) \in Nat
    <3>1. wanted \subseteq Sent(Len(lines)) /\ IsFiniteSet(Sent(Len(lines)))
      BY <2>1, SentFacts
    <3> HIDE DEF wanted
    <3> QED BY <3>1, FS_Subset, FS_CardinalityType
  <2>5. end # "none" => wanted = Sent(n)
    BY <2>1, <2>2, <2>3 DEF Sent, Stopped, Ends
  <2>6. \A i \in wanted : Cardinality(Sent(i)) <= Len(got) => got[Cardinality(Sent(i))] = lines[i]
    <3> TAKE i \in wanted
    <3>1. i \in 1 .. Len(lines) /\ i \in Sent(i)
      BY <2>1 DEF Sent
    <3>2. CASE i \in Sent(n)
      BY <3>2, <2>2 DEF Fed
    <3>3. CASE i \notin Sent(n)
      <4>1. n \in 0 .. i - 1
        BY <3>1, <3>3, <2>1 DEF Sent
      <4>2. Cardinality(Sent(n)) < Cardinality(Sent(i))
        BY <2>1, <3>1, <3>3, <4>1, SentFacts
      <4>3. Cardinality(Sent(n)) \in Nat /\ Cardinality(Sent(i)) \in Nat
        BY <2>1, <3>1, SentFacts
      <4> QED BY <2>2, <4>2, <4>3 DEF Fed
    <3> QED BY <3>2, <3>3
  <2>7. Len(got) <= Cardinality(wanted) /\ (end # "none" => Len(got) = Cardinality(wanted))
    <3>1. Cardinality(Sent(n)) <= Cardinality(wanted)
      BY <2>3, <2>4, FS_Subset
    <3> QED BY <2>2, <2>5, <3>1 DEF Fed
  <2>8. /\ end = "eof" => wire = "ended" \/ \E i \in 1 .. Len(lines) : lines[i] = "done"
        /\ end = "error" => wire = "broken"
        /\ pvStage = "returned" => body # "open"
    BY <1>1 DEF PvInv, Reading
  <2> QED BY <2>6, <2>7, <2>8 DEF StreamFaithful
<1> QED BY <1>1, PvStep, PvStarts, PTL DEF PvSpec

-----------------------------------------------------------------------------
(* The process.  A request arrives no later than the signal and for no     *)
(* longer than the read timeout; when Shutdown gives up, the shutdown      *)
(* timeout has passed since the signal, so it is not longer than the read  *)
(* timeout.                                                                *)

Paths == {"", "/v1/chat/completions", "/chat/completions", "/v1/models"}

PostRecord ==
  [stage : {"none", "arriving", "refused", "answered", "cut"}, began : Int, path : Paths,
   route : RouteIds \cup {NoRoute}, feature : RouteIds \cup {NoRoute}, key : BOOLEAN,
   status : Int, answered : RouteIds \cup {NoRoute}, bySdk : BOOLEAN,
   meant : RouteIds \cup {NoRoute}]

SvTypeOK ==
  /\ readTimeout \in Int /\ shutdownTimeout \in Int
  /\ process \in {"listening", "draining", "stopped", "killed"}
  /\ svTime \in Nat /\ signalled \in Nat /\ signalled <= svTime
  /\ posts \in [Posts -> PostRecord]

\* A request that arrives: since when, and what the SDK has put in it.
InTime(post) ==
  post.stage = "arriving" =>
    /\ process \in {"listening", "draining"}
    /\ post.began <= svTime /\ (process = "draining" => post.began <= signalled)
    /\ readTimeout > 0 => svTime - post.began <= readTimeout
    /\ post.status = 0
    /\ post.bySdk => post.route = post.meant /\ post.feature = NoRoute

Sound(post) ==
  /\ post.stage = "cut" =>
       process = "killed" /\ (readTimeout <= 0 \/ readTimeout >= shutdownTimeout)
  /\ post.bySdk /\ post.status = 501 => post.answered = post.meant

Prompt == process = "draining" => svTime = signalled \/ svTime - signalled <= shutdownTimeout

SvInv == SvTypeOK /\ Prompt /\ \A p \in Posts : InTime(posts[p]) /\ Sound(posts[p])

LEMMA NoPostFacts ==
  /\ NoPost \in PostRecord
  /\ NoPost.stage = "none" /\ NoPost.status = 0 /\ ~NoPost.bySdk
  /\ NoPost.route = NoRoute /\ NoPost.feature = NoRoute /\ NoPost.key = FALSE
BY DEF NoPost, PostRecord, Paths

LEMMA SvStarts == SvInit => SvInv
<1> SUFFICES ASSUME SvInit PROVE SvInv
  OBVIOUS
<1>1. readTimeout \in Int /\ shutdownTimeout \in Int
  BY DefaultsAssumption DEF SvInit, EnvInt
<1>2. SvTypeOK
  BY <1>1, NoPostFacts DEF SvInit, SvTypeOK
<1> QED BY <1>2, NoPostFacts DEF SvInit, SvInv, Prompt, InTime, Sound

\* A step that puts one record in the place of a request and leaves the rest.
LEMMA OneRecordKept ==
  ASSUME SvInv, NEW p \in Posts, NEW new \in PostRecord,
         posts' = [posts EXCEPT ![p] = new],
         UNCHANGED <<readTimeout, shutdownTimeout, process, svTime, signalled>>,
         InTime(new)', Sound(new)'
  PROVE  SvInv'
<1>1. \A q \in Posts : InTime(posts[q])' /\ Sound(posts[q])'
  <2> TAKE q \in Posts
  <2>1. posts'[q] = IF q = p THEN new ELSE posts[q]
    BY DEF SvInv, SvTypeOK
  <2>2. CASE q = p
    BY <2>1, <2>2
  <2>3. CASE q # p
    BY <2>1, <2>3 DEF SvInv, InTime, Sound
  <2> QED BY <2>2, <2>3
<1> QED BY <1>1 DEF SvInv, SvTypeOK, Prompt

LEMMA PostKept ==
  ASSUME SvInv, NEW p \in Posts, NEW request \in PostRecord, Post(p, request),
         request.status = 0, request.bySdk => request.route = request.meant /\ request.feature = NoRoute
  PROVE  SvInv'
<1>1. /\ UNCHANGED <<readTimeout, shutdownTimeout, process, svTime, signalled>>
      /\ svTime \in Int /\ readTimeout \in Int
  BY DEF Post, Settings, SvInv, SvTypeOK
<1>2. CASE process = "listening"
  <2>1. [request EXCEPT !.stage = "arriving", !.began = svTime] \in PostRecord
    BY <1>1 DEF PostRecord
  <2>2. PICK new \in PostRecord : new = [request EXCEPT !.stage = "arriving", !.began = svTime]
    BY <2>1
  <2>3. /\ new.stage = "arriving" /\ new.began = svTime /\ new.status = 0
        /\ new.bySdk => new.route = new.meant /\ new.feature = NoRoute
    BY <2>2 DEF PostRecord
  <2>4. InTime(new)' /\ Sound(new)'
    BY <1>1, <1>2, <2>3 DEF InTime, Sound
  <2>5. posts' = [posts EXCEPT ![p] = new]
    BY <1>2, <2>2 DEF Post
  <2> QED BY <1>1, <2>4, <2>5, OneRecordKept
<1>3. CASE process # "listening"
  <2>1. [NoPost EXCEPT !.stage = "refused"] \in PostRecord
    BY NoPostFacts DEF PostRecord
  <2>2. PICK new \in PostRecord : new = [NoPost EXCEPT !.stage = "refused"]
    BY <2>1
  <2>3. new.stage = "refused" /\ ~new.bySdk
    BY <2>2, NoPostFacts DEF PostRecord
  <2>4. InTime(new)' /\ Sound(new)'
    BY <2>3 DEF InTime, Sound
  <2>5. posts' = [posts EXCEPT ![p] = new]
    BY <1>3, <2>2 DEF Post
  <2> QED BY <1>1, <2>4, <2>5, OneRecordKept
<1> QED BY <1>2, <1>3

LEMMA HandleKept ==
  ASSUME SvInv, NEW p \in Posts, NEW decodes \in BOOLEAN, Handle(p, decodes)
  PROVE  SvInv'
<1> DEFINE route == IF posts[p].route # NoRoute THEN posts[p].route ELSE posts[p].feature
<1>1. posts[p] \in PostRecord /\ posts[p].stage = "arriving" /\ InTime(posts[p])
  BY DEF SvInv, SvTypeOK, Handle, Arriving
<1>2. PICK st \in Int, r \in RouteIds \cup {NoRoute} :
        Answer(p, st, r) /\ (st = 501 => r = route)
  <2>1. route \in RouteIds \cup {NoRoute}
    BY <1>1 DEF PostRecord
  <2> QED BY <2>1, <1>1 DEF Handle, PostRecord
<1>3. [NoPost EXCEPT !.stage = "answered", !.status = st, !.answered = r,
                     !.bySdk = posts[p].bySdk, !.meant = posts[p].meant] \in PostRecord
  BY <1>1, NoPostFacts DEF PostRecord
<1>4. PICK new \in PostRecord :
        new = [NoPost EXCEPT !.stage = "answered", !.status = st, !.answered = r,
                             !.bySdk = posts[p].bySdk, !.meant = posts[p].meant]
  BY <1>3
<1>5. posts' = [posts EXCEPT ![p] = new]
  BY <1>2, <1>4 DEF Answer
<1>6. /\ new.stage = "answered" /\ new.status = st /\ new.answered = r
      /\ new.bySdk = posts[p].bySdk /\ new.meant = posts[p].meant
  BY <1>4, NoPostFacts DEF PostRecord
<1>7. posts[p].bySdk => route = posts[p].meant
  BY <1>1 DEF InTime
<1> HIDE DEF route
<1>8. InTime(new)' /\ Sound(new)'
  BY <1>2, <1>6, <1>7 DEF InTime, Sound
<1>9. UNCHANGED <<readTimeout, shutdownTimeout, process, svTime, signalled>>
  BY DEF Handle, Settings
<1> QED BY <1>5, <1>8, <1>9, OneRecordKept

\* What the process does by itself: the signal, the end, the clock.
LEMMA ProcessKept ==
  ASSUME SvInv, Signal \/ Exit \/ ShutdownError \/ SvTick
  PROVE  SvInv'
<1> USE DEF SvInv, SvTypeOK, Settings
<1>1. CASE Signal
  BY <1>1 DEF Signal, Prompt, InTime, Sound
<1>2. CASE Exit
  <2>1. posts' = posts
    BY <1>2 DEF Exit, Drained, CutOff
  <2>2. \A p \in Posts : posts[p].stage # "arriving"
    BY <1>2 DEF Exit, Drained, Arriving
  <2> QED BY <1>2, <2>1, <2>2 DEF Exit, Prompt, InTime, Sound
<1>3. CASE ShutdownError
  <2> DEFINE cut == [NoPost EXCEPT !.stage = "cut"]
  <2>1. cut \in PostRecord /\ cut.stage = "cut" /\ ~cut.bySdk
    BY NoPostFacts DEF PostRecord
  <2>2. readTimeout <= 0 \/ readTimeout >= shutdownTimeout
    <3>1. PICK p \in Posts : posts[p].stage = "arriving" /\ InTime(posts[p]) /\ posts[p].began \in Int
      BY <1>3 DEF ShutdownError, Drained, Arriving, PostRecord
    <3> QED BY <1>3, <3>1 DEF ShutdownError, Overdue, InTime
  <2>3. InTime(cut)' /\ Sound(cut)'
    <3> HIDE DEF cut
    <3> QED BY <1>3, <2>1, <2>2 DEF ShutdownError, InTime, Sound
  <2>4. \A p \in Posts : posts'[p] = IF posts[p].stage = "arriving" THEN cut ELSE posts[p]
    BY <1>3 DEF ShutdownError, CutOff, Arriving
  <2>5. posts' \in [Posts -> PostRecord]
    BY <1>3, <2>1 DEF ShutdownError, CutOff
  <2> HIDE DEF cut
  <2>6. \A p \in Posts : InTime(posts[p])' /\ Sound(posts[p])'
    BY <1>3, <2>3, <2>4 DEF ShutdownError, InTime, Sound
  <2> QED BY <1>3, <2>5, <2>6 DEF ShutdownError, Prompt
<1>4. CASE SvTick
  <2>1. \A p \in Posts : posts[p].began \in Int
    BY DEF PostRecord
  <2>2. \A p \in Posts : InTime(posts[p])'
    BY <1>4, <2>1 DEF SvTick, Arriving, Late, InTime
  <2> QED BY <1>4, <2>2 DEF SvTick, Overdue, Prompt, Sound
<1> QED BY <1>1, <1>2, <1>3, <1>4

LEMMA SdkPostKept ==
  ASSUME SvInv, NEW p \in Posts, SdkPosts(p)
  PROVE  SvInv'
<1>1. \E r \in RouteIds \cup {NoRoute} : \E client : SdkPost(p, client, r) /\ client.route = r
  <2>1. PICK made \in RouteIds \cup {NoRoute}, other \in RouteIds \cup {NoRoute}, v1 \in BOOLEAN :
          LET client == Client(made, v1) IN
            \/ SdkPost(p, client, made)
            \/ SdkPost(p, WithAgent(client), made)
            \/ SdkPost(p, WithAgent(WithRoute(client, other)), other)
    BY DEF SdkPosts
  <2> DEFINE client == Client(made, v1)
  <2>2. client.route = made /\ WithAgent(client).route = made
    BY DEF Client, WithAgent
  <2>3. WithAgent(WithRoute(client, other)).route = other
    BY DEF Client, WithAgent, WithRoute
  <2> HIDE DEF client
  <2> QED BY <2>1, <2>2, <2>3 DEF client
<1>2. PICK r \in RouteIds \cup {NoRoute} : \E client : SdkPost(p, client, r) /\ client.route = r
  BY <1>1
<1>3. PICK client : SdkPost(p, client, r) /\ client.route = r
  BY <1>2
<1> DEFINE request == [NoPost EXCEPT !.path = IF client.v1 THEN "/v1/chat/completions" ELSE "/chat/completions",
                                     !.route = r, !.key = TRUE, !.bySdk = TRUE, !.meant = r]
<1>4. request \in PostRecord
  BY NoPostFacts DEF PostRecord, Paths
<1>5. Post(p, request)
  BY <1>3 DEF SdkPost
<1>6. request.status = 0 /\ request.route = request.meant /\ request.feature = NoRoute
  BY NoPostFacts DEF PostRecord
<1> HIDE DEF request
<1> QED BY <1>4, <1>5, <1>6, PostKept

LEMMA OtherPostKept ==
  ASSUME SvInv, NEW p \in Posts, OtherPost(p)
  PROVE  SvInv'
<1>1. CASE \E feature \in RouteIds \cup {NoRoute}, keyed \in BOOLEAN :
             Post(p, [NoPost EXCEPT !.path = "/v1/chat/completions", !.feature = feature, !.key = keyed])
  <2>1. PICK feature \in RouteIds \cup {NoRoute}, keyed \in BOOLEAN :
          Post(p, [NoPost EXCEPT !.path = "/v1/chat/completions", !.feature = feature, !.key = keyed])
    BY <1>1
  <2> DEFINE request == [NoPost EXCEPT !.path = "/v1/chat/completions", !.feature = feature, !.key = keyed]
  <2>2. request \in PostRecord /\ request.status = 0 /\ ~request.bySdk
    BY NoPostFacts DEF PostRecord, Paths
  <2> HIDE DEF request
  <2> QED BY <2>1, <2>2, PostKept DEF request
<1>2. CASE Post(p, [NoPost EXCEPT !.path = "/v1/models"])
  <2> DEFINE request == [NoPost EXCEPT !.path = "/v1/models"]
  <2>1. request \in PostRecord /\ request.status = 0 /\ ~request.bySdk
    BY NoPostFacts DEF PostRecord, Paths
  <2>2. Post(p, request)
    BY <1>2
  <2> HIDE DEF request
  <2> QED BY <2>1, <2>2, PostKept
<1> QED BY <1>1, <1>2 DEF OtherPost

\* NoneCutShort: a request that has begun is answered, unless it is slower than
\* the shutdown timeout and the read timeout lets it; and the SDK's requests are
\* answered for their route.
THEOREM NoneIsCutShort == SvSpec => []NoneCutShort
<1>1. SvInv /\ [SvNext]_svvars => SvInv'
  <2> SUFFICES ASSUME SvInv, [SvNext]_svvars PROVE SvInv'
    OBVIOUS
  <2>1. CASE \E p \in Posts, decodes \in BOOLEAN : Handle(p, decodes)
    BY <2>1, HandleKept
  <2>2. CASE \E p \in Posts : ReadTimesOut(p)
    BY <2>2, HandleKept DEF ReadTimesOut
  <2>3. CASE UNCHANGED svvars
    BY <2>3 DEF svvars, SvInv, SvTypeOK, Prompt, InTime, Sound
  <2> QED BY <2>1, <2>2, <2>3, SdkPostKept, OtherPostKept, ProcessKept DEF SvNext
<1>2. SvInv => NoneCutShort
  BY DEF SvInv, SvTypeOK, Prompt, InTime, Sound, NoneCutShort
<1> QED BY <1>1, <1>2, SvStarts, PTL DEF SvSpec
=============================================================================
