---------------------------- MODULE RouterEngine ----------------------------
(***************************************************************************)
(* The gateway's router (internal/router/engine.go): from the candidate    *)
(* models, a route and what the request needs, the list of models to try.  *)
(*                                                                         *)
(* One behaviour is one call of Select: RtInit chooses its arguments, in any *)
(* order of the candidates, and Select answers.  Prices, latencies,        *)
(* reliabilities and weights are natural numbers; a score, which the code  *)
(* computes as a fraction, is multiplied by its denominators, the same for *)
(* all models of a call.  sort.Slice may put equal scores in any order.    *)
(* Names have a prefix where a specification it is checked beside uses the *)
(* same one.                                                               *)
(***************************************************************************)
EXTENDS Integers, Sequences, SequencesExt

CONSTANTS Catalogues,  \* the sequences of model records to choose from
          Routes,      \* the routes
          Needs,       \* what requests need: sets of features
          NoModel      \* a route without a preferred model

\* The candidates are rows of a table, each under its key, and a weight is 0 or more.
ASSUME RouterAssumption ==
  /\ \A c \in Catalogues :
       /\ c \in Seq(ToSet(c))
       /\ \A i \in DOMAIN c : c[i].price \in Nat /\ c[i].latency \in Nat /\ c[i].reliability \in Nat
       /\ \A i, j \in DOMAIN c : c[i].id = c[j].id => i = j
  /\ \A r \in Routes :
       /\ r.chain \in Seq(ToSet(r.chain))
       /\ r.weightCost \in Nat /\ r.weightLatency \in Nat /\ r.weightReliability \in Nat

Attempts == 3   \* Select returns the top 3

VARIABLES candidates, route, needs, \* the arguments of Select
          error, models             \* what it returned

rtvars == <<candidates, route, needs, error, models>>

Pending == <<NoModel>>

\* The features a model supports are those of the request it can serve.
Capable(m) == needs \subseteq m.supports

IsAllowed(m) == route.allowed = {} \/ m.id \in route.allowed

\* The loop that appends what of s is in S.
Sifted(s, S) ==
  LET sifted[i \in 0 .. Len(s)] ==
        IF i = 0 THEN <<>> ELSE IF s[i] \in S THEN Append(sifted[i - 1], s[i]) ELSE sifted[i - 1]
  IN  sifted[Len(s)]

Filtered == Sifted(candidates, {m \in ToSet(candidates) : Capable(m) /\ IsAllowed(m)})

IdsIn(s) == {s[i].id : i \in DOMAIN s}

\* The models of the fallback chain that are available.
Resolved(available) == Sifted(route.chain, IdsIn(available))

-----------------------------------------------------------------------------
Least(S)    == CHOOSE x \in S : \A y \in S : x <= y
Greatest(S) == CHOOSE x \in S : \A y \in S : x >= y

Costs(s)     == {s[i].price : i \in DOMAIN s}
Latencies(s) == {s[i].latency : i \in DOMAIN s}

\* The loop that finds minLat takes 0 for "none yet"; 0 is also the latency of
\* a model whose latency is not known.
MinLat(s) ==
  LET low[i \in 0 .. Len(s)] ==
        IF i = 0 THEN 0
        ELSE IF s[i].latency < low[i - 1] \/ low[i - 1] = 0 THEN s[i].latency ELSE low[i - 1]
  IN  low[Len(s)]

\* Values of one kind that do not differ give every model the whole weight.
Spread(low, high) == IF high > low THEN high - low ELSE 1

\* costNorm and latNorm, times the spread.
Norm(low, high, x) == IF high > low THEN high - x ELSE 1

\* The score of m among the models s, times 100 and both spreads.
Score(s, m) ==
  LET minCost == Least(Costs(s))  maxCost == Greatest(Costs(s))
      minLat  == MinLat(s)        maxLat  == Greatest(Latencies(s))
      c == Spread(minCost, maxCost)
      l == Spread(minLat, maxLat)
  IN   route.weightCost * Norm(minCost, maxCost, m.price) * l * 100
     + route.weightLatency * Norm(minLat, maxLat, m.latency) * c * 100
     + route.weightReliability * m.reliability * c * l

\* The orders sort.Slice may leave s in.
Ranked(s) ==
  {r \in SetToSeqs(ToSet(s)) : \A i, j \in DOMAIN r : i < j => Score(s, r[i]) >= Score(s, r[j])}

IdsOf(r) == [i \in DOMAIN r |-> r[i].id]

\* The preferred model moves to the front.
Preferred(ids) ==
  IF route.preferred \in ToSet(ids)
  THEN <<route.preferred>> \o Sifted(ids, ToSet(ids) \ {route.preferred})
  ELSE ids

Cut(ids) == IF Len(ids) > Attempts THEN SubSeq(ids, 1, Attempts) ELSE ids

\* Mutant: the preference is applied to what is left of the ranking.
TopOfRankingCutFirst(s) == {Preferred(Cut(IdsOf(r))) : r \in Ranked(s)}

TopOfRanking(s) == {Cut(Preferred(IdsOf(r))) : r \in Ranked(s)}

-----------------------------------------------------------------------------
\* The route and the candidates come from the database, these in no order.
RtInit ==
  /\ candidates \in Catalogues /\ route \in Routes /\ needs \in Needs
  /\ error = FALSE /\ models = Pending

Select ==
  /\ models = Pending
  /\ error' = (Filtered = <<>>)
  /\ \/ Filtered = <<>> /\ models' = <<>>
     \/ /\ Filtered # <<>> /\ route.chain # <<>>
        /\ models' = Resolved(Filtered)
     \/ /\ Filtered # <<>> /\ route.chain = <<>>
        /\ models' \in TopOfRanking(Filtered)
  /\ UNCHANGED <<candidates, route, needs>>

RtSpec == RtInit /\ [][Select]_rtvars

-----------------------------------------------------------------------------
Answered == models # Pending
Eligible == ToSet(Filtered)
ByRanking == Answered /\ route.chain = <<>>

(***************************************************************************)
(* No attempt is wasted: only models that can serve the request and that   *)
(* the route allows are tried.  Without a chain the answer is three        *)
(* different ones, or all there are; with one it is every model of the     *)
(* chain that can serve the request, in the chain's order.  An error means *)
(* there is none at all.                                                   *)
(***************************************************************************)
NoAttemptWasted ==
  /\ Answered => ToSet(models) \subseteq {m.id : m \in Eligible}
  /\ ByRanking =>
       /\ IsInjective(models)
       /\ Len(models) = Least({Attempts, Cardinality(Eligible)})
  /\ Answered /\ route.chain # <<>> =>
       \A i \in DOMAIN route.chain :
          route.chain[i] \in IdsIn(Filtered) =>
             \E k \in DOMAIN models :
                /\ models[k] = route.chain[i]
                /\ k = 1 + Cardinality({j \in 1 .. i - 1 : route.chain[j] \in IdsIn(Filtered)})
  /\ Answered => (error <=> Eligible = {})

LatenciesKnown == \A m \in Eligible : m.latency > 0

\* a is at least as good as b in everything and better in something that counts.
Better(a, b) ==
  /\ a.price <= b.price /\ a.latency <= b.latency /\ a.reliability >= b.reliability
  /\ \/ a.price < b.price /\ route.weightCost > 0
     \/ a.latency < b.latency /\ route.weightLatency > 0
     \/ a.reliability > b.reliability /\ route.weightReliability > 0

Position(id) == CHOOSE i \in DOMAIN models : models[i] = id

(***************************************************************************)
(* The ranking respects merit: apart from the preferred model, which is    *)
(* first whenever it can serve the request, no model is tried before one   *)
(* that is better, or in its place -- when all latencies are known.        *)
(***************************************************************************)
MeritFirst ==
  ByRanking =>
    /\ route.preferred \in IdsIn(Filtered) => models[1] = route.preferred
    /\ LatenciesKnown =>
         \A a, b \in Eligible :
            (Better(a, b) /\ b.id \in ToSet(models) /\ b.id # route.preferred) =>
               a.id \in ToSet(models) /\ Position(a.id) < Position(b.id)

(***************************************************************************)
(* The order in which the database listed the candidates decides nothing:  *)
(* when all latencies are known every order gives the same scores.         *)
(***************************************************************************)
OrderIrrelevant ==
  (Answered /\ Filtered # <<>> /\ LatenciesKnown) =>
     \A s \in SetToSeqs(Eligible) : \A m \in Eligible : Score(s, m) = Score(Filtered, m)

(***************************************************************************)
(* Select tries the models that can serve a request, the better ones       *)
(* first, whatever order they are listed in.                               *)
(***************************************************************************)
SelectsWell == NoAttemptWasted /\ MeritFirst /\ OrderIrrelevant
=============================================================================
