------------------------------- MODULE Budget -------------------------------
(***************************************************************************)
(* The budget of an environment: Enforcer.Evaluate (internal/budget/       *)
(* enforcer.go) decides on a request by the environment as LoadEnvironment *)
(* read it (internal/db/queries.go), and what the request did cost is      *)
(* added by IncrementBudgetUsed, one UPDATE, when it is over.  The callers *)
(* are the requests under way; between the three calls of one, others run. *)
(*                                                                         *)
(* Money is counted in whole units.  MaxUsed bounds what is spent: a soft  *)
(* budget stops nobody.  Nothing in the code resets budget_used_usd.       *)
(***************************************************************************)
EXTENDS Integers, FiniteSets

CONSTANTS Requests,        \* requests under way at one time
          Budgets, NoLimit,
          Estimates,       \* what requests are estimated to cost, at most MaxEstimate
          MaxEstimate,
          Charges,         \* what they do cost
          MaxUsed

ASSUME RequestsAssumption == IsFiniteSet(Requests) /\ Requests # {}
ASSUME MoneyAssumption ==
  /\ Budgets \subseteq Nat /\ NoLimit \notin Nat
  /\ MaxEstimate \in Nat /\ Estimates \subseteq 0 .. MaxEstimate
  /\ Charges \subseteq Nat /\ MaxUsed \in Nat

VARIABLES env,       \* the row: budget_mode, budget_limit_usd, budget_used_usd
          stage,     \* per request: "idle", "loaded", "spending"
          loaded,    \* per request: the environment as it was read
          estimate,  \* per request: its estimated cost
          short      \* history: by how much costs were more than estimated

bgvars == <<env, stage, loaded, estimate, short>>

Environment == [mode : {"hard", "soft"}, limit : Budgets \cup {NoLimit}, used : Nat]

BgInit ==
  /\ env \in [mode : {"hard", "soft"}, limit : Budgets \cup {NoLimit}, used : {0}]
  /\ stage = [r \in Requests |-> "idle"]
  /\ loaded = [r \in Requests |-> env]
  /\ estimate = [r \in Requests |-> 0]
  /\ short = 0

\* Request r ends, with what it had in hand.
Over(r) ==
  /\ stage' = [stage EXCEPT ![r] = "idle"]
  /\ loaded' = [loaded EXCEPT ![r].used = 0]
  /\ estimate' = [estimate EXCEPT ![r] = 0]

LoadEnvironment(r, c) ==
  /\ stage[r] = "idle" /\ env.used < MaxUsed
  /\ loaded' = [loaded EXCEPT ![r] = env]
  /\ estimate' = [estimate EXCEPT ![r] = c]
  /\ stage' = [stage EXCEPT ![r] = "loaded"]
  /\ UNCHANGED <<env, short>>

\* Mutant: what the request will cost itself is not looked at.
VerdictOnUsed(e, c) ==
  IF e.limit = NoLimit THEN "allow"
  ELSE LET remaining == e.limit - e.used IN
       IF e.mode = "hard" THEN IF remaining <= 0 THEN "block" ELSE "allow"
       ELSE IF remaining <= 0 THEN "throttle"
       ELSE IF 10 * remaining < e.limit THEN "downgrade" ELSE "allow"

\* What Evaluate says of environment e and an estimated cost c.
Verdict(e, c) ==
  IF e.limit = NoLimit THEN "allow"
  ELSE LET remaining == e.limit - e.used IN
       IF e.mode = "hard" THEN IF remaining <= 0 \/ remaining < c THEN "block" ELSE "allow"
       ELSE IF remaining <= 0 THEN "throttle"
       ELSE IF 10 * remaining < e.limit THEN "downgrade" ELSE "allow"

\* A blocked request ends here.  Throttled and downgraded ones go on.
Evaluate(r) ==
  /\ stage[r] = "loaded"
  /\ IF Verdict(loaded[r], estimate[r]) = "block" THEN Over(r)
     ELSE stage' = [stage EXCEPT ![r] = "spending"] /\ UNCHANGED <<loaded, estimate>>
  /\ UNCHANGED <<env, short>>

\* The row may refuse the update, or the database: then nothing is added.
IncrementBudgetUsed(r, c) ==
  /\ stage[r] = "spending"
  /\ env' = [env EXCEPT !.used = @ + c]
  /\ short' = short + IF c > estimate[r] THEN c - estimate[r] ELSE 0
  /\ Over(r)

IncrementFails(r) ==
  /\ stage[r] = "spending"
  /\ Over(r)
  /\ UNCHANGED <<env, short>>

BgNext ==
  \E r \in Requests :
    \/ \E c \in Estimates : LoadEnvironment(r, c)
    \/ Evaluate(r)
    \/ \E c \in Charges : IncrementBudgetUsed(r, c)
    \/ IncrementFails(r)

BgSpec == BgInit /\ [][BgNext]_bgvars

-----------------------------------------------------------------------------
BgTypeOK ==
  /\ env \in Environment
  /\ stage \in [Requests -> {"idle", "loaded", "spending"}]
  /\ loaded \in [Requests -> Environment]
  /\ estimate \in [Requests -> 0 .. MaxEstimate]
  /\ short \in Nat

(***************************************************************************)
(* A hard budget is overdrawn by no more than the other requests under way *)
(* at one time were estimated to cost, and what estimates fell short of:   *)
(* requests that all read the same remaining budget do not overdraw it     *)
(* without end, and one at a time, well estimated, never do.               *)
(***************************************************************************)
OverdraftBound ==
  (env.mode = "hard" /\ env.limit # NoLimit) =>
     env.used <= env.limit + (Cardinality(Requests) - 1) * MaxEstimate + short

(***************************************************************************)
(* What a request was decided on is never more than what has been spent:   *)
(* the spend in the row does not go back, so a request that is refused for *)
(* want of budget would be refused by the row of any later time as well.   *)
(***************************************************************************)
SpendOnlyGrows ==
  [][env'.used >= env.used /\ \A r \in Requests : loaded'[r].used <= env'.used]_bgvars
=============================================================================
