------------------------------ MODULE MCGateway ------------------------------
(***************************************************************************)
(* The packages of the gateway that nothing puts together yet: the check   *)
(* of API keys, the rate limiter, the loop detector, the budget, the cost  *)
(* window, the kill switch, the router, the providers and the validator;   *)
(* and its process.  "part" is the one that moves in a behavior; the       *)
(* others stay in one initial state.                                       *)
(*                                                                         *)
(* For the router five models: two alike, one dominated, one that is cheap *)
(* and slow, one whose latency is not known; every list of up to four of   *)
(* them, in every order.                                                   *)
(***************************************************************************)
EXTENDS RateLimiter, LoopDetector, Budget, Anomaly, KillSwitch, RouterEngine,
        Authenticator, Provider, Server, Validator

VARIABLE part

CONSTANTS m1, m2, m3, m4, m5

Model(id, price, latency, reliability, supports) ==
  [id |-> id, price |-> price, latency |-> latency,
   reliability |-> reliability, supports |-> supports]

MCModels ==
  { Model(m1, 2, 2, 99, {"tools"}),
    Model(m2, 2, 2, 99, {"tools", "stream"}),
    Model(m3, 3, 5, 90, {"tools", "stream"}),
    Model(m4, 1, 9, 95, {"stream"}),
    Model(m5, 4, 0, 99, {"tools", "stream"}) }

MCCatalogues == UNION {SetToSeqs(S) : S \in {T \in SUBSET MCModels : Cardinality(T) <= 4}}

MCNeeds == {{}, {"tools"}, {"tools", "stream"}}

Weights == {<<1, 0, 0>>, <<0, 1, 1>>, <<4, 3, 3>>}

MCRoutes ==
  { [allowed |-> a, chain |-> c, preferred |-> p,
     weightCost |-> w[1], weightLatency |-> w[2], weightReliability |-> w[3]] :
       a \in {{}, {m1, m3, m4}},
       c \in {<<>>, <<m4, m1, m4, m2>>},
       p \in {NoModel, m3},
       w \in Weights }

\* No timeout, in two ways, and one that is longer than the default.
MCEnvValues == {-1, 0, 3}

\* For the validator all values of two levels with a field or two, and schemas alike.
Leaf(kind) == [kind |-> kind, fields |-> <<>>]
Leaves == {Leaf(k) : k \in {"string", "integer", "fraction", "boolean", "null", "array", "object"}}

Partial(K, V)  == UNION {[S -> V] : S \in SUBSET K}
Objects(V, K)  == {[kind |-> "object", fields |-> f] : f \in Partial(K, V)}
Pairs   == Leaves \cup Objects(Leaves, {"a"})
Records == Leaves \cup Objects(Pairs, {"a"})
             \cup Objects({Leaf("string"), Leaf("fraction")}, {"a", "b"})
MCOutputs == [n \in 0 .. 2 |-> IF n = 0 THEN Leaves ELSE IF n = 1 THEN Pairs ELSE Records]

Schema(forms, required, properties) ==
  {[form |-> f[1], types |-> f[2], required |-> r, properties |-> p] : f \in forms, r \in required, p \in properties}
Typed(types) == {<<"typed", {t}>> : t \in types}
Simple ==
  Schema(Typed(Types \ {"object"}) \cup {<<"listed", {"string", "null"}>>, <<"untyped", {}>>, <<"true", {}>>, <<"false", {}>>},
         {{}}, {<<>>})
Few    == Schema(Typed({"string", "integer", "null"}) \cup {<<"false", {}>>}, {{}}, {<<>>})
Maps   == Typed({"object"}) \cup {<<"untyped", {}>>, <<"listed", {"object", "null"}>>}
Nested ==
  Simple \cup Schema(Maps \ {<<"untyped", {}>>}, {{}, {"a"}},
                    Partial({"a"}, Few))
Deep   ==
  Simple \cup Schema(Maps, {{}, {"a", "b"}},
                    Partial({"a"}, Nested) \cup [{"a", "b"} -> Few])
MCSchemas == [n \in 0 .. 2 |-> IF n = 0 THEN Simple ELSE IF n = 1 THEN Nested ELSE Deep]

-----------------------------------------------------------------------------
\* One state of each part that does not move.
StillInit ==
  /\ part # "rate" => \E a \in Call : a.limit = 1 /\ call = [c \in Callers |-> a]
  /\ part # "budget" => env.mode = "hard" /\ env.limit = NoLimit
  /\ part # "keys" => issued = {CHOOSE t \in Tokens : TRUE}
  /\ part # "provider" => callee = "openrouter"
  /\ part # "server" => readTimeout = DefaultRead /\ shutdownTimeout = DefaultShutdown

GatewayInit ==
  /\ part \in {"rate", "loop", "budget", "window", "switch", "router", "keys", "provider",
               "server", "validator"}
  /\ Init /\ LpInit /\ BgInit /\ AnInit /\ KsInit /\ AuInit /\ PvInit /\ SvInit
  /\ StillInit
  /\ \/ part = "router" /\ RtInit
     \/ /\ part # "router"
        /\ candidates = <<>> /\ route = CHOOSE r \in MCRoutes : TRUE
        /\ needs = {} /\ error = FALSE /\ models = Pending
  /\ \/ part = "validator" /\ VaInit
     \/ part # "validator" /\ output = NotJson /\ schema = NoSchema /\ verdict = "none"

Guards ==
  \/ part = "rate"   /\ Next   /\ UNCHANGED <<lpvars, bgvars, anvars, ksvars, auvars>>
  \/ part = "loop"   /\ LpNext /\ UNCHANGED <<vars, bgvars, anvars, ksvars, auvars>>
  \/ part = "budget" /\ BgNext /\ UNCHANGED <<vars, lpvars, anvars, ksvars, auvars>>
  \/ part = "window" /\ AnNext /\ UNCHANGED <<vars, lpvars, bgvars, ksvars, auvars>>
  \/ part = "switch" /\ KsNext /\ UNCHANGED <<vars, lpvars, bgvars, anvars, auvars>>
  \/ part = "keys"   /\ AuNext /\ UNCHANGED <<vars, lpvars, bgvars, anvars, ksvars>>

Services ==
  \/ part = "router"    /\ Select   /\ UNCHANGED <<pvvars, svvars, vavars>>
  \/ part = "provider"  /\ PvNext   /\ UNCHANGED <<rtvars, svvars, vavars>>
  \/ part = "server"    /\ SvNext   /\ UNCHANGED <<rtvars, pvvars, vavars>>
  \/ part = "validator" /\ Validate /\ UNCHANGED <<rtvars, pvvars, svvars>>

guardvars == <<vars, lpvars, bgvars, anvars, ksvars, auvars>>
servicevars == <<rtvars, pvvars, svvars, vavars>>

GatewayNext ==
  /\ \/ Guards /\ UNCHANGED servicevars
     \/ Services /\ UNCHANGED guardvars
  /\ UNCHANGED part

GatewaySpec == GatewayInit /\ [][GatewayNext]_<<guardvars, servicevars, part>>

\* All parts have the same callers.
Symmetry ==
  Permutations(Keys) \cup Permutations(Callers) \cup Permutations(Prompts)
=============================================================================
