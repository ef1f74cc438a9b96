------------------------------ MODULE Billing ------------------------------
(***************************************************************************)
(* An organization's billing (billing/webhook/route.ts and, under          *)
(* organizations/[orgId], billing/checkout/route.ts and route.ts).  Its    *)
(* plan, its Stripe customer and whatever else clients keep there are keys *)
(* of one JSON column, metadata.  The webhook and the checkout read it,    *)
(* change a key of the copy and write the whole copy back; a client that   *)
(* patches the organization writes the column outright.                    *)
(*                                                                         *)
(* Writers are requests being handled: Hooks handle events of Stripe,      *)
(* Checkouts open a checkout.  Stripe delivers an event any number of      *)
(* times and in any order, up to MaxDeliveries in all; Patches are what    *)
(* clients send as metadata, which the API takes whatever it holds, up to  *)
(* MaxEdits times.  Roles and signatures are checked before anything else  *)
(* and left out.                                                           *)
(***************************************************************************)
EXTENDS Integers, FiniteSets

CONSTANTS Hooks, Checkouts,
          Amounts,        \* the amounts of prices Stripe may report
          Notes,          \* what else clients keep in the metadata
          Patches,        \* the metadata clients send
          MaxDeliveries, MaxCheckouts, MaxEdits

ASSUME WritersAssumption == Hooks \cap Checkouts = {}
ASSUME BoundsAssumption ==
  MaxDeliveries \in Nat /\ MaxCheckouts \in Nat /\ MaxEdits \in Nat /\ Amounts \subseteq Nat

VARIABLES row,         \* organizations.metadata
          customers,   \* how many customers Stripe made for the organization
          sessions,    \* the plans that checkout sessions exist for
          pc, copy,    \* per writer: its step and what it read
          task,        \* per writer: the plan it is to put in or to sell
          deliveries, opened, edits,  \* counted for the bounds
          stale,       \* history: writers whose copy is not the row
          owed,        \* history: the plan sold by the last event acknowledged
          planLost,    \* history: that event was acknowledged but not stored, or a
                       \* stale copy or another plan was written over it since
          orphan       \* history: two checkouts were handled at once, a customer was
                       \* not saved, or a stale copy or a client overwrote it

vars == <<row, customers, sessions, pc, copy, task, deliveries, opened, edits, stale, owed, planLost, orphan>>

Writers   == Hooks \cup Checkouts
PaidPlans == {"pro", "enterprise"}
Plans     == {"free"} \cup PaidPlans
None      == "none"   \* a key that is absent

\* metadata: billing_plan, stripe_customer_id (0 when absent) and the rest.
Empty    == [plan |-> None, customer |-> 0, note |-> None]
Metadata == [plan : Plans \cup {None}, customer : Nat, note : Notes \cup {None}]

ASSUME PatchesAssumption == Patches \subseteq Metadata

\* The amounts of PRICE_MAP in checkout/route.ts.
Price == [p \in PaidPlans |-> IF p = "pro" THEN 4900 ELSE 19900]

\* Mutant: the tests in the other order.
PlanFromAmountLowFirst(amount) ==
  IF amount >= 4900 THEN "pro" ELSE IF amount >= 19900 THEN "enterprise" ELSE "free"

\* getPlanFromAmount in webhook/route.ts.
PlanFromAmount(amount) ==
  IF amount >= 19900 THEN "enterprise" ELSE IF amount >= 4900 THEN "pro" ELSE "free"

\* What an event carries; only subscriptions that name the organization count.
Events ==
  [kind : {"completed"}, plan : PaidPlans] \cup
  [kind : {"updated"}, amount : Amounts] \cup [kind : {"deleted"}]

PlanOf(e) ==
  CASE e.kind = "completed" -> e.plan
    [] e.kind = "updated"   -> PlanFromAmount(e.amount)
    [] e.kind = "deleted"   -> "free"

\* The plan an event stands for, by the prices the checkout sells at.
Sold(e) ==
  CASE e.kind = "completed" -> e.plan
    [] e.kind = "updated"   -> IF \E p \in PaidPlans : Price[p] = e.amount
                               THEN CHOOSE p \in PaidPlans : Price[p] = e.amount
                               ELSE PlanOf(e)
    [] e.kind = "deleted"   -> "free"

NoTask == [put |-> None, sold |-> None]

Init ==
  /\ row = Empty /\ customers = 0 /\ sessions = {}
  /\ pc = [w \in Writers |-> "idle"]
  /\ copy = [w \in Writers |-> Empty]
  /\ task = [w \in Writers |-> NoTask]
  /\ deliveries = 0 /\ opened = 0 /\ edits = 0
  /\ stale = {} /\ owed = None /\ planLost = FALSE /\ orphan = FALSE

Go(w, step) == pc' = [pc EXCEPT ![w] = step]
Counters == <<deliveries, opened, edits>>
Stripe   == <<customers, sessions>>
Losses   == <<owed, planLost, orphan>>

\* w has given its answer.
Answer(w) ==
  /\ Go(w, "idle")
  /\ copy' = [copy EXCEPT ![w] = Empty]
  /\ task' = [task EXCEPT ![w] = NoTask]

-----------------------------------------------------------------------------
Begin(w, plan, sold) ==
  /\ pc[w] = "idle"
  /\ Go(w, "read")
  /\ task' = [task EXCEPT ![w] = [put |-> plan, sold |-> sold]]
  /\ UNCHANGED <<row, Stripe, copy, stale, owed, planLost>>

\* The webhook's POST; a checkout is completed in a session that exists.
Deliver(h, e) ==
  /\ deliveries < MaxDeliveries
  /\ e.kind = "completed" => e.plan \in sessions
  /\ Begin(h, PlanOf(e), Sold(e))
  /\ deliveries' = deliveries + 1
  /\ UNCHANGED <<opened, edits, orphan>>

\* The checkout's POST.
Checkout(c, plan) ==
  /\ opened < MaxCheckouts
  /\ Begin(c, plan, None)
  /\ opened' = opened + 1
  /\ orphan' = (orphan \/ \E d \in Checkouts : pc[d] # "idle")
  /\ UNCHANGED <<deliveries, edits>>

\* A client's PATCH of the organization: the column is what it sends.  Copies
\* read before are stale from then on.
Edit(data) ==
  /\ edits < MaxEdits
  /\ edits' = edits + 1
  /\ row' = data
  /\ stale' = {v \in Writers : pc[v] \in {"create", "write"}}
  /\ planLost' = (planLost \/ data.plan # row.plan)
  /\ orphan' = (orphan \/ data.customer # row.customer)
  /\ UNCHANGED <<Stripe, pc, copy, task, deliveries, opened, owed>>

\* Mutant: the checkout does not look for a customer.
ReadUnchecked(w) ==
  /\ pc[w] = "read"
  /\ copy' = [copy EXCEPT ![w] = row]
  /\ Go(w, IF w \in Checkouts THEN "create" ELSE "write")
  /\ UNCHANGED <<row, Stripe, task, Counters, stale, Losses>>

Read(w) ==
  /\ pc[w] = "read"
  /\ copy' = [copy EXCEPT ![w] = row]
  /\ Go(w, IF w \notin Checkouts THEN "write"
           ELSE IF row.customer = 0 THEN "create" ELSE "session")
  /\ UNCHANGED <<row, Stripe, task, Counters, stale, Losses>>

\* The webhook takes a row it could not read for an empty one.
ReadNothing(h) ==
  /\ pc[h] = "read"
  /\ Go(h, "write")
  /\ stale' = stale \cup {h}
  /\ UNCHANGED <<row, Stripe, copy, task, Counters, Losses>>

CreateCustomer(c) ==
  /\ pc[c] = "create"
  /\ customers' = customers + 1
  /\ copy' = [copy EXCEPT ![c].customer = customers + 1]
  /\ Go(c, "write")
  /\ UNCHANGED <<row, sessions, task, Counters, stale, Losses>>

\* Mutant: the copy is not spread into what is written.
ChangedAlone(w) == IF w \in Hooks THEN [Empty EXCEPT !.plan = task[w].put] ELSE copy[w]

\* What w writes: its copy, and in it the key it is after.
Changed(w) == IF w \in Hooks THEN [copy[w] EXCEPT !.plan = task[w].put] ELSE copy[w]

\* After its write the checkout goes on, the webhook answers.
AfterWrite(w) ==
  IF w \in Checkouts THEN Go(w, "session") /\ UNCHANGED <<copy, task>> ELSE Answer(w)

Write(w) ==
  /\ pc[w] = "write"
  /\ row' = Changed(w)
  /\ AfterWrite(w)
  /\ stale' = {v \in Writers \ {w} : pc[v] \in {"create", "write"}}
  /\ owed' = IF w \in Hooks THEN task[w].sold ELSE owed
  /\ planLost' = (w \notin Hooks /\ (planLost \/ w \in stale))
  /\ orphan' = (orphan \/ (w \in stale /\ row.customer \notin {0, Changed(w).customer}))
  /\ UNCHANGED <<Stripe, Counters>>

\* Neither the webhook nor the checkout looks at the error of its update.
WriteNothing(w) ==
  /\ pc[w] = "write"
  /\ AfterWrite(w)
  /\ stale' = stale \ {w}
  /\ owed' = IF w \in Hooks THEN task[w].sold ELSE owed
  /\ planLost' = (planLost \/ w \in Hooks)
  /\ orphan' = (orphan \/ w \in Checkouts)
  /\ UNCHANGED <<row, Stripe, Counters>>

OpenSession(c) ==
  /\ pc[c] = "session"
  /\ sessions' = sessions \cup {task[c].put}
  /\ Answer(c)
  /\ UNCHANGED <<row, customers, Counters, stale, Losses>>

\* An error that is thrown, or the end of the process, ends the request at any await.
Fail(w) ==
  /\ pc[w] # "idle"
  /\ Answer(w)
  /\ stale' = stale \ {w}
  /\ orphan' = (orphan \/ (w \in Checkouts /\ pc[w] = "write"))
  /\ UNCHANGED <<row, Stripe, Counters, owed, planLost>>

Next ==
  \/ \E h \in Hooks : (\E e \in Events : Deliver(h, e)) \/ ReadNothing(h)
  \/ \E c \in Checkouts : (\E p \in PaidPlans : Checkout(c, p)) \/ CreateCustomer(c) \/ OpenSession(c)
  \/ \E data \in Patches : Edit(data)
  \/ \E w \in Writers : Read(w) \/ Write(w) \/ WriteNothing(w) \/ Fail(w)

Spec == Init /\ [][Next]_vars

-----------------------------------------------------------------------------
\* Types.
TypeOK ==
  /\ row \in Metadata
  /\ customers \in Nat /\ sessions \subseteq PaidPlans
  /\ pc \in [Writers -> {"idle", "read", "create", "write", "session"}]
  /\ copy \in [Writers -> Metadata]
  /\ task \in [Writers -> [put : Plans \cup {None}, sold : Plans \cup {None}]]
  /\ \A h \in Hooks : pc[h] # "idle" => task[h].put \in Plans
  /\ \A c \in Checkouts : pc[c] # "idle" => task[c].put \in PaidPlans
  /\ deliveries \in 0 .. MaxDeliveries /\ opened \in 0 .. MaxCheckouts /\ edits \in 0 .. MaxEdits
  /\ stale \subseteq {w \in Writers : pc[w] \in {"create", "write"}}
  /\ owed \in Plans \cup {None} /\ planLost \in BOOLEAN /\ orphan \in BOOLEAN

(***************************************************************************)
(* Rewriting the whole column is as good as setting one key of it, for the *)
(* server's own writers: one that read the row, with no other write since, *)
(* changes the plan if it is a webhook and a customer that is absent if it *)
(* is a checkout, and nothing else with it, whatever clients put there.    *)
(***************************************************************************)
OneKeyAtATime ==
  [][\A w \in Writers :
       (pc[w] = "write" /\ pc'[w] # "write" /\ row' # row /\ w \notin stale) =>
          \/ w \in Hooks     /\ row' = [row EXCEPT !.plan = row'.plan]
          \/ w \in Checkouts /\ row' = [row EXCEPT !.customer = row'.customer] /\ row.customer = 0]_vars

(***************************************************************************)
(* "Create Stripe customer if it doesn't exist": a second customer has     *)
(* only four causes, checkouts handled at once, a customer that was made   *)
(* and not saved, and a stale copy or a client's patch that put another or *)
(* none in its place.  Without them the organization has its one customer  *)
(* before a session is open to it, whatever else fails, whatever webhooks  *)
(* do meanwhile and whatever else clients patch.                           *)
(***************************************************************************)
OneCustomer ==
  ~orphan =>
    /\ customers <= 1
    /\ customers = 1 => row.customer = 1 \/ \E c \in Checkouts : pc[c] = "write"
    /\ sessions # {} => row.customer = 1

(***************************************************************************)
(* The organization has the plan that was sold last, by the prices of the  *)
(* checkout, with which the webhook's thresholds must agree.  Storing an   *)
(* event heals whatever happened to the plan before; only an update whose  *)
(* error nobody looked at, or a stale copy or another plan in a client's   *)
(* patch written since, undoes it.                                         *)
(***************************************************************************)
PlanAsSold ==
  /\ \A p \in PaidPlans : PlanFromAmount(Price[p]) = p
  /\ ~planLost => row.plan = owed
=============================================================================
