--------------------------- MODULE BillingProofs ---------------------------
(***************************************************************************)
(* What holds of the metadata column for any number of webhooks, checkouts *)
(* and patches of clients, whatever these send.                            *)
(***************************************************************************)
EXTENDS Billing, TLAPS

\* A copy that is to be written and is not stale is the row, but for the
\* customer that a checkout made since.
Fresh(w) ==
  /\ pc[w] = "create" => w \in Checkouts /\ copy[w] = row /\ row.customer = 0
  /\ pc[w] = "write" =>
       IF w \in Checkouts
       THEN row.customer = 0 /\ copy[w] = [row EXCEPT !.customer = copy[w].customer]
       ELSE copy[w] = row

AllFresh == \A w \in Writers : w \notin stale => Fresh(w)

\* The plan a webhook is about to store is the one that was sold.
TasksAsSold == \A h \in Hooks : task[h].put = task[h].sold

PlanKept == ~planLost => row.plan = owed

(***************************************************************************)
(* While no customer was orphaned there is one checkout at a time, and its *)
(* step tells whether the customer exists and whether the row has it.      *)
(***************************************************************************)
Customers ==
  /\ \A c, d \in Checkouts : pc[c] # "idle" /\ pc[d] # "idle" => c = d
  /\ row.customer <= customers
  /\ \A w \in Hooks : copy[w].customer \in {0, row.customer}
  /\ \A c \in Checkouts :
       /\ pc[c] = "create"  => customers = 0
       /\ pc[c] = "write"   => customers = 1 /\ row.customer = 0 /\ copy[c].customer = 1
       /\ pc[c] = "session" => row.customer = 1
  /\ customers <= 1
  /\ customers = 1 => row.customer = 1 \/ \E c \in Checkouts : pc[c] = "write"
  /\ sessions # {} => row.customer = 1

IInv == TypeOK /\ AllFresh /\ TasksAsSold /\ PlanKept /\ (~orphan => Customers)

-----------------------------------------------------------------------------
LEMMA EmptyFacts ==
  /\ Empty \in Metadata /\ Empty.customer = 0
  /\ NoTask \in [put : Plans \cup {None}, sold : Plans \cup {None}]
  /\ NoTask.put = NoTask.sold
  BY DEF Empty, Metadata, NoTask, None

LEMMA InitIInv == Init => IInv
<1> SUFFICES ASSUME Init PROVE IInv
  OBVIOUS
<1>1. TypeOK
  <2>1. row \in Metadata
    BY EmptyFacts DEF Init
  <2>2. copy \in [Writers -> Metadata]
    BY EmptyFacts DEF Init
  <2>3. task \in [Writers -> [put : Plans \cup {None}, sold : Plans \cup {None}]]
    BY EmptyFacts DEF Init
  <2>4. deliveries \in 0 .. MaxDeliveries /\ opened \in 0 .. MaxCheckouts /\ edits \in 0 .. MaxEdits
    BY BoundsAssumption DEF Init
  <2>5. /\ pc \in [Writers -> {"idle", "read", "create", "write", "session"}]
        /\ \A w \in Writers : pc[w] = "idle"
    BY DEF Init
  <2> QED BY <2>1, <2>2, <2>3, <2>4, <2>5 DEF Init, TypeOK, Writers
<1>2. AllFresh
  BY DEF Init, AllFresh, Fresh
<1>3. TasksAsSold /\ PlanKept
  BY EmptyFacts DEF Init, TasksAsSold, PlanKept, Writers, Empty
<1>4. Customers
  BY EmptyFacts DEF Init, Customers, Writers
<1> QED BY <1>1, <1>2, <1>3, <1>4 DEF IInv

-----------------------------------------------------------------------------
\* The thresholds of the webhook name the plan that is sold at the price.
LEMMA PricesAgree == \A p \in PaidPlans : PlanFromAmount(Price[p]) = p
  BY DEF PaidPlans, Price, PlanFromAmount

LEMMA EventPlans ==
  ASSUME NEW e \in Events
  PROVE  PlanOf(e) = Sold(e) /\ PlanOf(e) \in Plans
<1>1. CASE e \in [kind : {"completed"}, plan : PaidPlans]
  BY <1>1 DEF PlanOf, Sold, Plans
<1>2. CASE e \in [kind : {"updated"}, amount : Amounts]
  <2>1. e.kind = "updated"
    BY <1>2
  <2>2. PlanOf(e) = PlanFromAmount(e.amount)
    BY <2>1 DEF PlanOf
  <2>3. PlanFromAmount(e.amount) \in Plans
    BY DEF PlanFromAmount, Plans, PaidPlans
  <2>4. CASE \E p \in PaidPlans : Price[p] = e.amount
    <3> DEFINE q == CHOOSE p \in PaidPlans : Price[p] = e.amount
    <3>1. q \in PaidPlans /\ Price[q] = e.amount
      BY <2>4
    <3>2. Sold(e) = q
      BY <2>1, <2>4 DEF Sold
    <3> HIDE DEF q
    <3>3. PlanFromAmount(e.amount) = q
      BY <3>1, PricesAgree
    <3> QED BY <2>2, <2>3, <3>2, <3>3
  <2>5. CASE ~ \E p \in PaidPlans : Price[p] = e.amount
    BY <2>1, <2>2, <2>3, <2>5 DEF Sold
  <2> QED BY <2>4, <2>5
<1>3. CASE e \in [kind : {"deleted"}]
  BY <1>3 DEF PlanOf, Sold, Plans
<1> QED BY <1>1, <1>2, <1>3 DEF Events

(***************************************************************************)
(* A request that begins has read nothing: only its step and task change.  *)
(***************************************************************************)
LEMMA BeginIInv ==
  ASSUME IInv, NEW w \in Writers, NEW plan, NEW sold, Begin(w, plan, sold),
         plan \in Plans \cup {None}, sold \in Plans \cup {None},
         w \in Hooks => plan \in Plans /\ plan = sold,
         w \in Checkouts => plan \in PaidPlans,
         opened' \in 0 .. MaxCheckouts, deliveries' \in 0 .. MaxDeliveries, edits' = edits,
         orphan' \in BOOLEAN, orphan => orphan',
         w \in Checkouts => orphan' \/ \A d \in Checkouts : pc[d] = "idle"
  PROVE  IInv'
<1> USE DEF IInv
<1>1. /\ pc' = [pc EXCEPT ![w] = "read"]
      /\ task' = [task EXCEPT ![w] = [put |-> plan, sold |-> sold]]
      /\ UNCHANGED <<row, customers, sessions, copy, stale, owed, planLost>>
  BY DEF Begin, Go, Stripe
<1>2. TypeOK'
  <2>1. task' \in [Writers -> [put : Plans \cup {None}, sold : Plans \cup {None}]]
    BY <1>1 DEF TypeOK
  <2>2. \A h \in Hooks : pc'[h] # "idle" => task'[h].put \in Plans
    BY <1>1 DEF TypeOK, Writers
  <2>3. pc' \in [Writers -> {"idle", "read", "create", "write", "session"}]
    BY <1>1 DEF TypeOK
  <2>4. stale' \subseteq {v \in Writers : pc'[v] \in {"create", "write"}}
    BY <1>1 DEF TypeOK, Begin
  <2>5. \A c \in Checkouts : pc'[c] # "idle" => task'[c].put \in PaidPlans
    BY <1>1 DEF TypeOK, Writers
  <2> QED BY <1>1, <2>1, <2>2, <2>3, <2>4, <2>5 DEF TypeOK
<1>3. AllFresh'
  BY <1>1 DEF AllFresh, Fresh, TypeOK
<1>4. TasksAsSold' /\ PlanKept'
  BY <1>1 DEF TasksAsSold, PlanKept, TypeOK, Writers
<1>5. ~orphan' => Customers'
  <2> SUFFICES ASSUME ~orphan' PROVE Customers'
    OBVIOUS
  <2>1. Customers /\ pc \in [Writers -> {"idle", "read", "create", "write", "session"}]
    BY DEF TypeOK
  <2>2. \A c \in Checkouts : pc'[c] = IF c = w THEN "read" ELSE pc[c]
    BY <1>1, <2>1 DEF Writers
  <2>3. \A c, d \in Checkouts : pc'[c] # "idle" /\ pc'[d] # "idle" => c = d
    BY <2>1, <2>2 DEF Customers
  <2>4. pc[w] = "idle"
    BY DEF Begin
  <2> QED BY <1>1, <2>1, <2>2, <2>3, <2>4 DEF Customers
<1> QED BY <1>2, <1>3, <1>4, <1>5

LEMMA BeginsIInv ==
  ASSUME IInv,
         \/ \E h \in Hooks : \E e \in Events : Deliver(h, e)
         \/ \E c \in Checkouts : \E p \in PaidPlans : Checkout(c, p)
  PROVE  IInv'
<1> USE BoundsAssumption
<1>0. /\ orphan \in BOOLEAN /\ None \in Plans \cup {None} /\ PaidPlans \subseteq Plans
      /\ opened \in 0 .. MaxCheckouts /\ deliveries \in 0 .. MaxDeliveries
  BY DEF IInv, TypeOK, Plans
<1>1. ASSUME NEW h \in Hooks, NEW e \in Events, Deliver(h, e) PROVE IInv'
  <2>1. h \in Writers /\ h \notin Checkouts
    BY WritersAssumption DEF Writers
  <2>2. Begin(h, PlanOf(e), Sold(e)) /\ opened' = opened /\ edits' = edits /\ orphan' = orphan
        /\ deliveries' \in 0 .. MaxDeliveries
    BY <1>0, <1>1 DEF Deliver
  <2>3. PlanOf(e) = Sold(e) /\ PlanOf(e) \in Plans
    BY EventPlans
  <2> QED BY <1>0, <2>1, <2>2, <2>3, BeginIInv
<1>2. ASSUME NEW c \in Checkouts, NEW p \in PaidPlans, Checkout(c, p) PROVE IInv'
  <2>1. c \in Writers /\ c \notin Hooks
    BY WritersAssumption DEF Writers
  <2>2. Begin(c, p, None) /\ deliveries' = deliveries /\ edits' = edits /\ opened' \in 0 .. MaxCheckouts
    BY <1>0, <1>2 DEF Checkout
  <2>3. /\ orphan' \in BOOLEAN /\ (orphan => orphan')
        /\ orphan' \/ \A d \in Checkouts : pc[d] = "idle"
    BY <1>2 DEF Checkout
  <2>4. p \in Plans \cup {None} /\ None \in Plans \cup {None} /\ p \in PaidPlans
    BY <1>0
  <2>5. deliveries' \in 0 .. MaxDeliveries
    BY <1>0, <2>2
  <2>6. /\ c \in Hooks => p \in Plans /\ p = None
        /\ c \in Checkouts => orphan' \/ \A d \in Checkouts : pc[d] = "idle"
    BY <2>1, <2>3
  <2> QED BY <2>1, <2>2, <2>3, <2>4, <2>5, <2>6, BeginIInv
<1> QED BY <1>1, <1>2

LEMMA ReadIInv ==
  ASSUME IInv, NEW w \in Writers, Read(w)
  PROVE  IInv'
<1> USE DEF IInv
<1> DEFINE step == IF w \notin Checkouts THEN "write"
                   ELSE IF row.customer = 0 THEN "create" ELSE "session"
<1>1. /\ copy' = [copy EXCEPT ![w] = row] /\ pc' = [pc EXCEPT ![w] = step]
      /\ UNCHANGED <<row, customers, sessions, task, deliveries, opened, edits, stale, owed, planLost, orphan>>
  BY DEF Read, Go, Stripe, Counters, Losses
<1>2. step \in {"create", "write", "session"} /\ pc[w] = "read"
  BY DEF Read
<1>3. TypeOK'
  <2>1. pc' \in [Writers -> {"idle", "read", "create", "write", "session"}]
    BY <1>1 DEF TypeOK
  <2>2. copy' \in [Writers -> Metadata]
    BY <1>1 DEF TypeOK
  <2>3. /\ \A h \in Hooks : pc'[h] # "idle" => task'[h].put \in Plans
        /\ \A c \in Checkouts : pc'[c] # "idle" => task'[c].put \in PaidPlans
    BY <1>1, <1>2 DEF TypeOK, Writers
  <2>4. stale' \subseteq {v \in Writers : pc'[v] \in {"create", "write"}}
    BY <1>1, <1>2 DEF TypeOK
  <2> QED BY <1>1, <2>1, <2>2, <2>3, <2>4 DEF TypeOK
<1>4. AllFresh'
  <2> SUFFICES ASSUME NEW v \in Writers, v \notin stale PROVE Fresh(v)'
    BY <1>1 DEF AllFresh
  <2>1. CASE v = w
    BY <1>1, <2>1 DEF Fresh, TypeOK
  <2>2. CASE v # w
    BY <1>1, <2>2 DEF Fresh, AllFresh, TypeOK
  <2> QED BY <2>1, <2>2
<1>5. TasksAsSold' /\ PlanKept'
  BY <1>1 DEF TasksAsSold, PlanKept
<1>6. ~orphan' => Customers'
  <2> SUFFICES ASSUME ~orphan' PROVE Customers'
    OBVIOUS
  <2>0. Customers
    BY <1>1
  <2>1. \A v \in Writers : /\ pc'[v] = IF v = w THEN step ELSE pc[v]
                           /\ copy'[v] = IF v = w THEN row ELSE copy[v]
    BY <1>1 DEF TypeOK
  <2>2. \A c, d \in Checkouts : pc'[c] # "idle" /\ pc'[d] # "idle" => c = d
    BY <1>2, <2>0, <2>1 DEF Customers, Writers
  <2>3. \A v \in Hooks : copy'[v].customer \in {0, row.customer}
    BY <2>0, <2>1 DEF Customers, Writers
  <2>4. ASSUME NEW c \in Checkouts
        PROVE  /\ pc'[c] = "create"  => customers = 0
               /\ pc'[c] = "write"   => customers = 1 /\ row.customer = 0 /\ copy'[c].customer = 1
               /\ pc'[c] = "session" => row.customer = 1
    <3>1. CASE c = w
      <4>1. \A d \in Checkouts : pc[d] # "write"
        BY <1>2, <2>0, <3>1 DEF Customers
      <4>2. row.customer \in Nat /\ customers \in Nat /\ row.customer <= customers
        BY <2>0 DEF TypeOK, Metadata, Customers
      <4>3. row.customer = 0 => customers = 0
        BY <2>0, <4>1, <4>2 DEF Customers
      <4>4. row.customer # 0 => row.customer = 1
        BY <2>0, <4>2 DEF Customers
      <4> QED BY <2>1, <3>1, <4>3, <4>4 DEF Writers
    <3>2. CASE c # w
      BY <2>0, <2>1, <3>2 DEF Customers, Writers
    <3> QED BY <3>1, <3>2
  <2>5. customers = 1 => row.customer = 1 \/ \E c \in Checkouts : pc'[c] = "write"
    BY <1>2, <2>0, <2>1 DEF Customers, Writers
  <2> QED BY <1>1, <2>0, <2>2, <2>3, <2>4, <2>5 DEF Customers
<1> QED BY <1>3, <1>4, <1>5, <1>6

LEMMA ReadNothingIInv ==
  ASSUME IInv, NEW h \in Hooks, ReadNothing(h)
  PROVE  IInv'
<1> USE DEF IInv
<1>1. /\ pc[h] = "read" /\ pc' = [pc EXCEPT ![h] = "write"] /\ stale' = stale \cup {h}
      /\ UNCHANGED <<row, customers, sessions, copy, task, deliveries, opened, edits, owed, planLost, orphan>>
  BY DEF ReadNothing, Go, Stripe, Counters, Losses
<1>2. h \in Writers /\ h \notin Checkouts
  BY WritersAssumption DEF Writers
<1>3. TypeOK'
  BY <1>1, <1>2 DEF TypeOK, Writers
<1>4. AllFresh'
  BY <1>1, <1>2 DEF AllFresh, Fresh, TypeOK
<1>5. TasksAsSold' /\ PlanKept'
  BY <1>1 DEF TasksAsSold, PlanKept
<1>6. \A c \in Checkouts : pc'[c] = pc[c]
  BY <1>1, <1>2 DEF TypeOK
<1>7. ~orphan' => Customers'
  BY <1>1, <1>6 DEF Customers
<1> QED BY <1>3, <1>4, <1>5, <1>7

LEMMA CreateCustomerIInv ==
  ASSUME IInv, NEW c \in Checkouts, CreateCustomer(c)
  PROVE  IInv'
<1> USE DEF IInv
<1>1. /\ pc[c] = "create" /\ pc' = [pc EXCEPT ![c] = "write"]
      /\ customers' = customers + 1
      /\ copy' = [copy EXCEPT ![c].customer = customers + 1]
      /\ UNCHANGED <<row, sessions, task, deliveries, opened, edits, stale, owed, planLost, orphan>>
  BY DEF CreateCustomer, Go, Counters, Losses
<1>2. c \in Writers /\ c \notin Hooks
  BY WritersAssumption DEF Writers
<1>3. copy[c] \in Metadata /\ row \in Metadata /\ customers \in Nat
  BY <1>2 DEF TypeOK
<1>4. copy' = [copy EXCEPT ![c] = [copy[c] EXCEPT !.customer = customers + 1]]
  BY <1>1
<1>5. TypeOK'
  <2>1. [copy[c] EXCEPT !.customer = customers + 1] \in Metadata
    BY <1>3 DEF Metadata
  <2>2. copy' \in [Writers -> Metadata]
    BY <1>1, <1>2, <1>3, <1>4, <2>1 DEF TypeOK, Metadata
  <2>3. row \in Metadata /\ customers' \in Nat
    BY <1>1, <1>3 DEF Metadata
  <2>4. /\ pc' \in [Writers -> {"idle", "read", "create", "write", "session"}]
        /\ \A h \in Hooks : pc'[h] # "idle" => task'[h].put \in Plans
        /\ \A d \in Checkouts : pc'[d] # "idle" => task'[d].put \in PaidPlans
        /\ stale' \subseteq {v \in Writers : pc'[v] \in {"create", "write"}}
    BY <1>1 DEF TypeOK, Writers
  <2> QED BY <1>1, <2>2, <2>3, <2>4 DEF TypeOK
<1>6. AllFresh'
  <2> SUFFICES ASSUME NEW v \in Writers, v \notin stale PROVE Fresh(v)'
    BY <1>1 DEF AllFresh
  <2>1. CASE v = c
    <3>1. copy[c] = row /\ row.customer = 0
      BY <1>1, <1>2, <2>1 DEF AllFresh, Fresh
    <3>2. copy'[c] = [row EXCEPT !.customer = customers + 1]
      BY <1>2, <1>4, <3>1 DEF TypeOK
    <3>3. copy'[c].customer = customers + 1
      BY <1>3, <3>2 DEF Metadata
    <3> QED BY <1>1, <2>1, <3>1, <3>2, <3>3 DEF Fresh, TypeOK
  <2>2. CASE v # c
    BY <1>1, <2>2 DEF Fresh, AllFresh, TypeOK
  <2> QED BY <2>1, <2>2
<1>7. TasksAsSold' /\ PlanKept'
  BY <1>1 DEF TasksAsSold, PlanKept
<1>8. ~orphan' => Customers'
  <2> SUFFICES ASSUME ~orphan' PROVE Customers'
    OBVIOUS
  <2>1. Customers /\ customers = 0 /\ row.customer = 0
    BY <1>1, <1>3 DEF Customers, Metadata
  <2>2. \A d \in Checkouts : pc'[d] = (IF d = c THEN "write" ELSE pc[d])
    BY <1>1 DEF TypeOK, Writers
  <2>3. \A d \in Checkouts : pc[d] # "idle" => d = c
    BY <1>1, <2>1 DEF Customers
  <2>4. copy'[c].customer = 1
    BY <1>2, <1>3, <1>4, <2>1 DEF TypeOK, Metadata
  <2>5. \A v \in Hooks : copy'[v] = copy[v]
    BY <1>2, <1>4 DEF TypeOK, Writers
  <2>6. customers' = 1 /\ sessions' = sessions /\ row' = row
    BY <1>1, <2>1
  <2>7. \A d \in Checkouts : d # c => pc'[d] = "idle"
    BY <2>2, <2>3
  <2>8. \A d, e \in Checkouts : pc'[d] # "idle" /\ pc'[e] # "idle" => d = e
    BY <2>7
  <2>9. \A v \in Hooks : copy'[v].customer \in {0, row'.customer}
    BY <2>1, <2>5, <2>6 DEF Customers
  <2>10. sessions' = {}
    BY <2>1, <2>6 DEF Customers
  <2>11. ASSUME NEW d \in Checkouts
         PROVE  /\ pc'[d] = "create"  => customers' = 0
                /\ pc'[d] = "write"   => customers' = 1 /\ row'.customer = 0 /\ copy'[d].customer = 1
                /\ pc'[d] = "session" => row'.customer = 1
    BY <2>1, <2>2, <2>4, <2>6, <2>7
  <2>12. \E d \in Checkouts : pc'[d] = "write"
    BY <2>2
  <2> QED BY <2>6, <2>8, <2>9, <2>10, <2>11, <2>12 DEF Customers
<1> QED BY <1>5, <1>6, <1>7, <1>8

(***************************************************************************)
(* A writer that is done leaves the row to the others: it answers, or goes *)
(* on to its session with a customer that was not saved.                   *)
(***************************************************************************)
LEMMA LeaveIInv ==
  ASSUME IInv, NEW w \in Writers,
         \/ Answer(w)
         \/ w \in Checkouts /\ orphan' /\ Go(w, "session") /\ UNCHANGED <<copy, task>>,
         pc[w] # "idle", UNCHANGED <<row, customers, deliveries, opened, edits>>,
         stale' = stale \ {w},
         PlanKept', owed' \in Plans \cup {None}, planLost' \in BOOLEAN,
         orphan' \in BOOLEAN, orphan => orphan',
         w \in Checkouts /\ pc[w] = "write" => orphan',
         sessions' \subseteq PaidPlans,
         sessions' # {} => sessions # {} \/ (pc[w] = "session" /\ w \in Checkouts)
  PROVE  IInv'
<1> USE DEF IInv
<1>1. PICK s \in {"idle", "session"} :
        /\ pc' = [pc EXCEPT ![w] = s]
        /\ s = "session" => w \in Checkouts /\ orphan' /\ UNCHANGED <<copy, task>>
        /\ s = "idle" => copy' = [copy EXCEPT ![w] = Empty] /\ task' = [task EXCEPT ![w] = NoTask]
  BY DEF Answer, Go
<1>2. \A v \in Writers : /\ copy'[v] \in {copy[v], Empty} /\ (v # w => copy'[v] = copy[v])
                         /\ task'[v] \in {task[v], NoTask} /\ (v # w => task'[v] = task[v])
                         /\ (s = "session" => task'[v] = task[v])
                         /\ pc'[v] = IF v = w THEN s ELSE pc[v]
  BY <1>1 DEF TypeOK
<1>3. TypeOK'
  <2>1. copy' \in [Writers -> Metadata] /\ task' \in [Writers -> [put : Plans \cup {None}, sold : Plans \cup {None}]]
    <3>1. CASE s = "idle"
      BY <1>1, <3>1, EmptyFacts DEF TypeOK
    <3>2. CASE s = "session"
      BY <1>1, <3>2 DEF TypeOK
    <3> QED BY <3>1, <3>2
  <2>3. pc' \in [Writers -> {"idle", "read", "create", "write", "session"}]
    BY <1>1 DEF TypeOK
  <2>4. /\ \A h \in Hooks : pc'[h] # "idle" => task'[h].put \in Plans
        /\ \A c \in Checkouts : pc'[c] # "idle" => task'[c].put \in PaidPlans
    BY <1>2 DEF TypeOK, Writers
  <2>5. stale' \subseteq {v \in Writers : pc'[v] \in {"create", "write"}}
    BY <1>2 DEF TypeOK
  <2> QED BY <2>1, <2>3, <2>4, <2>5 DEF TypeOK
<1>4. AllFresh'
  <2> SUFFICES ASSUME NEW v \in Writers, v \notin stale' PROVE Fresh(v)'
    BY DEF AllFresh
  <2>1. CASE v = w
    BY <1>2, <2>1 DEF Fresh
  <2>2. CASE v # w
    BY <1>2, <2>2 DEF Fresh, AllFresh
  <2> QED BY <2>1, <2>2
<1>5. TasksAsSold'
  BY <1>2, EmptyFacts DEF TasksAsSold, Writers
<1>6. ~orphan' => Customers'
  <2> SUFFICES ASSUME ~orphan' PROVE Customers'
    OBVIOUS
  <2>1. Customers /\ (w \in Checkouts => pc[w] # "write") /\ s = "idle"
    BY <1>1
  <2>2. \A c \in Checkouts : pc'[c] # "idle" => pc'[c] = pc[c] /\ copy'[c] = copy[c]
    BY <1>2, <2>1 DEF Writers
  <2>3. \A v \in Hooks : copy'[v].customer \in {0, row.customer}
    BY <1>2, <2>1, EmptyFacts DEF Writers, Customers
  <2>4. \A c \in Checkouts : pc[c] = "write" => pc'[c] = "write"
    BY <1>2, <2>1 DEF Writers
  <2>5. sessions' # {} => row.customer = 1
    BY <2>1 DEF Customers
  <2> QED BY <2>1, <2>2, <2>3, <2>4, <2>5 DEF Customers
<1> QED BY <1>3, <1>4, <1>5, <1>6

LEMMA LeavesIInv ==
  ASSUME IInv,
         \/ \E w \in Writers : WriteNothing(w) \/ Fail(w)
         \/ \E c \in Checkouts : OpenSession(c)
  PROVE  IInv'
<1>0. /\ orphan \in BOOLEAN /\ planLost \in BOOLEAN /\ owed \in Plans \cup {None}
      /\ sessions \subseteq PaidPlans /\ PlanKept /\ Checkouts \subseteq Writers
  BY DEF IInv, TypeOK, Writers
<1>1. ASSUME NEW w \in Writers, WriteNothing(w) PROVE IInv'
  <2>1. /\ pc[w] # "idle" /\ UNCHANGED <<row, customers, sessions, deliveries, opened, edits>>
        /\ stale' = stale \ {w} /\ orphan' = (orphan \/ w \in Checkouts)
    BY <1>1 DEF WriteNothing, Stripe, Counters
  <2>2. Answer(w) \/ (w \in Checkouts /\ orphan' /\ Go(w, "session") /\ UNCHANGED <<copy, task>>)
    <3>1. AfterWrite(w)
      BY <1>1 DEF WriteNothing
    <3>2. CASE w \in Checkouts
      BY <2>1, <3>1, <3>2 DEF AfterWrite
    <3>3. CASE w \notin Checkouts
      BY <3>1, <3>3 DEF AfterWrite
    <3> QED BY <3>2, <3>3
  <2>3. PlanKept' /\ planLost' \in BOOLEAN
    BY <1>0, <1>1 DEF WriteNothing, PlanKept, Stripe, Counters
  <2>4. owed' \in Plans \cup {None}
    BY <1>0, <1>1 DEF WriteNothing, IInv, TypeOK
  <2>5. /\ orphan' \in BOOLEAN /\ (orphan => orphan')
        /\ w \in Checkouts /\ pc[w] = "write" => orphan'
    BY <1>0, <2>1
  <2>6. /\ sessions' \subseteq PaidPlans
        /\ sessions' # {} => sessions # {} \/ (pc[w] = "session" /\ w \in Checkouts)
    BY <1>0, <2>1
  <2>7. UNCHANGED <<row, customers, deliveries, opened, edits>>
    BY <2>1
  <2> QED BY <2>1, <2>2, <2>3, <2>4, <2>5, <2>6, <2>7, LeaveIInv
<1>2. ASSUME NEW w \in Writers, Fail(w) PROVE IInv'
  <2>1. /\ pc[w] # "idle" /\ UNCHANGED <<row, customers, sessions, deliveries, opened, edits, owed, planLost>>
        /\ stale' = stale \ {w} /\ Answer(w)
        /\ orphan' = (orphan \/ (w \in Checkouts /\ pc[w] = "write"))
    BY <1>2 DEF Fail, Stripe, Counters
  <2>2. PlanKept'
    BY <1>0, <2>1 DEF PlanKept
  <2>3. /\ orphan' \in BOOLEAN /\ (orphan => orphan')
        /\ w \in Checkouts /\ pc[w] = "write" => orphan'
    BY <1>0, <2>1
  <2>4. /\ sessions' \subseteq PaidPlans
        /\ sessions' # {} => sessions # {} \/ (pc[w] = "session" /\ w \in Checkouts)
    BY <1>0, <2>1
  <2>5. owed' \in Plans \cup {None} /\ planLost' \in BOOLEAN
    BY <1>0, <2>1
  <2>6. UNCHANGED <<row, customers, deliveries, opened, edits>>
    BY <2>1
  <2> QED BY <2>1, <2>2, <2>3, <2>4, <2>5, <2>6, LeaveIInv
<1>3. ASSUME NEW c \in Checkouts, OpenSession(c) PROVE IInv'
  <2>1. /\ pc[c] = "session" /\ sessions' = sessions \cup {task[c].put} /\ Answer(c)
        /\ UNCHANGED <<row, customers, deliveries, opened, edits, stale, owed, planLost, orphan>>
    BY <1>3 DEF OpenSession, Counters, Losses
  <2>2. stale' = stale \ {c} /\ task[c].put \in PaidPlans
    BY <2>1 DEF IInv, TypeOK
  <2>3. PlanKept'
    BY <1>0, <2>1 DEF PlanKept
  <2> QED BY <1>0, <2>1, <2>2, <2>3, LeaveIInv
<1> QED BY <1>1, <1>2, <1>3

(***************************************************************************)
(* The write.  Every other copy is stale from then on; a copy that is not  *)
(* stale brings back the plan and the customer as they are in the row.     *)
(***************************************************************************)
LEMMA WriteIInv ==
  ASSUME IInv, NEW w \in Writers, Write(w)
  PROVE  IInv'
<1> USE DEF IInv
<1>1. /\ pc[w] = "write" /\ row' = Changed(w) /\ AfterWrite(w)
      /\ stale' = {v \in Writers \ {w} : pc[v] \in {"create", "write"}}
      /\ owed' = (IF w \in Hooks THEN task[w].sold ELSE owed)
      /\ planLost' = (w \notin Hooks /\ (planLost \/ w \in stale))
      /\ orphan' = (orphan \/ (w \in stale /\ row.customer \notin {0, Changed(w).customer}))
      /\ UNCHANGED <<customers, sessions, deliveries, opened, edits>>
  BY DEF Write, Stripe, Counters
<1>2. /\ copy[w] \in Metadata /\ row \in Metadata 
      /\ task[w] \in [put : Plans \cup {None}, sold : Plans \cup {None}]
  BY DEF TypeOK
<1>3. /\ row' \in Metadata
      /\ row'.customer = copy[w].customer
      /\ w \in Hooks => row'.plan = task[w].put
      /\ w \notin Hooks => row'.plan = copy[w].plan
  BY <1>1, <1>2, WritersAssumption DEF Changed, Metadata, Writers
<1>4. PICK s \in {"idle", "session"} :
        /\ pc' = [pc EXCEPT ![w] = s]
        /\ s = "session" => w \in Checkouts /\ UNCHANGED <<copy, task>>
        /\ s = "idle" => copy' = [copy EXCEPT ![w] = Empty] /\ task' = [task EXCEPT ![w] = NoTask]
        /\ s = "idle" => w \notin Checkouts
  BY <1>1 DEF AfterWrite, Answer, Go
<1>5. \A v \in Writers : /\ copy'[v] \in {copy[v], Empty} /\ (v # w => copy'[v] = copy[v])
                         /\ (s = "idle" /\ v = w => copy'[v] = Empty)
                         /\ task'[v] \in {task[v], NoTask} /\ (v # w => task'[v] = task[v])
                         /\ (s = "session" => task'[v] = task[v])
                         /\ pc'[v] = IF v = w THEN s ELSE pc[v]
  BY <1>4 DEF TypeOK
<1>6. TypeOK'
  <2>1. copy' \in [Writers -> Metadata] /\ task' \in [Writers -> [put : Plans \cup {None}, sold : Plans \cup {None}]]
    BY <1>4, EmptyFacts DEF TypeOK
  <2>3. pc' \in [Writers -> {"idle", "read", "create", "write", "session"}]
    BY <1>4 DEF TypeOK
  <2>4. /\ \A h \in Hooks : pc'[h] # "idle" => task'[h].put \in Plans
        /\ \A c \in Checkouts : pc'[c] # "idle" => task'[c].put \in PaidPlans
    BY <1>1, <1>5 DEF TypeOK, Writers
  <2>5. stale' \subseteq {v \in Writers : pc'[v] \in {"create", "write"}}
    BY <1>1, <1>5
  <2>6. owed' \in Plans \cup {None} /\ planLost' \in BOOLEAN /\ orphan' \in BOOLEAN
    BY <1>1, <1>2 DEF TypeOK
  <2> QED BY <1>1, <1>2, <1>3, <2>1, <2>3, <2>4, <2>5, <2>6 DEF TypeOK
<1>7. AllFresh'
  BY <1>1, <1>5 DEF AllFresh, Fresh
<1>8. TasksAsSold'
  BY <1>5, EmptyFacts DEF TasksAsSold, Writers
<1>9. PlanKept'
  <2> SUFFICES ASSUME ~planLost' PROVE row'.plan = owed'
    BY DEF PlanKept
  <2>1. CASE w \in Hooks
    BY <1>1, <1>3, <2>1 DEF TasksAsSold
  <2>2. CASE w \notin Hooks
    <3>1. ~planLost /\ w \notin stale /\ owed' = owed
      BY <1>1, <2>2
    <3>2. copy[w].plan = row.plan
      BY <1>1, <1>2, <3>1 DEF AllFresh, Fresh, Metadata
    <3> QED BY <1>3, <2>2, <3>1, <3>2 DEF PlanKept
  <2> QED BY <2>1, <2>2
<1>10. ~orphan' => Customers'
  <2> SUFFICES ASSUME ~orphan' PROVE Customers'
    OBVIOUS
  <2>1. Customers
    BY <1>1
  <2>2. row.customer \in {0, row'.customer}
    BY <1>1, <1>2, <1>3 DEF AllFresh, Fresh, Metadata
  <2>3. w \in Checkouts =>
          customers = 1 /\ row.customer = 0 /\ row'.customer = 1 /\ \A c \in Checkouts : pc[c] # "idle" => c = w
    BY <1>1, <1>3, <2>1 DEF Customers
  <2>4. w \notin Checkouts => row'.customer \in {0, row.customer}
    BY <1>3, <2>1 DEF Customers, Writers
  <2>5. \A c \in Checkouts : pc'[c] = IF c = w THEN "session" ELSE pc[c]
    BY <1>4, <1>5 DEF Writers
  <2>6. \A c, d \in Checkouts : pc'[c] # "idle" /\ pc'[d] # "idle" => c = d
    BY <1>1, <2>1, <2>5 DEF Customers
  <2>7. \A v \in Hooks : copy'[v].customer \in {0, row'.customer}
    BY <1>5, <2>1, <2>2, EmptyFacts DEF Customers, Writers
  <2>8. ASSUME NEW c \in Checkouts
        PROVE  /\ pc'[c] = "create"  => customers = 0
               /\ pc'[c] = "write"   => customers = 1 /\ row'.customer = 0 /\ copy'[c].customer = 1
               /\ pc'[c] = "session" => row'.customer = 1
    <3>1. CASE c = w
      BY <2>3, <2>5, <3>1
    <3>2. CASE c # w
      BY <1>5, <2>1, <2>2, <2>3, <2>4, <2>5, <3>2 DEF Customers, Writers
    <3> QED BY <3>1, <3>2
  <2>9. customers <= 1 /\ customers' = customers
    BY <1>1, <2>1 DEF Customers
  <2>10. customers = 1 => row'.customer = 1 \/ \E c \in Checkouts : pc'[c] = "write"
    BY <2>1, <2>2, <2>3, <2>5 DEF Customers
  <2>11. sessions' # {} => row'.customer = 1
    BY <1>1, <2>1, <2>2 DEF Customers
  <2>12. row'.customer <= customers'
    <3>1. row.customer \in Nat /\ customers \in Nat /\ row.customer <= customers
      BY <2>1 DEF Customers, TypeOK, Metadata
    <3> QED BY <2>3, <2>4, <2>9, <3>1
  <2> QED BY <2>6, <2>7, <2>8, <2>9, <2>10, <2>11, <2>12 DEF Customers
<1> QED BY <1>6, <1>7, <1>8, <1>9, <1>10

(***************************************************************************)
(* A client's patch makes every copy stale that is to be written; it says  *)
(* itself whether the plan or the customer are other ones.                 *)
(***************************************************************************)
LEMMA EditIInv ==
  ASSUME IInv, NEW data \in Patches, Edit(data)
  PROVE  IInv'
<1> USE DEF IInv
<1>1. /\ row' = data /\ edits' = edits + 1 /\ edits < MaxEdits
      /\ stale' = {v \in Writers : pc[v] \in {"create", "write"}}
      /\ planLost' = (planLost \/ data.plan # row.plan)
      /\ orphan' = (orphan \/ data.customer # row.customer)
      /\ UNCHANGED <<customers, sessions, pc, copy, task, deliveries, opened, owed>>
  BY DEF Edit, Stripe
<1>2. data \in Metadata
  BY PatchesAssumption
<1>3. TypeOK'
  <2>1. edits' \in 0 .. MaxEdits
    BY <1>1, BoundsAssumption DEF TypeOK
  <2> QED BY <1>1, <1>2, <2>1 DEF TypeOK
<1>4. AllFresh'
  BY <1>1 DEF AllFresh, Fresh
<1>5. TasksAsSold' /\ PlanKept'
  BY <1>1 DEF TasksAsSold, PlanKept, TypeOK
<1>6. ~orphan' => Customers'
  BY <1>1 DEF Customers, TypeOK
<1> QED BY <1>3, <1>4, <1>5, <1>6

-----------------------------------------------------------------------------
LEMMA StutterIInv == IInv /\ UNCHANGED vars => IInv'
  BY DEF IInv, TypeOK, AllFresh, Fresh, TasksAsSold, PlanKept, Customers, vars

LEMMA Invariance == Spec => []IInv
<1>1. ASSUME IInv, Next PROVE IInv'
  <2> USE <1>1
  <2>1. ASSUME NEW h \in Hooks, NEW e \in Events, Deliver(h, e) PROVE IInv'
    BY <2>1, BeginsIInv
  <2>2. ASSUME NEW h \in Hooks, ReadNothing(h) PROVE IInv'
    BY <2>2, ReadNothingIInv
  <2>3. ASSUME NEW c \in Checkouts, NEW p \in PaidPlans, Checkout(c, p) PROVE IInv'
    BY <2>3, BeginsIInv
  <2>4. ASSUME NEW c \in Checkouts, CreateCustomer(c) PROVE IInv'
    BY <2>4, CreateCustomerIInv
  <2>5. ASSUME NEW c \in Checkouts, OpenSession(c) PROVE IInv'
    BY <2>5, LeavesIInv
  <2>6. ASSUME NEW data \in Patches, Edit(data) PROVE IInv'
    BY <2>6, EditIInv
  <2>7. ASSUME NEW w \in Writers, Read(w) PROVE IInv'
    BY <2>7, ReadIInv
  <2>8. ASSUME NEW w \in Writers, Write(w) PROVE IInv'
    BY <2>8, WriteIInv
  <2>9. ASSUME NEW w \in Writers, WriteNothing(w) \/ Fail(w) PROVE IInv'
    BY <2>9, LeavesIInv
  <2> QED BY <2>1, <2>2, <2>3, <2>4, <2>5, <2>6, <2>7, <2>8, <2>9 DEF Next
<1> QED BY <1>1, InitIInv, StutterIInv, PTL DEF Spec

\* Every reachable state has the types.
THEOREM TypeCorrect == Spec => []TypeOK
<1>1. IInv => TypeOK
  BY DEF IInv
<1> QED BY <1>1, Invariance, PTL

\* While no checkouts overlap, no save fails and no stale copy or patch changes
\* a customer, the organization has at most one, saved before any session.
THEOREM CustomerIsOne == Spec => []OneCustomer
<1>1. IInv => OneCustomer
  BY DEF IInv, OneCustomer, Customers
<1> QED BY <1>1, Invariance, PTL

\* The plan in the row is the one sold last, unless its update failed or a
\* stale copy or another plan was written over it.
THEOREM PlanIsAsSold == Spec => []PlanAsSold
<1>1. IInv => PlanAsSold
  BY PricesAgree DEF IInv, PlanAsSold, PlanKept
<1> QED BY <1>1, Invariance, PTL

(***************************************************************************)
(* A write of a copy that is not stale changes one key: only Write changes *)
(* the row, and there the copy is the row but for that key.                *)
(***************************************************************************)
LEMMA StepChangesOneKey ==
  ASSUME IInv, [Next]_vars, NEW w \in Writers,
         pc[w] = "write", pc'[w] # "write", row' # row, w \notin stale
  PROVE  \/ w \in Hooks     /\ row' = [row EXCEPT !.plan = row'.plan]
         \/ w \in Checkouts /\ row' = [row EXCEPT !.customer = row'.customer] /\ row.customer = 0
<1>1. \E v \in Writers : Write(v)
  BY DEF Next, vars, Deliver, ReadNothing, Checkout, CreateCustomer, OpenSession, Edit, Read,
         WriteNothing, Fail, Begin
<1>2. PICK v \in Writers : Write(v)
  BY <1>1
<1>3. v = w
  BY <1>2 DEF Write, AfterWrite, Answer, Go, IInv, TypeOK
<1>4. row' = Changed(w) /\ row \in Metadata /\ Fresh(w)
  BY <1>2, <1>3 DEF Write, IInv, AllFresh, TypeOK
<1>5. CASE w \in Hooks
  <2>1. row' = [row EXCEPT !.plan = task[w].put]
    BY <1>4, <1>5, WritersAssumption DEF Changed, Fresh
  <2> QED BY <1>4, <1>5, <2>1 DEF Metadata
<1>6. CASE w \in Checkouts
  BY <1>4, <1>6, WritersAssumption DEF Changed, Fresh
<1> QED BY <1>5, <1>6 DEF Writers

\* Rewriting the whole column with a copy that is not stale changes one key.
THEOREM KeysAreSetOneAtATime == Spec => OneKeyAtATime
<1>1. IInv /\ [Next]_vars =>
        [\A w \in Writers :
           (pc[w] = "write" /\ pc'[w] # "write" /\ row' # row /\ w \notin stale) =>
              \/ w \in Hooks     /\ row' = [row EXCEPT !.plan = row'.plan]
              \/ w \in Checkouts /\ row' = [row EXCEPT !.customer = row'.customer] /\ row.customer = 0]_vars
  BY StepChangesOneKey
<1> QED BY <1>1, Invariance, PTL DEF Spec, OneKeyAtATime
=============================================================================
