---------------------------- MODULE KillSwitch ----------------------------
(***************************************************************************)
(* The kill switch of an environment (internal/anomaly/killswitch.go).     *)
(* Activate turns it on and records an incident in one transaction, whose  *)
(* UPDATE locks the row of the environment until it ends; it may fail, and *)
(* its caller may go away, anywhere.  Deactivate is an UPDATE of its own.  *)
(* Activators are the calls of Activate under way; MaxIncidents bounds how *)
(* often one succeeds.                                                     *)
(***************************************************************************)
EXTENDS Integers

CONSTANTS Activators, MaxIncidents
ASSUME IncidentsAssumption == MaxIncidents \in Nat

VARIABLES switched,   \* killswitch_active, as committed
          recorded,   \* incidents of the switch, as committed
          tx,         \* per activator: "none", "updated", "inserted"
          cleared     \* history: recorded when the switch was last turned off

ksvars == <<switched, recorded, tx, cleared>>

KsInit ==
  /\ switched = FALSE /\ recorded = 0 /\ cleared = 0
  /\ tx = [a \in Activators |-> "none"]

RowLocked == \E a \in Activators : tx[a] # "none"

\* Mutant: the UPDATE does not go through the transaction.
ActivateUpdateOutside(a) ==
  /\ ~RowLocked
  /\ tx' = [tx EXCEPT ![a] = "updated"]
  /\ switched' = TRUE
  /\ UNCHANGED <<recorded, cleared>>

ActivateUpdate(a) ==
  /\ ~RowLocked
  /\ tx' = [tx EXCEPT ![a] = "updated"]
  /\ UNCHANGED <<switched, recorded, cleared>>

ActivateInsert(a) ==
  /\ tx[a] = "updated" /\ recorded < MaxIncidents
  /\ tx' = [tx EXCEPT ![a] = "inserted"]
  /\ UNCHANGED <<switched, recorded, cleared>>

ActivateCommit(a) ==
  /\ tx[a] = "inserted"
  /\ tx' = [tx EXCEPT ![a] = "none"]
  /\ switched' = TRUE
  /\ recorded' = recorded + 1
  /\ UNCHANGED cleared

Rollback(a) ==
  /\ tx[a] # "none"
  /\ tx' = [tx EXCEPT ![a] = "none"]
  /\ UNCHANGED <<switched, recorded, cleared>>

Deactivate ==
  /\ ~RowLocked
  /\ switched' = FALSE
  /\ cleared' = recorded
  /\ UNCHANGED <<recorded, tx>>

KsNext ==
  \/ \E a \in Activators :
       ActivateUpdate(a) \/ ActivateInsert(a) \/ ActivateCommit(a) \/ Rollback(a)
  \/ Deactivate

KsSpec == KsInit /\ [][KsNext]_ksvars

-----------------------------------------------------------------------------
KsTypeOK ==
  /\ switched \in BOOLEAN /\ recorded \in Nat /\ cleared \in 0 .. recorded
  /\ tx \in [Activators -> {"none", "updated", "inserted"}]

(***************************************************************************)
(* An environment is never shut off without an incident that says why,     *)
(* recorded since it was last turned on again: not by an activation that   *)
(* failed half-way, nor by one that raced another or a deactivation.       *)
(***************************************************************************)
KilledOnRecord == switched => recorded > cleared
=============================================================================
