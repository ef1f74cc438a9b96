--------------------------- MODULE Authenticator ---------------------------
(***************************************************************************)
(* The gateway's check of an API key (internal/auth/apikey.go): the hash   *)
(* of the token is looked up as a key's hash and, when that finds nothing  *)
(* or fails, as the hash the key had before its last rotation, which is    *)
(* good for a grace period (internal/db/queries.go).  The two lookups are  *)
(* queries of their own, so the row may be rotated or revoked in between.  *)
(*                                                                         *)
(* One row of api_keys and one call of Authenticate at a time: calls only  *)
(* read.  A token stands for its hash.  Nothing in the repository rotates  *)
(* or revokes a key; what does is modelled by the columns it leaves.       *)
(* AuMaxNow bounds the clock, Tokens the rotations.                        *)
(***************************************************************************)
EXTENDS Integers

CONSTANTS Tokens, NoToken, Grace, AuMaxNow

ASSUME TokensAssumption == NoToken \notin Tokens
ASSUME GraceAssumption  == Grace \in Nat /\ AuMaxNow \in Nat

VARIABLES dbNow, key,   \* now() of the database, and the row
          issued,       \* history: tokens the row ever had
          attempt,      \* the call: "none", "first", "second", "granted", "refused"
          token,        \* what it was called with
          hitches,      \* history: a query of this call failed
          judged        \* history: whether the token was valid, at each time of the call

auvars == <<dbNow, key, issued, attempt, token, hitches, judged>>

KeyRow == [hash : Tokens, previous : Tokens \cup {NoToken}, rotated : Nat, active : BOOLEAN]

HasHash(k, t) == k.active /\ k.hash = t

\* FindByPreviousHash at time n.
HadHash(k, n, t) == k.active /\ k.previous = t /\ k.rotated + Grace > n

Valid(k, n, t) == t # NoToken /\ (HasHash(k, t) \/ HadHash(k, n, t))

AuInit ==
  /\ dbNow = 0
  /\ \E t \in Tokens :
       /\ key = [hash |-> t, previous |-> NoToken, rotated |-> 0, active |-> TRUE]
       /\ issued = {t}
  /\ attempt = "none" /\ token = NoToken /\ hitches = FALSE /\ judged = {}

Asking == attempt \in {"first", "second"}

\* What the call has seen of its token, with the row and the clock as they are next.
Judge == judged' = IF Asking THEN judged \cup {Valid(key', dbNow', token)} ELSE judged

\* A header without a token is refused at once.
Authenticate(t) ==
  /\ attempt \notin {"first", "second"}
  /\ token' = t /\ hitches' = FALSE
  /\ attempt' = IF t = NoToken THEN "refused" ELSE "first"
  /\ judged' = {Valid(key, dbNow, t)}
  /\ UNCHANGED <<dbNow, key, issued>>

\* Mutant: the lookups in the other order.
FindsSwapped(lookup) ==
  IF lookup = "second" THEN HasHash(key, token) ELSE HadHash(key, dbNow, token)

\* What the two lookups find.
Finds(lookup) ==
  IF lookup = "first" THEN HasHash(key, token) ELSE HadHash(key, dbNow, token)

FindByHash ==
  /\ attempt = "first"
  /\ attempt' = IF Finds("first") THEN "granted" ELSE "second"
  /\ UNCHANGED <<dbNow, key, issued, token, hitches, judged>>

FindByPreviousHash ==
  /\ attempt = "second"
  /\ attempt' = IF Finds("second") THEN "granted" ELSE "refused"
  /\ UNCHANGED <<dbNow, key, issued, token, hitches, judged>>

\* A query that fails is taken for one that finds nothing.
QueryFails ==
  /\ Asking
  /\ attempt' = IF attempt = "first" THEN "second" ELSE "refused"
  /\ hitches' = TRUE
  /\ UNCHANGED <<dbNow, key, issued, token, judged>>

-----------------------------------------------------------------------------
\* The key gets a new hash; it keeps its last one.
Rotate(t) ==
  /\ t \notin issued
  /\ key' = [key EXCEPT !.hash = t, !.previous = key.hash, !.rotated = dbNow]
  /\ issued' = issued \cup {t}
  /\ UNCHANGED <<dbNow, attempt, token, hitches>>
  /\ Judge

Revoke ==
  /\ key.active
  /\ key' = [key EXCEPT !.active = FALSE]
  /\ UNCHANGED <<dbNow, issued, attempt, token, hitches>>
  /\ Judge

ClockTick ==
  /\ dbNow < AuMaxNow
  /\ dbNow' = dbNow + 1
  /\ UNCHANGED <<key, issued, attempt, token, hitches>>
  /\ Judge

AuNext ==
  \/ \E t \in Tokens \cup {NoToken} : Authenticate(t)
  \/ FindByHash \/ FindByPreviousHash \/ QueryFails
  \/ \E t \in Tokens : Rotate(t)
  \/ Revoke \/ ClockTick

AuSpec == AuInit /\ [][AuNext]_auvars

-----------------------------------------------------------------------------
AuTypeOK ==
  /\ dbNow \in Nat /\ key \in KeyRow /\ issued \subseteq Tokens
  /\ attempt \in {"none", "first", "second", "granted", "refused"}
  /\ token \in Tokens \cup {NoToken}
  /\ hitches \in BOOLEAN /\ judged \subseteq BOOLEAN

(***************************************************************************)
(* The answer of a call whose queries worked is true of some moment of the *)
(* call: a token that was good all the while is not refused because the    *)
(* key is rotated between the lookups, and one that never was is not       *)
(* granted.                                                                *)
(***************************************************************************)
AnswerTrue ==
  /\ attempt = "granted" => TRUE \in judged
  /\ attempt = "refused" /\ ~hitches => FALSE \in judged
=============================================================================
