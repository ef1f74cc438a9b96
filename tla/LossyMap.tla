------------------------------ MODULE LossyMap ------------------------------
(***************************************************************************)
(* What a cache promises its callers: a map that may lose any value at any *)
(* time, and a lookup that is answered with the value last put under its   *)
(* key or with a miss, never with an older one.  Values are numbered in    *)
(* the order they are put, so no value is ever put twice.                  *)
(***************************************************************************)
EXTENDS Integers

CONSTANTS Keys, Callers

VARIABLES store,    \* key -> the value under it, or Miss
          puts,     \* values put so far
          answer    \* caller -> what its lookup will return, NoCall outside one

Miss   == 0
NoCall == -1

Init ==
  /\ store = [k \in Keys |-> Miss]
  /\ puts = 0
  /\ answer = [c \in Callers |-> NoCall]

\* Any of the keys in K may lose what is under it.
LoseAmong(K) == \A j \in K : store'[j] \in {store[j], Miss}

Put(k) ==
  /\ puts' = puts + 1
  /\ store' \in [Keys -> 0 .. puts']
  /\ store'[k] = puts' /\ LoseAmong(Keys \ {k})
  /\ UNCHANGED answer

Lose ==
  /\ store' \in [Keys -> 0 .. puts]
  /\ LoseAmong(Keys)
  /\ UNCHANGED <<puts, answer>>

Look(c, k) ==
  /\ answer[c] = NoCall
  /\ \E v \in {store[k], Miss} : answer' = [answer EXCEPT ![c] = v]
  /\ UNCHANGED <<store, puts>>

\* The lookup finds it cannot use what it saw; it may drop what is there now.
Forget(c) ==
  /\ answer[c] # NoCall
  /\ answer' = [answer EXCEPT ![c] = Miss]
  /\ UNCHANGED <<store, puts>>

Return(c) ==
  /\ answer[c] # NoCall
  /\ answer' = [answer EXCEPT ![c] = NoCall]
  /\ UNCHANGED <<store, puts>>

Next ==
  \/ \E k \in Keys : Put(k)
  \/ Lose
  \/ \E c \in Callers : (\E k \in Keys : Look(c, k)) \/ Forget(c) \/ Return(c)

Spec == Init /\ [][Next]_<<store, puts, answer>>
=============================================================================
