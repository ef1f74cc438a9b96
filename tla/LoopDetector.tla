---------------------------- MODULE LoopDetector ----------------------------
(***************************************************************************)
(* The gateway's loop detector (internal/loop/detector.go): per prompt of  *)
(* a route, the times it was seen.  CheckPrompt takes its cutoff before it *)
(* waits for the lock and the time it records after; each call brings a    *)
(* window and a limit of its own and prunes the shared times by its own    *)
(* cutoff.                                                                 *)
(*                                                                         *)
(* A recorded time is a call, numbered in the order of the lock; LpMaxNow    *)
(* and MaxCalls bound the clock and the calls.  Calls with a limit of zero *)
(* or less return before they touch anything and are left out, as is       *)
(* CheckToolCalls, a comparison of its arguments.                          *)
(*                                                                         *)
(* The names of this module have a prefix where another specification it   *)
(* is checked beside uses the same one.                                    *)
(***************************************************************************)
EXTENDS Integers, FiniteSets

CONSTANTS Prompts, NoPrompt, Checkers,
          Windows, Maxima,   \* windowSeconds and maxIdentical that callers pass
          Ages,              \* the maxAge that callers of Cleanup pass
          LpMaxNow, MaxCalls

ASSUME ArgumentsAssumption ==
  Windows \subseteq Nat /\ Ages \subseteq Nat /\ Maxima \subseteq Nat \ {0}
ASSUME LpBoundsAssumption == LpMaxNow \in Nat /\ MaxCalls \in Nat

VARIABLES lpNow,
          history,   \* Detector.history: prompt -> calls remembered
          calls,     \* calls recorded so far
          at, of,    \* call -> when it was recorded, and its prompt
          lpPc, arg, cutoff,   \* per caller: "idle" or "waiting", its arguments, its cutoff
          alarm,     \* per caller: what its last call returned
          forgot     \* history: prompt -> the latest cutoff anyone pruned it by

lpvars == <<lpNow, history, calls, at, of, lpPc, arg, cutoff, alarm, forgot>>

LpIds  == 1 .. MaxCalls
Argument == [prompt : Prompts, window : Windows, max : Maxima]
NoCall   == [prompt |-> NoPrompt, window |-> 0, max |-> 0]

LpInit ==
  /\ lpNow = 0 /\ calls = 0
  /\ history = [p \in Prompts |-> {}]
  /\ at = [i \in LpIds |-> 0]
  /\ of = [i \in LpIds |-> NoPrompt]
  /\ lpPc = [c \in Checkers |-> "idle"]
  /\ arg = [c \in Checkers |-> NoCall]
  /\ cutoff = [c \in Checkers |-> 0]
  /\ alarm = [c \in Checkers |-> FALSE]
  /\ forgot = [p \in Prompts |-> -1]

LpCall(c, a) ==
  /\ lpPc[c] = "idle"
  /\ lpPc' = [lpPc EXCEPT ![c] = "waiting"]
  /\ arg' = [arg EXCEPT ![c] = a]
  /\ cutoff' = [cutoff EXCEPT ![c] = lpNow - a.window]
  /\ UNCHANGED <<lpNow, history, calls, at, of, alarm, forgot>>

Later(s, t) == IF s > t THEN s ELSE t

\* Mutant: nothing is evicted.
KeptAll(p, t) == history[p]

\* The calls of prompt p after time t.
Kept(p, t) == {i \in history[p] : at[i] > t}

\* Mutant: the call that is being checked is not counted.
CheckCountsEarlier(c) ==
  LET p == arg[c].prompt
      recent == Kept(p, cutoff[c])
  IN /\ lpPc[c] = "waiting" /\ calls < MaxCalls
     /\ calls' = calls + 1
     /\ at' = [at EXCEPT ![calls + 1] = lpNow]
     /\ of' = [of EXCEPT ![calls + 1] = p]
     /\ history' = [history EXCEPT ![p] = recent \cup {calls + 1}]
     /\ forgot' = [forgot EXCEPT ![p] = Later(@, cutoff[c])]
     /\ alarm' = [alarm EXCEPT ![c] = Cardinality(recent) > arg[c].max]
     /\ lpPc' = [lpPc EXCEPT ![c] = "idle"]
     /\ arg' = [arg EXCEPT ![c] = NoCall]
     /\ cutoff' = [cutoff EXCEPT ![c] = 0]
     /\ UNCHANGED lpNow

\* CheckPrompt under the lock: evict, add this call, compare.
Check(c) ==
  LET p == arg[c].prompt
      recent == Kept(p, cutoff[c]) \cup {calls + 1}
  IN /\ lpPc[c] = "waiting" /\ calls < MaxCalls
     /\ calls' = calls + 1
     /\ at' = [at EXCEPT ![calls + 1] = lpNow]
     /\ of' = [of EXCEPT ![calls + 1] = p]
     /\ history' = [history EXCEPT ![p] = recent]
     /\ forgot' = [forgot EXCEPT ![p] = Later(@, cutoff[c])]
     /\ alarm' = [alarm EXCEPT ![c] = Cardinality(recent) > arg[c].max]
     /\ lpPc' = [lpPc EXCEPT ![c] = "idle"]
     /\ arg' = [arg EXCEPT ![c] = NoCall]
     /\ cutoff' = [cutoff EXCEPT ![c] = 0]
     /\ UNCHANGED lpNow

\* Cleanup takes its cutoff under the lock; prompts with nothing left are deleted.
Cleanup(age) ==
  /\ history' = [p \in Prompts |-> Kept(p, lpNow - age)]
  /\ forgot' = [p \in Prompts |-> Later(forgot[p], lpNow - age)]
  /\ UNCHANGED <<lpNow, calls, at, of, lpPc, arg, cutoff, alarm>>

LpTick ==
  /\ lpNow < LpMaxNow
  /\ lpNow' = lpNow + 1
  /\ UNCHANGED <<history, calls, at, of, lpPc, arg, cutoff, alarm, forgot>>

LpNext ==
  \/ \E c \in Checkers : (\E a \in Argument : LpCall(c, a)) \/ Check(c)
  \/ \E age \in Ages : Cleanup(age)
  \/ LpTick

LpSpec == LpInit /\ [][LpNext]_lpvars

-----------------------------------------------------------------------------
\* Types; a prompt's history holds calls of that prompt only, none of them yet to come.
LpTypeOK ==
  /\ lpNow \in Nat
  /\ calls \in 0 .. MaxCalls
  /\ history \in [Prompts -> SUBSET LpIds]
  /\ at \in [LpIds -> Nat] /\ of \in [LpIds -> Prompts \cup {NoPrompt}]
  /\ lpPc \in [Checkers -> {"idle", "waiting"}]
  /\ arg \in [Checkers -> Argument \cup {NoCall}]
  /\ \A c \in Checkers : lpPc[c] = "waiting" => arg[c] \in Argument
  /\ cutoff \in [Checkers -> Int] /\ forgot \in [Prompts -> Int]
  /\ alarm \in [Checkers -> BOOLEAN]
  /\ \A p \in Prompts : \A i \in history[p] : i <= calls /\ of[i] = p

\* The calls of prompt p ever recorded after time t, and the one of this step.
SeenBy(p, t) == {i \in 1 .. calls' : of'[i] = p /\ (at'[i] > t \/ i = calls')}

(***************************************************************************)
(* A loop is never overlooked: when CheckPrompt finds none, no more than   *)
(* the limit of identical prompts came in its window, counted back from    *)
(* the moment it had the lock, however long it waited and whatever other   *)
(* callers pruned -- unless one with a shorter window, or a Cleanup, had   *)
(* pruned into this window before.                                         *)
(***************************************************************************)
DetectsLoop ==
  [][\A c \in Checkers :
       LET p == arg[c].prompt
           start == lpNow - arg[c].window
       IN (lpPc[c] = "waiting" /\ lpPc'[c] = "idle" /\ ~alarm'[c] /\ forgot[p] <= start) =>
            Cardinality(SeenBy(p, start)) <= arg[c].max]_lpvars

(***************************************************************************)
(* And none is made up: an alarm means that more identical prompts than    *)
(* the limit did come, no longer ago than a window before CheckPrompt was  *)
(* called.                                                                 *)
(***************************************************************************)
NoFalseAlarm ==
  [][\A c \in Checkers :
       (lpPc[c] = "waiting" /\ lpPc'[c] = "idle" /\ alarm'[c]) =>
          Cardinality(SeenBy(arg[c].prompt, cutoff[c])) > arg[c].max]_lpvars
=============================================================================
