------------------------------ MODULE Anomaly ------------------------------
(***************************************************************************)
(* The cost window of an environment (internal/anomaly/detector.go).       *)
(* Observe runs under the detector's lock.  The length of a window is that *)
(* of its first observation, and without a baseline, which only            *)
(* SetBaseline gives, nothing is an anomaly.                               *)
(*                                                                         *)
(* Observations are numbered in the order of the lock; the window keeps    *)
(* those from some number on, as eviction takes them from the front.       *)
(* Observe reads the clock three times, here in one unit of time, and      *)
(* evicts before it adds and again before it sums up, here once.           *)
(* MaxClock and MaxObserved bound the clock and the observations.          *)
(***************************************************************************)
EXTENDS Integers, FiniteSets, Functions

CONSTANTS SampleCosts, Multipliers, Durations, Baselines, NoBaseline,
          MaxClock, MaxObserved

ASSUME AnomalyAssumption ==
  /\ SampleCosts \subseteq Nat /\ Multipliers \subseteq Nat /\ Durations \subseteq Nat
  /\ Baselines \subseteq Nat /\ NoBaseline \notin Nat
  /\ MaxClock \in Nat /\ MaxObserved \in Nat

VARIABLES clock,
          duration,        \* SlidingWindow.duration, once there is a window
          first,           \* the first observation the window still has
          observed,        \* how many there were
          time, cost,      \* of each
          baseline,
          total, alarmed   \* what the last Observe returned

anvars == <<clock, duration, first, observed, time, cost, baseline, total, alarmed>>

Observations == 1 .. MaxObserved

AnInit ==
  /\ clock = 0 /\ duration = 0 /\ first = 1 /\ observed = 0
  /\ time = [i \in Observations |-> 0]
  /\ cost = [i \in Observations |-> 0]
  /\ baseline = NoBaseline
  /\ total = 0 /\ alarmed = FALSE

SetBaseline(b) ==
  /\ baseline' = b
  /\ UNCHANGED <<clock, duration, first, observed, time, cost, total, alarmed>>

\* Mutant: an observation as old as the window is evicted as well.
ExpiredEarly(i, cutoff) == time[i] <= cutoff

Expired(i, cutoff) == time[i] < cutoff

\* The sum of the costs f over the observations in S.
Total(f, S) == SumFunctionOnSet(f, S)

\* evict goes on from the front for as long as what it meets has expired.
Observe(c, m, d) ==
  LET n == observed + 1
      length == IF observed = 0 THEN d ELSE duration
  IN /\ n \in Observations
     /\ duration' = length
     /\ \E i \in first .. n :
          /\ first' = i
          /\ \A j \in first .. i - 1 : Expired(j, clock - length)
          /\ i = n \/ ~Expired(i, clock - length)
     /\ observed' = n
     /\ time' = [time EXCEPT ![n] = clock]
     /\ cost' = [cost EXCEPT ![n] = c]
     /\ total' = Total(cost', first' .. n)
     /\ alarmed' = (baseline # NoBaseline /\ baseline > 0 /\ total' > baseline * m)
     /\ UNCHANGED <<clock, baseline>>

AnTick ==
  /\ clock < MaxClock
  /\ clock' = clock + 1
  /\ UNCHANGED <<duration, first, observed, time, cost, baseline, total, alarmed>>

AnNext ==
  \/ \E b \in Baselines : SetBaseline(b)
  \/ \E c \in SampleCosts, m \in Multipliers, d \in Durations : Observe(c, m, d)
  \/ AnTick

AnSpec == AnInit /\ [][AnNext]_anvars

-----------------------------------------------------------------------------
AnTypeOK ==
  /\ clock \in Nat /\ duration \in Nat
  /\ observed \in 0 .. MaxObserved /\ first \in 1 .. observed + 1
  /\ time \in [Observations -> Nat] /\ cost \in [Observations -> Nat]
  /\ baseline \in Baselines \cup {NoBaseline} /\ alarmed \in BOOLEAN

\* Observations of the last stretch of time as long as the window.
Recent == {i \in 1 .. observed' : time'[i] >= clock - duration'}

(***************************************************************************)
(* Eviction stops at the first observation that has not expired and never  *)
(* looks behind it, and what is evicted does not come back: all the same,  *)
(* what Observe judges by is what was spent in the window up to now, not   *)
(* one observation more and not one less.                                  *)
(***************************************************************************)
JudgesRecentSpend ==
  [][observed' # observed => total' = Total(cost', Recent)]_anvars
=============================================================================
