----------------------------- MODULE RequestList -----------------------------
(***************************************************************************)
(* Paging through the requests of an environment                           *)
(* (app/(dashboard)/requests/page.tsx).  A page is cut out of the list,    *)
(* newest first, by the server (requests/route.ts) at the time it is asked *)
(* for, and React Query keeps it under its filter and its number: it is    *)
(* fresh for a minute, and forgotten when it was not on show for five.     *)
(* Meanwhile requests arrive and push the others down.                     *)
(*                                                                         *)
(* Requests are only ever added, so an answer of the server is known by    *)
(* how many there were when it was cut out: its version.  Time is left     *)
(* out: a page turned to may be fresh, old or forgotten.                   *)
(***************************************************************************)
EXTENDS Integers, Sequences, FiniteSets

CONSTANTS PageSize,        \* 50 in the code
          Outcomes,        \* the statuses a request may have
          MaxStored, MaxFetches  \* bounds: requests, and fetches under way

ASSUME ListAssumption == PageSize \in Nat \ {0} /\ MaxStored \in Nat /\ PageSize < MaxStored

VARIABLES statuses,     \* the statuses of the requests, oldest first
          listFilter, listPage,  \* statusFilter and page
          cached,       \* per key, the version of the data React Query has
          fetches,      \* per key, the version there was when a fetch began
          seen, top,    \* history: what was on show since the first page last
                        \* was, and the version of that
          lagging       \* history: a page was turned to one cut out earlier

listvars == <<statuses, listFilter, listPage, cached, fetches, seen, top, lagging>>

NotThere == -1   \* nothing is cached, or under way
PageKeys == ({"all"} \cup Outcomes) \X (0 .. MaxStored \div PageSize)

Listed(f, n)  == {i \in 1 .. n : f \in {"all", statuses[i]}}
\* The rows from offset on, limit many, in descending order.
Cut(k, n) ==
  {i \in Listed(k[1], n) :
     Cardinality({j \in Listed(k[1], n) : j > i}) \div PageSize = k[2]}

ShownKey == <<listFilter, listPage>>
OnShow   == cached[ShownKey]

ListInit ==
  /\ statuses \in [1 .. PageSize + 1 -> Outcomes]
  /\ listFilter = "all" /\ listPage = 0
  /\ cached = [k \in PageKeys |-> NotThere]
  /\ fetches = [cached EXCEPT ![<<"all", 0>>] = Len(statuses)]
  /\ seen = {} /\ top = NotThere /\ lagging = FALSE

\* What the user sees with key k and data of version n.
Look(k, n, lags) ==
  IF k[2] = 0
  THEN /\ seen' = (IF n = NotThere THEN {} ELSE Cut(k, n))
       /\ top' = n /\ lagging' = FALSE
  ELSE /\ seen' = (IF n = NotThere THEN seen ELSE seen \cup Cut(k, n))
       /\ lagging' = (lagging \/ lags) /\ UNCHANGED top

Looking == UNCHANGED <<seen, top, lagging>>
Busy    == Cardinality({k \in PageKeys : fetches[k] # NotThere}) >= MaxFetches

-----------------------------------------------------------------------------
Arrive(o) ==
  /\ Len(statuses) < MaxStored
  /\ statuses' = Append(statuses, o)
  /\ Looking /\ UNCHANGED <<listFilter, listPage, cached, fetches>>

\* The page shows key k from now on: with the data there is or, if it was
\* forgotten, without.  What is not there is fetched, and what is old.
Show(k, lags) ==
  /\ listFilter' = k[1] /\ listPage' = k[2]
  /\ \E n \in {cached[k]} \cup (IF fetches[k] = NotThere THEN {NotThere} ELSE {}) :
       /\ cached' = [cached EXCEPT ![k] = n]
       /\ \/ (n # NotThere \/ fetches[k] # NotThere) /\ UNCHANGED fetches
          \/ fetches[k] = NotThere /\ ~Busy /\ fetches' = [fetches EXCEPT ![k] = Len(statuses)]
       /\ Look(k, n, lags)
  /\ UNCHANGED statuses

\* Whether the filter is there: not while a page is loading for the first
\* time, nor when there are no requests or it failed ("No requests yet").
Listing ==
  /\ OnShow = NotThere => listFilter # "all" /\ fetches[ShownKey] = NotThere
  /\ OnShow # NotThere /\ listFilter = "all" => Cut(ShownKey, OnShow) # {}

\* Mutant: the number of the page is kept.
SetStatusFilterAlone(f) == Listing /\ f # listFilter /\ Show(<<f, listPage>>, FALSE)

SetStatusFilter(f) == Listing /\ f # listFilter /\ Show(<<f, 0>>, FALSE)

TurnNext ==
  /\ OnShow # NotThere
  /\ (listPage + 1) * PageSize < Cardinality(Listed(listFilter, OnShow))
  /\ LET k == <<listFilter, listPage + 1>>
     IN  Show(k, cached[k] \in 0 .. OnShow - 1)

TurnBack ==
  /\ OnShow # NotThere /\ listPage > 0
  /\ PageSize < Cardinality(Listed(listFilter, OnShow))
  /\ Show(<<listFilter, listPage - 1>>, FALSE)

\* A refetch lets one under way go when there is data to show meanwhile.
Refresh ==
  /\ fetches[ShownKey] = NotThere \/ OnShow # NotThere
  /\ fetches[ShownKey] = NotThere => ~Busy
  /\ fetches' = [fetches EXCEPT ![ShownKey] = Len(statuses)]
  /\ Looking /\ UNCHANGED <<statuses, listFilter, listPage, cached>>

-----------------------------------------------------------------------------
\* The answer shows what was stored at some time since the fetch began.
PageFetched(k) ==
  /\ fetches[k] # NotThere
  /\ \E n \in fetches[k] .. Len(statuses) :
       /\ cached' = [cached EXCEPT ![k] = n]
       /\ IF k = ShownKey THEN Look(k, n, FALSE) ELSE Looking
  /\ fetches' = [fetches EXCEPT ![k] = NotThere]
  /\ UNCHANGED <<statuses, listFilter, listPage>>

\* After the last retry.
PageFails(k) ==
  /\ fetches[k] # NotThere
  /\ fetches' = [fetches EXCEPT ![k] = NotThere]
  /\ Looking /\ UNCHANGED <<statuses, listFilter, listPage, cached>>

ListNext ==
  \/ \E o \in Outcomes : Arrive(o)
  \/ \E f \in {"all"} \cup Outcomes : SetStatusFilter(f)
  \/ TurnNext \/ TurnBack \/ Refresh
  \/ \E k \in PageKeys : PageFetched(k) \/ PageFails(k)

ListSpec == ListInit /\ [][ListNext]_listvars

-----------------------------------------------------------------------------
(***************************************************************************)
(* Whoever turns the pages one by one has seen every request of the filter *)
(* that was there when the first page was cut out, down to the last one on *)
(* show, however many arrive meanwhile and whatever is refetched -- unless *)
(* a page was turned to one that had been cut out before the one left.     *)
(* And there is always something on a page that can be turned to.          *)
(***************************************************************************)
NoneSkipped ==
  LET rows == Cut(ShownKey, OnShow) IN
  OnShow # NotThere =>
    /\ listPage > 0 => rows # {}
    /\ ~lagging => \A i \in Listed(listFilter, top) : (\E j \in rows : j <= i) => i \in seen
=============================================================================
