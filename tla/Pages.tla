-------------------------------- MODULE Pages --------------------------------
(***************************************************************************)
(* The pages of the dashboard and what they keep of the server's answers.  *)
(* A page shows the results of queries, which one QueryClient keeps for    *)
(* all pages (providers/query-provider.tsx: an answer is fresh for a       *)
(* minute), and after a write of its own it invalidates the queries that   *)
(* are to show it.  Each page is a table of queries and of mutations; the  *)
(* rest is how they use the client, that of @tanstack/react-query 5.       *)
(*                                                                         *)
(* Queries do not affect each other, so a behavior follows one of them,    *)
(* and its entries in the cache are told apart by their argument: what the *)
(* page is filtered by, or what is chosen in it.  Of what the server holds *)
(* only the number of the user's writes to the part it reads matters.      *)
(***************************************************************************)
EXTENDS Integers, FiniteSets

CONSTANTS Filters,              \* one of them is "all", that of a page just entered
          Choices,
          Nothing,              \* no choice, no argument
          MaxWrites             \* the writes the user makes

ASSUME PagesAssumption == "all" \in Filters

-----------------------------------------------------------------------------
\* The argument is the "filter" or the "choice".  A query of the "page" has
\* none, nor has one of a "dialog", which is made once something is chosen.
\* A soft one takes a failure for an empty list.
Query(root, part, by)     == [root |-> root, part |-> part, by |-> by, soft |-> FALSE]
SoftQuery(root, part, by) == [root |-> root, part |-> part, by |-> by, soft |-> TRUE]

\* What it writes, which queries it invalidates, and what becomes of the choice.
Mutation(name, parts, roots, choice) ==
  [name |-> name, parts |-> parts, roots |-> roots, choice |-> choice]

AbTestQueries ==
  {Query("ab-tests", "ab_tests", "filter"), SoftQuery("routes-for-ab", "routes", "page"),
   SoftQuery("models-for-ab", "models", "page"), Query("ab-test-results", "ab_test", "choice")}

AbTestMutations ==
  {Mutation("create_test", {"ab_tests"}, {"ab-tests"}, "keep"),
   Mutation("delete_test", {"ab_tests", "ab_test"}, {"ab-tests"}, "drop"),
   Mutation("update_test", {"ab_tests", "ab_test"}, {"ab-tests", "ab-test-results"}, "show")}

IncidentQueries   == {Query("incidents", "incidents", "filter")}
IncidentMutations == {Mutation("update_incident", {"incidents"}, {"incidents"}, "drop")}

EvaluationQueries ==
  {Query("evaluations", "evaluations", "filter"), Query("evaluations-summary", "evaluations", "page")}

\* Mutant: the list is invalidated, its summary is not.
EvaluationMutationsList == {Mutation("evaluate", {"evaluations"}, {"evaluations"}, "keep")}

EvaluationMutations ==
  {Mutation("evaluate", {"evaluations"}, {"evaluations", "evaluations-summary"}, "keep")}

WebhookQueries ==
  {Query("webhooks", "webhooks", "page"), Query("alert-rules", "alert_rules", "page"),
   Query("webhook-deliveries", "deliveries", "choice")}

\* The deliveries of a webhook are deleted with it.
WebhookMutations ==
  {Mutation("create_webhook", {"webhooks"}, {"webhooks"}, "keep"),
   Mutation("delete_webhook", {"webhooks", "deliveries"}, {"webhooks"}, "keep"),
   Mutation("test_webhook", {"deliveries"}, {"webhook-deliveries"}, "keep"),
   Mutation("change_alert_rules", {"alert_rules"}, {"alert-rules"}, "keep")}

\* The key of the second has the number of environments, which changes as they
\* do; the requests it is made of may fail and are then left out, or counted 0.
EnvironmentQueries ==
  {Query("environments", "environments", "page"),
   SoftQuery("environment-route-counts", "environments", "filter")}

\* What is deleted with an environment, if that is the one the pages are about.
OfEnvironment == {"ab_tests", "ab_test", "incidents", "requests", "routes", "rate_limits", "alert_rules"}

EnvironmentMutations ==
  {Mutation("create_environment", {"environments"}, {"environments"}, "keep"),
   Mutation("delete_environment", {"environments"} \cup OfEnvironment, {"environments"}, "drop")}

CloneMutations == {Mutation("clone_environment", {"environments"}, {"environments"}, "keep")}

RateLimitQueries   == {Query("rate-limits", "rate_limits", "page")}
RateLimitMutations == {Mutation("change_limits", {"rate_limits"}, {"rate-limits"}, "keep")}

OverviewQueries   == {Query("dashboard", "requests", "page"), Query("dashboard", "incidents", "page")}
AnalyticsQueries  == {Query("analytics", "requests", "filter")}
CacheQueries      == {Query("cache-stats", "requests", "page")}
RequestQueries    == {Query("requests", "requests", "filter")}
ReplayQueries     == {Query("models", "models", "dialog"), Query("routes", "routes", "dialog")}
BillingQueries    == {Query("billing", "billing", "page")}
PlaygroundQueries == {SoftQuery("models", "models", "page")}

Queries ==
  [ab_tests |-> AbTestQueries, incidents |-> IncidentQueries, evaluations |-> EvaluationQueries,
   webhooks |-> WebhookQueries, environments |-> EnvironmentQueries, rate_limits |-> RateLimitQueries,
   overview |-> OverviewQueries, analytics |-> AnalyticsQueries, cache |-> CacheQueries,
   requests |-> RequestQueries \cup ReplayQueries, billing |-> BillingQueries,
   playground |-> PlaygroundQueries]

Mutations ==
  [ab_tests |-> AbTestMutations, incidents |-> IncidentMutations, evaluations |-> EvaluationMutations,
   webhooks |-> WebhookMutations, environments |-> EnvironmentMutations \cup CloneMutations,
   rate_limits |-> RateLimitMutations]

\* The mutations that do not invalidate a query that reads what they write.
Overlooked ==
  {<<"update_incident", "dashboard">>, <<"delete_test", "ab-test-results">>,
   <<"delete_webhook", "webhook-deliveries">>, <<"create_environment", "environment-route-counts">>,
   <<"clone_environment", "environment-route-counts">>}
  \cup {"delete_environment"} \X
         {"environment-route-counts", "alert-rules", "ab-tests", "ab-test-results", "incidents", "rate-limits",
          "routes", "routes-for-ab", "dashboard", "analytics", "cache-stats", "requests"}

PageNames  == DOMAIN Queries
AllQueries == UNION {Queries[p] : p \in PageNames}
Arguments  == Filters \cup Choices \cup {Nothing}

-----------------------------------------------------------------------------
VARIABLES root, part,   \* the query that is followed and what it reads
          page, filter, choice,
          entry,   \* what the client keeps, by argument
          held,    \* the user's writes to the part read that the server has made
          writes,  \* the mutations under way
          made,
          told     \* history: the writes to it the pages were told have succeeded,
                   \* those overlooked left out

pagevars == <<root, part, page, filter, choice, entry, held, writes, made, told>>

\* data counts the writes its answer shows, NoData before the first one; since
\* counts those made when the request under way began, NoData without one.
NoData      == 0 - 1
Unknown     == [data |-> NoData, failed |-> FALSE, invalid |-> FALSE, since |-> NoData, missed |-> FALSE]
Fetching(k) == k.since # NoData
Begun(k)    == [k EXCEPT !.since = held, !.missed = FALSE]

\* The mutations of page p that concern the query, or what is chosen.
MutationsOf(p) ==
  {m \in IF p \in DOMAIN Mutations THEN Mutations[p] ELSE {} :
     part \in m.parts \/ root \in m.roots \/ m.choice # "keep"}

\* The pages that concern it; the home page is one of the others.
PagesOf ==
  {p \in PageNames : \/ p = "overview"
                     \/ \E q \in Queries[p] : q.root = root
                     \/ \E m \in MutationsOf(p) : part \in m.parts \/ root \in m.roots}

\* The arguments page p shows the query with, with the filter f and the choice c.
Shown(p, f, c) ==
  LET kinds == {q.by : q \in {r \in Queries[p] : r.root = root}}
  IN  {x \in {f} : "filter" \in kinds} \cup {x \in {c} : "choice" \in kinds /\ c # Nothing}
        \cup {x \in {Nothing} : "page" \in kinds \/ ("dialog" \in kinds /\ c # Nothing)}

\* Observers of the entries are made; "old" are more than a minute.
Mounted(entries, args, old) ==
  [x \in Arguments |->
     LET k == entries[x]
     IN  IF x \in args /\ ~Fetching(k) /\ (k.data = NoData \/ k.invalid \/ old) THEN Begun(k) ELSE k]

\* invalidateQueries: all entries are marked and those shown requested anew,
\* except that a first request is not begun again.
Invalidated(args) ==
  [x \in Arguments |->
     LET k == [entry[x] EXCEPT !.invalid = entry[x] # Unknown]
     IN  IF x \in args /\ (k.data # NoData \/ ~Fetching(k)) THEN Begun(k)
         ELSE [k EXCEPT !.missed = @ \/ Fetching(k)]]

PageInit ==
  /\ \E q \in AllQueries : root = q.root /\ part = q.part
  /\ page \in PagesOf /\ filter = "all" /\ choice = Nothing
  /\ held = 0 /\ told = 0
  /\ entry = Mounted([x \in Arguments |-> Unknown], Shown(page, filter, choice), FALSE)
  /\ writes = {} /\ made = 0

-----------------------------------------------------------------------------
\* The user goes to a page, or sets the filter or the choice of this one.
Turn(p, f, c, from) ==
  /\ page' = p /\ filter' = f /\ choice' = c
  /\ \E old \in BOOLEAN : entry' = Mounted(entry, Shown(p, f, c) \ from, old)
  /\ UNCHANGED <<root, part, held, made, told>>

Shows   == Shown(page, filter, choice)
Has(by) == \E q \in Queries[page] : q.by = by

GoTo(p) ==
  /\ p # page
  /\ writes' = {[w EXCEPT !.here = FALSE] : w \in writes}
  /\ Turn(p, "all", Nothing, {})

FilterBy(f) == Has("filter") /\ f # filter /\ UNCHANGED writes /\ Turn(page, f, choice, Shows)

\* Opening, or leaving, the details or the dialog of a row.
Choose(c)   ==
  /\ Has("choice") \/ Has("dialog") \/ \E m \in MutationsOf(page) : m.choice # "keep"
  /\ c # choice /\ UNCHANGED writes /\ Turn(page, filter, c, Shows)

\* The refresh button, an interval, or the window that has the focus again.
RefetchEntry(x) ==
  /\ ~Fetching(entry[x]) \/ entry[x].data # NoData
  /\ entry' = [entry EXCEPT ![x] = Begun(@)]
  /\ UNCHANGED <<root, part, page, filter, choice, held, writes, made, told>>

Arrives(x, k) ==
  /\ Fetching(entry[x])
  /\ entry' = [entry EXCEPT ![x] = k]
  /\ UNCHANGED <<root, part, page, filter, choice, held, writes, made, told>>

\* The answer shows what the server held at some time since the request began.
EntryFetched(x) ==
  \E n \in entry[x].since .. held :
    Arrives(x, [Unknown EXCEPT !.data = n, !.missed = entry[x].missed])

\* The request fails, and fails again.
EntryFails(x) ==
  \E q \in {r \in AllQueries : r.root = root} :
    Arrives(x, IF q.soft THEN [Unknown EXCEPT !.data = 0, !.missed = entry[x].missed]
               ELSE [entry[x] EXCEPT !.failed = TRUE, !.since = NoData])

-----------------------------------------------------------------------------
\* mutate; some are made from the details of what is chosen.
Mutate(m) ==
  /\ made < MaxWrites /\ made' = made + 1
  /\ m.choice = "keep" \/ choice # Nothing
  /\ writes' = writes \cup {[n |-> made + 1, what |-> m, here |-> TRUE, subject |-> choice, done |-> 0]}
  /\ UNCHANGED <<root, part, page, filter, choice, entry, held, told>>

\* The server makes the write, and it is the first, second, ... to the part read.
Commit(w) ==
  /\ w.done = 0
  /\ held' = IF part \in w.what.parts THEN held + 1 ELSE held
  /\ writes' = (writes \ {w}) \cup {[w EXCEPT !.done = held' + 1]}
  /\ UNCHANGED <<root, part, page, filter, choice, entry, made, told>>

\* onSuccess invalidates though the page may have been left; what it sets in
\* the page's state is lost then.
OnSuccess(w) ==
  LET chosen == IF ~w.here \/ w.what.choice = "keep" THEN choice
                ELSE IF w.what.choice = "drop" THEN Nothing ELSE w.subject
  IN  /\ w.done # 0
      /\ entry' = Mounted(IF root \in w.what.roots THEN Invalidated(Shows) ELSE entry,
                          Shown(page, filter, chosen) \ Shows, FALSE)
      /\ choice' = chosen
      /\ told' = IF part \in w.what.parts /\ <<w.what.name, root>> \notin Overlooked /\ w.done - 1 > told
                 THEN w.done - 1 ELSE told
      /\ writes' = writes \ {w}
      /\ UNCHANGED <<root, part, page, filter, held, made>>

\* onError: a message; the write may have been made.
OnFailure(w) ==
  /\ writes' = writes \ {w}
  /\ UNCHANGED <<root, part, page, filter, choice, entry, held, made, told>>

PageNext ==
  \/ \E p \in PagesOf : GoTo(p)
  \/ \E f \in Filters : FilterBy(f)
  \/ \E c \in Choices \cup {Nothing} : Choose(c)
  \/ \E x \in Shows : RefetchEntry(x)
  \/ \E x \in Arguments : EntryFetched(x) \/ EntryFails(x)
  \/ \E m \in MutationsOf(page) : Mutate(m)
  \/ \E w \in writes : Commit(w) \/ OnSuccess(w) \/ OnFailure(w)

PageSpec == PageInit /\ [][PageNext]_pagevars

-----------------------------------------------------------------------------
(***************************************************************************)
(* Once a page has said that a write of the user has succeeded, no page    *)
(* shows data from before it as current: a query that reads what was       *)
(* written is being fetched, has failed, or shows the write, whichever     *)
(* pages, filters and writes came in between.  The exceptions are the      *)
(* writes listed as overlooked -- the counters and the list of incidents   *)
(* of the dashboard, the routes counted per environment, and what goes     *)
(* with a test, a webhook or an environment that is deleted, which may     *)
(* show as before until an answer is a minute old or requested anew -- and *)
(* an answer that was under way when the write succeeded and that the      *)
(* client does not request anew, a first one or one of an entry not shown  *)
(* by then.                                                                *)
(***************************************************************************)
OwnWriteShown ==
  \A x \in Shows :
    LET k == entry[x]
    IN  Fetching(k) \/ k.failed \/ k.data = NoData \/ k.missed \/ k.data >= told
=============================================================================
