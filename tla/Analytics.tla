----------------------------- MODULE Analytics -----------------------------
(***************************************************************************)
(* What the control plane computes from the requests of an environment     *)
(* (dashboard/route.ts, analytics/route.ts, cache/route.ts), from the      *)
(* evaluations of an organization (evaluations/summary/route.ts) and from  *)
(* the assignments of an A/B test (results/route.ts).                      *)
(*                                                                         *)
(* One behavior is one look at the tables: ReportInit chooses the rows and *)
(* the time, Report answers.  Rows are numbered, and what a select returns *)
(* is a set of their numbers: no more than maxRows of them, which the      *)
(* configuration of the API sets (infra/supabase/config.toml: 1000) and    *)
(* none of these selects asks to exceed.                                   *)
(*                                                                         *)
(* Time is in milliseconds, of which a day has Day, so a row of time t is  *)
(* of day t \div Day.  A row is stamped in microseconds; at is the         *)
(* millisecond it lies in.  Costs and scores are natural numbers; a cost   *)
(* that is missing counts as 0, a missing latency or score is NoValue.     *)
(* Averages of scores, rounded to one digit, are times 10.                 *)
(***************************************************************************)
EXTENDS Integers, Sequences, Functions, FiniteSetsExt

CONSTANTS Tables,        \* requests: sequences of [at, model, route, cost, ms, ok, hit, prompt]
          Hours,         \* the times to look at them
          Opinions,      \* evaluations: sequences of [model, overall]
          Trials,        \* assignments of a test: sequences of [variant, request]
          Variants,      \* how many the test has
          Target,        \* sample_size_target
          Limits,        \* what max_rows may be
          Day, NoValue, NoName

ASSUME FigureAssumption ==
  /\ Hours \subseteq Nat /\ Variants \in Nat /\ Limits \subseteq Nat \ {0}
  /\ {Target, Day} \subseteq Nat \ {0} /\ NoValue \notin Int
  /\ \A s \in Tables \cup Opinions \cup Trials : Len(s) \in Nat /\ DOMAIN s = 1 .. Len(s)
  /\ \A t \in Tables : \A i \in DOMAIN t :
       {t[i].at, t[i].cost} \subseteq Nat /\ t[i].ms \in Nat \cup {NoValue}
  /\ \A o \in Opinions : \A i \in DOMAIN o : o[i].overall \in Nat \cup {NoValue}

VARIABLES table, hour, opinions, trials, maxRows,
          report        \* what the pages answer, and, as history, the rows each of them has read

tablevars == <<table, hour, opinions, trials, maxRows>>
reportvars == <<tablevars, report>>

Top == 5
Nothing == <<>>

Since(t) == {i \in DOMAIN table : table[i].at >= t}

\* A page that compares a stamp with a bound compares texts.  That of a stamp has up to six
\* digits and +00:00, that of a bound three and Z: in the millisecond of the bound it is less.
Past(S, t) == {i \in S : table[i].at > t}

\* What a select may return: any maxRows of its rows when it asks for no order, else the first.
Cuts(S)   == IF Cardinality(S) <= maxRows THEN {S} ELSE kSubset(maxRows, S)
Oldest(S) == {C \in Cuts(S) : \A i \in C, j \in S \ C : table[i].at <= table[j].at}

Reads ==
  LET day == Since(hour - Day)  week == Since(hour - 7 * Day)
  IN  [dashboard : Oldest(week), day : Oldest(day), week : Oldest(week), cache : Cuts(day),
       summary : Cuts(DOMAIN opinions), results : Cuts(DOMAIN trials)]

Total(f, S) == SumFunctionOnSet(f, S)
Cost         == [i \in DOMAIN table |-> table[i].cost]
Spend(S)     == Total(Cost, S)
Successes(S) == Cardinality({i \in S : table[i].ok})

\* Rows grouped by a key: for each the requests and their cost.
GroupBy(S, key) ==
  [k \in {key[i] : i \in S} |->
     LET group == {i \in S : key[i] = k}
     IN  [requests |-> Cardinality(group), cost |-> Spend(group)]]

\* A request without a model or a route is counted under a name of its own.
ModelKey == [i \in DOMAIN table |-> IF table[i].model = NoName THEN "unknown" ELSE table[i].model]
RouteKey == [i \in DOMAIN table |-> IF table[i].route = NoName THEN "unrouted" ELSE table[i].route]
DayKey   == [i \in DOMAIN table |-> table[i].at \div Day]
TimeKey  == [i \in DOMAIN table |-> table[i].at]

\* The names a sort by size, cut to n, may leave.
Largest(size, n) ==
  {T \in SUBSET DOMAIN size :
     /\ Cardinality(T) = Min({Cardinality(DOMAIN size), n})
     /\ \A k \in T, l \in DOMAIN size \ T : size[k] >= size[l]}
Requests(groups)  == [k \in DOMAIN groups |-> groups[k].requests]
GroupCost(groups) == [k \in DOMAIN groups |-> groups[k].cost]

KnownLatencies(S) == {i \in S : table[i].ms # NoValue}

\* Element k, from 1, of the latencies in ascending order.
InOrder(S, k) ==
  CHOOSE v \in {table[i].ms : i \in S} :
    /\ Cardinality({i \in S : table[i].ms < v}) < k
    /\ k <= Cardinality({i \in S : table[i].ms <= v})

\* Mutant: the fraction is cut off.
P95Floor(S) ==
  LET n == Cardinality(S)  IN IF n = 0 THEN 0 ELSE InOrder(S, IF n < 2 THEN 1 ELSE (95 * n) \div 100)

\* Element ceil(0.95 n) of n latencies in order.
P95(S) ==
  LET n == Cardinality(S)  IN IF n = 0 THEN 0 ELSE InOrder(S, (95 * n + 99) \div 100)

\* Seven calendar days up to today; rows of an earlier day have none.
SpendByDay(S) ==
  LET today == hour \div Day
  IN  [d \in today - 6 .. today |-> Spend({i \in S : DayKey[i] = d})]

Dashboard(week) ==
  LET last == Past(week, hour - Day)
      today == Past(week, Day * (hour \div Day))
  IN  {[spend_today |-> Spend(today), spend_7d |-> Spend(week),
        p95_latency |-> P95(KnownLatencies(last)), request_count_24h |-> Cardinality(last),
        successes |-> Successes(last), spend_by_day |-> SpendByDay(week),
        top_models |-> m, top_routes |-> r] :
          m \in Largest(Requests(GroupBy(last, ModelKey)), Top),
          r \in Largest(GroupCost(GroupBy(last, RouteKey)), Top)}

\* The figures of a period, by hour or by day.
Figures(rows, byHour) ==
  [total_cost |-> Spend(rows), total_requests |-> Cardinality(rows), successes |-> Successes(rows),
   by_model |-> GroupBy(rows, ModelKey), by_route |-> GroupBy(rows, RouteKey),
   over_time |-> GroupBy(rows, IF byHour THEN TimeKey ELSE DayKey)]

Scored(S) == {i \in S : opinions[i].overall # NoValue}

\* avg of the scores that are there, rounded to one digit.
Average(S) ==
  LET n == Cardinality(Scored(S))
      sum == Total([i \in Scored(S) |-> opinions[i].overall], Scored(S))
  IN  IF n = 0 THEN 0 ELSE (20 * sum + n) \div (2 * n)

Summary(rows) ==
  LET Own(m) == {i \in rows : opinions[i].model = m}
  IN  [total |-> Cardinality(rows), avg_overall |-> Average(rows),
       by_model |-> [m \in {opinions[i].model : i \in rows} |->
          [count |-> Cardinality(Own(m)), avg |-> Average(Own(m))]]]

\* The cache page, of the last day; the rate is times 10.
CacheFigures(rows) ==
  LET hits == {i \in rows : table[i].hit}
      h == Cardinality(hits)  n == Cardinality(rows)
  IN  [hits |-> h, misses |-> n - h, total_requests |-> n,
       hit_rate |-> IF n = 0 THEN 0 ELSE (2000 * h + n) \div (2 * n), saved_cost |-> Spend(hits),
       unique_prompts |-> Cardinality({table[i].prompt : i \in rows} \ {NoName})]

\* The select of the metrics names a column that is not there, schema_pass,
\* and its error is not looked at: every score is 0, the samples are the
\* assignments that have a request, and the sort leaves the variants in order.
Results(rows) ==
  LET samples == [v \in 0 .. Variants - 1 |->
                    Cardinality({i \in rows : trials[i].variant = v /\ trials[i].request})]
      total == Total(samples, DOMAIN samples)
      scored == {v \in DOMAIN samples : samples[v] >= 10}
      first == Min(scored)
      second == Min(scored \ {first})
      confidence == (101 * Target + 90 * Min({samples[first], samples[second]})) \div (2 * Target)
      decided == Cardinality(scored) >= 2
  IN  [total_samples |-> total, samples |-> samples,
       progress |-> Min({(200 * total + Target) \div (2 * Target), 100}),
       winner |-> IF decided THEN first ELSE NoValue,
       confidence |-> IF decided THEN Min({confidence, 95}) ELSE NoValue]

\* No request is of the future: its time is that of its insert, by a clock no later than the reader's.
ReportInit ==
  /\ table \in Tables /\ hour \in Hours /\ opinions \in Opinions /\ trials \in Trials
  /\ maxRows \in Limits
  /\ \A i \in DOMAIN table : table[i].at <= hour
  /\ report = Nothing

Shown(r, d) ==
  [dashboard |-> d, day |-> Figures(r.day, TRUE), week |-> Figures(r.week, FALSE),
   cache |-> CacheFigures(r.cache), summary |-> Summary(r.summary),
   results |-> Results(r.results), read |-> r]

Report ==
  /\ report = Nothing
  /\ \E r \in Reads : \E d \in Dashboard(r.dashboard) : report' = Shown(r, d)
  /\ UNCHANGED tablevars

RpSpec == ReportInit /\ [][Report]_reportvars

-----------------------------------------------------------------------------
\* A percentile by its definition: the least latency that 95 of 100 do not exceed.
IsP95(v, S) ==
  LET within(x) == Cardinality({i \in S : table[i].ms <= x})
  IN  /\ 100 * within(v) >= 95 * Cardinality(S)
      /\ \A i \in S : table[i].ms < v => 100 * within(table[i].ms) < 95 * Cardinality(S)

GroupsAddUp(groups, f) ==
  /\ Total(Requests(groups), DOMAIN groups) = f.total_requests
  /\ Total(GroupCost(groups), DOMAIN groups) = f.total_cost

Stamped(S, t) == {i \in S : table[i].at = t}

(***************************************************************************)
(* Two pages show figures of the same requests, when no select is cut: but *)
(* the dashboard leaves out those of the first millisecond of its day, and *)
(* what a cut leaves of the week it counts for the day.                    *)
(***************************************************************************)
PagesAgree(d, c) ==
  LET day == Since(hour - Day)
      first == Stamped(day, hour - Day)
  IN  /\ d.request_count_24h <= report.day.total_requests
      /\ c.hits + c.misses = report.day.total_requests
      /\ Cardinality(day) <= maxRows =>
           /\ c.saved_cost <= report.day.total_cost
           /\ c.misses = 0 => c.saved_cost = report.day.total_cost
      /\ Cardinality(Since(hour - 7 * Day)) <= maxRows =>
           /\ d.request_count_24h + Cardinality(first) = report.day.total_requests
           /\ d.successes + Successes(first) = report.day.successes
           /\ d.spend_7d = report.week.total_cost
           /\ d.top_models \subseteq DOMAIN report.day.by_model

\* The groups of a page add up to its totals.
AddUp(f) == GroupsAddUp(f.by_model, f) /\ GroupsAddUp(f.by_route, f) /\ GroupsAddUp(f.over_time, f)

\* Today's bar is what was spent today, its first millisecond included, and the bars leave
\* out what lies before them.
BarsAddUp(d, week) ==
  LET today == hour \div Day
  IN  /\ d.spend_by_day[today] = d.spend_today + Spend(Stamped(week, Day * today))
      /\ d.spend_7d - Total(d.spend_by_day, DOMAIN d.spend_by_day) =
           Spend({i \in week : table[i].at < Day * (today - 6)})

AveragesAgree(s, rows) ==
  LET scored == {opinions[i].model : i \in Scored(rows)}
  IN  /\ scored # {} =>
           /\ \E m \in scored : s.by_model[m].avg <= s.avg_overall
           /\ \E m \in scored : s.by_model[m].avg >= s.avg_overall
      /\ Total([m \in DOMAIN s.by_model |-> s.by_model[m].count], DOMAIN s.by_model) = s.total

WinnerIsDue(t) ==
  LET With(n) == {v \in DOMAIN t.samples : t.samples[v] >= n}
  IN  /\ t.winner # NoValue <=> Cardinality(With(10)) >= 2
      /\ t.winner # NoValue => t.winner \in With(10) /\ t.confidence \in 50 .. 95
      /\ t.confidence = 95 =>
           Cardinality({v \in DOMAIN t.samples : 90 * t.samples[v] >= 89 * Target}) >= 2
      /\ t.total_samples <= Len(trials)

(***************************************************************************)
(* Three pages show figures of the same requests, computed by code of      *)
(* their own from selects of their own.  Of the rows that it has read each *)
(* is right: groups add up to the totals, the percentile is one, today's   *)
(* bar is what was spent today, the bars leave out no more than what lies  *)
(* before the first of them, and an average over all models lies between   *)
(* those of the models that have one.  They agree with each other as far   *)
(* as no select is cut; and where one is, the dashboard never counts more  *)
(* requests than the analytics page.  A test has a winner once two of its  *)
(* variants have ten samples, is sure of it only when two have nearly all  *)
(* the samples it was to collect, and never counts more of them than there *)
(* are assignments.                                                        *)
(***************************************************************************)
FiguresAgree ==
  report # Nothing =>
    LET week == report.read.dashboard
        late == KnownLatencies(Past(week, hour - Day))
    IN  /\ PagesAgree(report.dashboard, report.cache)
        /\ AddUp(report.day) /\ AddUp(report.week)
        /\ BarsAddUp(report.dashboard, week)
        /\ late # {} => IsP95(report.dashboard.p95_latency, late)
        /\ report.cache.unique_prompts <= report.cache.hits + report.cache.misses
        /\ AveragesAgree(report.summary, report.read.summary)
        /\ WinnerIsDue(report.results)
=============================================================================
