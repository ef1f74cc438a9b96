--------------------------- MODULE MCControlPlane ---------------------------
(* Scenes.  In each an organization of "ann" has a few rows and "bob" some  *)
(* role in it.  Ann makes a request that writes; so does bob as an admin,   *)
(* and one that reads as a member.  In "sharing" bob has an organization of *)
(* his own, and rows of ann's refer to some of it.                          *)
EXTENDS ControlPlane, TLC

RowIn(o, i, t, h, refs, nm, v) ==
  [id |-> i, table |-> t, org |-> o, home |-> h, refs |-> refs \cup ({h} \ {0}), name |-> nm, val |-> v,
   stamps |-> {}]
Row0(i, t, h, refs, nm, v) == RowIn(1, i, t, h, refs, nm, v)

Base(role) ==
  {Row0(1, "organizations", 0, {}, "acme", "v"),
   Row0(2, "memberships", 1, {}, "ann", "owner"),
   Row0(3, "memberships", 1, {}, "bob", role)}

QIn(o, u, rt, m, h, ids, refs, nm, v) ==
  [user |-> u, route |-> rt, method |-> m, org |-> o, home |-> h, ids |-> ids,
   refs |-> refs, name |-> nm, val |-> v]
Q(u, rt, m, h, ids, refs, nm, v) == QIn(1, u, rt, m, h, ids, refs, nm, v)

\* What both may ask for.
Both(rt, ms, h, ids, refs, nm, v) ==
  {Q(u, rt, m, h, ids, refs, nm, v) : u \in {"ann", "bob"}, m \in ms}

ByCall(role, Qs) ==
  LET writes == {q \in Qs : q.method # "GET"} IN
  [c1 |-> {q \in writes : q.user = "ann"},
   c2 |-> {q \in IF role = "admin" THEN writes ELSE Qs \ writes : q.user # "ann"}]

Alerting(role) ==
  [rows |-> Base(role) \cup
     {Row0(4, "webhooks", 1, {}, "w", "v"),
      Row0(5, "alert_rules", 1, {4}, "a", "v"),
      Row0(6, "prompt_templates", 1, {}, "t", "v"),
      Row0(7, "prompt_template_versions", 6, {}, "", "v")},
   requests |-> ByCall(role,
     Both("templates", {"GET"}, 1, <<>>, {}, "", "") \cup
     {Q("bob", "template", "GET", 1, <<6>>, {}, "", ""),
      Q("bob", "versions", "GET", 1, <<6>>, {}, "", ""),
      Q("bob", "billing", "GET", 1, <<1>>, {}, "", ""),
      Q("ann", "render", "POST", 1, <<6>>, {}, "", ""),
      Q("ann", "portal", "POST", 1, <<1>>, {}, "", "")} \cup
     Both("webhooks", {"GET", "POST"}, 1, <<>>, {}, "w2", "v") \cup
     Both("webhook", {"GET", "PATCH", "DELETE"}, 1, <<4>>, {}, "", "x") \cup
     Both("deliveries", {"GET"}, 1, <<4>>, {}, "", "") \cup
     Both("test", {"POST"}, 1, <<4>>, {4}, "", "") \cup
     Both("alerts", {"GET", "POST"}, 1, <<>>, {4}, "a2", "v") \cup
     Both("alert", {"GET", "PATCH", "DELETE"}, 1, <<5>>, {}, "", "x"))]

Supplying(role) ==
  [rows |-> Base(role) \cup
     {Row0(4, "providers", 1, {}, "p", "active"), Row0(5, "models", 4, {}, "m", "v"),
      Row0(6, "projects", 1, {}, "p", "v"), Row0(7, "environments", 6, {}, "e", "v"),
      Row0(8, "requests", 7, {4, 5}, "r", "v"), Row0(9, "routes", 7, {}, "r1", "10")},
   requests |-> ByCall(role,
     Both("organizations", {"GET", "POST"}, 0, <<>>, {}, "other", "v") \cup
     Both("organization", {"GET", "PATCH", "DELETE"}, 0, <<1>>, {}, "", "x") \cup
     Both("members", {"GET", "POST"}, 1, <<>>, {}, "cat", "viewer") \cup
     Both("providers", {"GET", "POST"}, 1, <<>>, {}, "q", "v") \cup
     Both("provider", {"GET", "PATCH", "DELETE"}, 1, <<4>>, {}, "", "down") \cup
     Both("models", {"GET"}, 1, <<>>, {}, "", "") \cup
     Both("audit_log", {"GET"}, 1, <<>>, {}, "", "") \cup
     Both("summary", {"GET"}, 1, <<>>, {}, "", "") \cup
     Both("evaluations", {"GET", "POST"}, 1, <<>>, {8}, "", "v") \cup
     Both("replay", {"POST"}, 7, <<8>>, {4, 5}, "m", "v") \cup
     Both("playground", {"POST"}, 0, <<>>, {}, "m", "") \cup
     Both("playground", {"POST"}, 0, <<9>>, {}, "m", "") \cup
     {Q(Nobody, "models", "GET", 1, <<>>, {}, "", "")})]

Operating(role) ==
  [rows |-> Base(role) \cup
     {Row0(4, "projects", 1, {}, "p", "v"), Row0(5, "environments", 4, {}, "e", "v"),
      Row0(6, "routes", 5, {}, "r1", "10"), Row0(7, "routes", 5, {}, "r2", "20"),
      Row0(8, "api_keys", 5, {6}, "k", "10"), Row0(9, "incidents", 5, {6}, "i", "open"),
      Row0(10, "ab_tests", 5, {6}, "t", "draft")},
   requests |-> ByCall(role,
     Both("projects", {"GET", "POST"}, 1, <<>>, {}, "p2", "v") \cup
     Both("environments", {"GET", "POST"}, 4, <<>>, {}, "e2", "v") \cup
     Both("clone", {"POST"}, 4, <<5>>, {}, "e2", "configs") \cup
     {Q("ann", "clone", "POST", 4, <<5>>, {}, "e2", "plain"),
      Q("ann", "clone", "POST", 4, <<5>>, {}, "e2", "bare"),
      Q("bob", "routes", "POST", 11, <<>>, {}, "r2", "5"),
      Q("bob", "rate_limits", "PATCH", 11, <<12, 13, 8>>, {}, "", "1"),
      Q("bob", "incidents", "GET", 5, <<>>, {}, "", ""),
      Q("bob", "requests", "GET", 5, <<>>, {}, "", ""),
      Q("bob", "cache", "GET", 5, <<>>, {}, "", ""),
      Q("bob", "dashboard", "GET", 5, <<>>, {}, "", ""),
      Q("bob", "analytics", "GET", 5, <<>>, {}, "", "")} \cup
     Both("routes", {"GET", "POST"}, 5, <<>>, {}, "r3", "5") \cup
     Both("api_keys", {"GET", "POST"}, 5, <<>>, {7}, "k2", "5") \cup
     Both("rate_limits", {"GET", "PATCH"}, 5, <<6, 7, 8>>, {}, "", "1") \cup
     Both("incident", {"GET"}, 5, <<9>>, {}, "", "") \cup
     Both("incident", {"PATCH"}, 5, <<9>>, {}, "", "acknowledged") \cup
     Both("incident", {"PATCH"}, 5, <<9>>, {}, "", "resolved") \cup
     Both("ab_tests", {"GET", "POST"}, 5, <<>>, {6}, "t2", "draft") \cup
     Both("ab_test", {"GET", "DELETE"}, 5, <<10>>, {}, "", "") \cup
     Both("ab_test", {"PATCH"}, 5, <<10>>, {}, "", "running") \cup
     Both("ab_test", {"PATCH"}, 5, <<10>>, {}, "", "completed") \cup
     Both("results", {"GET"}, 5, <<10>>, {}, "", ""))]

\* What of ann's refers to what of bob's: an alert to a webhook (7), which is
\* held, an alert to an environment (10) and a test to a route (15), which go.
Sharing ==
  [rows |-> Base("admin") \cup
     {RowIn(4, 4, "organizations", 0, {}, "bobs", "v"),
      RowIn(4, 5, "memberships", 4, {}, "bob", "owner"),
      RowIn(4, 6, "webhooks", 4, {}, "w", "v"), Row0(7, "alert_rules", 1, {6}, "a", "v"),
      RowIn(4, 8, "projects", 4, {}, "p", "v"), RowIn(4, 9, "environments", 8, {}, "e", "v"),
      Row0(10, "alert_rules", 1, {9}, "b", "v"), RowIn(4, 11, "providers", 4, {}, "p", "v"),
      RowIn(4, 12, "routes", 9, {}, "r", "10"), Row0(13, "projects", 1, {}, "p", "v"),
      Row0(14, "environments", 13, {}, "e", "v"), Row0(15, "ab_tests", 14, {12}, "t", "draft"),
      Row0(16, "api_keys", 14, {12}, "k", "10")},
   requests |-> ByCall("admin",
     {Q("ann", "alert", "DELETE", 1, <<7>>, {}, "", ""),
      Q("ann", "alerts", "POST", 1, <<>>, {6}, "c", "v"),
      Q("ann", "alerts", "POST", 1, <<>>, {9}, "c", "v"),
      Q("ann", "ab_tests", "POST", 14, <<>>, {12}, "u", "draft"),
      Q("ann", "ab_test", "PATCH", 14, <<15>>, {}, "", "running"),
      Q("ann", "webhook", "DELETE", 1, <<6>>, {}, "", ""),
      QIn(4, "bob", "organization", "DELETE", 0, <<4>>, {}, "", ""),
      QIn(4, "bob", "webhook", "DELETE", 4, <<6>>, {}, "", ""),
      QIn(4, "bob", "webhook", "PATCH", 4, <<6>>, {}, "", "x"),
      QIn(4, "bob", "ab_test", "DELETE", 9, <<15>>, {}, "", ""),
      QIn(4, "bob", "incident", "PATCH", 9, <<7>>, {}, "", "resolved")} \cup
     Both("provider", {"GET", "PATCH", "DELETE"}, 4, <<11>>, {}, "", "down"))]

AllScenes ==
  [alerting_admin  |-> Alerting("admin"),  alerting_member  |-> Alerting("member"),
   supplying_admin |-> Supplying("admin"), supplying_member |-> Supplying("member"),
   operating_admin |-> Operating("admin"), operating_member |-> Operating("member"),
   sharing |-> Sharing]

\* A name of its own, so that TLC computes the scenes once.
MCScenes == AllScenes

=============================================================================
