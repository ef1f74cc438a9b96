----------------------------- MODULE ControlPlane -----------------------------
(***************************************************************************)
(* The API of the control plane (apps/web/src/app/api/v1) over its         *)
(* database (supabase/migrations).  A handler first reads the membership   *)
(* of its caller (lib/api/auth-guard.ts), and then runs its statements one *)
(* at a time as that user, with no transaction around them: between any    *)
(* two of them other requests run, memberships change, and a statement may *)
(* fail.  The database checks every statement again, against the policies  *)
(* of its table and the membership of that moment.                         *)
(*                                                                         *)
(* A handler is a guard and a plan: its statements in order, with what it  *)
(* does when one finds no row or fails.  Bodies are valid (lib/api/        *)
(* validate.ts refuses the others before any statement after the guard).   *)
(* The columns nothing here depends on are left out.                       *)
(*                                                                         *)
(* The names of this module have a prefix where a specification it is      *)
(* checked beside uses the same one.                                       *)
(***************************************************************************)
EXTENDS Integers, FiniteSets, Sequences

CONSTANTS Users, Nobody,   \* Nobody: a request without a session
          Calls,           \* requests under way at one time, each made once
          Scenes,          \* databases to start from, and what each call may ask
          MayFail,         \* whether statements and calls may fail
          EditedRoles,     \* roles members are given in the database itself
          MaxRoleEdits     \* how often that happens

VARIABLES db,          \* the rows of all tables
          call,        \* per request: see Waiting
          nextId, roleEdits, scene

cpvars == <<db, call, nextId, roleEdits, scene>>

-----------------------------------------------------------------------------
(* Tables: what becomes of a row when one it refers to is deleted.  A      *)
(* reference of "cascade" takes the row along, one of "hold" forbids the   *)
(* delete (the default of SQL, checked when the statement ends), any other *)
(* is set to null.  "refers": what the columns refer to beside the         *)
(* collection a row is in.                                                 *)

organizations == [cascade |-> {}, hold |-> {}, refers |-> {}, unique |-> TRUE]
memberships   == [cascade |-> {"organizations"}, hold |-> {}, refers |-> {}, unique |-> TRUE]
projects      == [cascade |-> {"organizations"}, hold |-> {}, refers |-> {}, unique |-> TRUE]
environments  == [cascade |-> {"projects"}, hold |-> {}, refers |-> {}, unique |-> TRUE]
providers     == [cascade |-> {"organizations"}, hold |-> {}, refers |-> {}, unique |-> TRUE]
models        == [cascade |-> {"providers"}, hold |-> {}, refers |-> {}, unique |-> TRUE]
routes        == [cascade |-> {"environments"}, hold |-> {"models"},
                  refers |-> {"models"}, unique |-> TRUE]
api_keys      == [cascade |-> {"environments"}, hold |-> {},
                  refers |-> {"routes"}, unique |-> FALSE]
requests      == [cascade |-> {"environments"}, hold |-> {"models", "providers"},
                  refers |-> {"routes", "api_keys", "models", "providers"}, unique |-> FALSE]
incidents     == [cascade |-> {"environments"}, hold |-> {},
                  refers |-> {"routes"}, unique |-> FALSE]
audit_log     == [cascade |-> {"organizations"}, hold |-> {}, refers |-> {}, unique |-> FALSE]
webhooks      == [cascade |-> {"organizations"}, hold |-> {}, refers |-> {}, unique |-> FALSE]
webhook_deliveries == [cascade |-> {"webhooks"}, hold |-> {}, refers |-> {}, unique |-> FALSE]
alert_rules   == [cascade |-> {"organizations", "environments"}, hold |-> {"webhooks"},
                  refers |-> {"environments", "webhooks"}, unique |-> FALSE]
ab_tests      == [cascade |-> {"environments", "routes"}, hold |-> {},
                  refers |-> {"routes"}, unique |-> FALSE]
ab_test_assignments == [cascade |-> {"ab_tests"}, hold |-> {"requests"},
                        refers |-> {"requests"}, unique |-> FALSE]
evaluations   == [cascade |-> {"organizations"}, hold |-> {"requests"},
                  refers |-> {"requests"}, unique |-> FALSE]
prompt_templates == [cascade |-> {"organizations"}, hold |-> {}, refers |-> {}, unique |-> TRUE]
prompt_template_versions == [cascade |-> {"prompt_templates"}, hold |-> {},
                             refers |-> {}, unique |-> FALSE]

Schema ==
  [organizations |-> organizations, memberships |-> memberships, projects |-> projects,
   environments |-> environments, providers |-> providers, models |-> models,
   routes |-> routes, api_keys |-> api_keys, requests |-> requests,
   incidents |-> incidents, audit_log |-> audit_log, webhooks |-> webhooks,
   webhook_deliveries |-> webhook_deliveries, alert_rules |-> alert_rules,
   ab_tests |-> ab_tests, ab_test_assignments |-> ab_test_assignments,
   evaluations |-> evaluations, prompt_templates |-> prompt_templates,
   prompt_template_versions |-> prompt_template_versions]

-----------------------------------------------------------------------------
(* Row security: the roles each command of a table is open to.             *)

Owners   == {"owner"}
Admins   == {"owner", "admin"}
Writers == {"owner", "admin", "member"}
Members  == {"owner", "admin", "member", "viewer"}
Anyone   == Members \cup {"none"}

AdminManaged == [select |-> Members, insert |-> Admins, update |-> Admins, delete |-> Admins]
ReadOnly     == [select |-> Members, insert |-> {}, update |-> {}, delete |-> {}]

organizations_policy == [AdminManaged EXCEPT !.insert = Anyone, !.delete = Owners]
projects_policy      == [AdminManaged EXCEPT !.insert = Writers]
models_policy        == [select |-> Anyone, insert |-> Anyone, update |-> Anyone, delete |-> {}]
incidents_policy     == [ReadOnly EXCEPT !.update = Admins]
audit_log_policy     == [ReadOnly EXCEPT !.select = Admins, !.insert = Anyone]
evaluations_policy   == [ReadOnly EXCEPT !.insert = Members]
assignments_policy   == [ReadOnly EXCEPT !.insert = Anyone]
requests_policy      == ReadOnly
deliveries_policy    == ReadOnly

\* Mutant: routes and keys may be written by every member.
managed_policy_open == [AdminManaged EXCEPT !.update = Members]
\* Memberships, environments, providers, routes and API keys.
managed_policy  == AdminManaged
\* Webhooks and alert rules.
webhooks_policy == AdminManaged
ab_tests_policy == AdminManaged
templates_policy == AdminManaged
versions_policy  == AdminManaged

Policy ==
  [organizations |-> organizations_policy, memberships |-> managed_policy,
   projects |-> projects_policy, environments |-> managed_policy,
   providers |-> managed_policy, models |-> models_policy, routes |-> managed_policy,
   api_keys |-> managed_policy, requests |-> requests_policy,
   incidents |-> incidents_policy, audit_log |-> audit_log_policy,
   webhooks |-> webhooks_policy, webhook_deliveries |-> deliveries_policy,
   alert_rules |-> webhooks_policy, ab_tests |-> ab_tests_policy,
   ab_test_assignments |-> assignments_policy, evaluations |-> evaluations_policy,
   prompt_templates |-> templates_policy, prompt_template_versions |-> versions_policy]

-----------------------------------------------------------------------------
(* Statements.  "by" says which columns the filter compares: the row's own *)
(* id with the n-th id of the request, the collection it is in with that   *)
(* of the URL ("home") or with the n-th id ("of"), its name.               *)

Read(cmd, t, by)  == [cmd |-> cmd, table |-> t, by |-> by, n |-> 1, none |-> "ok", fatal |-> TRUE]
List(t, by)       == Read("list", t, by)
One(t, by)        == [Read("one", t, by) EXCEPT !.none = "not_found"]
Ignoring(s)       == [s EXCEPT !.fatal = FALSE]
\* A select for an id that the body need not have.
Optional(s)       == [s EXCEPT !.cmd = "optional"]
\* The check of clone, which takes an error for "there is none".
Unused(t, by)     == Ignoring(Read("unused", t, by))
\* An insert, and one that reads its row back (insert().select()).
Put(t)            == Read("insert", t, {})
Add(t)            == [Put(t) EXCEPT !.by = {"back"}]
\* What was read, or the body, may lack what the handler needs.
Need(t)           == [Read("need", t, {}) EXCEPT !.none = "bad_request"]
Copy(t)           == Read("copy", t, {})
Patch(t, by)      == [Read("update", t, by) EXCEPT !.none = "error"]
PatchNth(t, n)    == [Patch(t, {"id", "home"}) EXCEPT !.n = n]
OrElse(s, answer) == [s EXCEPT !.none = answer]
PatchFound(t, by) == [Patch(t, by) EXCEPT !.none = "not_found"]
Erase(t, by)      == Read("delete", t, by)
\* A call of a provider, of the user directory or of a webhook's URL.
Ask(who)          == Read("ask", who, {})

\* Who may call the handler, and what it does then.
Handler(guard, plan) == [guard |-> guard, plan |-> plan]

OrganizationsRoute ==
  [GET  |-> Handler(Anyone, <<List("organizations", {})>>),
   POST |-> Handler(Anyone, <<Add("organizations")>>)]

OrganizationRoute ==
  [GET    |-> Handler(Members, <<One("organizations", {"id"})>>),
   PATCH  |-> Handler(Admins, <<Patch("organizations", {"id"})>>),
   DELETE |-> Handler(Admins, <<Erase("organizations", {"id"})>>)]

ProjectsRoute ==
  [GET  |-> Handler(Members, <<List("projects", {"home"})>>),
   POST |-> Handler(Writers, <<Add("projects")>>)]

\* The directory of users is read with the service role.
MembersRoute ==
  [GET  |-> Handler(Members, <<List("memberships", {"home"})>>),
   POST |-> Handler(Admins, <<Ask("users"), Add("memberships")>>)]

EnvironmentsRoute ==
  [GET  |-> Handler(Members, <<List("environments", {"home"})>>),
   POST |-> Handler(Admins, <<Add("environments")>>)]

ProvidersRoute ==
  [GET  |-> Handler(Members, <<List("providers", {"home"})>>),
   POST |-> Handler(Admins, <<Add("providers")>>)]

\* A provider is found by its id alone, in whichever organization it is.
ProviderRoute ==
  [GET    |-> Handler(Admins, <<One("providers", {"id"})>>),
   PATCH  |-> Handler(Admins, <<Patch("providers", {"id"})>>),
   DELETE |-> Handler(Admins, <<Erase("providers", {"id"})>>)]

ModelsRoute   == [GET |-> Handler(Members, <<List("models", {})>>)]
DashboardRoute ==
  [GET |-> Handler(Members, <<List("requests", {"home"}), List("incidents", {"home"}),
                              List("incidents", {"home"})>>)]
AnalyticsRoute == [GET |-> Handler(Members, <<List("requests", {"home"})>>)]
SummaryRoute  == [GET |-> Handler(Members, <<List("evaluations", {"home"})>>)]
AuditLogRoute == [GET |-> Handler(Admins, <<List("audit_log", {"home"})>>)]
RequestsRoute == [GET |-> Handler(Members, <<List("requests", {"home"})>>)]
CacheRoute    == [GET |-> Handler(Members, <<List("requests", {"home"})>>)]

WebhooksRoute ==
  [GET  |-> Handler(Members, <<List("webhooks", {"home"})>>),
   POST |-> Handler(Admins, <<Add("webhooks")>>)]

WebhookRoute ==
  [GET    |-> Handler(Members, <<One("webhooks", {"id", "home"})>>),
   PATCH  |-> Handler(Admins, <<PatchFound("webhooks", {"id", "home"})>>),
   DELETE |-> Handler(Admins, <<Erase("webhooks", {"id", "home"})>>)]

DeliveriesRoute ==
  [GET |-> Handler(Members, <<One("webhooks", {"id", "home"}),
                              List("webhook_deliveries", {"of"})>>)]

\* The error of the insert is not looked at.
WebhookTestRoute ==
  [POST |-> Handler(Admins, <<One("webhooks", {"id", "home"}), Ignoring(Ask("webhook")),
                              Ignoring(Put("webhook_deliveries"))>>)]

AlertsRoute ==
  [GET  |-> Handler(Members, <<List("alert_rules", {"home"})>>),
   POST |-> Handler(Admins, <<Add("alert_rules")>>)]

AlertRoute ==
  [GET    |-> Handler(Members, <<One("alert_rules", {"id", "home"})>>),
   PATCH  |-> Handler(Admins, <<PatchFound("alert_rules", {"id", "home"})>>),
   DELETE |-> Handler(Admins, <<Erase("alert_rules", {"id", "home"})>>)]

EvaluationsRoute ==
  [GET  |-> Handler(Members, <<List("evaluations", {"home"})>>),
   POST |-> Handler(Members, <<Add("evaluations")>>)]

RoutesRoute ==
  [GET  |-> Handler(Members, <<List("routes", {"home"})>>),
   POST |-> Handler(Admins, <<Add("routes")>>)]

ApiKeysRoute ==
  [GET  |-> Handler(Admins, <<List("api_keys", {"home"})>>),
   POST |-> Handler(Admins, <<Add("api_keys")>>)]

\* A bulk update: two routes and a key here, each a statement of its own.
RateLimitsRoute ==
  [GET   |-> Handler(Members, <<One("environments", {"env"}), List("routes", {"home"}),
                                List("api_keys", {"home"})>>),
   PATCH |-> Handler(Admins, <<One("environments", {"env"}), PatchNth("routes", 1),
                               PatchNth("routes", 2), PatchNth("api_keys", 3)>>)]

IncidentsRoute == [GET |-> Handler(Members, <<List("incidents", {"home"})>>)]

IncidentRoute ==
  [GET   |-> Handler(Members, <<One("incidents", {"id"})>>),
   PATCH |-> Handler(Admins, <<Patch("incidents", {"id"})>>)]

AbTestsRoute ==
  [GET  |-> Handler(Members, <<List("ab_tests", {"home"})>>),
   POST |-> Handler(Admins, <<Add("ab_tests")>>)]

AbTestRoute ==
  [GET    |-> Handler(Members, <<One("ab_tests", {"id"})>>),
   PATCH  |-> Handler(Admins, <<Patch("ab_tests", {"id"})>>),
   DELETE |-> Handler(Admins, <<Erase("ab_tests", {"id"})>>)]

AbResultsRoute ==
  [GET |-> Handler(Members, <<One("ab_tests", {"id"}), List("ab_test_assignments", {"of"}),
      Ignoring(List("requests", {})), Ignoring(List("ab_test_assignments", {"of"}))>>)]

\* Mutant: the routes are not copied.
CloneShallow ==
  [POST |-> Handler(Admins, <<One("environments", {"id", "home"}),
      Unused("environments", {"home", "name"}), Add("environments")>>)]

CloneRoute ==
  [POST |-> Handler(Admins, <<One("environments", {"id", "home"}),
      Unused("environments", {"home", "name"}), Add("environments"),
      List("routes", {"of"}), Copy("routes")>>)]

Original     == One("requests", {"id", "home"})
ReplayModel  == OrElse(One("models", {"name"}), "bad_request")
\* The call of the provider may fail: that is recorded as well.
SendReplay   == Ignoring(Ask("provider"))
RecordReplay == Add("requests")
ReplayRoute  == [POST |-> Handler(Members, <<Original, ReplayModel, SendReplay, RecordReplay>>)]

RouteAsked  == Optional(OrElse(One("routes", {"id"}), "bad_request"))
\* The provider of the model asked for, or else any the caller may see.
AnyProvider == OrElse(One("providers", {}), "bad_request")
Upstream    == Ask("provider")
PlaygroundRoute == [POST |-> Handler(Anyone, <<RouteAsked, AnyProvider, Upstream>>)]

\* What writes templates is the specification Templates.
TemplatesRoute == [GET |-> Handler(Members, <<List("prompt_templates", {"home"})>>)]
TemplateRoute  == [GET |-> Handler(Members, <<One("prompt_templates", {"id", "home"})>>)]
RenderRoute ==
  [POST |-> Handler(Members, <<One("prompt_templates", {"id", "home"}), Need("variables")>>)]
VersionsRoute ==
  [GET |-> Handler(Members, <<One("prompt_templates", {"id", "home"}),
                              List("prompt_template_versions", {"of"})>>)]

BillingRoute ==
  [GET |-> Handler(Members, <<One("organizations", {"id"}), Ignoring(Ask("stripe"))>>)]
PortalRoute ==
  [POST |-> Handler(Admins, <<One("organizations", {"id"}), Need("customer"), Ask("stripe")>>)]

API ==
  [organizations |-> OrganizationsRoute, organization |-> OrganizationRoute,
   projects |-> ProjectsRoute, members |-> MembersRoute,
   environments |-> EnvironmentsRoute, providers |-> ProvidersRoute,
   provider |-> ProviderRoute, models |-> ModelsRoute, dashboard |-> DashboardRoute,
   analytics |-> AnalyticsRoute, summary |-> SummaryRoute, audit_log |-> AuditLogRoute,
   requests |-> RequestsRoute, cache |-> CacheRoute, webhooks |-> WebhooksRoute,
   webhook |-> WebhookRoute, deliveries |-> DeliveriesRoute, test |-> WebhookTestRoute,
   alerts |-> AlertsRoute, alert |-> AlertRoute, evaluations |-> EvaluationsRoute,
   routes |-> RoutesRoute, api_keys |-> ApiKeysRoute, rate_limits |-> RateLimitsRoute,
   incidents |-> IncidentsRoute, incident |-> IncidentRoute, ab_tests |-> AbTestsRoute,
   ab_test |-> AbTestRoute, results |-> AbResultsRoute, clone |-> CloneRoute,
   replay |-> ReplayRoute, playground |-> PlaygroundRoute,
   templates |-> TemplatesRoute, template |-> TemplateRoute, render |-> RenderRoute,
   versions |-> VersionsRoute, billing |-> BillingRoute, portal |-> PortalRoute]

-----------------------------------------------------------------------------
(* Rows.  home is the collection the row is in, refs the rows it refers to *)
(* (home among them), org the organization row security finds for it.  A   *)
(* membership has its user as name and its role as val.                    *)

\* is_org_member: the role user u has in organization o by now.
RoleIn(u, o) ==
  LET mine == {m \in db : m.table = "memberships" /\ m.org = o /\ m.name = u}
  IN  IF mine = {} THEN "none" ELSE (CHOOSE m \in mine : TRUE).val

May(u, cmd, t, o) == u # Nobody /\ RoleIn(u, o) \in Policy[t][cmd]

Ids == {r.id : r \in db}
TableOf(i) == (CHOOSE r \in db : r.id = i).table

Matches(r, s, q) ==
  /\ r.table = s.table
  /\ "id" \in s.by => r.id = q.ids[s.n]
  /\ "home" \in s.by => r.home = q.home
  /\ "of" \in s.by => r.home = q.ids[s.n]
  /\ "env" \in s.by => r.id = q.home
  /\ "name" \in s.by => r.name = q.name

\* What a statement of the request's user gets to see, or to write.
Found(s, q, cmd) == {r \in db : Matches(r, s, q) /\ May(q.user, cmd, r.table, r.org)}

\* The rows in D and those that cascade from one of them.
Below(D) ==
  D \cup {r \in db : \E d \in D : d.id \in r.refs /\ d.table \in Schema[r.table].cascade}

\* All a delete of D takes along: no table is further than 5 from another.
Gone(D) == Below(Below(Below(Below(Below(D)))))

\* A row that stays holds one of those in G.
Held(G) == \E r \in db \ G, d \in G : d.id \in r.refs /\ d.table \in Schema[r.table].hold

\* The rows that stay forget the ones that go.
Without(G) == {[r EXCEPT !.refs = @ \ {d.id : d \in G}] : r \in db \ G}

\* UNIQUE constraints: within a collection, a name is taken once.
Taken(t, h, nm) ==
  Schema[t].unique /\ \E r \in db : r.table = t /\ r.home = h /\ r.name = nm

\* Mutant: the time of the change is not written.
WithValForgets(r, v) == [r EXCEPT !.val = v]

\* A row after an update: the status of an incident or a test has its time.
WithVal(r, v) ==
  [r EXCEPT !.val = v,
     !.stamps = @ \cup ({v} \cap IF r.table = "incidents" THEN {"acknowledged", "resolved"}
                                 ELSE IF r.table = "ab_tests" THEN {"running", "completed"}
                                 ELSE {})]

-----------------------------------------------------------------------------
(* A request: user, route and method, the collection and the ids of its    *)
(* URL (and body), the name, value and further references of its body.     *)

Waiting(c) == call[c].pc = 0
Plan(c)    == API[call[c].q.route][call[c].q.method].plan
Step(c)    == Plan(c)[call[c].pc]
Running(c) == call[c].pc > 0 /\ call[c].answer = "none"
AtStep(c, cmd) == Running(c) /\ call[c].pc <= Len(Plan(c)) /\ Step(c).cmd = cmd

\* The rows of a database that keeps its constraints, with ids up to n: what
\* they refer to is there, a name is taken once in a collection, each is in
\* the organization of its collection, and every status has its time.
InPlace(r, rows) ==
  IF r.table = "organizations" THEN r.home = 0 /\ r.org = r.id
  ELSE r.home \in r.refs /\ \E p \in rows : p.id = r.home /\ p.org = r.org
                                        /\ p.table \in Schema[r.table].cascade

Timed(r) ==
  r.table \in {"incidents", "ab_tests"} => r.val \in r.stamps \cup {"open", "draft", "paused"}

SoundRows(rows, n) ==
  /\ IsFiniteSet(rows)
  /\ \A r \in rows :
       /\ r = [id |-> r.id, table |-> r.table, org |-> r.org, home |-> r.home, refs |-> r.refs,
               name |-> r.name, val |-> r.val, stamps |-> r.stamps]
       /\ r.id \in 1 .. n /\ r.table \in DOMAIN Schema
       /\ r.refs \subseteq {p.id : p \in rows} /\ InPlace(r, rows) /\ Timed(r)
       /\ \E o \in rows : o.id = r.org /\ o.table = "organizations"
  /\ \A r, s \in rows :
       \/ r.id = s.id
       \/ r.table = s.table /\ r.home = s.home /\ r.name = s.name /\ Schema[r.table].unique
       => r = s

\* A request for a handler there is, with an id for every row it changes.  A
\* body that changes a status has one its schema lets through, and a test is
\* made as a draft.
ValidRequest(q) ==
  /\ q.route \in DOMAIN API /\ q.method \in DOMAIN API[q.route]
  /\ LET plan == API[q.route][q.method].plan IN
       \A i \in 1 .. Len(plan) : plan[i].cmd = "update" => plan[i].n \in DOMAIN q.ids
  /\ q.route = "incident" /\ q.method = "PATCH" => q.val \in {"acknowledged", "resolved"}
  /\ q.route = "ab_tests" /\ q.method = "POST" => q.val = "draft"
  /\ q.route = "ab_test" /\ q.method = "PATCH" => q.val \in {"draft", "running", "paused", "completed"}

\* A column refers to rows of one table, in whichever organization they are.
Fits(r, p) == p.id = r.home \/ p.table \in Schema[r.table].refers

ASSUME SceneAssumption ==
  \A s \in DOMAIN Scenes :
    /\ SoundRows(Scenes[s].rows, Cardinality(Scenes[s].rows))
    /\ \A r, p \in Scenes[s].rows : p.id \in r.refs => Fits(r, p)
    /\ \A c \in Calls : \A q \in Scenes[s].requests[c] : ValidRequest(q)

NoCall == [q |-> <<>>, pc |-> 0, got |-> {}, made |-> {}, seen |-> {}, answer |-> "none"]

CPInit ==
  /\ scene \in DOMAIN Scenes
  /\ db = Scenes[scene].rows
  /\ nextId = Cardinality(db) + 1
  /\ call = [c \in Calls |-> NoCall]
  /\ roleEdits = 0

Answer(c, a)   == call' = [call EXCEPT ![c].answer = a]
Proceed(c)     == call' = [call EXCEPT ![c].pc = @ + 1]

\* History: the names of the routes a clone is asked of.
RoutesAsked(q) == IF q.route = "clone" THEN {r.name : r \in {x \in db : x.home = q.ids[1] /\ x.table = "routes"}}
                  ELSE {}

\* getAuthContext and requireOrgRole: q.org is the organization of the URL.
Guard(c, q) ==
  /\ Waiting(c)
  /\ call' = [call EXCEPT ![c] =
       [NoCall EXCEPT !.q = q, !.pc = 1, !.seen = RoutesAsked(q),
          !.answer = IF q.user = Nobody THEN "unauthorized"
                     ELSE IF RoleIn(q.user, q.org) \notin API[q.route][q.method].guard
                     THEN "forbidden" ELSE "none"]]
  /\ UNCHANGED <<db, nextId, roleEdits, scene>>

\* A clone that is asked for without the routes (clone_routes).
Bare(q) == q.route = "clone" /\ q.val = "bare"

\* Nothing is asked of the database: the body has no id, or wants no routes.
Skipped(c) ==
  \/ Step(c).cmd = "optional" /\ call[c].q.ids = <<>>
  \/ Step(c).cmd \in {"list", "copy"} /\ Bare(call[c].q)
Skip(c) ==
  /\ Running(c) /\ call[c].pc <= Len(Plan(c)) /\ Skipped(c)
  /\ Proceed(c)
  /\ UNCHANGED <<db, nextId, roleEdits, scene>>

\* A select: of one row there must be, of one there must not be, of any.
Select(c) ==
  \E cmd \in {"one", "optional", "list", "unused"} :
    /\ AtStep(c, cmd) /\ ~Skipped(c)
    /\ LET got == Found(Step(c), call[c].q, "select") IN
         IF cmd \in {"one", "optional"} /\ got = {} THEN Answer(c, Step(c).none)
         ELSE IF cmd = "unused" /\ got # {} THEN Answer(c, "bad_request")
         ELSE call' = [call EXCEPT ![c].pc = @ + 1, ![c].got = got]
    /\ UNCHANGED <<db, nextId, roleEdits, scene>>

\* The organization of a new row is that of its collection.
OrgFor(q, t) == IF t = "organizations" THEN nextId
                ELSE (CHOOSE r \in db : r.id = q.home).org

\* Every row is in a collection that is there, of a kind its column refers to.
Placed(t, h) ==
  IF t = "organizations" THEN h = 0
  ELSE \E p \in db : p.id = h /\ p.table \in Schema[t].cascade

\* To read a row back, the user must be allowed to see it before any trigger
\* of the insert has run.
Insertable(q, s) ==
  LET t == s.table IN
  /\ Placed(t, q.home) /\ q.refs \subseteq Ids \cup {0}
  /\ \A i \in q.refs \ {0, q.home} : TableOf(i) \in Schema[t].refers
  /\ May(q.user, "insert", t, OrgFor(q, t))
  /\ "back" \in s.by => May(q.user, "select", t, OrgFor(q, t))
  /\ ~Taken(t, q.home, q.name)

NewRow(i, t, o, h, refs, nm, v) ==
  [id |-> i, table |-> t, org |-> o, home |-> h, refs |-> refs \ {0}, name |-> nm, val |-> v,
   stamps |-> {}]

\* A new organization gets its creator as owner (trg_org_auto_owner).
Owner(q) ==
  NewRow(nextId + 1, "memberships", nextId, nextId, {nextId}, q.user, "owner")

InsertRow(c) ==
  /\ AtStep(c, "insert")
  /\ LET q == call[c].q  t == Step(c).table IN
       IF Insertable(q, Step(c))
       THEN /\ db' = db \cup {NewRow(nextId, t, OrgFor(q, t), q.home, q.refs \cup {q.home}, q.name, q.val)}
                        \cup IF t = "organizations" THEN {Owner(q)} ELSE {}
            /\ nextId' = nextId + IF t = "organizations" THEN 2 ELSE 1
            /\ call' = [call EXCEPT ![c].pc = @ + 1, ![c].made = @ \cup {nextId}]
       ELSE /\ IF Step(c).fatal THEN Answer(c, "error") ELSE Proceed(c)
            /\ UNCHANGED <<db, nextId>>
  /\ UNCHANGED <<roleEdits, scene>>

\* One insert of all the routes read, into the environment just made.  With
\* clone_route_configs their limits go along, else they have none.
CopyRows(c) ==
  /\ AtStep(c, "copy") /\ ~Skipped(c)
  /\ LET q == call[c].q
         e == CHOOSE i \in call[c].made : TRUE
         org == (CHOOSE r \in db : r.id = e).org
         place == CHOOSE f \in [call[c].got -> 0 .. Cardinality(call[c].got) - 1] :
                    \A r, s \in call[c].got : r # s => f[r] # f[s]
         copies == {NewRow(nextId + place[r], "routes", org, e,
                      {e} \cup {i \in r.refs : i # r.home}, r.name,
                      IF q.val = "configs" THEN r.val ELSE "unlimited") : r \in call[c].got}
     IN  IF copies = {} THEN Proceed(c) /\ UNCHANGED <<db, nextId>>
         ELSE IF
            /\ Placed("routes", e)
            /\ \A r \in copies : r.refs \subseteq Ids /\ ~Taken("routes", e, r.name)
            /\ \A r, s \in copies : r.name = s.name => r = s
            /\ May(q.user, "insert", "routes", org)
         THEN /\ db' = db \cup copies
              /\ nextId' = nextId + Cardinality(copies)
              /\ call' = [call EXCEPT ![c].pc = @ + 1, ![c].made = @ \cup {r.id : r \in copies}]
         ELSE Answer(c, "error") /\ UNCHANGED <<db, nextId>>
  /\ UNCHANGED <<roleEdits, scene>>

UpdateRows(c) ==
  /\ AtStep(c, "update")
  /\ LET q == call[c].q  hit == Found(Step(c), q, "update") IN
       IF hit = {} THEN Answer(c, Step(c).none) /\ UNCHANGED db
       ELSE /\ db' = (db \ hit) \cup {WithVal(r, q.val) : r \in hit}
            /\ Proceed(c)
  /\ UNCHANGED <<nextId, roleEdits, scene>>

\* Rows the caller may not delete are passed over without an error.
DeleteRows(c) ==
  /\ AtStep(c, "delete")
  /\ \E G \in {Gone(Found(Step(c), call[c].q, "delete"))} :
       IF Held(G) THEN Answer(c, "error") /\ UNCHANGED db
       ELSE db' = Without(G) /\ Proceed(c)
  /\ UNCHANGED <<nextId, roleEdits, scene>>

Asking(c) ==
  /\ AtStep(c, "ask")
  /\ Proceed(c)
  /\ UNCHANGED <<db, nextId, roleEdits, scene>>

Needing(c) ==
  /\ AtStep(c, "need")
  /\ Proceed(c) \/ Answer(c, Step(c).none)
  /\ UNCHANGED <<db, nextId, roleEdits, scene>>

\* Any statement or call may fail: the database, the network or a provider.
Fail(c) ==
  /\ MayFail /\ Running(c) /\ call[c].pc <= Len(Plan(c)) /\ Step(c).cmd # "need" /\ ~Skipped(c)
  /\ IF Step(c).fatal
     THEN Answer(c, IF Step(c).cmd \in {"one", "optional", "update"} THEN Step(c).none ELSE "error")
     ELSE Proceed(c)
  /\ UNCHANGED <<db, nextId, roleEdits, scene>>

Finish(c) ==
  /\ Running(c) /\ call[c].pc > Len(Plan(c))
  /\ Answer(c, "ok")
  /\ UNCHANGED <<db, nextId, roleEdits, scene>>

\* Memberships change in the database, as no handler changes or ends one.
\* Before and after all requests that only makes another scene.
EditRole ==
  /\ roleEdits < MaxRoleEdits
  /\ \E c \in Calls : Running(c)
  /\ roleEdits' = roleEdits + 1
  /\ \E m \in {r \in db : r.table = "memberships"} :
       \/ \E v \in EditedRoles : db' = (db \ {m}) \cup {[m EXCEPT !.val = v]}
       \/ db' = Without({m})
  /\ UNCHANGED <<call, nextId, scene>>

CPNext ==
  \/ \E c \in Calls :
       \/ \E q \in Scenes[scene].requests[c] : Guard(c, q)
       \/ Skip(c) \/ Select(c) \/ InsertRow(c) \/ CopyRows(c) \/ UpdateRows(c) \/ DeleteRows(c)
       \/ Asking(c) \/ Needing(c) \/ Fail(c) \/ Finish(c)
  \/ EditRole

CPSpec == CPInit /\ [][CPNext]_cpvars

-----------------------------------------------------------------------------
(***************************************************************************)
(* However inserts, deletes and clones interleave: ids are those of one    *)
(* row, every reference leads to a row that is there, a name is taken once *)
(* in its collection, and no status is without the time it was given.      *)
(***************************************************************************)
Consistent ==
  /\ \E I \in {Ids} : \A r \in db :
       /\ r.table \in DOMAIN Schema /\ r.id \in 1 .. nextId - 1
       /\ r.refs \subseteq I /\ r.org \in I /\ r.home \in r.refs \cup {0}
       /\ r.table \in {"incidents", "ab_tests"} =>
            r.val \in r.stamps \cup {"open", "draft", "paused"}
  /\ Cardinality(Ids) = Cardinality(db)
  /\ LET named == {r \in db : Schema[r.table].unique} IN
       Cardinality({<<r.table, r.home, r.name>> : r \in named}) = Cardinality(named)

(***************************************************************************)
(* A metered request keeps its model and provider, and an alert the        *)
(* webhook it calls, for as long as it is there itself: no delete of a     *)
(* provider or a webhook leaves the one without cost basis or the other    *)
(* without address.                                                        *)
(***************************************************************************)
HeldKept ==
  \A r \in db \ db', s \in db' \ db :
    r.id = s.id =>
      \A i \in r.refs :
        <<r.table, TableOf(i)>> \in {<<"alert_rules", "webhooks">>, <<"requests", "models">>,
                                    <<"requests", "providers">>} => i \in s.refs

(***************************************************************************)
(* The rows stay sound: consistent with each other, and what one needs of  *)
(* another is not taken from under it.                                     *)
(***************************************************************************)
RowsSound == [][Consistent' /\ HeldKept]_db

(***************************************************************************)
(* The guard read the caller's role some time ago.  Whatever has become of *)
(* it, a row comes, goes or changes only if its caller may still call the  *)
(* handler, and may do so in the organization the row is in, which need    *)
(* not be the one of the URL; or else it goes, or is made to forget, with  *)
(* a row it refers to, which may be in another organization.               *)
(***************************************************************************)
GuardStillHolds ==
  [][\A c \in Calls :
       call[c] # call'[c] =>
         \A r \in (db \ db') \cup {n \in db' : n.id \notin Ids} :
           \/ RoleIn(call[c].q.user, r.org) \in API[call[c].q.route][call[c].q.method].guard
           \/ r.org \notin Ids
           \/ \E p \in db : p.id \in r.refs /\ p.id \notin Ids']_cpvars

\* The ids requests have given by now.
Named == UNION {{call[c].q.ids[n] : n \in DOMAIN call[c].q.ids} : c \in {d \in Calls : ~Waiting(d)}}

(***************************************************************************)
(* A clone answered with success has, of the routes it made itself, one    *)
(* for every route its source had when the request came, with its limits   *)
(* if those were asked for and no other request has named the copy since;  *)
(* it has none where it was asked for without, or where the caller could   *)
(* not read the routes any more.                                           *)
(***************************************************************************)
CloneWhole ==
  \A c \in Calls :
    (call[c].answer = "ok" /\ call[c].q.route = "clone") =>
        \A e \in call[c].made \cap {r.id : r \in {x \in db : x.table = "environments"}} :
          LET cloned == {r \in db : r.table = "routes" /\ r.home = e /\ r.id \in call[c].made} IN
            IF Bare(call[c].q) THEN cloned = {}
            ELSE \/ call[c].got = {} /\ cloned = {}
                 \/ /\ call[c].seen \subseteq {r.name : r \in cloned}
                    /\ \A r \in call[c].got : \E k \in cloned :
                         k.name = r.name /\ (call[c].q.val = "configs" => k.val = r.val \/ k.id \in Named)

(***************************************************************************)
(* "Record the replay as a new request" (replay/route.ts, 203): once the   *)
(* provider has been asked, the replay is recorded when it is answered.    *)
(***************************************************************************)
ReplayRecorded ==
  \A c \in Calls :
    (call[c].pc > 3 /\ call[c].answer # "none" /\ call[c].q.route = "replay") =>
      call[c].made # {}

(***************************************************************************)
(* "Create a new organization" (README.md, 244): a request to make one     *)
(* that nothing hinders makes it.                                          *)
(***************************************************************************)
OrganizationMade ==
  \A c \in Calls :
    (call[c].q # <<>> /\ call[c].q.route = "organizations" /\ call[c].q.method = "POST") =>
      call[c].answer \in {"none", "ok", "unauthorized"}
=============================================================================
