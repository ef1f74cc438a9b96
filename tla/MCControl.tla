------------------------------ MODULE MCControl ------------------------------
(***************************************************************************)
(* The control plane: the template editor, the API over the database, what *)
(* is computed from its rows, and what its pages keep in the browser: the  *)
(* session, the theme, the recent pages, the checklist, the pages of the   *)
(* list of requests.                                                       *)
(* They share rows of the database only to read them, so each is checked   *)
(* by itself: "part" is the one that moves in a behavior; the others stay  *)
(* in one initial state.                                                   *)
(*                                                                         *)
(* For the reports up to 41 requests, spread over the last day or over     *)
(* more than a week, of up to seven models, three evaluations, and up to   *)
(* seventy assignments of a test of three variants; with max_rows above    *)
(* all of them, as many as the one that has rows, or one less.             *)
(***************************************************************************)
EXTENDS MCControlPlane, Templates, Analytics, BrowserState, RequestList

VARIABLE part

Symmetry == Permutations(Editors)

\* n requests, "step" units of time apart before the time 40.
Names == <<"a", "b", "c", "d", "e", "f">>

MCTable(n, step, k) ==
  [i \in 1 .. n |->
     [at |-> 40 - step * (n - i), model |-> IF i % k = 0 THEN NoName ELSE Names[i % k],
      route |-> IF i % 3 = 1 THEN NoName ELSE Names[1 + (i % 2)], cost |-> i % 4,
      ms |-> IF i % 5 = 0 THEN NoValue ELSE (7 * i) % 23, ok |-> i % 3 # 0,
      hit |-> i % k # 1, prompt |-> IF i % 4 = 0 THEN NoName ELSE Names[1 + (i % 3)]]]

MCTables == {MCTable(n, 0, k) : n \in {0, 1, 2, 3, 7, 13, 20, 41}, k \in {2, 7}}
              \cup {MCTable(n, step, k) : n \in {7, 8, 13}, step \in {1, 3}, k \in {2, 7}}

MCOpinions ==
  LET One1 == {[model |-> m, overall |-> v] : m \in {"a", "b"}, v \in {2, 5, NoValue}}
  IN  {<<>>} \cup {<<x, [model |-> "a", overall |-> 4], z>> : x, z \in One1}

\* n assignments to k variants in turn, every seventh without a request.
MCTrials ==
  {<<>>} \cup {[i \in 1 .. n |-> [variant |-> i % k, request |-> i % 7 # 0]] :
                 n \in {20, 21, 25, 50, 70}, k \in {1, 2, 3}}

\* One of the tables at a time has rows, as no report reads two; where the selects
\* are cut, as many as they may answer, or one more.
OneTable ==
  LET lengths == <<Len(table), Len(opinions), Len(trials)>>
  IN  /\ \E i \in 1 .. 3 : \A j \in 1 .. 3 \ {i} : lengths[j] = 0
      /\ maxRows < 100 => \E i \in 1 .. 3 : lengths[i] \in {maxRows, maxRows + 1}

partvars == <<vars, cpvars, reportvars, bsvars, listvars, part>>

ControlInit ==
  /\ part \in {"templates", "api", "report", "theme", "recent", "checklist", "session",
             "list"}
  /\ Init
  /\ CPInit /\ (part # "api" => scene = "supplying_admin")
  /\ IF part = "report" THEN ReportInit /\ OneTable
     ELSE /\ table = <<>> /\ hour = 0 /\ opinions = <<>> /\ trials = <<>> /\ maxRows = 100
          /\ report = Nothing
  /\ BsInit /\ (part # "theme" => ~systemDark)
  /\ ListInit /\ statuses = <<"error", "success", "error">>

Browser ==
  \/ part = "theme" /\ ThemeNext /\ UNCHANGED <<recentvars, checkvars, sessionvars>>
  \/ part = "recent" /\ RecentNext /\ UNCHANGED <<themevars, checkvars, sessionvars>>
  \/ part = "checklist" /\ CheckNext /\ UNCHANGED <<themevars, recentvars, sessionvars>>
  \/ part = "session" /\ SessionNext /\ UNCHANGED <<themevars, recentvars, checkvars>>

ControlNext ==
  /\ \/ part = "templates" /\ Next /\ UNCHANGED <<cpvars, reportvars, bsvars, listvars>>
     \/ part = "api" /\ CPNext /\ UNCHANGED <<vars, reportvars, bsvars, listvars>>
     \/ part = "report" /\ Report /\ UNCHANGED <<vars, cpvars, bsvars, listvars>>
     \/ Browser /\ UNCHANGED <<vars, cpvars, reportvars, listvars>>
     \/ part = "list" /\ ListNext /\ UNCHANGED <<vars, cpvars, reportvars, bsvars>>
  /\ UNCHANGED part

ControlSpec == ControlInit /\ [][ControlNext]_partvars
=============================================================================
