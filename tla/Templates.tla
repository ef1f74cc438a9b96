----------------------------- MODULE Templates -----------------------------
(***************************************************************************)
(* A prompt template of the control plane and its version history          *)
(* (api/v1/organizations/[orgId]/templates/route.ts and                    *)
(* templates/[templateId]/route.ts).  A request is several statements of   *)
(* the database with no transaction around them, so requests interleave    *)
(* between any two.  The errors of inserts into prompt_template_versions   *)
(* are ignored by the code.                                                *)
(*                                                                         *)
(* Texts and lists of variables are opaque values.  The fields a template  *)
(* has besides (name, tags, ...) take no part in versions and are left     *)
(* out.  MaxEdits bounds the number of PATCH requests.                     *)
(***************************************************************************)
EXTENDS Integers, FiniteSets

CONSTANTS Editors,     \* requests under way at one time
          Contents, Variables,
          Absent,      \* a field the body does not have
          NoRow, MaxEdits

ASSUME ValuesAssumption == Absent \notin Contents \cup Variables
ASSUME RowAssumption    == NoRow \notin [content : Contents, variables : Variables, version : Nat]
ASSUME BoundsAssumption == MaxEdits \in Nat

VARIABLES row,         \* the row of prompt_templates, or NoRow
          deleted,
          history,     \* rows of prompt_template_versions
          pc, body, current,   \* per request: where it is, its body, the row it read
          edits,
          missed,      \* history: snapshots whose insert failed
          overlap,     \* history: two requests were under way at one time
          halfway,     \* history: a request failed after it had inserted a snapshot
          partial      \* history: a body had one of the two fields only

vars == <<row, deleted, history, pc, body, current, edits,
          missed, overlap, halfway, partial>>

Row  == [content : Contents, variables : Variables, version : Nat]
Body == [content : Contents \cup {Absent}, variables : Variables \cup {Absent}]

Blank == [content |-> Absent, variables |-> Absent]
Alone(e) == \A f \in Editors \ {e} : pc[f] = "idle"

Init ==
  /\ row = NoRow /\ deleted = FALSE /\ history = {}
  /\ pc = [e \in Editors |-> "idle"]
  /\ body = [e \in Editors |-> Blank]
  /\ current = [e \in Editors |-> NoRow]
  /\ edits = 0
  /\ missed = {} /\ overlap = FALSE /\ halfway = FALSE /\ partial = FALSE

\* POST inserts the template; its slug is taken from then on.
Insert(e, c, v) ==
  /\ pc[e] = "idle" /\ row = NoRow /\ ~deleted
  /\ row' = [content |-> c, variables |-> v, version |-> 1]
  /\ current' = [current EXCEPT ![e] = row']
  /\ pc' = [pc EXCEPT ![e] = "initial"]
  /\ UNCHANGED <<deleted, history, body, edits, missed, overlap, halfway, partial>>

\* An insert of snapshot s: it may fail, and must once the template is gone.
Snapshot(s) ==
  \/ /\ row # NoRow
     /\ history' = history \cup {s}
     /\ UNCHANGED missed
  \/ /\ missed' = missed \cup {s}
     /\ UNCHANGED history

\* POST inserts the initial version.
InsertInitial(e) ==
  /\ pc[e] = "initial"
  /\ Snapshot(current[e])
  /\ pc' = [pc EXCEPT ![e] = "idle"]
  /\ current' = [current EXCEPT ![e] = NoRow]
  /\ UNCHANGED <<row, deleted, body, edits, overlap, halfway, partial>>

Given(new, old) == IF new = Absent THEN old ELSE new

\* Mutant: only the text counts as a change.
ChangedContent(b, cur) == Given(b.content, cur.content) # cur.content

Changed(b, cur) ==
  \/ Given(b.content, cur.content) # cur.content
  \/ Given(b.variables, cur.variables) # cur.variables

\* PATCH fetches the template (not found once deleted) and compares.
Fetch(e, b) ==
  /\ pc[e] = "idle" /\ row # NoRow /\ edits < MaxEdits
  /\ edits' = edits + 1
  /\ body' = [body EXCEPT ![e] = b]
  /\ current' = [current EXCEPT ![e] = row]
  /\ pc' = [pc EXCEPT ![e] = IF Changed(b, row) THEN "snapshot" ELSE "update"]
  /\ overlap' = (overlap \/ ~Alone(e))
  /\ partial' = (partial \/ (b.content = Absent) # (b.variables = Absent))
  /\ UNCHANGED <<row, deleted, history, missed, halfway>>

\* Mutant: the snapshot is of what the edit replaces.
NewVersionOld(b, cur) ==
  [content |-> cur.content, variables |-> cur.variables, version |-> cur.version + 1]

NewVersion(b, cur) ==
  [content   |-> Given(b.content, cur.content),
   variables |-> Given(b.variables, cur.variables),
   version   |-> cur.version + 1]

InsertVersion(e) ==
  /\ pc[e] = "snapshot"
  /\ Snapshot(NewVersion(body[e], current[e]))
  /\ pc' = [pc EXCEPT ![e] = "update"]
  /\ UNCHANGED <<row, deleted, body, current, edits, overlap, halfway, partial>>

\* Mutant: the new version goes to the history only.
MergedKeepsVersion(b, cur) ==
  [content   |-> Given(b.content, row.content),
   variables |-> Given(b.variables, row.variables),
   version   |-> row.version]

\* What the update makes of the row as it is by now.
Merged(b, cur) ==
  [content   |-> Given(b.content, row.content),
   variables |-> Given(b.variables, row.variables),
   version   |-> IF Changed(b, cur) THEN cur.version + 1 ELSE row.version]

\* PATCH updates the row, or fails, as it must when the row is gone.
Update(e) ==
  /\ pc[e] = "update"
  /\ \/ /\ row # NoRow
        /\ row' = Merged(body[e], current[e])
        /\ UNCHANGED halfway
     \/ /\ halfway' = (halfway \/ Changed(body[e], current[e]))
        /\ UNCHANGED row
  /\ pc' = [pc EXCEPT ![e] = "idle"]
  /\ body' = [body EXCEPT ![e] = Blank]
  /\ current' = [current EXCEPT ![e] = NoRow]
  /\ UNCHANGED <<deleted, history, edits, missed, overlap, partial>>

\* DELETE takes the history with it (ON DELETE CASCADE).
Delete ==
  /\ row # NoRow
  /\ row' = NoRow /\ deleted' = TRUE /\ history' = {}
  /\ UNCHANGED <<pc, body, current, edits, missed, overlap, halfway, partial>>

Next ==
  \/ \E e \in Editors :
       \/ \E c \in Contents, v \in Variables : Insert(e, c, v)
       \/ InsertInitial(e)
       \/ \E b \in Body : Fetch(e, b)
       \/ InsertVersion(e)
       \/ Update(e)
  \/ Delete

Spec == Init /\ [][Next]_vars

-----------------------------------------------------------------------------
TypeOK ==
  /\ row \in Row \cup {NoRow}
  /\ deleted \in BOOLEAN
  /\ history \subseteq Row /\ missed \subseteq Row
  /\ pc \in [Editors -> {"idle", "initial", "snapshot", "update"}]
  /\ body \in [Editors -> Body]
  /\ current \in [Editors -> Row \cup {NoRow}]
  /\ edits \in 0 .. MaxEdits
  /\ overlap \in BOOLEAN /\ halfway \in BOOLEAN /\ partial \in BOOLEAN

\* The initial version of a POST between its two inserts.
Owed == {current[e] : e \in {f \in Editors : pc[f] = "initial"}}

Recorded == history \cup missed \cup Owed

(***************************************************************************)
(* However edits overlap, the history has the text and the variables the   *)
(* template has now, and its version, each in some snapshot: only a failed *)
(* insert can keep them out of it.                                         *)
(***************************************************************************)
EveryTextRecorded ==
  row # NoRow =>
    /\ \E s \in Recorded : s.content = row.content
    /\ \E s \in Recorded : s.variables = row.variables
    /\ \E s \in Recorded : s.version = row.version

(***************************************************************************)
(* The dashboard always sends text and variables together.  Then text and  *)
(* variables of the row were saved together by one edit, and are in one    *)
(* snapshot: no template is rendered with the variables of another edit.   *)
(***************************************************************************)
PairRecorded ==
  row # NoRow /\ ~partial =>
    \E s \in Recorded : s.content = row.content /\ s.variables = row.variables

(***************************************************************************)
(* While no two requests overlap and none fails, the history is exact: one *)
(* snapshot per version up to that of the row, the last one equal to it.   *)
(***************************************************************************)
SerialHistory ==
  (row # NoRow /\ ~overlap /\ ~halfway /\ missed = {}
     /\ \A e \in Editors : pc[e] = "idle") =>
    /\ row \in history
    /\ \A s \in history : s.version \in 1 .. row.version
    /\ \A n \in 1 .. row.version : Cardinality({s \in history : s.version = n}) = 1

(***************************************************************************)
(* "If content or variables changed, bump version" (templates/[templateId] *)
(* /route.ts, 74): an update that changes either leaves a later version.   *)
(***************************************************************************)
BumpsVersion ==
  [][(row # NoRow /\ row' # NoRow
        /\ <<row'.content, row'.variables>> # <<row.content, row.variables>>) =>
       row'.version > row.version]_vars
=============================================================================
