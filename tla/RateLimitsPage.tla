---------------------------- MODULE RateLimitsPage ----------------------------
(***************************************************************************)
(* The page of rate limits (app/(dashboard)/settings/rate-limits).  What   *)
(* the user changes is pending: it is shown over the rows fetched last,    *)
(* and sent in one PATCH when the user saves it all.  The request runs     *)
(* while the user goes on.                                                 *)
(*                                                                         *)
(* A cell is a field of a route or of a key.  A route is switched on and   *)
(* off directly, its two limits are edited in a form, and one form for     *)
(* keys can be open besides.  Values are limits; 0 is null, and off.       *)
(* MaxWishes bounds the edits.                                             *)
(***************************************************************************)
EXTENDS Integers, FiniteSets

CONSTANTS LimitedRoutes, LimitedKeys, MaxWishes

Limits    == {"max_requests_per_min", "max_tokens_per_request"}
FormOf(x) == IF x \in LimitedKeys THEN {<<x, "rate_limit_rpm">>} ELSE {<<x, f>> : f \in Limits}
Switch(r) == <<r, "is_active">>
Cells     == UNION {FormOf(x) : x \in LimitedRoutes \cup LimitedKeys}
               \cup {Switch(r) : r \in LimitedRoutes}
Values    == {0, 1}

VARIABLES limits,    \* the rows in the database
          rows,      \* rateLimits, the rows fetched last
          fetching,  \* they are being fetched anew
          pending,   \* pendingChanges and pendingKeyChanges, by cell
          form,      \* editingRoute and editingKey, by cell
          retyped,   \* the cells of the form the user has changed
          saving,    \* what saveMutation has sent, by cell
          wished,    \* counted for the bound
          unsaved,   \* history: the user's edits that are not saved, by cell
          late,      \* history: cells edited since what is being saved was sent
          lost       \* history: cells whose edit is gone for one of two known causes

ratevars == <<limits, rows, fetching, pending, form, retyped, saving, wished, unsaved,
              late, lost>>

Clean       == [c \in {} |-> 0]
Over(f, g)  == [c \in DOMAIN f \cup DOMAIN g |-> IF c \in DOMAIN f THEN f[c] ELSE g[c]]
Sans(f, S)  == [c \in DOMAIN f \ S |-> f[c]]
Is(c, v)    == [d \in {c} |-> v]

\* getEffectiveRoute and getEffectiveKey: what the table shows.
Effective == Over(pending, rows)

RateInit ==
  /\ limits = [c \in Cells |-> 0] /\ rows = limits /\ fetching = FALSE
  /\ pending = Clean /\ form = Clean /\ retyped = {} /\ saving = Clean
  /\ wished = 0 /\ unsaved = Clean /\ late = {} /\ lost = {}

-----------------------------------------------------------------------------
\* The user sees wish, and with it change becomes pending.
Pend(wish, change) ==
  /\ wished < MaxWishes /\ wished' = wished + 1
  /\ pending' = Over(change, pending)
  /\ unsaved' = Over(wish, unsaved)
  /\ late' = IF saving # Clean THEN late \cup DOMAIN wish ELSE late
  /\ lost' = (lost \cup DOMAIN change) \ DOMAIN wish
  /\ UNCHANGED <<limits, rows, fetching, saving>>

HandleRouteToggle(r) ==
  LET change == Is(Switch(r), 1 - Effective[Switch(r)])
  IN  Pend(change, change) /\ UNCHANGED <<form, retyped>>

\* The row of x shows fields instead of what is effective.
Editing(x) == FormOf(x) \subseteq DOMAIN form

\* The cells of the kind of x: one of a kind is edited at a time.
SameKind(x) == {c \in Cells : c[1] \in LimitedKeys <=> x \in LimitedKeys}

\* handleStartEditRoute and handleStartEditKey: the form is filled from the
\* row, not from what is shown, and takes the place of one of its kind.
HandleStartEdit(x) ==
  /\ ~Editing(x)
  /\ form' = Over([c \in FormOf(x) |-> rows[c]], Sans(form, SameKind(x)))
  /\ retyped' = retyped \ SameKind(x)
  /\ UNCHANGED <<limits, rows, fetching, pending, saving, wished, unsaved, late, lost>>

\* onChange of a field.
TypeLimit(c, v) ==
  /\ c \in DOMAIN form /\ form[c] # v
  /\ form' = [form EXCEPT ![c] = v] /\ retyped' = retyped \cup {c}
  /\ UNCHANGED <<limits, rows, fetching, pending, saving, wished, unsaved, late, lost>>

\* handleSaveEditRoute and handleSaveEditKey: all fields become pending, those
\* too that the user has left as they were.
HandleSaveEdit(x) ==
  /\ Editing(x)
  /\ Pend([c \in retyped \cap FormOf(x) |-> form[c]], [c \in FormOf(x) |-> form[c]])
  /\ form' = Sans(form, FormOf(x)) /\ retyped' = retyped \ FormOf(x)

\* What handleBulkApply sets: these fields of every route.
Bulk(fields, v) == [c \in {<<r, f>> : r \in LimitedRoutes, f \in fields} |-> v]

\* Mutant: what was pending for the routes is not spread into the new map.
HandleBulkApplyAlone(fields, v) ==
  /\ wished < MaxWishes /\ wished' = wished + 1
  /\ pending' = Over(Bulk(fields, v), Sans(pending, {c \in Cells : c[1] \in LimitedRoutes}))
  /\ unsaved' = Over(Bulk(fields, v), unsaved)
  /\ UNCHANGED <<limits, rows, fetching, saving, form, retyped, late, lost>>

\* The button is enabled if one of the limits is given at least.
HandleBulkApply(fields, v) == Pend(Bulk(fields, v), Bulk(fields, v)) /\ UNCHANGED <<form, retyped>>

CancelEdit(x) ==
  /\ Editing(x)
  /\ form' = Sans(form, FormOf(x)) /\ retyped' = retyped \ FormOf(x)
  /\ UNCHANGED <<limits, rows, fetching, pending, saving, wished, unsaved, late, lost>>

-----------------------------------------------------------------------------
\* handleSaveAll; its button is there if something is pending, and disabled
\* while a save runs.
HandleSaveAll ==
  /\ pending # Clean /\ saving = Clean
  /\ saving' = pending /\ late' = {}
  /\ UNCHANGED <<limits, rows, fetching, pending, form, retyped, wished, unsaved, lost>>

\* onSuccess: everything pending is forgotten and the rows are fetched anew.
SaveSucceeds ==
  /\ saving # Clean
  /\ limits' = Over(saving, limits)
  /\ saving' = Clean /\ pending' = Clean /\ fetching' = TRUE
  /\ unsaved' = Sans(unsaved, {c \in DOMAIN unsaved \cap DOMAIN saving : unsaved[c] = saving[c]})
  /\ lost' = lost \cup late
  /\ UNCHANGED <<rows, form, retyped, wished, late>>

\* onError: the rows are written one by one, up to the one that failed.
SaveFails(written) ==
  /\ saving # Clean
  /\ limits' = Over([c \in written |-> saving[c]], limits)
  /\ saving' = Clean
  /\ UNCHANGED <<rows, fetching, pending, form, retyped, wished, unsaved, late, lost>>

Refetch ==
  /\ ~fetching /\ fetching' = TRUE
  /\ UNCHANGED <<limits, rows, pending, form, retyped, saving, wished, unsaved, late, lost>>

Fetched ==
  /\ fetching /\ fetching' = FALSE
  /\ rows' = limits
  /\ UNCHANGED <<limits, pending, form, retyped, saving, wished, unsaved, late, lost>>

RateNext ==
  \/ \E r \in LimitedRoutes : HandleRouteToggle(r)
  \/ \E x \in LimitedRoutes \cup LimitedKeys : HandleStartEdit(x) \/ HandleSaveEdit(x) \/ CancelEdit(x)
  \/ \E c \in Cells, v \in Values : TypeLimit(c, v)
  \/ \E fields \in SUBSET Limits \ {{}} : HandleBulkApply(fields, 1)
  \/ HandleSaveAll
  \/ SaveSucceeds
  \/ \E written \in SUBSET DOMAIN saving : SaveFails(written)
  \/ Refetch
  \/ Fetched

RateSpec == RateInit /\ [][RateNext]_ratevars

-----------------------------------------------------------------------------
(***************************************************************************)
(* What the user has entered stays pending until it is saved: no other     *)
(* edit, applying to all routes ("Leave a field empty to keep existing     *)
(* values"), fetch or failing save takes it away.  There are two           *)
(* exceptions.  An edit made while a save runs is forgotten when that      *)
(* save succeeds; and saving the form of a route takes back its other      *)
(* limit, since the form was filled from the row.                          *)
(***************************************************************************)
EditsKept ==
  \A c \in DOMAIN unsaved \ lost : c \in DOMAIN pending /\ pending[c] = unsaved[c]
=============================================================================
