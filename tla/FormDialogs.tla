----------------------------- MODULE FormDialogs -----------------------------
(***************************************************************************)
(* The dialogs in which the user fills a form and sends it: a new A/B      *)
(* test, evaluation, webhook, alert rule or environment, the clone of an   *)
(* environment and the replay of a request.  They differ in what the form  *)
(* cannot be sent without, in when it is emptied and in what a success     *)
(* does.  The form and the mutation belong to the page, not to the dialog: *)
(* both outlive its closing, so an answer may come when the dialog is      *)
(* closed, or open again.                                                  *)
(*                                                                         *)
(* A behavior is about one dialog.  What the form holds has a number, and  *)
(* a new one when it is emptied or changed after it was sent.  MaxSends is *)
(* a bound.                                                                *)
(***************************************************************************)
EXTENDS Integers, FiniteSets

CONSTANT MaxSends

ASSUME DialogAssumption == MaxSends \in Nat

\* A change, by what becomes complete with it and what becomes incomplete.
Change(gains, loses) == [gains |-> gains, loses |-> loses]
Typed(f)  == {Change({f}, {}), Change({}, {f})}  \* a text, or one of several switches
Picked(f) == {Change({f}, {})}                 \* from a list that has no empty choice
Optional  == {Change({}, {})}

\* What a form cannot be sent without, what of it an emptied form has, and
\* the changes.  Every variant needs a name and a model, and the weights are
\* 100 together: a variant is added without a model and with no weight, and
\* one that is removed takes its weight with it.
AbTestForm ==
  [needs |-> {"name", "route", "variants", "weights"}, start |-> {"weights"},
   changes |-> Typed("name") \cup Optional \cup Picked("route") \cup Typed("variants") \cup Typed("weights")
               \cup {Change({"variants", "weights"}, {}), Change({"variants"}, {"weights"})}]

EvaluationForm == [needs |-> {"model"}, start |-> {}, changes |-> Typed("model") \cup Optional]

WebhookForm ==
  [needs |-> {"name", "url", "events"}, start |-> {},
   changes |-> Typed("name") \cup Typed("url") \cup Typed("events") \cup Optional]

AlertForm ==
  [needs |-> {"name", "channels"}, start |-> {},
   changes |-> Typed("name") \cup Typed("channels") \cup Optional]

\* The slug follows the name; a name of no letters has none.
NameAndSlug ==
  {Change({"name", "slug"}, {}), Change({"name"}, {"slug"}), Change({}, {"name", "slug"})} \cup Typed("slug")

EnvironmentForm == [needs |-> {"name", "slug"}, start |-> {}, changes |-> NameAndSlug \cup Optional]

\* Filled in from the source; the slug follows until it is edited itself.
CloneForm ==
  [needs |-> {"name", "slug"}, start |-> {"name", "slug"},
   changes |-> NameAndSlug \cup Typed("name") \cup Optional]

\* The same model, or another model or route that is then to be picked.
ReplayForm == [needs |-> {"target"}, start |-> {"target"}, changes |-> Typed("target")]

\* The form; whether opening and the Cancel button empty it; whether a
\* success closes the dialog, emptying the form, or shows its result; and
\* whether opening forgets what is under way.
Dialog(form, open, cancel, success, forget) ==
  [form |-> form, open |-> open, cancel |-> cancel, success |-> success, forget |-> forget]

AbTestDialog      == Dialog(AbTestForm, TRUE, FALSE, "close", FALSE)
EvaluationDialog  == Dialog(EvaluationForm, TRUE, FALSE, "close", FALSE)
WebhookDialog     == Dialog(WebhookForm, FALSE, TRUE, "close", FALSE)
AlertDialog       == Dialog(AlertForm, FALSE, TRUE, "close", FALSE)
EnvironmentDialog == Dialog(EnvironmentForm, TRUE, FALSE, "close", FALSE)
CloneDialog       == Dialog(CloneForm, TRUE, FALSE, "show", FALSE)
ReplayDialog      == Dialog(ReplayForm, TRUE, FALSE, "show", TRUE)

Texts == 1 .. MaxSends + 1

VARIABLES dialog, shown,
          text,    \* the number of what the form holds
          fresh,   \* it was not sent yet
          filled,  \* what of the form is complete
          result,  \* the text whose result takes the place of the form, 0 for none
          awaited, \* the sending the buttons wait for, 0 for none
          sends,   \* the sendings under way
          sent,
          outcomes, \* what the server has made, per text
          denied,  \* history: of these, those the user was told had failed
          crossed  \* history: texts under way when the dialog was opened

dialogvars == <<dialog, shown, text, fresh, filled, result, awaited, sends, sent, outcomes, denied, crossed>>

DialogInit ==
  /\ dialog \in {AbTestDialog, EvaluationDialog, WebhookDialog, AlertDialog, EnvironmentDialog,
                 CloneDialog, ReplayDialog}
  /\ shown = FALSE /\ text = 1 /\ fresh = TRUE /\ filled = dialog.form.start /\ result = 0
  /\ awaited = 0 /\ sends = {} /\ sent = 0
  /\ outcomes = [n \in Texts |-> 0] /\ denied = outcomes /\ crossed = {}

-----------------------------------------------------------------------------
\* The form holds something else; or the same.
NewText  == fresh' = TRUE /\ text' = IF fresh THEN text ELSE text + 1
SameText == UNCHANGED <<text, fresh, filled>>
Emptied  == NewText /\ filled' = dialog.form.start

\* The form is there, and not the result in its place.
FormShown == shown /\ result = 0

\* The button or the row that opens the dialog.
OpenDialog ==
  /\ ~shown /\ shown' = TRUE
  /\ IF dialog.open THEN Emptied /\ result' = 0 ELSE SameText /\ UNCHANGED result
  /\ awaited' = IF dialog.forget THEN 0 ELSE awaited
  /\ crossed' = crossed \cup {s.text : s \in sends}
  /\ UNCHANGED <<dialog, sends, sent, outcomes, denied>>

\* The replay's form is disabled while a replay is under way.
EditField ==
  /\ FormShown /\ ~(dialog.forget /\ awaited # 0)
  /\ NewText
  /\ \E change \in dialog.form.changes : filled' = (filled \cup change.gains) \ change.loses
  /\ UNCHANGED <<dialog, shown, result, awaited, sends, sent, outcomes, denied, crossed>>

\* Cancel, Close or Done; the replay's Cancel is disabled like its form.
CancelDialog ==
  /\ shown /\ shown' = FALSE /\ ~(dialog.forget /\ result = 0 /\ awaited # 0)
  /\ IF dialog.cancel THEN Emptied ELSE SameText
  /\ UNCHANGED <<dialog, result, awaited, sends, sent, outcomes, denied, crossed>>

\* The escape key, or a click beside the dialog.
Escape ==
  /\ shown /\ shown' = FALSE
  /\ SameText
  /\ UNCHANGED <<dialog, result, awaited, sends, sent, outcomes, denied, crossed>>

\* "Replay Again".
Again ==
  /\ shown /\ dialog.forget /\ result # 0
  /\ result' = 0 /\ awaited' = 0 /\ NewText /\ UNCHANGED filled
  /\ crossed' = crossed \cup {s.text : s \in sends}
  /\ UNCHANGED <<dialog, shown, sends, sent, outcomes, denied>>

\* The page is left: what it was sending goes on without it.
LeavePage ==
  /\ shown' = FALSE /\ result' = 0 /\ awaited' = 0 /\ Emptied
  /\ sends' = {[s EXCEPT !.here = FALSE] : s \in sends}
  /\ UNCHANGED <<dialog, sent, outcomes, denied, crossed>>

-----------------------------------------------------------------------------
\* When the button that sends is there and enabled.
MaySubmit == FormShown /\ dialog.form.needs \subseteq filled /\ awaited = 0

Submit ==
  /\ MaySubmit
  /\ sent < MaxSends /\ sent' = sent + 1 /\ awaited' = sent + 1
  /\ sends' = sends \cup {[n |-> sent + 1, text |-> text, done |-> FALSE, here |-> TRUE]}
  /\ fresh' = FALSE
  /\ UNCHANGED <<dialog, shown, text, filled, result, outcomes, denied, crossed>>

\* The server carries it out.
Made(s) ==
  /\ ~s.done
  /\ sends' = (sends \ {s}) \cup {[s EXCEPT !.done = TRUE]}
  /\ outcomes' = [outcomes EXCEPT ![s.text] = @ + 1]
  /\ SameText
  /\ UNCHANGED <<dialog, shown, result, awaited, sent, denied, crossed>>

Settled(s) ==
  /\ sends' = sends \ {s}
  /\ awaited' = IF awaited = s.n THEN 0 ELSE awaited
  /\ UNCHANGED <<dialog, sent, outcomes>>

\* onSuccess, whatever the dialog shows by now.
Succeeds(s) ==
  /\ s.done /\ Settled(s)
  /\ IF ~s.here THEN SameText /\ UNCHANGED <<shown, result>>
     ELSE IF dialog.success = "close" THEN shown' = FALSE /\ Emptied /\ UNCHANGED result
     ELSE result' = s.text /\ SameText /\ UNCHANGED shown
  /\ UNCHANGED <<denied, crossed>>

\* onError: a message, and everything stays as it is.
FailsToSend(s) ==
  /\ Settled(s)
  /\ denied' = IF s.done THEN [denied EXCEPT ![s.text] = @ + 1] ELSE denied
  /\ SameText
  /\ UNCHANGED <<shown, result, crossed>>

DialogNext ==
  \/ OpenDialog \/ EditField \/ CancelDialog \/ Escape \/ Again \/ LeavePage
  \/ Submit
  \/ \E s \in sends : Made(s) \/ Succeeds(s) \/ FailsToSend(s)

DialogSpec == DialogInit /\ [][DialogNext]_dialogvars

-----------------------------------------------------------------------------
(***************************************************************************)
(* What the user has entered is carried out once, however often the dialog *)
(* is closed, opened again and sent: twice only if the user was told that  *)
(* it had failed.  And a result is shown while nothing of the page is      *)
(* under way, unless the dialog was opened during one of the two: then the *)
(* earlier result takes the place of the form, whatever it was sent for.   *)
(***************************************************************************)
MadeOnce ==
  /\ \A n \in Texts : outcomes[n] <= 1 + denied[n]
  /\ \A s \in sends : result # 0 /\ s.here => result \in crossed \/ s.text \in crossed
  /\ result # 0 => outcomes[result] > 0
=============================================================================
