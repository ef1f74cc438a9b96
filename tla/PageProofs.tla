------------------------------ MODULE PageProofs ------------------------------
(***************************************************************************)
(* Proofs about the control plane in the browser: what the user enters in  *)
(* the page of rate limits, the dialogs and the drawers, what the queries  *)
(* show of what was written, the chat of the playground, what is kept in   *)
(* localStorage, and the pages of the list of requests.  They hold for any *)
(* routes, keys, filters and tables, any number of edits, texts, sendings, *)
(* visits, asks, tabs and rows, and any order of their answers.            *)
(***************************************************************************)
EXTENDS RateLimitsPage, DetailDrawers, Pages, Chat, BrowserState, RequestList,
        SequenceTheorems, FiniteSetTheorems, WellFoundedInduction, TLAPS

-----------------------------------------------------------------------------
(* The page of rate limits.  When a save succeeds everything pending is    *)
(* forgotten, so EditsKept needs that what is saving has every edit that   *)
(* was not made since it was sent.                                         *)

SentKept ==
  saving # Clean =>
    \A c \in DOMAIN unsaved \ (lost \cup late) : c \in DOMAIN saving /\ saving[c] = unsaved[c]

EditsInv == EditsKept /\ SentKept

\* An edit shows in what is pending as the user has made it.
LEMMA PendKept ==
  ASSUME EditsInv, NEW wish, NEW change, Pend(wish, change),
         \A c \in DOMAIN wish : c \in DOMAIN change /\ change[c] = wish[c]
  PROVE  EditsInv'
<1>1. /\ pending' = Over(change, pending) /\ unsaved' = Over(wish, unsaved) /\ saving' = saving
      /\ lost' = (lost \cup DOMAIN change) \ DOMAIN wish
      /\ saving # Clean => late' = late \cup DOMAIN wish
  BY DEF Pend
<1>2. /\ DOMAIN unsaved' = DOMAIN wish \cup DOMAIN unsaved
      /\ \A c \in DOMAIN wish : unsaved'[c] = wish[c]
      /\ \A c \in DOMAIN unsaved \ DOMAIN wish : unsaved'[c] = unsaved[c]
      /\ DOMAIN pending' = DOMAIN change \cup DOMAIN pending
      /\ \A c \in DOMAIN change : pending'[c] = change[c]
      /\ \A c \in DOMAIN pending \ DOMAIN change : pending'[c] = pending[c]
  BY <1>1 DEF Over
<1>3. EditsKept'
  <2> SUFFICES ASSUME NEW c \in DOMAIN unsaved' \ lost'
               PROVE  c \in DOMAIN pending' /\ pending'[c] = unsaved'[c]
    BY DEF EditsKept
  <2>1. CASE c \in DOMAIN wish
    BY <1>2, <1>1, <2>1
  <2>2. CASE c \notin DOMAIN wish
    <3>1. c \in DOMAIN unsaved \ lost /\ c \notin DOMAIN change /\ unsaved'[c] = unsaved[c]
      BY <1>2, <1>1, <2>2
    <3>2. c \in DOMAIN pending /\ pending[c] = unsaved[c]
      BY <3>1 DEF EditsInv, EditsKept
    <3> QED BY <1>2, <1>1, <3>1, <3>2
  <2> QED BY <2>1, <2>2
<1>4. SentKept'
  <2> SUFFICES ASSUME saving # Clean, NEW c \in DOMAIN unsaved' \ (lost' \cup late')
               PROVE  c \in DOMAIN saving /\ saving[c] = unsaved'[c]
    BY <1>1 DEF SentKept
  <2>1. c \notin DOMAIN wish /\ c \in DOMAIN unsaved \ (lost \cup late) /\ unsaved'[c] = unsaved[c]
    BY <1>2, <1>1
  <2> QED BY <2>1 DEF EditsInv, SentKept
<1> QED BY <1>3, <1>4 DEF EditsInv

LEMMA SaveSucceedsKept == ASSUME EditsInv, SaveSucceeds PROVE EditsInv'
<1>1. /\ saving # Clean /\ saving' = Clean
      /\ unsaved' = Sans(unsaved, {c \in DOMAIN unsaved \cap DOMAIN saving : unsaved[c] = saving[c]})
      /\ lost' = lost \cup late
  BY DEF SaveSucceeds
<1>2. \A c \in DOMAIN unsaved' : c \in DOMAIN unsaved /\ ~(c \in DOMAIN saving /\ saving[c] = unsaved[c])
  BY <1>1 DEF Sans
<1>3. \A c \in DOMAIN unsaved' : c \in lost'
  BY <1>1, <1>2 DEF EditsInv, SentKept
<1> QED BY <1>1, <1>3 DEF EditsInv, EditsKept, SentKept

\* EditsKept: an edit stays pending until it is saved, whatever else the user
\* edits, fetches or saves in the meantime, with the two exceptions named there.
THEOREM NoEditTakenAway == RateSpec => []EditsKept
<1>1. RateInit => EditsInv
  BY DEF RateInit, EditsInv, EditsKept, SentKept, Clean
<1>2. EditsInv /\ [RateNext]_ratevars => EditsInv'
  <2> SUFFICES ASSUME EditsInv, [RateNext]_ratevars PROVE EditsInv'
    OBVIOUS
  <2>1. CASE UNCHANGED ratevars
    BY <2>1 DEF EditsInv, EditsKept, SentKept, ratevars
  <2>2. ASSUME NEW r \in LimitedRoutes, HandleRouteToggle(r) PROVE EditsInv'
    BY <2>2, PendKept DEF HandleRouteToggle
  <2>3. ASSUME NEW x, NEW v, HandleStartEdit(x) \/ TypeLimit(x, v) \/ CancelEdit(x) PROVE EditsInv'
    BY <2>3 DEF HandleStartEdit, TypeLimit, CancelEdit, EditsInv, EditsKept, SentKept
  <2>4. ASSUME NEW x, HandleSaveEdit(x) PROVE EditsInv'
    <3>1. Pend([c \in retyped \cap FormOf(x) |-> form[c]], [c \in FormOf(x) |-> form[c]])
      BY <2>4 DEF HandleSaveEdit
    <3> QED BY <3>1, PendKept
  <2>5. ASSUME NEW fields, HandleBulkApply(fields, 1) PROVE EditsInv'
    BY <2>5, PendKept DEF HandleBulkApply
  <2>6. ASSUME HandleSaveAll PROVE EditsInv'
    BY <2>6 DEF HandleSaveAll, EditsInv, EditsKept, SentKept
  <2>7. ASSUME NEW written, SaveFails(written) PROVE EditsInv'
    BY <2>7 DEF SaveFails, EditsInv, EditsKept, SentKept
  <2>8. ASSUME Refetch \/ Fetched PROVE EditsInv'
    BY <2>8 DEF Refetch, Fetched, EditsInv, EditsKept, SentKept
  <2> QED BY <2>1, <2>2, <2>3, <2>4, <2>5, <2>6, <2>7, <2>8, SaveSucceedsKept DEF RateNext
<1>3. EditsInv => EditsKept
  BY DEF EditsInv
<1> QED BY <1>1, <1>2, <1>3, PTL DEF RateSpec

-----------------------------------------------------------------------------
(* The dialogs.  A text can be sent again only after the sending the       *)
(* buttons waited for has failed; the others under way belong to a page    *)
(* that was left, or were there when the dialog was opened.                *)

DialogTypeOK ==
  /\ dialog \in {AbTestDialog, EvaluationDialog, WebhookDialog, AlertDialog, EnvironmentDialog,
                 CloneDialog, ReplayDialog}
  /\ sent \in 0 .. MaxSends /\ awaited \in 0 .. sent
  /\ text \in 1 .. sent + 1 /\ result \in 0 .. text
  /\ fresh \in BOOLEAN /\ (~fresh => text <= sent)
  /\ sends \subseteq [n : 1 .. sent, text : 1 .. text, done : BOOLEAN, here : BOOLEAN]
  /\ outcomes \in [Texts -> Nat] /\ denied \in [Texts -> Nat]

\* No two sendings have a number, or a text, in common.
Apart == \A s, t \in sends : s.n = t.n \/ s.text = t.text => s = t

\* What the server made of a text, and what it was told to make of it.
Counted ==
  /\ \A n \in Texts : outcomes[n] <= 1 + denied[n]
  /\ \A n \in Texts : n > text \/ (n = text /\ fresh) => outcomes[n] = 0
  /\ \A s \in sends : IF s.done THEN outcomes[s.text] > 0 ELSE outcomes[s.text] <= denied[s.text]
  /\ outcomes[text] > denied[text] => result # 0 \/ \E s \in sends : s.text = text /\ s.done
  /\ result # 0 => outcomes[result] > 0

\* The text in the form is under way only while the buttons wait for it.
Waiting == \A s \in sends : s.text = text => s.n = awaited /\ s.here /\ ~fresh

\* Another sending of this page was under way when the dialog was opened.
Crossing ==
  \A s \in sends : s.here =>
    /\ s.n # awaited => s.text \in crossed
    /\ result # 0 => result \in crossed \/ s.text \in crossed

DialogInv == DialogTypeOK /\ Apart /\ Counted /\ Waiting /\ Crossing

LEMMA DialogStart == DialogInit => DialogInv
BY DialogAssumption DEF DialogInit, DialogInv, DialogTypeOK, Texts, Apart, Counted, Waiting, Crossing

LEMMA TextNumbers == DialogTypeOK => text \in Texts /\ 1 .. text \subseteq Texts
BY DialogAssumption DEF DialogTypeOK, Texts

LEMMA NewTextFresh ==
  ASSUME DialogInv, NewText
  PROVE  /\ fresh' = TRUE /\ text' \in Texts /\ text' \in text .. sent + 1
         /\ outcomes[text'] = 0 /\ denied[text'] \in Nat
         /\ \A n \in Texts : n > text' => outcomes[n] = 0
         /\ \A s \in sends : s.text \in 1 .. text' /\ s.text # text'
         /\ 1 .. text \subseteq 1 .. text'
<1> USE DEF DialogInv
<1>1. /\ fresh' = TRUE /\ text \in Nat /\ sent \in 0 .. MaxSends
      /\ text' = IF fresh THEN text ELSE text + 1
      /\ text \in 1 .. sent + 1 /\ (~fresh => text <= sent)
  BY DialogAssumption DEF NewText, DialogTypeOK
<1>2. text' \in Texts /\ text' \in text .. sent + 1 /\ 1 .. text \subseteq 1 .. text'
  BY <1>1, DialogAssumption DEF Texts
<1>3. outcomes[text'] = 0 /\ \A n \in Texts : n > text' => outcomes[n] = 0
  BY <1>1, <1>2 DEF Counted, Texts
<1>4. denied[text'] \in Nat
  BY <1>2 DEF DialogTypeOK
<1>5. ASSUME NEW s \in sends PROVE s.text \in 1 .. text' /\ s.text # text'
  <2>1. s.text \in 1 .. text /\ (s.text = text => ~fresh)
    BY DEF DialogTypeOK, Waiting
  <2> QED BY <1>1, <2>1
<1> QED BY <1>1, <1>2, <1>3, <1>4, <1>5

\* A form that is emptied or edited is under way nowhere, and was never made.
LEMMA NewTextKept ==
  ASSUME DialogInv, NewText, result' \in {0, result}, crossed \subseteq crossed',
         UNCHANGED <<dialog, sends, sent, outcomes, denied>>, awaited' \in {0, awaited},
         awaited' # awaited => \A s \in sends : s.text \in crossed'
  PROVE  DialogInv'
<1> USE DEF DialogInv
<1>1. /\ fresh' = TRUE /\ text' \in text .. sent + 1 /\ outcomes[text'] = 0 /\ denied[text'] \in Nat
      /\ \A n \in Texts : n > text' => outcomes[n] = 0
      /\ \A s \in sends : s.text \in 1 .. text' /\ s.text # text'
  BY NewTextFresh
<1>2. DialogTypeOK'
  <2>1. sends' \subseteq [n : 1 .. sent', text : 1 .. text', done : BOOLEAN, here : BOOLEAN]
    <3> SUFFICES ASSUME NEW s \in sends
                 PROVE  s \in [n : 1 .. sent, text : 1 .. text', done : BOOLEAN, here : BOOLEAN]
      OBVIOUS
    <3>1. s \in [n : 1 .. sent, text : 1 .. text, done : BOOLEAN, here : BOOLEAN]
      BY DEF DialogTypeOK
    <3> QED BY <1>1, <3>1
  <2>2. text' \in 1 .. sent' + 1 /\ result' \in 0 .. text' /\ awaited' \in 0 .. sent'
    BY <1>1 DEF DialogTypeOK
  <2> QED BY <1>1, <2>1, <2>2 DEF DialogTypeOK
<1>3. Apart' /\ Waiting'
  BY <1>1 DEF Apart, Waiting
<1>4. Counted'
  BY <1>1 DEF Counted
<1>5. Crossing'
  BY <1>1 DEF Crossing
<1> QED BY <1>2, <1>3, <1>4, <1>5

LEMMA DialogKinds ==
  DialogTypeOK => dialog.open \in BOOLEAN /\ (dialog.forget => dialog.open)
                  /\ dialog.success \in {"close", "show"}
<1> DEFINE Fine(d) == d.open \in BOOLEAN /\ (d.forget => d.open) /\ d.success \in {"close", "show"}
<1>1. ASSUME NEW f, NEW o \in BOOLEAN, NEW c, NEW s \in {"close", "show"}, NEW g \in BOOLEAN, g => o
      PROVE  Fine(Dialog(f, o, c, s, g))
  BY <1>1 DEF Dialog
<1>2. Fine(AbTestDialog) /\ Fine(EvaluationDialog) /\ Fine(EnvironmentDialog)
  BY <1>1 DEF AbTestDialog, EvaluationDialog, EnvironmentDialog
<1>3. Fine(WebhookDialog) /\ Fine(AlertDialog)
  BY <1>1 DEF WebhookDialog, AlertDialog
<1>4. Fine(CloneDialog) /\ Fine(ReplayDialog)
  BY <1>1 DEF CloneDialog, ReplayDialog
<1> QED BY <1>2, <1>3, <1>4 DEF DialogTypeOK

LEMMA SendFields ==
  ASSUME DialogTypeOK, NEW s \in sends
  PROVE  s.n \in 1 .. sent /\ s.text \in 1 .. text /\ s.text \in Texts
<1>1. s.n \in 1 .. sent /\ s.text \in 1 .. text
  BY DEF DialogTypeOK
<1> QED BY <1>1, TextNumbers

LEMMA OpenKept == ASSUME DialogInv, OpenDialog PROVE DialogInv'
<1>1. /\ crossed' = crossed \cup {s.text : s \in sends} /\ UNCHANGED <<dialog, sends, sent, outcomes, denied>>
      /\ awaited' = IF dialog.forget THEN 0 ELSE awaited
  BY DEF OpenDialog
<1>2. \A s \in sends : s.text \in crossed'
  BY <1>1
<1>3. CASE dialog.open
  BY <1>1, <1>2, <1>3, NewTextKept DEF OpenDialog, Emptied
<1>4. CASE ~dialog.open
  <2>1. UNCHANGED <<text, fresh, result, awaited>>
    BY <1>1, <1>4, DialogKinds DEF OpenDialog, SameText, DialogInv
  <2> QED BY <1>1, <1>2, <2>1 DEF DialogInv, DialogTypeOK, Apart, Counted, Waiting, Crossing
<1> QED BY <1>3, <1>4

LEMMA EditOrCancelKept == ASSUME DialogInv, EditField \/ CancelDialog \/ Escape PROVE DialogInv'
<1>1. UNCHANGED <<dialog, result, awaited, sends, sent, outcomes, denied, crossed>>
  BY DEF EditField, CancelDialog, Escape
<1>2. CASE NewText
  BY <1>1, <1>2, NewTextKept
<1>3. CASE SameText
  BY <1>1, <1>3 DEF SameText, DialogInv, DialogTypeOK, Apart, Counted, Waiting, Crossing
<1> QED BY <1>2, <1>3 DEF EditField, CancelDialog, Escape, Emptied

LEMMA AgainKept == ASSUME DialogInv, Again PROVE DialogInv'
<1>1. /\ crossed' = crossed \cup {s.text : s \in sends} /\ result' = 0 /\ awaited' = 0 /\ NewText
      /\ UNCHANGED <<dialog, sends, sent, outcomes, denied>>
  BY DEF Again
<1>2. \A s \in sends : s.text \in crossed'
  BY <1>1
<1> QED BY <1>1, <1>2, NewTextKept

LEMMA LeavePageKept == ASSUME DialogInv, LeavePage PROVE DialogInv'
<1> USE DEF DialogInv
<1>1. /\ result' = 0 /\ awaited' = 0 /\ NewText
      /\ sends' = {[s EXCEPT !.here = FALSE] : s \in sends}
      /\ UNCHANGED <<dialog, sent, outcomes, denied, crossed>>
  BY DEF LeavePage, Emptied
<1>2. /\ fresh' = TRUE /\ text' \in text .. sent + 1 /\ outcomes[text'] = 0 /\ denied[text'] \in Nat
      /\ \A n \in Texts : n > text' => outcomes[n] = 0
      /\ \A s \in sends : s.text \in 1 .. text' /\ s.text # text'
  BY <1>1, NewTextFresh
<1>3. \A s \in sends' : \E t \in sends : s = [t EXCEPT !.here = FALSE]
  BY <1>1
<1>4. ASSUME NEW s \in sends'
      PROVE  /\ s \in [n : 1 .. sent, text : 1 .. text', done : BOOLEAN, here : BOOLEAN]
             /\ s.here = FALSE
             /\ \E t \in sends : s = [t EXCEPT !.here = FALSE] /\ s.n = t.n /\ s.text = t.text /\ s.done = t.done
  <2>1. PICK t \in sends : s = [t EXCEPT !.here = FALSE]
    BY <1>3
  <2>2. t \in [n : 1 .. sent, text : 1 .. text, done : BOOLEAN, here : BOOLEAN]
    BY DEF DialogTypeOK
  <2>3. t \in [n : 1 .. sent, text : 1 .. text', done : BOOLEAN, here : BOOLEAN]
    BY <1>2, <2>2
  <2> QED BY <2>1, <2>2, <2>3
<1>5. DialogTypeOK'
  <2>1. sends' \subseteq [n : 1 .. sent', text : 1 .. text', done : BOOLEAN, here : BOOLEAN]
    BY <1>1, <1>4
  <2>2. text' \in 1 .. sent' + 1 /\ result' \in 0 .. text' /\ awaited' \in 0 .. sent'
    BY <1>1, <1>2 DEF DialogTypeOK
  <2> QED BY <1>1, <1>2, <2>1, <2>2 DEF DialogTypeOK
<1>6. Apart' /\ Waiting' /\ Crossing'
  <2>1. Apart'
    <3> SUFFICES ASSUME NEW s \in sends', NEW t \in sends', s.n = t.n \/ s.text = t.text PROVE s = t
      BY DEF Apart
    <3>1. PICK s1 \in sends : s = [s1 EXCEPT !.here = FALSE] /\ s.n = s1.n /\ s.text = s1.text
      BY <1>4
    <3>2. PICK t1 \in sends : t = [t1 EXCEPT !.here = FALSE] /\ t.n = t1.n /\ t.text = t1.text
      BY <1>4
    <3> QED BY <3>1, <3>2 DEF Apart
  <2>2. \A s \in sends' : s.text # text' /\ s.here = FALSE
    BY <1>2, <1>4
  <2> QED BY <2>1, <2>2 DEF Waiting, Crossing
<1>7. Counted'
  <2>1. \A s \in sends' : IF s.done THEN outcomes[s.text] > 0 ELSE outcomes[s.text] <= denied[s.text]
    BY <1>4 DEF Counted
  <2>2. \A n \in Texts : outcomes[n] <= 1 + denied[n]
    BY DEF Counted
  <2> QED BY ONLY <1>1, <1>2, <2>1, <2>2 DEF Counted
<1> QED BY <1>5, <1>6, <1>7

LEMMA SubmitKept == ASSUME DialogInv, Submit PROVE DialogInv'
<1> USE DEF DialogInv
<1>1. PICK new \in [n : 1 .. sent + 1, text : 1 .. text, done : BOOLEAN, here : BOOLEAN] :
        /\ new.n = sent + 1 /\ new.text = text /\ new.done = FALSE /\ new.here = TRUE
        /\ sends' = sends \cup {new}
  <2>1. [n |-> sent + 1, text |-> text, done |-> FALSE, here |-> TRUE]
          \in [n : 1 .. sent + 1, text : 1 .. text, done : BOOLEAN, here : BOOLEAN]
    BY DEF DialogTypeOK
  <2> QED BY <2>1 DEF Submit
<1>2. /\ result = 0 /\ awaited = 0 /\ sent' = sent + 1 /\ awaited' = sent + 1
      /\ fresh' = FALSE /\ sent < MaxSends
      /\ UNCHANGED <<dialog, text, result, outcomes, denied, crossed>>
  BY DEF Submit, MaySubmit, FormShown
<1>3. \A s \in sends : s.n \in 1 .. sent /\ s.n # awaited /\ s.text # text
  BY <1>2 DEF DialogTypeOK, Waiting
<1>4. DialogTypeOK'
  <2>1. sends \subseteq [n : 1 .. sent + 1, text : 1 .. text, done : BOOLEAN, here : BOOLEAN]
    BY DEF DialogTypeOK
  <2>2. sends' \subseteq [n : 1 .. sent', text : 1 .. text', done : BOOLEAN, here : BOOLEAN]
    BY <1>1, <1>2, <2>1
  <2>3. sent' \in 0 .. MaxSends /\ awaited' \in 0 .. sent' /\ text' \in 1 .. sent' + 1 /\ text' <= sent'
    BY <1>2, DialogAssumption DEF DialogTypeOK
  <2> QED BY <1>2, <2>2, <2>3 DEF DialogTypeOK
<1>5. Apart' /\ Waiting' /\ Crossing'
  <2>1. \A s \in sends : s.n # new.n /\ s.text # new.text
    BY <1>1, <1>3 DEF DialogTypeOK
  <2>2. \A s \in sends : s.here => s.text \in crossed
    BY <1>3 DEF Crossing
  <2> QED BY <1>1, <1>2, <1>3, <2>1, <2>2 DEF Apart, Waiting, Crossing
<1>6. Counted'
  <2>1. outcomes[text] <= denied[text]
    <3>1. text \in Texts
      BY TextNumbers
    <3>2. outcomes[text] \in Nat /\ denied[text] \in Nat /\ ~(outcomes[text] > denied[text])
      BY <1>2, <1>3, <3>1 DEF Counted, DialogTypeOK
    <3> QED BY <3>2
  <2> QED BY <1>1, <1>2, <2>1 DEF Counted
<1> QED BY <1>4, <1>5, <1>6

LEMMA MadeKept == ASSUME DialogInv, NEW s \in sends, Made(s) PROVE DialogInv'
<1> USE DEF DialogInv
<1>1. PICK new \in [n : 1 .. sent, text : 1 .. text, done : BOOLEAN, here : BOOLEAN] :
        /\ sends' = (sends \ {s}) \cup {new}
        /\ new.n = s.n /\ new.text = s.text /\ new.done = TRUE /\ new.here = s.here
  <2>1. /\ [s EXCEPT !.done = TRUE] \in [n : 1 .. sent, text : 1 .. text, done : BOOLEAN, here : BOOLEAN]
        /\ LET new == [s EXCEPT !.done = TRUE]
           IN  new.n = s.n /\ new.text = s.text /\ new.done = TRUE /\ new.here = s.here
    BY DEF DialogTypeOK
  <2> QED BY <2>1 DEF Made
<1>2. /\ ~s.done /\ s.text \in Texts /\ s.text \in 1 .. text /\ (s.text = text => ~fresh)
      /\ outcomes' = [outcomes EXCEPT ![s.text] = @ + 1]
      /\ UNCHANGED <<dialog, text, fresh, result, awaited, sent, denied, crossed>>
  BY SendFields DEF Made, SameText, Waiting
<1>3. DialogTypeOK'
  BY <1>1, <1>2 DEF DialogTypeOK
<1>4. Apart' /\ Waiting' /\ Crossing'
  BY <1>1, <1>2 DEF Apart, Waiting, Crossing
<1>5. Counted'
  <2>1. /\ outcomes'[s.text] = outcomes[s.text] + 1 /\ outcomes[s.text] \in Nat
        /\ outcomes[s.text] <= denied[s.text] /\ denied[s.text] \in Nat
        /\ \A n \in Texts : n # s.text => outcomes'[n] = outcomes[n]
    BY <1>2 DEF DialogTypeOK, Counted
  <2>2. \A t \in sends : t # s => t.text # s.text /\ t.text \in Texts
    BY SendFields DEF Apart
  <2>3. \A t \in sends' : IF t.done THEN outcomes'[t.text] > 0 ELSE outcomes'[t.text] <= denied[t.text]
    BY <1>1, <2>1, <2>2 DEF Counted
  <2>4. outcomes'[text] > denied[text] => result # 0 \/ \E t \in sends' : t.text = text /\ t.done
    <3>1. text \in Texts
      BY TextNumbers
    <3>2. CASE text = s.text
      BY <1>1, <3>2
    <3>3. CASE text # s.text
      BY <1>1, <2>1, <3>1, <3>3 DEF Counted
    <3> QED BY <3>2, <3>3
  <2>5. \A n \in Texts : outcomes'[n] <= 1 + denied[n] /\ (n > text \/ (n = text /\ fresh) => outcomes'[n] = 0)
    BY <1>2, <2>1 DEF Counted, DialogTypeOK
  <2>6. result # 0 => outcomes'[result] > 0
    <3> SUFFICES ASSUME result # 0 PROVE outcomes'[result] > 0
      OBVIOUS
    <3>1. result \in Texts /\ outcomes[result] > 0
      BY TextNumbers DEF DialogTypeOK, Counted
    <3> QED BY <2>1, <3>1
  <2> QED BY <1>2, <2>3, <2>4, <2>5, <2>6 DEF Counted
<1> QED BY <1>3, <1>4, <1>5

\* onSuccess closes the dialog over an empty form, or shows what was made.
LEMMA SucceedsKept == ASSUME DialogInv, NEW s \in sends, Succeeds(s) PROVE DialogInv'
<1> USE DEF DialogInv
<1>1. /\ s.done /\ sends' = sends \ {s} /\ awaited' = IF awaited = s.n THEN 0 ELSE awaited
      /\ UNCHANGED <<dialog, sent, outcomes, denied, crossed>>
  BY DEF Succeeds, Settled
<1>2. s.text \in 1 .. text /\ s.text \in Texts /\ s.n \in 1 .. sent /\ outcomes[s.text] > 0
  BY <1>1, SendFields DEF Counted
<1>3. \A t \in sends' : t \in sends /\ t.n # s.n /\ t.n # 0 /\ t.text # s.text
  BY <1>1 DEF Apart, DialogTypeOK
<1>4. \A t \in sends' : t.here /\ t.n # awaited' => t.text \in crossed
  BY <1>1, <1>3 DEF Crossing
<1>5. sends' \subseteq [n : 1 .. sent, text : 1 .. text, done : BOOLEAN, here : BOOLEAN] /\ awaited' \in 0 .. sent
  BY <1>1 DEF DialogTypeOK
<1>6. Apart'
  BY <1>1 DEF Apart
<1>7. \A t \in sends' : IF t.done THEN outcomes[t.text] > 0 ELSE outcomes[t.text] <= denied[t.text]
  BY <1>3 DEF Counted
<1>8. CASE s.here /\ dialog.success = "close"
  <2>1. NewText /\ result' = result
    BY <1>8 DEF Succeeds, Emptied
  <2>2. /\ fresh' = TRUE /\ text' \in text .. sent + 1 /\ outcomes[text'] = 0 /\ denied[text'] \in Nat
        /\ \A n \in Texts : n > text' => outcomes[n] = 0
        /\ \A t \in sends : t.text \in 1 .. text' /\ t.text # text'
    BY <2>1, NewTextFresh
  <2>3. DialogTypeOK'
    <3> SUFFICES sends' \subseteq [n : 1 .. sent', text : 1 .. text', done : BOOLEAN, here : BOOLEAN]
      BY <1>1, <1>5, <2>1, <2>2 DEF DialogTypeOK
    <3> SUFFICES ASSUME NEW t \in sends'
                 PROVE  t \in [n : 1 .. sent, text : 1 .. text', done : BOOLEAN, here : BOOLEAN]
      BY <1>1
    <3>1. t \in sends /\ t \in [n : 1 .. sent, text : 1 .. text, done : BOOLEAN, here : BOOLEAN]
      BY <1>1, <1>5
    <3> QED BY <2>2, <3>1
  <2>4. Counted'
    BY <1>1, <1>7, <2>1, <2>2 DEF Counted
  <2>5. Waiting' /\ Crossing'
    BY <1>1, <1>3, <1>4, <2>1, <2>2 DEF Waiting, Crossing
  <2> QED BY <1>6, <2>3, <2>4, <2>5
<1>9. CASE s.here /\ dialog.success # "close"
  <2>1. result' = s.text /\ UNCHANGED <<text, fresh>>
    BY <1>9 DEF Succeeds, SameText
  <2>2. DialogTypeOK'
    BY <1>1, <1>2, <1>5, <2>1 DEF DialogTypeOK
  <2>3. Counted'
    BY <1>1, <1>2, <1>7, <2>1 DEF Counted
  <2>4. Waiting'
    BY <1>1, <1>3, <2>1 DEF Waiting
  <2>5. Crossing'
    <3>1. \A t \in sends' : t.here => s.text \in crossed \/ t.text \in crossed
      BY <1>3, <1>9 DEF Crossing
    <3> QED BY <1>1, <1>4, <2>1, <3>1 DEF Crossing
  <2> QED BY <1>6, <2>2, <2>3, <2>4, <2>5
<1>10. CASE ~s.here
  <2>1. UNCHANGED <<text, fresh, result>> /\ s.text # text
    BY <1>10 DEF Succeeds, SameText, Waiting
  <2>2. DialogTypeOK'
    BY <1>1, <1>5, <2>1 DEF DialogTypeOK
  <2>3. Counted'
    <3>1. outcomes[text] > denied[text] => result # 0 \/ \E t \in sends' : t.text = text /\ t.done
      BY <1>1, <2>1 DEF Counted
    <3> QED BY <1>1, <1>7, <2>1, <3>1 DEF Counted
  <2>4. Waiting' /\ Crossing'
    BY <1>1, <1>3, <1>4, <2>1 DEF Waiting, Crossing
  <2> QED BY <1>6, <2>2, <2>3, <2>4
<1> QED BY <1>8, <1>9, <1>10

\* onError: what was made is made twice at most from now on.
LEMMA FailsToSendKept == ASSUME DialogInv, NEW s \in sends, FailsToSend(s) PROVE DialogInv'
<1> USE DEF DialogInv
<1>1. /\ sends' = sends \ {s} /\ awaited' = IF awaited = s.n THEN 0 ELSE awaited
      /\ denied' = IF s.done THEN [denied EXCEPT ![s.text] = @ + 1] ELSE denied
      /\ UNCHANGED <<dialog, sent, outcomes, text, fresh, result, crossed>>
  BY DEF FailsToSend, Settled, SameText
<1>2. s.text \in Texts /\ s.n \in 1 .. sent /\ text \in Texts
  BY SendFields, TextNumbers
<1>3. \A t \in sends' : t \in sends /\ t.n # s.n /\ t.n # 0 /\ t.text # s.text /\ t.text \in Texts
  BY <1>1, SendFields DEF Apart
<1>4. DialogTypeOK'
  <2>1. denied' \in [Texts -> Nat]
    BY <1>1, <1>2 DEF DialogTypeOK
  <2> QED BY <1>1, <2>1 DEF DialogTypeOK
<1>5. Apart' /\ Waiting' /\ Crossing'
  BY <1>1, <1>3 DEF Apart, Waiting, Crossing
<1>6. Counted'
  <2>1. /\ \A n \in Texts : denied[n] <= denied'[n] /\ denied[n] \in Nat /\ denied'[n] \in Nat
        /\ \A n \in Texts : n # s.text => denied'[n] = denied[n]
        /\ s.done => denied'[s.text] = denied[s.text] + 1
    BY <1>1, <1>2 DEF DialogTypeOK
  <2>2. \A n \in Texts : outcomes[n] \in Nat /\ outcomes[n] <= 1 + denied'[n]
    <3>1. \A n \in Texts : outcomes[n] \in Nat /\ outcomes[n] <= 1 + denied[n]
      BY DEF Counted, DialogTypeOK
    <3> QED BY <2>1, <3>1
  <2>3. \A t \in sends' : IF t.done THEN outcomes[t.text] > 0 ELSE outcomes[t.text] <= denied'[t.text]
    BY <1>3, <2>1 DEF Counted
  <2>4. outcomes[text] > denied'[text] => result # 0 \/ \E t \in sends' : t.text = text /\ t.done
    <3>1. CASE s.text = text /\ s.done
      BY <1>2, <2>1, <2>2, <3>1 DEF Counted
    <3>2. CASE ~(s.text = text /\ s.done)
      <4>1. outcomes[text] > denied'[text] => outcomes[text] > denied[text]
        BY <1>2, <2>1, <2>2
      <4> QED BY <1>1, <3>2, <4>1 DEF Counted
    <3> QED BY <3>1, <3>2
  <2> QED BY <1>1, <2>2, <2>3, <2>4 DEF Counted
<1> QED BY <1>4, <1>5, <1>6

THEOREM DialogInvariance == DialogSpec => []DialogInv
<1>1. DialogInv /\ [DialogNext]_dialogvars => DialogInv'
  <2> SUFFICES ASSUME DialogInv, [DialogNext]_dialogvars PROVE DialogInv'
    OBVIOUS
  <2>1. CASE UNCHANGED dialogvars
    BY <2>1 DEF dialogvars, DialogInv, DialogTypeOK, Apart, Counted, Waiting, Crossing
  <2> QED BY <2>1, OpenKept, EditOrCancelKept, AgainKept, LeavePageKept, SubmitKept, MadeKept,
             SucceedsKept, FailsToSendKept DEF DialogNext
<1> QED BY <1>1, DialogStart, PTL DEF DialogSpec

-----------------------------------------------------------------------------
(* The drawers.  A note that is not sent yet is in the form of an open     *)
(* drawer, for the row on show; an order keeps the row it was given for.   *)
(* The copy of a test on show is what the test is, or the answer that says *)
(* so is to come, and at most one thing is asked of a test at a time, so   *)
(* it is one the test still allows when the server does it.                *)

TestStatuses == {"draft", "running", "paused", "completed", "deleted"}

Whats == {"acknowledged", "resolved", "replay", "running", "paused", "completed", "deleted"}

WhatsOf(k) ==
  IF k = "request" THEN {"replay"}
  ELSE IF k = "incident" THEN {"acknowledged", "resolved"}
  ELSE {"running", "paused", "completed", "deleted"}

OrderRecord ==
  [n : Nat, id : Items, what : Whats, note : Items \cup {NoItem}, here : BOOLEAN, done : BOOLEAN]

DrawerTypeOK ==
  /\ drawerOpen \in BOOLEAN /\ resolveForm \in BOOLEAN /\ surprised \in BOOLEAN
  /\ note \in Items \cup {NoItem} /\ comparison \in Items \cup {NoItem}
  /\ orders \subseteq OrderRecord /\ ordered \in Nat
  /\ resolved \in [Items -> Items \cup {NoItem}]
  /\ drawerOpen => selected.id \in Items
  /\ kind = "test" => status \in [Items -> TestStatuses]

\* Of the three only one is there.
OneKind ==
  /\ kind \in {"incident", "request", "test"}
  /\ \A o \in orders : o.what \in WhatsOf(kind)
  /\ kind # "incident" => ~resolveForm /\ note = NoItem
  /\ kind # "request" => comparison = NoItem

NotesFit ==
  /\ note # NoItem => resolveForm
  /\ ~surprised =>
       /\ note \in {NoItem, selected.id}
       /\ \A o \in orders : o.what = "resolved" => o.note \in {NoItem, o.id}

OneAtATime == kind = "test" /\ ~surprised => \A o, p \in orders : o.id = p.id => o = p

DrawerInv == DrawerTypeOK /\ OneKind /\ NotesFit /\ OneAtATime /\ RowsTrue /\ TestsTrue

LEMMA DrawerStart == DrawerInit => DrawerInv
<1> SUFFICES ASSUME DrawerInit PROVE DrawerInv
  OBVIOUS
<1>1. /\ kind \in {"incident", "request", "test"}
      /\ status \in [Items -> IF kind = "test" THEN {"draft", "running", "paused", "completed"} ELSE {"open"}]
      /\ drawerOpen = FALSE /\ resolveForm = FALSE /\ note = NoItem /\ comparison = NoItem
      /\ activeTab = "overview" /\ orders = {} /\ ordered = 0
      /\ resolved = [i \in Items |-> NoItem] /\ surprised = FALSE
  BY DEF DrawerInit
<1>2. DrawerTypeOK
  BY <1>1 DEF DrawerTypeOK, TestStatuses
<1> QED BY <1>1, <1>2 DEF DrawerInv, OneKind, NotesFit, OneAtATime, RowsTrue, TestsTrue

\* Without a test nothing is to be said of it.
LEMMA NoTest ==
  ASSUME DrawerInv, kind # "test", kind' = kind
  PROVE  OneAtATime' /\ TestsTrue' /\ (kind' = "test" => status' \in [Items -> TestStatuses])
BY DEF OneAtATime, TestsTrue

\* What the user does with the row on show, and orders nothing.
LEMMA ShowKept ==
  ASSUME DrawerInv, (\E i \in Items : HandleRowClick(i)) \/ HandleOpenChange \/ ShowResolveForm
                    \/ WriteNote \/ CancelForm \/ Refetched
                    \/ \E t \in {"overview", "replay"} : SetActiveTab(t)
  PROVE  DrawerInv'
<1> DEFINE Rows == DrawerTypeOK /\ OneKind /\ NotesFit /\ RowsTrue
           Tests == OneAtATime /\ TestsTrue
<1>0. Rows /\ Tests /\ UNCHANGED <<kind, status, resolved, orders, ordered>>
  BY DEF DrawerInv, HandleRowClick, HandleOpenChange, ShowResolveForm, WriteNote, CancelForm, Refetched,
         SetActiveTab, Remote, NoOrder, Drawer
<1>a. ASSUME UNCHANGED <<selected, drawerOpen, surprised>> PROVE Tests'
  BY <1>0, <1>a DEF OneAtATime, TestsTrue
<1> USE DEF OneKind, NotesFit, RowsTrue
<1>1. ASSUME NEW i \in Items, HandleRowClick(i) PROVE Rows' /\ Tests'
  <2>1. /\ selected' = RowOf(i, listed[i]) /\ selected'.id = i /\ selected'.status = listed[i]
        /\ ~drawerOpen /\ drawerOpen' = TRUE
        /\ surprised' = (surprised \/ (kind = "test" /\ listed[i] # status[i]))
        /\ UNCHANGED <<resolveForm, note, comparison, activeTab>>
    BY <1>1 DEF HandleRowClick, RowOf
  <2>2. surprised' \in BOOLEAN /\ (~surprised' => ~surprised)
    BY <1>0, <2>1 DEF DrawerTypeOK
  <2>3. Tests'
    BY <1>0, <2>1, <2>2 DEF OneAtATime, TestsTrue
  <2>4. DrawerTypeOK'
    BY <1>0, <2>1, <2>2 DEF DrawerTypeOK
  <2> QED BY <1>0, <2>1, <2>2, <2>3, <2>4
<1>2. ASSUME HandleOpenChange PROVE Rows' /\ Tests'
  <2>1. /\ drawerOpen' = FALSE /\ resolveForm' = FALSE /\ note' = NoItem /\ comparison' = NoItem
        /\ activeTab' = "overview" /\ UNCHANGED <<selected, surprised>>
    BY <1>2 DEF HandleOpenChange, Reset
  <2>2. Tests'
    BY <1>0, <2>1 DEF OneAtATime, TestsTrue
  <2>3. DrawerTypeOK'
    BY <1>0, <2>1 DEF DrawerTypeOK
  <2> QED BY <1>0, <2>1, <2>2, <2>3
<1>3. ASSUME ShowResolveForm PROVE Rows' /\ Tests'
  BY <1>0, <1>3, <1>a DEF ShowResolveForm, Facing, DrawerTypeOK
<1>4. ASSUME WriteNote PROVE Rows' /\ Tests'
  BY <1>0, <1>4, <1>a DEF WriteNote, Facing, DrawerTypeOK
<1>5. ASSUME CancelForm PROVE Rows' /\ Tests'
  BY <1>0, <1>5, <1>a DEF CancelForm, Facing, DrawerTypeOK
<1>6. ASSUME Refetched PROVE Rows' /\ Tests'
  BY <1>0, <1>6, <1>a DEF Refetched, DrawerTypeOK, Drawer
<1>7. ASSUME NEW t, SetActiveTab(t) PROVE Rows' /\ Tests'
  BY <1>0, <1>7, <1>a DEF SetActiveTab, Facing, DrawerTypeOK
<1>8. Rows' /\ Tests'
  BY <1>1, <1>2, <1>3, <1>4, <1>5, <1>6, <1>7
<1> QED BY <1>8 DEF DrawerInv

\* What is ordered is for the row on show, with its note, and of a test what it allows.
LEMMA OrderKept ==
  ASSUME DrawerInv, \/ HandleAcknowledge \/ HandleResolve \/ HandleReplay
                    \/ \E w \in {"running", "paused", "completed", "deleted"} : OrderTest(w)
  PROVE  DrawerInv'
<1>0. DrawerTypeOK /\ OneKind /\ NotesFit /\ OneAtATime /\ RowsTrue /\ TestsTrue
  BY DEF DrawerInv
<1>1. PICK what : /\ Order(what) /\ drawerOpen /\ what \in WhatsOf(kind)
                  /\ kind = "test" =>
                       /\ what \in Moves[selected.status] \cup {"deleted"}
                       /\ surprised' = (surprised \/ Ordered(selected.id))
                  /\ kind # "test" => UNCHANGED surprised
                  /\ UNCHANGED <<resolveForm, note>> \/ (resolveForm' = FALSE /\ note' = NoItem)
                  /\ UNCHANGED <<kind, status, resolved, selected, drawerOpen, comparison, activeTab>>
  BY DEF HandleAcknowledge, HandleResolve, HandleReplay, OrderTest, Facing, WhatsOf, Remote, Drawer
<1>2. PICK new \in OrderRecord : /\ orders' = orders \cup {new}
                                 /\ new.id = selected.id /\ new.what = what /\ new.note = note
                                 /\ new.done = FALSE
  <2>1. [n |-> ordered + 1, id |-> selected.id, what |-> what, note |-> note, here |-> TRUE, done |-> FALSE]
         \in OrderRecord
    BY <1>0, <1>1 DEF DrawerTypeOK, OrderRecord, WhatsOf, Whats, OneKind
  <2> QED BY <1>1, <2>1 DEF Order
<1>3. ordered' \in Nat /\ surprised' \in BOOLEAN /\ (~surprised' => ~surprised)
  <2>1. ordered \in Nat /\ surprised \in BOOLEAN /\ ordered' = ordered + 1
    BY <1>0, <1>1 DEF DrawerTypeOK, Order
  <2>2. surprised' \in BOOLEAN /\ (~surprised' => ~surprised)
    BY <1>1, <2>1, Zenon
  <2> QED BY <2>1, <2>2
<1>4. DrawerTypeOK'
  <2>1. orders' \subseteq OrderRecord /\ note' \in Items \cup {NoItem}
    BY <1>0, <1>1, <1>2 DEF DrawerTypeOK
  <2>2. resolveForm' \in BOOLEAN
    BY <1>0, <1>1, Zenon DEF DrawerTypeOK
  <2> QED BY <1>0, <1>1, <1>3, <2>1, <2>2 DEF DrawerTypeOK
<1>5. OneKind'
  BY <1>0, <1>1, <1>2 DEF OneKind
<1>6. NotesFit' /\ RowsTrue'
  BY <1>0, <1>1, <1>2, <1>3 DEF NotesFit, RowsTrue
<1>7. OneAtATime' /\ TestsTrue'
  BY <1>0, <1>1, <1>2, <1>3 DEF OneAtATime, TestsTrue, Ordered
<1> QED BY <1>4, <1>5, <1>6, <1>7 DEF DrawerInv

\* What the server has done of an order is what the incident or the test is now,
\* and of a test nothing else is asked.
LEMMA CarryKept ==
  ASSUME DrawerInv, NEW o \in orders, Carry(o)
  PROVE  DrawerInv'
<1>0. DrawerTypeOK /\ OneKind /\ NotesFit /\ OneAtATime /\ RowsTrue /\ TestsTrue
  BY DEF DrawerInv
<1>1. /\ o \in OrderRecord /\ o.id \in Items /\ o.id # NoItem /\ o.note \in Items \cup {NoItem}
      /\ o.what \in WhatsOf(kind)
  BY <1>0, DrawerAssumption DEF DrawerTypeOK, OrderRecord, OneKind
<1> DEFINE n == [o EXCEPT !.done = TRUE]
<1>2. n \in OrderRecord /\ n.id = o.id /\ n.what = o.what /\ n.note = o.note /\ n.done = TRUE
  BY <1>1 DEF OrderRecord
<1>3. /\ kind # "request" /\ ~o.done
      /\ orders' = (orders \ {o}) \cup {n}
      /\ status' = [status EXCEPT ![o.id] = o.what]
      /\ resolved' = IF o.what = "resolved" /\ o.note # NoItem THEN [resolved EXCEPT ![o.id] = o.note] ELSE resolved
      /\ UNCHANGED <<kind, selected, drawerOpen, resolveForm, note, comparison, activeTab, ordered, surprised>>
  BY DEF Carry, Drawer
<1> HIDE DEF n
<1>4. resolved' \in [Items -> Items \cup {NoItem}]
  BY <1>0, <1>1, <1>3 DEF DrawerTypeOK
<1>5. kind = "test" => /\ status' \in [Items -> TestStatuses] /\ status'[o.id] = o.what
                       /\ \A i \in Items \ {o.id} : status'[i] = status[i]
  BY <1>0, <1>1, <1>3 DEF DrawerTypeOK, WhatsOf, TestStatuses
<1>6. DrawerTypeOK'
  BY <1>0, <1>2, <1>3, <1>4, <1>5 DEF DrawerTypeOK
<1>7. OneKind' /\ NotesFit'
  BY <1>0, <1>2, <1>3 DEF OneKind, NotesFit
<1>8. RowsTrue'
  BY <1>0, <1>1, <1>3 DEF RowsTrue, NotesFit, DrawerTypeOK
<1>9. OneAtATime'
  BY <1>0, <1>2, <1>3 DEF OneAtATime
<1>10. TestsTrue'
  <2> SUFFICES ASSUME kind = "test", ~surprised PROVE TestsTrue'
    BY <1>3 DEF TestsTrue
  <2>1. drawerOpen' => selected'.status = status'[selected'.id] \/ \E p \in orders' : p.done /\ p.id = selected'.id
    <3>1. CASE selected.id = o.id
      BY <1>2, <1>3, <3>1
    <3>2. CASE selected.id # o.id
      BY <1>0, <1>3, <1>5, <3>2 DEF TestsTrue, DrawerTypeOK
    <3> QED BY <3>1, <3>2
  <2>2. ASSUME NEW p \in orders'
        PROVE  IF p.done THEN p.what = status'[p.id] ELSE p.what \in Moves[status'[p.id]] \cup {"deleted"}
    <3>1. CASE p = n
      BY <1>2, <1>5, <3>1
    <3>2. CASE p # n
      <4>1. p \in orders /\ p.id # o.id /\ p.id \in Items
        BY <1>0, <1>3, <2>2, <3>2 DEF OneAtATime, DrawerTypeOK, OrderRecord
      <4> QED BY <1>0, <1>5, <4>1 DEF TestsTrue
    <3> QED BY <3>1, <3>2
  <2> QED BY <2>1, <2>2 DEF TestsTrue
<1> QED BY <1>6, <1>7, <1>8, <1>9, <1>10 DEF DrawerInv

\* Another user changes no test that is on show or ordered about.
LEMMA OtherKept ==
  ASSUME DrawerInv, NEW i \in Items, NEW what, OtherUpdates(i, what)
  PROVE  DrawerInv'
<1>0. DrawerTypeOK /\ OneKind /\ NotesFit /\ OneAtATime /\ RowsTrue /\ TestsTrue
  BY DEF DrawerInv
<1>1. /\ status' = [status EXCEPT ![i] = what] /\ (kind = "test" => what \in TestStatuses)
      /\ surprised' = (surprised \/ (kind = "test" /\ (Viewing(i) \/ Ordered(i))))
      /\ ordered' = ordered + 1
      /\ UNCHANGED <<kind, selected, drawerOpen, resolveForm, note, comparison, activeTab, orders, resolved>>
  BY DEF OtherUpdates, Drawer, TestStatuses
<1>2. /\ surprised' \in BOOLEAN /\ (~surprised' => ~surprised)
      /\ ~surprised' /\ kind = "test" => ~Viewing(i) /\ ~Ordered(i)
  BY <1>0, <1>1, Zenon DEF DrawerTypeOK, Viewing, Ordered
<1>3. kind = "test" => status' \in [Items -> TestStatuses] /\ \A j \in Items \ {i} : status'[j] = status[j]
  BY <1>0, <1>1 DEF DrawerTypeOK
<1>4. DrawerTypeOK'
  BY <1>0, <1>1, <1>2, <1>3 DEF DrawerTypeOK
<1>5. OneKind' /\ NotesFit' /\ OneAtATime' /\ RowsTrue'
  BY <1>0, <1>1, <1>2 DEF OneKind, NotesFit, OneAtATime, RowsTrue
<1>6. TestsTrue'
  <2> SUFFICES ASSUME kind = "test", ~surprised' PROVE TestsTrue'
    BY <1>1 DEF TestsTrue
  <2>1. /\ ~surprised /\ (drawerOpen => selected.id \in Items \ {i})
        /\ \A o \in orders : o.id \in Items \ {i}
    BY <1>0, <1>2 DEF Viewing, Ordered, DrawerTypeOK, OrderRecord
  <2> QED BY <1>0, <1>1, <1>3, <2>1 DEF TestsTrue
<1> QED BY <1>4, <1>5, <1>6 DEF DrawerInv

\* An answer changes the row or the drawer of its order.
LEMMA AnswerKept ==
  ASSUME DrawerInv, NEW o \in orders,
         IncidentUpdated(o) \/ HandleReplayComplete(o) \/ TestUpdated(o) \/ OrderFails(o)
  PROVE  DrawerInv'
<1>0. DrawerTypeOK /\ OneKind /\ NotesFit /\ OneAtATime /\ RowsTrue /\ TestsTrue
  BY DEF DrawerInv
<1>1. /\ o \in OrderRecord /\ o.id \in Items /\ o.id # NoItem /\ o.here \in BOOLEAN /\ o.done \in BOOLEAN
      /\ o.what \in WhatsOf(kind)
  BY <1>0, DrawerAssumption DEF DrawerTypeOK, OrderRecord, OneKind
<1>3. ASSUME IncidentUpdated(o) PROVE DrawerInv'
  <2>1. /\ orders' = orders \ {o} /\ drawerOpen' = (drawerOpen /\ ~o.here)
        /\ surprised' = (surprised \/ (o.here /\ resolveForm)) /\ kind = "incident"
        /\ UNCHANGED <<kind, resolved, selected, resolveForm, note, comparison, activeTab, ordered>>
    BY <1>3 DEF IncidentUpdated, Remote
  <2>2. surprised' \in BOOLEAN /\ (~surprised' => ~surprised)
    BY <1>0, <1>1, <2>1 DEF DrawerTypeOK
  <2>3. DrawerTypeOK'
    BY <1>0, <1>1, <2>1, <2>2 DEF DrawerTypeOK
  <2>4. OneKind' /\ NotesFit'
    BY <1>0, <2>1, <2>2 DEF OneKind, NotesFit
  <2>5. RowsTrue'
    BY <1>0, <2>1, <2>2 DEF RowsTrue, OneKind, NotesFit, DrawerTypeOK
  <2> QED BY <2>1, <2>3, <2>4, <2>5, NoTest DEF DrawerInv
<1>4. ASSUME HandleReplayComplete(o) PROVE DrawerInv'
  <2>1. /\ orders' = orders \ {o} /\ kind = "request"
        /\ IF o.here THEN comparison' = o.id /\ activeTab' = "replay" ELSE UNCHANGED <<comparison, activeTab>>
        /\ surprised' = (surprised \/ (o.here /\ ~(drawerOpen /\ selected.id = o.id)))
        /\ UNCHANGED <<kind, resolved, selected, drawerOpen, resolveForm, note, ordered>>
    BY <1>0, <1>1, <1>4 DEF HandleReplayComplete, OneKind, WhatsOf, Remote
  <2>2. DrawerTypeOK' /\ OneKind' /\ NotesFit' /\ RowsTrue'
    BY <1>0, <1>1, <2>1 DEF DrawerTypeOK, OneKind, NotesFit, RowsTrue
  <2> QED BY <2>1, <2>2, NoTest DEF DrawerInv
<1>5. ASSUME TestUpdated(o) PROVE DrawerInv'
  <2>1. /\ kind = "test" /\ o.done /\ orders' = orders \ {o}
        /\ TestAnswered(o) /\ surprised' = (surprised \/ (Viewing(o.id) /\ ~o.here))
        /\ UNCHANGED <<kind, status, resolved, resolveForm, note, comparison, activeTab, ordered>>
    BY <1>5 DEF TestUpdated, Remote
  <2>2. surprised' \in BOOLEAN /\ (~surprised' => ~surprised /\ (Viewing(o.id) => o.here))
    BY <1>0, <1>1, <2>1 DEF DrawerTypeOK
  <2>3. OneAtATime'
    BY <1>0, <2>1, <2>2 DEF OneAtATime
  <2>4. CASE o.here
    <3>1. selected' = RowOf(o.id, o.what) /\ drawerOpen' = (o.what # "deleted")
      BY <2>1, <2>4 DEF TestAnswered
    <3>2. selected'.id = o.id /\ selected'.status = o.what
      BY <3>1 DEF RowOf
    <3>3. DrawerTypeOK'
      BY <1>0, <1>1, <2>1, <2>2, <3>1, <3>2 DEF DrawerTypeOK
    <3>4. OneKind' /\ NotesFit' /\ RowsTrue'
      BY <1>0, <2>1, <2>2, <3>1 DEF OneKind, NotesFit, RowsTrue
    <3>5. TestsTrue'
      BY <1>0, <2>1, <2>2, <3>2 DEF TestsTrue
    <3> QED BY <2>3, <3>3, <3>4, <3>5 DEF DrawerInv
  <2>5. CASE ~o.here
    <3>1. UNCHANGED <<selected, drawerOpen>>
      BY <2>1, <2>5 DEF TestAnswered
    <3>2. DrawerTypeOK' /\ OneKind' /\ NotesFit' /\ RowsTrue'
      BY <1>0, <2>1, <2>2, <3>1 DEF DrawerTypeOK, OneKind, NotesFit, RowsTrue
    <3>3. ~surprised' => (drawerOpen => selected.id # o.id)
      BY <2>2, <2>5 DEF Viewing
    <3>4. TestsTrue'
      BY <1>0, <2>1, <2>2, <3>1, <3>3 DEF TestsTrue
    <3> QED BY <2>3, <3>2, <3>4 DEF DrawerInv
  <2> QED BY <2>4, <2>5
<1>7. ASSUME OrderFails(o) PROVE DrawerInv'
  <2>1. /\ orders' = orders \ {o}
        /\ surprised' = (surprised \/ (kind = "test" /\ o.done /\ Viewing(o.id)))
        /\ UNCHANGED <<kind, status, resolved, selected, drawerOpen, resolveForm, note, comparison, activeTab, ordered>>
    BY <1>7 DEF OrderFails, Remote, Drawer
  <2>2. /\ surprised' \in BOOLEAN /\ (~surprised' => ~surprised)
        /\ ~surprised' /\ kind = "test" /\ o.done => (drawerOpen => selected.id # o.id)
    BY <1>0, <1>1, <2>1 DEF DrawerTypeOK, Viewing
  <2>3. DrawerTypeOK' /\ OneKind' /\ NotesFit' /\ OneAtATime' /\ RowsTrue'
    BY <1>0, <2>1, <2>2 DEF DrawerTypeOK, OneKind, NotesFit, OneAtATime, RowsTrue
  <2>4. TestsTrue'
    BY <1>0, <2>1, <2>2 DEF TestsTrue
  <2> QED BY <2>3, <2>4 DEF DrawerInv
<1> QED BY <1>3, <1>4, <1>5, <1>7

LEMMA LeaveListKept == ASSUME DrawerInv, LeaveList PROVE DrawerInv'
<1>0. DrawerTypeOK /\ OneKind /\ NotesFit /\ OneAtATime /\ RowsTrue /\ TestsTrue
  BY DEF DrawerInv
<1>1. /\ drawerOpen' = FALSE /\ resolveForm' = FALSE /\ note' = NoItem /\ comparison' = NoItem
      /\ activeTab' = "overview" /\ orders' = {[o EXCEPT !.here = FALSE] : o \in orders}
      /\ UNCHANGED <<kind, status, resolved, ordered, surprised>>
  BY DEF LeaveList, Reset, Remote
<1>2. \A p \in orders : LET o == [p EXCEPT !.here = FALSE]
                        IN  o \in OrderRecord /\ o.id = p.id /\ o.what = p.what /\ o.note = p.note
                               /\ o.done = p.done
  BY <1>0 DEF DrawerTypeOK, OrderRecord
<1>3. \A o \in orders' : /\ o \in OrderRecord
                         /\ \E p \in orders : o.id = p.id /\ o.what = p.what /\ o.note = p.note /\ o.done = p.done
  BY <1>1, <1>2
<1>4. DrawerTypeOK'
  BY <1>0, <1>1, <1>3 DEF DrawerTypeOK
<1>5. OneKind' /\ NotesFit' /\ RowsTrue' /\ TestsTrue'
  BY <1>0, <1>1, <1>3 DEF OneKind, NotesFit, RowsTrue, TestsTrue
<1>6. OneAtATime'
  <2> SUFFICES ASSUME kind = "test", ~surprised, NEW o \in orders', NEW p \in orders', o.id = p.id PROVE o = p
    BY <1>1 DEF OneAtATime
  <2>1. PICK q \in orders, r \in orders : o = [q EXCEPT !.here = FALSE] /\ p = [r EXCEPT !.here = FALSE]
    BY <1>1
  <2>2. q.id = r.id
    BY <1>2, <2>1
  <2> QED BY <1>0, <2>1, <2>2 DEF OneAtATime
<1> QED BY <1>4, <1>5, <1>6 DEF DrawerInv

THEOREM DrawerInvariance == DrawerSpec => []DrawerInv
<1>1. DrawerInv /\ [DrawerNext]_drawervars => DrawerInv'
  <2> SUFFICES ASSUME DrawerInv, [DrawerNext]_drawervars PROVE DrawerInv'
    OBVIOUS
  <2>1. CASE UNCHANGED drawervars
    BY <2>1 DEF drawervars, DrawerInv, DrawerTypeOK, OneKind, NotesFit, OneAtATime, RowsTrue, TestsTrue
  <2> QED BY <2>1, ShowKept, OrderKept, CarryKept, OtherKept, AnswerKept, LeaveListKept DEF DrawerNext
<1> QED BY <1>1, DrawerStart, PTL DEF DrawerSpec

\* EnteredAndDone: whatever is closed, opened again, left or answered late, what the
\* user enters in a dialog is made once, twice only if it was reported to have
\* failed, a drawer shows and sends what belongs to its row, and an A/B test is
\* shown as it is, or about to be, and told only what it allows.
THEOREM DoneAsEntered == DialogSpec /\ DrawerSpec => []EnteredAndDone
<1>1. DialogInv /\ DrawerInv => EnteredAndDone
  BY DEF DialogInv, DrawerInv, Counted, Crossing, EnteredAndDone, MadeOnce
<1> QED BY <1>1, DialogInvariance, DrawerInvariance, PTL

-----------------------------------------------------------------------------
(* The queries of the pages.  What a page has said has succeeded is known  *)
(* to every entry: it shows it, is being fetched since, or is marked, and  *)
(* the marked ones are fetched when they are on show.                      *)

AllMutations == UNION {Mutations[p] : p \in DOMAIN Mutations}

\* What the mutations write, and invalidate.
LEMMA MutationTable ==
  ASSUME NEW m \in AllMutations
  PROVE  <<m.name, m.parts, m.roots>> \in
           {<<"create_test", {"ab_tests"}, {"ab-tests"}>>,
            <<"delete_test", {"ab_tests", "ab_test"}, {"ab-tests"}>>,
            <<"update_test", {"ab_tests", "ab_test"}, {"ab-tests", "ab-test-results"}>>,
            <<"update_incident", {"incidents"}, {"incidents"}>>,
            <<"evaluate", {"evaluations"}, {"evaluations", "evaluations-summary"}>>,
            <<"create_webhook", {"webhooks"}, {"webhooks"}>>,
            <<"delete_webhook", {"webhooks", "deliveries"}, {"webhooks"}>>,
            <<"test_webhook", {"deliveries"}, {"webhook-deliveries"}>>,
            <<"change_alert_rules", {"alert_rules"}, {"alert-rules"}>>,
            <<"create_environment", {"environments"}, {"environments"}>>,
            <<"clone_environment", {"environments"}, {"environments"}>>,
            <<"delete_environment", {"environments"} \cup OfEnvironment, {"environments"}>>,
            <<"change_limits", {"rate_limits"}, {"rate-limits"}>>}
<1>1. m \in AbTestMutations \cup IncidentMutations \cup EvaluationMutations \cup WebhookMutations
              \cup EnvironmentMutations \cup CloneMutations \cup RateLimitMutations
  BY DEF AllMutations, Mutations
<1> QED BY <1>1 DEF AbTestMutations, IncidentMutations, EvaluationMutations, WebhookMutations,
              EnvironmentMutations, CloneMutations, RateLimitMutations, Mutation

\* Which queries read the parts that are written, and which may pass for empty.
LEMMA QueryTable ==
  ASSUME NEW q \in AllQueries
  PROVE  /\ <<q.part, q.root>> \in
              {<<"ab_tests", "ab-tests">>, <<"ab_test", "ab-test-results">>,
               <<"incidents", "incidents">>, <<"evaluations", "evaluations">>,
               <<"evaluations", "evaluations-summary">>, <<"webhooks", "webhooks">>,
               <<"alert_rules", "alert-rules">>, <<"deliveries", "webhook-deliveries">>,
               <<"environments", "environments">>, <<"environments", "environment-route-counts">>,
               <<"rate_limits", "rate-limits">>, <<"incidents", "dashboard">>,
               <<"routes", "routes">>, <<"routes", "routes-for-ab">>, <<"models", "models">>,
               <<"models", "models-for-ab">>, <<"requests", "dashboard">>, <<"requests", "analytics">>,
               <<"requests", "cache-stats">>, <<"requests", "requests">>, <<"billing", "billing">>}
         /\ q.soft => q.root \in {"routes-for-ab", "models-for-ab", "models", "environment-route-counts"}
<1>1. q \in AbTestQueries \cup IncidentQueries \cup EvaluationQueries \cup WebhookQueries
              \cup EnvironmentQueries \cup RateLimitQueries \cup OverviewQueries \cup AnalyticsQueries
              \cup CacheQueries \cup RequestQueries \cup ReplayQueries \cup BillingQueries
              \cup PlaygroundQueries
  BY DEF AllQueries, PageNames, Queries
<1> USE DEF AbTestQueries, IncidentQueries, EvaluationQueries, WebhookQueries, EnvironmentQueries,
            RateLimitQueries, OverviewQueries, AnalyticsQueries, CacheQueries, RequestQueries,
            ReplayQueries, BillingQueries, PlaygroundQueries, Query, SoftQuery
<1>2. q.soft => q.root \in {"routes-for-ab", "models-for-ab", "models", "environment-route-counts"}
  BY <1>1
<1> QED BY <1>1, <1>2

\* Every mutation invalidates the queries that read what it writes, or overlooks them.
LEMMA TablesFit ==
  ASSUME NEW m \in AllMutations, NEW q \in AllQueries, q.part \in m.parts
  PROVE  q.root \in m.roots \/ <<m.name, q.root>> \in Overlooked
<1>1. CASE m.name = "delete_environment"
  <2>1. m.parts = {"environments"} \cup OfEnvironment /\ m.roots = {"environments"}
    BY <1>1, MutationTable
  <2>2. q.root \in {"environments", "environment-route-counts", "alert-rules", "ab-tests", "ab-test-results",
                    "incidents", "rate-limits", "routes", "routes-for-ab", "dashboard", "analytics",
                    "cache-stats", "requests"}
    BY <2>1, QueryTable DEF OfEnvironment
  <2>3. q.root # "environments" => <<"delete_environment", q.root>> \in Overlooked
    BY <2>2 DEF Overlooked
  <2> QED BY <1>1, <2>1, <2>3
<1>2. CASE m.name # "delete_environment"
  <2>1. q.root \in m.roots \/ <<m.name, q.root>> \in
          {<<"update_incident", "dashboard">>, <<"delete_test", "ab-test-results">>,
           <<"delete_webhook", "webhook-deliveries">>, <<"create_environment", "environment-route-counts">>,
           <<"clone_environment", "environment-route-counts">>}
    BY <1>2, MutationTable, QueryTable
  <2> QED BY <2>1 DEF Overlooked
<1> QED BY <1>1, <1>2

\* What is written to a query that takes a failure for an empty list is overlooked.
LEMMA SoftUnwritten ==
  ASSUME NEW m \in AllMutations, NEW q \in AllQueries, NEW r \in AllQueries, r.soft, r.root = q.root,
         q.part \in m.parts
  PROVE  <<m.name, q.root>> \in Overlooked
<1>1. q.root \in {"routes-for-ab", "models-for-ab", "models", "environment-route-counts"}
  BY QueryTable
<1>2. q.root \notin m.roots
  BY <1>1, MutationTable
<1> QED BY <1>2, TablesFit

EntryRecord == [data : Int, failed : BOOLEAN, invalid : BOOLEAN, since : Int, missed : BOOLEAN]

WriteRecord ==
  [n : Nat, what : AllMutations, here : BOOLEAN, subject : Choices \cup {Nothing}, done : Nat]

\* An entry that has what was told: the t-th write to the part it shows.
Current(k, t) ==
  ~k.missed => IF Fetching(k) THEN k.since >= t
                              ELSE k.data = NoData \/ k.failed \/ k.invalid \/ k.data >= t

LEMMA UnknownFields ==
  /\ Unknown \in EntryRecord
  /\ Unknown.data = NoData /\ Unknown.failed = FALSE /\ Unknown.invalid = FALSE
  /\ Unknown.since = NoData /\ Unknown.missed = FALSE /\ NoData \in Int /\ NoData < 0
BY DEF Unknown, EntryRecord, NoData

LEMMA BegunFields ==
  ASSUME held \in Nat, NEW k \in EntryRecord
  PROVE  /\ Begun(k) \in EntryRecord /\ Fetching(Begun(k))
         /\ Begun(k).since = held /\ Begun(k).missed = FALSE
         /\ Begun(k).data = k.data /\ Begun(k).failed = k.failed /\ Begun(k).invalid = k.invalid
<1>1. Begun(k) \in EntryRecord /\ Begun(k).since = held /\ Begun(k).missed = FALSE
      /\ Begun(k).data = k.data /\ Begun(k).failed = k.failed /\ Begun(k).invalid = k.invalid
  <2>0. held \in Int
    OBVIOUS
  <2>1. Begun(k) \in EntryRecord
    BY <2>0, Zenon DEF Begun, EntryRecord
  <2>2. Begun(k).since = held /\ Begun(k).data = k.data
    BY DEF Begun, EntryRecord
  <2>3. Begun(k).missed = FALSE /\ Begun(k).failed = k.failed /\ Begun(k).invalid = k.invalid
    BY DEF Begun, EntryRecord
  <2> QED BY <2>1, <2>2, <2>3
<1> QED BY <1>1 DEF Fetching, NoData

LEMMA BegunCurrent ==
  ASSUME held \in Nat, NEW k \in EntryRecord, NEW t \in 0 .. held
  PROVE  Current(Begun(k), t)
<1>1. Fetching(Begun(k)) /\ Begun(k).since = held
  BY BegunFields
<1>2. held >= t
  OBVIOUS
<1> QED BY <1>1, <1>2 DEF Current

\* An entry that is marked.
LEMMA MarkedFields ==
  ASSUME NEW k \in EntryRecord, NEW b \in BOOLEAN
  PROVE  /\ [k EXCEPT !.invalid = b] \in EntryRecord /\ [k EXCEPT !.missed = b] \in EntryRecord
         /\ [k EXCEPT !.invalid = TRUE].invalid /\ ~[k EXCEPT !.invalid = FALSE].invalid
         /\ [k EXCEPT !.missed = TRUE].missed /\ ~[k EXCEPT !.missed = FALSE].missed
         /\ [k EXCEPT !.invalid = b].since = k.since /\ [k EXCEPT !.missed = b].since = k.since
         /\ [k EXCEPT !.invalid = b].data = k.data /\ [k EXCEPT !.missed = b].data = k.data
         /\ [k EXCEPT !.invalid = b].missed = k.missed /\ [k EXCEPT !.missed = b].invalid = k.invalid
<1>1. [k EXCEPT !.invalid = b] \in EntryRecord /\ [k EXCEPT !.missed = b] \in EntryRecord
  BY Zenon DEF EntryRecord
<1>2. /\ ([k EXCEPT !.invalid = b].invalid <=> b) /\ ([k EXCEPT !.missed = b].missed <=> b)
      /\ [k EXCEPT !.invalid = b].since = k.since /\ [k EXCEPT !.missed = b].since = k.since
      /\ [k EXCEPT !.invalid = b].data = k.data /\ [k EXCEPT !.missed = b].data = k.data
      /\ [k EXCEPT !.invalid = b].missed = k.missed /\ [k EXCEPT !.missed = b].invalid = k.invalid
  BY Zenon DEF EntryRecord
<1> QED BY <1>1, <1>2

LEMMA MountedCurrent ==
  ASSUME held \in Nat, NEW es \in [Arguments -> EntryRecord], NEW args, NEW old \in BOOLEAN,
         NEW t \in 0 .. held, \A x \in Arguments : Current(es[x], t)
  PROVE  /\ Mounted(es, args, old) \in [Arguments -> EntryRecord]
         /\ \A x \in Arguments :
              /\ Current(Mounted(es, args, old)[x], t)
              /\ x \in args /\ Mounted(es, args, old)[x].invalid => Fetching(Mounted(es, args, old)[x])
              /\ x \notin args => Mounted(es, args, old)[x] = es[x]
<1> SUFFICES ASSUME NEW x \in Arguments
             PROVE  LET k == Mounted(es, args, old)[x]
                    IN  /\ k \in EntryRecord /\ Current(k, t)
                        /\ x \in args /\ k.invalid => Fetching(k)
                        /\ x \notin args => k = es[x]
  BY DEF Mounted
<1>1. es[x] \in EntryRecord /\ Current(es[x], t)
  OBVIOUS
<1>2. CASE x \in args /\ ~Fetching(es[x]) /\ (es[x].data = NoData \/ es[x].invalid \/ old)
  <2>1. Mounted(es, args, old)[x] = Begun(es[x])
    BY <1>2 DEF Mounted
  <2> QED BY <1>1, <1>2, <2>1, BegunFields, BegunCurrent
<1>3. CASE ~(x \in args /\ ~Fetching(es[x]) /\ (es[x].data = NoData \/ es[x].invalid \/ old))
  <2>1. Mounted(es, args, old)[x] = es[x]
    BY <1>3 DEF Mounted
  <2> QED BY <1>1, <1>3, <2>1
<1> QED BY <1>2, <1>3

LEMMA InvalidatedCurrent ==
  ASSUME held \in Nat, entry \in [Arguments -> EntryRecord], NEW args, NEW t \in 0 .. held
  PROVE  /\ Invalidated(args) \in [Arguments -> EntryRecord]
         /\ \A x \in Arguments : Current(Invalidated(args)[x], t)
                                 /\ (x \in args => Fetching(Invalidated(args)[x]))
<1> SUFFICES ASSUME NEW x \in Arguments
             PROVE  LET k == Invalidated(args)[x]
                    IN  k \in EntryRecord /\ Current(k, t) /\ (x \in args => Fetching(k))
  BY DEF Invalidated
<1>1. entry[x] \in EntryRecord
  OBVIOUS
<1>2. PICK k \in EntryRecord : /\ k = [entry[x] EXCEPT !.invalid = entry[x] # Unknown]
                               /\ (k.invalid <=> entry[x] # Unknown) /\ k.since = entry[x].since
                               /\ k.data = entry[x].data /\ k.missed = entry[x].missed
  <2>1. CASE entry[x] # Unknown
    <3>1. [entry[x] EXCEPT !.invalid = entry[x] # Unknown] = [entry[x] EXCEPT !.invalid = TRUE]
      BY <2>1
    <3>2. LET k == [entry[x] EXCEPT !.invalid = TRUE]
          IN  k \in EntryRecord /\ k.since = entry[x].since /\ k.data = entry[x].data /\ k.missed = entry[x].missed
      BY <1>1, MarkedFields
    <3>3. [entry[x] EXCEPT !.invalid = TRUE].invalid
      BY <1>1, MarkedFields
    <3> QED BY <2>1, <3>1, <3>2, <3>3
  <2>2. CASE entry[x] = Unknown
    <3>1. [entry[x] EXCEPT !.invalid = entry[x] # Unknown] = [entry[x] EXCEPT !.invalid = FALSE]
      BY <2>2
    <3>2. LET k == [entry[x] EXCEPT !.invalid = FALSE]
          IN  k \in EntryRecord /\ k.since = entry[x].since /\ k.data = entry[x].data /\ k.missed = entry[x].missed
      BY <1>1, MarkedFields
    <3>3. ~[entry[x] EXCEPT !.invalid = FALSE].invalid
      BY <1>1, MarkedFields
    <3> QED BY <2>2, <3>1, <3>2, <3>3
  <2> QED BY <2>1, <2>2
<1>3. Fetching(k) <=> Fetching(entry[x])
  BY <1>2 DEF Fetching
<1>4. CASE x \in args /\ (k.data # NoData \/ ~Fetching(k))
  <2>1. Invalidated(args)[x] = Begun(k)
    BY <1>2, <1>4 DEF Invalidated
  <2> QED BY <2>1, BegunFields, BegunCurrent
<1>5. CASE ~(x \in args /\ (k.data # NoData \/ ~Fetching(k)))
  <2>1. PICK j \in EntryRecord : /\ j = [k EXCEPT !.missed = @ \/ Fetching(k)]
                                 /\ (j.missed <=> k.missed \/ Fetching(k)) /\ j.since = k.since
                                 /\ j.data = k.data /\ j.invalid = k.invalid
    <3>1. CASE k.missed \/ Fetching(k)
      <4>1. [k EXCEPT !.missed = @ \/ Fetching(k)] = [k EXCEPT !.missed = TRUE]
        BY <3>1
      <4>2. LET j == [k EXCEPT !.missed = TRUE]
            IN  j \in EntryRecord /\ j.since = k.since /\ j.data = k.data /\ j.invalid = k.invalid
        BY MarkedFields
      <4>3. [k EXCEPT !.missed = TRUE].missed
        BY MarkedFields
      <4> QED BY <3>1, <4>1, <4>2, <4>3
    <3>2. CASE ~(k.missed \/ Fetching(k))
      <4>1. [k EXCEPT !.missed = @ \/ Fetching(k)] = [k EXCEPT !.missed = FALSE]
        BY <3>2
      <4>2. LET j == [k EXCEPT !.missed = FALSE]
            IN  j \in EntryRecord /\ j.since = k.since /\ j.data = k.data /\ j.invalid = k.invalid
        BY MarkedFields
      <4>3. ~[k EXCEPT !.missed = FALSE].missed
        BY MarkedFields
      <4> QED BY <3>2, <4>1, <4>2, <4>3
    <3> QED BY <3>1, <3>2
  <2>2. Invalidated(args)[x] = j
    BY <1>2, <1>5, <2>1 DEF Invalidated
  <2>3. Fetching(j) <=> Fetching(k)
    BY <2>1 DEF Fetching
  <2>4. j.data # NoData => j.invalid
    BY <1>2, <2>1, UnknownFields
  <2> QED BY <1>5, <2>1, <2>2, <2>3, <2>4 DEF Current
<1> QED BY <1>4, <1>5

PageTypeOK ==
  /\ page \in PageNames /\ filter \in Filters /\ choice \in Choices \cup {Nothing}
  /\ entry \in [Arguments -> EntryRecord] /\ held \in Nat /\ told \in 0 .. held
  /\ writes \subseteq WriteRecord /\ made \in Nat
  /\ \A w \in writes : w.done <= held + 1

\* Only a query that is written has something told of it.
Followed ==
  /\ \E q \in AllQueries : root = q.root /\ part = q.part
  /\ told > 0 => \E m \in AllMutations : part \in m.parts /\ <<m.name, root>> \notin Overlooked

AllCurrent   == \A x \in Arguments : Current(entry[x], told)
MarkedOnShow == \A x \in Shows : entry[x].invalid => Fetching(entry[x]) \/ entry[x].failed

PageInv == PageTypeOK /\ Followed /\ AllCurrent /\ MarkedOnShow

LEMMA ShownArguments ==
  ASSUME NEW p, NEW f \in Filters, NEW c \in Choices \cup {Nothing}
  PROVE  Shown(p, f, c) \subseteq Arguments
BY DEF Shown, Arguments

LEMMA PageStart == PageInit => PageInv
<1> SUFFICES ASSUME PageInit PROVE PageInv
  OBVIOUS
<1>1. /\ page \in PageNames /\ filter \in Filters /\ choice \in Choices \cup {Nothing}
      /\ held = 0 /\ told = 0 /\ writes = {} /\ made = 0
      /\ \E q \in AllQueries : root = q.root /\ part = q.part
      /\ entry = Mounted([x \in Arguments |-> Unknown], Shows, FALSE)
  BY PagesAssumption DEF PageInit, PagesOf, Shows
<1> DEFINE none == [x \in Arguments |-> Unknown]
<1>2. none \in [Arguments -> EntryRecord] /\ \A x \in Arguments : Current(none[x], 0)
  BY UnknownFields DEF Current, Fetching
<1>3. held \in Nat /\ 0 \in 0 .. held /\ FALSE \in BOOLEAN
  BY <1>1
<1> HIDE DEF none
<1>4. /\ Mounted(none, Shows, FALSE) \in [Arguments -> EntryRecord]
      /\ \A x \in Arguments :
           /\ Current(Mounted(none, Shows, FALSE)[x], 0)
           /\ x \in Shows /\ Mounted(none, Shows, FALSE)[x].invalid => Fetching(Mounted(none, Shows, FALSE)[x])
  BY <1>2, <1>3, MountedCurrent
<1>5. /\ entry \in [Arguments -> EntryRecord]
      /\ \A x \in Arguments : Current(entry[x], 0) /\ (x \in Shows /\ entry[x].invalid => Fetching(entry[x]))
  BY <1>1, <1>4 DEF none
<1>6. Shows \subseteq Arguments
  BY <1>1, ShownArguments DEF Shows
<1>7. PageTypeOK
  BY <1>1, <1>3, <1>5 DEF PageTypeOK
<1>8. Followed
  BY <1>1 DEF Followed
<1>9. AllCurrent /\ MarkedOnShow
  BY <1>1, <1>5, <1>6 DEF AllCurrent, MarkedOnShow
<1> QED BY <1>7, <1>8, <1>9 DEF PageInv

\* The page shows other arguments: those not shown before are mounted.
LEMMA TurnKept ==
  ASSUME PageInv, NEW p \in PageNames, NEW f \in Filters, NEW c \in Choices \cup {Nothing},
         NEW from, Turn(p, f, c, from), from = {} \/ from = Shows, writes' \subseteq WriteRecord,
         \A w \in writes' : \E v \in writes : w.done = v.done
  PROVE  PageInv'
<1> USE DEF PageInv
<1>1. /\ page' = p /\ filter' = f /\ choice' = c /\ UNCHANGED <<root, part, held, made, told>>
      /\ Shows' = Shown(p, f, c)
  BY DEF Turn, Shows, Shown
<1>2. PICK old \in BOOLEAN : entry' = Mounted(entry, Shown(p, f, c) \ from, old)
  BY DEF Turn
<1>3. /\ entry' \in [Arguments -> EntryRecord]
      /\ \A x \in Arguments :
           /\ Current(entry'[x], told)
           /\ x \in Shown(p, f, c) \ from /\ entry'[x].invalid => Fetching(entry'[x])
           /\ x \notin Shown(p, f, c) \ from => entry'[x] = entry[x]
  BY <1>2, MountedCurrent DEF PageTypeOK, AllCurrent
<1>4. PageTypeOK'
  BY <1>1, <1>3 DEF PageTypeOK
<1>5. AllCurrent' /\ Followed'
  BY <1>1, <1>3 DEF AllCurrent, Followed
<1>6. MarkedOnShow'
  <2> SUFFICES ASSUME NEW x \in Shown(p, f, c), entry'[x].invalid PROVE Fetching(entry'[x]) \/ entry'[x].failed
    BY <1>1 DEF MarkedOnShow, Fetching
  <2>1. x \in Arguments
    BY ShownArguments
  <2>2. CASE x \in from
    BY <1>3, <2>1, <2>2 DEF MarkedOnShow
  <2>3. CASE x \notin from
    BY <1>3, <2>1, <2>3
  <2> QED BY <2>2, <2>3
<1> QED BY <1>4, <1>5, <1>6

\* One entry gets another value.
LEMMA EntryKept ==
  ASSUME PageInv, NEW x \in Arguments, NEW k \in EntryRecord, Current(k, told),
         k.invalid => Fetching(k) \/ k.failed, entry' = [entry EXCEPT ![x] = k],
         UNCHANGED <<root, part, page, filter, choice, held, writes, made, told>>
  PROVE  PageInv'
<1> USE DEF PageInv
<1>1. /\ entry' \in [Arguments -> EntryRecord] /\ entry'[x] = k
      /\ \A y \in Arguments : y # x => entry'[y] = entry[y]
  BY DEF PageTypeOK
<1>2. Shows' = Shows /\ Shows \subseteq Arguments
  BY ShownArguments DEF Shows, Shown, PageTypeOK
<1>3. PageTypeOK' /\ Followed'
  BY <1>1 DEF PageTypeOK, Followed
<1>4. AllCurrent'
  BY <1>1 DEF AllCurrent
<1>5. MarkedOnShow'
  BY <1>1, <1>2 DEF MarkedOnShow, Fetching
<1> QED BY <1>3, <1>4, <1>5

\* The fields of an answer, of which the client knows nothing else.
LEMMA AnswerFields ==
  ASSUME NEW n \in Int, NEW b \in BOOLEAN
  PROVE  LET k == [Unknown EXCEPT !.data = n, !.missed = b]
         IN  /\ k \in EntryRecord /\ k.data = n /\ (b => k.missed) /\ ~Fetching(k) /\ ~k.invalid
<1> DEFINE k == [Unknown EXCEPT !.data = n, !.missed = b]
<1>1. Unknown \in EntryRecord
  BY UnknownFields
<1>2. k \in EntryRecord
  BY <1>1, Zenon DEF EntryRecord
<1>3. k.data = n /\ k.since = Unknown.since
  BY <1>1 DEF EntryRecord
<1>4. ~k.invalid
  BY <1>1, UnknownFields DEF EntryRecord
<1>5. b => k.missed
  BY <1>1 DEF EntryRecord
<1>6. ~Fetching(k)
  BY <1>3, UnknownFields DEF Fetching
<1> QED BY <1>2, <1>3, <1>4, <1>5, <1>6

\* The fields of an entry whose request has failed.
LEMMA FailedFields ==
  ASSUME NEW k \in EntryRecord
  PROVE  LET j == [k EXCEPT !.failed = TRUE, !.since = NoData]
         IN  j \in EntryRecord /\ j.failed /\ ~Fetching(j)
<1> DEFINE j == [k EXCEPT !.failed = TRUE, !.since = NoData]
<1>1. NoData \in Int
  BY UnknownFields
<1>2. j \in EntryRecord
  BY <1>1, Zenon DEF EntryRecord
<1>3. j.failed
  BY DEF EntryRecord
<1>4. j.since = NoData
  BY DEF EntryRecord
<1> QED BY <1>2, <1>3, <1>4 DEF Fetching

LEMMA AnswersKept ==
  ASSUME PageInv, NEW x \in Arguments, EntryFetched(x) \/ EntryFails(x)
  PROVE  PageInv'
<1> USE DEF PageInv
<1>1. /\ Fetching(entry[x]) /\ entry[x] \in EntryRecord /\ entry[x].missed \in BOOLEAN
      /\ Current(entry[x], told)
      /\ UNCHANGED <<root, part, page, filter, choice, held, writes, made, told>>
  BY DEF EntryFetched, EntryFails, Arrives, PageTypeOK, AllCurrent, EntryRecord
<1>2. told \in Nat /\ held \in Nat
  BY DEF PageTypeOK
<1>3. CASE EntryFetched(x)
  <2>1. PICK n \in entry[x].since .. held :
          entry' = [entry EXCEPT ![x] = [Unknown EXCEPT !.data = n, !.missed = entry[x].missed]]
    BY <1>3 DEF EntryFetched, Arrives
  <2>2. PICK k \in EntryRecord : /\ entry' = [entry EXCEPT ![x] = k]
                                 /\ k.data = n /\ (entry[x].missed => k.missed)
                                 /\ ~Fetching(k) /\ ~k.invalid
    <3>1. n \in Int
      BY <1>1, <1>2, <2>1 DEF EntryRecord
    <3> DEFINE k == [Unknown EXCEPT !.data = n, !.missed = entry[x].missed]
    <3>2. /\ k \in EntryRecord /\ k.data = n /\ (entry[x].missed => k.missed)
          /\ ~Fetching(k) /\ ~k.invalid
      BY <1>1, <3>1, AnswerFields
    <3>3. entry' = [entry EXCEPT ![x] = k]
      BY <2>1
    <3> HIDE DEF k
    <3> QED BY <3>2, <3>3
  <2>3. Current(k, told)
    BY <1>1, <1>2, <2>1, <2>2 DEF Current, EntryRecord
  <2> QED BY <1>1, <2>2, <2>3, EntryKept
<1>4. CASE EntryFails(x)
  <2>1. PICK r \in AllQueries :
          /\ r.root = root
          /\ entry' = [entry EXCEPT ![x] =
               IF r.soft THEN [Unknown EXCEPT !.data = 0, !.missed = entry[x].missed]
               ELSE [entry[x] EXCEPT !.failed = TRUE, !.since = NoData]]
    BY <1>4 DEF EntryFails, Arrives
  <2>2. CASE r.soft
    <3>1. PICK k \in EntryRecord : /\ entry' = [entry EXCEPT ![x] = k]
                                   /\ k.data = 0 /\ ~Fetching(k) /\ ~k.invalid
      <4> DEFINE k == [Unknown EXCEPT !.data = 0, !.missed = entry[x].missed]
      <4>1. k \in EntryRecord /\ k.data = 0 /\ ~Fetching(k) /\ ~k.invalid
        <5>1. 0 \in Int /\ entry[x].missed \in BOOLEAN
          BY <1>1
        <5> QED BY <5>1, AnswerFields
      <4>2. entry' = [entry EXCEPT ![x] = k]
        BY <2>1, <2>2
      <4> HIDE DEF k
      <4> QED BY <4>1, <4>2
    <3>2. told = 0
      <4> SUFFICES ASSUME told > 0 PROVE FALSE
        BY <1>2
      <4>1. PICK m \in AllMutations : part \in m.parts /\ <<m.name, root>> \notin Overlooked
        BY DEF Followed
      <4>2. PICK q \in AllQueries : root = q.root /\ part = q.part
        BY DEF Followed
      <4> QED BY <2>1, <2>2, <4>1, <4>2, SoftUnwritten
    <3>3. Current(k, told)
      BY <3>1, <3>2 DEF Current
    <3> QED BY <1>1, <3>1, <3>3, EntryKept
  <2>3. CASE ~r.soft
    <3>1. PICK k \in EntryRecord : entry' = [entry EXCEPT ![x] = k] /\ k.failed /\ ~Fetching(k)
      BY <1>1, <2>1, <2>3, FailedFields
    <3> QED BY <1>1, <3>1, EntryKept DEF Current
  <2> QED BY <2>2, <2>3
<1> QED BY <1>3, <1>4

LEMMA GoToKept == ASSUME PageInv, NEW p \in PagesOf, GoTo(p) PROVE PageInv'
<1>1. /\ writes' = {[w EXCEPT !.here = FALSE] : w \in writes} /\ Turn(p, "all", Nothing, {})
      /\ p \in PageNames /\ "all" \in Filters
  BY PagesAssumption DEF GoTo, PagesOf
<1>2. \A v \in writes : LET w == [v EXCEPT !.here = FALSE] IN w \in WriteRecord /\ w.done = v.done
  <2> TAKE v \in writes
  <2>1. v \in WriteRecord
    BY DEF PageInv, PageTypeOK
  <2> QED BY <2>1 DEF WriteRecord
<1>3. writes' \subseteq WriteRecord /\ \A w \in writes' : \E v \in writes : w.done = v.done
  BY <1>1, <1>2
<1> QED BY <1>1, <1>3, TurnKept

LEMMA FilterOrChooseKept ==
  ASSUME PageInv, (\E f \in Filters : FilterBy(f)) \/ (\E c \in Choices \cup {Nothing} : Choose(c))
  PROVE  PageInv'
<1>1. /\ page \in PageNames /\ filter \in Filters /\ choice \in Choices \cup {Nothing}
      /\ writes' = writes /\ writes \subseteq WriteRecord
  BY DEF PageInv, PageTypeOK, FilterBy, Choose
<1>2. PICK f \in Filters, c \in Choices \cup {Nothing} : Turn(page, f, c, Shows)
  BY <1>1 DEF FilterBy, Choose
<1> QED BY <1>1, <1>2, TurnKept

LEMMA RefetchKept == ASSUME PageInv, NEW x \in Shows, RefetchEntry(x) PROVE PageInv'
<1>1. x \in Arguments /\ entry[x] \in EntryRecord /\ held \in Nat /\ told \in 0 .. held
  BY ShownArguments DEF PageInv, PageTypeOK, Shows
<1>2. /\ entry' = [entry EXCEPT ![x] = Begun(entry[x])]
      /\ UNCHANGED <<root, part, page, filter, choice, held, writes, made, told>>
  BY DEF RefetchEntry
<1>3. Begun(entry[x]) \in EntryRecord /\ Current(Begun(entry[x]), told) /\ Fetching(Begun(entry[x]))
  BY <1>1, BegunFields, BegunCurrent
<1> QED BY <1>1, <1>2, <1>3, EntryKept

LEMMA MutationsKnown == ASSUME NEW p, NEW m \in MutationsOf(p) PROVE m \in AllMutations
BY DEF MutationsOf, AllMutations

LEMMA MutateKept == ASSUME PageInv, NEW m \in AllMutations, Mutate(m) PROVE PageInv'
<1>1. /\ made' = made + 1 /\ made \in Nat
      /\ writes' = writes \cup {[n |-> made + 1, what |-> m, here |-> TRUE, subject |-> choice, done |-> 0]}
      /\ UNCHANGED <<root, part, page, filter, choice, entry, held, told>>
  BY DEF Mutate, PageInv, PageTypeOK
<1>2. PICK new \in WriteRecord : writes' = writes \cup {new} /\ new.done = 0
  <2>1. [n |-> made + 1, what |-> m, here |-> TRUE, subject |-> choice, done |-> 0] \in WriteRecord
    BY <1>1 DEF WriteRecord, PageInv, PageTypeOK
  <2> QED BY <1>1, <2>1
<1>3. PageTypeOK'
  <2>1. writes' \subseteq WriteRecord
    BY <1>2 DEF PageInv, PageTypeOK
  <2>2. \A w \in writes' : w.done <= held + 1
    BY <1>2 DEF PageInv, PageTypeOK
  <2> QED BY <1>1, <2>1, <2>2 DEF PageInv, PageTypeOK
<1>4. Followed' /\ AllCurrent'
  BY <1>1 DEF PageInv, Followed, AllCurrent
<1>5. MarkedOnShow'
  BY <1>1 DEF PageInv, MarkedOnShow, Shows, Shown
<1> QED BY <1>3, <1>4, <1>5 DEF PageInv

LEMMA CommitKept == ASSUME PageInv, NEW w \in writes, Commit(w) PROVE PageInv'
<1>1. /\ held' \in {held, held + 1} /\ held \in Nat /\ told \in 0 .. held
      /\ writes' = (writes \ {w}) \cup {[w EXCEPT !.done = held' + 1]}
      /\ UNCHANGED <<root, part, page, filter, choice, entry, made, told>>
  BY DEF Commit, PageInv, PageTypeOK
<1>2. PICK new \in WriteRecord : writes' = (writes \ {w}) \cup {new} /\ new.done = held' + 1
  <2>1. w \in WriteRecord /\ held' + 1 \in Nat
    BY <1>1 DEF PageInv, PageTypeOK
  <2>2. [w EXCEPT !.done = held' + 1] \in WriteRecord /\ [w EXCEPT !.done = held' + 1].done = held' + 1
    BY <2>1 DEF WriteRecord
  <2> QED BY <1>1, <2>2
<1>3. PageTypeOK'
  <2>1. writes' \subseteq WriteRecord /\ held' \in Nat /\ told \in 0 .. held'
    BY <1>1, <1>2 DEF PageInv, PageTypeOK
  <2>2. \A v \in writes' : v.done <= held' + 1
    <3>1. \A v \in writes : v.done \in Nat /\ v.done <= held + 1
      BY DEF PageInv, PageTypeOK, WriteRecord
    <3> QED BY <1>1, <1>2, <3>1
  <2> QED BY <1>1, <2>1, <2>2 DEF PageInv, PageTypeOK
<1>4. Followed' /\ AllCurrent'
  BY <1>1 DEF PageInv, Followed, AllCurrent
<1>5. MarkedOnShow'
  BY <1>1 DEF PageInv, MarkedOnShow, Shows, Shown
<1> QED BY <1>3, <1>4, <1>5 DEF PageInv

LEMMA FailureKept == ASSUME PageInv, NEW w \in writes, OnFailure(w) PROVE PageInv'
<1>1. writes' \subseteq writes /\ UNCHANGED <<root, part, page, filter, choice, entry, held, made, told>>
  BY DEF OnFailure
<1>2. PageTypeOK'
  BY <1>1 DEF PageInv, PageTypeOK
<1>3. Followed' /\ AllCurrent'
  BY <1>1 DEF PageInv, Followed, AllCurrent
<1>4. MarkedOnShow'
  BY <1>1 DEF PageInv, MarkedOnShow, Shows, Shown
<1> QED BY <1>2, <1>3, <1>4 DEF PageInv

\* onSuccess: what is told of a write is told of an entry that shows it, or is
\* marked, or fetched from now on.
LEMMA SuccessKept == ASSUME PageInv, NEW w \in writes, OnSuccess(w) PROVE PageInv'
<1> USE DEF PageInv
<1> DEFINE es == IF root \in w.what.roots THEN Invalidated(Shows) ELSE entry
<1>1. /\ w \in WriteRecord /\ w.done \in Nat /\ w.done # 0 /\ w.done <= held + 1 /\ w.what \in AllMutations
      /\ w.subject \in Choices \cup {Nothing} /\ held \in Nat /\ told \in 0 .. held
  BY DEF OnSuccess, PageTypeOK, WriteRecord
<1>2. PICK picked \in Choices \cup {Nothing} :
        /\ entry' = Mounted(es, Shown(page, filter, picked) \ Shows, FALSE)
        /\ choice' = picked /\ writes' = writes \ {w}
        /\ told' = IF part \in w.what.parts /\ <<w.what.name, root>> \notin Overlooked /\ w.done - 1 > told
                   THEN w.done - 1 ELSE told
        /\ UNCHANGED <<root, part, page, filter, held, made>>
  BY <1>1 DEF OnSuccess, PageTypeOK
<1>3. told' \in 0 .. held
  BY <1>1, <1>2
<1>4. told' # told => part \in w.what.parts /\ <<w.what.name, root>> \notin Overlooked
  BY <1>2
<1>5. told' # told => root \in w.what.roots
  BY <1>1, <1>4, TablesFit DEF Followed
<1>6. Shows \subseteq Arguments /\ Shown(page, filter, picked) \subseteq Arguments
  BY ShownArguments DEF Shows, PageTypeOK
<1>7. PICK t \in 0 .. held : t = told'
  BY <1>3
<1>8. /\ es \in [Arguments -> EntryRecord]
      /\ \A x \in Arguments : /\ Current(es[x], t)
                              /\ x \in Shows /\ es[x].invalid => Fetching(es[x]) \/ es[x].failed
  <2>1. CASE root \in w.what.roots
    BY <1>1, <1>7, <2>1, InvalidatedCurrent DEF PageTypeOK
  <2>2. CASE root \notin w.what.roots
    BY <1>5, <1>7, <2>2 DEF PageTypeOK, AllCurrent, MarkedOnShow
  <2> QED BY <2>1, <2>2
<1> HIDE DEF es
<1> DEFINE ms == Mounted(es, Shown(page, filter, picked) \ Shows, FALSE)
<1>9. /\ ms \in [Arguments -> EntryRecord]
      /\ \A x \in Arguments :
           /\ Current(ms[x], t)
           /\ x \in Shown(page, filter, picked) \ Shows /\ ms[x].invalid => Fetching(ms[x])
           /\ x \notin Shown(page, filter, picked) \ Shows => ms[x] = es[x]
  <2>1. FALSE \in BOOLEAN /\ held \in Nat
    BY <1>1
  <2> QED BY <1>8, <2>1, MountedCurrent
<1>10. entry' = ms
  BY <1>2
<1> HIDE DEF ms
<1>11. PageTypeOK'
  BY <1>1, <1>2, <1>3, <1>9, <1>10 DEF PageTypeOK
<1>12. Followed'
  BY <1>1, <1>2, <1>4 DEF Followed
<1>13. AllCurrent'
  BY <1>7, <1>9, <1>10 DEF AllCurrent
<1>14. MarkedOnShow'
  <2>1. Shows' = Shown(page, filter, picked)
    BY <1>2 DEF Shows, Shown
  <2>2. ASSUME NEW x \in Shown(page, filter, picked), ms[x].invalid PROVE Fetching(ms[x]) \/ ms[x].failed
    <3>1. CASE x \in Shows
      BY <1>6, <1>8, <1>9, <2>2, <3>1
    <3>2. CASE x \notin Shows
      BY <1>6, <1>9, <2>2, <3>2
    <3> QED BY <3>1, <3>2
  <2> QED BY <1>10, <2>1, <2>2 DEF MarkedOnShow, Fetching
<1> QED BY <1>11, <1>12, <1>13, <1>14

\* OwnWriteShown: once a page has said that a write has succeeded, what reads it
\* shows it, is being fetched or has failed, whichever pages came in between.
THEOREM WritesAreShown == PageSpec => []OwnWriteShown
<1>1. PageInv /\ [PageNext]_pagevars => PageInv'
  <2> SUFFICES ASSUME PageInv, [PageNext]_pagevars PROVE PageInv'
    OBVIOUS
  <2>1. CASE UNCHANGED pagevars
    BY <2>1 DEF pagevars, PageInv, PageTypeOK, Followed, AllCurrent, MarkedOnShow, Shows, Shown
  <2> QED BY <2>1, GoToKept, FilterOrChooseKept, RefetchKept, AnswersKept, MutationsKnown, MutateKept,
             CommitKept, SuccessKept, FailureKept DEF PageNext
<1>2. PageInv => OwnWriteShown
  <2> SUFFICES ASSUME PageInv, NEW x \in Shows
               PROVE  LET k == entry[x]
                      IN  Fetching(k) \/ k.failed \/ k.data = NoData \/ k.missed \/ k.data >= told
    BY DEF OwnWriteShown
  <2>1. x \in Arguments
    BY ShownArguments DEF Shows, PageInv, PageTypeOK
  <2> QED BY <2>1 DEF PageInv, AllCurrent, MarkedOnShow, Current
<1> QED BY <1>1, <1>2, PageStart, PTL DEF PageSpec

-----------------------------------------------------------------------------
(* The chat.  One ask at most streams into the page on show.  Its render   *)
(* has the chat without its exchange, unless that was cleared or replaced, *)
(* and the sessions of the page: those stored, behind the ones the browser *)
(* refused to store, unless the stored ones were changed besides.          *)

Message == [by : {"user", "assistant"}, ask : Int]
Session == [model : Models, messages : Seq(Message), meta : Int]
Ask     == [n : Nat, visit : Nat, model : Models, messages : Seq(Message), sessions : Seq(Session),
            meta : Int, partial : BOOLEAN]

ChatTypeOK ==
  /\ chat \in Seq(Message) /\ past \in Seq(Session) /\ stored \in Seq(Session) /\ other \in Seq(Session)
  /\ Len(past) <= MaxPast /\ Len(stored) <= MaxPast /\ Len(other) <= MaxPast
  /\ streaming \in BOOLEAN /\ typed \in BOOLEAN /\ away \in BOOLEAN
  /\ figures \in Int /\ visit \in Nat /\ asked \in Nat
  /\ selectedModel \in Models \cup {NoModel}
  /\ asks \subseteq Ask /\ parted \subseteq 0 .. asked
  /\ \A a \in asks : a.n \in 1 .. asked /\ a.visit <= visit /\ Len(a.sessions) <= MaxPast

\* One ask has the page, and what is typed is its own.
OnePresent ==
  /\ \A a, b \in asks : a.n = b.n \/ (Present(a) /\ Present(b)) => a = b
  /\ \A a \in asks : ~a.partial /\ (Present(a) => streaming)
  /\ typed => streaming

Reaches(older, newer) == \E n \in 0 .. MaxPast : Behind(older, newer, n)

\* Who streams into the page was asked at the end of the chat, and has the sessions.
Rendered ==
  /\ \A a \in asks : Present(a) /\ a.n \notin upset => chat = Append(a.messages, Said("user", a.n))
  /\ \A a \in asks : a.n \notin parted => Reaches(stored, a.sessions)
  /\ \A a \in asks : Present(a) => IF a.n \notin parted THEN past = a.sessions ELSE 0 \in parted \/ stored = <<>>
  /\ ~away /\ 0 \notin parted => Reaches(stored, past)

Holds(messages, n) == \E i \in 1 .. Len(messages) : messages[i] = Said("assistant", n)
Keeps(sessions, n) == \E i \in 1 .. Len(sessions) : Holds(sessions[i].messages, n)

\* An answer is nowhere before it is complete.
Unanswered(n) ==
  /\ ~Holds(chat, n) /\ ~Keeps(past, n) /\ ~Keeps(stored, n) /\ ~Keeps(other, n)
  /\ \A a \in asks : ~Holds(a.messages, n) /\ ~Keeps(a.sessions, n)

NoneAnswered == \A n \in Nat : n \in Running \/ n > asked => Unanswered(n)

ChatInv == ChatTypeOK /\ OnePresent /\ Rendered /\ NoneAnswered

\* A list of sessions is behind itself, and stays behind what is behind a newer session.
LEMMA BehindSelf ==
  ASSUME NEW old \in Seq(Session), Len(old) <= MaxPast
  PROVE  Behind(old, old, 0) /\ Reaches(old, old)
<1>1. Len(old) \in Nat /\ MaxPast \in Nat
  BY ChatAssumption
<1>2. Behind(old, old, 0)
  BY <1>1 DEF Behind
<1> QED BY <1>1, <1>2 DEF Reaches

LEMMA BehindMore ==
  ASSUME NEW s \in Seq(Session), NEW t \in Seq(Session), NEW r \in Seq(Session),
         Len(s) <= MaxPast, Len(t) <= MaxPast, Reaches(s, t), Behind(t, r, 1)
  PROVE  \E n \in 1 .. MaxPast : Behind(s, r, n)
<1>1. Len(s) \in Nat /\ Len(t) \in Nat /\ Len(r) \in Nat /\ MaxPast \in Nat /\ MaxPast >= 1
  BY ChatAssumption
<1>2. PICK n \in 0 .. MaxPast : Behind(s, t, n)
  BY DEF Reaches
<1>3. PICK k \in 1 .. MaxPast : k = IF n < MaxPast THEN n + 1 ELSE MaxPast
  BY <1>1
<1>4. /\ Len(t) = IF Len(s) + n < MaxPast THEN Len(s) + n ELSE MaxPast
      /\ Len(r) = IF Len(t) + 1 < MaxPast THEN Len(t) + 1 ELSE MaxPast
  BY <1>2 DEF Behind
<1>5. Len(r) = IF Len(s) + k < MaxPast THEN Len(s) + k ELSE MaxPast
  BY <1>1, <1>3, <1>4
<1>6. ASSUME NEW i \in 1 .. Len(s), i + k <= MaxPast
      PROVE  r[i + k] = s[i]
  <2>1. k = n + 1 /\ i + n <= MaxPast /\ i + n \in 1 .. Len(t) /\ (i + n) + 1 = i + k /\ (i + n) + 1 <= MaxPast
    BY <1>1, <1>3, <1>4, <1>6
  <2>2. t[i + n] = s[i]
    BY <1>2, <2>1 DEF Behind
  <2>3. \A j \in 1 .. Len(t) : j + 1 <= MaxPast => r[j + 1] = t[j]
    BY DEF Behind
  <2>4. r[(i + n) + 1] = t[i + n]
    BY <2>1, <2>3
  <2> QED BY <2>1, <2>2, <2>4
<1>7. Behind(s, r, k)
  BY <1>5, <1>6 DEF Behind
<1> QED BY <1>7

LEMMA ChatStart == ChatInit => ChatInv
<1> SUFFICES ASSUME ChatInit PROVE ChatInv
  OBVIOUS
<1>1. chat = <<>> /\ past = <<>> /\ stored = <<>> /\ other = <<>> /\ asks = {} /\ asked = 0 /\ visit = 1 /\ figures = 0
      /\ streaming = FALSE /\ typed = FALSE /\ away = FALSE /\ selectedModel = NoModel /\ parted = {}
  BY DEF ChatInit
<1>2. ChatTypeOK
  <2>1. <<>> \in Seq(Message) /\ <<>> \in Seq(Session) /\ Len(<<>>) <= MaxPast
    BY ChatAssumption
  <2>2. /\ chat \in Seq(Message) /\ past \in Seq(Session) /\ stored \in Seq(Session) /\ other \in Seq(Session)
        /\ Len(past) <= MaxPast /\ Len(stored) <= MaxPast /\ Len(other) <= MaxPast
    BY <1>1, <2>1
  <2>3. figures \in Int /\ visit \in Nat /\ asked \in Nat
    BY <1>1
  <2> QED BY <1>1, <2>2, <2>3 DEF ChatTypeOK
<1>3. OnePresent /\ Rendered
  <2>1. Reaches(stored, past)
    BY <1>1, <1>2, BehindSelf DEF ChatTypeOK
  <2> QED BY <1>1, <2>1 DEF OnePresent, Rendered
<1>4. NoneAnswered
  BY <1>1 DEF NoneAnswered, Unanswered, Holds, Keeps
<1> QED BY <1>2, <1>3, <1>4 DEF ChatInv

LEMMA SaidMessage ==
  ASSUME NEW n \in Nat
  PROVE  /\ Said("user", n) \in Message /\ Said("assistant", n) \in Message
         /\ \A m \in Nat : Said("user", n) # Said("assistant", m)
                           /\ (Said("assistant", n) = Said("assistant", m) => n = m)
BY DEF Said, Message

\* A session is saved before those of the render.
NewestIs(r, s, old) ==
  /\ r \in Seq(Session) /\ Len(r) >= 1 /\ Len(r) <= MaxPast /\ r[1] = s
  /\ \A i \in 2 .. Len(r) : i - 1 \in 1 .. Len(old) /\ r[i] = old[i - 1]
  /\ Behind(old, r, 1)

LEMMA SavedSession ==
  ASSUME NEW s \in Session, NEW old \in Seq(Session)
  PROVE  NewestIs(Saved(s, old), s, old)
<1>0. PICK r : r = Saved(s, old)
  OBVIOUS
<1> DEFINE all  == <<s>> \o old
           kept == IF Len(old) < MaxPast THEN Len(old) + 1 ELSE MaxPast
<1>1. /\ all \in Seq(Session) /\ Len(all) = Len(old) + 1 /\ all[1] = s /\ Len(old) \in Nat
      /\ \A i \in 2 .. Len(old) + 1 : all[i] = old[i - 1]
  OBVIOUS
<1>2. kept \in 1 .. Len(old) + 1 /\ kept <= MaxPast /\ MaxPast \in Nat
  BY ChatAssumption
<1>3. SubSeq(all, 1, kept) \in Seq(Session) /\ Len(SubSeq(all, 1, kept)) = kept
      /\ \A i \in 1 .. kept : SubSeq(all, 1, kept)[i] = all[i]
  <2> HIDE DEF all, kept
  <2> QED BY <1>1, <1>2, SubSeqProperties
<1>4. r = SubSeq(all, 1, kept)
  BY <1>0 DEF Saved
<1>5. Len(r) = IF Len(old) + 1 < MaxPast THEN Len(old) + 1 ELSE MaxPast
  <2>1. Len(r) = kept
    BY <1>3, <1>4
  <2> QED BY <1>1, <1>2, <2>1
<1>6. kept = IF Len(old) < MaxPast THEN Len(old) + 1 ELSE MaxPast
  OBVIOUS
<1> HIDE DEF all, kept
<1>7. r \in Seq(Session) /\ Len(r) = kept /\ \A i \in 1 .. kept : r[i] = all[i]
  BY <1>3, <1>4
<1>8. 1 \in 1 .. kept /\ kept >= 1 /\ \A i \in 2 .. kept : i \in 1 .. kept /\ i \in 2 .. Len(old) + 1 /\ i - 1 \in 1 .. Len(old)
  BY <1>1, <1>2
<1>9. /\ Len(r) >= 1 /\ Len(r) <= MaxPast /\ r[1] = s
      /\ \A i \in 2 .. Len(r) : i - 1 \in 1 .. Len(old) /\ r[i] = old[i - 1]
  BY <1>1, <1>2, <1>7, <1>8
<1>10. ASSUME NEW i \in 1 .. Len(old), i + 1 <= MaxPast
       PROVE  r[i + 1] = old[i]
  <2>1. i + 1 \in 2 .. Len(r) /\ (i + 1) - 1 = i
    BY <1>1, <1>2, <1>6, <1>7, <1>10
  <2> QED BY <1>9, <2>1
<1>11. Behind(old, r, 1)
  BY <1>5, <1>10 DEF Behind
<1> QED BY <1>0, <1>7, <1>9, <1>11 DEF NewestIs

LEMMA SavedAsk ==
  ASSUME NEW a, a.sessions \in Seq(Session), NEW s \in Session, s.model = a.model
  PROVE  NewestIs(Saved([model |-> a.model, messages |-> s.messages, meta |-> s.meta], a.sessions), s, a.sessions)
<1>1. s = [model |-> a.model, messages |-> s.messages, meta |-> s.meta]
  BY DEF Session
<1> QED BY <1>1, SavedSession

\* A message is appended: only the answer with its number is then held.
LEMMA HoldsAppend ==
  ASSUME NEW messages \in Seq(Message), NEW x \in Message, NEW n
  PROVE  Holds(Append(messages, x), n) <=> Holds(messages, n) \/ x = Said("assistant", n)
<1>1. /\ Len(Append(messages, x)) = Len(messages) + 1 /\ Len(messages) \in Nat
      /\ Append(messages, x)[Len(messages) + 1] = x
      /\ \A i \in 1 .. Len(messages) : Append(messages, x)[i] = messages[i]
  OBVIOUS
<1> DEFINE all == Append(messages, x)
<1> HIDE DEF all
<1>2. /\ Len(all) = Len(messages) + 1 /\ all[Len(messages) + 1] = x
      /\ \A i \in 1 .. Len(messages) : all[i] = messages[i]
  BY <1>1 DEF all
<1>3. \A i \in 1 .. Len(all) : i \in 1 .. Len(messages) \/ i = Len(messages) + 1
  BY <1>1, <1>2
<1>4. Len(messages) + 1 \in 1 .. Len(all) /\ \A i \in 1 .. Len(messages) : i \in 1 .. Len(all)
  BY <1>1, <1>2
<1>5. Holds(all, n) <=> Holds(messages, n) \/ x = Said("assistant", n)
  BY <1>2, <1>3, <1>4 DEF Holds
<1> QED BY <1>5 DEF all

\* What the messages are once the answer is there.
LEMMA FinalMessages ==
  ASSUME NEW a \in Ask
  PROVE  /\ Final(a) = Append(Append(a.messages, Said("user", a.n)), Said("assistant", a.n))
         /\ Final(a) \in Seq(Message)
         /\ Holds(Final(a), a.n)
         /\ \A n \in Nat : n # a.n => (Holds(Final(a), n) <=> Holds(a.messages, n))
<1>1. a.n \in Nat /\ a.messages \in Seq(Message)
  BY DEF Ask
<1>2. PICK u \in Message, v \in Message : u = Said("user", a.n) /\ v = Said("assistant", a.n)
  BY <1>1, SaidMessage
<1>3. a.messages \o <<u, v>> = Append(Append(a.messages, u), v)
  BY <1>1
<1>4. Final(a) = Append(Append(a.messages, u), v)
  BY <1>2, <1>3 DEF Final, Exchange
<1>5. Append(a.messages, u) \in Seq(Message) /\ Append(Append(a.messages, u), v) \in Seq(Message)
  BY <1>1
<1>6. \A n \in Nat : Holds(Final(a), n) <=> Holds(a.messages, n) \/ u = Said("assistant", n) \/ v = Said("assistant", n)
  <2> TAKE n \in Nat
  <2>1. Holds(Append(a.messages, u), n) <=> Holds(a.messages, n) \/ u = Said("assistant", n)
    BY <1>1, HoldsAppend
  <2>2. Holds(Append(Append(a.messages, u), v), n)
          <=> Holds(Append(a.messages, u), n) \/ v = Said("assistant", n)
    BY <1>5, HoldsAppend
  <2> QED BY <1>4, <2>1, <2>2
<1>7. \A n \in Nat : u # Said("assistant", n) /\ (v = Said("assistant", n) <=> n = a.n)
  BY <1>1, <1>2, SaidMessage
<1> QED BY <1>1, <1>2, <1>4, <1>5, <1>6, <1>7

LEMMA AskFields ==
  ASSUME ChatTypeOK, NEW a \in asks
  PROVE  /\ a \in Ask /\ a.n \in Nat /\ a.n \in 1 .. asked /\ a.n # 0 /\ a.visit \in Nat /\ a.visit <= visit
         /\ a.model \in Models /\ a.messages \in Seq(Message) /\ a.n \in Running
         /\ a.sessions \in Seq(Session) /\ Len(a.sessions) <= MaxPast
BY DEF ChatTypeOK, Ask, Running

LEMMA HandleSendKept == ASSUME ChatInv, HandleSend PROVE ChatInv'
<1> USE DEF ChatInv
<1>1. PICK new \in Ask : /\ asks' = asks \cup {new}
                         /\ new.n = asked + 1 /\ new.visit = visit /\ new.messages = chat
                         /\ new.sessions = past /\ ~new.partial
  <2> DEFINE a == [n |-> asked + 1, visit |-> visit, model |-> selectedModel,
                   messages |-> chat, sessions |-> past, meta |-> figures, partial |-> typed]
  <2>1. /\ asked + 1 \in Nat /\ visit \in Nat /\ chat \in Seq(Message) /\ past \in Seq(Session) /\ figures \in Int
        /\ selectedModel \in Models
    BY DEF HandleSend, MaySend, ChatTypeOK
  <2>2. typed = FALSE
    BY DEF HandleSend, MaySend, OnePresent, ChatTypeOK
  <2>3. a \in Ask
    BY <2>1, <2>2 DEF Ask
  <2>4. asks' = asks \cup {a} /\ ~a.partial
    BY <2>2 DEF HandleSend
  <2> QED BY <2>3, <2>4
<1>2. PICK said \in Message : said = Said("user", asked + 1) /\ chat' = Append(chat, said)
                              /\ \A n \in Nat : said # Said("assistant", n)
  <2>1. asked + 1 \in Nat
    BY DEF ChatTypeOK
  <2> QED BY <2>1, SaidMessage DEF HandleSend
<1>3. /\ asked' = asked + 1 /\ streaming' = TRUE /\ typed' = FALSE /\ figures' = 0
      /\ parted' = IF 0 \in parted THEN parted \cup {asked + 1} ELSE parted
      /\ ~away /\ ~streaming /\ UNCHANGED <<selectedModel, past, stored, other, visit, away, upset>>
  BY DEF HandleSend, MaySend, Front, panel, tabs
<1>4. \A a \in asks : a.n # asked + 1 /\ ~Present(a) /\ a.n # 0
  BY <1>3, AskFields DEF OnePresent, ChatTypeOK
<1>5. \A a \in asks : Present(a)' <=> Present(a)
  BY <1>3 DEF Present
<1>6. ChatTypeOK'
  <2>1. chat' \in Seq(Message)
    BY <1>2 DEF ChatTypeOK
  <2>2. asked' \in Nat /\ figures' \in Int /\ asks' \subseteq Ask
    BY <1>1, <1>3 DEF ChatTypeOK
  <2>3. \A a \in asks' : a.n \in 1 .. asked' /\ a.visit <= visit /\ Len(a.sessions) <= MaxPast
    BY <1>1, <1>3 DEF ChatTypeOK
  <2>4. parted' \subseteq 0 .. asked'
    <3>1. parted \subseteq 0 .. asked /\ asked \in Nat
      BY DEF ChatTypeOK
    <3> QED BY <1>3, <3>1
  <2> QED BY <1>3, <2>1, <2>2, <2>3, <2>4 DEF ChatTypeOK
<1>7. OnePresent'
  <2>1. \A a, b \in asks' : a.n = b.n \/ (Present(a)' /\ Present(b)') => a = b
    BY <1>1, <1>4, <1>5 DEF OnePresent
  <2>2. \A a \in asks' : ~a.partial
    BY <1>1 DEF OnePresent
  <2> QED BY <1>3, <2>1, <2>2 DEF OnePresent
<1>8. Rendered'
  <2>0. asked + 1 \notin parted /\ (asked + 1 \in parted' => 0 \in parted')
    <3>1. parted \subseteq 0 .. asked /\ asked \in Nat
      BY DEF ChatTypeOK
    <3> QED BY <1>3, <3>1
  <2>1. \A a \in asks' : Present(a)' /\ a.n \notin upset' => chat' = Append(a.messages, Said("user", a.n))
    BY <1>1, <1>2, <1>4, <1>5
  <2>2. \A a \in asks' : a.n \notin parted' => Reaches(stored, a.sessions)
    BY <1>1, <1>3, <1>4, <2>0 DEF Rendered
  <2>3. ~away' /\ 0 \notin parted' => Reaches(stored, past)
    BY <1>3, <2>0 DEF Rendered
  <2>4. \A a \in asks' : Present(a)' =>
           IF a.n \notin parted' THEN past' = a.sessions ELSE 0 \in parted' \/ stored' = <<>>
    BY <1>1, <1>3, <1>4, <1>5, <2>0
  <2> QED BY <1>3, <2>1, <2>2, <2>3, <2>4 DEF Rendered, Reaches, Behind
<1>9. NoneAnswered'
  <2> SUFFICES ASSUME NEW n \in Nat, n \in Running' \/ n > asked' PROVE Unanswered(n)'
    BY DEF NoneAnswered
  <2>1. n \in Running \/ n > asked
    BY <1>1, <1>3 DEF Running, ChatTypeOK
  <2>2. Unanswered(n)
    BY <2>1 DEF NoneAnswered
  <2>3. ~Holds(chat', n)
    BY <1>2, <2>2, HoldsAppend DEF Unanswered, ChatTypeOK
  <2> QED BY <1>1, <1>3, <2>2, <2>3 DEF Unanswered, Holds, Keeps
<1> QED BY <1>6, <1>7, <1>8, <1>9

\* A piece of an answer, or its figures.
LEMMA PieceKept == ASSUME ChatInv, NEW a \in asks, Delta(a) \/ Usage(a) PROVE ChatInv'
<1> USE DEF ChatInv
<1>1. /\ Present(a)
      /\ UNCHANGED <<selectedModel, chat, streaming, past, stored, other, visit, away, asks, asked, upset, parted>>
      /\ typed' = TRUE \/ typed' = typed
  BY DEF Delta, Usage, panel, tabs
<1>2. figures' \in Int
  BY AskFields DEF Delta, Usage, ChatTypeOK
<1>3. ChatTypeOK'
  BY <1>1, <1>2 DEF ChatTypeOK
<1>4. OnePresent'
  BY <1>1 DEF OnePresent, Present
<1>5. Rendered'
  BY <1>1 DEF Rendered, Reaches, Behind, Present
<1>6. NoneAnswered'
  BY <1>1 DEF NoneAnswered, Running, Unanswered, Holds, Keeps
<1> QED BY <1>3, <1>4, <1>5, <1>6

\* The end of an ask: the page is free if it was on show.
LEMMA SettleKept ==
  ASSUME ChatInv, NEW a \in asks, Settle(a)
  PROVE  /\ OnePresent' /\ asks' = asks \ {a} /\ upset' = upset \ {a.n} /\ UNCHANGED <<selectedModel, visit, away, asked, other>>
         /\ \A b \in asks' : /\ b \in asks /\ b.n # a.n /\ (Present(b)' <=> Present(b))
                             /\ Present(a) => ~Present(b)
         /\ streaming' \in BOOLEAN /\ typed' \in BOOLEAN
<1>1. /\ asks' = asks \ {a} /\ upset' = upset \ {a.n} /\ UNCHANGED <<selectedModel, visit, away, asked, other>>
      /\ IF Present(a) THEN streaming' = FALSE /\ typed' = FALSE ELSE UNCHANGED <<streaming, typed>>
  BY DEF Settle, panel, tabs
<1>2. \A b \in asks' : /\ b \in asks /\ b.n # a.n /\ (Present(b)' <=> Present(b))
                       /\ Present(a) => ~Present(b)
  BY <1>1 DEF ChatInv, OnePresent, Present
<1>3. OnePresent'
  BY <1>1, <1>2 DEF ChatInv, OnePresent
<1>4. streaming' \in BOOLEAN /\ typed' \in BOOLEAN
  BY <1>1 DEF ChatInv, ChatTypeOK
<1> QED BY <1>1, <1>2, <1>3, <1>4

LEMMA StillUnanswered ==
  ASSUME NoneAnswered, NEW a \in asks, asks' = asks \ {a}, asked' = asked, \A b \in asks' : b.n # a.n,
         a.n \in 1 .. asked, asked \in Nat, NEW n \in Nat, n \in Running' \/ n > asked'
  PROVE  Unanswered(n) /\ n # a.n
BY DEF NoneAnswered, Running

\* An ask that fails, or is stopped, leaves everything as it is: there was
\* nothing of an answer in its render.
LEMMA BrokenKept ==
  ASSUME ChatInv, NEW a \in asks, Broken(a) \/ HandleStop(a)
  PROVE  ChatInv' /\ past' = past /\ stored' = stored /\ chat' = chat
<1>1. Settle(a) /\ UNCHANGED <<chat, figures, past, stored>> /\ parted' = parted \ {a.n}
  BY DEF Broken, HandleStop, ChatInv, OnePresent
<1>2. /\ OnePresent' /\ asks' = asks \ {a} /\ upset' = upset \ {a.n} /\ UNCHANGED <<selectedModel, visit, away, asked, other>>
      /\ \A b \in asks' : b \in asks /\ b.n # a.n /\ (Present(b)' <=> Present(b))
      /\ streaming' \in BOOLEAN /\ typed' \in BOOLEAN
  BY <1>1, SettleKept
<1>3. a.n \in 1 .. asked /\ asked \in Nat /\ a.n # 0
  BY AskFields DEF ChatInv, ChatTypeOK
<1>4. ChatTypeOK'
  BY <1>1, <1>2 DEF ChatInv, ChatTypeOK
<1>5. Rendered'
  <2>1. \A b \in asks' : b.n \notin upset' => b.n \notin upset
    BY <1>2
  <2>2. \A b \in asks' : b.n \notin parted' => b.n \notin parted
    BY <1>1, <1>2
  <2>3. 0 \notin parted' => 0 \notin parted
    BY <1>1, <1>3
  <2>4. 0 \in parted => 0 \in parted'
    BY <1>1, <1>3
  <2> QED BY <1>1, <1>2, <2>1, <2>2, <2>3, <2>4 DEF ChatInv, Rendered, Reaches, Behind
<1>6. NoneAnswered'
  <2> SUFFICES ASSUME NEW n \in Nat, n \in Running' \/ n > asked' PROVE Unanswered(n)'
    BY DEF NoneAnswered
  <2>1. Unanswered(n)
    BY <1>2, <1>3, StillUnanswered DEF ChatInv
  <2> QED BY <1>1, <1>2, <2>1 DEF Unanswered, Holds, Keeps
<1> QED BY <1>1, <1>2, <1>4, <1>5, <1>6 DEF ChatInv

\* An answer is saved with its chat, and goes to the page if it is there;
\* the browser may refuse to store it.
LEMMA FinalizeKept ==
  ASSUME ChatInv, NEW a \in asks, NEW kept \in BOOLEAN, Finalize(a, kept)
  PROVE  ChatInv' /\ LosesNothing(a)
<1>1. /\ a \in Ask /\ a.n \in Nat /\ a.n \in 1 .. asked /\ a.n # 0 /\ asked \in Nat
      /\ a.sessions \in Seq(Session) /\ Len(a.sessions) <= MaxPast /\ a.n \in Running /\ a.model \in Models
  BY AskFields DEF ChatInv, ChatTypeOK
<1>2. PICK final \in Seq(Message) : /\ final = Final(a)
                                    /\ final = Append(Append(a.messages, Said("user", a.n)), Said("assistant", a.n))
                                    /\ Holds(final, a.n)
                                    /\ \A n \in Nat : n # a.n => (Holds(final, n) <=> Holds(a.messages, n))
  BY <1>1, FinalMessages
<1>3. PICK meta \in Int : meta = IF a.meta # 0 THEN a.meta ELSE a.n
  BY <1>1 DEF Ask
<1>4. PICK s \in Session : /\ s = [model |-> a.model, messages |-> final, meta |-> meta]
                           /\ s.model = a.model /\ s.messages = final /\ s.meta = meta
  <2> DEFINE new == [model |-> a.model, messages |-> final, meta |-> meta]
  <2>1. new \in Session /\ new.model = a.model /\ new.messages = final /\ new.meta = meta
    BY <1>1 DEF Session
  <2> QED BY <2>1
<1>5. PICK r : r = Saved([model |-> a.model, messages |-> final, meta |-> meta], a.sessions)
  OBVIOUS
<1>6. /\ r \in Seq(Session) /\ Len(r) >= 1 /\ Len(r) <= MaxPast /\ r[1] = s
      /\ \A i \in 2 .. Len(r) : i - 1 \in 1 .. Len(a.sessions) /\ r[i] = a.sessions[i - 1]
      /\ Behind(a.sessions, r, 1)
  <2>1. NewestIs(r, s, a.sessions)
    BY <1>1, <1>4, <1>5, SavedAsk
  <2> QED BY <2>1 DEF NewestIs
<1>7. /\ Settle(a)
      /\ IF Present(a) THEN chat' = final /\ figures' = meta /\ past' = r
                       ELSE UNCHANGED <<chat, figures, past>>
      /\ IF kept THEN stored' = r /\ parted' = Outdated(a)
                 ELSE stored' = stored /\ parted' = parted \ {a.n}
  BY <1>2, <1>3, <1>5 DEF Finalize
<1>8. /\ OnePresent' /\ asks' = asks \ {a} /\ upset' = upset \ {a.n}
      /\ UNCHANGED <<selectedModel, visit, away, asked, other>>
      /\ \A b \in asks' : /\ b \in asks /\ b.n # a.n /\ (Present(b)' <=> Present(b))
                          /\ Present(a) => ~Present(b)
      /\ streaming' \in BOOLEAN /\ typed' \in BOOLEAN
  BY <1>7, SettleKept
<1>9. \A b \in asks : b.n \in 1 .. asked
  BY AskFields DEF ChatInv
<1>10. ChatTypeOK'
  <2>1. chat' \in Seq(Message) /\ past' \in Seq(Session) /\ stored' \in Seq(Session) /\ figures' \in Int
    BY <1>6, <1>7 DEF ChatInv, ChatTypeOK
  <2>2. Len(past') <= MaxPast /\ Len(stored') <= MaxPast
    BY <1>6, <1>7 DEF ChatInv, ChatTypeOK
  <2>3. parted' \subseteq 0 .. asked'
    <3>1. Running \subseteq 0 .. asked /\ parted \subseteq 0 .. asked
      BY <1>9 DEF Running, ChatInv, ChatTypeOK
    <3>2. Outdated(a) \subseteq 0 .. asked
      <4>1. 0 \in 0 .. asked
        BY <1>1
      <4>2. \A x : x \in Outdated(a) => x \in parted \/ x \in Running \/ x = 0
        BY DEF Outdated
      <4> QED BY <3>1, <4>1, <4>2
    <3>3. parted \ {a.n} \subseteq 0 .. asked
      BY <3>1
    <3> QED BY <1>7, <1>8, <3>2, <3>3
  <2> QED BY <1>8, <2>1, <2>2, <2>3 DEF ChatInv, ChatTypeOK
<1>11. \A b \in asks' : Present(b)' /\ b.n \notin upset' => chat' = Append(b.messages, Said("user", b.n))
  BY <1>7, <1>8 DEF ChatInv, Rendered
<1>12. Rendered'
  <2>1. CASE kept
    <3>1. \A b \in asks' : b.n \in Running /\ b.n # 0 /\ b.n \in parted'
      BY <1>7, <1>8, <1>9, <2>1 DEF Outdated, Running
    <3>2. Reaches(r, r)
      BY <1>6, BehindSelf
    <3>3. ~away' /\ 0 \notin parted' => past' = r /\ stored' = r
      BY <1>7, <1>8, <2>1 DEF Outdated
    <3>4. \A b \in asks' : Present(b)' => 0 \in parted'
      BY <1>7, <1>8, <2>1 DEF Outdated, Present
    <3> QED BY <1>11, <3>1, <3>2, <3>3, <3>4 DEF Rendered
  <2>2. CASE ~kept
    <3>1. stored' = stored /\ parted' = parted \ {a.n} /\ (0 \in parted' <=> 0 \in parted)
      BY <1>1, <1>7, <2>2
    <3>2. \A b \in asks' : b.n \notin parted' => Reaches(stored, b.sessions)
      BY <1>8, <3>1 DEF ChatInv, Rendered
    <3>3. \A b \in asks' : Present(b)' =>
             IF b.n \notin parted' THEN past' = b.sessions ELSE 0 \in parted' \/ stored' = <<>>
      BY <1>7, <1>8, <3>1 DEF ChatInv, Rendered
    <3>4. ~away' /\ 0 \notin parted' => Reaches(stored, past')
      <4> SUFFICES ASSUME ~away', 0 \notin parted' PROVE Reaches(stored, past')
        OBVIOUS
      <4>1. Reaches(stored, past) /\ ~away
        BY <1>8, <3>1 DEF ChatInv, Rendered
      <4>2. CASE ~Present(a)
        BY <1>7, <4>1, <4>2
      <4>3. CASE Present(a) /\ a.n \notin parted
        <5>1. past = a.sessions /\ past' = r
          BY <1>7, <4>3 DEF ChatInv, Rendered
        <5>2. \E n \in 1 .. MaxPast : Behind(stored, r, n)
          BY <1>1, <1>6, <4>1, <5>1, BehindMore DEF ChatInv, ChatTypeOK
        <5>3. \E n \in 0 .. MaxPast : Behind(stored, r, n)
          BY <5>2, ChatAssumption
        <5> QED BY <5>1, <5>3 DEF Reaches
      <4>4. CASE Present(a) /\ a.n \in parted
        <5>1. stored = <<>> /\ past' = r
          BY <1>7, <3>1, <4>4 DEF ChatInv, Rendered
        <5>2. Len(r) \in 0 .. MaxPast /\ Len(<<>>) = 0 /\ MaxPast \in Nat
          BY <1>6, ChatAssumption
        <5>3. Behind(<<>>, r, Len(r))
          BY <5>2 DEF Behind
        <5> QED BY <5>1, <5>2, <5>3 DEF Reaches
      <4> QED BY <4>2, <4>3, <4>4
    <3> QED BY <1>11, <3>1, <3>2, <3>3, <3>4 DEF Rendered, Reaches, Behind
  <2> QED BY <2>1, <2>2
<1>13. NoneAnswered'
  <2> SUFFICES ASSUME NEW n \in Nat, n \in Running' \/ n > asked' PROVE Unanswered(n)'
    BY DEF NoneAnswered
  <2>1. Unanswered(n) /\ n # a.n
    BY <1>1, <1>8, StillUnanswered DEF ChatInv
  <2>2. /\ ~Holds(final, n) /\ ~Holds(chat, n) /\ ~Keeps(past, n) /\ ~Keeps(stored, n) /\ ~Keeps(other, n)
        /\ ~Keeps(a.sessions, n)
        /\ \A b \in asks : ~Holds(b.messages, n) /\ ~Keeps(b.sessions, n)
    BY <1>2, <2>1 DEF Unanswered
  <2>3. \A i \in 1 .. Len(r) : ~Holds(r[i].messages, n)
    <3> SUFFICES ASSUME NEW i \in 1 .. Len(r) PROVE ~Holds(r[i].messages, n)
      OBVIOUS
    <3>1. CASE i = 1
      BY <1>4, <1>6, <2>2, <3>1
    <3>2. CASE i # 1
      <4>1. i \in 2 .. Len(r)
        BY <1>6, <3>2
      <4>2. i - 1 \in 1 .. Len(a.sessions) /\ r[i] = a.sessions[i - 1]
        BY <1>6, <4>1
      <4>3. ~Holds(a.sessions[i - 1].messages, n)
        BY <2>2, <4>2 DEF Keeps
      <4> QED BY <4>2, <4>3
    <3> QED BY <3>1, <3>2
  <2>4. ~Keeps(r, n)
    BY <2>3 DEF Keeps
  <2>5. ~Holds(chat', n) /\ ~Keeps(past', n) /\ ~Keeps(stored', n) /\ ~Keeps(other', n)
    BY <1>7, <1>8, <2>2, <2>4
  <2>6. \A b \in asks' : ~Holds(b.messages, n) /\ ~Keeps(b.sessions, n)
    BY <1>8, <2>2
  <2> QED BY <2>5, <2>6 DEF Unanswered, Holds, Keeps
<1>14. LosesNothing(a)
  <2>1. ~Keeps(past, a.n)
    BY <1>1 DEF ChatInv, NoneAnswered, Unanswered
  <2>2. Keeps(r, a.n)
    <3>1. 1 \in 1 .. Len(r)
      BY <1>6
    <3> QED BY <1>2, <1>4, <1>6, <3>1 DEF Keeps
  <2>3. past' = past => chat' = chat
    BY <1>7, <2>1, <2>2
  <2>4. Present(a) /\ a.n \notin upset => chat' = Append(chat, Said("assistant", a.n))
    BY <1>2, <1>7 DEF ChatInv, Rendered
  <2>5. Present(a) => past'[1].model = a.model /\ past'[1].messages = chat'
    BY <1>4, <1>6, <1>7
  <2>6. Present(a) /\ a.n \notin parted => Behind(past, past', 1)
    BY <1>6, <1>7 DEF ChatInv, Rendered
  <2>7. stored' # stored => stored' = r /\ stored'[1].model = a.model /\ (Present(a) => stored' = past')
    BY <1>4, <1>6, <1>7
  <2>8. a.n \notin parted => \E n \in 1 .. MaxPast : Behind(stored, r, n)
    <3> SUFFICES ASSUME a.n \notin parted PROVE \E n \in 1 .. MaxPast : Behind(stored, r, n)
      OBVIOUS
    <3>1. Reaches(stored, a.sessions) /\ stored \in Seq(Session) /\ Len(stored) <= MaxPast
      BY DEF ChatInv, ChatTypeOK, Rendered
    <3> QED BY <1>1, <1>6, <3>1, BehindMore
  <2> QED BY <2>3, <2>4, <2>5, <2>6, <2>7, <2>8 DEF LosesNothing
<1> QED BY <1>8, <1>10, <1>12, <1>13, <1>14 DEF ChatInv

\* What changes the chat, or the sessions, under an ask is remembered.
LEMMA DisturbedKept ==
  ASSUME ChatInv,
         HandleClearChat \/ (\E i \in DOMAIN past : HandleLoadSession(i)) \/ ClearHistory
  PROVE  ChatInv'
<1>1. \A b \in asks : b.n \in Running /\ b.n # 0 /\ b.n \in 1 .. asked
  BY AskFields DEF ChatInv
<1>2. CASE HandleClearChat
  <2>1. /\ chat' = <<>> /\ typed' = FALSE /\ figures' = 0 /\ upset' = upset \cup Running
        /\ UNCHANGED <<selectedModel, streaming, past, stored, other, visit, away, asks, asked, parted>>
    BY <1>2 DEF HandleClearChat, Disturb, panel, tabs
  <2>2. chat' \in Seq(Message) /\ figures' \in Int /\ typed' \in BOOLEAN
    <3>1. <<>> \in Seq(Message) /\ 0 \in Int
      OBVIOUS
    <3> QED BY <2>1, <3>1
  <2>3. ChatTypeOK'
    BY <2>1, <2>2 DEF ChatInv, ChatTypeOK
  <2>4. OnePresent' /\ Rendered'
    BY <1>1, <2>1 DEF ChatInv, OnePresent, Rendered, Reaches, Behind, Present
  <2>5. NoneAnswered'
    <3>1. \A n : ~Holds(chat', n)
      BY <2>1 DEF Holds
    <3> QED BY <2>1, <3>1 DEF ChatInv, NoneAnswered, Unanswered, Holds, Keeps, Running
  <2> QED BY <2>3, <2>4, <2>5 DEF ChatInv
<1>3. CASE \E i \in DOMAIN past : HandleLoadSession(i)
  <2>1. PICK i \in DOMAIN past : HandleLoadSession(i)
    BY <1>3
  <2>2. /\ selectedModel' = past[i].model /\ chat' = past[i].messages /\ figures' = past[i].meta
        /\ upset' = upset \cup Running
        /\ UNCHANGED <<streaming, typed, past, stored, other, visit, away, asks, asked, parted>>
    BY <2>1 DEF HandleLoadSession, Disturb, tabs
  <2>3. i \in 1 .. Len(past) /\ past[i] \in Session
    BY DEF ChatInv, ChatTypeOK
  <2>4. chat' \in Seq(Message) /\ figures' \in Int /\ selectedModel' \in Models
    BY <2>2, <2>3 DEF Session
  <2>5. ChatTypeOK'
    BY <2>2, <2>4 DEF ChatInv, ChatTypeOK
  <2>6. OnePresent' /\ Rendered'
    BY <1>1, <2>2 DEF ChatInv, OnePresent, Rendered, Reaches, Behind, Present
  <2>7. NoneAnswered'
    <3> SUFFICES ASSUME NEW n \in Nat, n \in Running' \/ n > asked' PROVE Unanswered(n)'
      BY DEF NoneAnswered
    <3>1. Unanswered(n)
      BY <2>2 DEF ChatInv, NoneAnswered, Running
    <3>2. ~Holds(chat', n)
      BY <2>2, <2>3, <3>1 DEF Unanswered, Keeps
    <3> QED BY <2>2, <3>1, <3>2 DEF Unanswered, Holds, Keeps
  <2> QED BY <2>5, <2>6, <2>7 DEF ChatInv
<1>4. CASE ClearHistory
  <2>1. /\ past' = <<>> /\ stored' = <<>> /\ parted' = (parted \cup Running) \ {0}
        /\ UNCHANGED <<selectedModel, chat, streaming, typed, figures, other, visit, away, asks, asked, upset>>
    BY <1>4 DEF ClearHistory, panel, tabs
  <2>2. /\ past' \in Seq(Session) /\ stored' \in Seq(Session) /\ Len(past') <= MaxPast /\ Len(stored') <= MaxPast
        /\ Reaches(stored', past')
    <3>1. <<>> \in Seq(Session) /\ Len(<<>>) <= MaxPast
      BY ChatAssumption
    <3>2. Reaches(<<>>, <<>>)
      BY <3>1, BehindSelf
    <3> QED BY <2>1, <3>1, <3>2
  <2>3. ChatTypeOK'
    <3>1. parted' \subseteq 0 .. asked
      <4>1. Running \subseteq 0 .. asked
        BY <1>1 DEF Running
      <4>2. parted \subseteq 0 .. asked
        BY DEF ChatInv, ChatTypeOK
      <4> QED BY <2>1, <4>1, <4>2
    <3> QED BY <2>1, <2>2, <3>1 DEF ChatInv, ChatTypeOK
  <2>4. OnePresent'
    BY <2>1 DEF ChatInv, OnePresent, Present
  <2>5. Rendered'
    <3>1. \A b \in asks' : b.n \in parted' /\ (Present(b)' <=> Present(b))
      BY <1>1, <2>1 DEF Present
    <3>2. Reaches(stored, past)'
      BY <2>2 DEF Reaches, Behind
    <3> QED BY <2>1, <3>1, <3>2 DEF ChatInv, Rendered
  <2>6. NoneAnswered'
    <3>1. \A n : ~Keeps(past', n) /\ ~Keeps(stored', n)
      BY <2>1 DEF Keeps
    <3> QED BY <2>1, <3>1 DEF ChatInv, NoneAnswered, Unanswered, Holds, Keeps, Running
  <2> QED BY <2>3, <2>4, <2>5, <2>6 DEF ChatInv
<1> QED BY <1>2, <1>3, <1>4

\* The page is left and entered: who was asked there streams on, to nobody.
\* And its panel and its list of sessions are about nothing that runs.
LEMMA LeaveKept ==
  ASSUME ChatInv,
         Leave \/ (\E m \in Models : SelectModel(m)) \/ (\E open \in BOOLEAN : ShowHistory(open)) \/ UNCHANGED chatvars
  PROVE  ChatInv'
<1>1. /\ UNCHANGED <<chat, streaming, typed, figures, past, stored, other, visit, asks, asked, upset, parted>>
      /\ away' = TRUE \/ away' = away
      /\ selectedModel' = selectedModel \/ selectedModel' \in Models
  BY DEF Leave, SelectModel, ShowHistory, chatvars, panel, tabs
<1>2. ChatTypeOK'
  BY <1>1 DEF ChatInv, ChatTypeOK
<1>3. OnePresent'
  BY <1>1 DEF ChatInv, OnePresent, Present
<1>4. Rendered'
  <2>1. \A b \in asks : Present(b)' => Present(b)
    BY <1>1 DEF Present, ChatInv, ChatTypeOK
  <2>2. ~away' => ~away
    BY <1>1 DEF ChatInv, ChatTypeOK
  <2> QED BY <1>1, <2>1, <2>2 DEF ChatInv, Rendered, Reaches, Behind
<1>5. NoneAnswered'
  BY <1>1 DEF ChatInv, NoneAnswered, Unanswered, Holds, Keeps, Running
<1> QED BY <1>2, <1>3, <1>4, <1>5 DEF ChatInv

LEMMA EnterKept == ASSUME ChatInv, Enter PROVE ChatInv'
<1>1. /\ away' = FALSE /\ visit' = visit + 1
      /\ chat' = <<>> /\ streaming' = FALSE /\ typed' = FALSE /\ figures' = 0
      /\ past' = stored /\ parted' = parted \ {0}
      /\ selectedModel' = NoModel /\ UNCHANGED <<stored, other, asks, asked, upset>>
  BY DEF Enter, tabs
<1>2. \A b \in asks : ~Present(b)' /\ b.n # 0
  BY <1>1, AskFields DEF ChatInv, Present, ChatTypeOK
<1>3. ChatTypeOK'
  <2>1. chat' \in Seq(Message) /\ past' \in Seq(Session) /\ figures' \in Int
    BY <1>1 DEF ChatInv, ChatTypeOK
  <2>2. visit' \in Nat /\ \A b \in asks : b.visit <= visit'
    BY <1>1, AskFields DEF ChatInv, ChatTypeOK
  <2>3. parted' \subseteq 0 .. asked'
    BY <1>1 DEF ChatInv, ChatTypeOK
  <2> QED BY <1>1, <2>1, <2>2, <2>3 DEF ChatInv, ChatTypeOK
<1>4. OnePresent' /\ Rendered'
  <2>1. Reaches(stored, past)'
    <3>1. Reaches(stored, stored)
      BY BehindSelf DEF ChatInv, ChatTypeOK
    <3> QED BY <1>1, <3>1 DEF Reaches, Behind
  <2>2. \A b \in asks' : b.n \notin parted' => Reaches(stored, b.sessions)'
    BY <1>1, <1>2 DEF ChatInv, Rendered, Reaches, Behind
  <2> QED BY <1>1, <1>2, <2>1, <2>2 DEF ChatInv, OnePresent, Rendered
<1>5. NoneAnswered'
  <2>1. \A n : ~Holds(chat', n)
    BY <1>1 DEF Holds
  <2> QED BY <1>1, <2>1 DEF ChatInv, NoneAnswered, Unanswered, Holds, Keeps, Running
<1> QED BY <1>3, <1>4, <1>5 DEF ChatInv

\* What another tab stores or clears outdates the page and every ask.
LEMMA OtherTabKept ==
  ASSUME ChatInv,
         OtherEnters \/ (\E m \in Models, kept \in BOOLEAN : OtherSaves(m, kept)) \/ OtherClears
  PROVE  ChatInv' /\ asks' = asks
<1>1. /\ UNCHANGED <<selectedModel, chat, streaming, typed, figures, past, visit, away, asks, asked, upset>>
      /\ stored' = other' \/ stored' = stored
      /\ IF stored' = stored THEN parted' = parted \/ parted' = parted \cup Running \cup {0}
                             ELSE parted' = parted \cup Running \cup {0}
  BY DEF OtherEnters, OtherSaves, OtherClears, OtherTab, panel
<1>2. /\ other' \in Seq(Session) /\ Len(other') <= MaxPast
      /\ \A n \in Nat : Keeps(other', n) => Keeps(other, n) \/ Keeps(stored, n)
  <2>1. CASE OtherEnters
    BY <2>1 DEF OtherEnters, ChatInv, ChatTypeOK
  <2>2. CASE \E m \in Models, kept \in BOOLEAN : OtherSaves(m, kept)
    <3>1. PICK m \in Models, kept \in BOOLEAN : OtherSaves(m, kept)
      BY <2>2
    <3>2. PICK s \in Session : /\ s = [model |-> m, messages |-> Exchange(Elsewhere), meta |-> Elsewhere]
                               /\ \A n \in Nat : ~Holds(s.messages, n)
      <4> DEFINE new == [model |-> m, messages |-> Exchange(Elsewhere), meta |-> Elsewhere]
      <4>1. Elsewhere \in Int /\ Elsewhere \notin Nat
        BY DEF Elsewhere
      <4>2. Said("user", Elsewhere) \in Message /\ Said("assistant", Elsewhere) \in Message
        BY <4>1 DEF Said, Message
      <4>3. Exchange(Elsewhere) \in Seq(Message)
        BY <4>2 DEF Exchange
      <4>4. new \in Session /\ new.messages = Exchange(Elsewhere)
        BY <4>1, <4>3 DEF Session
      <4>5. \A n \in Nat : Said("assistant", n).ask = n
        BY DEF Said
      <4>6. \A i \in 1 .. Len(Exchange(Elsewhere)) : Exchange(Elsewhere)[i].ask = Elsewhere
        BY DEF Exchange, Said
      <4>7. \A n \in Nat : ~Holds(Exchange(Elsewhere), n)
        BY <4>1, <4>5, <4>6 DEF Holds
      <4> HIDE DEF new
      <4>8. new = [model |-> m, messages |-> Exchange(Elsewhere), meta |-> Elsewhere]
        BY DEF new
      <4> QED BY <4>4, <4>7, <4>8
    <3>3. other' = Saved(s, other) /\ other \in Seq(Session)
      BY <3>1, <3>2 DEF OtherSaves, ChatInv, ChatTypeOK
    <3>4. NewestIs(other', s, other)
      BY <3>3, SavedSession
    <3>5. \A n \in Nat : Keeps(other', n) => Keeps(other, n)
      <4> SUFFICES ASSUME NEW n \in Nat, NEW i \in 1 .. Len(other'), Holds(other'[i].messages, n)
                   PROVE  Keeps(other, n)
        BY DEF Keeps
      <4>1. i # 1
        BY <3>2, <3>4 DEF NewestIs
      <4>2. i \in 2 .. Len(other')
        BY <3>4, <4>1 DEF NewestIs
      <4>3. i - 1 \in 1 .. Len(other) /\ other'[i] = other[i - 1]
        BY <3>4, <4>2 DEF NewestIs
      <4> QED BY <4>3 DEF Keeps
    <3> QED BY <3>4, <3>5 DEF NewestIs
  <2>3. CASE OtherClears
    <3>1. other' = <<>>
      BY <2>3 DEF OtherClears
    <3>2. <<>> \in Seq(Session) /\ Len(<<>>) = 0
      OBVIOUS
    <3> QED BY <3>1, <3>2, ChatAssumption DEF Keeps
  <2> QED BY <2>1, <2>2, <2>3
<1>3. Running \subseteq 0 .. asked /\ \A b \in asks : b.n \in Running
  BY AskFields DEF ChatInv, Running
<1>4. ChatTypeOK'
  <2>1. parted' \subseteq 0 .. asked'
    <3>1. parted \subseteq 0 .. asked /\ 0 \in 0 .. asked /\ asked' = asked
      BY <1>1 DEF ChatInv, ChatTypeOK
    <3> QED BY <1>1, <1>3, <3>1
  <2>2. stored' \in Seq(Session) /\ Len(stored') <= MaxPast
    BY <1>1, <1>2 DEF ChatInv, ChatTypeOK
  <2> QED BY <1>1, <1>2, <2>1, <2>2 DEF ChatInv, ChatTypeOK
<1>5. OnePresent'
  BY <1>1 DEF ChatInv, OnePresent, Present
<1>6. Rendered'
  <2>1. CASE stored' = stored /\ parted' = parted
    BY <1>1, <2>1 DEF ChatInv, Rendered, Reaches, Behind, Present
  <2>2. CASE parted' = parted \cup Running \cup {0}
    BY <1>1, <1>3, <2>2 DEF ChatInv, Rendered, Present
  <2> QED BY <1>1, <2>1, <2>2
<1>7. NoneAnswered'
  <2> SUFFICES ASSUME NEW n \in Nat, n \in Running' \/ n > asked' PROVE Unanswered(n)'
    BY DEF NoneAnswered
  <2>1. Unanswered(n)
    BY <1>1 DEF ChatInv, NoneAnswered, Running
  <2>2. ~Keeps(other', n)
    BY <1>2, <2>1 DEF Unanswered
  <2>3. ~Keeps(stored', n)
    BY <1>1, <2>1, <2>2 DEF Unanswered
  <2> QED BY <1>1, <2>1, <2>2, <2>3 DEF Unanswered, Holds, Keeps
<1> QED BY <1>1, <1>4, <1>5, <1>6, <1>7 DEF ChatInv

LEMMA ChatInvariance == ChatSpec => []ChatInv
<1>1. ChatInv /\ [ChatNext]_chatvars => ChatInv'
  BY HandleSendKept, PieceKept, FinalizeKept, BrokenKept, DisturbedKept, LeaveKept, EnterKept, OtherTabKept DEF ChatNext
<1> QED BY <1>1, ChatStart, PTL DEF ChatSpec

(***************************************************************************)
(* The end of an ask, however the page was used meanwhile, adds its answer *)
(* to the chat and the chat to the sessions, and takes nothing else away.  *)
(***************************************************************************)
THEOREM NothingLostInChat == ChatSpec => ChatKept
<1>1. ASSUME ChatInv, ChatNext PROVE \A a \in asks : a \notin asks' => LosesNothing(a)
  <2> SUFFICES ASSUME NEW a \in asks, a \notin asks' PROVE LosesNothing(a)
    OBVIOUS
  <2>1. \E b \in asks : (\E kept \in BOOLEAN : Finalize(b, kept)) \/ Broken(b) \/ HandleStop(b)
    BY <1>1, OtherTabKept DEF ChatNext, HandleSend, Delta, Usage, HandleClearChat, SelectModel, ShowHistory,
              HandleLoadSession, ClearHistory, Leave, Enter
  <2>2. PICK b \in asks : (\E kept \in BOOLEAN : Finalize(b, kept)) \/ Broken(b) \/ HandleStop(b)
    BY <2>1
  <2>3. a = b
    BY <2>2 DEF Finalize, Broken, HandleStop, Settle
  <2> QED BY <1>1, <2>2, <2>3, FinalizeKept, BrokenKept DEF LosesNothing
<1>2. ChatInv /\ [ChatNext]_chatvars => [\A a \in asks : a \notin asks' => LosesNothing(a)]_chatvars
  BY <1>1
<1> QED BY <1>2, ChatInvariance, PTL DEF ChatSpec, ChatKept

-----------------------------------------------------------------------------
(* What is kept in the browser.  While no effects were interrupted one tab *)
(* at most has an effect to come, and it is about the theme last chosen;   *)
(* before any tab has run its effects there is none to choose.             *)

TabState == [stage : {"closed", "painted", "settling", "ready"}, theme : Themes, applied : Themes,
             dark : BOOLEAN, resolved : BOOLEAN, flipped : BOOLEAN]

LooksRight(t) ==
  tab[t].stage = "ready" =>
    /\ tab[t].applied = tab[t].theme
    /\ tab[t].resolved = IsDark(tab[t].theme)
    /\ tab[t].dark = (IsDark(tab[t].theme) # tab[t].flipped)

ThemeTypeOK ==
  /\ tab \in [Tabs -> TabState] /\ systemDark \in BOOLEAN
  /\ savedTheme \in Themes \cup {Unsaved} /\ chosen \in Themes

Chosen ==
  /\ savedTheme = Unsaved =>
       chosen = "system" /\ \A t \in Tabs : tab[t].stage \in {"closed", "painted"}
  /\ ~disturbed =>
       /\ Midway = {} /\ savedTheme # Unsaved => savedTheme = chosen
       /\ \A t \in Midway : Midway = {t} /\ tab[t].theme = chosen

ThemeInv == ThemeTypeOK /\ Chosen /\ \A t \in Tabs : LooksRight(t)

LEMMA DarkType == ASSUME ThemeTypeOK, NEW theme PROVE IsDark(theme) \in BOOLEAN
BY DEF ThemeTypeOK, IsDark

\* What an effect leaves of a tab, and a choice.
LEMMA AppliedTab ==
  ASSUME NEW r \in TabState, NEW theme \in Themes, NEW dark \in BOOLEAN
  PROVE  /\ Applied(r, theme, dark) \in TabState
         /\ Applied(r, theme, dark).stage = r.stage /\ Applied(r, theme, dark).theme = r.theme
         /\ Applied(r, theme, dark).applied = theme /\ Applied(r, theme, dark).dark = dark
         /\ Applied(r, theme, dark).resolved = dark /\ Applied(r, theme, dark).flipped = FALSE
<1>1. PICK n : n = Applied(r, theme, dark)
  OBVIOUS
<1>2. /\ n = [stage |-> r.stage, theme |-> r.theme, applied |-> theme, dark |-> dark,
              resolved |-> dark, flipped |-> FALSE]
  BY <1>1, Zenon DEF Applied, TabState
<1>3. /\ n.stage = r.stage /\ n.theme = r.theme /\ n.applied = theme
  BY <1>2
<1>4. n.dark = dark /\ n.resolved = dark /\ n.flipped = FALSE
  BY <1>2, Zenon
<1>5. n \in TabState
  BY <1>2, Zenon DEF TabState
<1> QED BY <1>1, <1>3, <1>4, <1>5

Staged(r, stage, theme) == [r EXCEPT !.stage = stage, !.theme = theme]

LEMMA StagedTab ==
  ASSUME NEW r \in TabState, NEW stage \in {"painted", "settling", "ready"}, NEW theme \in Themes
  PROVE  /\ Staged(r, stage, theme) \in TabState
         /\ Staged(r, stage, theme).stage = stage /\ Staged(r, stage, theme).theme = theme
         /\ Staged(r, stage, theme).applied = r.applied /\ Staged(r, stage, theme).dark = r.dark
         /\ Staged(r, stage, theme).resolved = r.resolved /\ Staged(r, stage, theme).flipped = r.flipped
BY Zenon DEF TabState, Staged

\* A tab becomes another.
LEMMA TabStep ==
  ASSUME ThemeTypeOK, NEW t \in Tabs, NEW new \in TabState, tab' = [tab EXCEPT ![t] = new]
  PROVE  /\ tab' \in [Tabs -> TabState] /\ tab'[t] = new
         /\ \A u \in Tabs \ {t} : tab'[u] = tab[u]
         /\ Midway' = IF new.stage = "settling" THEN Midway \cup {t} ELSE Midway \ {t}
<1>1. tab' \in [Tabs -> TabState] /\ tab'[t] = new /\ \A u \in Tabs \ {t} : tab'[u] = tab[u]
  BY DEF ThemeTypeOK
<1>2. Midway' = IF new.stage = "settling" THEN Midway \cup {t} ELSE Midway \ {t}
  BY <1>1 DEF Midway
<1> QED BY <1>1, <1>2

\* It looks like its theme, and so do the others while the system does not change.
LEMMA LooksKept ==
  ASSUME ThemeInv, NEW t \in Tabs, NEW new \in TabState, tab' = [tab EXCEPT ![t] = new],
         systemDark' = systemDark,
         new.stage = "ready" => /\ new.applied = new.theme
                                /\ new.resolved = IsDark(new.theme)
                                /\ new.dark = (IsDark(new.theme) # new.flipped)
  PROVE  \A u \in Tabs : LooksRight(u)'
<1>1. tab'[t] = new /\ \A u \in Tabs \ {t} : tab'[u] = tab[u]
  BY TabStep DEF ThemeInv
<1>2. \A theme : IsDark(theme)' = IsDark(theme)
  BY DEF IsDark
<1>3. ASSUME NEW u \in Tabs, u # t PROVE LooksRight(u)'
  <2>1. LooksRight(u) /\ tab'[u] = tab[u]
    BY <1>1, <1>3 DEF ThemeInv
  <2> QED BY <2>1, <1>2 DEF LooksRight, IsDark
<1>4. LooksRight(t)'
  BY <1>1, <1>2 DEF LooksRight, IsDark
<1> QED BY <1>3, <1>4

LEMMA LoadKept == ASSUME ThemeInv, NEW t \in Tabs, Load(t) PROVE ThemeInv'
<1>1. tab[t] \in TabState /\ tab[t].stage = "closed" /\ UNCHANGED <<savedTheme, systemDark, chosen, disturbed>>
  BY DEF ThemeInv, ThemeTypeOK, Load
<1>2. PICK new \in TabState : tab' = [tab EXCEPT ![t] = new] /\ new.stage = "painted"
  <2> DEFINE dark == IsDark(IF savedTheme = Unsaved THEN "system" ELSE savedTheme)
             new == [tab[t] EXCEPT !.stage = "painted", !.dark = dark]
  <2>1. dark \in BOOLEAN
    BY DarkType DEF ThemeInv
  <2>2. new \in TabState /\ new.stage = "painted"
    <3> HIDE DEF dark
    <3> QED BY <1>1, <2>1, Zenon DEF TabState
  <2>3. tab' = [tab EXCEPT ![t] = new]
    BY <1>1 DEF Load, ThemeInv, ThemeTypeOK, TabState
  <2> QED BY <2>2, <2>3
<1>3. ThemeTypeOK'
  BY <1>1, <1>2, TabStep DEF ThemeInv, ThemeTypeOK
<1>4. \A u \in Tabs : LooksRight(u)'
  BY <1>1, <1>2, LooksKept
<1>5. Midway' = Midway
  BY <1>1, <1>2, TabStep DEF ThemeInv, Midway
<1>6. Chosen'
  <2>1. savedTheme = Unsaved => \A u \in Tabs : tab'[u].stage \in {"closed", "painted"}
    BY <1>2, TabStep DEF ThemeInv, Chosen
  <2>2. \A u \in Midway : tab'[u] = tab[u]
    BY <1>1, <1>2, TabStep DEF ThemeInv, Midway
  <2> QED BY <1>1, <1>5, <2>1, <2>2 DEF ThemeInv, Chosen
<1> QED BY <1>3, <1>4, <1>6 DEF ThemeInv

\* The effects of the first render.
LEMMA MountKept == ASSUME ThemeInv, NEW t \in Tabs, Mount(t) PROVE ThemeInv'
<1>1. /\ tab[t] \in TabState /\ tab[t].stage = "painted" /\ savedTheme' = "system"
      /\ disturbed' = (disturbed \/ Midway # {}) /\ UNCHANGED <<systemDark, chosen>>
  BY DEF ThemeInv, ThemeTypeOK, Mount
<1>2. PICK theme \in Themes, stage \in {"settling", "ready"} :
        /\ IF savedTheme \notin {Unsaved, "system"} THEN stage = "settling" /\ theme = savedTheme
                                                  ELSE stage = "ready" /\ theme = "system"
        /\ tab' = [tab EXCEPT ![t] = [Applied(tab[t], "system", systemDark) EXCEPT
                                       !.stage = stage, !.theme = theme]]
  <2>1. CASE savedTheme \notin {Unsaved, "system"}
    BY <2>1 DEF Mount, ThemeInv, ThemeTypeOK
  <2>2. CASE savedTheme \in {Unsaved, "system"}
    BY <2>2 DEF Mount, Themes
  <2> QED BY <2>1, <2>2
<1>3. systemDark \in BOOLEAN /\ "system" \in Themes
  BY DEF ThemeInv, ThemeTypeOK, Themes
<1>4. PICK applied \in TabState : /\ applied = Applied(tab[t], "system", systemDark)
                                  /\ applied.applied = "system" /\ applied.dark = systemDark
                                  /\ applied.resolved = systemDark /\ applied.flipped = FALSE
  BY <1>1, <1>3, AppliedTab
<1>5. PICK new \in TabState : /\ new = Staged(applied, stage, theme)
                              /\ new.stage = stage /\ new.theme = theme /\ new.applied = "system"
                              /\ new.dark = systemDark /\ new.resolved = systemDark /\ new.flipped = FALSE
  BY <1>4, StagedTab
<1>6. tab' = [tab EXCEPT ![t] = new]
  BY <1>2, <1>4, <1>5 DEF Staged
<1>7. ThemeTypeOK'
  BY <1>1, <1>6, TabStep, <1>3 DEF ThemeInv, ThemeTypeOK
<1>8. \A u \in Tabs : LooksRight(u)'
  <2>1. IsDark("system") = systemDark
    BY <1>3 DEF IsDark
  <2>2. new.stage = "ready" => new.theme = "system"
    BY <1>2, <1>5
  <2>3. new.stage = "ready" => /\ new.applied = new.theme
                               /\ new.resolved = IsDark(new.theme)
                               /\ new.dark = (IsDark(new.theme) # new.flipped)
    BY <1>3, <1>5, <2>1, <2>2
  <2> QED BY <1>1, <1>6, <2>3, LooksKept
<1>9. Chosen'
  <2> SUFFICES ASSUME ~disturbed'
               PROVE  /\ Midway' = {} => "system" = chosen
                      /\ \A u \in Midway' : Midway' = {u} /\ tab'[u].theme = chosen
    BY <1>1 DEF Chosen, Themes, Unsaved
  <2>1. ~disturbed /\ Midway = {}
    BY <1>1, Zenon
  <2>2. savedTheme # Unsaved => savedTheme = chosen
    BY <2>1 DEF ThemeInv, Chosen
  <2>3. savedTheme = Unsaved => chosen = "system"
    BY DEF ThemeInv, Chosen
  <2>0. tab'[t] = new /\ Midway' = IF new.stage = "settling" THEN Midway \cup {t} ELSE Midway \ {t}
    BY <1>6, TabStep DEF ThemeInv
  <2>4. CASE savedTheme \notin {Unsaved, "system"}
    <3>1. new.stage = "settling" /\ new.theme = savedTheme
      BY <1>2, <1>5, <2>4
    <3>2. Midway' = {t} /\ tab'[t].theme = chosen
      BY <2>0, <2>1, <2>2, <2>4, <3>1
    <3> QED BY <3>2
  <2>5. CASE savedTheme \in {Unsaved, "system"}
    <3>0. new.stage = "ready"
      BY <1>2, <1>5, <2>5
    <3>1. Midway' = {}
      BY <2>0, <2>1, <3>0
    <3> QED BY <3>1, <2>2, <2>3, <2>5
  <2> QED BY <2>4, <2>5
<1> QED BY <1>7, <1>8, <1>9 DEF ThemeInv

LEMMA SettleThemeKept == ASSUME ThemeInv, NEW t \in Tabs, SettleTheme(t) PROVE ThemeInv'
<1>1. /\ tab[t] \in TabState /\ t \in Midway /\ savedTheme' = tab[t].theme /\ tab[t].theme \in Themes
      /\ UNCHANGED <<systemDark, chosen, disturbed>>
  BY DEF ThemeInv, ThemeTypeOK, SettleTheme, TabState
<1>2. PICK theme \in Themes, dark \in BOOLEAN : theme = tab[t].theme /\ dark = IsDark(theme)
  BY <1>1, DarkType DEF ThemeInv
<1>3. PICK applied \in TabState : /\ applied = Applied(tab[t], theme, dark)
                                  /\ applied.applied = theme /\ applied.dark = dark /\ applied.theme = theme
                                  /\ applied.resolved = dark /\ applied.flipped = FALSE
  BY <1>1, <1>2, AppliedTab
<1>4. PICK new \in TabState : /\ new = [applied EXCEPT !.stage = "ready"]
                              /\ new.stage = "ready" /\ new.theme = theme /\ new.applied = theme
                              /\ new.dark = dark /\ new.resolved = dark /\ new.flipped = FALSE
  <2> DEFINE new == [applied EXCEPT !.stage = "ready"]
  <2>1. /\ new \in TabState /\ new.stage = "ready" /\ new.theme = applied.theme /\ new.applied = applied.applied
        /\ new.dark = applied.dark /\ new.resolved = applied.resolved /\ new.flipped = applied.flipped
    BY Zenon DEF TabState
  <2> HIDE DEF new
  <2>2. new = [applied EXCEPT !.stage = "ready"]
    BY DEF new
  <2> QED BY <2>1, <2>2, <1>3
<1>5. tab' = [tab EXCEPT ![t] = new]
  BY <1>2, <1>3, <1>4 DEF SettleTheme
<1>6. ThemeTypeOK'
  BY <1>1, <1>5, TabStep DEF ThemeInv, ThemeTypeOK
<1>7. \A u \in Tabs : LooksRight(u)'
  <2>1. /\ new.applied = new.theme
        /\ new.resolved = IsDark(new.theme)
        /\ new.dark = (IsDark(new.theme) # new.flipped)
    BY <1>2, <1>4
  <2> QED BY <1>1, <1>5, <2>1, LooksKept
<1>8. Chosen'
  <2> SUFFICES ASSUME ~disturbed'
               PROVE  Midway' = {} /\ savedTheme' = chosen
    BY <1>1 DEF Chosen, Themes, Unsaved
  <2>1. Midway = {t} /\ tab[t].theme = chosen
    BY <1>1 DEF ThemeInv, Chosen
  <2>2. Midway' = {}
    BY <1>4, <1>5, <2>1, TabStep DEF ThemeInv
  <2> QED BY <1>1, <2>1, <2>2
<1> QED BY <1>6, <1>7, <1>8 DEF ThemeInv

LEMMA SetThemeKept == ASSUME ThemeInv, NEW t \in Tabs, NEW theme \in Themes, SetTheme(t, theme) PROVE ThemeInv'
<1>1. /\ tab[t] \in TabState /\ tab[t].stage = "ready" /\ chosen' = theme
      /\ disturbed' = (disturbed \/ Midway # {}) /\ UNCHANGED <<savedTheme, systemDark>>
  BY DEF ThemeInv, ThemeTypeOK, SetTheme
<1>2. PICK new \in TabState : /\ new = Staged(tab[t], "settling", theme)
                              /\ new.stage = "settling" /\ new.theme = theme
  BY <1>1, StagedTab
<1>3. tab' = [tab EXCEPT ![t] = new]
  BY <1>1, <1>2 DEF SetTheme, ThemeInv, ThemeTypeOK, Staged
<1>4. ThemeTypeOK'
  BY <1>1, <1>3, TabStep DEF ThemeInv, ThemeTypeOK
<1>5. \A u \in Tabs : LooksRight(u)'
  BY <1>1, <1>2, <1>3, LooksKept
<1>6. Chosen'
  <2>1. savedTheme # Unsaved
    BY <1>1 DEF ThemeInv, Chosen
  <2> SUFFICES ASSUME ~disturbed'
               PROVE  Midway' = {t} /\ tab'[t].theme = theme
    BY <1>1, <2>1 DEF Chosen
  <2>2. Midway = {}
    BY <1>1, Zenon
  <2> QED BY <1>2, <1>3, <2>2, TabStep DEF ThemeInv
<1> QED BY <1>4, <1>5, <1>6 DEF ThemeInv

\* The palette turns what is seen, and says so.
LEMMA ToggleKept == ASSUME ThemeInv, NEW t \in Tabs, ToggleDarkMode(t) PROVE ThemeInv'
<1>1. /\ tab[t] \in TabState /\ tab[t].stage = "ready" /\ UNCHANGED <<savedTheme, systemDark, chosen, disturbed>>
      /\ LooksRight(t)
  BY DEF ThemeInv, ThemeTypeOK, ToggleDarkMode
<1>2. PICK new \in TabState : /\ tab' = [tab EXCEPT ![t] = new]
                              /\ new.stage = "ready" /\ new.theme = tab[t].theme /\ new.applied = tab[t].applied
                              /\ new.resolved = tab[t].resolved
                              /\ new.dark = ~tab[t].dark /\ new.flipped = ~tab[t].flipped
  <2> DEFINE new == [tab[t] EXCEPT !.dark = ~@, !.flipped = ~@]
  <2>1. new.stage = "ready" /\ new.theme = tab[t].theme /\ new.applied = tab[t].applied
    BY <1>1 DEF TabState
  <2>2. new.resolved = tab[t].resolved /\ new.dark = ~tab[t].dark /\ new.flipped = ~tab[t].flipped
    BY <1>1, Zenon DEF TabState
  <2>3. new \in TabState
    BY <1>1, Zenon DEF TabState
  <2>4. tab' = [tab EXCEPT ![t] = new]
    BY <1>1, Zenon DEF ToggleDarkMode
  <2> HIDE DEF new
  <2> QED BY <2>1, <2>2, <2>3, <2>4
<1>3. ThemeTypeOK'
  BY <1>1, <1>2, TabStep DEF ThemeInv, ThemeTypeOK
<1>4. \A u \in Tabs : LooksRight(u)'
  <2>1. tab[t].applied = tab[t].theme /\ tab[t].resolved = IsDark(tab[t].theme)
        /\ tab[t].dark = (IsDark(tab[t].theme) # tab[t].flipped)
    BY <1>1 DEF LooksRight
  <2>2. IsDark(tab[t].theme) \in BOOLEAN /\ tab[t].dark \in BOOLEAN /\ tab[t].flipped \in BOOLEAN
    BY <1>1, DarkType DEF ThemeInv, TabState
  <2>3. new.dark = (IsDark(new.theme) # new.flipped)
    BY <1>2, <2>1, <2>2
  <2> QED BY <1>1, <1>2, <2>1, <2>3, LooksKept
<1>5. Chosen'
  <2>1. Midway' = Midway /\ \A u \in Midway : tab'[u] = tab[u]
    BY <1>1, <1>2, TabStep DEF ThemeInv, Midway
  <2>2. savedTheme # Unsaved
    BY <1>1 DEF ThemeInv, Chosen
  <2> QED BY <1>1, <2>1, <2>2 DEF ThemeInv, Chosen
<1> QED BY <1>3, <1>4, <1>5 DEF ThemeInv

\* The tabs that show the theme of the system follow it.
LEMMA SystemKept == ASSUME ThemeInv, SystemChanges PROVE ThemeInv'
<1>1. UNCHANGED <<savedTheme, chosen, disturbed>> /\ systemDark \in BOOLEAN /\ systemDark' = ~systemDark
      /\ systemDark' \in BOOLEAN /\ "system" \in Themes
  BY DEF ThemeInv, ThemeTypeOK, SystemChanges, Themes
<1>2. PICK dark \in BOOLEAN : dark = systemDark'
  BY <1>1
<1>3. ASSUME NEW t \in Tabs
      PROVE  /\ tab'[t] \in TabState /\ tab'[t].stage = tab[t].stage /\ tab'[t].theme = tab[t].theme
             /\ LooksRight(t)'
  <2>1. tab[t] \in TabState /\ LooksRight(t)
    BY DEF ThemeInv, ThemeTypeOK
  <2>2. tab'[t] = IF tab[t].stage \in {"settling", "ready"} /\ tab[t].applied = "system"
                  THEN Applied(tab[t], "system", dark) ELSE tab[t]
    BY <1>1, <1>2 DEF SystemChanges
  <2>3. CASE tab[t].stage \in {"settling", "ready"} /\ tab[t].applied = "system"
    <3>1. PICK new \in TabState : /\ new = Applied(tab[t], "system", dark)
                                  /\ new.stage = tab[t].stage /\ new.theme = tab[t].theme
                                  /\ new.applied = "system" /\ new.dark = dark
                                  /\ new.resolved = dark /\ new.flipped = FALSE
      BY <1>1, <2>1, AppliedTab
    <3>2. tab'[t] = new
      BY <2>2, <2>3, <3>1
    <3>3. new.stage = "ready" => new.theme = "system"
      BY <2>1, <2>3, <3>1 DEF LooksRight
    <3>4. IsDark("system")' = dark
      BY <1>2 DEF IsDark
    <3>5. new.dark = (dark # new.flipped)
      BY <3>1
    <3> QED BY <3>1, <3>2, <3>3, <3>4, <3>5 DEF LooksRight
  <2>4. CASE ~(tab[t].stage \in {"settling", "ready"} /\ tab[t].applied = "system")
    <3>1. tab'[t] = tab[t]
      BY <2>2, <2>4
    <3>2. tab[t].stage = "ready" => tab[t].theme # "system"
      BY <2>1, <2>4 DEF LooksRight
    <3>3. \A theme : theme # "system" => IsDark(theme)' = IsDark(theme)
      BY DEF IsDark
    <3> QED BY <2>1, <3>1, <3>2, <3>3 DEF LooksRight
  <2> QED BY <2>3, <2>4
<1>4. tab' \in [Tabs -> TabState]
  <2>1. DOMAIN tab' = Tabs /\ tab' = [t \in Tabs |-> tab'[t]]
    BY DEF SystemChanges
  <2> QED BY <1>3, <2>1
<1>5. Midway' = Midway
  BY <1>3 DEF Midway
<1>6. Chosen'
  BY <1>1, <1>3, <1>5 DEF ThemeInv, Chosen, Midway
<1>7. ThemeTypeOK'
  BY <1>1, <1>4 DEF ThemeInv, ThemeTypeOK
<1> QED BY <1>3, <1>6, <1>7 DEF ThemeInv

LEMMA CloseKept == ASSUME ThemeInv, NEW t \in Tabs, Close(t) PROVE ThemeInv'
<1>1. /\ disturbed' = (disturbed \/ t \in Midway) /\ UNCHANGED <<savedTheme, systemDark, chosen>>
  BY DEF Close
<1>2. PICK new \in TabState : new = Closed /\ new.stage = "closed"
  <2>1. Closed \in TabState
    BY Zenon DEF Closed, TabState, Themes
  <2>2. Closed.stage = "closed"
    BY DEF Closed
  <2> QED BY <2>1, <2>2
<1>3. tab' = [tab EXCEPT ![t] = new]
  BY <1>2 DEF Close
<1>4. ThemeTypeOK'
  BY <1>1, <1>3, TabStep DEF ThemeInv, ThemeTypeOK
<1>5. \A u \in Tabs : LooksRight(u)'
  BY <1>1, <1>2, <1>3, LooksKept
<1>6. Chosen'
  <2>1. savedTheme = Unsaved => \A u \in Tabs : tab'[u].stage \in {"closed", "painted"}
    BY <1>2, <1>3, TabStep DEF ThemeInv, Chosen
  <2>2. ASSUME ~disturbed' PROVE ~disturbed /\ Midway' = Midway /\ \A u \in Midway : tab'[u] = tab[u]
    <3>1. ~disturbed /\ t \notin Midway
      BY <1>1, <2>2, Zenon
    <3> QED BY <1>2, <1>3, <3>1, TabStep DEF ThemeInv, Midway
  <2> QED BY <1>1, <2>1, <2>2 DEF ThemeInv, Chosen
<1> QED BY <1>4, <1>5, <1>6 DEF ThemeInv

LEMMA ThemeStep == ASSUME ThemeInv, ThemeNext PROVE ThemeInv'
BY LoadKept, MountKept, SettleThemeKept, SetThemeKept, ToggleKept, SystemKept, CloseKept DEF ThemeNext

-----------------------------------------------------------------------------
(* The pages visited, and the checklist.  What a palette is about to save  *)
(* has each page once, as the list has that it read.                       *)

EachOnce(s) == \A i, j \in 1 .. Len(s) : s[i] = s[j] => i = j

RecentInv ==
  /\ savedRecent \in Seq(Hrefs) /\ Len(savedRecent) <= MaxRecent /\ EachOnce(savedRecent)
  /\ recent \in [Tabs -> Seq(Hrefs)] /\ \A t \in Tabs : EachOnce(recent[t])
  /\ savedRecent # <<>> => savedRecent[1] = lastVisit

\* A page goes before others that are not it.
LEMMA PutFirst ==
  ASSUME NEW h \in Hrefs, NEW rest \in Seq(Hrefs), EachOnce(rest), \A i \in 1 .. Len(rest) : rest[i] # h,
         NEW s, s = <<h>> \o rest
  PROVE  s \in Seq(Hrefs) /\ EachOnce(s)
<1>1. /\ s \in Seq(Hrefs) /\ Len(s) = Len(rest) + 1 /\ Len(rest) \in Nat /\ s[1] = h
      /\ \A i \in 2 .. Len(rest) + 1 : s[i] = rest[i - 1]
  OBVIOUS
<1>2. ASSUME NEW i \in 1 .. Len(s), NEW j \in 1 .. Len(s), s[i] = s[j] PROVE i = j
  <2>1. CASE i = 1 /\ j # 1
    <3>1. s[j] = rest[j - 1] /\ j - 1 \in 1 .. Len(rest)
      BY ONLY <1>1, <2>1, j \in 1 .. Len(s)
    <3> QED BY <1>1, <1>2, <2>1, <3>1
  <2>2. CASE i # 1 /\ j = 1
    <3>1. s[i] = rest[i - 1] /\ i - 1 \in 1 .. Len(rest)
      BY ONLY <1>1, <2>2, i \in 1 .. Len(s)
    <3> QED BY <1>1, <1>2, <2>2, <3>1
  <2>3. CASE i # 1 /\ j # 1
    <3>1. s[i] = rest[i - 1] /\ i - 1 \in 1 .. Len(rest) /\ s[j] = rest[j - 1] /\ j - 1 \in 1 .. Len(rest)
      BY ONLY <1>1, <2>3, i \in 1 .. Len(s), j \in 1 .. Len(s)
    <3>2. i - 1 = j - 1
      BY <1>2, <3>1 DEF EachOnce
    <3> QED BY <3>2
  <2> QED BY <2>1, <2>2, <2>3
<1> QED BY <1>1, <1>2 DEF EachOnce

LEMMA ReadRecentKept ==
  ASSUME RecentInv, NEW t \in Tabs, NEW h \in Hrefs, ReadRecent(t, h), UNCHANGED <<savedRecent, lastVisit>>
  PROVE  RecentInv'
<1> DEFINE n == Cardinality(Others(h))
<1>1. n \in Nat
  <2>1. IsFiniteSet(1 .. Len(savedRecent))
    BY FS_Interval DEF RecentInv
  <2>2. Others(h) \subseteq 1 .. Len(savedRecent)
    BY DEF Others, RecentInv
  <2> QED BY <2>1, <2>2, FS_Subset, FS_CardinalityType
<1>2. PICK at \in [1 .. n -> Others(h)] :
        /\ \A i, j \in DOMAIN at : i < j => at[i] < at[j]
        /\ recent' = [recent EXCEPT ![t] = <<h>> \o [i \in DOMAIN at |-> savedRecent[at[i]]]]
  BY DEF ReadRecent
<1> HIDE DEF n
<1>3. \A i \in 1 .. n : at[i] \in 1 .. Len(savedRecent) /\ savedRecent[at[i]] # h /\ savedRecent[at[i]] \in Hrefs
  BY DEF Others, RecentInv
<1>4. PICK rest : rest = [i \in 1 .. n |-> savedRecent[at[i]]]
  OBVIOUS
<1>5. rest \in Seq(Hrefs) /\ Len(rest) = n /\ \A i \in 1 .. n : rest[i] = savedRecent[at[i]]
  BY ONLY <1>1, <1>3, <1>4
<1>6. ASSUME NEW i \in 1 .. n, NEW j \in 1 .. n, rest[i] = rest[j] PROVE i = j
  <2>1. at[i] = at[j]
    <3>1. savedRecent[at[i]] = savedRecent[at[j]]
      BY ONLY <1>5, <1>6, i \in 1 .. n, j \in 1 .. n
    <3>2. at[i] \in 1 .. Len(savedRecent) /\ at[j] \in 1 .. Len(savedRecent)
      BY <1>3
    <3>3. EachOnce(savedRecent)
      BY DEF RecentInv
    <3> QED BY ONLY <3>1, <3>2, <3>3 DEF EachOnce
  <2>2. at[i] \in Int
    BY <1>3
  <2>3. ~(i < j) /\ ~(j < i)
    BY <1>2, <2>1, <2>2
  <2> QED BY ONLY <1>1, i \in 1 .. n, j \in 1 .. n, <2>3
<1>7. EachOnce(rest) /\ \A i \in 1 .. Len(rest) : rest[i] # h
  BY <1>3, <1>5, <1>6 DEF EachOnce
<1>8. PICK s : s = <<h>> \o rest
  OBVIOUS
<1>9. s \in Seq(Hrefs) /\ EachOnce(s)
  BY <1>5, <1>7, <1>8, PutFirst
<1>10. recent' = [recent EXCEPT ![t] = s]
  BY <1>2, <1>4, <1>8
<1> QED BY <1>9, <1>10 DEF RecentInv

LEMMA SaveRecentKept == ASSUME RecentInv, NEW t \in Tabs, SaveRecent(t) PROVE RecentInv'
<1> DEFINE r == recent[t]
           m == IF Len(r) < MaxRecent THEN Len(r) ELSE MaxRecent
<1>1. r \in Seq(Hrefs) /\ r # <<>> /\ Len(r) \in Nat /\ Len(r) >= 1 /\ EachOnce(r)
  BY DEF RecentInv, SaveRecent
<1>2. /\ savedRecent' = SubSeq(r, 1, m) /\ lastVisit' = r[1]
      /\ recent' = [recent EXCEPT ![t] = <<>>]
  BY <1>1 DEF SaveRecent
<1>3. m \in 0 .. Len(r) /\ m <= MaxRecent /\ MaxRecent \in Nat
  BY <1>1, RecentAssumption
<1> HIDE DEF r, m
<1>4. PICK new : /\ new = savedRecent' /\ new \in Seq(Hrefs) /\ Len(new) = m
                 /\ \A i \in 1 .. m : new[i] = r[i]
  BY <1>1, <1>2, <1>3, SubSeqProperties
<1>5. \A i \in 1 .. m : i \in 1 .. Len(r)
  BY <1>1, <1>3
<1>6. EachOnce(new)
  BY <1>1, <1>4, <1>5 DEF EachOnce
<1>7. new # <<>> => new[1] = lastVisit'
  <2>1. new # <<>> => m >= 1
    BY <1>3, <1>4
  <2> QED BY <1>2, <1>3, <1>4, <2>1
<1>8. recent' \in [Tabs -> Seq(Hrefs)] /\ \A u \in Tabs : EachOnce(recent'[u])
  <2>1. <<>> \in Seq(Hrefs) /\ EachOnce(<<>>)
    BY DEF EachOnce
  <2>2. recent \in [Tabs -> Seq(Hrefs)] /\ \A u \in Tabs : EachOnce(recent[u])
    BY DEF RecentInv
  <2> QED BY <1>2, <2>1, <2>2
<1> QED BY <1>3, <1>4, <1>6, <1>7, <1>8 DEF RecentInv

LEMMA RecentStep ==
  ASSUME RecentInv, RecentNext \/ UNCHANGED <<savedRecent, recent, lastVisit>>
  PROVE  RecentInv'
<1>1. CASE UNCHANGED <<savedRecent, recent, lastVisit>>
  BY <1>1 DEF RecentInv
<1>2. ASSUME NEW t \in Tabs, NEW h \in Hrefs, ReadRecent(t, h) PROVE RecentInv'
  BY <1>2, ReadRecentKept DEF ReadRecent
<1> QED BY <1>1, <1>2, SaveRecentKept DEF RecentNext

HiddenIsDismissed == /\ checklist \in [Tabs -> {"away", "shown", "hidden"}]
                     /\ \A t \in Tabs : checklist[t] = "hidden" => dismissed

LEMMA CheckStep == HiddenIsDismissed /\ (CheckNext \/ UNCHANGED checkvars) => HiddenIsDismissed'
<1>1. \A completed \in SUBSET ScopeSteps : completed # Steps
  BY DEF ScopeSteps, Steps
<1> QED BY <1>1 DEF HiddenIsDismissed, CheckNext, checkvars, VisitOverview, ShowChecklist, Dismiss, LeaveOverview

-----------------------------------------------------------------------------
(* The session.  A tab that is at a provider has nothing of the            *)
(* application left: no calls that run, no answers.                        *)

TryRecord ==
  [n : Int, tab : Tabs, what : Forms \cup {"signOut"}, account : Accounts \cup {NoAccount}, here : BOOLEAN]

SessionTypeOK ==
  /\ place \in [Tabs -> Places \cup {"provider"}] /\ loading \in [Tabs -> BOOLEAN]
  /\ holds \in [Tabs -> SUBSET Accounts] /\ cookie \in Accounts \cup {NoAccount}
  /\ tries \subseteq TryRecord /\ tried \in Int

AtProvider(t) == place[t] = "provider" => holds[t] = {} /\ Dropped(t) = tries

SessionInv == SessionTypeOK /\ SessionShown /\ \A t \in Tabs : AtProvider(t)

\* The calls of a tab that has another page, and what they are in others.
Gone(S, t) == {[a EXCEPT !.here = @ /\ a.tab # t] : a \in S}

LEMMA GoneCalls ==
  ASSUME NEW S, S \subseteq TryRecord, NEW t \in Tabs
  PROVE  /\ Gone(S, t) \subseteq TryRecord
         /\ \A a \in Gone(S, t) : a.here => a.tab # t /\ a \in S
         /\ \A a \in S : a.tab # t => a \in Gone(S, t)
         /\ \A a \in Gone(S, t) : a.tab # t => a \in S
<1>1. \A a \in S : /\ [a EXCEPT !.here = @ /\ a.tab # t] \in TryRecord
                   /\ [a EXCEPT !.here = @ /\ a.tab # t].tab = a.tab
                   /\ [a EXCEPT !.here = @ /\ a.tab # t].here = (a.here /\ a.tab # t)
                   /\ a.tab # t => [a EXCEPT !.here = @ /\ a.tab # t] = a
  BY DEF TryRecord
<1>2. \A b \in Gone(S, t) : \E a \in S : b = [a EXCEPT !.here = @ /\ a.tab # t]
  BY DEF Gone
<1>3. \A a \in S : [a EXCEPT !.here = @ /\ a.tab # t] \in Gone(S, t)
  BY DEF Gone
<1>4. ASSUME NEW b \in Gone(S, t)
      PROVE  b \in TryRecord /\ (b.here => b.tab # t /\ b \in S) /\ (b.tab # t => b \in S)
  <2>1. PICK a \in S : b = [a EXCEPT !.here = @ /\ a.tab # t]
    BY <1>2
  <2>2. b.tab = a.tab /\ b.here = (a.here /\ a.tab # t) /\ b \in TryRecord
    BY <1>1, <2>1
  <2>3. a.tab # t => b = a
    BY <1>1, <2>1
  <2> QED BY <2>2, <2>3, Zenon
<1>5. \A a \in S : a.tab # t => a \in Gone(S, t)
  BY <1>1, <1>3
<1> QED BY <1>4, <1>5

\* What a change of the page of t asks of the calls.
Away(t) ==
  /\ tries' \subseteq TryRecord
  /\ \A a \in tries' : a.here => a.tab # t /\ a \in tries
  /\ \A a \in tries : a.here /\ a.tab # t => a \in tries'

LEMMA AwayShown ==
  ASSUME SessionInv, NEW t \in Tabs, Away(t), loading' = [loading EXCEPT ![t] = FALSE]
  PROVE  \A u \in Tabs : (loading'[u] <=> Waits(u)' # {}) /\ \A a, b \in Waits(u)' : a = b
<1> SUFFICES ASSUME NEW u \in Tabs
             PROVE  (loading'[u] <=> Waits(u)' # {}) /\ \A a, b \in Waits(u)' : a = b
  OBVIOUS
<1>1. CASE u = t
  <2>1. Waits(u)' = {} /\ loading'[u] = FALSE
    BY <1>1 DEF Away, Waits, SessionInv, SessionTypeOK
  <2> QED BY <2>1
<1>2. CASE u # t
  <2>1. Waits(u)' = Waits(u)
    BY <1>2 DEF Away, Waits
  <2>2. loading'[u] = loading[u]
    BY <1>2 DEF SessionInv, SessionTypeOK
  <2> QED BY <2>1, <2>2 DEF SessionInv, SessionShown
<1> QED BY <1>1, <1>2

\* A tab that gets a page of the application.
LEMMA PageKept ==
  ASSUME SessionInv, NEW t \in Tabs, NEW p \in Places, Away(t),
         place' = [place EXCEPT ![t] = p], loading' = [loading EXCEPT ![t] = FALSE],
         \A a \in tries' : a.tab # t => a \in tries,
         holds' \in {holds, [holds EXCEPT ![t] = {}]}, tried' = tried, cookie' \in Accounts \cup {NoAccount},
         \A u \in Tabs : u \notin changed' => holds'[u] \subseteq {cookie'}
  PROVE  SessionInv'
<1>1. SessionTypeOK'
  BY DEF SessionInv, SessionTypeOK, Away
<1>2. ASSUME NEW u \in Tabs, place'[u] = "provider" PROVE holds'[u] = {} /\ Dropped(u)' = tries'
  <2>1. u # t /\ place[u] = "provider"
    BY <1>2 DEF SessionInv, SessionTypeOK, Places, Forms
  <2>2. holds'[u] = {}
    BY <2>1 DEF SessionInv, SessionTypeOK, AtProvider
  <2>3. \A a \in tries' : a.tab # u
    BY <2>1 DEF SessionInv, AtProvider, Dropped
  <2> QED BY <2>2, <2>3 DEF Dropped
<1> QED BY <1>1, <1>2, AwayShown DEF SessionInv, SessionShown, AtProvider

\* A session that becomes another is another for every tab.
LEMMA BecomesShown ==
  ASSUME SessionInv, NEW u, Becomes(u, {}), holds' = holds
  PROVE  \A t \in Tabs : t \notin changed' => holds'[t] \subseteq {cookie'}
BY DEF Becomes, SessionInv, SessionShown

LEMMA OpenPageKept ==
  ASSUME SessionInv, NEW t \in Tabs, NEW p \in Places, NEW anew \in BOOLEAN, Open(t, p, anew)
  PROVE  SessionInv'
<1>1. /\ place' = [place EXCEPT ![t] = p] /\ loading' = [loading EXCEPT ![t] = FALSE]
      /\ tries' = IF anew THEN Dropped(t) ELSE Gone(tries, t)
      /\ holds' = IF anew THEN [holds EXCEPT ![t] = {}] ELSE holds
      /\ changed' = IF anew THEN changed \ {t} ELSE changed
      /\ UNCHANGED <<cookie, tried>>
  BY DEF Open, GetsPage, Left, Gone
<1>2. Away(t) /\ \A a \in tries' : a.tab # t => a \in tries
  BY <1>1, GoneCalls DEF Away, Dropped, SessionInv, SessionTypeOK
<1>3. \A u \in Tabs : u \notin changed' => holds'[u] \subseteq {cookie'}
  BY <1>1 DEF SessionInv, SessionShown, SessionTypeOK
<1>4. cookie' \in Accounts \cup {NoAccount}
  BY <1>1 DEF SessionInv, SessionTypeOK
<1> QED BY <1>1, <1>2, <1>3, <1>4, PageKept

LEMMA AnsweredKept == ASSUME SessionInv, NEW t \in Tabs, Answered(t) PROVE SessionInv'
<1>1. /\ place[t] = "overview" /\ cookie # NoAccount /\ holds' = [holds EXCEPT ![t] = @ \cup {cookie}]
      /\ UNCHANGED <<cookie, place, loading, tries, tried, changed>>
  BY DEF Answered
<1>2. \A u \in Tabs : Waits(u)' = Waits(u) /\ Dropped(u)' = Dropped(u)
  BY <1>1 DEF Waits, Dropped
<1>3. holds' \in [Tabs -> SUBSET Accounts]
  BY <1>1 DEF SessionInv, SessionTypeOK
<1> QED BY <1>1, <1>2, <1>3 DEF SessionInv, SessionTypeOK, SessionShown, AtProvider

LEMMA CallKept ==
  ASSUME SessionInv, NEW t \in Tabs, NEW what \in Forms \cup {"signOut"}, NEW u \in Accounts \cup {NoAccount},
         place[t] \in Places, Call(t, what, u),
         what \in Forms => ~loading[t] /\ Submitted(t),
         what \notin Forms => loading' = loading
  PROVE  SessionInv'
<1> DEFINE new == [n |-> tried + 1, tab |-> t, what |-> what, account |-> u, here |-> TRUE]
<1>1. /\ tries' = tries \cup {new} /\ tried' = tried + 1
      /\ UNCHANGED <<cookie, place, holds, changed>>
  BY DEF Call
<1>2. new \in TryRecord
  <2>1. tried + 1 \in Int
    BY DEF SessionInv, SessionTypeOK
  <2> QED BY <2>1, Zenon DEF TryRecord
<1>3. new.tab = t /\ new.what = what /\ new.here = TRUE
  OBVIOUS
<1> HIDE DEF new
<1>4. SessionTypeOK'
  <2>1. loading' \in [Tabs -> BOOLEAN]
    BY DEF SessionInv, SessionTypeOK, Submitted
  <2>2. tries' \subseteq TryRecord /\ tried' \in Int
    BY <1>1, <1>2 DEF SessionInv, SessionTypeOK
  <2> QED BY <1>1, <2>1, <2>2 DEF SessionInv, SessionTypeOK
<1>5. \A v \in Tabs : (loading'[v] <=> Waits(v)' # {}) /\ \A a, b \in Waits(v)' : a = b
  <2>1. CASE what \in Forms
    <3>1. Waits(t) = {}
      BY <2>1 DEF SessionInv, SessionShown
    <3>2. Waits(t)' = {new} /\ loading'[t]
      BY <1>1, <1>2, <1>3, <2>1, <3>1 DEF Waits, Submitted, SessionInv, SessionTypeOK
    <3>3. \A v \in Tabs \ {t} : Waits(v)' = Waits(v) /\ loading'[v] = loading[v]
      BY <1>1, <1>2, <1>3, <2>1 DEF Waits, Submitted, SessionInv, SessionTypeOK
    <3> QED BY <3>2, <3>3 DEF SessionInv, SessionShown
  <2>2. CASE what \notin Forms
    <3>1. \A v \in Tabs : Waits(v)' = Waits(v)
      BY <1>1, <1>2, <1>3, <2>2 DEF Waits
    <3> QED BY <2>2, <3>1 DEF SessionInv, SessionShown
  <2> QED BY <2>1, <2>2
<1>6. ASSUME NEW v \in Tabs, place[v] = "provider" PROVE Dropped(v)' = tries'
  <2>1. v # t
    BY <1>6 DEF Places, Forms
  <2> QED BY <1>1, <1>2, <1>3, <1>6, <2>1 DEF Dropped, SessionInv, AtProvider
<1> QED BY <1>1, <1>4, <1>5, <1>6 DEF SessionInv, SessionShown, AtProvider

LEMMA SignedKept ==
  ASSUME SessionInv, NEW a \in tries, SignedIn(a) \/ SignedOut(a)
  PROVE  SessionInv'
<1> DEFINE t == a.tab
<1>1. t \in Tabs /\ tries \ {a} \subseteq TryRecord
  BY DEF SessionInv, SessionTypeOK, TryRecord
<1>2. PICK p \in Places : /\ place' = [place EXCEPT ![t] = p] /\ loading' = [loading EXCEPT ![t] = FALSE]
                          /\ tries' = Gone(tries \ {a}, t)
                          /\ UNCHANGED <<tried, holds>>
  BY DEF SignedIn, SignedOut, GetsPage, Gone, Places, Forms
<1>3. \A u \in Tabs : u \notin changed' => holds'[u] \subseteq {cookie'}
  <2>1. CASE UNCHANGED <<cookie, changed>>
    BY <1>2, <2>1 DEF SessionInv, SessionShown
  <2>2. CASE Becomes(a.account, {}) \/ Becomes(NoAccount, {})
    BY <1>2, <2>2, BecomesShown
  <2> QED BY <2>1, <2>2 DEF SignedIn, SignedOut
<1> HIDE DEF t
<1>4. Away(t) /\ \A b \in tries' : b.tab # t => b \in tries
  <2>1. \A b \in tries : b.tab # t => b \in tries \ {a}
    BY DEF t
  <2> QED BY <1>1, <1>2, <2>1, GoneCalls DEF Away
<1>5. cookie' \in Accounts \cup {NoAccount}
  BY DEF SignedIn, SignedOut, Becomes, SessionInv, SessionTypeOK, TryRecord
<1> QED BY <1>1, <1>2, <1>3, <1>4, <1>5, PageKept

LEMMA RefusedKept == ASSUME SessionInv, NEW a \in tries, Refused(a) PROVE SessionInv'
<1> DEFINE t == a.tab
<1>1. /\ t \in Tabs /\ a.what \in Forms /\ a.here \in BOOLEAN
      /\ loading' = IF a.here THEN [loading EXCEPT ![t] = FALSE] ELSE loading
      /\ tries' = tries \ {a} /\ UNCHANGED <<cookie, place, tried, holds, changed>>
  BY DEF Refused, SessionInv, SessionTypeOK, TryRecord
<1>2. SessionTypeOK'
  BY <1>1 DEF SessionInv, SessionTypeOK
<1>3. \A u \in Tabs : (loading'[u] <=> Waits(u)' # {}) /\ \A b, c \in Waits(u)' : b = c
  <2> SUFFICES ASSUME NEW u \in Tabs
               PROVE  (loading'[u] <=> Waits(u)' # {}) /\ \A b, c \in Waits(u)' : b = c
    OBVIOUS
  <2>1. CASE a.here /\ u = t
    <3>1. a \in Waits(u)
      BY <1>1, <2>1 DEF Waits
    <3>2. Waits(u)' = {}
      BY <1>1, <3>1 DEF Waits, SessionInv, SessionShown
    <3>3. loading'[u] = FALSE
      BY <1>1, <2>1 DEF SessionInv, SessionTypeOK
    <3> QED BY <3>2, <3>3
  <2>2. CASE ~(a.here /\ u = t)
    <3>1. Waits(u)' = Waits(u)
      BY <1>1, <2>2 DEF Waits
    <3>2. loading'[u] = loading[u]
      BY <1>1, <2>2 DEF SessionInv, SessionTypeOK
    <3> QED BY <3>1, <3>2 DEF SessionInv, SessionShown
  <2> QED BY <2>1, <2>2
<1> QED BY <1>1, <1>2, <1>3 DEF SessionInv, SessionShown, AtProvider, Dropped

LEMMA OAuthKept ==
  ASSUME SessionInv, NEW t \in Tabs, NEW f \in Forms, HandleOAuth(t, f)
  PROVE  SessionInv'
<1>1. /\ place' = [place EXCEPT ![t] = "provider"] /\ loading' = [loading EXCEPT ![t] = FALSE]
      /\ tries' = Dropped(t) /\ holds' = [holds EXCEPT ![t] = {}] /\ changed' = changed \ {t}
      /\ tried' = tried + 1 /\ cookie' = cookie
  BY DEF HandleOAuth, GetsPage
<1>2. Away(t)
  BY <1>1 DEF Away, Dropped, SessionInv, SessionTypeOK
<1>3. SessionTypeOK'
  BY <1>1, <1>2 DEF SessionInv, SessionTypeOK, Away
<1>4. \A u \in Tabs : u \notin changed' => holds'[u] \subseteq {cookie'}
  BY <1>1 DEF SessionInv, SessionShown, SessionTypeOK
<1>5. \A u \in Tabs : AtProvider(u)'
  BY <1>1 DEF SessionInv, SessionTypeOK, AtProvider, Dropped
<1> QED BY <1>1, <1>2, <1>3, <1>4, <1>5, AwayShown DEF SessionInv, SessionShown

LEMMA CallbackKept ==
  ASSUME SessionInv, NEW t \in Tabs, NEW u \in Accounts, Callback(t, u)
  PROVE  SessionInv'
<1>1. PICK p \in Places : /\ place' = [place EXCEPT ![t] = p] /\ loading' = [loading EXCEPT ![t] = FALSE]
                          /\ UNCHANGED <<tries, tried, holds>>
  BY DEF Callback, GetsPage, Places, Forms
<1>2. holds[t] = {} /\ \A a \in tries : a.tab # t
  BY DEF Callback, SessionInv, AtProvider, Dropped
<1>3. Away(t)
  BY <1>1, <1>2 DEF Away, SessionInv, SessionTypeOK
<1>4. \A v \in Tabs : v \notin changed' => holds'[v] \subseteq {cookie'}
  BY <1>1, <1>2 DEF Callback, Becomes, SessionInv, SessionShown
<1>5. cookie' \in Accounts \cup {NoAccount}
  BY DEF Callback, Becomes, SessionInv, SessionTypeOK
<1> QED BY <1>1, <1>3, <1>4, <1>5, PageKept

LEMMA SessionStep == ASSUME SessionInv, SessionNext \/ UNCHANGED sessionvars PROVE SessionInv'
<1>1. CASE UNCHANGED sessionvars
  BY <1>1 DEF sessionvars, SessionInv, SessionTypeOK, SessionShown, Waits, AtProvider, Dropped
<1>2. ASSUME NEW t \in Tabs, NEW u \in Accounts, HandleLogin(t, u) \/ HandleSignup(t, u) PROVE SessionInv'
  <2>1. PICK what \in Forms : place[t] = what /\ ~loading[t] /\ Submitted(t) /\ Call(t, what, u)
    BY <1>2 DEF HandleLogin, HandleSignup, LoginForm, SignupForm, Forms
  <2> QED BY <2>1, CallKept DEF Places
<1>3. ASSUME NEW t \in Tabs, HandleSignOut(t) PROVE SessionInv'
  BY <1>3, CallKept DEF HandleSignOut, Places, Forms
<1>4. ASSUME NEW t \in Tabs, OAuthOfLogin(t) \/ OAuthOfSignup(t) PROVE SessionInv'
  BY <1>4, OAuthKept DEF OAuthOfLogin, OAuthOfSignup, Forms
<1> QED BY <1>1, <1>2, <1>3, <1>4, OpenPageKept, AnsweredKept, CallbackKept, SignedKept, RefusedKept DEF SessionNext

LEMMA SessionStart == SessionInit => SessionInv
<1> SUFFICES ASSUME SessionInit PROVE SessionInv
  OBVIOUS
<1>1. SessionTypeOK /\ \A t \in Tabs : Waits(t) = {} /\ ~loading[t] /\ holds[t] = {} /\ Dropped(t) = tries
  BY DEF SessionInit, SessionTypeOK, Places, Forms, Waits, Dropped
<1> QED BY <1>1 DEF SessionInv, SessionShown, AtProvider

LEMMA BsStart == BsInit => ThemeInv /\ RecentInv /\ HiddenIsDismissed
<1> SUFFICES ASSUME BsInit PROVE ThemeInv /\ RecentInv /\ HiddenIsDismissed
  OBVIOUS
<1>1. PICK new \in TabState : new = Closed /\ new.stage = "closed"
  <2>1. Closed \in TabState
    BY Zenon DEF Closed, TabState, Themes
  <2>2. Closed.stage = "closed"
    BY DEF Closed
  <2> QED BY <2>1, <2>2
<1>2. /\ tab = [t \in Tabs |-> new] /\ savedTheme = Unsaved /\ chosen = "system" /\ disturbed = FALSE
      /\ systemDark \in BOOLEAN
  BY <1>1 DEF BsInit
<1>3. ThemeInv
  <2>1. \A t \in Tabs : tab[t] = new
    BY <1>2
  <2>2. ThemeTypeOK
    BY <1>2 DEF ThemeTypeOK, Themes
  <2>3. Chosen /\ \A t \in Tabs : LooksRight(t)
    BY <1>1, <1>2, <2>1 DEF Chosen, LooksRight, Midway
  <2> QED BY <2>2, <2>3 DEF ThemeInv
<1>4. RecentInv
  <2>1. <<>> \in Seq(Hrefs) /\ EachOnce(<<>>) /\ Len(<<>>) = 0
    BY DEF EachOnce
  <2> QED BY <2>1, RecentAssumption DEF BsInit, RecentInv
<1>5. HiddenIsDismissed
  BY DEF BsInit, HiddenIsDismissed
<1> QED BY <1>3, <1>4, <1>5

LEMMA ThemeFrame == ThemeInv /\ UNCHANGED themevars => ThemeInv'
<1> SUFFICES ASSUME ThemeInv, UNCHANGED themevars PROVE ThemeInv'
  OBVIOUS
<1>1. tab' = tab /\ UNCHANGED <<savedTheme, systemDark, chosen, disturbed>>
  BY DEF themevars
<1>2. ThemeTypeOK'
  BY <1>1 DEF ThemeInv, ThemeTypeOK
<1>3. Chosen'
  BY <1>1 DEF ThemeInv, Chosen, Midway
<1>4. \A t \in Tabs : LooksRight(t)'
  BY <1>1 DEF ThemeInv, LooksRight, IsDark
<1> QED BY <1>2, <1>3, <1>4 DEF ThemeInv

(***************************************************************************)
(* What the browser keeps: the theme last chosen is the one saved, tabs    *)
(* look like their themes, the pages visited are there once, and what one  *)
(* tab dismisses is dismissed -- for any number of tabs, opened and closed *)
(* between any two of each other's effects.                                *)
(***************************************************************************)
THEOREM BrowserRemembersAll == BsSpec => []BrowserRemembers
<1> DEFINE BsInv == ThemeInv /\ RecentInv /\ HiddenIsDismissed /\ SessionInv
<1>1. BsInv /\ [BsNext]_bsvars => BsInv'
  <2> SUFFICES ASSUME BsInv, [BsNext]_bsvars PROVE BsInv'
    OBVIOUS
  <2>1. /\ ThemeNext \/ UNCHANGED themevars
        /\ RecentNext \/ UNCHANGED <<savedRecent, recent, lastVisit>>
        /\ CheckNext \/ UNCHANGED checkvars
        /\ SessionNext \/ UNCHANGED sessionvars
    BY DEF BsNext, bsvars, recentvars
  <2> QED BY <2>1, ThemeStep, ThemeFrame, RecentStep, CheckStep, SessionStep
<1>2. BsSpec => []BsInv
  <2>1. BsInit => BsInv
    BY BsStart, SessionStart DEF BsInit
  <2> HIDE DEF BsInv
  <2> QED BY <1>1, <2>1, PTL DEF BsSpec
<1>3. BsInv => BrowserRemembers
  <2> SUFFICES ASSUME BsInv PROVE BrowserRemembers
    OBVIOUS
  <2>1. (Midway = {} /\ ~disturbed /\ savedTheme # Unsaved) => savedTheme = chosen
    BY DEF ThemeInv, Chosen
  <2>2. \A t \in Tabs : LooksRight(t)
    BY DEF ThemeInv
  <2>3. /\ Len(savedRecent) <= MaxRecent
        /\ \A i, j \in DOMAIN savedRecent : savedRecent[i] = savedRecent[j] => i = j
        /\ savedRecent # <<>> => Head(savedRecent) = lastVisit
    BY DEF RecentInv, EachOnce
  <2> QED BY <2>1, <2>2, <2>3 DEF BrowserRemembers, LooksRight, HiddenIsDismissed, SessionInv
<1> QED BY <1>2, <1>3, PTL

-----------------------------------------------------------------------------
(* The pages of the list of requests.  A row's rank is how many rows of    *)
(* the filter are above it; it only grows, and page q holds those of rank  *)
(* q * PageSize and on.  So whoever has seen, of what was listed at the    *)
(* top, all that is before page q in some version, has seen all that is    *)
(* before it in every later one.                                           *)

Rows(s, f, n) == {i \in 1 .. n : f \in {"all", s[i]}}
Above(S, i)   == {j \in S : j > i}
Rank(S, i)    == Cardinality(Above(S, i))
OnPage(S, q)  == {i \in S : Rank(S, i) \div PageSize = q}
Begins(S, q)  == q * PageSize < Cardinality(S)

ListTypeOK ==
  /\ statuses \in Seq(Outcomes) /\ Len(statuses) <= MaxStored
  /\ listFilter \in {"all"} \cup Outcomes /\ listPage \in 0 .. MaxStored \div PageSize
  /\ cached \in [PageKeys -> NotThere .. Len(statuses)] /\ fetches \in [PageKeys -> NotThere .. Len(statuses)]
  /\ top \in NotThere .. Len(statuses) /\ lagging \in BOOLEAN

\* What may be cached and under way for a key.
Fits(s, k, n, m) ==
  /\ n # NotThere /\ m # NotThere => n <= m
  /\ k[2] > 0 => /\ n # NotThere => Begins(Rows(s, k[1], n), k[2])
                 /\ m # NotThere => Begins(Rows(s, k[1], m), k[2])

KeysFit ==
  \A k \in PageKeys : /\ Fits(statuses, k, cached[k], fetches[k])
                      /\ k # ShownKey /\ fetches[k] # NotThere => cached[k] # NotThere

\* All that was listed in version t, before page q of version n, is in sight.
Covered(s, f, t, sight, q, n) ==
  t <= n /\ \A i \in Rows(s, f, t) : Rank(Rows(s, f, n), i) < q * PageSize => i \in sight

PageCovered(q, n) == n # NotThere => Covered(statuses, listFilter, top, seen, q, n)

PagesCovered ==
  \A q \in 0 .. listPage :
    /\ PageCovered(q, Len(statuses))
    /\ PageCovered(q, cached[<<listFilter, q>>]) /\ PageCovered(q, fetches[<<listFilter, q>>])

ListInv ==
  /\ ListTypeOK /\ KeysFit
  /\ listPage > 0 => Begins(Rows(statuses, listFilter, Len(statuses)), listPage)
  /\ listPage = 0 => top = OnShow
  /\ OnShow # NotThere => OnPage(Rows(statuses, listFilter, OnShow), listPage) \subseteq seen
  /\ ~lagging => PagesCovered

LEMMA RowsFinite ==
  ASSUME NEW s, NEW f, NEW n \in Int
  PROVE  /\ Rows(s, f, n) \subseteq 1 .. n /\ IsFiniteSet(Rows(s, f, n)) /\ Cardinality(Rows(s, f, n)) \in Nat
         /\ n \in Nat => Cardinality(Rows(s, f, n)) <= n
<1>1. Rows(s, f, n) \subseteq 1 .. n
  BY DEF Rows
<1>2. IsFiniteSet(1 .. n) /\ Cardinality(1 .. n) = IF n < 1 THEN 0 ELSE n
  <2>1. Cardinality(1 .. n) = IF 1 > n THEN 0 ELSE n - 1 + 1
    BY 1 \in Int, FS_Interval
  <2> QED BY <2>1, 1 \in Int, FS_Interval
<1>3. IsFiniteSet(Rows(s, f, n)) /\ Cardinality(Rows(s, f, n)) <= Cardinality(1 .. n)
  BY <1>1, <1>2, FS_Subset
<1>4. Cardinality(Rows(s, f, n)) \in Nat
  BY <1>3, FS_CardinalityType
<1> QED BY <1>1, <1>2, <1>3, <1>4

LEMMA RankType ==
  ASSUME NEW S, IsFiniteSet(S), NEW i
  PROVE  Above(S, i) \subseteq S /\ IsFiniteSet(Above(S, i)) /\ Rank(S, i) \in Nat
<1>1. Above(S, i) \subseteq S
  BY DEF Above
<1>2. IsFiniteSet(Above(S, i))
  BY <1>1, FS_Subset
<1> QED BY <1>1, <1>2, FS_CardinalityType DEF Rank

\* A rank grows with the version, and is less further up.
LEMMA RankGrows ==
  ASSUME NEW S, NEW T, IsFiniteSet(T), S \subseteq T, NEW i
  PROVE  Rank(S, i) <= Rank(T, i) /\ Cardinality(S) <= Cardinality(T)
<1>1. Above(S, i) \subseteq Above(T, i)
  BY DEF Above
<1>2. IsFiniteSet(Above(T, i))
  BY RankType
<1> QED BY <1>1, <1>2, FS_Subset DEF Rank

LEMMA RankFalls ==
  ASSUME NEW S, IsFiniteSet(S), \A x \in S : x \in Int, NEW i \in Int, NEW j \in Int, i <= j
  PROVE  Rank(S, j) <= Rank(S, i)
<1>1. Above(S, j) \subseteq Above(S, i)
  BY DEF Above
<1>2. IsFiniteSet(Above(S, i))
  BY RankType
<1> QED BY <1>1, <1>2, FS_Subset DEF Rank

LEMMA OnPageRank ==
  ASSUME NEW S, IsFiniteSet(S), NEW q \in Nat, NEW i \in S
  PROVE  i \in OnPage(S, q) <=> q * PageSize <= Rank(S, i) /\ Rank(S, i) < (q + 1) * PageSize
<1>1. PICK r \in Nat : r = Rank(S, i)
  BY RankType
<1>2. PICK p \in Nat \ {0} : p = PageSize
  BY ListAssumption
<1>3. r \div p = q <=> (q * p <= r /\ r < (q + 1) * p)
  BY Z3
<1>4. i \in OnPage(S, q) <=> r \div p = q
  BY <1>1, <1>2 DEF OnPage
<1> QED BY <1>1, <1>2, <1>3, <1>4

LEMMA NextPage == \A q \in Nat : q * PageSize \in Nat /\ (q + 1) * PageSize = q * PageSize + PageSize
<1>1. PICK p \in Nat \ {0} : p = PageSize
  BY ListAssumption
<1>2. ASSUME NEW q \in Nat PROVE q * p \in Nat /\ (q + 1) * p = q * p + p
  BY Z3
<1> QED BY <1>1, <1>2

\* A page that begins in a version, and so is one of the pages there can be.
LEMMA PageFits ==
  ASSUME NEW q \in Nat, NEW S, Cardinality(S) \in Nat, Cardinality(S) <= MaxStored, Begins(S, q)
  PROVE  q \in 0 .. MaxStored \div PageSize
<1>1. PICK p \in Nat \ {0} : p = PageSize
  BY ListAssumption
<1>2. PICK c \in Nat : c = MaxStored
  BY ListAssumption
<1>3. q * p <= c
  <2>1. q * p \in Nat
    BY <1>1, NextPage
  <2> QED BY <1>1, <1>2, <2>1 DEF Begins
<1>4. q <= c \div p
  BY <1>3, Z3
<1>5. c \div p \in Nat
  BY Z3
<1> QED BY <1>1, <1>2, <1>4, <1>5

LEMMA LeastNumber == ASSUME NEW T, T \subseteq Nat, T # {} PROVE \E m \in T : \A k \in T : m <= k
<1>1. PICK m \in T : \A k \in T : <<k, m>> \notin OpToRel(<, Nat)
  BY NatLessThanWellFounded, WFMin
<1>2. \A k \in T : ~(k < m)
  BY <1>1 DEF OpToRel
<1> QED BY <1>2

\* There is a row of every rank.
LEMMA RowOfRank ==
  ASSUME NEW S, \A j \in S : j \in Nat \ {0}, IsFiniteSet(S), NEW c \in Nat, c < Cardinality(S),
         NEW n \in Nat, \A j \in S : j <= n
  PROVE  \E i \in S : Rank(S, i) = c
<1> DEFINE T == {m \in Nat : Rank(S, m) <= c}
<1>1. n \in T
  <2>1. Above(S, n) = {}
    BY DEF Above
  <2> QED BY <2>1, FS_EmptySet DEF Rank
<1>2. PICK m \in T : \A k \in T : m <= k
  <2>1. T \subseteq Nat /\ T # {}
    BY <1>1
  <2> HIDE DEF T
  <2> QED BY <2>1, LeastNumber
<1>3. m # 0
  <2>1. Above(S, 0) = S
    BY DEF Above
  <2> QED BY <2>1, <1>2, FS_CardinalityType DEF Rank
<1>4. m - 1 \in Nat /\ m \in Nat
  BY <1>2, <1>3
<1>5. Rank(S, m - 1) > c
  BY <1>2, <1>4, RankType
<1>6. Above(S, m - 1) \subseteq Above(S, m) \cup {m}
  BY <1>4 DEF Above
<1>7. Rank(S, m) <= c /\ Rank(S, m) \in Nat /\ Rank(S, m - 1) \in Nat
  BY <1>2, RankType
<1>8. m \in S
  <2>1. SUFFICES ASSUME m \notin S PROVE FALSE
    OBVIOUS
  <2>2. Above(S, m - 1) = Above(S, m)
    BY <2>1, <1>4 DEF Above
  <2> QED BY <2>2, <1>5, <1>7 DEF Rank
<1>9. Rank(S, m - 1) = Rank(S, m) + 1
  <2>1. \A j \in S : j > m - 1 <=> j > m \/ j = m
    BY <1>4
  <2>2. Above(S, m - 1) = Above(S, m) \cup {m}
    BY <2>1, <1>8 DEF Above
  <2>3. m \notin Above(S, m)
    BY <1>4 DEF Above
  <2> QED BY <2>2, <2>3, RankType, FS_AddElement DEF Rank
<1>10. Rank(S, m) = c
  BY <1>5, <1>7, <1>9
<1> QED BY <1>8, <1>10

\* There is something on a page that begins.
LEMMA PageNotEmpty ==
  ASSUME NEW s, NEW f, NEW n \in Nat, NEW q \in Nat, Begins(Rows(s, f, n), q)
  PROVE  OnPage(Rows(s, f, n), q) # {}
<1> DEFINE S == Rows(s, f, n)
<1>1. S \subseteq 1 .. n /\ IsFiniteSet(S)
  BY RowsFinite
<1>2. q * PageSize \in Nat /\ (q + 1) * PageSize = q * PageSize + PageSize
  BY NextPage
<1>3. PICK i \in S : Rank(S, i) = q * PageSize
  <2>1. (\A j \in S : j \in Nat \ {0}) /\ \A j \in S : j <= n
    BY <1>1
  <2>2. q * PageSize < Cardinality(S)
    BY DEF Begins
  <2> HIDE DEF S
  <2> QED BY <1>1, <1>2, <2>1, <2>2, RowOfRank
<1>4. i \in OnPage(S, q)
  <2> HIDE DEF S
  <2> QED BY <1>1, <1>2, <1>3, OnPageRank, ListAssumption
<1> QED BY <1>4

\* What is covered in a version is in every later one, and by more in sight.
LEMMA CoveredLater ==
  ASSUME NEW s, NEW f, NEW t \in Int, NEW sight, NEW wider, sight \subseteq wider, NEW q \in Nat,
         NEW m \in Int, NEW n \in Int, m <= n, Covered(s, f, t, sight, q, m)
  PROVE  Covered(s, f, t, wider, q, n)
<1> SUFFICES ASSUME NEW i \in Rows(s, f, t), Rank(Rows(s, f, n), i) < q * PageSize
             PROVE  i \in wider
  BY DEF Covered
<1>1. Rows(s, f, m) \subseteq Rows(s, f, n)
  BY DEF Rows
<1>2. Rank(Rows(s, f, m), i) <= Rank(Rows(s, f, n), i)
  BY <1>1, RowsFinite, RankGrows
<1>3. Rank(Rows(s, f, m), i) \in Nat /\ Rank(Rows(s, f, n), i) \in Nat /\ q * PageSize \in Nat
  BY RowsFinite, RankType, NextPage
<1>4. Rank(Rows(s, f, m), i) < q * PageSize
  BY <1>2, <1>3
<1> QED BY <1>4 DEF Covered

\* Whoever sees page q of a version has seen all that is before the next.
LEMMA CoveredNext ==
  ASSUME NEW s, NEW f, NEW t \in Int, NEW sight, NEW q \in Nat, NEW n \in Int, Covered(s, f, t, sight, q, n),
         OnPage(Rows(s, f, n), q) \subseteq sight
  PROVE  Covered(s, f, t, sight, q + 1, n)
<1> SUFFICES ASSUME NEW i \in Rows(s, f, t), Rank(Rows(s, f, n), i) < (q + 1) * PageSize
             PROVE  i \in sight
  BY DEF Covered
<1>1. i \in Rows(s, f, n)
  BY DEF Rows, Covered
<1>2. IsFiniteSet(Rows(s, f, n)) /\ Rank(Rows(s, f, n), i) \in Nat /\ q * PageSize \in Nat
  BY RowsFinite, RankType, NextPage
<1>3. CASE Rank(Rows(s, f, n), i) < q * PageSize
  BY <1>3 DEF Covered
<1>4. CASE q * PageSize <= Rank(Rows(s, f, n), i)
  BY <1>1, <1>2, <1>4, OnPageRank
<1> QED BY <1>2, <1>3, <1>4

\* At the top, whatever is newer covers the nothing before page 0.
LEMMA CoveredTop ==
  ASSUME NEW s, NEW f, NEW t \in Int, NEW sight, NEW n \in Int, t <= n
  PROVE  Covered(s, f, t, sight, 0, n)
<1>1. ASSUME NEW i PROVE ~(Rank(Rows(s, f, n), i) < 0 * PageSize)
  BY RowsFinite, RankType, ListAssumption
<1> QED BY <1>1 DEF Covered

LEMMA BeginsLater ==
  ASSUME NEW s, NEW f, NEW q \in Nat, NEW p \in Nat, p <= q, NEW m \in Int, NEW n \in Int, m <= n,
         Begins(Rows(s, f, m), q)
  PROVE  Begins(Rows(s, f, n), p)
<1>1. Rows(s, f, m) \subseteq Rows(s, f, n)
  BY DEF Rows
<1>2. /\ Cardinality(Rows(s, f, m)) <= Cardinality(Rows(s, f, n))
      /\ Cardinality(Rows(s, f, m)) \in Nat /\ Cardinality(Rows(s, f, n)) \in Nat
  BY <1>1, RowsFinite, RankGrows
<1>3. p * PageSize <= q * PageSize /\ p * PageSize \in Nat /\ q * PageSize \in Nat
  <2>1. PICK z \in Nat \ {0} : z = PageSize
    BY ListAssumption
  <2>2. p * z <= q * z
    BY Z3
  <2> QED BY <2>1, <2>2, NextPage
<1> QED BY <1>2, <1>3 DEF Begins

LEMMA CutIsPage == \A k, n : Cut(k, n) = OnPage(Rows(statuses, k[1], n), k[2])
<1>1. ASSUME NEW k, NEW n PROVE Cut(k, n) = OnPage(Rows(statuses, k[1], n), k[2])
  BY DEF Cut, OnPage, Rank, Above, Rows, Listed
<1> QED BY <1>1

\* The shown key, and what is known of it.
LEMMA ShownKnown ==
  ASSUME ListInv
  PROVE  /\ Len(statuses) \in Nat /\ ShownKey \in PageKeys /\ MaxStored \div PageSize \in Nat
         /\ listPage \in Nat /\ ShownKey[1] = listFilter /\ ShownKey[2] = listPage
         /\ \A q \in 0 .. listPage : <<listFilter, q>> \in PageKeys /\ q \in Nat
<1>1. PICK z \in Nat \ {0} : z = PageSize
  BY ListAssumption
<1>2. PICK c \in Nat : c = MaxStored
  BY ListAssumption
<1>3. c \div z \in Nat
  BY Z3
<1>4. Len(statuses) \in Nat
  BY LenProperties DEF ListInv, ListTypeOK
<1>5. PICK b \in Nat : b = MaxStored \div PageSize
  BY <1>1, <1>2, <1>3
<1>6. listPage \in 0 .. b /\ listFilter \in {"all"} \cup Outcomes
  BY <1>5 DEF ListInv, ListTypeOK
<1> QED BY <1>4, <1>5, <1>6 DEF ShownKey, PageKeys

\* One entry changes at most.
LEMMA CachedKept ==
  ASSUME ListInv, statuses' = statuses, NEW k \in PageKeys,
         NEW n \in NotThere .. Len(statuses), NEW m \in NotThere .. Len(statuses), Fits(statuses, k, n, m),
         cached' = [cached EXCEPT ![k] = n], fetches' = [fetches EXCEPT ![k] = m],
         k # ShownKey' /\ m # NotThere => n # NotThere,
         \A j \in PageKeys : j # ShownKey' /\ j # k /\ fetches[j] # NotThere => cached[j] # NotThere
  PROVE  /\ KeysFit'
         /\ cached' \in [PageKeys -> NotThere .. Len(statuses')]
         /\ fetches' \in [PageKeys -> NotThere .. Len(statuses')]
<1>1. /\ cached \in [PageKeys -> NotThere .. Len(statuses)] /\ fetches \in [PageKeys -> NotThere .. Len(statuses)]
      /\ \A j \in PageKeys : Fits(statuses, j, cached[j], fetches[j])
  BY DEF ListInv, ListTypeOK, KeysFit
<1>2. /\ cached'[k] = n /\ fetches'[k] = m
      /\ \A j \in PageKeys \ {k} : cached'[j] = cached[j] /\ fetches'[j] = fetches[j]
      /\ cached' \in [PageKeys -> NotThere .. Len(statuses')] /\ fetches' \in [PageKeys -> NotThere .. Len(statuses')]
  BY <1>1
<1>3. ASSUME NEW j \in PageKeys
      PROVE  /\ Fits(statuses, j, cached'[j], fetches'[j])
             /\ j # ShownKey' /\ fetches'[j] # NotThere => cached'[j] # NotThere
  BY <1>1, <1>2
<1>4. KeysFit'
  BY <1>3 DEF KeysFit
<1> QED BY <1>2, <1>4

LEMMA ListStarts == ListInit => ListInv
<1> SUFFICES ASSUME ListInit PROVE ListInv
  OBVIOUS
<1>1. PICK z \in Nat \ {0} : z = PageSize
  BY ListAssumption
<1>2. PICK c \in Nat : c = MaxStored /\ z < c
  BY <1>1, ListAssumption
<1>3. PICK b \in Nat : b = MaxStored \div PageSize
  <2>1. c \div z \in Nat
    BY Z3
  <2> QED BY <2>1, <1>1, <1>2
<1>4. statuses \in Seq(Outcomes) /\ Len(statuses) = z + 1 /\ z + 1 <= c
  BY <1>1, <1>2 DEF ListInit
<1>5. <<"all", 0>> \in PageKeys
  BY <1>3 DEF PageKeys
<1>6. /\ \A k \in PageKeys : cached[k] = NotThere
      /\ \A k \in PageKeys : k # <<"all", 0>> => fetches[k] = NotThere
      /\ fetches[<<"all", 0>>] = z + 1
      /\ cached \in [PageKeys -> NotThere .. z + 1] /\ fetches \in [PageKeys -> NotThere .. z + 1]
  BY <1>4, <1>5 DEF ListInit, NotThere
<1>7. /\ listFilter = "all" /\ listPage = 0 /\ ShownKey = <<"all", 0>> /\ seen = {} /\ top = NotThere
      /\ lagging = FALSE /\ OnShow = NotThere
  BY <1>5, <1>6 DEF ListInit, ShownKey, OnShow
<1>8. ListTypeOK
  <2>1. cached \in [PageKeys -> NotThere .. Len(statuses)] /\ fetches \in [PageKeys -> NotThere .. Len(statuses)]
    BY <1>4, <1>6
  <2>2. top \in NotThere .. Len(statuses) /\ Len(statuses) <= MaxStored
    BY <1>2, <1>4, <1>7 DEF NotThere
  <2>3. listPage \in 0 .. MaxStored \div PageSize
    BY <1>3, <1>7
  <2> QED BY <1>4, <1>7, <2>1, <2>2, <2>3 DEF ListTypeOK
<1>9. KeysFit
  BY <1>4, <1>6, <1>7 DEF KeysFit, Fits, NotThere
<1>10. PagesCovered
  <2>1. ASSUME NEW q \in 0 .. listPage PROVE q = 0
    BY <1>7
  <2>2. top \in Int /\ Len(statuses) \in Int /\ top <= Len(statuses) /\ top <= fetches[<<"all", 0>>]
        /\ fetches[<<"all", 0>>] \in Int
    BY <1>4, <1>6, <1>7 DEF NotThere
  <2>3. PageCovered(0, Len(statuses)) /\ PageCovered(0, cached[<<"all", 0>>]) /\ PageCovered(0, fetches[<<"all", 0>>])
    BY <2>2, <1>5, <1>6, CoveredTop DEF PageCovered
  <2> QED BY <1>7, <2>1, <2>3 DEF PagesCovered
<1> QED BY <1>7, <1>8, <1>9, <1>10 DEF ListInv

\* Arrive: rows are added above all others.
LEMMA ArriveKept == ASSUME ListInv, NEW o \in Outcomes, Arrive(o) PROVE ListInv'
<1> USE DEF ListInv
<1> DEFINE L == Len(statuses)
<1>1. /\ L \in Nat /\ L < MaxStored /\ statuses' = Append(statuses, o)
      /\ UNCHANGED <<listFilter, listPage, cached, fetches, seen, top, lagging>>
  BY ShownKnown DEF Arrive, Looking
<1>2. /\ statuses' \in Seq(Outcomes) /\ Len(statuses') = L + 1
      /\ \A i \in 1 .. L : statuses'[i] = statuses[i]
  BY <1>1, AppendProperties DEF ListTypeOK
<1>3. ASSUME NEW f, NEW n \in NotThere .. L PROVE Rows(statuses', f, n) = Rows(statuses, f, n)
  <2>1. \A i \in 1 .. n : statuses'[i] = statuses[i]
    BY <1>1, <1>2 DEF NotThere
  <2> QED BY <2>1 DEF Rows
<1>4. NotThere .. L \subseteq NotThere .. (L + 1) /\ L \in NotThere .. L /\ L + 1 <= MaxStored
  BY <1>1, ListAssumption DEF NotThere
<1>5. ListTypeOK'
  <2>1. cached' \in [PageKeys -> NotThere .. Len(statuses')] /\ fetches' \in [PageKeys -> NotThere .. Len(statuses')]
    BY <1>1, <1>2, <1>4 DEF ListTypeOK
  <2>2. top' \in NotThere .. Len(statuses') /\ Len(statuses') <= MaxStored
    BY <1>1, <1>2, <1>4 DEF ListTypeOK
  <2> QED BY <1>1, <1>2, <2>1, <2>2 DEF ListTypeOK
<1>6. OnShow' = OnShow /\ ShownKey' = ShownKey /\ OnShow \in NotThere .. L
  BY <1>1, ShownKnown DEF OnShow, ShownKey, ListTypeOK
<1>7. KeysFit'
  <2>1. ASSUME NEW k \in PageKeys PROVE Fits(statuses', k, cached[k], fetches[k])
    <3>1. cached[k] \in NotThere .. L /\ fetches[k] \in NotThere .. L
      BY DEF ListTypeOK
    <3>2. Rows(statuses', k[1], cached[k]) = Rows(statuses, k[1], cached[k])
          /\ Rows(statuses', k[1], fetches[k]) = Rows(statuses, k[1], fetches[k])
      BY <3>1, <1>3
    <3> QED BY <3>2 DEF KeysFit, Fits
  <2> QED BY <1>1, <1>6, <2>1 DEF KeysFit
<1>8. listPage' > 0 => Begins(Rows(statuses', listFilter', Len(statuses')), listPage')
  <2> SUFFICES ASSUME listPage > 0 PROVE Begins(Rows(statuses', listFilter, L + 1), listPage)
    BY <1>1, <1>2
  <2>1. Begins(Rows(statuses', listFilter, L), listPage)
    BY <1>3, <1>4
  <2> QED BY <1>1, <2>1, BeginsLater, ShownKnown
<1>9. OnShow' # NotThere => OnPage(Rows(statuses', listFilter', OnShow'), listPage') \subseteq seen'
  BY <1>1, <1>3, <1>6
<1>10. ~lagging => PagesCovered'
  <2> SUFFICES ASSUME ~lagging, NEW q \in 0 .. listPage
               PROVE  /\ PageCovered(q, Len(statuses))' /\ PageCovered(q, cached[<<listFilter, q>>])'
                      /\ PageCovered(q, fetches[<<listFilter, q>>])'
    BY <1>1 DEF PagesCovered
  <2>1. ASSUME NEW n \in NotThere .. L, n # NotThere, PageCovered(q, n)
        PROVE  Covered(statuses', listFilter, top, seen, q, n)
    <3>1. Rows(statuses', listFilter, n) = Rows(statuses, listFilter, n)
          /\ Rows(statuses', listFilter, top) = Rows(statuses, listFilter, top)
      BY <1>3 DEF ListTypeOK
    <3> QED BY <2>1, <3>1 DEF PageCovered, Covered
  <2>2. /\ PageCovered(q, L) /\ PageCovered(q, cached[<<listFilter, q>>]) /\ PageCovered(q, fetches[<<listFilter, q>>])
        /\ cached[<<listFilter, q>>] \in NotThere .. L /\ fetches[<<listFilter, q>>] \in NotThere .. L /\ q \in Nat
    BY ShownKnown DEF PagesCovered, ListTypeOK
  <2>3. Covered(statuses', listFilter, top, seen, q, L)
    BY <1>1, <1>4, <2>1, <2>2 DEF NotThere
  <2>4. Covered(statuses', listFilter, top, seen, q, L + 1)
    <3>1. top \in Int
      BY DEF ListTypeOK, NotThere
    <3> QED BY <1>1, <2>2, <2>3, <3>1, CoveredLater
  <2> QED BY <1>1, <1>2, <2>1, <2>2, <2>4 DEF PageCovered
<1> QED BY <1>1, <1>5, <1>6, <1>7, <1>8, <1>9, <1>10

\* Show: the first page, or the page before or after that on show.
LEMMA ShowPageKept ==
  ASSUME ListInv, NEW k \in PageKeys, NEW lags \in BOOLEAN, Show(k, lags),
         k # ShownKey, OnShow = NotThere => fetches[ShownKey] = NotThere,
         k[2] > 0 => /\ k[1] = listFilter /\ k[2] <= listPage + 1
                     /\ Begins(Rows(statuses, k[1], Len(statuses)), k[2])
                     /\ k[2] = listPage + 1 =>
                          /\ OnShow # NotThere
                          /\ ~lags => cached[k] = NotThere \/ cached[k] >= OnShow
  PROVE  ListInv'
<1> USE DEF ListInv
<1> DEFINE L == Len(statuses)
<1>1. PICK n \in {cached[k], NotThere}, m \in {fetches[k], L} :
        /\ cached' = [cached EXCEPT ![k] = n] /\ fetches' = [fetches EXCEPT ![k] = m]
        /\ n = NotThere => fetches[k] = NotThere \/ cached[k] = NotThere
        /\ m # fetches[k] => fetches[k] = NotThere /\ m = L
        /\ Look(k, n, lags)
        /\ listFilter' = k[1] /\ listPage' = k[2] /\ statuses' = statuses
  <2>1. PICK n \in {cached[k], NotThere} :
          /\ cached' = [cached EXCEPT ![k] = n] /\ Look(k, n, lags)
          /\ n = NotThere => fetches[k] = NotThere \/ cached[k] = NotThere
          /\ \/ UNCHANGED fetches
             \/ fetches[k] = NotThere /\ fetches' = [fetches EXCEPT ![k] = L]
    BY DEF Show
  <2>2. fetches = [fetches EXCEPT ![k] = fetches[k]]
    BY DEF ListTypeOK
  <2> QED BY <2>1, <2>2 DEF Show
<1>2. /\ cached[k] \in NotThere .. L /\ fetches[k] \in NotThere .. L /\ L \in Nat /\ L # NotThere
      /\ n \in NotThere .. L /\ m \in NotThere .. L /\ top \in NotThere .. L
      /\ OnShow \in NotThere .. L /\ cached[ShownKey] = OnShow
      /\ k[1] \in {"all"} \cup Outcomes /\ k[2] \in 0 .. MaxStored \div PageSize /\ k = <<k[1], k[2]>>
  BY <1>1, ShownKnown DEF ListTypeOK, NotThere, PageKeys, OnShow
<1>3. /\ ShownKey' = k /\ cached'[k] = n /\ fetches'[k] = m /\ OnShow' = n
      /\ \A j \in PageKeys \ {k} : cached'[j] = cached[j] /\ fetches'[j] = fetches[j]
  BY <1>1, <1>2 DEF ShownKey, OnShow, ListTypeOK
<1>4. k[2] \in Nat /\ listPage \in Nat
  BY <1>2, ShownKnown
<1>5. Fits(statuses, k, n, m)
  <2>1. Fits(statuses, k, cached[k], fetches[k])
    BY DEF KeysFit
  <2> QED BY <1>1, <1>2, <2>1 DEF Fits, NotThere
<1>6. /\ KeysFit' /\ cached' \in [PageKeys -> NotThere .. Len(statuses')]
      /\ fetches' \in [PageKeys -> NotThere .. Len(statuses')]
  <2>1. \A j \in PageKeys : j # k /\ fetches[j] # NotThere => cached[j] # NotThere
    BY DEF KeysFit, OnShow
  <2> QED BY <1>1, <1>2, <1>3, <1>5, <2>1, CachedKept
<1>7. /\ k[2] = 0 => top' = n /\ lagging' = FALSE
      /\ k[2] > 0 => top' = top /\ lagging' = (lagging \/ lags) /\ seen \subseteq seen'
      /\ n # NotThere => OnPage(Rows(statuses, k[1], n), k[2]) \subseteq seen'
  BY <1>1, <1>4, CutIsPage DEF Look
<1>8. ListTypeOK'
  <2>1. top' \in NotThere .. L
    BY <1>2, <1>4, <1>7 DEF ListTypeOK
  <2>2. lagging' \in BOOLEAN
    <3>1. k[2] = 0 \/ k[2] > 0
      BY <1>4
    <3> QED BY <1>7, <3>1, Zenon DEF ListTypeOK
  <2> QED BY <1>1, <1>2, <1>6, <2>1, <2>2 DEF ListTypeOK
<1>9. listPage' > 0 => Begins(Rows(statuses', listFilter', Len(statuses')), listPage')
  BY <1>1
<1>10. listPage' = 0 => top' = OnShow'
  BY <1>1, <1>3, <1>7
<1>11. OnShow' # NotThere => OnPage(Rows(statuses', listFilter', OnShow'), listPage') \subseteq seen'
  BY <1>1, <1>3, <1>7
<1>12. ASSUME k[2] = 0 PROVE PagesCovered'
  <2>1. top' = n /\ n \in Int /\ m \in Int /\ L \in Int /\ n <= L /\ (m # NotThere => n <= m)
    BY <1>2, <1>5, <1>7, <1>12 DEF Fits, NotThere
  <2>2. ASSUME NEW v \in Int, n <= v PROVE Covered(statuses', listFilter', top', seen', 0, v)
    BY <2>1, <2>2, CoveredTop
  <2>3. PageCovered(0, Len(statuses))'
    BY <1>1, <2>1, <2>2 DEF PageCovered
  <2>4. PageCovered(0, cached[k])'
    BY <1>3, <2>1, <2>2 DEF PageCovered
  <2>5. PageCovered(0, fetches[k])'
    BY <1>3, <2>1, <2>2 DEF PageCovered
  <2>6. <<listFilter', 0>> = k /\ listPage' = 0
    BY <1>1, <1>2, <1>12
  <2> QED BY <2>3, <2>4, <2>5, <2>6 DEF PagesCovered
<1>13. ASSUME k[2] > 0, ~lagging' PROVE PagesCovered'
  <2>1. /\ listFilter' = listFilter /\ k[1] = listFilter /\ k[2] <= listPage + 1 /\ ~lagging /\ ~lags
        /\ top' = top /\ seen \subseteq seen' /\ PagesCovered
    BY <1>1, <1>7, <1>13
  <2>2. top \in Int /\ n \in Int /\ m \in Int /\ L \in Int /\ cached[k] \in Int /\ fetches[k] \in Int /\ OnShow \in Int
    BY <1>2 DEF NotThere
  <2>3. ASSUME NEW q \in 0 .. listPage, NEW v \in Int, v # NotThere, PageCovered(q, v) PROVE PageCovered(q, v)'
    <3>1. q \in Nat
      BY <1>4
    <3>2. Covered(statuses, listFilter, top, seen', q, v)
      BY <2>1, <2>2, <2>3, <3>1, CoveredLater DEF PageCovered
    <3> QED BY <1>1, <2>1, <3>2 DEF PageCovered
  <2>4. ASSUME NEW q \in 0 .. listPage, q # k[2]
        PROVE  /\ PageCovered(q, Len(statuses))' /\ PageCovered(q, cached[<<listFilter, q>>])'
               /\ PageCovered(q, fetches[<<listFilter, q>>])'
    <3>1. <<listFilter, q>> \in PageKeys \ {k}
      BY <1>2, <2>4, ShownKnown
    <3>2. cached[<<listFilter, q>>] \in Int /\ fetches[<<listFilter, q>>] \in Int
      BY <3>1 DEF ListTypeOK, NotThere
    <3>3. /\ PageCovered(q, L) /\ PageCovered(q, cached[<<listFilter, q>>])
          /\ PageCovered(q, fetches[<<listFilter, q>>])
      BY <2>1 DEF PagesCovered
    <3> QED BY <1>1, <1>3, <2>1, <2>2, <2>3, <3>1, <3>2, <3>3 DEF PageCovered
  <2>5. ASSUME k[2] <= listPage
        PROVE  /\ PageCovered(k[2], Len(statuses))' /\ PageCovered(k[2], cached[k])' /\ PageCovered(k[2], fetches[k])'
    <3>1. k[2] \in 0 .. listPage
      BY <1>4, <2>5
    <3>2. PageCovered(k[2], L) /\ PageCovered(k[2], cached[k]) /\ PageCovered(k[2], fetches[k])
      BY <1>2, <2>1, <3>1 DEF PagesCovered
    <3> QED BY <1>1, <1>3, <2>2, <2>3, <3>1, <3>2 DEF PageCovered
  <2>6. ASSUME k[2] = listPage + 1
        PROVE  /\ PageCovered(k[2], Len(statuses))' /\ PageCovered(k[2], cached[k])' /\ PageCovered(k[2], fetches[k])'
    <3>1. OnShow # NotThere /\ (cached[k] # NotThere => cached[k] >= OnShow)
      BY <2>1, <2>6, <1>13
    <3>2. Covered(statuses, listFilter, top, seen, listPage, OnShow)
      <4>1. PageCovered(listPage, cached[<<listFilter, listPage>>])
        BY <1>4, <2>1 DEF PagesCovered
      <4> QED BY <4>1, <3>1 DEF PageCovered, OnShow, ShownKey
    <3>3. Covered(statuses, listFilter, top, seen, k[2], OnShow)
      BY <1>4, <2>2, <2>6, <3>1, <3>2, CoveredNext
    <3>4. \A v \in Int : OnShow <= v => Covered(statuses, listFilter, top, seen', k[2], v)
      BY <1>4, <2>1, <2>2, <3>3, CoveredLater
    <3>5. OnShow <= L /\ (n # NotThere => OnShow <= n)
      BY <1>1, <1>2, <2>2, <3>1
    <3>6. m # NotThere => OnShow <= m
      <4>1. fetches[k] # NotThere => cached[k] # NotThere /\ cached[k] <= fetches[k]
        BY DEF KeysFit, Fits
      <4> QED BY <1>1, <1>2, <2>2, <3>1, <4>1, <3>5
    <3> QED BY <1>1, <1>3, <2>1, <2>2, <3>4, <3>5, <3>6 DEF PageCovered
  <2>7. ASSUME NEW q \in 0 .. listPage'
        PROVE  /\ PageCovered(q, Len(statuses))' /\ PageCovered(q, cached[<<listFilter, q>>])'
               /\ PageCovered(q, fetches[<<listFilter, q>>])'
    <3>1. q \in 0 .. listPage \/ q = k[2]
      BY <1>1, <1>4, <2>1
    <3>2. <<listFilter', k[2]>> = k
      BY <1>1, <1>2
    <3>3. CASE q = k[2]
      BY <1>4, <2>1, <2>5, <2>6, <3>2, <3>3
    <3> QED BY <2>4, <3>1, <3>3
  <2> QED BY <2>7 DEF PagesCovered
<1>14. ~lagging' => PagesCovered'
  BY <1>4, <1>12, <1>13
<1> QED BY <1>6, <1>8, <1>9, <1>10, <1>11, <1>14

LEMMA FilterKept == ASSUME ListInv, NEW f \in {"all"} \cup Outcomes, SetStatusFilter(f) PROVE ListInv'
<1>1. PICK b \in Nat : b = MaxStored \div PageSize
  BY ShownKnown
<1>2. <<f, 0>> \in PageKeys /\ <<f, 0>> # ShownKey /\ <<f, 0>>[2] = 0
  BY <1>1 DEF SetStatusFilter, PageKeys, ShownKey
<1>3. OnShow = NotThere => fetches[ShownKey] = NotThere
  BY DEF SetStatusFilter, Listing
<1>4. FALSE \in BOOLEAN /\ ~(<<f, 0>>[2] > 0)
  BY <1>2
<1>5. Show(<<f, 0>>, FALSE)
  BY DEF SetStatusFilter
<1> QED BY <1>2, <1>3, <1>4, <1>5, ShowPageKept

LEMMA NextKept == ASSUME ListInv, TurnNext PROVE ListInv'
<1> DEFINE k == <<listFilter, listPage + 1>>
<1>1. k[1] = listFilter /\ k[2] = listPage + 1 /\ k # ShownKey /\ listPage + 1 \in Nat /\ OnShow # NotThere
  BY ShownKnown DEF TurnNext, ShownKey
<1>2. OnShow \in 0 .. Len(statuses) /\ Len(statuses) \in Nat /\ Len(statuses) <= MaxStored
  BY <1>1, ShownKnown DEF ListInv, ListTypeOK, OnShow, NotThere
<1>3. Begins(Rows(statuses, listFilter, OnShow), listPage + 1)
  <2>1. Listed(listFilter, OnShow) = Rows(statuses, listFilter, OnShow)
    BY DEF Listed, Rows
  <2> QED BY <2>1 DEF TurnNext, Begins
<1>4. k \in PageKeys
  <2>1. Cardinality(Rows(statuses, listFilter, OnShow)) \in Nat
        /\ Cardinality(Rows(statuses, listFilter, OnShow)) <= MaxStored
    <3>1. OnShow \in Int /\ OnShow \in Nat
      BY <1>2
    <3> QED BY <1>2, <3>1, RowsFinite, ListAssumption
  <2>2. listPage + 1 \in 0 .. MaxStored \div PageSize
    BY <1>1, <1>3, <2>1, PageFits
  <2>3. listFilter \in {"all"} \cup Outcomes
    BY DEF ListInv, ListTypeOK
  <2> QED BY <2>2, <2>3 DEF PageKeys
<1>5. Begins(Rows(statuses, listFilter, Len(statuses)), listPage + 1)
  <2>1. OnShow \in Int /\ Len(statuses) \in Int /\ OnShow <= Len(statuses) /\ listPage + 1 <= listPage + 1
    BY <1>1, <1>2
  <2> QED BY <1>1, <1>3, <2>1, BeginsLater
<1> DEFINE lags == cached[k] \in 0 .. OnShow - 1
<1>6. Show(k, lags) /\ lags \in BOOLEAN
  <2>1. Show(k, lags)
    BY DEF TurnNext
  <2>2. lags = TRUE \/ lags = FALSE
    OBVIOUS
  <2> QED BY <2>1, <2>2
<1>7. ~lags => cached[k] = NotThere \/ cached[k] >= OnShow
  <2>1. cached[k] \in NotThere .. Len(statuses)
    BY <1>4 DEF ListInv, ListTypeOK
  <2>2. ASSUME cached[k] \notin 0 .. OnShow - 1 PROVE cached[k] = NotThere \/ cached[k] >= OnShow
    BY <1>2, <2>1, <2>2 DEF NotThere
  <2> QED BY <2>2
<1>8. k[2] <= listPage + 1
  BY <1>1
<1> HIDE DEF k, lags
<1> QED BY <1>1, <1>4, <1>5, <1>6, <1>7, <1>8, ShowPageKept

LEMMA BackKept == ASSUME ListInv, TurnBack PROVE ListInv'
<1> DEFINE k == <<listFilter, listPage - 1>>
<1>1. /\ k[1] = listFilter /\ k[2] = listPage - 1 /\ k # ShownKey /\ listPage - 1 \in Nat /\ OnShow # NotThere
      /\ listPage \in Nat /\ listPage > 0 /\ Len(statuses) \in Nat
  BY ShownKnown DEF TurnBack, ShownKey
<1>2. k \in PageKeys
  <2>1. listPage - 1 \in 0 .. listPage
    BY <1>1
  <2> QED BY <2>1, ShownKnown
<1>3. Begins(Rows(statuses, listFilter, Len(statuses)), listPage - 1)
  <2>1. Begins(Rows(statuses, listFilter, Len(statuses)), listPage)
    BY <1>1 DEF ListInv
  <2>2. Len(statuses) \in Int /\ Len(statuses) <= Len(statuses) /\ listPage - 1 <= listPage
    BY <1>1
  <2> QED BY <1>1, <2>1, <2>2, BeginsLater
<1>4. Show(k, FALSE) /\ FALSE \in BOOLEAN
  BY DEF TurnBack
<1>5. k[2] <= listPage + 1 /\ k[2] # listPage + 1
  BY <1>1
<1> HIDE DEF k
<1> QED BY <1>1, <1>2, <1>3, <1>4, <1>5, ShowPageKept

LEMMA RefreshKept == ASSUME ListInv, Refresh PROVE ListInv'
<1> USE DEF ListInv
<1> DEFINE L == Len(statuses)
<1>1. /\ statuses' = statuses /\ cached' = cached /\ fetches' = [fetches EXCEPT ![ShownKey] = L]
      /\ UNCHANGED <<listFilter, listPage, seen, top, lagging>>
  BY DEF Refresh, Looking
<1>2. /\ ShownKey \in PageKeys /\ ShownKey' = ShownKey /\ OnShow' = OnShow /\ cached[ShownKey] = OnShow
      /\ L \in Nat /\ L \in NotThere .. L /\ OnShow \in NotThere .. L
      /\ ShownKey[1] = listFilter /\ ShownKey[2] = listPage
  <2>1. /\ ShownKey \in PageKeys /\ L \in Nat /\ ShownKey[1] = listFilter /\ ShownKey[2] = listPage
    BY ShownKnown
  <2>2. ShownKey' = ShownKey /\ OnShow' = OnShow /\ cached[ShownKey] = OnShow
    BY <1>1 DEF ShownKey, OnShow
  <2>3. L \in NotThere .. L
    BY <2>1 DEF NotThere
  <2>4. OnShow \in NotThere .. L
    BY <2>1 DEF OnShow, ListTypeOK
  <2> QED BY <2>1, <2>2, <2>3, <2>4
<1>3. Fits(statuses, ShownKey, OnShow, L)
  <2>1. Fits(statuses, ShownKey, OnShow, fetches[ShownKey])
    BY <1>2 DEF KeysFit
  <2> QED BY <1>2, <2>1 DEF Fits, NotThere
<1>4. /\ KeysFit' /\ cached' \in [PageKeys -> NotThere .. Len(statuses')]
      /\ fetches' \in [PageKeys -> NotThere .. Len(statuses')]
  <2>1. cached = [cached EXCEPT ![ShownKey] = OnShow]
    BY <1>2 DEF ListTypeOK
  <2>2. \A j \in PageKeys : j # ShownKey /\ fetches[j] # NotThere => cached[j] # NotThere
    BY DEF KeysFit
  <2> QED BY <1>1, <1>2, <1>3, <2>1, <2>2, CachedKept
<1>5. ListTypeOK'
  BY <1>1, <1>4 DEF ListTypeOK
<1>6. ASSUME ~lagging, NEW q \in 0 .. listPage
      PROVE  /\ PageCovered(q, Len(statuses))' /\ PageCovered(q, cached[<<listFilter, q>>])'
             /\ PageCovered(q, fetches[<<listFilter, q>>])'
  <2>1. /\ PageCovered(q, L) /\ PageCovered(q, cached[<<listFilter, q>>]) /\ PageCovered(q, fetches[<<listFilter, q>>])
    BY <1>6 DEF PagesCovered
  <2>2. <<listFilter, q>> \in PageKeys
    BY ShownKnown
  <2>3. fetches'[<<listFilter, q>>] \in {fetches[<<listFilter, q>>], L}
    BY <1>1, <1>2, <2>2 DEF ListTypeOK
  <2> QED BY <1>1, <2>1, <2>3 DEF PageCovered
<1> QED BY <1>1, <1>2, <1>4, <1>5, <1>6 DEF PagesCovered

LEMMA PageFailsKept == ASSUME ListInv, NEW k \in PageKeys, PageFails(k) PROVE ListInv'
<1> USE DEF ListInv
<1> DEFINE L == Len(statuses)
<1>1. /\ statuses' = statuses /\ cached' = cached /\ fetches' = [fetches EXCEPT ![k] = NotThere]
      /\ UNCHANGED <<listFilter, listPage, seen, top, lagging>>
  BY DEF PageFails, Looking
<1>2. /\ ShownKey' = ShownKey /\ OnShow' = OnShow /\ L \in Nat /\ NotThere \in NotThere .. L
      /\ cached[k] \in NotThere .. L
  BY <1>1, ShownKnown DEF ShownKey, OnShow, ListTypeOK, NotThere
<1>3. Fits(statuses, k, cached[k], NotThere)
  BY DEF KeysFit, Fits
<1>4. /\ KeysFit' /\ cached' \in [PageKeys -> NotThere .. Len(statuses')]
      /\ fetches' \in [PageKeys -> NotThere .. Len(statuses')]
  <2>1. cached = [cached EXCEPT ![k] = cached[k]]
    BY DEF ListTypeOK
  <2>2. \A j \in PageKeys : j # ShownKey /\ fetches[j] # NotThere => cached[j] # NotThere
    BY DEF KeysFit
  <2> QED BY <1>1, <1>2, <1>3, <2>1, <2>2, CachedKept
<1>5. ListTypeOK'
  BY <1>1, <1>4 DEF ListTypeOK
<1>6. ASSUME ~lagging, NEW q \in 0 .. listPage
      PROVE  /\ PageCovered(q, Len(statuses))' /\ PageCovered(q, cached[<<listFilter, q>>])'
             /\ PageCovered(q, fetches[<<listFilter, q>>])'
  <2>1. /\ PageCovered(q, L) /\ PageCovered(q, cached[<<listFilter, q>>]) /\ PageCovered(q, fetches[<<listFilter, q>>])
    BY <1>6 DEF PagesCovered
  <2>2. <<listFilter, q>> \in PageKeys
    BY ShownKnown
  <2>3. fetches'[<<listFilter, q>>] \in {fetches[<<listFilter, q>>], NotThere}
    BY <1>1, <2>2 DEF ListTypeOK
  <2> QED BY <1>1, <2>1, <2>3 DEF PageCovered
<1> QED BY <1>1, <1>2, <1>4, <1>5, <1>6 DEF PagesCovered

LEMMA PageFetchedKept == ASSUME ListInv, NEW k \in PageKeys, PageFetched(k) PROVE ListInv'
<1> USE DEF ListInv
<1> DEFINE L == Len(statuses)
<1>1. PICK n \in fetches[k] .. L :
        /\ cached' = [cached EXCEPT ![k] = n]
        /\ IF k = ShownKey THEN Look(k, n, FALSE) ELSE Looking
  BY DEF PageFetched
<1>2. /\ statuses' = statuses /\ fetches' = [fetches EXCEPT ![k] = NotThere] /\ fetches[k] # NotThere
      /\ listFilter' = listFilter /\ listPage' = listPage
  BY DEF PageFetched
<1>3. /\ L \in Nat /\ ShownKey \in PageKeys /\ ShownKey[1] = listFilter /\ ShownKey[2] = listPage
      /\ listPage \in Nat
  BY ShownKnown
<1>4. /\ fetches[k] \in NotThere .. L /\ cached[k] \in NotThere .. L /\ top \in NotThere .. L
      /\ n \in NotThere .. L /\ NotThere \in NotThere .. L /\ n # NotThere /\ fetches[k] <= n
      /\ k[1] \in {"all"} \cup Outcomes /\ k[2] \in Nat
  <2>1. fetches[k] \in NotThere .. L /\ cached[k] \in NotThere .. L /\ top \in NotThere .. L
    BY DEF ListTypeOK
  <2>2. k[1] \in {"all"} \cup Outcomes /\ k[2] \in Nat
    BY ShownKnown DEF PageKeys
  <2> QED BY <1>1, <1>2, <1>3, <2>1, <2>2 DEF NotThere
<1>5. /\ ShownKey' = ShownKey /\ cached'[k] = n /\ fetches'[k] = NotThere
      /\ \A j \in PageKeys \ {k} : cached'[j] = cached[j] /\ fetches'[j] = fetches[j]
      /\ OnShow' = IF k = ShownKey THEN n ELSE OnShow
  BY <1>1, <1>2, <1>3 DEF ShownKey, OnShow, ListTypeOK
<1>6. Fits(statuses, k, n, NotThere)
  <2>1. k[2] > 0 => Begins(Rows(statuses, k[1], fetches[k]), k[2])
    BY <1>2 DEF KeysFit, Fits
  <2>2. fetches[k] \in Int /\ n \in Int /\ k[2] <= k[2]
    BY <1>4 DEF NotThere
  <2>3. k[2] > 0 => Begins(Rows(statuses, k[1], n), k[2])
    BY <1>4, <2>1, <2>2, BeginsLater
  <2> QED BY <2>3 DEF Fits
<1>7. /\ KeysFit' /\ cached' \in [PageKeys -> NotThere .. Len(statuses')]
      /\ fetches' \in [PageKeys -> NotThere .. Len(statuses')]
  <2>1. \A j \in PageKeys : j # ShownKey /\ fetches[j] # NotThere => cached[j] # NotThere
    BY DEF KeysFit
  <2> QED BY <1>1, <1>2, <1>4, <1>5, <1>6, <2>1, CachedKept
<1>8. /\ listPage = 0 /\ k = ShownKey => top' = n /\ lagging' = FALSE
      /\ k # ShownKey => top' = top /\ lagging' = lagging /\ seen' = seen
      /\ listPage > 0 => top' = top /\ (~lagging' => ~lagging) /\ seen \subseteq seen'
      /\ k = ShownKey => OnPage(Rows(statuses, listFilter, n), listPage) \subseteq seen'
  <2>1. CASE k # ShownKey
    BY <1>1, <1>3, <2>1 DEF Looking
  <2>2. CASE k = ShownKey
    <3>1. Look(k, n, FALSE) /\ k[2] = listPage /\ Cut(k, n) = OnPage(Rows(statuses, listFilter, n), listPage)
      BY <1>1, <1>3, <2>2, CutIsPage
    <3>2. CASE listPage = 0
      BY <1>4, <2>2, <3>1, <3>2 DEF Look
    <3>3. CASE listPage > 0
      <4>1. top' = top /\ seen' = seen \cup Cut(k, n) /\ lagging' = (lagging \/ FALSE)
        BY <1>4, <3>1, <3>3 DEF Look
      <4>2. ~lagging' => ~lagging
        BY <4>1, Zenon
      <4> QED BY <2>2, <3>1, <3>3, <4>1, <4>2
    <3>4. listPage = 0 \/ listPage > 0
      BY <1>3
    <3> QED BY <3>2, <3>3, <3>4, Zenon
  <2> QED BY <2>1, <2>2, Zenon
<1>9. ListTypeOK'
  <2>1. top' \in NotThere .. L
    BY <1>1, <1>3, <1>4, <1>8
  <2>2. lagging' \in BOOLEAN
    BY <1>1, Zenon DEF Look, Looking, ListTypeOK
  <2> QED BY <1>2, <1>7, <2>1, <2>2 DEF ListTypeOK
<1>10. listPage' > 0 => Begins(Rows(statuses', listFilter', Len(statuses')), listPage')
  BY <1>2
<1>11. listPage' = 0 => top' = OnShow'
  BY <1>2, <1>5, <1>8
<1>12. OnShow' # NotThere => OnPage(Rows(statuses', listFilter', OnShow'), listPage') \subseteq seen'
  BY <1>2, <1>5, <1>8
<1>13. ASSUME listPage = 0, k = ShownKey PROVE PagesCovered'
  <2>1. top' = n /\ n \in Int /\ L \in Int /\ n <= L
    BY <1>4, <1>8, <1>13 DEF NotThere
  <2>2. ASSUME NEW v \in Int, n <= v PROVE Covered(statuses', listFilter', top', seen', 0, v)
    BY <2>1, <2>2, CoveredTop
  <2>3. PageCovered(0, Len(statuses))'
    BY <1>2, <2>1, <2>2 DEF PageCovered
  <2>4. PageCovered(0, cached[k])'
    BY <1>5, <2>1, <2>2 DEF PageCovered
  <2>5. PageCovered(0, fetches[k])'
    BY <1>5 DEF PageCovered
  <2>6. <<listFilter', 0>> = k /\ listPage' = 0
    BY <1>2, <1>13 DEF ShownKey
  <2> QED BY <2>3, <2>4, <2>5, <2>6 DEF PagesCovered
<1>14. ASSUME listPage > 0 \/ k # ShownKey, ~lagging', NEW q \in 0 .. listPage
       PROVE  /\ PageCovered(q, Len(statuses))' /\ PageCovered(q, cached[<<listFilter, q>>])'
              /\ PageCovered(q, fetches[<<listFilter, q>>])'
  <2>1. top' = top /\ ~lagging /\ seen \subseteq seen' /\ listFilter' = listFilter
    BY <1>2, <1>8, <1>14
  <2>2. /\ PageCovered(q, L) /\ PageCovered(q, cached[<<listFilter, q>>]) /\ PageCovered(q, fetches[<<listFilter, q>>])
    BY <2>1 DEF PagesCovered
  <2>3. top \in Int /\ n \in Int /\ L \in Int /\ q \in Nat /\ fetches[k] \in Int
    BY <1>4 DEF NotThere
  <2>4. ASSUME NEW u \in Int, NEW v \in Int, u # NotThere, u <= v, PageCovered(q, u) PROVE PageCovered(q, v)'
    <3>1. Covered(statuses, listFilter, top, seen', q, v)
      BY <2>1, <2>3, <2>4, CoveredLater DEF PageCovered
    <3> QED BY <1>2, <2>1, <3>1 DEF PageCovered
  <2>5. <<listFilter, q>> \in PageKeys /\ L # NotThere
    BY <1>3, ShownKnown DEF NotThere
  <2>6. PageCovered(q, Len(statuses))'
    BY <1>2, <2>2, <2>3, <2>4, <2>5
  <2>7. ASSUME <<listFilter, q>> = k
        PROVE  PageCovered(q, cached[<<listFilter, q>>])' /\ PageCovered(q, fetches[<<listFilter, q>>])'
    <3>1. PageCovered(q, n)'
      BY <1>2, <1>4, <2>2, <2>3, <2>4, <2>7
    <3> QED BY <1>5, <2>1, <2>7, <3>1 DEF PageCovered
  <2>8. ASSUME <<listFilter, q>> # k
        PROVE  PageCovered(q, cached[<<listFilter, q>>])' /\ PageCovered(q, fetches[<<listFilter, q>>])'
    <3>1. cached[<<listFilter, q>>] \in Int /\ fetches[<<listFilter, q>>] \in Int
      BY <2>5 DEF ListTypeOK, NotThere
    <3>2. /\ cached'[<<listFilter, q>>] = cached[<<listFilter, q>>]
          /\ fetches'[<<listFilter, q>>] = fetches[<<listFilter, q>>]
      BY <1>5, <2>5, <2>8
    <3>3. ASSUME NEW u \in Int, PageCovered(q, u) PROVE PageCovered(q, u)'
      BY <2>4, <3>3 DEF PageCovered
    <3> QED BY <2>1, <2>2, <3>1, <3>2, <3>3 DEF PageCovered
  <2> QED BY <2>6, <2>7, <2>8
<1>15. ~lagging' => PagesCovered'
  BY <1>2, <1>3, <1>13, <1>14 DEF PagesCovered
<1> QED BY <1>7, <1>9, <1>10, <1>11, <1>12, <1>15

LEMMA ListSteps == ListInv /\ [ListNext]_listvars => ListInv'
<1>1. ASSUME ListInv, ListNext PROVE ListInv'
  BY <1>1, ArriveKept, FilterKept, NextKept, BackKept, RefreshKept, PageFetchedKept, PageFailsKept DEF ListNext
<1>2. ASSUME ListInv, UNCHANGED listvars PROVE ListInv'
  BY <1>2 DEF listvars, ListInv, ListTypeOK, KeysFit, PagesCovered, PageCovered, OnShow, ShownKey
<1> QED BY <1>1, <1>2

\* A row not below one on show is on the same page, or on one before it.
LEMMA NothingSkipped == ListInv => NoneSkipped
<1> SUFFICES ASSUME ListInv, OnShow # NotThere
             PROVE  /\ listPage > 0 => Cut(ShownKey, OnShow) # {}
                    /\ ~lagging => \A i \in Listed(listFilter, top) :
                                     (\E j \in Cut(ShownKey, OnShow) : j <= i) => i \in seen
  BY DEF NoneSkipped
<1> USE DEF ListInv
<1> DEFINE S == Rows(statuses, listFilter, OnShow)
<1>1. /\ ShownKey \in PageKeys /\ listPage \in Nat /\ OnShow \in Nat /\ top \in Int
      /\ Cut(ShownKey, OnShow) = OnPage(S, listPage) /\ OnShow = cached[<<listFilter, listPage>>]
      /\ listPage \in 0 .. listPage
  <2>1. ShownKey \in PageKeys /\ listPage \in Nat /\ ShownKey[1] = listFilter /\ ShownKey[2] = listPage
    BY ShownKnown
  <2>2. OnShow \in NotThere .. Len(statuses) /\ top \in NotThere .. Len(statuses) /\ Len(statuses) \in Nat
    BY <2>1, ShownKnown DEF ListTypeOK, OnShow
  <2>3. OnShow \in Nat /\ top \in Int
    BY <2>2 DEF NotThere
  <2> QED BY <2>1, <2>3, CutIsPage DEF OnShow, ShownKey
<1>2. ASSUME listPage > 0 PROVE Cut(ShownKey, OnShow) # {}
  <2>1. Begins(S, listPage)
    BY <1>1, <1>2 DEF KeysFit, Fits, ShownKey, OnShow
  <2> QED BY <1>1, <2>1, PageNotEmpty
<1>3. ASSUME ~lagging, NEW i \in Listed(listFilter, top), NEW j \in Cut(ShownKey, OnShow), j <= i
      PROVE  i \in seen
  <2>1. Covered(statuses, listFilter, top, seen, listPage, OnShow)
    BY <1>1, <1>3 DEF PagesCovered, PageCovered
  <2>2. Covered(statuses, listFilter, top, seen, listPage + 1, OnShow)
    BY <1>1, <2>1, CoveredNext
  <2>3. /\ i \in Rows(statuses, listFilter, top) /\ i \in Int
    BY <1>1, <1>3 DEF Listed, Rows
  <2>4. /\ IsFiniteSet(S) /\ S \subseteq 1 .. OnShow /\ (\A x \in S : x \in Int) /\ j \in S
    BY <1>1, <1>3, RowsFinite DEF OnPage
  <2>5. Rank(S, i) <= Rank(S, j)
    <3> HIDE DEF S
    <3> QED BY <1>3, <2>3, <2>4, RankFalls
  <2>6. Rank(S, j) < (listPage + 1) * PageSize
    <3> HIDE DEF S
    <3> QED BY <1>1, <1>3, <2>4, OnPageRank
  <2>7. Rank(S, i) \in Nat /\ Rank(S, j) \in Nat /\ (listPage + 1) * PageSize \in Nat
    <3> HIDE DEF S
    <3>1. Rank(S, i) \in Nat /\ Rank(S, j) \in Nat
      BY <2>4, RankType
    <3>2. listPage + 1 \in Nat
      BY <1>1
    <3> QED BY <3>1, <3>2, NextPage
  <2>8. Rank(S, i) < (listPage + 1) * PageSize
    BY <2>5, <2>6, <2>7
  <2> QED BY <2>2, <2>3, <2>8 DEF Covered
<1> QED BY <1>2, <1>3

\* NoneSkipped, for any size of the pages: whoever turns the pages one by one
\* has seen all that was listed at the top, down to the last row on show, and
\* a page that can be turned to is never empty (requests/page.tsx).
THEOREM NoRequestSkipped == ListSpec => []NoneSkipped
<1>1. ListSpec => []ListInv
  BY ListStarts, ListSteps, PTL DEF ListSpec
<1> QED BY <1>1, NothingSkipped, PTL
=============================================================================
