------------------------------- MODULE Chat -------------------------------
(***************************************************************************)
(* The playground (app/(dashboard)/playground/page.tsx): a chat with a     *)
(* model whose answer arrives in pieces.  handleSend is one asynchronous   *)
(* function that, to its end, sees the state of the render it was called   *)
(* in: the messages, the figures and the saved sessions of that moment.    *)
(* What it has captured is the record of an ask; the page may be cleared,  *)
(* given a saved session, or left while it runs, and it is not stopped     *)
(* when the page is left.  The browser may refuse to store the sessions,   *)
(* and other tabs with the page share the storage: they are one list,      *)
(* "other", which any of them may load, add to or clear at any time.       *)
(*                                                                         *)
(* What is typed is not empty.  A message is who wrote it and the number   *)
(* of the ask, Elsewhere for one of another tab; figures are the number of *)
(* the ask they are about.  Of the settings only the model is kept with a  *)
(* session; the others, which are sent and never restored, are left out.   *)
(* MaxAsks bounds the questions and what other tabs do, together;          *)
(* MaxVisits how often the page is entered.                                *)
(***************************************************************************)
EXTENDS Sequences, Integers

CONSTANTS Models, NoModel, MaxAsks, MaxVisits,
          MaxPast    \* sessions that are kept, 20 in the code

ASSUME ChatAssumption == MaxPast \in Nat \ {0} /\ NoModel \notin Models

VARIABLES chat,      \* messages
          streaming, \* isStreaming
          typed,     \* streamingContent is not empty
          selectedModel, showHistory,
          figures,   \* responseMeta: the ask it is about, 0 for null
          past,      \* sessions, of the page
          stored,    \* sessions, in the browser's local storage
          visit,     \* how often the page was entered
          away,      \* the page is left
          asks,      \* the calls of handleSend that run
          asked,
          other,     \* sessions, of another tab
          others,    \* what other tabs did, counted
          upset,     \* history: asks since which the chat was cleared or replaced
          parted     \* history: asks whose render lacks a stored session, or has one
                     \* that was cleared; 0 is the page itself

panel    == <<selectedModel, showHistory>>
tabs     == <<other, others>>
chatvars == <<panel, chat, streaming, typed, figures, past, stored, visit, away, asks, asked, tabs, upset, parted>>

Elsewhere      == -1
Said(who, n)   == [by |-> who, ask |-> n]
Exchange(n)    == <<Said("user", n), Said("assistant", n)>>
Running        == {a.n : a \in asks}
Present(a)     == ~away /\ a.visit = visit

ChatInit ==
  /\ chat = <<>> /\ streaming = FALSE /\ typed = FALSE /\ figures = 0
  /\ past = <<>> /\ stored = <<>>
  /\ visit = 1 /\ away = FALSE
  /\ asks = {} /\ asked = 0 /\ upset = {} /\ parted = {}
  /\ other = <<>> /\ others = 0
  /\ selectedModel = NoModel /\ showHistory = FALSE

-----------------------------------------------------------------------------
\* The list of sessions covers the page.
Front == ~away /\ ~showHistory

\* The button and the text area are disabled while no model is selected, and
\* while an answer streams.
MaySend == Front /\ ~streaming /\ selectedModel # NoModel /\ asked + others < MaxAsks

\* handleSend, to its first await.
HandleSend ==
  /\ MaySend
  /\ asks' = asks \cup {[n |-> asked + 1, visit |-> visit, model |-> selectedModel,
                         messages |-> chat, sessions |-> past, meta |-> figures, partial |-> typed]}
  /\ asked' = asked + 1
  /\ chat' = Append(chat, Said("user", asked + 1))
  /\ streaming' = TRUE /\ typed' = FALSE /\ figures' = 0
  /\ parted' = IF 0 \in parted THEN parted \cup {asked + 1} ELSE parted
  /\ UNCHANGED <<panel, past, stored, visit, away, tabs, upset>>

\* A piece of the answer, and the figures that come with the last piece.
Delta(a) ==
  /\ Present(a) /\ typed' = TRUE
  /\ UNCHANGED <<panel, chat, streaming, figures, past, stored, visit, away, asks, asked, tabs, upset, parted>>

Usage(a) ==
  /\ Present(a) /\ figures' = a.n
  /\ UNCHANGED <<panel, chat, streaming, typed, past, stored, visit, away, asks, asked, tabs, upset, parted>>

\* "finally" changes the state of a page that is still there only.
Settle(a) ==
  /\ asks' = asks \ {a}
  /\ upset' = upset \ {a.n}
  /\ IF Present(a) THEN streaming' = FALSE /\ typed' = FALSE ELSE UNCHANGED <<streaming, typed>>
  /\ UNCHANGED <<panel, visit, away, asked, tabs>>

\* After a has saved a session, what else runs has not seen it.
Outdated(a) == ((parted \cup Running) \ {a.n, 0}) \cup (IF Present(a) \/ away THEN {} ELSE {0})

\* saveSession: the session goes before those of the render.
Saved(session, sessions) ==
  SubSeq(<<session>> \o sessions, 1, IF Len(sessions) < MaxPast THEN Len(sessions) + 1 ELSE MaxPast)

\* Mutant: the question is taken to be among the messages of the render.
FinalUnasked(a) == Append(a.messages, Said("assistant", a.n))

\* finalMessages: those of the render with the exchange.
Final(a) == a.messages \o Exchange(a.n)

\* The answer is complete; the figures are those of the render if it had any.
\* setItem may throw (a quota): the page then has what the storage lacks.
Finalize(a, kept) ==
  LET meta    == IF a.meta # 0 THEN a.meta ELSE a.n
      updated == Saved([model |-> a.model, messages |-> Final(a), meta |-> meta], a.sessions)
  IN  /\ IF Present(a) THEN chat' = Final(a) /\ figures' = meta /\ past' = updated
                       ELSE UNCHANGED <<chat, figures, past>>
      /\ IF kept THEN stored' = updated /\ parted' = Outdated(a)
                 ELSE stored' = stored /\ parted' = parted \ {a.n}
      /\ Settle(a)

\* The request or the stream fails.
Broken(a) ==
  /\ Settle(a)
  /\ parted' = parted \ {a.n}
  /\ UNCHANGED <<chat, figures, past, stored>>

\* handleStop: what had arrived by the render, not by now, is added.
HandleStop(a) ==
  /\ Front /\ Present(a) /\ streaming
  /\ Settle(a)
  /\ chat' = IF a.partial THEN Append(chat, Said("assistant", a.n)) ELSE chat
  /\ parted' = parted \ {a.n}
  /\ UNCHANGED <<figures, past, stored>>

-----------------------------------------------------------------------------
Disturb == upset' = upset \cup Running /\ UNCHANGED parted

HandleClearChat ==
  /\ Front /\ chat # <<>>
  /\ chat' = <<>> /\ typed' = FALSE /\ figures' = 0
  /\ Disturb
  /\ UNCHANGED <<panel, streaming, past, stored, visit, away, asks, asked, tabs>>

\* setSelectedModel.
SelectModel(m) ==
  /\ Front /\ m # selectedModel /\ selectedModel' = m
  /\ UNCHANGED <<showHistory, chat, streaming, typed, figures, past, stored, visit, away, asks, asked,
                 tabs, upset, parted>>

\* setShowHistory.
ShowHistory(open) ==
  /\ ~away /\ showHistory = ~open /\ showHistory' = open
  /\ UNCHANGED <<selectedModel, chat, streaming, typed, figures, past, stored, visit, away, asks, asked,
                 tabs, upset, parted>>

\* The list names each session by its last question, its model and its figures.
InHistory(i) == ~away /\ showHistory /\ i \in DOMAIN past

HandleLoadSession(i) ==
  /\ InHistory(i) /\ showHistory' = FALSE
  /\ selectedModel' = past[i].model
  /\ chat' = past[i].messages /\ figures' = past[i].meta
  /\ Disturb
  /\ UNCHANGED <<streaming, typed, past, stored, visit, away, asks, asked, tabs>>

\* "Clear all history".
ClearHistory ==
  /\ ~away /\ showHistory /\ past # <<>>
  /\ past' = <<>> /\ stored' = <<>>
  /\ parted' = (parted \cup Running) \ {0}
  /\ UNCHANGED <<panel, chat, streaming, typed, figures, visit, away, asks, asked, tabs, upset>>

Leave ==
  /\ ~away /\ away' = TRUE
  /\ UNCHANGED <<panel, chat, streaming, typed, figures, past, stored, visit, asks, asked, tabs, upset, parted>>

\* The page as it is mounted, with the sessions its effect loads.
Enter ==
  /\ away /\ visit < MaxVisits
  /\ away' = FALSE /\ visit' = visit + 1
  /\ chat' = <<>> /\ streaming' = FALSE /\ typed' = FALSE /\ figures' = 0
  /\ past' = stored /\ parted' = parted \ {0}
  /\ selectedModel' = NoModel /\ showHistory' = FALSE
  /\ UNCHANGED <<stored, asks, asked, tabs, upset>>

-----------------------------------------------------------------------------
\* Another tab, at some point of what this page does there.
OtherTab ==
  /\ asked + others < MaxAsks /\ others' = others + 1
  /\ UNCHANGED <<panel, chat, streaming, typed, figures, past, visit, away, asks, asked, upset>>

\* It is mounted, as in Enter.
OtherEnters ==
  /\ OtherTab
  /\ other' = stored /\ UNCHANGED <<stored, parted>>

\* It saves a session, as in Finalize.
OtherSaves(m, kept) ==
  /\ OtherTab
  /\ other' = Saved([model |-> m, messages |-> Exchange(Elsewhere), meta |-> Elsewhere], other)
  /\ IF kept THEN stored' = other' /\ parted' = parted \cup Running \cup {0}
             ELSE UNCHANGED <<stored, parted>>

\* As in ClearHistory.
OtherClears ==
  /\ OtherTab /\ other # <<>>
  /\ other' = <<>> /\ stored' = <<>>
  /\ parted' = parted \cup Running \cup {0}

ChatNext ==
  \/ HandleSend
  \/ \E a \in asks : Delta(a) \/ Usage(a) \/ Broken(a) \/ HandleStop(a)
  \/ \E a \in asks, kept \in BOOLEAN : Finalize(a, kept)
  \/ HandleClearChat
  \/ \E m \in Models : SelectModel(m)
  \/ \E open \in BOOLEAN : ShowHistory(open)
  \/ \E i \in DOMAIN past : HandleLoadSession(i)
  \/ ClearHistory
  \/ Leave
  \/ Enter
  \/ OtherEnters
  \/ \E m \in Models, kept \in BOOLEAN : OtherSaves(m, kept)
  \/ OtherClears

ChatSpec == ChatInit /\ [][ChatNext]_chatvars

-----------------------------------------------------------------------------
\* The newer sessions are those of the older behind n others, as far as there is room.
Behind(older, newer, n) ==
  /\ Len(newer) = IF Len(older) + n < MaxPast THEN Len(older) + n ELSE MaxPast
  /\ \A i \in 1 .. Len(older) : i + n <= MaxPast => newer[i + n] = older[i]

\* What the end of ask a leaves of the chat and of the sessions.
LosesNothing(a) ==
  IF past' = past /\ stored' = stored
  THEN chat' = chat
  ELSE /\ Present(a) =>
            /\ a.n \notin upset => chat' = Append(chat, Said("assistant", a.n))
            /\ past'[1].model = a.model /\ past'[1].messages = chat'
            /\ a.n \notin parted => Behind(past, past', 1)
       /\ stored' # stored =>
            /\ stored'[1].model = a.model
            /\ Present(a) => stored' = past'
            /\ a.n \notin parted => \E n \in 1 .. MaxPast : Behind(stored, stored', n)

(***************************************************************************)
(* An answer is added to the chat it was asked in, after its question, and *)
(* the chat with it to the sessions of the page, under the model it was    *)
(* asked of; and when the browser stores these, what was stored is still   *)
(* among them, whatever it had refused before.  Nothing else is lost,      *)
(* unless the chat was cleared or replaced, or the sessions cleared or     *)
(* added to by another visit or another tab, while it streamed.  An ask    *)
(* that fails or is stopped takes nothing away, and no session outlives    *)
(* its place among the newest.                                             *)
(***************************************************************************)
ChatKept == [][\A a \in asks : a \notin asks' => LosesNothing(a)]_chatvars
=============================================================================
