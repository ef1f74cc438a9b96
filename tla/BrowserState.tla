---------------------------- MODULE BrowserState ----------------------------
(***************************************************************************)
(* What the pages of the control plane keep in the browser, shared by all  *)
(* its tabs: the session, in its cookies (Session); and in localStorage    *)
(* the theme (theme-provider.tsx and the script in layout.tsx that runs    *)
(* before React does), the pages visited by the command palette            *)
(* (command-palette.tsx), and whether the checklist was dismissed          *)
(* (use-onboarding.ts).  Tabs are processes of their own: any of them may  *)
(* run between two effects of another, or be closed.                       *)
(*                                                                         *)
(* A choice of the theme already shown does nothing in React and is left   *)
(* out.  The first step of a tab stands for any tab that is closed.        *)
(***************************************************************************)
EXTENDS Session, Sequences, FiniteSets

CONSTANTS Hrefs, Nowhere, MaxRecent

ASSUME RecentAssumption == MaxRecent \in Nat

Themes == {"light", "dark", "system"}

Unsaved == "none"

VARIABLES savedTheme, savedRecent, dismissed,   \* localStorage
          systemDark,                           \* prefers-color-scheme
          tab,                                  \* the theme in each tab
          recent,                               \* what the palette of a tab is about to save
          checklist,                            \* in each tab: "away", "shown", "hidden"
          chosen, disturbed,                    \* history: the theme last chosen; a tab's effects were interrupted
          lastVisit                             \* history: the page visited by the last save

themevars  == <<savedTheme, systemDark, tab, chosen, disturbed>>
recentvars == <<savedRecent, recent, lastVisit>>
checkvars  == <<dismissed, checklist>>
bsvars     == <<themevars, recentvars, checkvars, sessionvars>>

IsDark(theme) == theme = "dark" \/ (theme = "system" /\ systemDark)

Closed == [stage |-> "closed", theme |-> "system", applied |-> "system", dark |-> FALSE,
           resolved |-> FALSE, flipped |-> FALSE]

BsInit ==
  /\ savedTheme = Unsaved /\ savedRecent = <<>> /\ dismissed = FALSE
  /\ systemDark \in BOOLEAN
  /\ tab = [t \in Tabs |-> Closed]
  /\ recent = [t \in Tabs |-> <<>>] /\ checklist = [t \in Tabs |-> "away"]
  /\ chosen = "system" /\ disturbed = FALSE /\ lastVisit = Nowhere
  /\ SessionInit

\* Tabs with an effect to come.
Midway == {t \in Tabs : tab[t].stage = "settling"}

-----------------------------------------------------------------------------
(* The theme.                                                              *)

\* The page loads: the script paints it by the theme that is saved.
Load(t) ==
  /\ tab[t].stage = "closed"
  /\ tab' = [tab EXCEPT ![t].stage = "painted",
                        ![t].dark = IsDark(IF savedTheme = Unsaved THEN "system" ELSE savedTheme)]
  /\ UNCHANGED <<savedTheme, systemDark, chosen, disturbed>>

\* What the effect on [theme] does to a tab.
Applied(record, theme, dark) ==
  [record EXCEPT !.applied = theme, !.dark = dark, !.resolved = dark, !.flipped = FALSE]

\* Mutant: the effect that applies the theme runs before the one that reads it.
MountSwapped(t) ==
  /\ tab[t].stage = "painted"
  /\ tab' = [tab EXCEPT ![t] = [Applied(tab[t], "system", systemDark) EXCEPT !.stage = "ready"]]
  /\ savedTheme' = "system"
  /\ disturbed' = (disturbed \/ Midway # {})
  /\ UNCHANGED <<systemDark, chosen>>

\* The effects of the first render: the saved theme is read, and asks for another
\* render if it differs; "system", the theme of this one, is applied and saved.
Mount(t) ==
  /\ tab[t].stage = "painted"
  /\ LET again == savedTheme \notin {Unsaved, "system"} IN
       tab' = [tab EXCEPT ![t] = [Applied(tab[t], "system", systemDark) EXCEPT
                 !.stage = IF again THEN "settling" ELSE "ready",
                 !.theme = IF again THEN savedTheme ELSE "system"]]
  /\ savedTheme' = "system"
  /\ disturbed' = (disturbed \/ Midway # {})
  /\ UNCHANGED <<systemDark, chosen>>

\* The effect of a later render.
SettleTheme(t) ==
  /\ t \in Midway
  /\ tab' = [tab EXCEPT ![t] = [Applied(tab[t], tab[t].theme, IsDark(tab[t].theme)) EXCEPT
                                  !.stage = "ready"]]
  /\ savedTheme' = tab[t].theme
  /\ UNCHANGED <<systemDark, chosen, disturbed>>

SetTheme(t, theme) ==
  /\ tab[t].stage = "ready" /\ theme # tab[t].theme
  /\ tab' = [tab EXCEPT ![t].stage = "settling", ![t].theme = theme]
  /\ chosen' = theme
  /\ disturbed' = (disturbed \/ Midway # {})
  /\ UNCHANGED <<savedTheme, systemDark>>

\* "Toggle Dark Mode" of the palette turns the class, and not the theme.
ToggleDarkMode(t) ==
  /\ tab[t].stage = "ready"
  /\ tab' = [tab EXCEPT ![t].dark = ~@, ![t].flipped = ~@]
  /\ UNCHANGED <<savedTheme, systemDark, chosen, disturbed>>

\* The listeners of the last effects hear it.
SystemChanges ==
  /\ systemDark' = ~systemDark
  /\ tab' = [t \in Tabs |->
       IF tab[t].stage \in {"settling", "ready"} /\ tab[t].applied = "system"
       THEN Applied(tab[t], "system", ~systemDark) ELSE tab[t]]
  /\ UNCHANGED <<savedTheme, chosen, disturbed>>

\* A tab that goes before its effects loses what they would have saved.
Close(t) ==
  /\ tab[t].stage # "closed"
  /\ tab' = [tab EXCEPT ![t] = Closed]
  /\ disturbed' = (disturbed \/ t \in Midway)
  /\ UNCHANGED <<savedTheme, systemDark, chosen>>

ThemeNext ==
  \/ \E t \in Tabs : Load(t) \/ Mount(t) \/ SettleTheme(t) \/ ToggleDarkMode(t) \/ Close(t)
  \/ \E t \in Tabs, theme \in Themes : SetTheme(t, theme)
  \/ SystemChanges

-----------------------------------------------------------------------------
(* The command palette.  addRecentPage reads the list and saves another.   *)

\* The places of the saved pages other than href.
Others(href) == {i \in DOMAIN savedRecent : savedRecent[i] # href}

\* href goes before the others, which keep their order.
ReadRecent(t, href) ==
  /\ recent[t] = <<>>
  /\ \E at \in [1 .. Cardinality(Others(href)) -> Others(href)] :
       /\ \A i, j \in DOMAIN at : i < j => at[i] < at[j]
       /\ recent' = [recent EXCEPT ![t] = <<href>> \o [i \in DOMAIN at |-> savedRecent[at[i]]]]
  /\ UNCHANGED <<savedRecent, lastVisit>>

SaveRecent(t) ==
  /\ recent[t] # <<>>
  /\ savedRecent' = SubSeq(recent[t], 1, IF Len(recent[t]) < MaxRecent THEN Len(recent[t]) ELSE MaxRecent)
  /\ lastVisit' = Head(recent[t])
  /\ recent' = [recent EXCEPT ![t] = <<>>]

RecentNext == \E t \in Tabs : (\E h \in Hrefs : ReadRecent(t, h)) \/ SaveRecent(t)

-----------------------------------------------------------------------------
(* The checklist of the overview.  Nothing calls completeStep: a step is   *)
(* complete if it is about the scope and the context has that part.        *)

ScopeSteps == {"create_org", "create_project", "create_env"}
Steps      == ScopeSteps \cup {"connect_provider", "create_route", "generate_key"}

ShowChecklist(completed) == ~dismissed /\ completed # Steps

VisitOverview(t) ==
  /\ checklist[t] = "away"
  /\ \E completed \in SUBSET ScopeSteps :
       checklist' = [checklist EXCEPT ![t] = IF ShowChecklist(completed) THEN "shown" ELSE "hidden"]
  /\ UNCHANGED dismissed

Dismiss(t) ==
  /\ checklist[t] = "shown"
  /\ checklist' = [checklist EXCEPT ![t] = "hidden"]
  /\ dismissed' = TRUE

LeaveOverview(t) ==
  /\ checklist[t] # "away"
  /\ checklist' = [checklist EXCEPT ![t] = "away"]
  /\ UNCHANGED dismissed

CheckNext == \E t \in Tabs : VisitOverview(t) \/ Dismiss(t) \/ LeaveOverview(t)

BsNext ==
  \/ ThemeNext /\ UNCHANGED <<recentvars, checkvars, sessionvars>>
  \/ RecentNext /\ UNCHANGED <<themevars, checkvars, sessionvars>>
  \/ CheckNext /\ UNCHANGED <<themevars, recentvars, sessionvars>>
  \/ SessionNext /\ UNCHANGED <<themevars, recentvars, checkvars>>

BsSpec == BsInit /\ [][BsNext]_bsvars

-----------------------------------------------------------------------------
(***************************************************************************)
(* The theme last chosen is the one saved whenever no tab has an effect to *)
(* come, and every tab that is ready looks like its own theme, unless it   *)
(* was toggled by the palette since -- for tabs that were not interrupted  *)
(* between two effects.  The list of recent pages has each page once and   *)
(* the last one visited first, whichever tab saved over the list of which. *)
(* A checklist a tab hides is dismissed for every later visit.  And a tab  *)
(* shows what is of the session it is in.                                  *)
(***************************************************************************)
BrowserRemembers ==
  /\ (Midway = {} /\ ~disturbed /\ savedTheme # Unsaved) => savedTheme = chosen
  /\ \A t \in Tabs : tab[t].stage = "ready" =>
       /\ tab[t].applied = tab[t].theme
       /\ tab[t].resolved = IsDark(tab[t].theme)
       /\ tab[t].dark = (IsDark(tab[t].theme) # tab[t].flipped)
  /\ Len(savedRecent) <= MaxRecent
  /\ \A i, j \in DOMAIN savedRecent : savedRecent[i] = savedRecent[j] => i = j
  /\ savedRecent # <<>> => Head(savedRecent) = lastVisit
  /\ \A t \in Tabs : checklist[t] = "hidden" => dismissed
  /\ SessionShown
=============================================================================
