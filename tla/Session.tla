------------------------------- MODULE Session -------------------------------
(***************************************************************************)
(* Signing in and out (app/(auth), components/layout/user-menu.tsx).  The  *)
(* session is in the cookies of the browser, which all its tabs share; a   *)
(* tab keeps besides what the pages of the dashboard were answered, in the *)
(* one QueryClient of its root layout.  A form sends the tab to the        *)
(* overview whenever its answer comes, wherever the user went meanwhile;   *)
(* a sign-in with GitHub or Google leaves the application and comes back   *)
(* to auth/callback.                                                       *)
(*                                                                         *)
(* middleware.ts is not where this application would run it, so no page is *)
(* refused for the lack of a session.  What a form says when it is refused *)
(* is left out.  MaxTries bounds the sign-ins and sign-outs.               *)
(***************************************************************************)
EXTENDS Integers

CONSTANTS Tabs, Accounts, NoAccount, MaxTries

ASSUME SessionAssumption == NoAccount \notin Accounts

VARIABLES cookie,    \* whose session it is
          verifier,  \* the sign-in with a provider that was begun last, 0 for none
          place,     \* the page of a tab
          attempt,   \* the sign-in that took the tab to the provider
          loading,   \* of the form on show
          tries,     \* calls of handleLogin, handleSignup and handleSignOut that run
          tried,
          holds,     \* the accounts a tab has answers of
          changed    \* history: tabs in whose lifetime the session has changed

sessionvars == <<cookie, verifier, place, attempt, loading, tries, tried, holds, changed>>

Forms    == {"login", "signup"}
Places   == Forms \cup {"overview", "home"}

SessionInit ==
  /\ cookie = NoAccount /\ verifier = 0
  /\ place = [t \in Tabs |-> "home"] /\ attempt = [t \in Tabs |-> 0]
  /\ loading = [t \in Tabs |-> FALSE]
  /\ tries = {} /\ tried = 0
  /\ holds = [t \in Tabs |-> {}] /\ changed = {}

-----------------------------------------------------------------------------
\* Tab t gets another page; the state of the one it had is gone.
GetsPage(t, p) ==
  /\ place' = [place EXCEPT ![t] = p] /\ loading' = [loading EXCEPT ![t] = FALSE]

\* Its calls go on without the page; without the tab, they do not.
Left(t)    == {[a EXCEPT !.here = @ /\ a.tab # t] : a \in tries}
Dropped(t) == {a \in tries : a.tab # t}

\* The user follows a link, or loads a page anew.
Open(t, p, anew) ==
  /\ anew \/ place[t] \notin {p, "provider"}
  /\ GetsPage(t, p)
  /\ tries' = IF anew THEN Dropped(t) ELSE Left(t)
  /\ holds' = IF anew THEN [holds EXCEPT ![t] = {}] ELSE holds
  /\ changed' = IF anew THEN changed \ {t} ELSE changed
  /\ UNCHANGED <<cookie, verifier, attempt, tried>>

\* A page of the dashboard is answered.
Answered(t) ==
  /\ place[t] = "overview" /\ cookie # NoAccount
  /\ holds' = [holds EXCEPT ![t] = @ \cup {cookie}]
  /\ UNCHANGED <<cookie, verifier, place, attempt, loading, tries, tried, changed>>

Call(t, what, u) ==
  /\ tried < MaxTries /\ tried' = tried + 1
  /\ tries' = tries \cup {[n |-> tried + 1, tab |-> t, what |-> what, account |-> u, here |-> TRUE]}
  /\ UNCHANGED <<cookie, verifier, place, attempt, holds, changed>>

-----------------------------------------------------------------------------
\* The button of a form is disabled while its answer is waited for; those of
\* the providers are not.
LoginForm(t)  == place[t] = "login" /\ ~loading[t]
SignupForm(t) == place[t] = "signup" /\ ~loading[t]

Submitted(t) == loading' = [loading EXCEPT ![t] = TRUE]

HandleLogin(t, u)  == LoginForm(t) /\ Submitted(t) /\ Call(t, "login", u)
HandleSignup(t, u) == SignupForm(t) /\ Submitted(t) /\ Call(t, "signup", u)

\* The session is another: for the tabs that are there, but for those in T.
Becomes(u, T) ==
  /\ cookie' = u
  /\ changed' = (IF u = cookie THEN changed ELSE Tabs) \ T

\* No error: router.push, though the form may be gone.
SignedIn(a) ==
  /\ a.what \in Forms
  /\ Becomes(a.account, {})
  /\ GetsPage(a.tab, "overview")
  /\ tries' = {[b EXCEPT !.here = @ /\ b.tab # a.tab] : b \in tries \ {a}}
  /\ UNCHANGED <<verifier, attempt, tried, holds>>

\* An error: the form shows it and can be sent again.
Refused(a) ==
  /\ a.what \in Forms
  /\ loading' = IF a.here THEN [loading EXCEPT ![a.tab] = FALSE] ELSE loading
  /\ tries' = tries \ {a}
  /\ UNCHANGED <<cookie, verifier, place, attempt, tried, holds, changed>>

\* handleGitHubOAuth and handleGoogleOAuth, of either form: the tab goes to the
\* provider, and the cookies keep what the code will be exchanged with.
HandleOAuth(t, form) ==
  /\ place[t] = form
  /\ tried < MaxTries /\ tried' = tried + 1
  /\ GetsPage(t, "provider")
  /\ attempt' = [attempt EXCEPT ![t] = tried + 1] /\ verifier' = tried + 1
  /\ tries' = Dropped(t) /\ holds' = [holds EXCEPT ![t] = {}] /\ changed' = changed \ {t}
  /\ UNCHANGED cookie

OAuthOfLogin(t)  == HandleOAuth(t, "login")
OAuthOfSignup(t) == HandleOAuth(t, "signup")

\* GET of auth/callback.  The login page does not show the error of its address.
Callback(t, u) ==
  /\ place[t] = "provider"
  /\ verifier' = 0
  /\ \/ /\ attempt[t] = verifier
        /\ Becomes(u, {t}) /\ GetsPage(t, "overview")
     \/ UNCHANGED <<cookie, changed>> /\ GetsPage(t, "login")
  /\ UNCHANGED <<attempt, tries, tried, holds>>

-----------------------------------------------------------------------------
HandleSignOut(t) ==
  /\ place[t] = "overview"
  /\ Call(t, "signOut", NoAccount)
  /\ UNCHANGED loading

\* The error of signOut is not looked at: the session may be there still.
SignedOut(a) ==
  /\ a.what = "signOut"
  /\ Becomes(NoAccount, {}) \/ UNCHANGED <<cookie, changed>>
  /\ GetsPage(a.tab, "login")
  /\ tries' = {[b EXCEPT !.here = @ /\ b.tab # a.tab] : b \in tries \ {a}}
  /\ UNCHANGED <<verifier, attempt, tried, holds>>

SessionNext ==
  \/ \E t \in Tabs :
       \/ \E p \in Places, anew \in BOOLEAN : Open(t, p, anew)
       \/ \E u \in Accounts : HandleLogin(t, u) \/ HandleSignup(t, u) \/ Callback(t, u)
       \/ Answered(t) \/ OAuthOfLogin(t) \/ OAuthOfSignup(t) \/ HandleSignOut(t)
  \/ \E a \in tries : SignedIn(a) \/ Refused(a) \/ SignedOut(a)

SessionSpec == SessionInit /\ [][SessionNext]_sessionvars

-----------------------------------------------------------------------------
(***************************************************************************)
(* A form waits for one answer at a time, and for none that cannot come.   *)
(* And as long as the session has not changed under a tab that was there,  *)
(* what the tab shows is of the account that is signed in: to sign in with *)
(* a provider, or to load the page anew, forgets what was shown to another *)
(* account.  Signing out, or in with a form, forgets nothing.              *)
(***************************************************************************)
Waits(t) == {a \in tries : a.tab = t /\ a.here /\ a.what \in Forms}

SessionShown ==
  \A t \in Tabs :
    /\ loading[t] <=> Waits(t) # {}
    /\ \A a, b \in Waits(t) : a = b
    /\ t \notin changed => holds[t] \subseteq {cookie}
=============================================================================
