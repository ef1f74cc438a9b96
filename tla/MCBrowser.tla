------------------------------ MODULE MCBrowser ------------------------------
(***************************************************************************)
(* What the user does in the browser, and the billing of the organization. *)
(* The components share no state, so each is checked by itself: "moving"  *)
(* is the one that does in a behavior; the others stay in one initial      *)
(* state.  MaxServed bounds the deliveries and the checkouts together.     *)
(***************************************************************************)
EXTENDS Billing, Chat, LogsPage, Pages, DetailDrawers, RateLimitsPage, TLC

CONSTANT MaxServed

VARIABLE moving

MCStatusOf == <<"success", "error">>

\* What clients send as metadata: the billing keys kept, dropped or made up.
MCPatches == [plan : {None, "pro"}, customer : 0 .. 2, note : {None, "n"}]

Symmetry == Permutations(Items)

Parts == {"billing", "chat", "logs", "pages", "dialogs", "drawers", "limits"}

allvars == <<vars, chatvars, logvars, pagevars, dialogvars, drawervars, ratevars, moving>>

BrowserInit ==
  /\ moving \in Parts
  /\ Init /\ ChatInit /\ RateInit
  /\ LogsInit   /\ (moving # "logs" => statusFilter = "all")
  /\ PageInit   /\ (moving # "pages" => root = "billing" /\ page = "billing")
  /\ DialogInit /\ (moving # "dialogs" => dialog = CloneDialog)
  /\ DrawerInit /\ (moving # "drawers" => kind = "incident")

BrowserNext ==
  /\ \/ moving = "billing" /\ Next /\ deliveries' + opened' <= MaxServed
     \/ moving # "billing" /\ UNCHANGED vars
  /\ \/ moving = "chat" /\ ChatNext
     \/ moving # "chat" /\ UNCHANGED chatvars
  /\ \/ moving = "logs" /\ LogsNext
     \/ moving # "logs" /\ UNCHANGED logvars
  /\ \/ moving = "pages" /\ PageNext
     \/ moving # "pages" /\ UNCHANGED pagevars
  /\ \/ moving = "dialogs" /\ DialogNext
     \/ moving # "dialogs" /\ UNCHANGED dialogvars
  /\ \/ moving = "drawers" /\ DrawerNext
     \/ moving # "drawers" /\ UNCHANGED drawervars
  /\ \/ moving = "limits" /\ RateNext
     \/ moving # "limits" /\ UNCHANGED ratevars
  /\ UNCHANGED moving

BrowserSpec == BrowserInit /\ [][BrowserNext]_allvars
=============================================================================
