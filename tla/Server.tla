------------------------------- MODULE Server -------------------------------
(***************************************************************************)
(* The gateway's process as it stands (cmd/gateway/main.go): it loads its  *)
(* settings, answers the requests of clients, those of the SDK among them  *)
(* (packages/sdk), and on a signal stops taking requests and waits for the *)
(* ones under way, for ShutdownTimeout at most.  The handler of the main   *)
(* endpoint checks a request and answers 501: the packages it is to put    *)
(* together are modelled each by itself.                                   *)
(*                                                                         *)
(* A request is under way once its header is read; its body may take until *)
(* ReadTimeout, which is none unless it is positive.  net/http is          *)
(* external, its timers and the exit are taken to be prompt.  SvMaxNow     *)
(* bounds the clock.                                                       *)
(***************************************************************************)
EXTENDS Integers, FiniteSets

CONSTANTS Posts, RouteIds, NoRoute, EnvValues, Unset, DefaultRead, DefaultShutdown, SvMaxNow

ASSUME DefaultsAssumption == {DefaultRead, DefaultShutdown} \subseteq Nat \ {0}

VARIABLES readTimeout, shutdownTimeout,
          process,     \* "listening", "draining", "stopped", "killed"
          svTime, signalled,
          posts        \* the requests

svvars == <<readTimeout, shutdownTimeout, process, svTime, signalled, posts>>

\* Text that is no number is as good as none.
EnvInt(value, fallback) == IF value \in Int THEN value ELSE fallback

NoPost == [stage |-> "none", began |-> 0, path |-> "", route |-> NoRoute, feature |-> NoRoute,
           key |-> FALSE, status |-> 0, answered |-> NoRoute, bySdk |-> FALSE, meant |-> NoRoute]

SvInit ==
  /\ \E r, s \in EnvValues \cup {Unset} :
       readTimeout = EnvInt(r, DefaultRead) /\ shutdownTimeout = EnvInt(s, DefaultShutdown)
  /\ process = "listening" /\ svTime = 0 /\ signalled = 0
  /\ posts = [p \in Posts |-> NoPost]

Settings == <<readTimeout, shutdownTimeout>>

\* An SDK client is a value: its route and agent, and whether its base URL has /v1.
\* The default base URL has not.
Client(r, v1) == [route |-> r, agent |-> FALSE, v1 |-> v1]

\* Clients of their own, all else as in the client they derive from.
WithRoute(client, r) == [client EXCEPT !.route = r]
WithAgent(client)    == [client EXCEPT !.agent = TRUE]

\* A request begins to arrive.
Post(p, request) ==
  /\ posts[p].stage = "none"
  /\ posts' = [posts EXCEPT ![p] =
       IF process = "listening" THEN [request EXCEPT !.stage = "arriving", !.began = svTime]
       ELSE [NoPost EXCEPT !.stage = "refused"]]
  /\ UNCHANGED <<Settings, process, svTime, signalled>>

\* The SDK posts below its base URL, with a key and the headers of its options.
SdkPost(p, client, meant) ==
  Post(p, [NoPost EXCEPT !.path = IF client.v1 THEN "/v1/chat/completions" ELSE "/chat/completions",
                         !.route = client.route, !.key = TRUE, !.bySdk = TRUE, !.meant = meant])

\* By a client as it was made, or one for another route, with an agent or without.
SdkPosts(p) ==
  \E made, r \in RouteIds \cup {NoRoute}, v1 \in BOOLEAN :
    LET client == Client(made, v1) IN
      \/ SdkPost(p, client, made)
      \/ SdkPost(p, WithAgent(client), made)
      \/ SdkPost(p, WithAgent(WithRoute(client, r)), r)

\* Another client names a feature, or lists the models.
OtherPost(p) ==
  \/ \E feature \in RouteIds \cup {NoRoute}, key \in BOOLEAN :
       Post(p, [NoPost EXCEPT !.path = "/v1/chat/completions", !.feature = feature, !.key = key])
  \/ Post(p, [NoPost EXCEPT !.path = "/v1/models"])

Arriving == {p \in Posts : posts[p].stage = "arriving"}

Answer(p, status, route) ==
  posts' = [posts EXCEPT ![p] =
    [NoPost EXCEPT !.stage = "answered", !.status = status, !.answered = route,
                   !.bySdk = posts[p].bySdk, !.meant = posts[p].meant]]

\* The body has arrived, as JSON that decodes or not.
Handle(p, decodes) ==
  /\ p \in Arriving /\ process \in {"listening", "draining"}
  /\ LET post  == posts[p]
         route == IF post.route # NoRoute THEN post.route ELSE post.feature
     IN  \/ post.path = "/v1/models" /\ Answer(p, 200, NoRoute)
         \/ post.path = "/chat/completions" /\ Answer(p, 404, NoRoute)
         \/ /\ post.path = "/v1/chat/completions"
            /\ \/ ~decodes /\ Answer(p, 400, NoRoute)
               \/ decodes /\ ~post.key /\ Answer(p, 401, NoRoute)
               \/ decodes /\ post.key /\ Answer(p, 501, route)
  /\ UNCHANGED <<Settings, process, svTime, signalled>>

Late(p) == readTimeout > 0 /\ svTime - posts[p].began >= readTimeout

\* A body that is too slow does not decode.
ReadTimesOut(p) == Late(p) /\ Handle(p, FALSE)

Signal ==
  /\ process = "listening"
  /\ process' = "draining" /\ signalled' = svTime
  /\ UNCHANGED <<Settings, svTime, posts>>

Overdue == svTime - signalled >= shutdownTimeout

\* Mutant: the process ends when ListenAndServe returns.
DrainedAtOnce == TRUE

\* Shutdown returns without an error.
Drained == Arriving = {}

\* The process ends, and with it the requests it has.
CutOff ==
  posts' = [p \in Posts |->
    IF p \in Arriving THEN [NoPost EXCEPT !.stage = "cut"] ELSE posts[p]]

Exit ==
  /\ process = "draining" /\ Drained
  /\ process' = "stopped"
  /\ CutOff
  /\ UNCHANGED <<Settings, svTime, signalled>>

\* Shutdown gives up.
ShutdownError ==
  /\ process = "draining" /\ ~Drained /\ Overdue
  /\ process' = "killed"
  /\ CutOff
  /\ UNCHANGED <<Settings, svTime, signalled>>

SvTick ==
  /\ svTime < SvMaxNow
  /\ process = "draining" => ~Drained /\ ~Overdue
  /\ process \in {"listening", "draining"} => \A p \in Arriving : ~Late(p)
  /\ svTime' = svTime + 1
  /\ UNCHANGED <<Settings, process, signalled, posts>>

SvNext ==
  \/ \E p \in Posts : SdkPosts(p) \/ OtherPost(p) \/ ReadTimesOut(p)
  \/ \E p \in Posts, decodes \in BOOLEAN : Handle(p, decodes)
  \/ Signal \/ Exit \/ ShutdownError \/ SvTick

SvSpec == SvInit /\ [][SvNext]_svvars

-----------------------------------------------------------------------------
(***************************************************************************)
(* A request that has begun is cut off by a shutdown only when it was      *)
(* still arriving ShutdownTimeout after the signal, so never when the read *)
(* timeout is the shorter one; the process does not outlive the signal by  *)
(* more than ShutdownTimeout, if that is any time at all; and a request of *)
(* the SDK that the handler takes is for the route its client was last     *)
(* given.                                                                  *)
(***************************************************************************)
NoneCutShort ==
  /\ \A p \in Posts : posts[p].stage = "cut" =>
       /\ process = "killed"
       /\ readTimeout <= 0 \/ readTimeout >= shutdownTimeout
  /\ process = "draining" => svTime = signalled \/ svTime - signalled <= shutdownTimeout
  /\ \A p \in Posts : posts[p].bySdk /\ posts[p].status = 501 => posts[p].answered = posts[p].meant
=============================================================================
