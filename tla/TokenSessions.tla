--------------------------- MODULE TokenSessions ---------------------------
(***************************************************************************)
(* The routes POST /refresh and /logout (apps/gateway/rest/auth/           *)
(* auth_routes.py) in front of TokenService, and the client that uses      *)
(* them.  A request is one execution of a route.  The RPC below it may     *)
(* time out, and its message may be delivered more than once: RpcSystem    *)
(* shows when.  Each delivery is a handler of TokenService, with the token *)
(* of the request.                                                         *)
(*                                                                         *)
(* The client knows a token from a login or from the answer to a refresh   *)
(* that reached it.                                                        *)
(*                                                                         *)
(* The id of the RPC is the client's x-request-id.  call_rpc keeps one     *)
(* future for each id, so calls that bear one id take each other's answers *)
(* (RpcCaller, rpc_crossed).  A request is shared when other calls of the  *)
(* gateway, of whatever route, bear its id too.  What the properties say   *)
(* of an answer they say of requests that are not shared.                  *)
(***************************************************************************)
EXTENDS TokenService, ErrorModel

CONSTANTS
  Requests,    \* executions of the two routes
  RequestOf,   \* the request of each handler
  MayShare     \* bound: the requests whose id other calls may bear

ASSUME DeliveryAssumption == RequestOf \in [Handlers -> Requests]
ASSUME KindAssumption ==
  \A g \in Refreshes, h \in Logouts : RequestOf[g] # RequestOf[h]
ASSUME SharingAssumption == MayShare \subseteq Requests

VARIABLES
  route,   \* program point of each request
  body,    \* the token in its body, or NoToken for any other string
  heard,   \* the handler whose answer its call_rpc returned, or NoToken
  shared   \* the requests whose id other calls bear

session == <<route, body, heard, shared>>
allVars == <<vars, session>>

SessionTypeOK ==
  /\ route \in [Requests -> {"new", "waiting", "answered", "timeout"}]
  /\ body  \in [Requests -> Tokens \union {NoToken}]
  /\ heard \in [Requests -> Handlers \union {NoToken}]
  /\ shared \subseteq MayShare

SessionInit ==
  /\ Init
  /\ route = [q \in Requests |-> "new"]
  /\ body  = [q \in Requests |-> NoToken]
  /\ heard = [q \in Requests |-> NoToken]
  /\ shared = {}

\* The client knows the token.
Holds(t) == IF t \in Roots THEN row[t] # "absent"
            ELSE answer[t] = "ok" /\ \E q \in Requests : heard[q] = t

-----------------------------------------------------------------------------
\* The routes.

\* Operators named Bad... are faulty variants of the definition below them.
\* Nothing refers to them: each is put in the place of that definition to
\* see that the properties notice the mistake.

Move(q, from, to) ==
  /\ route[q] = from
  /\ route' = [route EXCEPT ![q] = to]

\* A route publishes the body of its request, under an id of the client's
\* choice.
Ask(q) ==
  /\ Move(q, "new", "waiting")
  /\ \/ \E t \in Tokens : Holds(t) /\ body' = [body EXCEPT ![q] = t]
     \/ UNCHANGED body
  /\ \/ UNCHANGED shared
     \/ q \in MayShare /\ shared' = shared \union {q}
  /\ UNCHANGED <<vars, heard>>

BadHear(q) ==             \* an answer is taken for whichever call is waiting
  /\ Move(q, "waiting", "answered")
  /\ \E h \in Handlers : /\ pc[h] # "new"
                         /\ answer[h] # "none"
                         /\ heard' = [heard EXCEPT ![q] = h]
  /\ UNCHANGED <<vars, body, shared>>

\* call_rpc returns the first answer that arrives under its id, whichever
\* delivery of the request it comes from.  Under a shared id it may be the
\* answer to another request, or to a call that is not modelled.
Hear(q) ==
  /\ Move(q, "waiting", "answered")
  /\ \/ \E h \in Handlers : /\ RequestOf[h] = q \/ {q, RequestOf[h]} \subseteq shared
                            /\ answer[h] # "none"
                            /\ heard' = [heard EXCEPT ![q] = h]
     \/ q \in shared /\ UNCHANGED heard
  /\ UNCHANGED <<vars, body, shared>>

\* call_rpc returns None.  The request may still be handled.
TimeOut(q) ==
  /\ Move(q, "waiting", "timeout")
  /\ UNCHANGED <<vars, body, heard, shared>>

\* What the RPC of a request that is not shared returned.
Outcome(q) == IF route[q] = "timeout" THEN "none"
              ELSE IF answer[heard[q]] = "ok" THEN "ok"
              ELSE "auth.refresh_invalid"

IsLogout(q) == \E h \in Logouts : RequestOf[h] = q

BadStatus(q) ==           \* no answer is taken for an error of the token
  IF IsLogout(q) THEN 200
  ELSE IF Outcome(q) = "ok" THEN 200 ELSE 401

\* The status the client is sent.  The logout route does not look at what
\* the RPC returned.
Status(q) == IF IsLogout(q) THEN 200 ELSE RouteStatus(Outcome(q))

-----------------------------------------------------------------------------
\* The deliveries of a request.

Start(h) ==
  LET q == RequestOf[h] IN
  /\ route[q] # "new"
  /\ IF body[q] = NoToken THEN Unknown(h)
     ELSE Outdated(h, body[q]) \/ Spent(h, body[q]) \/ Find(h, body[q])
  /\ UNCHANGED session

Serve(h) == Handle(h) /\ UNCHANGED session

CutShort(h) == Interrupt(h) /\ UNCHANGED session

\* All refresh tokens have one lifetime: none expires before the token it was
\* obtained with.
World(t) ==
  /\ \/ Login(t)
     \/ Expire(t) /\ (t \in Refreshes => of[t] \in expired)
  /\ UNCHANGED session

SessionNext ==
  \/ \E t \in Tokens : World(t)
  \/ \E q \in Requests : Ask(q) \/ Hear(q) \/ TimeOut(q)
  \/ \E h \in Handlers : Start(h) \/ Serve(h) \/ CutShort(h)

SessionSpec == SessionInit /\ [][SessionNext]_allVars

\* While handlers are running and not all of them wait for a lock, one goes
\* on.  Nothing more is assumed of the event loop and the database.
SessionFairSpec ==
  SessionSpec /\ WF_vars(\E h \in Handlers : Handle(h))

-----------------------------------------------------------------------------
Ended(q) == route[q] \in {"answered", "timeout"}

Useless(t) == t \in expired \/ row[t] = "revoked"

\* A client that is refused can throw its token away: 401 is sent only for a
\* token that cannot be used again (auth_routes.py:139 to 152 tells a
\* timeout, which leaves that open, from a refusal).  Under a shared id the
\* refusal may be meant for somebody else.
RefusalIsReal ==
  \A q \in Requests \ shared : Ended(q) /\ body[q] # NoToken /\ Status(q) = 401 =>
    Useless(body[q])

\* The logout route answers 200 whatever happens (auth_routes.py:163).  What
\* that hides, unless the id is shared, is the timeout only: once auth_svc has
\* answered, whatever it answered, the token cannot be used.
LogoutIsDone ==
  \A q \in Requests \ shared : IsLogout(q) /\ route[q] = "answered" /\ body[q] # NoToken =>
    Useless(body[q])

\* There was a login, and nobody has asked for a logout.
Begun == /\ \E r \in Roots : row[r] # "absent"
         /\ \A q \in Requests : route[q] # "new" => ~IsLogout(q)

\* A login leaves something to go on with until a logout: among the tokens
\* that descend from it one has not been spent, whatever is cut short.
SessionSurvives == Begun => \E t \in Tokens : row[t] = "active"

Delivered(q) == {h \in Handlers : RequestOf[h] = q /\ pc[h] # "new"}

\* Nothing came between the client and auth_svc: each request it sent had an
\* id of its own, was handled once and was answered.
Smooth ==
  /\ shared = {}
  /\ \A q \in Requests : route[q] # "new" =>
       /\ route[q] = "answered"
       /\ \A g, h \in Delivered(q) : g = h

\* A client that sent no logout and whose requests all had ids of their own
\* and were handled once and answered holds a token that is not spent.  Only a
\* timeout, a second delivery of a request or an id used twice can shut it out.
SessionIsKept ==
  Smooth /\ Begun => \E t \in Tokens : Holds(t) /\ row[t] = "active"

\* What holds of a delivery and of an answer on the way to the client.
DeliveryMeaning ==
  /\ \A h \in Handlers :
       /\ pc[h] # "new" => route[RequestOf[h]] # "new" /\ of[h] = body[RequestOf[h]]
       /\ answer[h] = "invalid" /\ of[h] # NoToken => Useless(of[h])
  /\ \A q \in Requests \ shared : route[q] = "answered" =>
       /\ heard[q] \in Handlers
       /\ RequestOf[heard[q]] = q
       /\ answer[heard[q]] # "none"

\* No call has timed out, no request was delivered twice and none had the id
\* of another, so far.
Calm ==
  /\ shared = {}
  /\ \A q \in Requests : /\ route[q] # "timeout"
                         /\ \A g, h \in Delivered(q) : g = h

\* The client knows the token, or may still hear of it.
Reachable(t) ==
  \/ t \in Roots
  \/ route[RequestOf[t]] = "waiting"
  \/ answer[t] = "ok" /\ heard[RequestOf[t]] = t

SessionInReach ==
  /\ \A h \in Refreshes : answer[h] = "invalid" => row[h] = "absent"
  /\ Calm /\ Begun => \E t \in Tokens : row[t] = "active" /\ Reachable(t)

SessionIInv ==
  IInv /\ SessionTypeOK /\ DeliveryMeaning /\ SessionSurvives /\ SessionInReach

=============================================================================
