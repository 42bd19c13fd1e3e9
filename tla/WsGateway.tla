----------------------------- MODULE WsGateway -----------------------------
(***************************************************************************)
(* The WebSocket side of the gateway: the endpoint coroutine of each       *)
(* connection (apps/gateway/ws/unified_ws.py), the registry they share     *)
(* (ClientConnectionManager), the background task that closes idle         *)
(* connections (gateway_main.py) and the handlers that broadcast events    *)
(* (listeners/event_listener.py).  They interleave at every await.         *)
(*                                                                         *)
(* Connection ids are fresh for every connection, so the branch of connect *)
(* that replaces an earlier socket of the same id is never taken.  Time is *)
(* a clock in units of the ping interval.                                  *)
(***************************************************************************)
EXTENDS Integers, FiniteSets

CONSTANTS
  Conns,         \* WebSocket connections over the life of the process
  Events,        \* messages of the events exchange
  IdleTimeout,   \* GATEWAY_WS_IDLE_TIMEOUT
  PingInterval,  \* GATEWAY_WS_PING_INTERVAL
  MaxTime        \* bound of the clock

ASSUME TimesAssumption ==
  IdleTimeout \in Nat \ {0} /\ PingInterval \in Nat \ {0} /\ MaxTime \in Nat

VARIABLES
  now,       \* time.monotonic()
  pc,        \* program point of the endpoint of each connection
  sock,      \* "open", "gone" (the client left), "closed" (by the server)
  since,     \* when the endpoint last started to wait for a frame, else 0
  registry,  \* active_connections: the ids in the dictionary
  stamp,     \* the last activity stored with a registered id, else 0
  busy,      \* whether the idle checker is in a sweep, not asleep
  wake,      \* when the idle checker wakes up
  sweep,     \* ids the checker has still to look at
  sweptAt,   \* `now` of the current sweep
  closing,   \* ids whose close() the checker awaits
  phase,     \* each event: "queued", "sending", "done"
  todo,      \* ids the handler of an event has still to send to
  writing,   \* the id of `todo` whose send_text the handler awaits, if any
  audience,  \* ids the handler of an event found registered (history)
  got        \* connections an event was delivered to (history)

vars == <<now, pc, sock, since, registry, stamp, busy, wake, sweep,
          sweptAt, closing, phase, todo, writing, audience, got>>
endpoints == <<pc, since>>
checker   == <<busy, wake, sweep, sweptAt, closing>>
casts     == <<phase, todo, writing, audience, got>>

TypeOK ==
  /\ now      \in 0..MaxTime
  /\ pc       \in [Conns -> {"new", "validating", "greeting", "loop",
                        "leaving", "ended"}]
  /\ sock     \in [Conns -> {"open", "gone", "closed"}]
  /\ since    \in [Conns -> 0..MaxTime]
  /\ registry \in SUBSET Conns
  /\ stamp    \in [Conns -> 0..MaxTime]
  /\ busy     \in BOOLEAN
  /\ wake     \in Nat
  /\ sweep    \in SUBSET Conns
  /\ sweptAt  \in 0..MaxTime
  /\ closing  \in SUBSET Conns
  /\ phase    \in [Events -> {"queued", "sending", "done"}]
  /\ todo     \in [Events -> SUBSET Conns]
  /\ writing  \in [Events -> SUBSET Conns]
  /\ audience \in [Events -> SUBSET Conns]
  /\ got      \in [Events -> SUBSET Conns]

Init ==
  /\ now      = 0
  /\ pc       = [c \in Conns |-> "new"]
  /\ sock     = [c \in Conns |-> "open"]
  /\ since    = [c \in Conns |-> 0]
  /\ registry = {}
  /\ stamp    = [c \in Conns |-> 0]
  /\ busy     = FALSE
  /\ wake     = PingInterval
  /\ sweep    = {}
  /\ sweptAt  = 0
  /\ closing  = {}
  /\ phase    = [e \in Events |-> "queued"]
  /\ todo     = [e \in Events |-> {}]
  /\ writing  = [e \in Events |-> {}]
  /\ audience = [e \in Events |-> {}]
  /\ got      = [e \in Events |-> {}]

Goto(c, from, to) ==
  /\ pc[c] \in from
  /\ pc' = [pc EXCEPT ![c] = to]

\* ClientConnectionManager.disconnect: the entry goes, and its stamp with it.
Remove(c) ==
  /\ registry' = registry \ {c}
  /\ stamp' = [stamp EXCEPT ![c] = 0]

Tick ==
  /\ now < MaxTime
  /\ now' = now + 1
  /\ UNCHANGED <<endpoints, sock, registry, stamp, checker, casts>>

\* The client goes away; the server learns of it at its next receive or send.
ClientLeaves(c) ==
  /\ pc[c] # "new"
  /\ sock[c] = "open"
  /\ sock' = [sock EXCEPT ![c] = "gone"]
  /\ UNCHANGED <<now, endpoints, registry, stamp, checker, casts>>

-----------------------------------------------------------------------------
\* unified_websocket_endpoint.

\* Operators named Bad... are faulty variants of the definition below them.
\* Nothing refers to them: each is put in the place of that definition to
\* see that the properties notice the mistake.

Accept(c) ==
  /\ Goto(c, {"new"}, "validating")
  /\ UNCHANGED <<now, sock, since, registry, stamp, checker, casts>>

\* No answer, an invalid token or an exception: closed, and never registered.
Reject(c) ==
  /\ Goto(c, {"validating"}, "ended")
  /\ sock' = [sock EXCEPT ![c] = "closed"]
  /\ UNCHANGED <<now, since, registry, stamp, checker, casts>>

\* The token is valid: the connection enters the registry, stamped now.
Register(c) ==
  /\ Goto(c, {"validating"}, "greeting")
  /\ registry' = registry \union {c}
  /\ stamp' = [stamp EXCEPT ![c] = now]
  /\ UNCHANGED <<now, sock, since, checker, casts>>

\* HELLO is sent and the endpoint waits for frames.
Greet(c) ==
  /\ sock[c] # "closed"
  /\ Goto(c, {"greeting"}, "loop")
  /\ since' = [since EXCEPT ![c] = now]
  /\ UNCHANGED <<now, sock, registry, stamp, checker, casts>>

\* A frame arrives, is answered if it is a ping, and the wait starts again.
\* The stamp in the registry is left as it is.
Receive(c) ==
  /\ pc[c] = "loop"
  /\ sock[c] = "open"
  /\ since' = [since EXCEPT ![c] = now]
  /\ UNCHANGED <<now, pc, sock, registry, stamp, checker, casts>>

BadDisconnected(c) ==     \* the receive of a lost client waits for ever
  /\ sock[c] = "closed"
  /\ Goto(c, {"greeting", "loop"}, "ended")
  /\ Remove(c)
  /\ UNCHANGED <<now, sock, since, checker, casts>>

\* A receive or a send finds the socket gone or closed: straight to `finally`.
Disconnected(c) ==
  /\ sock[c] # "open"
  /\ Goto(c, {"greeting", "loop"}, "ended")
  /\ Remove(c)
  /\ since' = [since EXCEPT ![c] = 0]
  /\ UNCHANGED <<now, sock, checker, casts>>

\* The endpoint closes the socket itself: `await websocket.close`.
Close(c) ==
  /\ Goto(c, {"greeting", "loop"}, "leaving")
  /\ sock' = [sock EXCEPT ![c] = IF @ = "open" THEN "closed" ELSE @]
  /\ since' = [since EXCEPT ![c] = 0]
  /\ UNCHANGED <<now, registry, stamp, checker, casts>>

\* wait_for gives up.
IdleTimesOut(c) ==
  /\ pc[c] = "loop"
  /\ now - since[c] >= IdleTimeout
  /\ Close(c)

\* Any other exception in the loop: closed with 1011.
Breaks(c) == Close(c)

BadFinally(c) ==          \* no `finally`: the entry stays after a close
  /\ Goto(c, {"leaving"}, "ended")
  /\ UNCHANGED <<now, sock, since, registry, stamp, checker, casts>>

\* close() has returned or raised: the entry is removed, whoever else did it.
Finally(c) ==
  /\ Goto(c, {"leaving"}, "ended")
  /\ Remove(c)
  /\ UNCHANGED <<now, sock, since, checker, casts>>

-----------------------------------------------------------------------------
\* idle_connection_checker.

\* The clock is read and the ids are copied.
StartSweep ==
  /\ now >= wake /\ ~busy
  /\ busy' = TRUE
  /\ sweptAt' = now
  /\ sweep' = registry
  /\ UNCHANGED <<now, endpoints, sock, registry, stamp, wake, closing, casts>>

\* An id that is gone from the registry, or whose stamp is recent, is passed.
Spare(c) ==
  /\ c \in sweep /\ closing = {}
  /\ c \in registry => sweptAt - stamp[c] <= IdleTimeout
  /\ sweep' = sweep \ {c}
  /\ UNCHANGED <<now, endpoints, sock, registry, stamp, busy, wake, sweptAt, closing, casts>>

\* close() is called: it does nothing to a socket already closed or gone.
Reap(c) ==
  /\ c \in sweep /\ closing = {}
  /\ c \in registry
  /\ sweptAt - stamp[c] > IdleTimeout
  /\ sweep' = sweep \ {c}
  /\ closing' = {c}
  /\ sock' = [sock EXCEPT ![c] = IF @ = "open" THEN "closed" ELSE @]
  /\ UNCHANGED <<now, endpoints, registry, stamp, busy, wake, sweptAt, casts>>

\* close() has returned or raised: the id leaves the registry in any case.
Drop(c) ==
  /\ c \in closing
  /\ closing' = {}
  /\ Remove(c)
  /\ UNCHANGED <<now, endpoints, sock, busy, wake, sweep, sweptAt, casts>>

\* The list is done: the checker sleeps for the ping interval.
Sleep ==
  /\ busy /\ sweep = {} /\ closing = {}
  /\ busy' = FALSE
  /\ wake' = now + PingInterval
  /\ UNCHANGED <<now, endpoints, sock, registry, stamp, sweep, sweptAt, closing, casts>>

-----------------------------------------------------------------------------
\* EventBroadcastListener.process_message and send_message_to_client.

\* The handler copies the ids; with none there is nothing to do.
StartCast(e) ==
  /\ phase[e] = "queued"
  /\ phase' = [phase EXCEPT ![e] = IF registry = {} THEN "done" ELSE "sending"]
  /\ todo' = [todo EXCEPT ![e] = registry]
  /\ audience' = [audience EXCEPT ![e] = registry]
  /\ UNCHANGED <<now, endpoints, sock, registry, stamp, checker, writing, got>>

\* The handler is through with one id.
Sent(e, c) ==
  /\ phase[e] = "sending"
  /\ c \in todo[e]
  /\ todo' = [todo EXCEPT ![e] = @ \ {c}]
  /\ writing' = [writing EXCEPT ![e] = {}]
  /\ phase' = [phase EXCEPT ![e] = IF todo'[e] = {} THEN "done" ELSE @]

BadSkip(e, c) ==          \* an id that is gone is tried again
  /\ phase[e] = "sending" /\ writing[e] = {}
  /\ c \in todo[e] \ registry
  /\ UNCHANGED vars

\* The id left the registry since the copy was made.
Skip(e, c) ==
  /\ writing[e] = {} /\ c \notin registry
  /\ Sent(e, c)
  /\ UNCHANGED <<now, endpoints, sock, registry, stamp, checker, audience, got>>

\* One send at a time: the other ids wait until the handler is through with
\* this one.
Write(e, c) ==
  /\ phase[e] = "sending" /\ writing[e] = {}
  /\ c \in todo[e] \intersect registry
  /\ writing' = [writing EXCEPT ![e] = {c}]
  /\ UNCHANGED <<now, endpoints, sock, registry, stamp, checker, phase, todo, audience, got>>

\* The client takes the frame.
Deliver(e, c) ==
  /\ c \in writing[e] /\ sock[c] = "open"
  /\ Sent(e, c)
  /\ got' = [got EXCEPT ![e] = @ \union {c}]
  /\ UNCHANGED <<now, endpoints, sock, registry, stamp, checker, audience>>

\* The write to a lost socket returns as if it had succeeded.
Unnoticed(e, c) ==
  /\ c \in writing[e] /\ sock[c] # "open"
  /\ Sent(e, c)
  /\ UNCHANGED <<now, endpoints, sock, registry, stamp, checker, audience, got>>

BadSendFails(e, c) ==     \* the exception of one client ends the broadcast
  /\ c \in writing[e] /\ sock[c] # "open"
  /\ phase' = [phase EXCEPT ![e] = "done"]
  /\ todo' = [todo EXCEPT ![e] = {}]
  /\ writing' = [writing EXCEPT ![e] = {}]
  /\ Remove(c)
  /\ UNCHANGED <<now, endpoints, sock, checker, audience, got>>

\* The socket is known to be lost, or the write raises: the id is removed, if
\* nobody else did it, and the broadcast goes on.
SendFails(e, c) ==
  /\ c \in writing[e] /\ sock[c] # "open"
  /\ Sent(e, c)
  /\ Remove(c)
  /\ UNCHANGED <<now, endpoints, sock, checker, audience, got>>

-----------------------------------------------------------------------------
Endpoint(c) ==
  \/ Accept(c)       \/ Reject(c)       \/ Register(c)  \/ Greet(c)
  \/ Receive(c)      \/ Disconnected(c) \/ Breaks(c)    \/ IdleTimesOut(c)
  \/ Finally(c)

Checker == StartSweep \/ Sleep \/ \E c \in Conns : Spare(c) \/ Reap(c) \/ Drop(c)

\* The steps of a broadcast that wait for no client.
Proceed(e) ==
  \E c \in Conns : Skip(e, c) \/ Write(e, c) \/ Unnoticed(e, c) \/ SendFails(e, c)

Broadcast(e) == StartCast(e) \/ Proceed(e) \/ \E c \in Conns : Deliver(e, c)

Next ==
  \/ Tick
  \/ \E c \in Conns : ClientLeaves(c) \/ Endpoint(c)
  \/ Checker
  \/ \E e \in Events : Broadcast(e)

Spec == Init /\ [][Next]_vars

\* The event loop runs every coroutine: an endpoint and a send notice a lost
\* socket.  A client need not read what is sent to it.
FairSpec ==
  /\ Spec
  /\ \A c \in Conns : WF_vars(Disconnected(c) \/ Greet(c) \/ Finally(c))
  /\ \A e \in Events : WF_vars(Proceed(e))

-----------------------------------------------------------------------------
\* The registry and the sockets agree, whoever closes and removes: an entry
\* belongs to a running endpoint, so nothing leaks, and a connection that is being
\* served over an open socket has an entry, so events and the checker find it.
RegistryMatchesSockets ==
  \A c \in Conns :
    /\ c \in registry => pc[c] \in {"greeting", "loop", "leaving"}
    /\ pc[c] \in {"greeting", "loop"} /\ sock[c] = "open" => c \in registry

\* A finished broadcast reached every connection that was registered when it
\* began and is still open: no other client's failure, and no entry removed
\* meanwhile, makes it miss one (event_listener.py:36 goes through a copy).
BroadcastReaches ==
  \A e \in Events : phase[e] = "done" =>
    \A c \in audience[e] : c \in got[e] \/ sock[c] # "open"

\* A broadcast sends to nobody who was not registered when it began, and to
\* nobody twice, however the registry changes while it goes through its copy.
SentOnce ==
  \A e \in Events : /\ todo[e] \subseteq audience[e]
                    /\ got[e] \subseteq audience[e] \ todo[e]
                    /\ phase[e] = "queued" => audience[e] = {}

\* What the idle checker does keep to: a connection it closed had been
\* registered for longer than the idle timeout.
ReapedWasOld ==
  \A c \in registry : sock[c] = "closed" /\ pc[c] \in {"greeting", "loop"} =>
    now - stamp[c] > IdleTimeout

-----------------------------------------------------------------------------
\* The rest of the inductive invariant.

\* A socket the checker or its endpoint gave up is not open.
GivenUpIsClosed ==
  /\ \A c \in closing : sock[c] # "open"
  /\ \A c \in Conns : pc[c] \in {"leaving", "ended"} => sock[c] # "open"

\* The checker's clock is not ahead, and only a registered connection is closed
\* from outside its endpoint.
CheckerClock ==
  /\ sweptAt <= now
  /\ \A c \in Conns : pc[c] \in {"new", "validating"} => sock[c] # "closed"

\* The ledger of a broadcast: every connection of the copy is still to be
\* sent to, has got the event, or is not open any more.
CastLedger ==
  \A e \in Events :
    /\ phase[e] # "sending" => todo[e] = {}
    /\ writing[e] \subseteq todo[e]
    /\ \A c \in audience[e] :
         /\ pc[c] \notin {"new", "validating"}
         /\ c \in todo[e] \/ c \in got[e] \/ sock[c] # "open"

\* The inductive invariant behind RegistryMatchesSockets and BroadcastReaches.
IInv == TypeOK /\ RegistryMatchesSockets /\ GivenUpIsClosed /\ CastLedger

-----------------------------------------------------------------------------
\* An entry whose socket is gone or closed is removed in the end.
DeadEntriesGo ==
  \A c \in Conns : c \in registry /\ sock[c] # "open" ~> c \notin registry

\* A broadcast ends, unless one client stays connected for ever and never
\* takes its frame (event_listener.py:38 awaits one send after the other, with
\* no timeout): clients that leave, are reaped or are gone from the registry
\* hold nothing up.
CastsEnd ==
  \A e \in Events :
    <>[](phase[e] = "sending") =>
      \E c \in Conns : <>[](c \in writing[e] /\ sock[c] = "open")

\* The docstring of gateway_main.py:22: the checker finds and closes inactive
\* connections.  A connection it closed had no frame for the idle timeout.
ReapedWasIdle ==
  \A c \in Conns : sock[c] = "closed" /\ pc[c] = "loop" =>
    now - since[c] >= IdleTimeout

=============================================================================
