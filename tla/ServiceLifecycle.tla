-------------------------- MODULE ServiceLifecycle --------------------------
(***************************************************************************)
(* The life of a service process: service_lifespan (libs/app/bootstrap.py) *)
(* with the container it creates and shuts down, the listeners it starts,  *)
(* and the requests and handlers that use the bus meanwhile, on top of     *)
(* BusConnection.                                                          *)
(*                                                                         *)
(* auth_svc has a Redis client in its container, the gateway has none:     *)
(* that is HasRedis.                                                       *)
(***************************************************************************)
EXTENDS BusConnection

CONSTANTS
  Main,       \* the coroutine of service_lifespan
  Listeners,  \* the listeners the service starts
  HasRedis    \* there is a Redis client in the container

ASSUME MainAssumption      == Main \in Tasks
ASSUME ListenersAssumption == Listeners # {}
ASSUME RedisAssumption     == HasRedis \in BOOLEAN

VARIABLES
  phase,      \* where service_lifespan is
  stored,     \* app.state.container is set
  redis,      \* the Redis client of the container
  listening,  \* the channel each listener consumes on, NoConn before start()
  overtaken,  \* connections opened after close() had begun (history)
  refused     \* connections whose own close() raised (history)

vars == <<pc, mine, late, conn, chan, tag, link, opened, subscribed,
          phase, stored, redis, listening, overtaken, refused>>
lifeVars == <<phase, stored, redis, listening, overtaken, refused>>

Workers  == Tasks \ {Main}
Starting == {"creating", "topology", "listeners"}
Closing  == {"cancelling", "channel", "connection", "closed"}
Phases   == Starting \union {"serving", "unwinding", "stopped"} \union Closing

\* "kept": close() raised, so the connections of the client may be open.
RedisStates == {"absent", "new", "open", "closed", "kept"}

TypeOK ==
  /\ BusTypeOK
  /\ phase     \in Phases
  /\ stored    \in BOOLEAN
  /\ redis     \in RedisStates
  /\ listening \in [Listeners -> OrNone]
  /\ overtaken \in SUBSET Conns
  /\ refused   \in SUBSET Conns

Init ==
  /\ BusInit
  /\ phase = "creating"
  /\ stored = FALSE
  /\ redis = IF HasRedis THEN "new" ELSE "absent"
  /\ listening = [l \in Listeners |-> NoConn]
  /\ overtaken = {}
  /\ refused = {}

-----------------------------------------------------------------------------
\* Startup.

\* The factory of the container calls bus.connect().
BeginConnect ==
  /\ phase = "creating"
  /\ pc[Main] = "idle"
  /\ StartConnect(Main)
  /\ UNCHANGED lifeVars

\* redis_client.connect(), gathered with it, answers the ping or raises.  When
\* it raises, gather does not wait for the bus, and no container is stored.
RedisConnects ==
  /\ phase = "creating" /\ redis = "new"
  /\ redis' = "open"
  /\ UNCHANGED <<busVars, phase, stored, listening, overtaken, refused>>

RedisFails ==
  /\ phase = "creating" /\ redis = "new"
  /\ phase' = "unwinding"
  /\ UNCHANGED <<busVars, stored, redis, listening, overtaken, refused>>

\* Main is given the channel it asked for and goes on.
MainUses(next) ==
  /\ pc[Main] = "ready"
  /\ Goto(Main, next)
  /\ Take(Main, NoConn)
  /\ UNCHANGED <<late, conn, chan, tag, link, opened, subscribed>>

BadContainerCreated ==    \* it is stored without waiting for Redis
  /\ phase = "creating"
  /\ MainUses("calling")
  /\ stored' = TRUE
  /\ phase' = "topology"
  /\ UNCHANGED <<redis, listening, overtaken, refused>>

ContainerCreated ==
  /\ phase = "creating" /\ redis # "new"
  /\ MainUses("calling")
  /\ stored' = TRUE
  /\ phase' = "topology"
  /\ UNCHANGED <<redis, listening, overtaken, refused>>

\* The declarations of the topology; each of them may raise.
TopologyDeclared ==
  /\ phase = "topology"
  /\ IsOpen(mine[Main])
  /\ MainUses("calling")
  /\ phase' = "listeners"
  /\ UNCHANGED <<stored, redis, listening, overtaken, refused>>

Silent == {l \in Listeners : listening[l] = NoConn}

\* listener.start(): bus.consume on the channel _ensure gave.
ListenerStarts(l) ==
  /\ phase = "listeners" /\ l \in Silent
  /\ IsOpen(mine[Main])
  /\ MainUses(IF Silent = {l} THEN "idle" ELSE "calling")
  /\ listening' = [listening EXCEPT ![l] = mine[Main]]
  /\ phase' = IF Silent = {l} THEN "serving" ELSE "listeners"
  /\ UNCHANGED <<stored, redis, overtaken, refused>>

\* A declaration or a consume raises.
StartupRaises ==
  /\ phase \in {"topology", "listeners"}
  /\ MainUses("idle")
  /\ phase' = "unwinding"
  /\ UNCHANGED <<stored, redis, listening, overtaken, refused>>

\* connect gave up.
ConnectGivesUp ==
  /\ phase \in Starting /\ pc[Main] = "failed"
  /\ phase' = "unwinding"
  /\ UNCHANGED <<busVars, stored, redis, listening, overtaken, refused>>

-----------------------------------------------------------------------------
\* Shutdown.

StopRequested ==
  /\ phase = "serving"
  /\ phase' = "unwinding"
  /\ UNCHANGED <<busVars, stored, redis, listening, overtaken, refused>>

BadUnwind ==              \* running handlers are waited for
  /\ phase = "unwinding"
  /\ \A w \in Workers : pc[w] = "idle"
  /\ phase' = IF stored THEN "cancelling" ELSE "stopped"
  /\ UNCHANGED <<busVars, stored, redis, listening, overtaken, refused>>

\* `finally`: background tasks are cancelled, listener.stop() leaves the
\* consumers to the end of the channel, and a stored container is shut down.
Unwind ==
  /\ phase = "unwinding"
  /\ phase' = IF stored THEN "cancelling" ELSE "stopped"
  /\ UNCHANGED <<busVars, stored, redis, listening, overtaken, refused>>

Kept == {c \in Conns : c = conn /\ link'[c] # "closed"}

BadCloseStep ==           \* no `finally`: a channel that raises ends close()
  /\ \/ phase = "cancelling" /\ CancelReplies   /\ phase' = "channel"
     \/ phase = "channel"    /\ CloseChannel
          /\ phase' = IF IsOpen(chan) /\ chan \in opened' THEN "closed" ELSE "connection"
     \/ phase = "connection" /\ CloseConnection /\ phase' = "closed"
  /\ refused' = IF phase = "connection" THEN Kept ELSE refused
  /\ UNCHANGED <<stored, redis, listening, overtaken>>

\* bus.close().  gather swallows its exception (return_exceptions=True).
CloseStep ==
  /\ \/ phase = "cancelling" /\ CancelReplies   /\ phase' = "channel"
     \/ phase = "channel"    /\ CloseChannel    /\ phase' = "connection"
     \/ phase = "connection" /\ CloseConnection /\ phase' = "closed"
  /\ refused' = IF phase = "connection" THEN Kept ELSE refused
  /\ UNCHANGED <<stored, redis, listening, overtaken>>

\* redis.close(), gathered with bus.close(): it may raise as well.
RedisCloses ==
  /\ phase \in Closing /\ redis = "open"
  /\ redis' \in {"closed", "kept"}
  /\ UNCHANGED <<busVars, phase, stored, listening, overtaken, refused>>

Stopped ==
  /\ phase = "closed" /\ redis # "open"
  /\ phase' = "stopped"
  /\ UNCHANGED <<busVars, stored, redis, listening, overtaken, refused>>

-----------------------------------------------------------------------------
\* HTTP requests while the service serves, and messages while a consumer of
\* the process lives, whatever service_lifespan is doing.

Consuming(l) == listening[l] # NoConn /\ IsOpen(listening[l])

Invoked(w) ==
  /\ pc[w] = "idle"
  /\ phase = "serving" \/ \E l \in Listeners : Consuming(l)
  /\ Goto(w, "calling")
  /\ UNCHANGED <<mine, late, conn, chan, tag, link, opened, subscribed>>
  /\ UNCHANGED lifeVars

Done(w) ==
  /\ pc[w] \in {"ready", "failed"}
  /\ Goto(w, "idle")
  /\ Take(w, NoConn)
  /\ UNCHANGED <<late, conn, chan, tag, link, opened, subscribed>>
  /\ UNCHANGED lifeVars

\* A step of _ensure or connect, which remembers what it opened during close.
UseBus(t) ==
  /\ BusStep(t)
  /\ overtaken' = overtaken \union
       (IF phase \in Closing \union {"stopped"} /\ conn' # conn THEN {conn'} ELSE {})
  /\ UNCHANGED <<phase, stored, redis, listening, refused>>

Clock(t) == DeadlinePasses(t) /\ UNCHANGED lifeVars

Network == \E c \in Conns : (LinkLost(c) \/ LinkRestored(c)) /\ UNCHANGED lifeVars

-----------------------------------------------------------------------------
Lifespan ==
  \/ BeginConnect     \/ RedisConnects \/ RedisFails \/ ContainerCreated
  \/ TopologyDeclared \/ StartupRaises \/ ConnectGivesUp
  \/ Unwind           \/ CloseStep     \/ RedisCloses \/ Stopped
  \/ \E l \in Listeners : ListenerStarts(l)

Next ==
  \/ Lifespan
  \/ StopRequested
  \/ \E t \in Tasks : UseBus(t) \/ Clock(t)
  \/ \E w \in Workers : Invoked(w) \/ Done(w)
  \/ Network

Spec == Init /\ [][Next]_vars

\* The event loop resumes a coroutine whose await has ended, and time passes.
\* That every await of aio_pika and of redis ends, in an answer or an
\* exception, is assumed: the code gives none of them a timeout, not even the
\* ones of close() on a connection that is lost (rabbitmq_message_bus.py:139).
Fairness ==
  /\ WF_vars(Lifespan)
  /\ \A t \in Tasks : WF_vars(UseBus(t)) /\ WF_vars(Clock(t))
  /\ \A w \in Workers : WF_vars(Done(w))

FairSpec == Spec /\ Fairness

-----------------------------------------------------------------------------
\* Safety.

\* Until the shutdown begins, what was ever started keeps its connection: a
\* reconnect by _ensure never takes a consumer of a listener, or the consumer
\* of the RPC replies, off the connection the library will restore (connect
\* leaves the connection it replaces alone).
ConsumersSurvive ==
  phase \in Starting \union {"serving", "unwinding", "cancelling"} =>
    /\ \A l \in Listeners : listening[l] # NoConn =>
         listening[l] \in opened /\ link[listening[l]] # "closed"
    /\ tag # NoConn => tag \in subscribed /\ link[tag] # "closed"

\* A service that serves has all it needs: its listeners are subscribed, its
\* Redis client is connected, and some channel takes the RPC replies.
ServingIsComplete ==
  phase = "serving" =>
    stored /\ redis # "new" /\ Silent = {} /\ tag # NoConn

\* After service_lifespan has ended, a stored container has given back Redis
\* and the bus's connection, also when the start failed half way, and whatever
\* else of the shutdown raised: a resource is kept only if its own close()
\* raised, or the connection was opened while or after close() ran.
ShutdownReleases ==
  phase = "stopped" /\ stored =>
    /\ redis # "open"
    /\ conn \in overtaken \union refused \/ link[conn] = "closed"

-----------------------------------------------------------------------------
\* The inductive invariant.

\* Before the first connection there is nothing; a connection of the bus is in
\* use from the time it is the bus's.
BusInv ==
  /\ conn # NoConn => link[conn] # "unused"
  /\ conn = NoConn => /\ opened = {} /\ chan = NoConn /\ tag = NoConn
                      /\ \A t \in Tasks : mine[t] = NoConn

\* What each point of service_lifespan has achieved; connections are closed by
\* close() only, at the end.
PhaseInv ==
  /\ phase = "creating" => pc[Main] # "calling"
  /\ phase = "creating" /\ pc[Main] = "ready" => tag # NoConn
  /\ phase \in {"topology", "listeners", "serving"} => stored /\ redis # "new"
  /\ stored => tag # NoConn
  /\ \A c \in Conns : link[c] = "closed" => phase \in {"closed", "stopped"}
  /\ phase \in {"closed", "stopped"} /\ stored =>
       conn \in overtaken \union refused \/ link[conn] = "closed"

\* ConsumersSurvive, ServingIsComplete and ShutdownReleases with what they
\* need to be preserved by every step.
IInv ==
  /\ TypeOK /\ BusInv /\ PhaseInv
  /\ ConsumersSurvive /\ ServingIsComplete /\ ShutdownReleases

-----------------------------------------------------------------------------
\* Liveness.

\* A coroutine that needs the bus gets a channel or an exception, however its
\* attempts fail: the loop of connect ends once the deadline has passed, if no
\* attempt is kept waiting for ever.
EnsureEnds == \A w \in Workers : pc[w] = "calling" ~> pc[w] = "idle"

\* The start of the service succeeds or is given up, and a shutdown ends, with
\* requests and handlers still using the bus; both if every await ends.
LifespanMoves ==
  /\ phase \in Starting ~> phase \notin Starting
  /\ phase = "unwinding" ~> phase = "stopped"

-----------------------------------------------------------------------------
\* Stated by the sources, refuted by the runs.

\* rabbitmq_message_bus.py:83: the listener of RPC replies is started after a
\* successful connection, stated for the channel _ensure returns.
RepliesOnChannel ==
  \A w \in Workers : phase = "serving" /\ pc[w] = "ready" => mine[w] \in subscribed

-----------------------------------------------------------------------------
\* How far the disagreement of RepliesOnChannel goes.

InUse == {c \in Conns : link[c] # "unused"}

\* It takes a second connection: while the bus has opened only one, whatever
\* was lost and restored on it, a request of a service that serves is given a
\* channel with the consumer of the replies.
FirstConnectionServes ==
  (\A c, d \in InUse : c = d) => RepliesOnChannel

\* A channel a coroutine was given, the channel of the bus and the channel of
\* the reply consumer are channels of connections that were opened.
ChannelInv ==
  /\ \A t \in Tasks : pc[t] = "ready" => mine[t] \in InUse
  /\ chan # NoConn => chan \in InUse
  /\ tag # NoConn => tag \in InUse
  /\ opened # {} => chan # NoConn

=============================================================================
