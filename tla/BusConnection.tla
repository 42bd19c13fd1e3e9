--------------------------- MODULE BusConnection ---------------------------
(***************************************************************************)
(* The connection of RabbitMQMessageBus (rabbitmq_message_bus.py): connect *)
(* with its retries and its deadline, the consumer of the RPC replies,     *)
(* _ensure, and close, as the coroutines of one process interleave.        *)
(*                                                                         *)
(* A robust connection of aio_pika carries at most one channel here, so a  *)
(* channel is named by its connection.  The library restores a connection  *)
(* that was lost, with its channel and its consumers; until it has, the    *)
(* channel reads as closed.  The tag of the reply consumer is represented  *)
(* by the connection it was started on.                                    *)
(***************************************************************************)
EXTENDS FiniteSets

CONSTANTS
  Tasks,    \* coroutines that use the bus
  Conns,    \* bound: robust connections the bus opens
  NoConn    \* None

ASSUME NoConnAssumption == NoConn \notin Conns

VARIABLES
  pc,         \* where each coroutine is in _ensure and connect
  mine,       \* the connection of its attempt, then the channel it was given
  late,       \* coroutines whose deadline is over
  conn,       \* _conn
  chan,       \* _chan
  tag,        \* _reply_to_consumer_tag
  link,       \* each connection
  opened,     \* connections whose channel is open while their link is up
  subscribed  \* channels with the consumer of RPC replies

busVars == <<pc, mine, late, conn, chan, tag, link, opened, subscribed>>

Points == {"idle", "calling", "connecting", "opening", "subscribing",
           "pausing", "resting", "ready", "failed"}
InConnect == {"connecting", "opening", "subscribing", "pausing", "resting"}
Links  == {"unused", "up", "down", "closed"}
OrNone == Conns \union {NoConn}

BusTypeOK ==
  /\ pc         \in [Tasks -> Points]
  /\ mine       \in [Tasks -> OrNone]
  /\ \A t \in Tasks : pc[t] \in {"opening", "subscribing"} => mine[t] \in Conns
  /\ late       \in SUBSET Tasks
  /\ conn       \in OrNone
  /\ chan       \in OrNone
  /\ tag        \in OrNone
  /\ link       \in [Conns -> Links]
  /\ opened     \in SUBSET Conns
  /\ subscribed \in SUBSET Conns

BusInit ==
  /\ pc         = [t \in Tasks |-> "idle"]
  /\ mine       = [t \in Tasks |-> NoConn]
  /\ late       = {}
  /\ conn       = NoConn
  /\ chan       = NoConn
  /\ tag        = NoConn
  /\ link       = [c \in Conns |-> "unused"]
  /\ opened     = {}
  /\ subscribed = {}

\* is_closed of a channel.
IsOpen(c) == c \in opened /\ link[c] = "up"

Goto(t, to) == pc' = [pc EXCEPT ![t] = to]

Take(t, c) == mine' = [mine EXCEPT ![t] = c]

\* Operators named Bad... are faulty variants of the definition below them.
\* Nothing refers to them: each is put in the place of that definition to
\* see that the properties notice the mistake.

-----------------------------------------------------------------------------
\* connect.

StartConnect(t) ==
  /\ Goto(t, "connecting")
  /\ UNCHANGED <<mine, late, conn, chan, tag, link, opened, subscribed>>

BadConnected(t) ==        \* the connection of before is closed
  /\ pc[t] = "connecting"
  /\ \E c \in Conns :
       /\ link[c] = "unused"
       /\ link' = [d \in Conns |-> IF d = c THEN "up"
                                   ELSE IF d = conn THEN "closed" ELSE link[d]]
       /\ conn' = c
       /\ Take(t, c)
  /\ Goto(t, "opening")
  /\ UNCHANGED <<late, chan, tag, opened, subscribed>>

\* connect_robust has connected: its connection replaces the one of before,
\* which nobody closes.
Connected(t) ==
  /\ pc[t] = "connecting"
  /\ \E c \in Conns :
       /\ link[c] = "unused"
       /\ link' = [link EXCEPT ![c] = "up"]
       /\ conn' = c
       /\ Take(t, c)
  /\ Goto(t, "opening")
  /\ UNCHANGED <<late, chan, tag, opened, subscribed>>

\* The channel is open.  With a tag, _setup_reply_to_consumer returns at once.
ChannelOpened(t) ==
  /\ pc[t] = "opening"
  /\ link[mine[t]] = "up"
  /\ opened' = opened \union {mine[t]}
  /\ chan' = mine[t]
  /\ Goto(t, IF tag = NoConn THEN "subscribing" ELSE "ready")
  /\ late' = IF tag = NoConn THEN late ELSE late \ {t}
  /\ UNCHANGED <<mine, conn, tag, link, subscribed>>

\* The reply consumer runs on the channel of this attempt; the caller is given
\* self._chan, which another coroutine may have replaced by now.
Subscribed(t) ==
  /\ pc[t] = "subscribing"
  /\ IsOpen(mine[t])
  /\ subscribed' = subscribed \union {mine[t]}
  /\ tag' = mine[t]
  /\ Take(t, chan)
  /\ Goto(t, "ready")
  /\ late' = late \ {t}
  /\ UNCHANGED <<conn, chan, link, opened>>

Attempting(t) == pc[t] \in {"connecting", "opening", "subscribing"}

\* An await of the attempt raises ConnectionClosed or ChannelClosed: sleep,
\* then look at the deadline.
AttemptIsClosed(t) ==
  /\ Attempting(t)
  /\ Goto(t, "pausing")
  /\ Take(t, NoConn)
  /\ UNCHANGED <<late, conn, chan, tag, link, opened, subscribed>>

\* It raises anything else: look at the deadline, then sleep.
AttemptFails(t) ==
  /\ Attempting(t)
  /\ Goto(t, IF t \in late THEN "failed" ELSE "resting")
  /\ Take(t, NoConn)
  /\ late' = late \ {t}
  /\ UNCHANGED <<conn, chan, tag, link, opened, subscribed>>

BadRetry(t) ==            \* the deadline is not looked at after the sleep
  /\ pc[t] \in {"pausing", "resting"}
  /\ Goto(t, "connecting")
  /\ UNCHANGED <<mine, late, conn, chan, tag, link, opened, subscribed>>

\* The sleep between two attempts ends.
Retry(t) ==
  /\ pc[t] \in {"pausing", "resting"}
  /\ Goto(t, IF pc[t] = "pausing" /\ t \in late THEN "failed" ELSE "connecting")
  /\ late' = IF pc[t] = "pausing" THEN late \ {t} ELSE late
  /\ UNCHANGED <<mine, conn, chan, tag, link, opened, subscribed>>

\* RABBITMQ_CONNECT_TIMEOUT seconds, more than none, have passed.
DeadlinePasses(t) ==
  /\ pc[t] \in InConnect
  /\ t \notin late
  /\ late' = late \union {t}
  /\ UNCHANGED <<pc, mine, conn, chan, tag, link, opened, subscribed>>

-----------------------------------------------------------------------------
\* _ensure, the first step of every operation of the bus.

EnsureOpen(t) ==
  /\ pc[t] = "calling"
  /\ IsOpen(chan)
  /\ Goto(t, "ready")
  /\ Take(t, chan)
  /\ UNCHANGED <<late, conn, chan, tag, link, opened, subscribed>>

EnsureConnects(t) ==
  /\ pc[t] = "calling"
  /\ ~IsOpen(chan)
  /\ StartConnect(t)

BusStep(t) ==
  \/ EnsureOpen(t)    \/ EnsureConnects(t)  \/ Connected(t)    \/ ChannelOpened(t)
  \/ Subscribed(t)    \/ AttemptIsClosed(t) \/ AttemptFails(t) \/ Retry(t)

-----------------------------------------------------------------------------
\* close.

\* The consumer with the tag is cancelled on the channel; the tag stays, and
\* an exception is only logged.
CancelReplies ==
  /\ \/ subscribed' = IF IsOpen(chan) THEN subscribed \ ({tag} \intersect {chan})
                                      ELSE subscribed
     \/ UNCHANGED subscribed
  /\ UNCHANGED <<pc, mine, late, conn, chan, tag, link, opened>>

\* The channel is closed, or that raises; `finally` closes the connection.
CloseChannel ==
  /\ \/ opened' = IF IsOpen(chan) THEN opened \ {chan} ELSE opened
     \/ UNCHANGED opened
  /\ UNCHANGED <<pc, mine, late, conn, chan, tag, link, subscribed>>

\* The connection is closed, or that raises and it stays as it is.
CloseConnection ==
  /\ \/ link' = [c \in Conns |-> IF c = conn THEN "closed" ELSE link[c]]
     \/ UNCHANGED link
  /\ UNCHANGED <<pc, mine, late, conn, chan, tag, opened, subscribed>>

-----------------------------------------------------------------------------
\* The broker and the network, as aio_pika shows them.

LinkLost(c) ==
  /\ link[c] = "up"
  /\ link' = [link EXCEPT ![c] = "down"]
  /\ UNCHANGED <<pc, mine, late, conn, chan, tag, opened, subscribed>>

LinkRestored(c) ==
  /\ link[c] = "down"
  /\ link' = [link EXCEPT ![c] = "up"]
  /\ UNCHANGED <<pc, mine, late, conn, chan, tag, opened, subscribed>>

=============================================================================
