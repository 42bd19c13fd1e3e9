----------------------------- MODULE RpcSystem -----------------------------
(***************************************************************************)
(* One RPC from end to end: the callers of RpcCaller and the queue with    *)
(* its consumers of RpcListener, joined at the broker, and the two clocks  *)
(* that connect them: RPC_TIMEOUT_MS of the caller                         *)
(* (libs/messaging/rabbitmq_message_bus.py) and RPC_RETRY_DELAY_MS of the  *)
(* retry queue (libs/messaging/rabbitmq_topology.py).                      *)
(*                                                                         *)
(* A step of the system is a step of the caller, a step of the queue, or   *)
(* one of each: the broker routes the request that a caller publishes, and *)
(* a listener publishes the answer that is on its way to the caller.       *)
(* Queues of auth_svc are independent, so one is enough; the requests of   *)
(* the gateway are JSON objects, and the listeners answer a payload that   *)
(* does not validate themselves (auth_refresh_token_rpc.py:38), so no      *)
(* message is Malformed or Invalid here.                                   *)
(*                                                                         *)
(* Time advances by Tick.  timer counts down what is left of wait_for and  *)
(* ttl what is left until a rejected request can be handled again.         *)
(***************************************************************************)
EXTENDS RpcCaller

CONSTANTS
  Channels, Prefetch, MaxRetries, MaxDoubts,   \* as in RpcListener
  RpcTimeout,    \* RPC_TIMEOUT_MS, in ticks
  RetryDelay,    \* RPC_RETRY_DELAY_MS, in ticks
  Transit        \* least time from a listener to the broker and back, in ticks

\* Both settings default to 5000 ms, and a message needs some time as well.
ASSUME DelayAssumption ==
  /\ RpcTimeout \in Nat
  /\ RetryDelay \in Nat
  /\ Transit \in Nat
  /\ RetryDelay >= RpcTimeout
  /\ Transit > 0

ASSUME QueueAssumption ==
  /\ Prefetch \in Nat \ {0}
  /\ MaxRetries \in Nat
  /\ MaxDoubts \in Nat

VARIABLES
  loc, deaths, phase, open, dlq, doubts, applied, tries, requeues,  \* of RpcListener
  told,       \* handlers past their _reply, <<channel, call>>
  timer,      \* ticks left before wait_for of a call gives up
  ttl,        \* ticks left before a rejected request can be handled again
  unheard     \* calls that waited while their request was rejected (history)

Queue == INSTANCE RpcListener WITH
           Msgs <- Calls, Malformed <- {}, Invalid <- {}

queueVars == <<loc, deaths, phase, open, dlq, doubts, applied, tries, requeues>>
clocks    == <<timer, ttl>>
sysVars   == <<vars, queueVars, told, clocks, unheard>>

Patience == RetryDelay + Transit

OwnTypeOK ==
  /\ told    \in SUBSET (Channels \X Calls)
  /\ timer   \in [Calls -> 0..RpcTimeout]
  /\ ttl     \in [Calls -> 0..Patience]
  /\ unheard \in SUBSET Calls

SysTypeOK == TypeOK /\ Queue!TypeOK /\ OwnTypeOK

SysInit ==
  /\ Init
  /\ Queue!Init
  /\ told = {}
  /\ timer = [k \in Calls |-> 0]
  /\ ttl = [k \in Calls |-> 0]
  /\ unheard = {}

-----------------------------------------------------------------------------
\* The caller.

\* Steps of call_rpc that nobody else takes part in.
CallLocal(k) ==
  /\ Register(k) \/ EnsureFails(k) \/ PublishFails(k) \/ Resume(k) \/ Expire(k)
  /\ UNCHANGED <<queueVars, told, clocks, unheard>>

\* The publish is confirmed: wait_for starts its timer.
Confirm(k) ==
  /\ Published(k)
  /\ timer' = [timer EXCEPT ![k] = RpcTimeout]
  /\ UNCHANGED <<queueVars, told, ttl, unheard>>

\* The timer of wait_for fires.
GiveUp(k) ==
  /\ Timeout(k)
  /\ timer[k] = 0
  /\ UNCHANGED <<queueVars, told, clocks, unheard>>

\* The broker puts the request into the queue.
Route(k) ==
  /\ Routed(k)
  /\ Queue!Publish(k)
  /\ UNCHANGED <<told, clocks, unheard>>

\* A reply arrives or is lost.
Receive(r) ==
  /\ OnRpcReply(r) \/ LoseReply(r)
  /\ UNCHANGED <<queueVars, told, clocks, unheard>>

-----------------------------------------------------------------------------
\* The listener.

\* Operators named Bad... are faulty variants of the definition below them.
\* Nothing refers to them: each is put in the place of that definition to
\* see that the properties notice the mistake.

\* A delivery, the effect of a handler, and the way of a request to the DLQ.
Handle(c, k) ==
  /\ \/ Queue!Deliver(c, k) \/ Queue!Process(c, k)
     \/ Queue!MoveToDlq(c, k) \/ Queue!MoveToDlqFails(c, k)
  /\ UNCHANGED <<vars, told, clocks, unheard>>

BadTell(c, k) ==          \* the listener replies before it runs the handler
  /\ phase[c][k] \in {"running", "processed"}
  /\ <<c, k>> \notin told
  /\ Answer(k)
  /\ told' = told \union {<<c, k>>}
  /\ UNCHANGED <<queueVars, clocks, unheard>>

\* _reply, after the effect and before process_message returns.  A channel
\* that is gone does not stop it: publish_rpc_response connects again.
Tell(c, k) ==
  /\ phase[c][k] = "processed"
  /\ <<c, k>> \notin told
  /\ Answer(k)
  /\ told' = told \union {<<c, k>>}
  /\ UNCHANGED <<queueVars, clocks, unheard>>

\* process_message raises.  When it is the publish of the reply that raises,
\* the broker may have taken the reply even so.
Fail(c, k) ==
  /\ Queue!ProcessFails(c, k)
  /\ UNCHANGED vars \/ (k \in applied' /\ Answer(k))
  /\ UNCHANGED <<told, clocks, unheard>>

\* process_message returned, or the request went to the DLQ: the ack.
Finish(c, k) ==
  /\ phase[c][k] = "processed" => <<c, k>> \in told
  /\ Queue!Ack(c, k)
  /\ told' = told \ {<<c, k>>}
  /\ UNCHANGED <<vars, clocks, unheard>>

\* The nack: the request enters the retry queue, unless the channel is gone.
Reject(c, k) ==
  /\ Queue!Nack(c, k)
  /\ ttl' = IF c \in open THEN [ttl EXCEPT ![k] = Patience] ELSE ttl
  /\ unheard' = IF c \in open /\ pc[k] = "waiting"
                THEN unheard \union {k} ELSE unheard
  /\ UNCHANGED <<vars, told, timer>>

Crash(c) ==
  /\ Queue!CrashReplica(c)
  /\ told' = {h \in told : h[1] # c}
  /\ UNCHANGED <<vars, clocks, unheard>>

Disconnect(c) ==
  /\ Queue!LoseConnection(c)
  /\ UNCHANGED <<vars, told, clocks, unheard>>

BadComeBack(k) ==         \* the retry queue has no delay
  /\ Queue!RetryExpires(k)
  /\ UNCHANGED <<vars, told, clocks, unheard>>

BadNoReturn(k) ==         \* the retry queue is declared without a TTL
  /\ Queue!RetryExpires(k)
  /\ ttl[k] > Patience
  /\ UNCHANGED <<vars, told, clocks, unheard>>

\* The TTL of the retry queue is over.  It may be noticed late, never early.
ComeBack(k) ==
  /\ Queue!RetryExpires(k)
  /\ ttl[k] = 0
  /\ UNCHANGED <<vars, told, clocks, unheard>>

-----------------------------------------------------------------------------
Less(clock) == [k \in Calls |-> IF clock[k] > 0 THEN clock[k] - 1 ELSE 0]

\* Time passes.  The event loop is not late: a timer that is due fires before
\* the next tick.
Tick ==
  /\ \E k \in Calls : timer[k] > 0 \/ ttl[k] > 0
  /\ \A k \in Calls : pc[k] = "waiting" => timer[k] > 0
  /\ timer' = Less(timer)
  /\ ttl' = Less(ttl)
  /\ UNCHANGED <<vars, queueVars, told, unheard>>

Work(c, k) == Handle(c, k) \/ Tell(c, k) \/ Fail(c, k) \/ Finish(c, k) \/ Reject(c, k)

Call(k) == CallLocal(k) \/ Confirm(k) \/ GiveUp(k)

SysNext ==
  \/ \E k \in Calls : Call(k) \/ Route(k) \/ ComeBack(k)
  \/ \E r \in replies : Receive(r)
  \/ \E c \in Channels, k \in Calls : Work(c, k)
  \/ \E c \in Channels : Crash(c) \/ Disconnect(c)
  \/ Tick

SysSpec == SysInit /\ [][SysNext]_sysVars

\* Fairness as in the components, and time goes on.  Of a call only what
\* follows the confirm of its publish is fair.
SysFairness ==
  /\ \A k \in Calls : /\ WF_sysVars((Await(k) /\ CallLocal(k)) \/ GiveUp(k))
                      /\ WF_sysVars(ComeBack(k))
                      /\ SF_sysVars(\E c \in Channels :
                                      Queue!Deliver(c, k) /\ Handle(c, k))
  /\ \A c \in Channels, k \in Calls :
       /\ WF_sysVars(phase[c][k] # "idle" /\ Work(c, k))
       /\ SF_sysVars(Queue!MoveToDlq(c, k) /\ Handle(c, k))
  /\ WF_sysVars(Tick)

SysFairSpec == SysSpec /\ SysFairness

-----------------------------------------------------------------------------
\* The composition is faithful to its parts: what is shown of RpcCaller and
\* of RpcListener alone holds of the system.
CallerPart == Spec
QueuePart  == Queue!Spec

\* From end to end the bus and the listeners implement RemoteCall: a call
\* succeeds only after its own request was executed, and a call that gives up
\* leaves a request that is executed or dead-lettered all the same.
Remote == INSTANCE RemoteCall WITH
            asked    <- {k \in Calls : loc[k] # "unsent"},
            executed <- applied,
            buried   <- {k \in Calls : dlq[k] > 0},
            settled  <- {k \in Calls : loc[k] = "acked"},
            ended    <- {k \in Calls : pc[k] \in {"returned", "raised"}}

ImplementsRemoteCall == Remote!Spec

\* A retry is never in time (rabbitmq_topology.py:41 against
\* rabbitmq_message_bus.py:275): when a request comes back from the retry
\* queue, the call that waited for it while it was rejected has ended, so the
\* answers of the later attempts are for nobody.
RetriesAreLate ==
  \A k \in unheard : loc[k] # "retry" => pc[k] # "waiting"

\* A caller is answered at most once for each attempt the retry loop grants
\* and once more for each channel that was lost with its request: a reply that
\* raises after the broker took it (auth_refresh_token_rpc.py:57) does not
\* lead to more than the attempt that follows.
AnswersAreBounded == \A k \in Calls : answers[k] <= MaxRetries + requeues[k]

\* Every request the broker took is settled, whether its caller waited,
\* timed out or failed to publish.
RequestsSettle == \A k \in Calls : loc[k] = "ready" ~> loc[k] = "acked"

\* Why a retry is late: what is left of the delay is more than what is left
\* of the patience of the call.
DelayCoversTimeout ==
  \A k \in unheard :
    /\ pc[k] \in {"waiting", "expired", "returned"}
    /\ loc[k] = "retry" /\ pc[k] = "waiting" => timer[k] < ttl[k]

\* A call is answered after its request was executed.
AnswersAreEarned ==
  /\ \A h \in told : phase[h[1]][h[2]] = "processed"
  /\ \A k \in Calls : answers[k] > 0 => k \in applied
  /\ \A k \in Calls : k \in queued <=> loc[k] # "unsent"

\* Handlers that may still answer, each for an attempt of its own.
Speakers(k) == {c \in Channels :
                  \/ phase[c][k] = "running"
                  \/ phase[c][k] = "processed" /\ <<c, k>> \notin told}

AnswerLedger == \A k \in Calls : answers[k] + Cardinality(Speakers(k)) <= tries[k]

SysIInv ==
  /\ SysTypeOK /\ IInv /\ Queue!IInv
  /\ RetriesAreLate /\ DelayCoversTimeout /\ AnswersAreEarned

=============================================================================
