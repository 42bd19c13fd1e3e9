----------------------------- MODULE RpcCaller -----------------------------
(***************************************************************************)
(* The calling side of an RPC: RabbitMQMessageBus.call_rpc and its reply   *)
(* callback _on_rpc_reply (libs/messaging/rabbitmq_message_bus.py), as     *)
(* the coroutines of one gateway process interleave on the event loop.     *)
(*                                                                         *)
(* A call is one execution of call_rpc.  Its correlation id is the header  *)
(* x-request-id of the HTTP request or a fresh uuid4, so IdOf need not be  *)
(* injective: two requests may carry the same header.                      *)
(***************************************************************************)
EXTENDS Integers, FiniteSets

CONSTANTS
  Calls,       \* executions of call_rpc
  Ids,         \* correlation ids
  IdOf,        \* the correlation id of each call
  MaxAnswers,  \* bound: answers servers give to one request
  NoCall       \* no call, no answer

ASSUME IdsAssumption    == IdOf \in [Calls -> Ids]
ASSUME NoCallAssumption == NoCall \notin Calls
ASSUME BoundAssumption  == MaxAnswers \in Nat \ {0}

VARIABLES
  pc,        \* program point of each call
  futures,   \* _rpc_futures: the call whose future is stored under an id
  box,       \* the call whose answer is in the future of a call, or NoCall
  queued,    \* requests the broker routed to a queue
  answers,   \* answers servers have published to each request
  replies,   \* replies on their way, <<call, number>>
  result     \* what a finished call returned: the call answered, or NoCall

vars == <<pc, futures, box, queued, answers, replies, result>>

Points == {"new", "registered", "waiting", "expired", "returned", "raised"}
Active == {"registered", "waiting", "expired"}
OrNone == Calls \union {NoCall}

TypeOK ==
  /\ pc      \in [Calls -> Points]
  /\ futures \in [Ids -> OrNone]
  /\ box     \in [Calls -> OrNone]
  /\ queued  \in SUBSET Calls
  /\ answers \in [Calls -> 0..MaxAnswers]
  /\ replies \in SUBSET (Calls \X (1..MaxAnswers))
  /\ result  \in [Calls -> OrNone]

Init ==
  /\ pc      = [k \in Calls |-> "new"]
  /\ futures = [i \in Ids |-> NoCall]
  /\ box     = [k \in Calls |-> NoCall]
  /\ queued  = {}
  /\ answers = [k \in Calls |-> 0]
  /\ replies = {}
  /\ result  = [k \in Calls |-> NoCall]

Goto(k, from, to) ==
  /\ pc[k] = from
  /\ pc' = [pc EXCEPT ![k] = to]

-----------------------------------------------------------------------------
\* call_rpc.

\* Operators named Bad... are faulty variants of the definition below them.
\* Nothing refers to them: each is put in the place of that definition to
\* see that the properties notice the mistake.

\* _ensure had a channel: the future is stored under the id, over any other.
Register(k) ==
  /\ Goto(k, "new", "registered")
  /\ futures' = [futures EXCEPT ![IdOf[k]] = k]
  /\ UNCHANGED <<box, queued, answers, replies, result>>

\* _ensure could not reconnect: its exception leaves call_rpc.
EnsureFails(k) ==
  /\ Goto(k, "new", "raised")
  /\ UNCHANGED <<futures, box, queued, answers, replies, result>>

\* The publish is confirmed and wait_for starts.  A message no queue is bound
\* for is confirmed as well: the call then waits for the timeout.
Published(k) ==
  /\ Goto(k, "registered", "waiting")
  /\ UNCHANGED <<futures, box, queued, answers, replies, result>>

\* `finally`: the entry under the id is removed, whosever future it holds.
Return(k, from, value) ==
  /\ Goto(k, from, "returned")
  /\ futures' = [futures EXCEPT ![IdOf[k]] = NoCall]
  /\ result' = [result EXCEPT ![k] = value]

\* The publish raises; the broker may have taken the message even so.
PublishFails(k) ==
  /\ Return(k, "registered", NoCall)
  /\ UNCHANGED <<box, queued, answers, replies>>

\* The future has a result and the coroutine is resumed with it.
Resume(k) ==
  /\ box[k] # NoCall
  /\ Return(k, "waiting", box[k])
  /\ UNCHANGED <<box, queued, answers, replies>>

BadTimeout(k) ==          \* wait_for without a timeout
  /\ Goto(k, "waiting", "expired")
  /\ box[k] # NoCall
  /\ UNCHANGED <<futures, box, queued, answers, replies, result>>

\* RPC_TIMEOUT_MS is over: wait_for cancels the future.  It can still strike
\* between set_result and the resumption, and then the answer is dropped.
Timeout(k) ==
  /\ Goto(k, "waiting", "expired")
  /\ UNCHANGED <<futures, box, queued, answers, replies, result>>

BadExpire(k) ==           \* no `finally`: a timeout leaves the entry behind
  /\ Goto(k, "expired", "returned")
  /\ UNCHANGED <<futures, box, queued, answers, replies, result>>

\* The coroutine is resumed with the timeout and returns None.
Expire(k) ==
  /\ Return(k, "expired", NoCall)
  /\ UNCHANGED <<box, queued, answers, replies>>

-----------------------------------------------------------------------------
\* The broker, the servers, and _on_rpc_reply.

\* The broker routes the request to its queue, while the caller still waits
\* for the confirm: a server may answer before that arrives.
Routed(k) ==
  /\ pc[k] = "registered"
  /\ queued' = queued \union {k}
  /\ UNCHANGED <<pc, futures, box, answers, replies, result>>

\* A listener of auth_svc publishes an answer to the request; a redelivered
\* request is answered again.
Answer(k) ==
  /\ k \in queued
  /\ answers[k] < MaxAnswers
  /\ answers' = [answers EXCEPT ![k] = @ + 1]
  /\ replies' = replies \union {<<k, answers'[k]>>}
  /\ UNCHANGED <<pc, futures, box, queued, result>>

\* A reply is not persistent: it is gone if the channel of the caller is.
LoseReply(r) ==
  /\ r \in replies
  /\ replies' = replies \ {r}
  /\ UNCHANGED <<pc, futures, box, queued, answers, result>>

\* The future stored under the id of a reply, if it can take a result.
Pending(k) == k # NoCall /\ pc[k] \in {"registered", "waiting"} /\ box[k] = NoCall

BadEarlyReply(r) ==       \* a reply before the publish is confirmed is dropped
  LET owner == futures[IdOf[r[1]]] IN
  /\ r \in replies
  /\ replies' = replies \ {r}
  /\ box' = IF Pending(owner) /\ pc[owner] = "waiting"
             THEN [box EXCEPT ![owner] = r[1]] ELSE box
  /\ UNCHANGED <<pc, futures, queued, answers, result>>

OnRpcReply(r) ==
  LET owner == futures[IdOf[r[1]]] IN
  /\ r \in replies
  /\ replies' = replies \ {r}
  /\ box' = IF Pending(owner) THEN [box EXCEPT ![owner] = r[1]] ELSE box
  /\ UNCHANGED <<pc, futures, queued, answers, result>>

-----------------------------------------------------------------------------
CallStep(k) ==
  \/ Register(k) \/ EnsureFails(k) \/ Published(k) \/ PublishFails(k)
  \/ Resume(k)   \/ Timeout(k)     \/ Expire(k)

Next ==
  \/ \E k \in Calls : CallStep(k) \/ Routed(k) \/ Answer(k)
  \/ \E r \in replies : LoseReply(r) \/ OnRpcReply(r)

Spec == Init /\ [][Next]_vars

\* Steps of a call whose publish is confirmed.
Await(k) == Resume(k) \/ Timeout(k) \/ Expire(k)

\* The event loop resumes a coroutine whose future is done, and the timer of
\* wait_for fires.  Before that nothing is fair: reconnecting, get_exchange
\* and the confirm of the publish are awaited without a timeout, so a call
\* hangs for as long as the broker keeps it waiting there.
Fairness == \A k \in Calls : WF_vars(Await(k))

FairSpec == Spec /\ Fairness

-----------------------------------------------------------------------------
\* No two calls of the process share a correlation id.
UniqueIds == \A j, k \in Calls : IdOf[j] = IdOf[k] => j = k

\* No other call of the process has the id of this one.
Unshared(k) == \A j \in Calls : IdOf[j] = IdOf[k] => j = k

\* A call that returns an answer returns the answer to its own request, with
\* late and repeated replies to other requests around (the docstring of
\* i_message_bus.py:90: send a payload and wait for the answer).
OwnAnswer ==
  \A k \in Calls : result[k] # NoCall => result[k] = k

\* The table holds futures of running calls only, under their own id: no
\* return, timeout or failed publish leaves an entry behind to leak or to
\* catch a late reply.
NoStaleFuture ==
  \A i \in Ids : futures[i] # NoCall =>
    pc[futures[i]] \in Active /\ IdOf[futures[i]] = i

\* A running call is in the table, so its reply can find it.
CallIsReachable ==
  \A k \in Calls : pc[k] \in Active => futures[IdOf[k]] = k

\* A reply that arrives while its call still waits is given to that call.
ReplyReachesCaller ==
  [][\A r \in replies :
       OnRpcReply(r) /\ Pending(r[1]) => box'[r[1]] = r[1]]_vars

\* What the answer of a call can be: the call's own, and one a server gave.
AnswerOrigin ==
  \A k \in Calls :
    /\ box[k] # NoCall => box[k] = k /\ answers[k] > 0
    /\ pc[k] # "returned" => result[k] = NoCall

\* Replies and answers belong to requests that were sent.
ReplyOrigin ==
  /\ \A r \in replies : r[2] <= answers[r[1]]
  /\ \A k \in Calls : answers[k] > 0 => k \in queued

\* Whatever ids repeat: a call holds and returns only what a server answered
\* to a request with its own correlation id.
AnswersMatchIds ==
  \A k \in Calls : \A a \in {box[k], result[k]} :
    a # NoCall => IdOf[a] = IdOf[k] /\ answers[a] > 0

IInv == /\ TypeOK /\ OwnAnswer /\ NoStaleFuture /\ CallIsReachable
        /\ AnswerOrigin /\ ReplyOrigin

\* Once the broker has confirmed the request, call_rpc returns, whether the
\* request or its reply is lost, late, or never made (the wait_for of
\* rabbitmq_message_bus.py:275).
EveryCallEnds == \A k \in Calls : pc[k] = "waiting" ~> pc[k] = "returned"

\* With distinct ids the bus implements RequestReply.
Promise == INSTANCE RequestReply WITH
             asked    <- queued,
             answered <- {k \in Calls : answers[k] > 0},
             ended    <- {k \in Calls : pc[k] \in {"returned", "raised"}}

ImplementsRequestReply == Promise!Spec

=============================================================================
