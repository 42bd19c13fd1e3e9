---------------------------- MODULE RpcListener ----------------------------
(***************************************************************************)
(* One RPC queue of auth_svc: the main queue, its retry queue and its DLQ  *)
(* (libs/messaging/rabbitmq_topology.py) and the consumers that run        *)
(* BaseMicroserviceListener._on_message (libs/messaging/base_listener.py). *)
(*                                                                         *)
(* A channel is one consumer of the queue over one connection: a replica   *)
(* of the service, or the same replica after it reconnected.  A channel    *)
(* that closes never opens again, so the number of channels bounds the     *)
(* number of crashes and lost connections.  phase[c][m] is the program     *)
(* point of the coroutine that handles m for c; when the connection of c   *)
(* is lost the coroutine lives on and only its ack or nack fails.          *)
(***************************************************************************)
EXTENDS Integers, FiniteSets

CONSTANTS
  Msgs,         \* messages producers may publish
  Channels,     \* consumer channels, over all replicas and reconnections
  Prefetch,     \* unacknowledged messages a channel may hold
  MaxRetries,   \* RPC_MAX_RETRIES
  Malformed,    \* messages whose body is not JSON
  Invalid,      \* JSON messages whose processing raises ValidationError
  MaxDoubts     \* bound on the publishes of one message to the DLX that raise
                \* although the broker took the copy

ASSUME PrefetchAssumption == Prefetch \in Nat \ {0}
ASSUME RetriesAssumption  == MaxRetries \in Nat
ASSUME DoubtsAssumption   == MaxDoubts \in Nat
ASSUME BodiesAssumption   ==
  /\ Malformed \subseteq Msgs
  /\ Invalid \subseteq Msgs
  /\ Malformed \intersect Invalid = {}

VARIABLES
  loc,        \* where the broker keeps each message
  deaths,     \* x-death count of the head entry: completed retry loops
  phase,      \* program point of the handler of m on channel c
  open,       \* channels whose connection is up
  dlq,        \* copies of each message in the dead-letter queue
  doubts,     \* copies the broker took although the publish raised (history)
  applied,    \* messages whose business effect happened (history)
  tries,      \* times process_message was called (history)
  requeues    \* times a lost channel gave the message back (history)

vars    == <<loc, deaths, phase, open, dlq, doubts, applied, tries, requeues>>
broker  == <<loc, deaths, requeues>>
history == <<applied, tries>>

Locations == {"unsent", "ready", "unacked", "retry", "acked"}

\* "idle": no handler.  "running": inside process_message.  "exhausted" and
\* "invalid": about to call _move_to_dlq from the try body and from the
\* ValidationError branch.  "processed" and "forwarded": about to ack.
\* "rejecting": about to nack.  "stuck": an exception left _on_message.
Phases == {"idle", "running", "exhausted", "invalid", "processed",
           "forwarded", "rejecting", "stuck"}

TypeOK ==
  /\ loc      \in [Msgs -> Locations]
  /\ deaths   \in [Msgs -> 0..MaxRetries]
  /\ phase    \in [Channels -> [Msgs -> Phases]]
  /\ open     \in SUBSET Channels
  /\ dlq      \in [Msgs -> Nat]
  /\ doubts   \in [Msgs -> Nat]
  /\ applied  \in SUBSET Msgs
  /\ tries    \in [Msgs -> Nat]
  /\ requeues \in [Msgs -> Nat]

Held(c, m)   == c \in open /\ phase[c][m] # "idle"
InFlight(c)  == {m \in Msgs : phase[c][m] # "idle"}
HasCredit(c) == Cardinality(InFlight(c)) < Prefetch

Step(c, m, from, to) ==
  /\ phase[c][m] \in from
  /\ phase' = [phase EXCEPT ![c][m] = to]

Init ==
  /\ loc      = [m \in Msgs |-> "unsent"]
  /\ deaths   = [m \in Msgs |-> 0]
  /\ phase    = [c \in Channels |-> [m \in Msgs |-> "idle"]]
  /\ open     = Channels
  /\ dlq      = [m \in Msgs |-> 0]
  /\ doubts   = [m \in Msgs |-> 0]
  /\ applied  = {}
  /\ tries    = [m \in Msgs |-> 0]
  /\ requeues = [m \in Msgs |-> 0]

-----------------------------------------------------------------------------
\* The broker.

\* Operators named Bad... are faulty variants of the definition below them.
\* Nothing refers to them: each is put in the place of that definition to
\* see that the properties notice the mistake.

\* A producer publishes to the RPC exchange; the binding routes to the queue.
Publish(m) ==
  /\ loc[m] = "unsent"
  /\ loc' = [loc EXCEPT ![m] = "ready"]
  /\ UNCHANGED <<deaths, phase, open, dlq, doubts, applied, tries, requeues>>

\* The TTL of the retry queue expires: the message returns to the main queue
\* and the head of its x-death header counts one more loop.  The code only
\* compares the count with MaxRetries, so the model stops counting there.
RetryExpires(m) ==
  /\ loc[m] = "retry"
  /\ loc' = [loc EXCEPT ![m] = "ready"]
  /\ deaths' = [deaths EXCEPT ![m] = IF @ < MaxRetries THEN @ + 1 ELSE @]
  /\ UNCHANGED <<phase, open, dlq, doubts, applied, tries, requeues>>

\* The broker puts back what a closed channel had not acknowledged.
GiveBack(c) ==
  /\ open' = open \ {c}
  /\ loc' = [m \in Msgs |-> IF Held(c, m) THEN "ready" ELSE loc[m]]
  /\ requeues' = [m \in Msgs |-> IF Held(c, m) THEN requeues[m] + 1
                                               ELSE requeues[m]]

\* Bound on outages: the last channel stays open.
OutageAllowed(c) == c \in open /\ open # {c}

\* The process of c dies, and its handlers with it.
CrashReplica(c) ==
  /\ OutageAllowed(c)
  /\ GiveBack(c)
  /\ phase' = [phase EXCEPT ![c] = [m \in Msgs |-> "idle"]]
  /\ UNCHANGED <<deaths, dlq, doubts, applied, tries>>

\* The connection of c drops, at shutdown or by failure; its handlers go on.
LoseConnection(c) ==
  /\ OutageAllowed(c)
  /\ GiveBack(c)
  /\ UNCHANGED <<deaths, phase, dlq, doubts, applied, tries>>

-----------------------------------------------------------------------------
\* BaseMicroserviceListener._on_message.

BadRouteLate(m) ==        \* retry_count > RPC_MAX_RETRIES
  IF deaths[m] > MaxRetries THEN "exhausted"
  ELSE IF m \in Malformed THEN "rejecting" ELSE "running"

BadRouteEarly(m) ==       \* retry_count + 1 >= RPC_MAX_RETRIES
  IF deaths[m] + 1 >= MaxRetries THEN "exhausted"
  ELSE IF m \in Malformed THEN "rejecting" ELSE "running"

\* A delivery and the handler up to its first await: the retry limit is
\* checked before the body is parsed, and a body that is not JSON raises.
Route(m) ==
  IF deaths[m] >= MaxRetries THEN "exhausted"
  ELSE IF m \in Malformed THEN "rejecting" ELSE "running"

Deliver(c, m) ==
  /\ loc[m] = "ready"
  /\ c \in open
  /\ HasCredit(c)
  /\ loc' = [loc EXCEPT ![m] = "unacked"]
  /\ Step(c, m, {"idle"}, Route(m))
  /\ tries' = [tries EXCEPT ![m] = IF Route(m) = "running" THEN @ + 1 ELSE @]
  /\ UNCHANGED <<deaths, open, dlq, doubts, applied, requeues>>

\* process_message returns.
Process(c, m) ==
  /\ m \notin Invalid
  /\ Step(c, m, {"running"}, "processed")
  /\ applied' = applied \union {m}
  /\ UNCHANGED <<broker, open, dlq, doubts, tries>>

\* process_message raises, before its effect or (a reply that could not be
\* published after the commit) after it.
ProcessFails(c, m) ==
  /\ Step(c, m, {"running"}, "rejecting")
  /\ \/ UNCHANGED applied
     \/ m \notin Invalid /\ applied' = applied \union {m}
  /\ UNCHANGED <<broker, open, dlq, doubts, tries>>

\* The payload does not validate: the branch of ValidationError is entered.
FailValidation(c, m) ==
  /\ m \in Invalid
  /\ Step(c, m, {"running"}, "invalid")
  /\ UNCHANGED <<broker, open, dlq, doubts, history>>

\* _move_to_dlq parses the body again and publishes it to the DLX.
MoveToDlq(c, m) ==
  /\ m \notin Malformed
  /\ Step(c, m, {"exhausted", "invalid"}, "forwarded")
  /\ dlq' = [dlq EXCEPT ![m] = @ + 1]
  /\ UNCHANGED <<broker, open, doubts, history>>

BadMoveToDlqFails(c, m) ==     \* the failure is logged and the message acked
  /\ Step(c, m, {"exhausted", "invalid"}, "forwarded")
  /\ UNCHANGED <<broker, open, dlq, doubts, history>>

BadMoveToDlqEscapes(c, m) ==   \* the limit is checked outside the try block
  /\ Step(c, m, {"exhausted", "invalid"}, "stuck")
  /\ UNCHANGED <<broker, open, dlq, doubts, history>>

\* _move_to_dlq raises: the body is not JSON, the broker refuses the publish,
\* or only its confirm is lost and the copy is in the DLQ all the same.  In
\* the try body `except Exception` catches it; in the branch of
\* ValidationError nothing does and the message stays unacknowledged.
MoveToDlqFails(c, m) ==
  /\ \/ Step(c, m, {"exhausted"}, "rejecting")
     \/ Step(c, m, {"invalid"}, "stuck")
  /\ \/ UNCHANGED <<dlq, doubts>>
     \/ /\ m \notin Malformed
        /\ doubts[m] < MaxDoubts
        /\ dlq'    = [dlq EXCEPT ![m] = @ + 1]
        /\ doubts' = [doubts EXCEPT ![m] = @ + 1]
  /\ UNCHANGED <<broker, open, history>>

BadAck(c, m) ==           \* the branches of the limit and of errors nack
  /\ Step(c, m, {"processed", "forwarded"}, "idle")
  /\ loc' = IF c \in open THEN [loc EXCEPT ![m] = "retry"] ELSE loc
  /\ UNCHANGED <<deaths, open, dlq, doubts, applied, tries, requeues>>

BadNack(c, m) ==          \* requeue=True, and the handler tries once more
  /\ Step(c, m, {"rejecting"}, "running")
  /\ loc' = IF c \in open THEN [loc EXCEPT ![m] = "ready"] ELSE loc
  /\ UNCHANGED <<deaths, open, dlq, doubts, applied, tries, requeues>>

BadAckForgets(c, m) ==    \* the branch of ValidationError never acks
  /\ Step(c, m, {"processed", "forwarded"}, "idle")
  /\ m \notin Invalid
  /\ loc' = IF c \in open THEN [loc EXCEPT ![m] = "acked"] ELSE loc
  /\ UNCHANGED <<deaths, open, dlq, doubts, applied, tries, requeues>>

\* ack and nack(requeue=False): on a closed channel they raise and the
\* handler ends without the broker hearing of it.
Ack(c, m) ==
  /\ Step(c, m, {"processed", "forwarded"}, "idle")
  /\ loc' = IF c \in open THEN [loc EXCEPT ![m] = "acked"] ELSE loc
  /\ UNCHANGED <<deaths, open, dlq, doubts, applied, tries, requeues>>

Nack(c, m) ==
  /\ Step(c, m, {"rejecting"}, "idle")
  /\ loc' = IF c \in open THEN [loc EXCEPT ![m] = "retry"] ELSE loc
  /\ UNCHANGED <<deaths, open, dlq, doubts, applied, tries, requeues>>

Handle(c, m) ==
  \/ Process(c, m)   \/ ProcessFails(c, m) \/ FailValidation(c, m)
  \/ MoveToDlq(c, m) \/ MoveToDlqFails(c, m)
  \/ Ack(c, m)       \/ Nack(c, m)

Next ==
  \/ \E m \in Msgs : Publish(m) \/ RetryExpires(m)
  \/ \E c \in Channels : CrashReplica(c) \/ LoseConnection(c)
  \/ \E c \in Channels, m \in Msgs : Deliver(c, m) \/ Handle(c, m)

Spec == Init /\ [][Next]_vars

-----------------------------------------------------------------------------
\* Fairness.  The event loop resumes every handler whose await has ended; the
\* code gives these awaits no timeout, so that the database and the broker do
\* answer or fail is assumed.  The retry TTL always expires, the queue is
\* first-in first-out so a waiting message is not passed over for ever, and a
\* broker asked again and again does not refuse every publish to the DLX.

Fairness ==
  /\ \A m \in Msgs : /\ WF_vars(RetryExpires(m))
                     /\ SF_vars(\E c \in Channels : Deliver(c, m))
  /\ \A c \in Channels, m \in Msgs : /\ WF_vars(Handle(c, m))
                                     /\ SF_vars(MoveToDlq(c, m))

FairSpec == Spec /\ Fairness

-----------------------------------------------------------------------------
\* Safety.

\* The broker counts a message as unacknowledged exactly when one open
\* channel has a handler for it: two live channels never work on the same
\* delivery, and no message is held by nobody (_on_message acks or nacks the
\* delivery it was called with, and a closed channel gives its deliveries back).
ExclusiveDelivery ==
  \A m \in Msgs :
    /\ loc[m] = "unacked" => \E c \in Channels : Held(c, m)
    /\ \A c \in Channels : Held(c, m) =>
         /\ loc[m] = "unacked"
         /\ \A d \in Channels : Held(d, m) => c = d

\* A message leaves the broker for good only after its effect happened or a
\* copy reached the DLQ, whatever crashes and failed publishes come between
\* (base_listener.py acks only after process_message or _move_to_dlq).
NoSilentLoss ==
  \A m \in Msgs : loc[m] = "acked" => m \in applied \/ dlq[m] > 0

\* process_message runs at most MaxRetries times for one message, plus once
\* for each channel that was lost while it held the message: neither the
\* retry loop nor a DLQ that refuses can make it run again.
BoundedAttempts ==
  \A m \in Msgs : tries[m] <= MaxRetries + requeues[m]

\* A message that could be processed reaches the DLQ only after the handler
\* really failed on it MaxRetries times; a lost channel costs no attempt.
DeadLetterJustified ==
  \A m \in Msgs : dlq[m] > 0 => m \in Invalid \/ tries[m] >= MaxRetries

\* The DLQ holds a second copy of a message only for a reason: a channel was
\* lost between the publish to the DLX and the ack, or the publish raised
\* although the broker had the copy (base_listener.py:97).  The retry loop,
\* however often it meets its limit again, makes none.
DeadLetterOnce ==
  \A m \in Msgs : dlq[m] <= 1 + requeues[m] + doubts[m]

-----------------------------------------------------------------------------
\* Why these hold: what the location and the phase of a message say of its
\* history.  This is the invariant the proofs use.

\* A phase records what the handler has established.  "exhausted" was chosen
\* with the header at its limit, and the limit is never left again.
PhaseMeaning ==
  \A c \in Channels, m \in Msgs :
    /\ phase[c][m] = "processed" => m \in applied
    /\ phase[c][m] = "forwarded" => dlq[m] > 0
    /\ phase[c][m] = "exhausted" => deaths[m] = MaxRetries
    /\ phase[c][m] = "invalid"   => m \in Invalid
    /\ phase[c][m] # "idle"      => loc[m] # "unsent"

\* A message that is being handled, or rests in the retry queue, has had the
\* attempt of its current loop; a message that waits in the main queue has not.
Attempted(m) == IF loc[m] \in {"unacked", "retry", "acked"} /\ deaths[m] < MaxRetries
                THEN 1 ELSE 0

AttemptLedger ==
  \A m \in Msgs :
    /\ tries[m] <= deaths[m] + requeues[m] + Attempted(m)
    /\ m \notin Malformed => tries[m] >= deaths[m]
    /\ m \notin Malformed /\ loc[m] \in {"unacked", "retry"}
         => tries[m] >= deaths[m] + Attempted(m)
    /\ loc[m] = "unsent" => m \notin applied /\ dlq[m] = 0
    /\ m \in Malformed => dlq[m] = 0

\* Handlers that outlived their channel and may still publish to the DLX.
Stragglers(m) ==
  {c \in Channels \ open : phase[c][m] \in {"running", "exhausted", "invalid"}}

\* Each copy in the DLQ, and each copy still to be feared, belongs to a lost
\* channel or to a publish that raised, except the one of the message that is
\* acknowledged or about to be.
BurialLedger ==
  \A m \in Msgs :
    dlq[m] + Cardinality(Stragglers(m)) <=
      requeues[m] + doubts[m] +
        (IF loc[m] = "acked" \/ \E c \in open : phase[c][m] = "forwarded" THEN 1 ELSE 0)

\* What becomes of a message that is not JSON: it goes round from queue to
\* queue for ever, never processed, never dead-lettered and never forgotten.
MalformedCirculates ==
  \A m \in Malformed :
    /\ tries[m] = 0 /\ m \notin applied /\ dlq[m] = 0 /\ loc[m] # "acked"
    /\ \A c \in Channels : phase[c][m] \in {"idle", "exhausted", "rejecting"}

IInv == /\ TypeOK /\ ExclusiveDelivery /\ NoSilentLoss /\ DeadLetterJustified
        /\ PhaseMeaning /\ AttemptLedger

-----------------------------------------------------------------------------
\* Liveness and the abstract specification.

\* Every slot of every live channel is held by an invalid message whose
\* publish to the DLX raised: nothing acks or nacks it while its channel lives.
Stuck(c) == {m \in Invalid : phase[c][m] = "stuck"}
Clogged  == \A c \in open : Cardinality(Stuck(c)) >= Prefetch

\* Every JSON message that validates is settled: outages, transient errors,
\* refused publishes and the slots that other messages hold only delay it
\* (base_listener.py's retry loop ends).  The one exception is a queue whose
\* live channels stay clogged, which base_listener.py:140 permits.
HealthySettles ==
  []<>~Clogged =>
    \A m \in Msgs \ (Malformed \union Invalid) :
      loc[m] = "ready" ~> loc[m] = "acked"

\* docs/MESSAGING.md:30: a message that exceeded RPC_MAX_RETRIES attempts is
\* sent to the DLQ, stated for the messages the handler always rejects.
MalformedDeadLettered ==
  \A m \in Malformed : loc[m] = "ready" ~> dlq[m] > 0

\* The queue and its consumers implement the promise of AtLeastOnce.
Promise == INSTANCE AtLeastOnce WITH
             sent    <- {m \in Msgs : loc[m] # "unsent"},
             dead    <- {m \in Msgs : dlq[m] > 0},
             settled <- {m \in Msgs : loc[m] = "acked"}

AtLeastOnceDelivery == Promise!Spec

=============================================================================
