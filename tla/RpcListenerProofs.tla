------------------------- MODULE RpcListenerProofs -------------------------
(***************************************************************************)
(* Proofs about RpcListener, for every set of messages and of channels,    *)
(* every prefetch and every RPC_MAX_RETRIES.                               *)
(***************************************************************************)
EXTENDS RpcListener, FiniteSetTheorems, TLAPS

USE RetriesAssumption, BodiesAssumption, DoubtsAssumption
    DEF Locations, Phases

\* What the program point of a delivery can be when the handler first yields.
LEMMA RouteCases ==
  ASSUME TypeOK, NEW m \in Msgs
  PROVE  \/ Route(m) = "exhausted" /\ deaths[m] = MaxRetries
         \/ Route(m) = "rejecting" /\ deaths[m] < MaxRetries /\ m \in Malformed
         \/ Route(m) = "running"   /\ deaths[m] < MaxRetries /\ m \notin Malformed
<1>1. deaths[m] \in 0..MaxRetries /\ MaxRetries \in Nat
  BY DEF TypeOK
<1>2. deaths[m] = MaxRetries \/ (deaths[m] < MaxRetries /\ ~(deaths[m] >= MaxRetries))
  BY <1>1
<1>3. CASE deaths[m] = MaxRetries
  BY <1>1, <1>3 DEF Route
<1>4. CASE deaths[m] < MaxRetries /\ ~(deaths[m] >= MaxRetries)
  BY <1>4 DEF Route
<1>5. QED
  BY <1>2, <1>3, <1>4

-----------------------------------------------------------------------------
\* Type correctness.

LEMMA TypeInit == Init => TypeOK
  BY DEF Init, TypeOK

LEMMA TypeNext == TypeOK /\ [Next]_vars => TypeOK'
<1> SUFFICES ASSUME TypeOK, [Next]_vars PROVE TypeOK'
  OBVIOUS
<1>1. ASSUME NEW m \in Msgs, Publish(m) PROVE TypeOK'
  BY <1>1 DEF TypeOK, Publish
<1>2. ASSUME NEW m \in Msgs, RetryExpires(m) PROVE TypeOK'
  BY <1>2 DEF TypeOK, RetryExpires
<1>3. ASSUME NEW c \in Channels, CrashReplica(c) PROVE TypeOK'
  BY <1>3 DEF TypeOK, CrashReplica, GiveBack
<1>4. ASSUME NEW c \in Channels, LoseConnection(c) PROVE TypeOK'
  BY <1>4 DEF TypeOK, LoseConnection, GiveBack
<1>5. ASSUME NEW c \in Channels, NEW m \in Msgs, Deliver(c, m) PROVE TypeOK'
  <2>1. Route(m) \in Phases
    BY RouteCases
  <2>2. tries' \in [Msgs -> Nat]
    BY <1>5 DEF TypeOK, Deliver
  <2>3. QED
    BY <1>5, <2>1, <2>2 DEF TypeOK, Deliver, Step
<1>6. ASSUME NEW c \in Channels, NEW m \in Msgs, Handle(c, m) PROVE TypeOK'
  <2>1. CASE Process(c, m)
    BY <2>1 DEF TypeOK, Process, Step, broker
  <2>2. CASE ProcessFails(c, m)
    BY <2>2 DEF TypeOK, ProcessFails, Step, broker
  <2>3. CASE FailValidation(c, m)
    BY <2>3 DEF TypeOK, FailValidation, Step, broker, history
  <2>4. CASE MoveToDlq(c, m)
    <3>1. dlq' \in [Msgs -> Nat]
      BY <2>4 DEF TypeOK, MoveToDlq
    <3>2. phase' \in [Channels -> [Msgs -> Phases]]
      BY <2>4 DEF TypeOK, MoveToDlq, Step
    <3>3. QED
      BY <2>4, <3>1, <3>2 DEF TypeOK, MoveToDlq, broker, history
  <2>5. CASE MoveToDlqFails(c, m)
    <3>1. CASE Step(c, m, {"exhausted"}, "rejecting")
      BY <2>5, <3>1 DEF TypeOK, MoveToDlqFails, Step, broker, history
    <3>2. CASE Step(c, m, {"invalid"}, "stuck")
      BY <2>5, <3>2 DEF TypeOK, MoveToDlqFails, Step, broker, history
    <3>3. QED
      BY <2>5, <3>1, <3>2 DEF MoveToDlqFails
  <2>6. CASE Ack(c, m)
    BY <2>6 DEF TypeOK, Ack, Step
  <2>7. CASE Nack(c, m)
    BY <2>7 DEF TypeOK, Nack, Step
  <2>8. QED
    BY <1>6, <2>1, <2>2, <2>3, <2>4, <2>5, <2>6, <2>7 DEF Handle
<1>7. CASE UNCHANGED vars
  BY <1>7 DEF TypeOK, vars
<1>8. QED
  BY <1>1, <1>2, <1>3, <1>4, <1>5, <1>6, <1>7 DEF Next

\* Every variable keeps its type: in particular the x-death count the code
\* compares with RPC_MAX_RETRIES never leaves 0..MaxRetries.
THEOREM TypeCorrect == Spec => []TypeOK
<1>1. QED
  BY TypeInit, TypeNext, PTL DEF Spec

-----------------------------------------------------------------------------
\* One lemma per conjunct of the inductive invariant: what every action does
\* to it, given the conjuncts it depends on.

LEMMA ExclusiveNext ==
  ASSUME TypeOK, ExclusiveDelivery, [Next]_vars
  PROVE  ExclusiveDelivery'
<1>1. ASSUME NEW m \in Msgs, Publish(m) PROVE ExclusiveDelivery'
  BY <1>1 DEF TypeOK, ExclusiveDelivery, Held, Publish
<1>2. ASSUME NEW m \in Msgs, RetryExpires(m) PROVE ExclusiveDelivery'
  BY <1>2 DEF TypeOK, ExclusiveDelivery, Held, RetryExpires
<1>3. ASSUME NEW c \in Channels, CrashReplica(c) PROVE ExclusiveDelivery'
  BY <1>3 DEF TypeOK, ExclusiveDelivery, Held, CrashReplica, GiveBack, OutageAllowed
<1>4. ASSUME NEW c \in Channels, LoseConnection(c) PROVE ExclusiveDelivery'
  BY <1>4 DEF TypeOK, ExclusiveDelivery, Held, LoseConnection, GiveBack, OutageAllowed
<1>5. ASSUME NEW c \in Channels, NEW m \in Msgs, Deliver(c, m) PROVE ExclusiveDelivery'
  BY <1>5, RouteCases DEF TypeOK, ExclusiveDelivery, Held, Deliver, Step
<1>6. ASSUME NEW c \in Channels, NEW m \in Msgs, Handle(c, m) PROVE ExclusiveDelivery'
  <2>1. CASE Process(c, m)
    BY <2>1 DEF TypeOK, ExclusiveDelivery, Held, Process, Step, broker
  <2>2. CASE ProcessFails(c, m)
    BY <2>2 DEF TypeOK, ExclusiveDelivery, Held, ProcessFails, Step, broker
  <2>3. CASE FailValidation(c, m)
    BY <2>3 DEF TypeOK, ExclusiveDelivery, Held, FailValidation, Step, broker, history
  <2>4. CASE MoveToDlq(c, m)
    BY <2>4 DEF TypeOK, ExclusiveDelivery, Held, MoveToDlq, Step, broker, history
  <2>5. CASE MoveToDlqFails(c, m)
    <3>1. CASE Step(c, m, {"exhausted"}, "rejecting")
      BY <2>5, <3>1 DEF TypeOK, ExclusiveDelivery, Held, MoveToDlqFails, Step, broker, history
    <3>2. CASE Step(c, m, {"invalid"}, "stuck")
      BY <2>5, <3>2 DEF TypeOK, ExclusiveDelivery, Held, MoveToDlqFails, Step, broker, history
    <3>3. QED
      BY <2>5, <3>1, <3>2 DEF MoveToDlqFails
  <2>6. CASE Ack(c, m)
    BY <2>6 DEF TypeOK, ExclusiveDelivery, Held, Ack, Step
  <2>7. CASE Nack(c, m)
    BY <2>7 DEF TypeOK, ExclusiveDelivery, Held, Nack, Step
  <2>8. QED
    BY <1>6, <2>1, <2>2, <2>3, <2>4, <2>5, <2>6, <2>7 DEF Handle
<1>7. CASE UNCHANGED vars
  BY <1>7 DEF TypeOK, ExclusiveDelivery, Held, vars
<1>8. QED
  BY <1>1, <1>2, <1>3, <1>4, <1>5, <1>6, <1>7 DEF Next

LEMMA MeaningNext ==
  ASSUME TypeOK, ExclusiveDelivery, PhaseMeaning, [Next]_vars
  PROVE  PhaseMeaning'
<1>1. ASSUME NEW m \in Msgs, Publish(m) PROVE PhaseMeaning'
  BY <1>1 DEF TypeOK, ExclusiveDelivery, PhaseMeaning, Held, Publish
<1>2. ASSUME NEW m \in Msgs, RetryExpires(m) PROVE PhaseMeaning'
  BY <1>2 DEF TypeOK, ExclusiveDelivery, PhaseMeaning, Held, RetryExpires
<1>3. ASSUME NEW c \in Channels, CrashReplica(c) PROVE PhaseMeaning'
  BY <1>3 DEF TypeOK, ExclusiveDelivery, PhaseMeaning, Held, CrashReplica, GiveBack, OutageAllowed
<1>4. ASSUME NEW c \in Channels, LoseConnection(c) PROVE PhaseMeaning'
  BY <1>4 DEF TypeOK, ExclusiveDelivery, PhaseMeaning, Held, LoseConnection, GiveBack, OutageAllowed
<1>5. ASSUME NEW c \in Channels, NEW m \in Msgs, Deliver(c, m) PROVE PhaseMeaning'
  BY <1>5, RouteCases DEF TypeOK, ExclusiveDelivery, PhaseMeaning, Held, Deliver, Step
<1>6. ASSUME NEW c \in Channels, NEW m \in Msgs, Handle(c, m) PROVE PhaseMeaning'
  <2>1. CASE Process(c, m)
    BY <2>1 DEF TypeOK, ExclusiveDelivery, PhaseMeaning, Held, Process, Step, broker
  <2>2. CASE ProcessFails(c, m)
    BY <2>2 DEF TypeOK, ExclusiveDelivery, PhaseMeaning, Held, ProcessFails, Step, broker
  <2>3. CASE FailValidation(c, m)
    BY <2>3 DEF TypeOK, ExclusiveDelivery, PhaseMeaning, Held, FailValidation, Step, broker, history
  <2>4. CASE MoveToDlq(c, m)
    BY <2>4 DEF TypeOK, ExclusiveDelivery, PhaseMeaning, Held, MoveToDlq, Step, broker, history
  <2>5. CASE MoveToDlqFails(c, m)
    <3>1. CASE Step(c, m, {"exhausted"}, "rejecting")
      BY <2>5, <3>1 DEF TypeOK, ExclusiveDelivery, PhaseMeaning, Held, MoveToDlqFails, Step, broker, history
    <3>2. CASE Step(c, m, {"invalid"}, "stuck")
      BY <2>5, <3>2 DEF TypeOK, ExclusiveDelivery, PhaseMeaning, Held, MoveToDlqFails, Step, broker, history
    <3>3. QED
      BY <2>5, <3>1, <3>2 DEF MoveToDlqFails
  <2>6. CASE Ack(c, m)
    BY <2>6 DEF TypeOK, ExclusiveDelivery, PhaseMeaning, Held, Ack, Step
  <2>7. CASE Nack(c, m)
    BY <2>7 DEF TypeOK, ExclusiveDelivery, PhaseMeaning, Held, Nack, Step
  <2>8. QED
    BY <1>6, <2>1, <2>2, <2>3, <2>4, <2>5, <2>6, <2>7 DEF Handle
<1>7. CASE UNCHANGED vars
  BY <1>7 DEF TypeOK, ExclusiveDelivery, PhaseMeaning, Held, vars
<1>8. QED
  BY <1>1, <1>2, <1>3, <1>4, <1>5, <1>6, <1>7 DEF Next

LEMMA LedgerNext ==
  ASSUME TypeOK, ExclusiveDelivery, PhaseMeaning, AttemptLedger, [Next]_vars
  PROVE  AttemptLedger'
<1>1. ASSUME NEW m \in Msgs, Publish(m) PROVE AttemptLedger'
  BY <1>1 DEF TypeOK, ExclusiveDelivery, PhaseMeaning, AttemptLedger, Attempted, Held, Publish
<1>2. ASSUME NEW m \in Msgs, RetryExpires(m) PROVE AttemptLedger'
  BY <1>2 DEF TypeOK, ExclusiveDelivery, PhaseMeaning, AttemptLedger, Attempted, Held, RetryExpires
<1>3. ASSUME NEW c \in Channels, CrashReplica(c) PROVE AttemptLedger'
  BY <1>3 DEF TypeOK, ExclusiveDelivery, PhaseMeaning, AttemptLedger, Attempted, Held, CrashReplica, GiveBack, OutageAllowed
<1>4. ASSUME NEW c \in Channels, LoseConnection(c) PROVE AttemptLedger'
  BY <1>4 DEF TypeOK, ExclusiveDelivery, PhaseMeaning, AttemptLedger, Attempted, Held, LoseConnection, GiveBack, OutageAllowed
<1>5. ASSUME NEW c \in Channels, NEW m \in Msgs, Deliver(c, m) PROVE AttemptLedger'
  BY <1>5, RouteCases DEF TypeOK, ExclusiveDelivery, PhaseMeaning, AttemptLedger, Attempted, Held, Deliver, Step
<1>6. ASSUME NEW c \in Channels, NEW m \in Msgs, Handle(c, m) PROVE AttemptLedger'
  <2>1. CASE Process(c, m)
    BY <2>1 DEF TypeOK, ExclusiveDelivery, PhaseMeaning, AttemptLedger, Attempted, Held, Process, Step, broker
  <2>2. CASE ProcessFails(c, m)
    BY <2>2 DEF TypeOK, ExclusiveDelivery, PhaseMeaning, AttemptLedger, Attempted, Held, ProcessFails, Step, broker
  <2>3. CASE FailValidation(c, m)
    BY <2>3 DEF TypeOK, ExclusiveDelivery, PhaseMeaning, AttemptLedger, Attempted, Held, FailValidation, Step, broker, history
  <2>4. CASE MoveToDlq(c, m)
    BY <2>4 DEF TypeOK, ExclusiveDelivery, PhaseMeaning, AttemptLedger, Attempted, Held, MoveToDlq, Step, broker, history
  <2>5. CASE MoveToDlqFails(c, m)
    <3>1. CASE Step(c, m, {"exhausted"}, "rejecting")
      BY <2>5, <3>1 DEF TypeOK, ExclusiveDelivery, PhaseMeaning, AttemptLedger, Attempted, Held, MoveToDlqFails, Step, broker, history
    <3>2. CASE Step(c, m, {"invalid"}, "stuck")
      BY <2>5, <3>2 DEF TypeOK, ExclusiveDelivery, PhaseMeaning, AttemptLedger, Attempted, Held, MoveToDlqFails, Step, broker, history
    <3>3. QED
      BY <2>5, <3>1, <3>2 DEF MoveToDlqFails
  <2>6. CASE Ack(c, m)
    BY <2>6 DEF TypeOK, ExclusiveDelivery, PhaseMeaning, AttemptLedger, Attempted, Held, Ack, Step
  <2>7. CASE Nack(c, m)
    BY <2>7 DEF TypeOK, ExclusiveDelivery, PhaseMeaning, AttemptLedger, Attempted, Held, Nack, Step
  <2>8. QED
    BY <1>6, <2>1, <2>2, <2>3, <2>4, <2>5, <2>6, <2>7 DEF Handle
<1>7. CASE UNCHANGED vars
  BY <1>7 DEF TypeOK, ExclusiveDelivery, PhaseMeaning, AttemptLedger, Attempted, Held, vars
<1>8. QED
  BY <1>1, <1>2, <1>3, <1>4, <1>5, <1>6, <1>7 DEF Next

LEMMA LossNext ==
  ASSUME TypeOK, ExclusiveDelivery, PhaseMeaning, NoSilentLoss, [Next]_vars
  PROVE  NoSilentLoss'
<1>1. ASSUME NEW m \in Msgs, Publish(m) PROVE NoSilentLoss'
  BY <1>1 DEF TypeOK, ExclusiveDelivery, PhaseMeaning, NoSilentLoss, Held, Publish
<1>2. ASSUME NEW m \in Msgs, RetryExpires(m) PROVE NoSilentLoss'
  BY <1>2 DEF TypeOK, ExclusiveDelivery, PhaseMeaning, NoSilentLoss, Held, RetryExpires
<1>3. ASSUME NEW c \in Channels, CrashReplica(c) PROVE NoSilentLoss'
  BY <1>3 DEF TypeOK, ExclusiveDelivery, PhaseMeaning, NoSilentLoss, Held, CrashReplica, GiveBack, OutageAllowed
<1>4. ASSUME NEW c \in Channels, LoseConnection(c) PROVE NoSilentLoss'
  BY <1>4 DEF TypeOK, ExclusiveDelivery, PhaseMeaning, NoSilentLoss, Held, LoseConnection, GiveBack, OutageAllowed
<1>5. ASSUME NEW c \in Channels, NEW m \in Msgs, Deliver(c, m) PROVE NoSilentLoss'
  BY <1>5, RouteCases DEF TypeOK, ExclusiveDelivery, PhaseMeaning, NoSilentLoss, Held, Deliver, Step
<1>6. ASSUME NEW c \in Channels, NEW m \in Msgs, Handle(c, m) PROVE NoSilentLoss'
  <2>1. CASE Process(c, m)
    BY <2>1 DEF TypeOK, ExclusiveDelivery, PhaseMeaning, NoSilentLoss, Held, Process, Step, broker
  <2>2. CASE ProcessFails(c, m)
    BY <2>2 DEF TypeOK, ExclusiveDelivery, PhaseMeaning, NoSilentLoss, Held, ProcessFails, Step, broker
  <2>3. CASE FailValidation(c, m)
    BY <2>3 DEF TypeOK, ExclusiveDelivery, PhaseMeaning, NoSilentLoss, Held, FailValidation, Step, broker, history
  <2>4. CASE MoveToDlq(c, m)
    BY <2>4 DEF TypeOK, ExclusiveDelivery, PhaseMeaning, NoSilentLoss, Held, MoveToDlq, Step, broker, history
  <2>5. CASE MoveToDlqFails(c, m)
    <3>1. CASE Step(c, m, {"exhausted"}, "rejecting")
      BY <2>5, <3>1 DEF TypeOK, ExclusiveDelivery, PhaseMeaning, NoSilentLoss, Held, MoveToDlqFails, Step, broker, history
    <3>2. CASE Step(c, m, {"invalid"}, "stuck")
      BY <2>5, <3>2 DEF TypeOK, ExclusiveDelivery, PhaseMeaning, NoSilentLoss, Held, MoveToDlqFails, Step, broker, history
    <3>3. QED
      BY <2>5, <3>1, <3>2 DEF MoveToDlqFails
  <2>6. CASE Ack(c, m)
    BY <2>6 DEF TypeOK, ExclusiveDelivery, PhaseMeaning, NoSilentLoss, Held, Ack, Step
  <2>7. CASE Nack(c, m)
    BY <2>7 DEF TypeOK, ExclusiveDelivery, PhaseMeaning, NoSilentLoss, Held, Nack, Step
  <2>8. QED
    BY <1>6, <2>1, <2>2, <2>3, <2>4, <2>5, <2>6, <2>7 DEF Handle
<1>7. CASE UNCHANGED vars
  BY <1>7 DEF TypeOK, ExclusiveDelivery, PhaseMeaning, NoSilentLoss, Held, vars
<1>8. QED
  BY <1>1, <1>2, <1>3, <1>4, <1>5, <1>6, <1>7 DEF Next

LEMMA JustifiedNext ==
  ASSUME TypeOK, PhaseMeaning, AttemptLedger, DeadLetterJustified, [Next]_vars
  PROVE  DeadLetterJustified'
<1>1. ASSUME NEW m \in Msgs, Publish(m) PROVE DeadLetterJustified'
  BY <1>1 DEF TypeOK, PhaseMeaning, AttemptLedger, Attempted, DeadLetterJustified, Publish
<1>2. ASSUME NEW m \in Msgs, RetryExpires(m) PROVE DeadLetterJustified'
  BY <1>2 DEF TypeOK, PhaseMeaning, AttemptLedger, Attempted, DeadLetterJustified, RetryExpires
<1>3. ASSUME NEW c \in Channels, CrashReplica(c) PROVE DeadLetterJustified'
  BY <1>3 DEF TypeOK, PhaseMeaning, AttemptLedger, Attempted, DeadLetterJustified, CrashReplica, GiveBack, OutageAllowed
<1>4. ASSUME NEW c \in Channels, LoseConnection(c) PROVE DeadLetterJustified'
  BY <1>4 DEF TypeOK, PhaseMeaning, AttemptLedger, Attempted, DeadLetterJustified, LoseConnection, GiveBack, OutageAllowed
<1>5. ASSUME NEW c \in Channels, NEW m \in Msgs, Deliver(c, m) PROVE DeadLetterJustified'
  BY <1>5, RouteCases DEF TypeOK, PhaseMeaning, AttemptLedger, Attempted, DeadLetterJustified, Deliver, Step
<1>6. ASSUME NEW c \in Channels, NEW m \in Msgs, Handle(c, m) PROVE DeadLetterJustified'
  <2>1. CASE Process(c, m)
    BY <2>1 DEF TypeOK, PhaseMeaning, AttemptLedger, Attempted, DeadLetterJustified, Process, Step, broker
  <2>2. CASE ProcessFails(c, m)
    BY <2>2 DEF TypeOK, PhaseMeaning, AttemptLedger, Attempted, DeadLetterJustified, ProcessFails, Step, broker
  <2>3. CASE FailValidation(c, m)
    BY <2>3 DEF TypeOK, PhaseMeaning, AttemptLedger, Attempted, DeadLetterJustified, FailValidation, Step, broker, history
  <2>4. CASE MoveToDlq(c, m)
    BY <2>4 DEF TypeOK, PhaseMeaning, AttemptLedger, Attempted, DeadLetterJustified, MoveToDlq, Step, broker, history
  <2>5. CASE MoveToDlqFails(c, m)
    <3>1. CASE Step(c, m, {"exhausted"}, "rejecting")
      BY <2>5, <3>1 DEF TypeOK, PhaseMeaning, AttemptLedger, Attempted, DeadLetterJustified, MoveToDlqFails, Step, broker, history
    <3>2. CASE Step(c, m, {"invalid"}, "stuck")
      BY <2>5, <3>2 DEF TypeOK, PhaseMeaning, AttemptLedger, Attempted, DeadLetterJustified, MoveToDlqFails, Step, broker, history
    <3>3. QED
      BY <2>5, <3>1, <3>2 DEF MoveToDlqFails
  <2>6. CASE Ack(c, m)
    BY <2>6 DEF TypeOK, PhaseMeaning, AttemptLedger, Attempted, DeadLetterJustified, Ack, Step
  <2>7. CASE Nack(c, m)
    BY <2>7 DEF TypeOK, PhaseMeaning, AttemptLedger, Attempted, DeadLetterJustified, Nack, Step
  <2>8. QED
    BY <1>6, <2>1, <2>2, <2>3, <2>4, <2>5, <2>6, <2>7 DEF Handle
<1>7. CASE UNCHANGED vars
  BY <1>7 DEF TypeOK, PhaseMeaning, AttemptLedger, Attempted, DeadLetterJustified, vars
<1>8. QED
  BY <1>1, <1>2, <1>3, <1>4, <1>5, <1>6, <1>7 DEF Next

LEMMA IInvInit == Init => IInv
  BY TypeInit DEF Init, IInv, TypeOK, ExclusiveDelivery, NoSilentLoss, Held,
                  DeadLetterJustified, PhaseMeaning, AttemptLedger, Attempted

LEMMA IInvNext == IInv /\ [Next]_vars => IInv'
  BY TypeNext, ExclusiveNext, MeaningNext, LedgerNext, LossNext, JustifiedNext
     DEF IInv

\* The conjunction of the safety properties with what the phases and the
\* attempt ledger record is inductive: it holds in every reachable state.
THEOREM InductiveInvariant == Spec => []IInv
<1>1. QED
  BY IInvInit, IInvNext, PTL DEF Spec

-----------------------------------------------------------------------------
\* The safety properties.

\* No message is held by two live channels or by none while the broker counts
\* it as unacknowledged, for any number of replicas and outages.
THEOREM DeliveryIsExclusive == Spec => []ExclusiveDelivery
<1>1. IInv => ExclusiveDelivery
  BY DEF IInv
<1>2. QED
  BY <1>1, InductiveInvariant, PTL

\* An acknowledged message was applied or buried.
THEOREM NothingIsLost == Spec => []NoSilentLoss
<1>1. IInv => NoSilentLoss
  BY DEF IInv
<1>2. QED
  BY <1>1, InductiveInvariant, PTL

\* process_message runs at most RPC_MAX_RETRIES times, plus once per channel
\* lost while it held the message.
THEOREM AttemptsAreBounded == Spec => []BoundedAttempts
<1>1. IInv => BoundedAttempts
  <2>1. SUFFICES ASSUME IInv, NEW m \in Msgs
                 PROVE  tries[m] <= MaxRetries + requeues[m]
    BY DEF BoundedAttempts
  <2>2. tries[m] <= deaths[m] + requeues[m] + Attempted(m)
    BY <2>1 DEF IInv, AttemptLedger
  <2>3. /\ deaths[m] \in Nat /\ deaths[m] <= MaxRetries
        /\ tries[m] \in Nat /\ requeues[m] \in Nat
    BY <2>1 DEF IInv, TypeOK
  <2>4. deaths[m] + Attempted(m) <= MaxRetries /\ Attempted(m) \in Nat
    BY <2>3 DEF Attempted
  <2>5. QED
    BY <2>2, <2>3, <2>4
<1>2. QED
  BY <1>1, InductiveInvariant, PTL

\* A message that validates is buried only after RPC_MAX_RETRIES attempts.
THEOREM BurialIsJustified == Spec => []DeadLetterJustified
<1>1. IInv => DeadLetterJustified
  BY DEF IInv
<1>2. QED
  BY <1>1, InductiveInvariant, PTL

-----------------------------------------------------------------------------
\* The copies in the DLQ.

LEMMA OneMore ==
  ASSUME NEW S, NEW x, IsFiniteSet(S)
  PROVE  /\ IsFiniteSet(S \union {x})
         /\ Cardinality(S \union {x}) <= Cardinality(S) + 1
         /\ Cardinality(S \union {x}) \in Nat
<1>1. IsFiniteSet(S \union {x})
  BY FS_AddElement
<1>2. Cardinality(S \union {x}) \in Nat /\ Cardinality(S) \in Nat
  BY <1>1, FS_CardinalityType
<1>3. Cardinality(S \union {x}) \in {Cardinality(S), Cardinality(S) + 1}
  BY FS_AddElement
<1> QED
  BY <1>1, <1>2, <1>3

LEMMA OneLess ==
  ASSUME NEW S, NEW x \in S, IsFiniteSet(S)
  PROVE  Cardinality(S \ {x}) = Cardinality(S) - 1
BY FS_RemoveElement, Zenon

LEMMA StragglersAreFinite ==
  ASSUME IsFiniteSet(Channels), NEW m \in Msgs
  PROVE  IsFiniteSet(Stragglers(m)) /\ Cardinality(Stragglers(m)) \in Nat
<1>1. Stragglers(m) \in SUBSET Channels
  BY DEF Stragglers
<1> QED
  BY <1>1, FS_Subset, FS_CardinalityType

\* A step that puts no copy into the DLQ, opens nothing and makes no
\* straggler keeps the ledger of a message whose account does not shrink.
LEMMA NoNewStraggler ==
  ASSUME IsFiniteSet(Channels), TypeOK, TypeOK', BurialLedger, NEW m \in Msgs,
         Stragglers(m)' \in SUBSET Stragglers(m),
         dlq'[m] = dlq[m], doubts'[m] = doubts[m], requeues'[m] = requeues[m],
         loc[m] = "acked" => loc'[m] = "acked",
         \A c \in open : phase[c][m] = "forwarded" =>
           loc'[m] = "acked" \/ (c \in open' /\ phase'[c][m] = "forwarded")
  PROVE  dlq'[m] + Cardinality(Stragglers(m)') <=
           requeues'[m] + doubts'[m] +
             (IF loc'[m] = "acked" \/ \E c \in open' : phase'[c][m] = "forwarded" THEN 1 ELSE 0)
<1>1. /\ Cardinality(Stragglers(m)') <= Cardinality(Stragglers(m))
      /\ Cardinality(Stragglers(m)') \in Nat /\ Cardinality(Stragglers(m)) \in Nat
  BY StragglersAreFinite, FS_Subset, FS_CardinalityType
<1>2. dlq[m] + Cardinality(Stragglers(m)) <=
        requeues[m] + doubts[m] +
          (IF loc[m] = "acked" \/ \E c \in open : phase[c][m] = "forwarded" THEN 1 ELSE 0)
  BY DEF BurialLedger
<1>3. dlq[m] \in Nat /\ doubts[m] \in Nat /\ requeues[m] \in Nat
  BY DEF TypeOK
<1>4. CASE loc[m] = "acked" \/ \E c \in open : phase[c][m] = "forwarded"
  <2>1. loc'[m] = "acked" \/ \E c \in open' : phase'[c][m] = "forwarded"
    BY <1>4
  <2> QED
    BY <1>1, <1>2, <1>3, <1>4, <2>1
<1>5. CASE ~(loc[m] = "acked" \/ \E c \in open : phase[c][m] = "forwarded")
  <2>1. dlq[m] + Cardinality(Stragglers(m)) <= requeues[m] + doubts[m]
    BY <1>2, <1>3, <1>5
  <2> QED
    BY <1>1, <1>3, <2>1
<1> QED
  BY <1>4, <1>5

\* The account of a message whose channel is lost grows by the requeue: that
\* pays for the straggler, or for the copy it had just put into the DLQ.
LEMMA LostChannelPays ==
  ASSUME IsFiniteSet(Channels), IInv, TypeOK', BurialLedger, NEW c \in Channels, c \in open, NEW m \in Msgs, Held(c, m),
         Stragglers(m)' \in SUBSET
           (Stragglers(m) \union (IF phase[c][m] = "forwarded" THEN {} ELSE {c})),
         dlq'[m] = dlq[m], doubts'[m] = doubts[m], requeues'[m] = requeues[m] + 1
  PROVE  dlq'[m] + Cardinality(Stragglers(m)') <= requeues'[m] + doubts'[m]
<1>1. loc[m] = "unacked" /\ \A d \in open : phase[d][m] = "forwarded" => d = c
  BY DEF IInv, TypeOK, ExclusiveDelivery, Held
<1>2. /\ dlq[m] \in Nat /\ doubts[m] \in Nat /\ requeues[m] \in Nat
      /\ dlq[m] + Cardinality(Stragglers(m)) <=
           requeues[m] + doubts[m] +
             (IF loc[m] = "acked" \/ \E d \in open : phase[d][m] = "forwarded" THEN 1 ELSE 0)
  BY DEF IInv, TypeOK, BurialLedger
<1>3. IsFiniteSet(Stragglers(m)) /\ Cardinality(Stragglers(m)) \in Nat
  BY StragglersAreFinite
<1>4. CASE phase[c][m] = "forwarded"
  <2>1. /\ Cardinality(Stragglers(m)') <= Cardinality(Stragglers(m))
        /\ Cardinality(Stragglers(m)') \in Nat
    BY <1>3, <1>4, FS_Subset, FS_CardinalityType
  <2>2. dlq[m] + Cardinality(Stragglers(m)) <= requeues[m] + doubts[m] + 1
    BY <1>1, <1>2, <1>4
  <2> QED
    BY <1>2, <1>3, <2>1, <2>2
<1>5. CASE phase[c][m] # "forwarded"
  <2>1. /\ IsFiniteSet(Stragglers(m) \union {c})
        /\ Cardinality(Stragglers(m) \union {c}) <= Cardinality(Stragglers(m)) + 1
        /\ Cardinality(Stragglers(m) \union {c}) \in Nat
    BY <1>3, OneMore
  <2>2. Stragglers(m)' \in SUBSET (Stragglers(m) \union {c})
    BY <1>5
  <2>3. /\ Cardinality(Stragglers(m)') <= Cardinality(Stragglers(m) \union {c})
        /\ Cardinality(Stragglers(m)') \in Nat
    BY <2>1, <2>2, FS_Subset, FS_CardinalityType
  <2>4. dlq[m] + Cardinality(Stragglers(m)) <= requeues[m] + doubts[m]
    <3>1. ~(loc[m] = "acked" \/ \E d \in open : phase[d][m] = "forwarded")
      BY <1>1, <1>5
    <3> QED
      BY <1>2, <1>3, <3>1
  <2> QED
    BY <1>2, <1>3, <2>1, <2>3, <2>4
<1> QED
  BY <1>4, <1>5

\* A handler puts one copy into the DLQ: on an open channel its message was
\* neither acknowledged nor forwarded, on a lost one it was a straggler.
LEMMA BurialIsAccounted ==
  ASSUME IsFiniteSet(Channels), IInv, TypeOK', BurialLedger, NEW c \in Channels, NEW m \in Msgs, MoveToDlq(c, m)
  PROVE  dlq'[m] + Cardinality(Stragglers(m)') <=
           requeues'[m] + doubts'[m] +
             (IF loc'[m] = "acked" \/ \E d \in open' : phase'[d][m] = "forwarded" THEN 1 ELSE 0)
<1> USE DEF IInv, TypeOK
<1>1. /\ phase[c][m] \in {"exhausted", "invalid"}
      /\ phase' = [phase EXCEPT ![c][m] = "forwarded"]
      /\ dlq'[m] = dlq[m] + 1 /\ doubts' = doubts
      /\ open' = open /\ loc' = loc /\ requeues' = requeues
  BY DEF MoveToDlq, Step, broker
<1>2. /\ dlq[m] \in Nat /\ doubts[m] \in Nat /\ requeues[m] \in Nat
      /\ dlq[m] + Cardinality(Stragglers(m)) <=
           requeues[m] + doubts[m] +
             (IF loc[m] = "acked" \/ \E d \in open : phase[d][m] = "forwarded" THEN 1 ELSE 0)
  BY DEF BurialLedger
<1>3. IsFiniteSet(Stragglers(m)) /\ Cardinality(Stragglers(m)) \in Nat
  BY StragglersAreFinite
<1>4. Stragglers(m)' = Stragglers(m) \ {c}
  BY <1>1 DEF Stragglers
<1>5. CASE c \in open
  <2>1. ~(loc[m] = "acked" \/ \E d \in open : phase[d][m] = "forwarded")
    BY <1>1, <1>5 DEF ExclusiveDelivery, Held
  <2>2. phase'[c][m] = "forwarded" /\ c \in open'
    BY <1>1, <1>5
  <2>3. c \notin Stragglers(m)
    BY <1>5 DEF Stragglers
  <2>4. Cardinality(Stragglers(m)') = Cardinality(Stragglers(m))
    <3>1. Stragglers(m) \ {c} = Stragglers(m)
      BY <2>3
    <3> QED
      BY <1>4, <3>1
  <2>5. dlq[m] + Cardinality(Stragglers(m)) <= requeues[m] + doubts[m]
    BY <1>2, <1>3, <2>1
  <2> QED
    BY <1>1, <1>2, <1>3, <2>2, <2>4, <2>5
<1>6. CASE c \notin open
  <2>1. c \in Stragglers(m)
    BY <1>1, <1>6 DEF Stragglers
  <2>2. Cardinality(Stragglers(m)') = Cardinality(Stragglers(m)) - 1
    BY <1>3, <1>4, <2>1, OneLess
  <2>3. (\E d \in open' : phase'[d][m] = "forwarded") <=> (\E d \in open : phase[d][m] = "forwarded")
    BY <1>1, <1>6
  <2> QED
    BY <1>1, <1>2, <1>3, <2>2, <2>3
<1> QED
  BY <1>5, <1>6

\* A copy the broker took of a publish that raised pays for itself.
LEMMA DoubtPays ==
  ASSUME IsFiniteSet(Channels), IInv, TypeOK', BurialLedger, NEW c \in Channels,
         NEW n \in Msgs, NEW m \in Msgs,
         Step(c, n, {"exhausted"}, "rejecting") \/ Step(c, n, {"invalid"}, "stuck"),
         open' = open, loc' = loc, requeues' = requeues,
         dlq'[m] = dlq[m] + 1, doubts'[m] = doubts[m] + 1
  PROVE  dlq'[m] + Cardinality(Stragglers(m)') <=
           requeues'[m] + doubts'[m] +
             (IF loc'[m] = "acked" \/ \E d \in open' : phase'[d][m] = "forwarded" THEN 1 ELSE 0)
<1> USE DEF IInv, TypeOK
<1> DEFINE Settled == loc[m] = "acked" \/ \E d \in open : phase[d][m] = "forwarded"
<1>1. Stragglers(m)' \in SUBSET Stragglers(m)
  BY DEF Step, Stragglers
<1>2. /\ Cardinality(Stragglers(m)') <= Cardinality(Stragglers(m))
      /\ Cardinality(Stragglers(m)') \in Nat /\ Cardinality(Stragglers(m)) \in Nat
  BY <1>1, StragglersAreFinite, FS_Subset, FS_CardinalityType
<1>3. (loc'[m] = "acked" \/ \E d \in open' : phase'[d][m] = "forwarded") <=> Settled
  <2>1. \A d \in Channels : phase'[d][m] = "forwarded" <=> phase[d][m] = "forwarded"
    BY DEF Step
  <2> QED
    BY <2>1
<1>4. dlq[m] + Cardinality(Stragglers(m)) <=
        requeues[m] + doubts[m] + (IF Settled THEN 1 ELSE 0)
  BY DEF BurialLedger
<1>5. dlq[m] \in Nat /\ doubts[m] \in Nat /\ requeues[m] \in Nat
  OBVIOUS
<1> QED
  BY <1>2, <1>3, <1>4, <1>5

LEMMA BurialNext ==
  ASSUME IsFiniteSet(Channels), IInv, TypeOK', BurialLedger, [Next]_vars
  PROVE  BurialLedger'
<1> SUFFICES ASSUME NEW m \in Msgs
             PROVE  dlq'[m] + Cardinality(Stragglers(m)') <=
                      requeues'[m] + doubts'[m] +
                        (IF loc'[m] = "acked" \/ \E c \in open' : phase'[c][m] = "forwarded"
                         THEN 1 ELSE 0)
  BY DEF BurialLedger, Stragglers
<1> USE DEF IInv, TypeOK
<1> DEFINE Account == dlq'[m] + Cardinality(Stragglers(m)') <=
                        requeues'[m] + doubts'[m] +
                          (IF loc'[m] = "acked" \/ \E c \in open' : phase'[c][m] = "forwarded"
                           THEN 1 ELSE 0)
<1>1. ASSUME NEW n \in Msgs, Publish(n) \/ RetryExpires(n) PROVE Account
  <2>1. Stragglers(m)' = Stragglers(m)
    BY <1>1 DEF Publish, RetryExpires, Stragglers
  <2>2. loc[m] = "acked" => loc'[m] = "acked"
    BY <1>1 DEF Publish, RetryExpires
  <2> QED
    BY <1>1, <2>1, <2>2, NoNewStraggler DEF Publish, RetryExpires
<1>2. ASSUME NEW c \in Channels, CrashReplica(c) \/ LoseConnection(c) PROVE Account
  <2>1. c \in open /\ GiveBack(c) /\ dlq' = dlq /\ doubts' = doubts
    BY <1>2 DEF CrashReplica, LoseConnection, OutageAllowed
  <2>2. \A d \in Channels : d # c => phase'[d] = phase[d]
    BY <1>2 DEF CrashReplica, LoseConnection
  <2>3. phase'[c][m] \in {phase[c][m], "idle"}
    BY <1>2 DEF CrashReplica, LoseConnection
  <2>4. CASE Held(c, m)
    <3>1. requeues'[m] = requeues[m] + 1
      BY <2>1, <2>4 DEF GiveBack
    <3>2. Stragglers(m)' \in SUBSET
            (Stragglers(m) \union (IF phase[c][m] = "forwarded" THEN {} ELSE {c}))
      BY <2>1, <2>2, <2>3 DEF GiveBack, Stragglers
    <3>3. dlq'[m] + Cardinality(Stragglers(m)') <= requeues'[m] + doubts'[m]
      BY <2>1, <2>4, <3>1, <3>2, LostChannelPays
    <3>4. /\ dlq'[m] \in Nat /\ doubts'[m] \in Nat /\ requeues'[m] \in Nat
          /\ Cardinality(Stragglers(m)') \in Nat
      <4>1. Stragglers(m)' \in SUBSET Channels
        BY DEF Stragglers
      <4> QED
        BY <4>1, FS_Subset, FS_CardinalityType
    <3> QED
      BY <3>3, <3>4
  <2>5. CASE ~Held(c, m)
    <3>1. phase[c][m] = "idle" /\ phase'[c][m] = "idle"
      BY <2>1, <2>3, <2>5 DEF Held
    <3>2. Stragglers(m)' \in SUBSET Stragglers(m)
      BY <2>1, <2>2, <3>1 DEF GiveBack, Stragglers
    <3>3. requeues'[m] = requeues[m] /\ loc'[m] = loc[m]
      BY <2>1, <2>5 DEF GiveBack
    <3>4. \A d \in open : phase[d][m] = "forwarded" => d \in open' /\ phase'[d][m] = "forwarded"
      BY <2>1, <2>2, <3>1 DEF GiveBack
    <3> QED
      BY <2>1, <3>2, <3>3, <3>4, NoNewStraggler
  <2> QED
    BY <2>4, <2>5
<1>3. ASSUME NEW c \in Channels, NEW n \in Msgs, Deliver(c, n) PROVE Account
  <2>1. /\ c \in open /\ open' = open /\ dlq' = dlq /\ doubts' = doubts /\ requeues' = requeues
        /\ loc[n] = "ready" /\ loc' = [loc EXCEPT ![n] = "unacked"]
        /\ phase[c][n] = "idle" /\ phase' = [phase EXCEPT ![c][n] = Route(n)]
    BY <1>3 DEF Deliver, Step
  <2>2. Stragglers(m)' \in SUBSET Stragglers(m)
    BY <2>1 DEF Stragglers
  <2>3. \A d \in open : phase[d][m] = "forwarded" => phase'[d][m] = "forwarded"
    BY <2>1
  <2> QED
    BY <2>1, <2>2, <2>3, NoNewStraggler
<1>4. ASSUME NEW c \in Channels, NEW n \in Msgs,
             NEW from \in SUBSET Phases, NEW to \in Phases, Step(c, n, from, to),
             to \in {"running", "exhausted", "invalid"} => from \subseteq {"running", "exhausted", "invalid"},
             "forwarded" \notin from \/ loc'[n] = "acked" \/ c \notin open,
             open' = open, dlq'[m] = dlq[m], doubts'[m] = doubts[m], requeues' = requeues,
             loc[m] = "acked" => loc'[m] = "acked"
      PROVE  Account
  <2>1. Stragglers(m)' \in SUBSET Stragglers(m)
    BY <1>4 DEF Step, Stragglers
  <2>2. \A d \in open : phase[d][m] = "forwarded" =>
          loc'[m] = "acked" \/ phase'[d][m] = "forwarded"
    BY <1>4 DEF Step
  <2> QED
    BY <1>4, <2>1, <2>2, NoNewStraggler
<1>5. ASSUME NEW c \in Channels, NEW n \in Msgs, Handle(c, n) PROVE Account
  <2>1. CASE Process(c, n)
    BY <1>4, <2>1 DEF Process, broker
  <2>2. CASE ProcessFails(c, n)
    BY <1>4, <2>2 DEF ProcessFails, broker
  <2>3. CASE FailValidation(c, n)
    BY <1>4, <2>3 DEF FailValidation, broker
  <2>4. CASE MoveToDlq(c, n) /\ n = m
    BY <2>4, BurialIsAccounted
  <2>5. CASE MoveToDlq(c, n) /\ n # m
    <3>1. Stragglers(m)' = Stragglers(m)
      BY <2>5 DEF MoveToDlq, Step, Stragglers
    <3>2. \A d \in open : phase[d][m] = "forwarded" => phase'[d][m] = "forwarded"
      BY <2>5 DEF MoveToDlq, Step
    <3> QED
      BY <2>5, <3>1, <3>2, NoNewStraggler DEF MoveToDlq, broker
  <2>6. CASE MoveToDlqFails(c, n)
    <3>1. /\ \/ Step(c, n, {"exhausted"}, "rejecting")
             \/ Step(c, n, {"invalid"}, "stuck")
          /\ open' = open /\ loc' = loc /\ requeues' = requeues
      BY <2>6 DEF MoveToDlqFails, broker
    <3>2. CASE dlq'[m] = dlq[m] /\ doubts'[m] = doubts[m]
      BY <1>4, <3>1, <3>2
    <3>3. CASE dlq'[m] = dlq[m] + 1 /\ doubts'[m] = doubts[m] + 1
      BY <3>1, <3>3, DoubtPays
    <3>4. QED
      BY <2>6, <3>2, <3>3 DEF MoveToDlqFails
  <2>7. CASE Ack(c, n)
    <3>1. c \notin open \/ loc'[n] = "acked"
      BY <2>7 DEF Ack
    <3>2. loc[m] = "acked" => loc'[m] = "acked"
      BY <2>7 DEF Ack
    <3> QED
      BY <1>4, <2>7, <3>1, <3>2 DEF Ack
  <2>8. CASE Nack(c, n)
    <3>1. loc[m] = "acked" => loc'[m] = "acked"
      BY <2>8 DEF Nack, Step, ExclusiveDelivery, Held
    <3> QED
      BY <1>4, <2>8, <3>1 DEF Nack
  <2> QED
    BY <1>5, <2>1, <2>2, <2>3, <2>4, <2>5, <2>6, <2>7, <2>8 DEF Handle
<1>6. CASE UNCHANGED vars
  <2>1. Stragglers(m)' = Stragglers(m)
    BY <1>6 DEF vars, Stragglers
  <2> QED
    BY <1>6, <2>1, NoNewStraggler DEF vars
<1> QED
  BY <1>1, <1>2, <1>3, <1>5, <1>6 DEF Next

\* Every copy of a message in the DLQ beyond the first belongs to a channel
\* that was lost while it held the message, or to a publish that raised after
\* the broker took it, for any number of channels.
THEOREM BuriedOnce ==
  ASSUME IsFiniteSet(Channels) PROVE Spec => []DeadLetterOnce
<1>1. Init => BurialLedger
  <2> SUFFICES ASSUME Init, NEW m \in Msgs
               PROVE  dlq[m] = 0 /\ doubts[m] = 0 /\ requeues[m] = 0 /\ Stragglers(m) = {}
    BY FS_EmptySet DEF BurialLedger
  <2> QED
    BY DEF Init, Stragglers
<1>2. IInv /\ IInv' /\ BurialLedger /\ [Next]_vars => BurialLedger'
  BY BurialNext DEF IInv
<1>3. IInv /\ BurialLedger => DeadLetterOnce
  <2> SUFFICES ASSUME IInv, BurialLedger, NEW m \in Msgs
               PROVE  dlq[m] <= 1 + requeues[m] + doubts[m]
    BY DEF DeadLetterOnce
  <2>1. /\ dlq[m] \in Nat /\ doubts[m] \in Nat /\ requeues[m] \in Nat
        /\ Cardinality(Stragglers(m)) \in Nat
    BY StragglersAreFinite DEF IInv, TypeOK
  <2> QED
    BY <2>1 DEF BurialLedger
<1> QED
  BY <1>1, <1>2, <1>3, InductiveInvariant, PTL DEF Spec

-----------------------------------------------------------------------------
\* Messages that are not JSON.

\* The handler meets the limit or fails to parse, and _move_to_dlq parses again.
LEMMA MalformedNext ==
  ASSUME TypeOK, MalformedCirculates, [Next]_vars
  PROVE  MalformedCirculates'
<1> USE DEF TypeOK, MalformedCirculates
<1>1. ASSUME NEW m \in Msgs, Publish(m) \/ RetryExpires(m) PROVE MalformedCirculates'
  BY <1>1 DEF Publish, RetryExpires
<1>2. ASSUME NEW c \in Channels, CrashReplica(c) \/ LoseConnection(c)
      PROVE  MalformedCirculates'
  BY <1>2 DEF CrashReplica, LoseConnection, GiveBack
<1>3. ASSUME NEW c \in Channels, NEW m \in Msgs, Deliver(c, m)
      PROVE  MalformedCirculates'
  <2>1. m \in Malformed => Route(m) \in {"exhausted", "rejecting"}
    BY RouteCases
  <2>2. QED
    BY <1>3, <2>1 DEF Deliver, Step
<1>4. ASSUME NEW c \in Channels, NEW m \in Msgs, Handle(c, m)
      PROVE  MalformedCirculates'
  <2>1. CASE Process(c, m) \/ ProcessFails(c, m)
    BY <2>1 DEF Process, ProcessFails, Step, broker
  <2>2. CASE FailValidation(c, m)
    BY <2>2 DEF FailValidation, Step, broker, history
  <2>3. CASE MoveToDlq(c, m)
    BY <2>3 DEF MoveToDlq, Step, broker, history
  <2>4. CASE MoveToDlqFails(c, m)
    BY <2>4 DEF MoveToDlqFails, Step, broker, history
  <2>5. CASE Ack(c, m) \/ Nack(c, m)
    BY <2>5 DEF Ack, Nack, Step
  <2>6. QED
    BY <1>4, <2>1, <2>2, <2>3, <2>4, <2>5 DEF Handle
<1>5. CASE UNCHANGED vars
  BY <1>5 DEF vars
<1>6. QED
  BY <1>1, <1>2, <1>3, <1>4, <1>5 DEF Next

\* With every limit and every number of replicas a message that is not JSON
\* is never handled, never dead-lettered and never dropped: the limit of
\* attempts, which it does reach, sends it nowhere.
THEOREM MalformedNeverLeaves == Spec => []MalformedCirculates
<1>1. Init => MalformedCirculates
  BY DEF Init, MalformedCirculates
<1>2. TypeOK /\ MalformedCirculates /\ [Next]_vars => MalformedCirculates'
  BY MalformedNext
<1>3. QED
  BY <1>1, <1>2, TypeCorrect, PTL DEF Spec

-----------------------------------------------------------------------------
\* The queue implements AtLeastOnce.

LEMMA InitRefines == Init => Promise!Init
  BY DEF Init, Promise!Init

LEMMA StepRefines ==
  ASSUME IInv, [Next]_vars
  PROVE  [Promise!Next]_(Promise!vars)
<1> USE DEF IInv, Promise!vars
<1>1. ASSUME NEW m \in Msgs, Publish(m) PROVE Promise!Send(m)
  BY <1>1 DEF TypeOK, Publish, Promise!Send
<1>2. ASSUME NEW m \in Msgs, RetryExpires(m) PROVE UNCHANGED Promise!vars
  BY <1>2 DEF TypeOK, RetryExpires
<1>3. ASSUME NEW c \in Channels, CrashReplica(c) PROVE UNCHANGED Promise!vars
  BY <1>3 DEF TypeOK, ExclusiveDelivery, CrashReplica, GiveBack
<1>4. ASSUME NEW c \in Channels, LoseConnection(c) PROVE UNCHANGED Promise!vars
  BY <1>4 DEF TypeOK, ExclusiveDelivery, LoseConnection, GiveBack
<1>5. ASSUME NEW c \in Channels, NEW m \in Msgs, Deliver(c, m)
      PROVE  UNCHANGED Promise!vars
  BY <1>5 DEF TypeOK, Deliver
<1>6. ASSUME NEW c \in Channels, NEW m \in Msgs, Handle(c, m)
      PROVE  Promise!Next \/ UNCHANGED Promise!vars
  <2>1. phase[c][m] # "idle" => loc[m] # "unsent"
    BY DEF PhaseMeaning
  <2>2. CASE Process(c, m)
    BY <2>1, <2>2 DEF Process, Step, broker, Promise!Next, Promise!Apply
  <2>3. CASE ProcessFails(c, m)
    BY <2>1, <2>3 DEF ProcessFails, Step, broker, Promise!Next, Promise!Apply
  <2>4. CASE FailValidation(c, m)
    BY <2>4 DEF FailValidation, broker, history
  <2>5. CASE MoveToDlq(c, m)
    <3>1. Promise!Bury(m)
      BY <2>1, <2>5 DEF TypeOK, MoveToDlq, Step, broker, history, Promise!Bury
    <3>2. QED
      BY <3>1 DEF Promise!Next
  <2>6. CASE MoveToDlqFails(c, m)
    <3>1. CASE UNCHANGED <<dlq, doubts>>
      BY <2>6, <3>1 DEF MoveToDlqFails, broker, history
    <3>2. CASE dlq' = [dlq EXCEPT ![m] = @ + 1]
      <4>1. Promise!Bury(m)
        BY <2>1, <2>6, <3>2 DEF TypeOK, MoveToDlqFails, Step, broker, history, Promise!Bury
      <4>2. QED
        BY <4>1 DEF Promise!Next
    <3>3. QED
      BY <2>6, <3>1, <3>2 DEF MoveToDlqFails
  <2>7. CASE Ack(c, m) /\ c \in open
    <3>1. Promise!Settle(m)
      BY <2>1, <2>7 DEF TypeOK, PhaseMeaning, Ack, Step, Promise!Settle
    <3>2. QED
      BY <3>1 DEF Promise!Next
  <2>8. CASE Nack(c, m) /\ c \in open
    BY <2>1, <2>8 DEF TypeOK, ExclusiveDelivery, Held, Nack, Step
  <2>9. CASE (Ack(c, m) \/ Nack(c, m)) /\ c \notin open
    BY <2>9 DEF Ack, Nack
  <2>10. QED
    BY <1>6, <2>2, <2>3, <2>4, <2>5, <2>6, <2>7, <2>8, <2>9 DEF Handle
<1>7. CASE UNCHANGED vars
  BY <1>7 DEF vars
<1>8. QED
  BY <1>1, <1>2, <1>3, <1>4, <1>5, <1>6, <1>7 DEF Next, Promise!Next

\* Whatever the replicas, outages and failures, publishers see a queue that
\* applies or buries every message before it forgets it, and nothing else.
THEOREM Implementation == Spec => AtLeastOnceDelivery
<1>1. QED
  BY InductiveInvariant, InitRefines, StepRefines, PTL
     DEF Spec, AtLeastOnceDelivery, Promise!Spec

=============================================================================
