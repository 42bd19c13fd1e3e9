--------------------------- MODULE RpcSystemProofs ---------------------------
(***************************************************************************)
(* Proofs about RpcSystem, for every number of calls, channels, retries    *)
(* and answers and every setting of the two clocks that satisfies          *)
(* DelayAssumption.  The facts about the parts are those of                *)
(* RpcCallerProofs and RpcListenerProofs; what is new is that the parts    *)
(* fit together and how their clocks compare.                              *)
(***************************************************************************)
EXTENDS RpcSystem, RpcCallerProofs, FiniteSetTheorems

Facts == INSTANCE RpcListenerProofs WITH
           Msgs <- Calls, Malformed <- {}, Invalid <- {}

USE DelayAssumption, QueueAssumption

-----------------------------------------------------------------------------
\* Facts and Queue are two instances of the same definitions.

LEMMA SameInvariant == (Facts!IInv <=> Queue!IInv) /\ (Facts!IInv' <=> Queue!IInv')
<1>1. Facts!IInv <=> Queue!IInv
  BY Zenon DEF Facts!IInv, Queue!IInv, Facts!TypeOK, Queue!TypeOK,
               Facts!ExclusiveDelivery, Queue!ExclusiveDelivery,
               Facts!NoSilentLoss, Queue!NoSilentLoss,
               Facts!DeadLetterJustified, Queue!DeadLetterJustified,
               Facts!PhaseMeaning, Queue!PhaseMeaning,
               Facts!AttemptLedger, Queue!AttemptLedger, Facts!Attempted,
               Queue!Attempted, Facts!Held, Queue!Held, Facts!Locations,
               Queue!Locations, Facts!Phases, Queue!Phases
<1>2. Facts!IInv' <=> Queue!IInv'
  BY Zenon DEF Facts!IInv, Queue!IInv, Facts!TypeOK, Queue!TypeOK,
               Facts!ExclusiveDelivery, Queue!ExclusiveDelivery,
               Facts!NoSilentLoss, Queue!NoSilentLoss,
               Facts!DeadLetterJustified, Queue!DeadLetterJustified,
               Facts!PhaseMeaning, Queue!PhaseMeaning,
               Facts!AttemptLedger, Queue!AttemptLedger, Facts!Attempted,
               Queue!Attempted, Facts!Held, Queue!Held, Facts!Locations,
               Queue!Locations, Facts!Phases, Queue!Phases
<1>3. QED
  BY <1>1, <1>2

LEMMA SameSteps == [Facts!Next]_(Facts!vars) <=> [Queue!Next]_queueVars
<1>1. ASSUME NEW k \in Calls
      PROVE  Facts!Publish(k) <=> Queue!Publish(k)
  BY Zenon
     DEF Facts!Publish, Queue!Publish
<1>2. ASSUME NEW k \in Calls
      PROVE  Facts!RetryExpires(k) <=> Queue!RetryExpires(k)
  BY Zenon
     DEF Facts!RetryExpires, Queue!RetryExpires
<1>3. ASSUME NEW c \in Channels
      PROVE  Facts!CrashReplica(c) <=> Queue!CrashReplica(c)
  BY Zenon
     DEF Facts!CrashReplica, Queue!CrashReplica,
         Facts!OutageAllowed, Queue!OutageAllowed, Facts!GiveBack,
         Queue!GiveBack, Facts!Held, Queue!Held
<1>4. ASSUME NEW c \in Channels
      PROVE  Facts!LoseConnection(c) <=> Queue!LoseConnection(c)
  BY Zenon
     DEF Facts!LoseConnection, Queue!LoseConnection,
         Facts!OutageAllowed, Queue!OutageAllowed, Facts!GiveBack,
         Queue!GiveBack, Facts!Held, Queue!Held
<1>5. ASSUME NEW c \in Channels, NEW k \in Calls
      PROVE  Facts!Deliver(c, k) <=> Queue!Deliver(c, k)
  <2>1. Facts!HasCredit(c) <=> Queue!HasCredit(c)
    BY DEF Facts!HasCredit, Queue!HasCredit, Facts!InFlight,
           Queue!InFlight, Facts!Cardinality, Queue!Cardinality
  <2>2. Facts!Route(k) = Queue!Route(k)
    BY DEF Facts!Route, Queue!Route
  <2>3. QED
    BY <2>1, <2>2, Zenon
       DEF Facts!Deliver, Queue!Deliver, Facts!Step, Queue!Step
<1>6. ASSUME NEW c \in Channels, NEW k \in Calls
      PROVE  Facts!Process(c, k) <=> Queue!Process(c, k)
  BY Zenon
     DEF Facts!Process, Queue!Process, Facts!Step, Queue!Step,
         Facts!broker, Queue!broker
<1>7. ASSUME NEW c \in Channels, NEW k \in Calls
      PROVE  Facts!ProcessFails(c, k) <=> Queue!ProcessFails(c, k)
  BY Zenon
     DEF Facts!ProcessFails, Queue!ProcessFails, Facts!Step,
         Queue!Step, Facts!broker, Queue!broker
<1>8. ASSUME NEW c \in Channels, NEW k \in Calls
      PROVE  Facts!FailValidation(c, k) <=> Queue!FailValidation(c, k)
  BY Zenon
     DEF Facts!FailValidation, Queue!FailValidation, Facts!Step,
         Queue!Step, Facts!broker, Queue!broker, Facts!history,
         Queue!history
<1>9. ASSUME NEW c \in Channels, NEW k \in Calls
      PROVE  Facts!MoveToDlq(c, k) <=> Queue!MoveToDlq(c, k)
  BY Zenon
     DEF Facts!MoveToDlq, Queue!MoveToDlq, Facts!Step, Queue!Step,
         Facts!broker, Queue!broker, Facts!history, Queue!history
<1>10. ASSUME NEW c \in Channels, NEW k \in Calls
      PROVE  Facts!MoveToDlqFails(c, k) <=> Queue!MoveToDlqFails(c, k)
  BY Zenon
     DEF Facts!MoveToDlqFails, Queue!MoveToDlqFails, Facts!Step,
         Queue!Step, Facts!broker, Queue!broker, Facts!history,
         Queue!history
<1>11. ASSUME NEW c \in Channels, NEW k \in Calls
      PROVE  Facts!Ack(c, k) <=> Queue!Ack(c, k)
  BY Zenon
     DEF Facts!Ack, Queue!Ack, Facts!Step, Queue!Step
<1>12. ASSUME NEW c \in Channels, NEW k \in Calls
      PROVE  Facts!Nack(c, k) <=> Queue!Nack(c, k)
  BY Zenon
     DEF Facts!Nack, Queue!Nack, Facts!Step, Queue!Step
<1>13. Facts!vars = queueVars /\ Facts!vars' = queueVars'
  BY DEF Facts!vars, queueVars
<1>14. QED
  BY <1>1, <1>2, <1>3, <1>4, <1>5, <1>6, <1>7, <1>8, <1>9, <1>10, <1>11, <1>12, <1>13, Zenon
     DEF Facts!Next, Queue!Next, Facts!Handle, Queue!Handle


LEMMA QueueInvInit == Queue!Init => Queue!IInv
<1>1. Queue!Init <=> Facts!Init
  BY DEF Queue!Init, Facts!Init
<1>2. QED
  BY <1>1, SameInvariant, Facts!IInvInit

LEMMA QueueInvNext == Queue!IInv /\ [Queue!Next]_queueVars => Queue!IInv'
  BY SameInvariant, SameSteps, Facts!IInvNext


-----------------------------------------------------------------------------
\* Every step of the system is a step of the caller or leaves it alone, and
\* the same holds of the queue.

LEMMA CallerStep == [SysNext]_sysVars => [Next]_vars
<1> SUFFICES ASSUME [SysNext]_sysVars PROVE [Next]_vars
  OBVIOUS
<1>1. ASSUME NEW k \in Calls, Call(k) PROVE Next
  BY <1>1 DEF Call, CallLocal, Confirm, GiveUp, CallStep, Next
<1>2. ASSUME NEW k \in Calls, Route(k) PROVE Next
  BY <1>2 DEF Route, Next
<1>3. ASSUME NEW r \in replies, Receive(r) PROVE Next
  BY <1>3 DEF Receive, Next
<1>4. ASSUME NEW c \in Channels, NEW k \in Calls, Work(c, k)
      PROVE  Next \/ UNCHANGED vars
  BY <1>4 DEF Work, Handle, Tell, Fail, Finish, Reject, Next
<1>5. CASE \/ \E k \in Calls : ComeBack(k)
           \/ \E c \in Channels : Crash(c) \/ Disconnect(c)
           \/ Tick
  BY <1>5 DEF ComeBack, Crash, Disconnect, Tick
<1>6. CASE UNCHANGED sysVars
  BY <1>6 DEF sysVars
<1>7. QED
  BY <1>1, <1>2, <1>3, <1>4, <1>5, <1>6 DEF SysNext

LEMMA QueueStep == [SysNext]_sysVars => [Queue!Next]_queueVars
<1> SUFFICES ASSUME [SysNext]_sysVars PROVE [Queue!Next]_queueVars
  OBVIOUS
<1>1. ASSUME NEW k \in Calls, Call(k) PROVE UNCHANGED queueVars
  BY <1>1 DEF Call, CallLocal, Confirm, GiveUp, queueVars
<1>2. ASSUME NEW k \in Calls, Route(k) \/ ComeBack(k) PROVE Queue!Next
  BY <1>2 DEF Route, ComeBack, Queue!Next
<1>3. ASSUME NEW r \in replies, Receive(r) PROVE UNCHANGED queueVars
  BY <1>3 DEF Receive, queueVars
<1>4. ASSUME NEW c \in Channels, NEW k \in Calls, Work(c, k)
      PROVE  Queue!Next \/ UNCHANGED queueVars
  BY <1>4 DEF Work, Handle, Tell, Fail, Finish, Reject, Queue!Next,
              Queue!Handle
<1>5. ASSUME NEW c \in Channels, Crash(c) \/ Disconnect(c) PROVE Queue!Next
  BY <1>5 DEF Crash, Disconnect, Queue!Next
<1>6. CASE Tick \/ UNCHANGED sysVars
  BY <1>6 DEF Tick, sysVars
<1>7. QED
  BY <1>1, <1>2, <1>3, <1>4, <1>5, <1>6 DEF SysNext

\* The system is a composition of its parts: each sees only steps of its own
\* specification, so what is proved of the caller and of the queue alone
\* holds of them together.
THEOREM Composition == SysSpec => CallerPart /\ QueuePart
<1>1. SysInit => Init /\ Queue!Init
  BY DEF SysInit
<1>2. [SysNext]_sysVars => [Queue!Next]_(Queue!vars)
  BY QueueStep DEF queueVars, Queue!vars
<1>3. QED
  BY <1>1, <1>2, CallerStep, PTL
     DEF SysSpec, CallerPart, QueuePart, Spec, Queue!Spec

\* What callers and publishers are promised by the parts they have from the
\* whole: the theorems about the parts, carried over.
THEOREM PromisesOfTheParts ==
  ASSUME UniqueIds
  PROVE  SysSpec => /\ []NoStaleFuture /\ []OwnAnswer /\ ReplyReachesCaller
                    /\ []Queue!ExclusiveDelivery /\ []Queue!NoSilentLoss
                    /\ []Queue!DeadLetterJustified
<1>1. Queue!IInv => /\ Queue!ExclusiveDelivery /\ Queue!NoSilentLoss
                    /\ Queue!DeadLetterJustified
  BY DEF Queue!IInv
<1>2. QueuePart => []Queue!IInv
  <2>1. Queue!IInv /\ [Queue!Next]_(Queue!vars) => Queue!IInv'
    BY QueueInvNext DEF queueVars, Queue!vars
  <2>2. QED
    BY QueueInvInit, <2>1, PTL DEF QueuePart, Queue!Spec
<1>3. CallerPart => []NoStaleFuture /\ []OwnAnswer /\ ReplyReachesCaller
  BY NoFutureLeaks, AnswersAreNotCrossed, RepliesReachCallers DEF CallerPart
<1>4. QED
  BY Composition, <1>1, <1>2, <1>3, PTL

-----------------------------------------------------------------------------
\* Type correctness of what the composition adds.

LEMMA SysTypeInit == SysInit => SysTypeOK
<1> SUFFICES ASSUME SysInit PROVE SysTypeOK
  OBVIOUS
<1>1. TypeOK /\ Queue!TypeOK
  BY TypeInit, QueueInvInit DEF SysInit, Queue!IInv
<1>2. QED
  BY <1>1 DEF SysInit, SysTypeOK, OwnTypeOK, Patience

LEMMA OwnTypeNext ==
  ASSUME SysTypeOK, [SysNext]_sysVars
  PROVE  OwnTypeOK'
<1> USE DEF SysTypeOK, OwnTypeOK, Patience, clocks
<1>1. ASSUME NEW k \in Calls, Call(k) PROVE OwnTypeOK'
  BY <1>1 DEF Call, CallLocal, Confirm, GiveUp
<1>2. ASSUME NEW k \in Calls, Route(k) \/ ComeBack(k) PROVE OwnTypeOK'
  BY <1>2 DEF Route, ComeBack
<1>3. ASSUME NEW r \in replies, Receive(r) PROVE OwnTypeOK'
  BY <1>3 DEF Receive
<1>4. ASSUME NEW c \in Channels, NEW k \in Calls, Work(c, k)
      PROVE  OwnTypeOK'
  BY <1>4 DEF Work, Handle, Tell, Fail, Finish, Reject
<1>5. ASSUME NEW c \in Channels, Crash(c) \/ Disconnect(c) PROVE OwnTypeOK'
  BY <1>5 DEF Crash, Disconnect
<1>6. CASE Tick
  BY <1>6 DEF Tick, Less
<1>7. CASE UNCHANGED sysVars
  BY <1>7 DEF sysVars, clocks
<1>8. QED
  BY <1>1, <1>2, <1>3, <1>4, <1>5, <1>6, <1>7 DEF SysNext

LEMMA SysTypeNext ==
  ASSUME SysTypeOK, Queue!IInv, [SysNext]_sysVars
  PROVE  SysTypeOK' /\ Queue!IInv'
<1>1. TypeOK'
  BY TypeNext, CallerStep DEF SysTypeOK
<1>2. Queue!IInv'
  BY QueueStep, QueueInvNext
<1>3. Queue!TypeOK'
  BY <1>2 DEF Queue!IInv
<1>4. QED
  BY <1>1, <1>2, <1>3, OwnTypeNext DEF SysTypeOK

-----------------------------------------------------------------------------
\* The clocks.  A request enters the retry queue with more delay before it
\* than its waiting caller has patience, and both run down together.

LEMMA ClocksNext ==
  ASSUME SysTypeOK, Queue!ExclusiveDelivery, RetriesAreLate,
         DelayCoversTimeout, [SysNext]_sysVars
  PROVE  RetriesAreLate' /\ DelayCoversTimeout'
<1> USE DEF SysTypeOK, OwnTypeOK, TypeOK, Queue!TypeOK, RetriesAreLate,
            DelayCoversTimeout, Patience
<1>1. ASSUME NEW k \in Calls, Call(k)
      PROVE  RetriesAreLate' /\ DelayCoversTimeout'
  <2>1. CASE CallLocal(k)
    BY <2>1 DEF CallLocal, Register, EnsureFails, PublishFails, Resume,
                Expire, Return, Goto, queueVars, clocks
  <2>2. CASE Confirm(k)
    BY <2>2 DEF Confirm, Published, Goto, queueVars
  <2>3. CASE GiveUp(k)
    BY <2>3 DEF GiveUp, Timeout, Goto, queueVars, clocks
  <2>4. QED
    BY <1>1, <2>1, <2>2, <2>3 DEF Call
<1>2. ASSUME NEW k \in Calls, Route(k)
      PROVE  RetriesAreLate' /\ DelayCoversTimeout'
  BY <1>2 DEF Route, Routed, Queue!Publish, clocks
<1>3. ASSUME NEW k \in Calls, ComeBack(k)
      PROVE  RetriesAreLate' /\ DelayCoversTimeout'
  <2>1. k \in unheard => pc[k] # "waiting"
    BY <1>3 DEF ComeBack, Queue!RetryExpires
  <2>2. QED
    BY <1>3, <2>1 DEF ComeBack, Queue!RetryExpires, vars, clocks
<1>4. ASSUME NEW r \in replies, Receive(r)
      PROVE  RetriesAreLate' /\ DelayCoversTimeout'
  BY <1>4 DEF Receive, OnRpcReply, LoseReply, queueVars, clocks
<1>5. ASSUME NEW c \in Channels, NEW k \in Calls, Work(c, k)
      PROVE  RetriesAreLate' /\ DelayCoversTimeout'
  <2> USE DEF vars, clocks, queueVars
  <2>1. CASE Handle(c, k)
    BY <2>1 DEF Handle, Queue!Deliver, Queue!Process, Queue!MoveToDlq,
                Queue!MoveToDlqFails, Queue!broker, Queue!history
  <2>2. CASE Tell(c, k)
    BY <2>2 DEF Tell, Answer
  <2>3. CASE Fail(c, k)
    BY <2>3 DEF Fail, Answer, Queue!ProcessFails, Queue!broker
  <2>4. CASE Finish(c, k)
    <3>1. c \in open => loc[k] = "unacked"
      BY <2>4 DEF Finish, Queue!Ack, Queue!Step, Queue!Held,
                  Queue!ExclusiveDelivery
    <3>2. QED
      BY <2>4, <3>1 DEF Finish, Queue!Ack
  <2>5. CASE Reject(c, k)
    <3>1. c \in open => loc[k] = "unacked"
      BY <2>5 DEF Reject, Queue!Nack, Queue!Step, Queue!Held,
                  Queue!ExclusiveDelivery
    <3>2. QED
      BY <2>5, <3>1 DEF Reject, Queue!Nack
  <2>6. QED
    BY <1>5, <2>1, <2>2, <2>3, <2>4, <2>5 DEF Work
<1>6. ASSUME NEW c \in Channels, Crash(c) \/ Disconnect(c)
      PROVE  RetriesAreLate' /\ DelayCoversTimeout'
  <2>1. \A k \in Calls : loc[k] = "retry" => loc'[k] = "retry"
    BY <1>6 DEF Crash, Disconnect, Queue!CrashReplica, Queue!LoseConnection,
                Queue!GiveBack, Queue!OutageAllowed, Queue!Held,
                Queue!ExclusiveDelivery
  <2>2. \A k \in Calls : loc'[k] = "retry" => loc[k] = "retry"
    BY <1>6 DEF Crash, Disconnect, Queue!CrashReplica, Queue!LoseConnection,
                Queue!GiveBack
  <2>3. UNCHANGED <<pc, unheard, timer, ttl>>
    BY <1>6 DEF Crash, Disconnect, vars, clocks
  <2>4. QED
    BY <2>1, <2>2, <2>3
<1>7. CASE Tick
  BY <1>7 DEF Tick, Less, vars, queueVars
<1>8. CASE UNCHANGED sysVars
  BY <1>8 DEF sysVars, vars, queueVars, clocks
<1>9. QED
  BY <1>1, <1>2, <1>3, <1>4, <1>5, <1>6, <1>7, <1>8 DEF SysNext

\* Even when requests repeat an id, the answers of later attempts come after
\* the call that waited for the first one has ended.
THEOREM RetriesMissTheirCaller == SysSpec => []RetriesAreLate
<1> DEFINE Clocks == /\ SysTypeOK /\ Queue!IInv
                     /\ RetriesAreLate /\ DelayCoversTimeout
<1>1. SysInit => Clocks
  BY SysTypeInit, QueueInvInit DEF SysInit, RetriesAreLate, DelayCoversTimeout
<1>2. Clocks /\ [SysNext]_sysVars => Clocks'
  BY SysTypeNext, ClocksNext DEF Queue!IInv
<1>3. Clocks => RetriesAreLate
  OBVIOUS
<1>4. QED
  <2> HIDE DEF Clocks
  <2>1. QED
    BY <1>1, <1>2, <1>3, PTL DEF SysSpec

-----------------------------------------------------------------------------
\* Answers and effects.

LEMMA EarnedNext ==
  ASSUME SysTypeOK, Queue!PhaseMeaning, AnswersAreEarned, [SysNext]_sysVars
  PROVE  AnswersAreEarned'
<1> USE DEF SysTypeOK, OwnTypeOK, TypeOK, Queue!TypeOK, AnswersAreEarned,
            queueVars
<1>1. ASSUME NEW k \in Calls, Call(k) PROVE AnswersAreEarned'
  BY <1>1 DEF Call, CallLocal, Confirm, GiveUp, Register, EnsureFails,
              PublishFails, Resume, Expire, Published, Timeout
<1>2. ASSUME NEW k \in Calls, Route(k) PROVE AnswersAreEarned'
  BY <1>2 DEF Route, Routed, Queue!Publish
<1>3. ASSUME NEW k \in Calls, ComeBack(k) PROVE AnswersAreEarned'
  BY <1>3 DEF ComeBack, Queue!RetryExpires, vars
<1>4. ASSUME NEW r \in replies, Receive(r) PROVE AnswersAreEarned'
  BY <1>4 DEF Receive, OnRpcReply, LoseReply
<1>5. ASSUME NEW c \in Channels, NEW k \in Calls, Work(c, k)
      PROVE  AnswersAreEarned'
  <2> USE DEF vars, Queue!Step, Queue!broker, Queue!history
  <2>1. CASE Handle(c, k)
    BY <2>1 DEF Handle, Queue!Deliver, Queue!Process, Queue!MoveToDlq,
                Queue!MoveToDlqFails
  <2>2. CASE Tell(c, k)
    BY <2>2 DEF Tell, Answer, Queue!PhaseMeaning
  <2>3. CASE Fail(c, k)
    BY <2>3 DEF Fail, Answer, Queue!ProcessFails
  <2>4. CASE Finish(c, k)
    BY <2>4 DEF Finish, Queue!Ack, Queue!PhaseMeaning
  <2>5. CASE Reject(c, k)
    BY <2>5 DEF Reject, Queue!Nack, Queue!PhaseMeaning
  <2>6. QED
    BY <1>5, <2>1, <2>2, <2>3, <2>4, <2>5 DEF Work
<1>6. ASSUME NEW c \in Channels, Crash(c) \/ Disconnect(c)
      PROVE  AnswersAreEarned'
  BY <1>6 DEF Crash, Disconnect, Queue!CrashReplica, Queue!LoseConnection,
              Queue!GiveBack, Queue!Held, Queue!PhaseMeaning, vars
<1>7. CASE Tick \/ UNCHANGED sysVars
  BY <1>7 DEF Tick, sysVars, vars
<1>8. QED
  BY <1>1, <1>2, <1>3, <1>4, <1>5, <1>6, <1>7 DEF SysNext

LEMMA SysIInvInit == SysInit => SysIInv
<1> SUFFICES ASSUME SysInit PROVE SysIInv
  OBVIOUS
<1>1. IInv /\ Queue!IInv /\ SysTypeOK
  BY IInvInit, QueueInvInit, SysTypeInit DEF SysInit
<1>2. AnswersAreEarned
  BY DEF SysInit, AnswersAreEarned, Init, Queue!Init
<1>3. QED
  BY <1>1, <1>2 DEF SysInit, SysIInv, RetriesAreLate, DelayCoversTimeout

LEMMA SysIInvNext == UniqueIds /\ SysIInv /\ [SysNext]_sysVars => SysIInv'
  BY CallerStep, IInvNext, SysTypeNext, ClocksNext, EarnedNext
     DEF SysIInv, Queue!IInv

\* The inductive invariant: those of the parts, the comparison of the clocks,
\* and that answers come from handlers that have done their work.
THEOREM SysInductiveInvariant == ASSUME UniqueIds PROVE SysSpec => []SysIInv
<1>1. SysIInv /\ [SysNext]_sysVars => SysIInv'
  BY SysIInvNext
<1>2. QED
  BY SysIInvInit, <1>1, PTL DEF SysSpec

-----------------------------------------------------------------------------
\* How often a caller is answered.

LEMMA SpeakersAreFinite ==
  ASSUME IsFiniteSet(Channels), NEW k \in Calls
  PROVE  /\ IsFiniteSet(Speakers(k)) /\ Cardinality(Speakers(k)) \in Nat
         /\ IsFiniteSet(Speakers(k)') /\ Cardinality(Speakers(k)') \in Nat
<1>1. Speakers(k) \in SUBSET Channels /\ Speakers(k)' \in SUBSET Channels
  BY DEF Speakers
<1>2. QED
  BY <1>1, FS_Subset, FS_CardinalityType

\* A step that answers nothing and starts no attempt.
LEMMA NobodySpeaks ==
  ASSUME IsFiniteSet(Channels), SysTypeOK, SysTypeOK', AnswerLedger, NEW k \in Calls,
         answers'[k] = answers[k], tries'[k] = tries[k],
         Speakers(k)' \subseteq Speakers(k)
  PROVE  answers'[k] + Cardinality(Speakers(k)') <= tries'[k]
<1>1. Cardinality(Speakers(k)') <= Cardinality(Speakers(k))
  BY SpeakersAreFinite, FS_Subset
<1>2. QED
  BY <1>1, SpeakersAreFinite
     DEF AnswerLedger, SysTypeOK, TypeOK, Queue!TypeOK

\* A handler answers, or fails and may have: it will not answer again.
LEMMA OneHasSpoken ==
  ASSUME IsFiniteSet(Channels), SysTypeOK, SysTypeOK', AnswerLedger, NEW k \in Calls,
         NEW c \in Speakers(k), answers'[k] <= answers[k] + 1, tries'[k] = tries[k],
         Speakers(k)' \subseteq Speakers(k) \ {c}
  PROVE  answers'[k] + Cardinality(Speakers(k)') <= tries'[k]
<1>1. /\ IsFiniteSet(Speakers(k) \ {c})
      /\ Cardinality(Speakers(k) \ {c}) = Cardinality(Speakers(k)) - 1
  BY SpeakersAreFinite, FS_RemoveElement
<1>2. Cardinality(Speakers(k)') <= Cardinality(Speakers(k)) - 1
  BY <1>1, SpeakersAreFinite, FS_Subset
<1>3. QED
  BY <1>2, SpeakersAreFinite
     DEF AnswerLedger, SysTypeOK, TypeOK, Queue!TypeOK

\* An attempt begins: one more that may answer.
LEMMA OneMoreSpeaks ==
  ASSUME IsFiniteSet(Channels), SysTypeOK, SysTypeOK', AnswerLedger, NEW k \in Calls,
         NEW c, answers'[k] = answers[k], tries'[k] = tries[k] + 1,
         Speakers(k)' \subseteq Speakers(k) \union {c}
  PROVE  answers'[k] + Cardinality(Speakers(k)') <= tries'[k]
<1>1. /\ IsFiniteSet(Speakers(k) \union {c})
      /\ Cardinality(Speakers(k) \union {c}) \in
           {Cardinality(Speakers(k)), Cardinality(Speakers(k)) + 1}
  BY SpeakersAreFinite, FS_AddElement
<1>2. Cardinality(Speakers(k)') <= Cardinality(Speakers(k) \union {c})
  BY <1>1, SpeakersAreFinite, FS_Subset
<1>3. Cardinality(Speakers(k)') <= Cardinality(Speakers(k)) + 1
  BY <1>1, <1>2, SpeakersAreFinite
<1>4. QED
  BY <1>3, SpeakersAreFinite
     DEF AnswerLedger, SysTypeOK, TypeOK, Queue!TypeOK

LEMMA AnswerLedgerNext ==
  ASSUME IsFiniteSet(Channels), SysTypeOK, SysTypeOK', Queue!PhaseMeaning,
         AnswersAreEarned, AnswerLedger, [SysNext]_sysVars
  PROVE  AnswerLedger'
<1> SUFFICES ASSUME NEW k \in Calls
             PROVE  answers'[k] + Cardinality(Speakers(k)') <= tries'[k]
  BY DEF AnswerLedger
<1> DEFINE Quiet == /\ answers'[k] = answers[k] /\ tries'[k] = tries[k]
                    /\ Speakers(k)' \subseteq Speakers(k)
           Goal  == answers'[k] + Cardinality(Speakers(k)') <= tries'[k]
<1>0. Quiet => Goal
  BY NobodySpeaks
<1> USE DEF SysTypeOK, OwnTypeOK, TypeOK, Queue!TypeOK
<1>1. ASSUME NEW j \in Calls, Call(j) PROVE Quiet
  BY <1>1 DEF Call, CallLocal, Confirm, GiveUp, Register, EnsureFails, PublishFails,
              Resume, Expire, Published, Timeout, queueVars, Speakers
<1>2. ASSUME NEW j \in Calls, Route(j) \/ ComeBack(j) PROVE Quiet
  BY <1>2 DEF Route, Routed, ComeBack, Queue!Publish, Queue!RetryExpires, vars, Speakers
<1>3. ASSUME NEW r \in replies, Receive(r) PROVE Quiet
  BY <1>3 DEF Receive, OnRpcReply, LoseReply, queueVars, Speakers
<1>4. ASSUME NEW c \in Channels, Crash(c) \/ Disconnect(c) PROVE Quiet
  BY <1>4 DEF Crash, Disconnect, Queue!CrashReplica, Queue!LoseConnection, vars, Speakers
<1>5. CASE Tick \/ UNCHANGED sysVars
  <2>1. Quiet
    BY <1>5 DEF Tick, sysVars, queueVars, vars, Speakers
  <2>2. QED
    BY <1>0, <2>1
<1>6. ASSUME NEW c \in Channels, NEW j \in Calls, Work(c, j) PROVE Goal
  <2> USE DEF Queue!Step, Queue!broker, Queue!history
  <2>1. CASE Queue!Deliver(c, j) /\ UNCHANGED <<vars, told>>
    <3>1. \A d \in Channels : ~(d = c /\ j = k) => phase'[d][k] = phase[d][k]
      BY <2>1 DEF Queue!Deliver
    <3>2. answers'[k] = answers[k] /\ told' = told
      BY <2>1 DEF vars
    <3>3. Speakers(k)' \subseteq Speakers(k) \union {c}
      BY <3>1, <3>2 DEF Speakers
    <3>4. CASE j = k /\ tries'[k] = tries[k] + 1
      BY <3>2, <3>3, <3>4, OneMoreSpeaks
    <3>5. CASE j = k /\ tries'[k] # tries[k] + 1
      <4>1. Queue!Route(k) # "running" /\ tries'[k] = tries[k]
        BY <2>1, <3>5 DEF Queue!Deliver
      <4>2. Queue!Route(k) \in {"exhausted", "rejecting", "running"}
        BY DEF Queue!Route
      <4>3. phase'[c][k] \notin {"running", "processed"}
        BY <2>1, <3>5, <4>1, <4>2 DEF Queue!Deliver
      <4>4. Quiet
        BY <3>1, <3>2, <4>1, <4>3 DEF Speakers
      <4>5. QED
        BY <1>0, <4>4
    <3>6. CASE j # k
      <4>1. Quiet
        BY <2>1, <3>1, <3>2, <3>6 DEF Queue!Deliver, Speakers
      <4>2. QED
        BY <1>0, <4>1
    <3>7. QED
      BY <3>4, <3>5, <3>6
  <2>2. CASE Queue!Process(c, j) /\ UNCHANGED <<vars, told>>
    <3>1. Quiet
      BY <2>2 DEF Queue!Process, vars, Speakers
    <3>2. QED
      BY <1>0, <3>1
  <2>3. CASE (Queue!MoveToDlq(c, j) \/ Queue!MoveToDlqFails(c, j)) /\ UNCHANGED <<vars, told>>
    <3>1. Quiet
      BY <2>3 DEF Queue!MoveToDlq, Queue!MoveToDlqFails, vars, Speakers
    <3>2. QED
      BY <1>0, <3>1
  <2>4. CASE Tell(c, j)
    <3>1. /\ \A i \in Calls : answers'[i] = IF i = j THEN answers[i] + 1 ELSE answers[i]
          /\ UNCHANGED <<tries, phase>>
          /\ c \in Speakers(j) /\ told' = told \union {<<c, j>>}
      BY <2>4 DEF Tell, Answer, queueVars, Speakers
    <3>2. CASE j = k
      <4>1. Speakers(k)' \subseteq Speakers(k) \ {c}
        BY <2>4, <3>1, <3>2 DEF Tell, Speakers
      <4>2. QED
        BY <3>1, <3>2, <4>1, OneHasSpoken
    <3>3. CASE j # k
      <4>1. Quiet
        BY <3>1, <3>3 DEF Speakers
      <4>2. QED
        BY <1>0, <4>1
    <3>4. QED
      BY <3>2, <3>3
  <2>5. CASE Fail(c, j)
    <3>1. /\ \A i \in Calls : /\ answers'[i] <= answers[i] + 1
                              /\ i # j => answers'[i] = answers[i]
          /\ UNCHANGED <<tries, told>>
          /\ phase[c][j] = "running"
          /\ phase' = [phase EXCEPT ![c][j] = "rejecting"]
      BY <2>5 DEF Fail, Queue!ProcessFails, Answer, vars
    <3>2. CASE j = k
      <4>1. c \in Speakers(k) /\ Speakers(k)' \subseteq Speakers(k) \ {c}
        BY <3>1, <3>2 DEF Speakers
      <4>2. QED
        BY <3>1, <3>2, <4>1, OneHasSpoken
    <3>3. CASE j # k
      <4>1. Quiet
        BY <3>1, <3>3 DEF Speakers
      <4>2. QED
        BY <1>0, <4>1
    <3>4. QED
      BY <3>2, <3>3
  <2>6. CASE Finish(c, j)
    <3>1. /\ UNCHANGED <<answers, tries>> /\ told' = told \ {<<c, j>>}
          /\ phase' = [phase EXCEPT ![c][j] = "idle"]
      BY <2>6 DEF Finish, Queue!Ack, vars
    <3>2. Quiet
      BY <3>1 DEF Speakers
    <3>3. QED
      BY <1>0, <3>2
  <2>7. CASE Reject(c, j)
    <3>1. Quiet
      BY <2>7 DEF Reject, Queue!Nack, vars, Speakers
    <3>2. QED
      BY <1>0, <3>1
  <2>8. QED
    BY <1>6, <2>1, <2>2, <2>3, <2>4, <2>5, <2>6, <2>7 DEF Work, Handle
<1>7. QED
  BY <1>0, <1>1, <1>2, <1>3, <1>4, <1>5, <1>6 DEF SysNext

\* With finitely many consumers a caller is answered at most RPC_MAX_RETRIES
\* times, and once more for each channel lost with its request, whatever ids
\* repeat and whether anybody still waits.
THEOREM AnswersAreFew ==
  ASSUME IsFiniteSet(Channels)
  PROVE  SysSpec => []AnswersAreBounded
<1> DEFINE Known == SysTypeOK /\ Queue!IInv /\ AnswersAreEarned /\ AnswerLedger
<1>1. SysInit => Known
  <2>1. SUFFICES ASSUME SysInit PROVE AnswerLedger
    BY SysTypeInit, QueueInvInit DEF SysInit, AnswersAreEarned, Init, Queue!Init
  <2>2. ASSUME NEW k \in Calls PROVE Speakers(k) = {}
    BY <2>1 DEF SysInit, Queue!Init, Speakers
  <2>3. ASSUME NEW k \in Calls
        PROVE  answers[k] + Cardinality(Speakers(k)) <= tries[k]
    <3>1. Cardinality(Speakers(k)) = 0
      BY <2>2, FS_EmptySet
    <3>2. answers[k] = 0 /\ tries[k] = 0
      BY <2>1 DEF SysInit, Init, Queue!Init
    <3>3. QED
      BY <3>1, <3>2
  <2>4. QED
    BY <2>3 DEF AnswerLedger
<1>2. Known /\ [SysNext]_sysVars => Known'
  BY SysTypeNext, EarnedNext, AnswerLedgerNext DEF Queue!IInv
<1>3. Known => AnswersAreBounded
  <2>1. SUFFICES ASSUME Known, NEW k \in Calls
                 PROVE  answers[k] <= MaxRetries + requeues[k]
    BY DEF AnswersAreBounded
  <2>2. answers[k] <= tries[k]
    BY <2>1, SpeakersAreFinite DEF AnswerLedger, SysTypeOK, TypeOK, Queue!TypeOK
  <2>3. /\ tries[k] <= deaths[k] + requeues[k] + Queue!Attempted(k)
        /\ deaths[k] \in Nat /\ deaths[k] <= MaxRetries
        /\ tries[k] \in Nat /\ requeues[k] \in Nat /\ answers[k] \in Nat
    BY <2>1 DEF Queue!IInv, Queue!AttemptLedger, SysTypeOK, TypeOK, Queue!TypeOK
  <2>4. deaths[k] + Queue!Attempted(k) <= MaxRetries /\ Queue!Attempted(k) \in Nat
    BY <2>3 DEF Queue!Attempted
  <2>5. QED
    BY <2>2, <2>3, <2>4
<1> HIDE DEF Known
<1>4. QED
  BY <1>1, <1>2, <1>3, PTL DEF SysSpec

-----------------------------------------------------------------------------
\* The system implements RemoteCall.

LEMMA RemoteInit == SysInit => Remote!Init
  BY DEF SysInit, Init, Queue!Init, Remote!Init

LEMMA RemoteStep ==
  ASSUME UniqueIds, SysIInv, [SysNext]_sysVars
  PROVE  [Remote!Next]_(Remote!vars)
<1> USE DEF SysIInv, SysTypeOK, TypeOK, Queue!TypeOK, Remote!vars, queueVars
<1>1. ASSUME NEW k \in Calls, CallLocal(k)
      PROVE  Remote!Next \/ UNCHANGED Remote!vars
  <2> USE DEF CallLocal
  <2>1. CASE Register(k)
    BY <1>1, <2>1 DEF Register, Goto
  <2>2. CASE EnsureFails(k)
    <3>1. Remote!GiveUp(k)
      BY <1>1, <2>2 DEF EnsureFails, Goto, Remote!GiveUp
    <3>2. QED
      BY <3>1 DEF Remote!Next
  <2>3. CASE PublishFails(k) \/ Expire(k)
    <3>1. result' = result
      BY <2>3 DEF IInv, AnswerOrigin, PublishFails, Expire, Return, Goto
    <3>2. Remote!GiveUp(k)
      BY <1>1, <2>3, <3>1
         DEF PublishFails, Expire, Return, Goto, Remote!GiveUp
    <3>3. QED
      BY <3>2 DEF Remote!Next
  <2>4. CASE Resume(k)
    <3>1. box[k] = k /\ k \in applied
      BY <2>4 DEF IInv, AnswerOrigin, AnswersAreEarned, Resume
    <3>2. Remote!Succeed(k)
      BY <1>1, <2>4, <3>1 DEF Resume, Return, Goto, Remote!Succeed
    <3>3. QED
      BY <3>2 DEF Remote!Next
  <2>5. QED
    BY <1>1, <2>1, <2>2, <2>3, <2>4
<1>2. ASSUME NEW k \in Calls, Confirm(k) \/ GiveUp(k)
      PROVE  UNCHANGED Remote!vars
  BY <1>2 DEF Confirm, GiveUp, Published, Timeout, Goto
<1>3. ASSUME NEW k \in Calls, Route(k)
      PROVE  Remote!Next \/ UNCHANGED Remote!vars
  <2>1. Remote!Ask(k)
    BY <1>3 DEF Route, Routed, Queue!Publish, Remote!Ask
  <2>2. QED
    BY <2>1 DEF Remote!Next
<1>4. ASSUME NEW k \in Calls, ComeBack(k) PROVE UNCHANGED Remote!vars
  BY <1>4 DEF ComeBack, Queue!RetryExpires, vars
<1>5. ASSUME NEW r \in replies, Receive(r) PROVE UNCHANGED Remote!vars
  BY <1>5 DEF Receive, OnRpcReply, LoseReply
<1>6. ASSUME NEW c \in Channels, NEW k \in Calls, Work(c, k)
      PROVE  Remote!Next \/ UNCHANGED Remote!vars
  <2> USE DEF vars, Queue!Step, Queue!broker, Queue!history
  <2>1. phase[c][k] # "idle" => loc[k] # "unsent"
    BY DEF Queue!IInv, Queue!PhaseMeaning
  <2>2. CASE Handle(c, k)
    <3>1. CASE Queue!Deliver(c, k)
      BY <2>2, <3>1 DEF Handle, Queue!Deliver
    <3>2. CASE Queue!Process(c, k)
      <4>1. Remote!Execute(k)
        BY <2>1, <2>2, <3>2 DEF Handle, Queue!Process, Remote!Execute
      <4>2. QED
        BY <4>1 DEF Remote!Next
    <3>3. CASE Queue!MoveToDlq(c, k)
      <4>1. Remote!Bury(k)
        BY <2>1, <2>2, <3>3 DEF Handle, Queue!MoveToDlq, Remote!Bury
      <4>2. QED
        BY <4>1 DEF Remote!Next
    <3>4. CASE Queue!MoveToDlqFails(c, k)
      <4>1. CASE UNCHANGED <<dlq, doubts>>
        BY <2>2, <3>4, <4>1 DEF Handle, Queue!MoveToDlqFails
      <4>2. CASE dlq' = [dlq EXCEPT ![k] = @ + 1]
        <5>1. Remote!Bury(k)
          BY <2>1, <2>2, <3>4, <4>2 DEF Handle, Queue!MoveToDlqFails, Remote!Bury
        <5>2. QED
          BY <5>1 DEF Remote!Next
      <4>3. QED
        BY <3>4, <4>1, <4>2 DEF Queue!MoveToDlqFails
    <3>5. QED
      BY <2>2, <3>1, <3>2, <3>3, <3>4 DEF Handle
  <2>3. CASE Tell(c, k)
    BY <2>3 DEF Tell, Answer
  <2>4. CASE Fail(c, k)
    <3>1. Remote!Execute(k) \/ UNCHANGED Remote!vars
      BY <2>1, <2>4 DEF Fail, Answer, Queue!ProcessFails, Remote!Execute
    <3>2. QED
      BY <3>1 DEF Remote!Next
  <2>5. CASE Finish(c, k)
    <3>1. k \in applied \/ dlq[k] > 0
      BY <2>5 DEF Finish, Queue!Ack, Queue!IInv, Queue!PhaseMeaning
    <3>2. Remote!Settle(k) \/ UNCHANGED Remote!vars
      BY <2>1, <2>5, <3>1 DEF Finish, Queue!Ack, Remote!Settle
    <3>3. QED
      BY <3>2 DEF Remote!Next
  <2>6. CASE Reject(c, k)
    BY <2>1, <2>6 DEF Reject, Queue!Nack, Queue!IInv, Queue!Held,
                      Queue!ExclusiveDelivery
  <2>7. QED
    BY <1>6, <2>2, <2>3, <2>4, <2>5, <2>6 DEF Work
<1>7. ASSUME NEW c \in Channels, Crash(c) \/ Disconnect(c)
      PROVE  UNCHANGED Remote!vars
  BY <1>7 DEF Crash, Disconnect, Queue!CrashReplica, Queue!LoseConnection,
              Queue!GiveBack, Queue!Held, Queue!IInv,
              Queue!ExclusiveDelivery, vars
<1>8. CASE Tick \/ UNCHANGED sysVars
  BY <1>8 DEF Tick, sysVars, vars
<1>9. QED
  BY <1>1, <1>2, <1>3, <1>4, <1>5, <1>6, <1>7, <1>8 DEF SysNext, Call

\* From end to end: success means executed, and what a caller gave up is
\* executed or buried before the broker forgets it.
THEOREM EndToEnd == ASSUME UniqueIds PROVE SysSpec => ImplementsRemoteCall
<1>1. SysIInv /\ [SysNext]_sysVars => [Remote!Next]_(Remote!vars)
  BY RemoteStep
<1>2. QED
  BY SysInductiveInvariant, RemoteInit, <1>1, PTL
     DEF SysSpec, ImplementsRemoteCall, Remote!Spec

=============================================================================
