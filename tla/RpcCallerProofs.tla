-------------------------- MODULE RpcCallerProofs --------------------------
(***************************************************************************)
(* Proofs about RpcCaller, for every number of calls and of answers.  What *)
(* holds only while no two calls share a correlation id is proved under    *)
(* the assumption UniqueIds.                                               *)
(***************************************************************************)
EXTENDS RpcCaller, TLAPS

USE IdsAssumption, NoCallAssumption, BoundAssumption
    DEF Points, Active, OrNone

-----------------------------------------------------------------------------
\* Type correctness.

LEMMA TypeInit == Init => TypeOK
  BY DEF Init, TypeOK

LEMMA TypeNext == TypeOK /\ [Next]_vars => TypeOK'
<1> SUFFICES ASSUME TypeOK, [Next]_vars PROVE TypeOK'
  OBVIOUS
<1> USE DEF TypeOK
<1>1. ASSUME NEW k \in Calls, CallStep(k) PROVE TypeOK'
  <2>1. CASE Register(k)
    BY <2>1 DEF Register, Goto
  <2>2. CASE EnsureFails(k)
    BY <2>2 DEF EnsureFails, Goto
  <2>3. CASE Published(k)
    BY <2>3 DEF Published, Goto
  <2>4. CASE PublishFails(k)
    BY <2>4 DEF PublishFails, Return, Goto
  <2>5. CASE Resume(k)
    BY <2>5 DEF Resume, Return, Goto
  <2>6. CASE Timeout(k)
    BY <2>6 DEF Timeout, Goto
  <2>7. CASE Expire(k)
    BY <2>7 DEF Expire, Return, Goto
  <2>8. QED
    BY <1>1, <2>1, <2>2, <2>3, <2>4, <2>5, <2>6, <2>7 DEF CallStep
<1>7. ASSUME NEW k \in Calls, Routed(k) PROVE TypeOK'
  BY <1>7 DEF Routed
<1>2. ASSUME NEW k \in Calls, Answer(k) PROVE TypeOK'
  <2>1. answers[k] + 1 \in 1..MaxAnswers
    BY <1>2 DEF Answer
  <2>2. answers' \in [Calls -> 0..MaxAnswers] /\ answers'[k] \in 1..MaxAnswers
    BY <1>2, <2>1 DEF Answer
  <2>3. QED
    BY <1>2, <2>2 DEF Answer
<1>3. ASSUME NEW r \in replies, LoseReply(r) PROVE TypeOK'
  BY <1>3 DEF LoseReply
<1>4. ASSUME NEW r \in replies, OnRpcReply(r) PROVE TypeOK'
  <2>1. r[1] \in Calls
    OBVIOUS
  <2>2. box' \in [Calls -> OrNone]
    BY <1>4, <2>1 DEF OnRpcReply
  <2>3. QED
    BY <1>4, <2>2 DEF OnRpcReply
<1>5. CASE UNCHANGED vars
  BY <1>5 DEF vars
<1>6. QED
  BY <1>1, <1>2, <1>3, <1>4, <1>5, <1>7 DEF Next

\* Every variable keeps its type.
THEOREM TypeCorrect == Spec => []TypeOK
<1>1. QED
  BY TypeInit, TypeNext, PTL DEF Spec

-----------------------------------------------------------------------------
\* The table of futures, with any correlation ids.

LEMMA StaleNext ==
  ASSUME TypeOK, NoStaleFuture, [Next]_vars
  PROVE  NoStaleFuture'
<1> USE DEF TypeOK, NoStaleFuture
<1>1. ASSUME NEW k \in Calls, CallStep(k) PROVE NoStaleFuture'
  <2>1. CASE Register(k)
    BY <2>1 DEF Register, Goto
  <2>2. CASE EnsureFails(k)
    BY <2>2 DEF EnsureFails, Goto
  <2>3. CASE Published(k)
    BY <2>3 DEF Published, Goto
  <2>4. CASE PublishFails(k)
    BY <2>4 DEF PublishFails, Return, Goto
  <2>5. CASE Resume(k)
    BY <2>5 DEF Resume, Return, Goto
  <2>6. CASE Timeout(k)
    BY <2>6 DEF Timeout, Goto
  <2>7. CASE Expire(k)
    BY <2>7 DEF Expire, Return, Goto
  <2>8. QED
    BY <1>1, <2>1, <2>2, <2>3, <2>4, <2>5, <2>6, <2>7 DEF CallStep
<1>2. CASE UNCHANGED <<pc, futures>>
  BY <1>2
<1>3. QED
  BY <1>1, <1>2 DEF Next, vars, Routed, Answer, LoseReply, OnRpcReply

\* Even when requests repeat an id, no entry of the table outlives its call.
THEOREM NoFutureLeaks == Spec => []NoStaleFuture
<1>1. Init => NoStaleFuture
  BY DEF Init, NoStaleFuture
<1>2. TypeOK /\ NoStaleFuture /\ [Next]_vars => NoStaleFuture'
  BY StaleNext
<1>3. QED
  BY <1>1, <1>2, TypeCorrect, PTL DEF Spec

LEMMA ReplyOriginNext ==
  ASSUME TypeOK, ReplyOrigin, [Next]_vars
  PROVE  ReplyOrigin'
<1> USE DEF TypeOK, ReplyOrigin
<1>1. ASSUME NEW k \in Calls, CallStep(k) PROVE ReplyOrigin'
  BY <1>1 DEF CallStep, Register, EnsureFails, Published, PublishFails,
              Resume, Timeout, Expire
<1>5. ASSUME NEW k \in Calls, Routed(k) PROVE ReplyOrigin'
  BY <1>5 DEF Routed
<1>2. ASSUME NEW k \in Calls, Answer(k) PROVE ReplyOrigin'
  <2>1. ASSUME NEW r \in replies' PROVE r[2] <= answers'[r[1]]
    <3>1. CASE r \in replies
      BY <1>2, <3>1 DEF Answer
    <3>2. CASE r = <<k, answers'[k]>>
      BY <1>2, <3>2 DEF Answer
    <3>3. QED
      BY <1>2, <2>1, <3>1, <3>2 DEF Answer
  <2>2. ASSUME NEW j \in Calls, answers'[j] > 0 PROVE j \in queued'
    BY <1>2, <2>2 DEF Answer
  <2>3. QED
    BY <2>1, <2>2
<1>3. CASE replies' \subseteq replies /\ UNCHANGED <<answers, queued>>
  BY <1>3
<1>4. QED
  BY <1>1, <1>2, <1>3, <1>5 DEF Next, vars, LoseReply, OnRpcReply

\* A reply meets a future under its own id, or none.
LEMMA MatchNext ==
  ASSUME TypeOK, NoStaleFuture, ReplyOrigin, AnswersMatchIds, [Next]_vars
  PROVE  AnswersMatchIds'
<1> USE DEF TypeOK, AnswersMatchIds
<1>1. ASSUME NEW k \in Calls, Resume(k) \/ PublishFails(k) \/ Expire(k)
      PROVE  AnswersMatchIds'
  BY <1>1 DEF Resume, PublishFails, Expire, Return
<1>2. ASSUME NEW k \in Calls, Answer(k) PROVE AnswersMatchIds'
  <2>1. /\ UNCHANGED <<box, result>>
        /\ \A j \in Calls : answers[j] > 0 => answers'[j] > 0
    BY <1>2 DEF Answer
  <2>2. QED
    BY <2>1
<1>3. ASSUME NEW r \in replies, OnRpcReply(r) PROVE AnswersMatchIds'
  <2> DEFINE owner == futures[IdOf[r[1]]]
  <2>1. r[1] \in Calls /\ answers[r[1]] > 0 /\ IdOf[r[1]] \in Ids
    BY DEF ReplyOrigin
  <2>2. CASE Pending(owner)
    <3>1. owner \in Calls /\ IdOf[owner] = IdOf[r[1]]
      BY <2>1, <2>2 DEF Pending, NoStaleFuture
    <3>2. QED
      BY <1>3, <2>1, <2>2, <3>1 DEF OnRpcReply
  <2>3. CASE ~Pending(owner)
    BY <1>3, <2>3 DEF OnRpcReply
  <2>4. QED
    BY <2>2, <2>3
<1>4. CASE UNCHANGED <<box, answers, result>>
  BY <1>4
<1>5. QED
  BY <1>1, <1>2, <1>3, <1>4
     DEF Next, vars, CallStep, Register, EnsureFails, Published, Timeout, Routed, LoseReply

\* Answers cross only between calls that share an id: a call returns what a
\* server answered to a request with the id of its own, or none.
THEOREM CrossingIsConfined == Spec => []AnswersMatchIds
<1>1. Init => TypeOK /\ NoStaleFuture /\ ReplyOrigin /\ AnswersMatchIds
  BY TypeInit DEF Init, NoStaleFuture, ReplyOrigin, AnswersMatchIds
<1>2. TypeOK /\ NoStaleFuture /\ ReplyOrigin /\ AnswersMatchIds /\ [Next]_vars =>
        (TypeOK /\ NoStaleFuture /\ ReplyOrigin /\ AnswersMatchIds)'
  BY TypeNext, StaleNext, ReplyOriginNext, MatchNext
<1>3. QED
  BY <1>1, <1>2, PTL DEF Spec

-----------------------------------------------------------------------------
\* One call whose correlation id no other call has, whatever the others do
\* with theirs.

LEMMA UnsharedNext ==
  ASSUME TypeOK, NEW k \in Calls, Unshared(k),
         pc[k] \in Active => futures[IdOf[k]] = k, [Next]_vars
  PROVE  (pc[k] \in Active => futures[IdOf[k]] = k)'
<1> USE DEF TypeOK, Unshared
<1>1. ASSUME NEW j \in Calls, CallStep(j)
      PROVE  (pc[k] \in Active => futures[IdOf[k]] = k)'
  <2>1. CASE Register(j)
    BY <2>1 DEF Register, Goto
  <2>2. CASE EnsureFails(j) \/ Published(j) \/ Timeout(j)
    BY <2>2 DEF EnsureFails, Published, Timeout, Goto
  <2>3. CASE PublishFails(j) \/ Resume(j) \/ Expire(j)
    BY <2>3 DEF PublishFails, Resume, Expire, Return, Goto
  <2>4. QED
    BY <1>1, <2>1, <2>2, <2>3 DEF CallStep
<1>2. CASE UNCHANGED <<pc, futures>>
  BY <1>2
<1>3. QED
  BY <1>1, <1>2 DEF Next, vars, Routed, Answer, LoseReply, OnRpcReply

\* Repeated ids hurt nobody else: a call with an id of its own returns its
\* own answer or none, and a reply that comes while it waits is given to it.
THEOREM UnsharedCallsAreSafe ==
  ASSUME NEW k \in Calls, Unshared(k)
  PROVE  Spec => /\ [](result[k] # NoCall => result[k] = k)
                 /\ [][\A n \in 1..MaxAnswers :
                        OnRpcReply(<<k, n>>) /\ Pending(k) => box'[k] = k]_vars
<1> DEFINE Reachable == pc[k] \in Active => futures[IdOf[k]] = k
           Given     == \A n \in 1..MaxAnswers :
                          OnRpcReply(<<k, n>>) /\ Pending(k) => box'[k] = k
<1>1. TypeOK /\ AnswersMatchIds => (result[k] # NoCall => result[k] = k)
  BY DEF TypeOK, AnswersMatchIds, Unshared
<1>2. Init => Reachable
  BY DEF Init
<1>3. TypeOK /\ Reachable /\ [Next]_vars => Reachable'
  BY UnsharedNext
<1>4. TypeOK /\ Reachable /\ [Next]_vars => [Given]_vars
  BY DEF TypeOK, Pending, OnRpcReply
<1> HIDE DEF Reachable
<1>5. QED
  BY <1>1, <1>2, <1>3, <1>4, TypeCorrect, CrossingIsConfined, PTL DEF Spec

-----------------------------------------------------------------------------
\* With distinct correlation ids.

LEMMA ReachableNext ==
  ASSUME UniqueIds, TypeOK, CallIsReachable, [Next]_vars
  PROVE  CallIsReachable'
<1> USE DEF TypeOK, CallIsReachable, UniqueIds
<1>1. ASSUME NEW k \in Calls, CallStep(k) PROVE CallIsReachable'
  <2>1. CASE Register(k)
    BY <2>1 DEF Register, Goto
  <2>2. CASE EnsureFails(k)
    BY <2>2 DEF EnsureFails, Goto
  <2>3. CASE Published(k)
    BY <2>3 DEF Published, Goto
  <2>4. CASE PublishFails(k)
    BY <2>4 DEF PublishFails, Return, Goto
  <2>5. CASE Resume(k)
    BY <2>5 DEF Resume, Return, Goto
  <2>6. CASE Timeout(k)
    BY <2>6 DEF Timeout, Goto
  <2>7. CASE Expire(k)
    BY <2>7 DEF Expire, Return, Goto
  <2>8. QED
    BY <1>1, <2>1, <2>2, <2>3, <2>4, <2>5, <2>6, <2>7 DEF CallStep
<1>2. CASE UNCHANGED <<pc, futures>>
  BY <1>2
<1>3. QED
  BY <1>1, <1>2 DEF Next, vars, Routed, Answer, LoseReply, OnRpcReply

\* A reply is given to nobody but the call it answers.
LEMMA ReplyOwner ==
  ASSUME UniqueIds, TypeOK, NoStaleFuture, NEW r \in replies,
         futures[IdOf[r[1]]] # NoCall
  PROVE  futures[IdOf[r[1]]] = r[1]
<1>1. r[1] \in Calls /\ IdOf[r[1]] \in Ids
  BY DEF TypeOK
<1>2. futures[IdOf[r[1]]] \in Calls
  BY <1>1 DEF TypeOK
<1>3. IdOf[futures[IdOf[r[1]]]] = IdOf[r[1]]
  BY <1>1 DEF NoStaleFuture
<1>4. QED
  BY <1>1, <1>2, <1>3 DEF UniqueIds

LEMMA AnswerOriginNext ==
  ASSUME UniqueIds, TypeOK, NoStaleFuture, AnswerOrigin, ReplyOrigin,
         [Next]_vars
  PROVE  AnswerOrigin'
<1> USE DEF TypeOK, AnswerOrigin
<1>1. ASSUME NEW k \in Calls, CallStep(k) PROVE AnswerOrigin'
  <2>1. CASE Register(k)
    BY <2>1 DEF Register, Goto
  <2>2. CASE EnsureFails(k)
    BY <2>2 DEF EnsureFails, Goto
  <2>3. CASE Published(k)
    BY <2>3 DEF Published, Goto
  <2>4. CASE PublishFails(k)
    BY <2>4 DEF PublishFails, Return, Goto
  <2>5. CASE Resume(k)
    BY <2>5 DEF Resume, Return, Goto
  <2>6. CASE Timeout(k)
    BY <2>6 DEF Timeout, Goto
  <2>7. CASE Expire(k)
    BY <2>7 DEF Expire, Return, Goto
  <2>8. QED
    BY <1>1, <2>1, <2>2, <2>3, <2>4, <2>5, <2>6, <2>7 DEF CallStep
<1>2. ASSUME NEW k \in Calls, Answer(k) PROVE AnswerOrigin'
  BY <1>2 DEF Answer
<1>3. ASSUME NEW r \in replies, OnRpcReply(r) PROVE AnswerOrigin'
  <2>1. r[1] \in Calls /\ answers[r[1]] > 0
    BY DEF ReplyOrigin
  <2>2. CASE Pending(futures[IdOf[r[1]]])
    <3>1. futures[IdOf[r[1]]] = r[1]
      BY <2>2, ReplyOwner DEF Pending
    <3>2. QED
      BY <1>3, <2>1, <2>2, <3>1 DEF OnRpcReply
  <2>3. CASE ~Pending(futures[IdOf[r[1]]])
    BY <1>3, <2>3 DEF OnRpcReply
  <2>4. QED
    BY <2>2, <2>3
<1>4. CASE UNCHANGED <<pc, box, answers, result>>
  BY <1>4
<1>5. QED
  BY <1>1, <1>2, <1>3, <1>4 DEF Next, vars, Routed, LoseReply

LEMMA OwnAnswerNext ==
  ASSUME TypeOK, AnswerOrigin, OwnAnswer, [Next]_vars
  PROVE  OwnAnswer'
<1> USE DEF TypeOK, OwnAnswer
<1>1. ASSUME NEW k \in Calls, Resume(k) PROVE OwnAnswer'
  BY <1>1 DEF AnswerOrigin, Resume, Return
<1>2. ASSUME NEW k \in Calls, PublishFails(k) \/ Expire(k) PROVE OwnAnswer'
  BY <1>2 DEF PublishFails, Expire, Return
<1>3. CASE UNCHANGED result
  BY <1>3
<1>4. QED
  BY <1>1, <1>2, <1>3
     DEF Next, vars, CallStep, Register, EnsureFails, Published, Timeout,
         Routed, Answer, LoseReply, OnRpcReply

LEMMA IInvInit == Init => IInv
  BY TypeInit DEF Init, IInv, OwnAnswer, NoStaleFuture, CallIsReachable,
                  AnswerOrigin, ReplyOrigin

LEMMA IInvNext == UniqueIds /\ IInv /\ [Next]_vars => IInv'
  BY TypeNext, StaleNext, ReachableNext, ReplyOriginNext, AnswerOriginNext,
     OwnAnswerNext DEF IInv

\* The inductive invariant: what the future of a call and the table of
\* futures can hold.
THEOREM InductiveInvariant == ASSUME UniqueIds PROVE Spec => []IInv
<1>1. IInv /\ [Next]_vars => IInv'
  BY IInvNext
<1>2. QED
  BY IInvInit, <1>1, PTL DEF Spec

\* While no correlation id is repeated, a call returns the answer to its own
\* request or none, whatever replies are late, repeated or lost.
THEOREM AnswersAreNotCrossed == ASSUME UniqueIds PROVE Spec => []OwnAnswer
<1>1. IInv => OwnAnswer
  BY DEF IInv
<1>2. QED
  BY <1>1, InductiveInvariant, PTL

\* A reply that arrives in time reaches its call.
THEOREM RepliesReachCallers ==
  ASSUME UniqueIds PROVE Spec => ReplyReachesCaller
<1>1. IInv /\ [Next]_vars =>
        [\A r \in replies :
           OnRpcReply(r) /\ Pending(r[1]) => box'[r[1]] = r[1]]_vars
  <2>1. SUFFICES ASSUME IInv, NEW r \in replies, OnRpcReply(r), Pending(r[1])
                 PROVE  box'[r[1]] = r[1]
    OBVIOUS
  <2>2. r[1] \in Calls /\ futures[IdOf[r[1]]] = r[1]
    BY <2>1 DEF IInv, TypeOK, Pending, CallIsReachable
  <2>3. QED
    BY <2>1, <2>2 DEF IInv, TypeOK, OnRpcReply
<1>2. QED
  BY <1>1, InductiveInvariant, PTL DEF Spec, ReplyReachesCaller

-----------------------------------------------------------------------------
\* The bus implements RequestReply.

LEMMA InitRefines == Init => Promise!Init
  BY DEF Init, Promise!Init

LEMMA StepRefines ==
  ASSUME UniqueIds, IInv, [Next]_vars
  PROVE  [Promise!Next]_(Promise!vars)
<1> USE DEF IInv, TypeOK, Promise!vars
<1>1. ASSUME NEW k \in Calls, CallStep(k)
      PROVE  Promise!Next \/ UNCHANGED Promise!vars
  <2>1. CASE Register(k)
    BY <2>1 DEF Register, Goto
  <2>2. CASE EnsureFails(k)
    <3>1. Promise!GiveUp(k)
      BY <2>2 DEF EnsureFails, Goto, Promise!GiveUp
    <3>2. QED
      BY <3>1 DEF Promise!Next
  <2>3. CASE Published(k)
    BY <2>3 DEF Published, Goto
  <2>4. CASE PublishFails(k)
    <3>1. result' = result
      BY <2>4 DEF AnswerOrigin, PublishFails, Return, Goto
    <3>2. Promise!GiveUp(k)
      BY <2>4, <3>1 DEF PublishFails, Return, Goto, Promise!GiveUp
    <3>3. QED
      BY <3>2 DEF Promise!Next
  <2>5. CASE Resume(k)
    <3>1. box[k] = k /\ answers[k] > 0
      BY <2>5 DEF AnswerOrigin, Resume
    <3>2. Promise!Succeed(k)
      BY <2>5, <3>1 DEF Resume, Return, Goto, Promise!Succeed
    <3>3. QED
      BY <3>2 DEF Promise!Next
  <2>6. CASE Timeout(k)
    BY <2>6 DEF Timeout, Goto
  <2>7. CASE Expire(k)
    <3>1. result' = result
      BY <2>7 DEF AnswerOrigin, Expire, Return, Goto
    <3>2. Promise!GiveUp(k)
      BY <2>7, <3>1 DEF Expire, Return, Goto, Promise!GiveUp
    <3>3. QED
      BY <3>2 DEF Promise!Next
  <2>8. QED
    BY <1>1, <2>1, <2>2, <2>3, <2>4, <2>5, <2>6, <2>7 DEF CallStep
<1>6. ASSUME NEW k \in Calls, Routed(k) PROVE Promise!Ask(k)
  BY <1>6 DEF Routed, Promise!Ask
<1>2. ASSUME NEW k \in Calls, Answer(k) PROVE Promise!Answer(k)
  BY <1>2 DEF Answer, Promise!Answer
<1>3. ASSUME NEW r \in replies, LoseReply(r) \/ OnRpcReply(r)
      PROVE  UNCHANGED Promise!vars
  BY <1>3 DEF LoseReply, OnRpcReply
<1>4. CASE UNCHANGED vars
  BY <1>4 DEF vars
<1>5. QED
  BY <1>1, <1>2, <1>3, <1>4, <1>6 DEF Next, Promise!Next

\* Callers see single-answer request and reply: timeouts, late replies and
\* failed publishes show only as calls that end with none.
THEOREM Implementation == ASSUME UniqueIds PROVE Spec => ImplementsRequestReply
<1>1. IInv /\ [Next]_vars => [Promise!Next]_(Promise!vars)
  BY StepRefines
<1>2. QED
  BY InductiveInvariant, InitRefines, <1>1, PTL
     DEF Spec, ImplementsRequestReply, Promise!Spec

=============================================================================
