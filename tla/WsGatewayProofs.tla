-------------------------- MODULE WsGatewayProofs --------------------------
(***************************************************************************)
(* Proofs about WsGateway for any number of connections and events and any *)
(* timeouts.  The registry is changed by the endpoints, by the idle        *)
(* checker and by broadcasts; the invariant says why they never disagree   *)
(* with the sockets: whoever removes an entry has first seen, or made, its *)
(* socket not open, and a socket never opens again.                        *)
(***************************************************************************)
EXTENDS WsGateway, TLAPS

USE TimesAssumption

\* The types are an invariant.
THEOREM TypeCorrect == Spec => []TypeOK
<1>1. Init => TypeOK
  <2> SUFFICES ASSUME Init PROVE TypeOK
    OBVIOUS
  <2>1. 0 \in 0..MaxTime /\ PingInterval \in Nat
    OBVIOUS
  <2>2. /\ now \in 0..MaxTime /\ sweptAt \in 0..MaxTime
        /\ since \in [Conns -> 0..MaxTime] /\ stamp \in [Conns -> 0..MaxTime]
    BY <2>1 DEF Init
  <2>3. /\ phase \in [Events -> {"queued", "sending", "done"}]
        /\ pc \in [Conns -> {"new", "validating", "greeting", "loop",
                              "leaving", "ended"}]
        /\ sock \in [Conns -> {"open", "gone", "closed"}]
    BY DEF Init
  <2>4. /\ todo \in [Events -> SUBSET Conns] /\ writing \in [Events -> SUBSET Conns]
        /\ audience \in [Events -> SUBSET Conns]
        /\ got \in [Events -> SUBSET Conns]
    BY DEF Init
  <2>5. /\ busy \in BOOLEAN /\ wake \in Nat
        /\ registry \in SUBSET Conns /\ sweep \in SUBSET Conns
        /\ closing \in SUBSET Conns
    BY <2>1 DEF Init
  <2> QED
    BY <2>2, <2>3, <2>4, <2>5 DEF TypeOK
<1>2. TypeOK /\ [Next]_vars => TypeOK'
  <2> SUFFICES ASSUME TypeOK, [Next]_vars PROVE TypeOK'
    OBVIOUS
  <2> USE DEF TypeOK, Remove, endpoints, checker, casts
  <2>1. CASE Tick
    BY <2>1 DEF Tick
  <2>2. ASSUME NEW c \in Conns, ClientLeaves(c) PROVE TypeOK'
    BY <2>2 DEF ClientLeaves
  <2>3. ASSUME NEW c \in Conns, Endpoint(c) PROVE TypeOK'
    <3>1. CASE Accept(c)
      BY <3>1 DEF Accept, Goto
    <3>2. CASE Reject(c)
      BY <3>2 DEF Reject, Goto
    <3>3. CASE Register(c)
      BY <3>3 DEF Register, Goto
    <3>4. CASE Greet(c)
      BY <3>4 DEF Greet, Goto
    <3>5. CASE Receive(c)
      BY <3>5 DEF Receive
    <3>6. CASE Disconnected(c)
      BY <3>6 DEF Disconnected, Goto
    <3>7. CASE Close(c)
      BY <3>7 DEF Close, Goto
    <3>8. CASE Finally(c)
      BY <3>8 DEF Finally, Goto
    <3> QED
      BY <2>3, <3>1, <3>2, <3>3, <3>4, <3>5, <3>6, <3>7, <3>8
      DEF Endpoint, Breaks, IdleTimesOut
  <2>4. CASE Checker
    <3>1. CASE StartSweep
      BY <3>1 DEF StartSweep
    <3>2. CASE Sleep
      <4>1. now + PingInterval \in Nat
        OBVIOUS
      <4> QED
        BY <3>2, <4>1 DEF Sleep
    <3>3. ASSUME NEW c \in Conns, Spare(c) PROVE TypeOK'
      BY <3>3 DEF Spare
    <3>4. ASSUME NEW c \in Conns, Reap(c) PROVE TypeOK'
      BY <3>4 DEF Reap
    <3>5. ASSUME NEW c \in Conns, Drop(c) PROVE TypeOK'
      BY <3>5 DEF Drop
    <3> QED
      BY <2>4, <3>1, <3>2, <3>3, <3>4, <3>5 DEF Checker
  <2>5. ASSUME NEW e \in Events, Broadcast(e) PROVE TypeOK'
    <3>1. CASE StartCast(e)
      BY <3>1 DEF StartCast
    <3>2. ASSUME NEW c \in Conns, Deliver(e, c) PROVE TypeOK'
      BY <3>2 DEF Deliver, Sent
    <3>3. ASSUME NEW c \in Conns, Skip(e, c) PROVE TypeOK'
      BY <3>3 DEF Skip, Sent
    <3>4. ASSUME NEW c \in Conns, SendFails(e, c) PROVE TypeOK'
      BY <3>4 DEF SendFails, Sent
    <3>5. ASSUME NEW c \in Conns, Write(e, c) PROVE TypeOK'
      BY <3>5 DEF Write
    <3>6. ASSUME NEW c \in Conns, Unnoticed(e, c) PROVE TypeOK'
      BY <3>6 DEF Unnoticed, Sent
    <3> QED
      BY <2>5, <3>1, <3>2, <3>3, <3>4, <3>5, <3>6 DEF Broadcast, Proceed
  <2>6. CASE UNCHANGED vars
    BY <2>6 DEF vars
  <2> QED
    BY <2>1, <2>2, <2>3, <2>4, <2>5, <2>6 DEF Next
<1> QED
  BY <1>1, <1>2, PTL DEF Spec

\* Every step keeps the rest of the invariant.
LEMMA StepKeepsIInv ==
  ASSUME IInv, TypeOK', [Next]_vars PROVE IInv'
<1> USE DEF TypeOK, Remove, endpoints, checker, casts, IInv,
            RegistryMatchesSockets, GivenUpIsClosed, CastLedger
<1>1. CASE Tick
  BY <1>1 DEF Tick
<1>2. ASSUME NEW c \in Conns, ClientLeaves(c) PROVE IInv'
  BY <1>2 DEF ClientLeaves
<1>3. ASSUME NEW c \in Conns, Endpoint(c) PROVE IInv'
  <2>1. CASE Accept(c)
    BY <2>1 DEF Accept, Goto
  <2>2. CASE Reject(c)
    BY <2>2 DEF Reject, Goto
  <2>3. CASE Register(c)
    BY <2>3 DEF Register, Goto
  <2>4. CASE Greet(c)
    BY <2>4 DEF Greet, Goto
  <2>5. CASE Receive(c)
    BY <2>5 DEF Receive
  <2>6. CASE Disconnected(c)
    BY <2>6 DEF Disconnected, Goto
  <2>7. CASE Close(c)
    BY <2>7 DEF Close, Goto
  <2>8. CASE Finally(c)
    BY <2>8 DEF Finally, Goto
  <2> QED
    BY <1>3, <2>1, <2>2, <2>3, <2>4, <2>5, <2>6, <2>7, <2>8
    DEF Endpoint, Breaks, IdleTimesOut
<1>4. CASE Checker
  <2>1. CASE StartSweep
    BY <2>1 DEF StartSweep
  <2>2. CASE Sleep
    BY <2>2 DEF Sleep
  <2>3. ASSUME NEW c \in Conns, Spare(c) PROVE IInv'
    BY <2>3 DEF Spare
  <2>4. ASSUME NEW c \in Conns, Reap(c) PROVE IInv'
    BY <2>4 DEF Reap
  <2>5. ASSUME NEW c \in Conns, Drop(c) PROVE IInv'
    BY <2>5 DEF Drop
  <2> QED
    BY <1>4, <2>1, <2>2, <2>3, <2>4, <2>5 DEF Checker
<1>5. ASSUME NEW e \in Events, Broadcast(e) PROVE IInv'
  <2>1. CASE StartCast(e)
    BY <2>1 DEF StartCast
  <2>2. ASSUME NEW c \in Conns, Deliver(e, c) PROVE IInv'
    BY <2>2 DEF Deliver, Sent
  <2>3. ASSUME NEW c \in Conns, Skip(e, c) PROVE IInv'
    BY <2>3 DEF Skip, Sent
  <2>4. ASSUME NEW c \in Conns, SendFails(e, c) PROVE IInv'
    BY <2>4 DEF SendFails, Sent
  <2>5. ASSUME NEW c \in Conns, Write(e, c) PROVE IInv'
    BY <2>5 DEF Write
  <2>6. ASSUME NEW c \in Conns, Unnoticed(e, c) PROVE IInv'
    BY <2>6 DEF Unnoticed, Sent
  <2> QED
    BY <1>5, <2>1, <2>2, <2>3, <2>4, <2>5, <2>6 DEF Broadcast, Proceed
<1>6. CASE UNCHANGED vars
  BY <1>6 DEF vars
<1> QED
  BY <1>1, <1>2, <1>3, <1>4, <1>5, <1>6 DEF Next

\* Registry, sockets and the ledgers of the broadcasts together are an
\* inductive invariant.
THEOREM InductiveInvariant == Spec => []IInv
<1>1. Init /\ TypeOK => IInv
  BY DEF Init, IInv, RegistryMatchesSockets, GivenUpIsClosed, CastLedger
<1>2. IInv /\ TypeOK' /\ [Next]_vars => IInv'
  BY StepKeepsIInv
<1> QED
  BY <1>1, <1>2, TypeCorrect, PTL DEF Spec

\* Endpoints, idle checker and broadcasts keep the registry in step with the
\* sockets for any number of connections.
THEOREM RegistryIsAccurate == Spec => []RegistryMatchesSockets
<1>1. IInv => RegistryMatchesSockets
  BY DEF IInv
<1> QED
  BY <1>1, InductiveInvariant, PTL

\* A finished broadcast missed no open connection that was registered when it
\* began, whatever happened to the others.
THEOREM BroadcastsAreComplete == Spec => []BroadcastReaches
<1>1. IInv => BroadcastReaches
  BY DEF IInv, CastLedger, BroadcastReaches, TypeOK
<1> QED
  BY <1>1, InductiveInvariant, PTL

-----------------------------------------------------------------------------
\* To whom a broadcast sends.

LEMMA SentOnceNext ==
  ASSUME TypeOK, CastLedger, SentOnce, [Next]_vars PROVE SentOnce'
<1> USE DEF TypeOK, CastLedger, SentOnce, casts
<1>1. ASSUME NEW e \in Events, Broadcast(e) PROVE SentOnce'
  <2>1. CASE StartCast(e)
    BY <1>1, <2>1 DEF StartCast
  <2>2. ASSUME NEW c \in Conns, Deliver(e, c) PROVE SentOnce'
    BY <2>2 DEF Deliver, Sent
  <2>3. ASSUME NEW c \in Conns, Skip(e, c) \/ Unnoticed(e, c) \/ SendFails(e, c)
        PROVE  SentOnce'
    BY <2>3 DEF Skip, Unnoticed, SendFails, Sent
  <2>4. ASSUME NEW c \in Conns, Write(e, c) PROVE SentOnce'
    BY <2>4 DEF Write
  <2>5. QED
    BY <1>1, <2>1, <2>2, <2>3, <2>4 DEF Broadcast, Proceed
<1>2. ASSUME NEW c \in Conns, Endpoint(c) PROVE UNCHANGED casts
  BY <1>2 DEF Endpoint, Accept, Reject, Register, Greet, Receive, Disconnected, Breaks,
              IdleTimesOut, Close, Finally
<1>3. CASE Checker
  BY <1>3 DEF Checker, StartSweep, Sleep, Spare, Reap, Drop
<1>4. CASE UNCHANGED casts
  BY <1>4
<1>5. QED
  BY <1>1, <1>2, <1>3, <1>4 DEF Next, vars, Tick, ClientLeaves

\* Every client registered at the start of a broadcast is sent the event at
\* most once, and nobody else is.
THEOREM BroadcastsDoNotRepeat == Spec => []SentOnce
<1>1. Init => SentOnce
  BY DEF Init, SentOnce
<1>2. IInv /\ SentOnce /\ [Next]_vars => SentOnce'
  BY SentOnceNext DEF IInv
<1>3. QED
  BY <1>1, <1>2, InductiveInvariant, PTL DEF Spec

-----------------------------------------------------------------------------
\* Whom the idle checker closes.

LEMMA OldNext ==
  ASSUME IInv, TypeOK', CheckerClock, ReapedWasOld, [Next]_vars
  PROVE  (CheckerClock /\ ReapedWasOld)'
<1> DEFINE Inv == CheckerClock /\ ReapedWasOld
<1> USE DEF TypeOK, Remove, endpoints, checker, casts, IInv,
            RegistryMatchesSockets, CheckerClock, ReapedWasOld
<1>1. CASE Tick
  BY <1>1 DEF Tick
<1>2. ASSUME NEW c \in Conns, ClientLeaves(c) PROVE Inv'
  BY <1>2 DEF ClientLeaves
<1>3. ASSUME NEW c \in Conns, Endpoint(c) PROVE Inv'
  <2>1. CASE Accept(c) \/ Reject(c)
    BY <2>1 DEF Accept, Reject, Goto
  <2>2. CASE Register(c)
    BY <2>2 DEF Register, Goto
  <2>3. CASE Greet(c) \/ Receive(c)
    BY <2>3 DEF Greet, Receive, Goto
  <2>4. CASE Disconnected(c)
    BY <2>4 DEF Disconnected, Goto
  <2>5. CASE Close(c)
    BY <2>5 DEF Close, Goto
  <2>6. CASE Finally(c)
    BY <2>6 DEF Finally, Goto
  <2> QED
    BY <1>3, <2>1, <2>2, <2>3, <2>4, <2>5, <2>6 DEF Endpoint, Breaks, IdleTimesOut
<1>4. CASE Checker
  <2>1. CASE StartSweep \/ Sleep
    BY <2>1 DEF StartSweep, Sleep
  <2>2. ASSUME NEW c \in Conns, Spare(c) PROVE Inv'
    BY <2>2 DEF Spare
  <2>3. ASSUME NEW c \in Conns, Reap(c) PROVE Inv'
    BY <2>3 DEF Reap
  <2>4. ASSUME NEW c \in Conns, Drop(c) PROVE Inv'
    BY <2>4 DEF Drop
  <2> QED
    BY <1>4, <2>1, <2>2, <2>3, <2>4 DEF Checker
<1>5. ASSUME NEW e \in Events, Broadcast(e) PROVE Inv'
  <2>1. CASE StartCast(e)
    BY <2>1 DEF StartCast
  <2>2. ASSUME NEW c \in Conns, Deliver(e, c) PROVE Inv'
    BY <2>2 DEF Deliver, Sent
  <2>3. ASSUME NEW c \in Conns, Skip(e, c) \/ Unnoticed(e, c) PROVE Inv'
    BY <2>3 DEF Skip, Unnoticed, Sent
  <2>4. ASSUME NEW c \in Conns, SendFails(e, c) PROVE Inv'
    BY <2>4 DEF SendFails, Sent
  <2>5. ASSUME NEW c \in Conns, Write(e, c) PROVE Inv'
    BY <2>5 DEF Write
  <2> QED
    BY <1>5, <2>1, <2>2, <2>3, <2>4, <2>5 DEF Broadcast, Proceed
<1>6. CASE UNCHANGED vars
  BY <1>6 DEF vars
<1> QED
  BY <1>1, <1>2, <1>3, <1>4, <1>5, <1>6 DEF Next

\* The checker closes no connection that is younger than the idle timeout:
\* what it measures is the age, not (as ReapedWasIdle claims) the silence.
THEOREM OnlyTheOldAreReaped == Spec => []ReapedWasOld
<1>1. Init => CheckerClock /\ ReapedWasOld
  BY DEF Init, CheckerClock, ReapedWasOld
<1>2. IInv /\ IInv' /\ CheckerClock /\ ReapedWasOld /\ [Next]_vars =>
        (CheckerClock /\ ReapedWasOld)'
  BY OldNext DEF IInv
<1>3. QED
  BY <1>1, <1>2, InductiveInvariant, PTL DEF Spec

=============================================================================
