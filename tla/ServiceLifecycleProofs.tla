----------------------- MODULE ServiceLifecycleProofs -----------------------
(***************************************************************************)
(* Proofs about ServiceLifecycle, for every number of coroutines, of       *)
(* connections and of listeners.                                           *)
(***************************************************************************)
EXTENDS ServiceLifecycle, TLAPS

USE NoConnAssumption, MainAssumption, RedisAssumption
    DEF Points, InConnect, Links, OrNone, Workers, Starting, Closing, Phases,
        RedisStates, Goto, Take, IsOpen

-----------------------------------------------------------------------------
\* Type correctness.

LEMMA TypeInit == Init => TypeOK
  BY DEF Init, TypeOK, BusInit, BusTypeOK

LEMMA BusStepType ==
  ASSUME TypeOK, NEW t \in Tasks, BusStep(t)
  PROVE  BusTypeOK' /\ conn' \in OrNone
<1> USE DEF TypeOK, BusTypeOK
<1>0. mine[t] \in OrNone /\ pc[t] \in Points
  OBVIOUS
<1>1. CASE EnsureOpen(t)
  BY <1>1 DEF EnsureOpen
<1>2. CASE EnsureConnects(t)
  BY <1>2 DEF EnsureConnects, StartConnect
<1>3. CASE Connected(t)
  BY <1>3 DEF Connected
<1>4. CASE ChannelOpened(t)
  <2>1. mine[t] \in Conns
    BY <1>4 DEF ChannelOpened
  <2>2. QED
    BY <1>4, <2>1 DEF ChannelOpened
<1>5. CASE Subscribed(t)
  BY <1>5 DEF Subscribed
<1>6. CASE AttemptIsClosed(t)
  BY <1>6 DEF AttemptIsClosed
<1>7. CASE AttemptFails(t)
  BY <1>7 DEF AttemptFails
<1>8. CASE Retry(t)
  BY <1>8 DEF Retry
<1>9. QED
  BY <1>1, <1>2, <1>3, <1>4, <1>5, <1>6, <1>7, <1>8 DEF BusStep

LEMMA LifespanType ==
  ASSUME TypeOK, Lifespan
  PROVE  TypeOK'
<1> USE DEF TypeOK, BusTypeOK
<1>1. CASE BeginConnect
  BY <1>1 DEF BeginConnect, StartConnect, lifeVars
<1>2. CASE RedisConnects \/ RedisFails \/ ConnectGivesUp \/ Unwind \/ RedisCloses \/ Stopped
  BY <1>2 DEF RedisConnects, RedisFails, ConnectGivesUp, Unwind, RedisCloses,
              Stopped, busVars
<1>3. CASE ContainerCreated \/ TopologyDeclared \/ StartupRaises
  BY <1>3 DEF ContainerCreated, TopologyDeclared, StartupRaises, MainUses
<1>4. CASE CloseStep
  BY <1>4 DEF CloseStep, CancelReplies, CloseChannel, CloseConnection, Kept
<1>5. ASSUME NEW l \in Listeners, ListenerStarts(l) PROVE TypeOK'
  <2>1. mine[Main] \in OrNone
    OBVIOUS
  <2>2. listening' \in [Listeners -> OrNone] /\ phase' \in Phases
    BY <1>5, <2>1 DEF ListenerStarts
  <2>3. BusTypeOK'
    BY <1>5 DEF ListenerStarts, MainUses
  <2>4. QED
    BY <1>5, <2>2, <2>3 DEF ListenerStarts
<1>6. QED
  BY <1>1, <1>2, <1>3, <1>4, <1>5 DEF Lifespan

LEMMA TypeNext == TypeOK /\ [Next]_vars => TypeOK'
<1> SUFFICES ASSUME TypeOK, [Next]_vars PROVE TypeOK'
  OBVIOUS
<1>1. CASE Lifespan
  BY <1>1, LifespanType
<1>2. CASE StopRequested
  BY <1>2 DEF StopRequested, busVars, TypeOK, BusTypeOK
<1>3. ASSUME NEW t \in Tasks, UseBus(t) PROVE TypeOK'
  <2>1. BusTypeOK' /\ conn' \in OrNone
    BY <1>3, BusStepType DEF UseBus
  <2>2. conn' # conn => conn' \in Conns
    BY <1>3 DEF UseBus, BusStep, EnsureOpen, EnsureConnects, StartConnect,
                Connected, ChannelOpened, Subscribed, AttemptIsClosed,
                AttemptFails, Retry
  <2>3. QED
    BY <1>3, <2>1, <2>2 DEF UseBus, TypeOK
<1>4. ASSUME NEW t \in Tasks, Clock(t) PROVE TypeOK'
  BY <1>4 DEF Clock, DeadlinePasses, lifeVars, TypeOK, BusTypeOK
<1>5. ASSUME NEW w \in Workers, Invoked(w) \/ Done(w) PROVE TypeOK'
  BY <1>5 DEF Invoked, Done, lifeVars, TypeOK, BusTypeOK
<1>6. CASE Network
  BY <1>6 DEF Network, LinkLost, LinkRestored, lifeVars, TypeOK, BusTypeOK
<1>7. CASE UNCHANGED vars
  BY <1>7 DEF vars, TypeOK, BusTypeOK
<1>8. QED
  BY <1>1, <1>2, <1>3, <1>4, <1>5, <1>6, <1>7 DEF Next

\* Every variable keeps its type.
THEOREM TypeCorrect == Spec => []TypeOK
<1>1. QED
  BY TypeInit, TypeNext, PTL DEF Spec

-----------------------------------------------------------------------------
\* The inductive invariant.  A step of the bus changes no phase and closes no
\* connection; a step of service_lifespan other than close() changes no
\* connection; the steps of close() come last.

Parts == BusInv /\ PhaseInv /\ ConsumersSurvive /\ ServingIsComplete /\ ShutdownReleases

LEMMA BusStepKeeps ==
  ASSUME IInv, TypeOK', NEW t \in Tasks, UseBus(t)
  PROVE  Parts'
<1> USE DEF IInv, TypeOK, BusTypeOK, UseBus, Parts
<1>0. mine[t] \in OrNone /\ mine'[t] \in OrNone
  OBVIOUS
<1>1. CASE EnsureOpen(t)
  BY <1>1 DEF EnsureOpen, BusInv, PhaseInv, ConsumersSurvive,
              ServingIsComplete, ShutdownReleases, Silent
<1>2. CASE EnsureConnects(t)
  BY <1>2 DEF EnsureConnects, StartConnect, BusInv, PhaseInv,
              ConsumersSurvive, ServingIsComplete, ShutdownReleases, Silent
<1>3. CASE Connected(t)
  <2>1. PICK c \in Conns : /\ link[c] = "unused" /\ conn' = c
                           /\ link' = [link EXCEPT ![c] = "up"]
    BY <1>3 DEF Connected
  <2>2. \A d \in Conns : link'[d] = "closed" <=> link[d] = "closed"
    BY <2>1
  <2>3. conn' # conn
    BY <2>1 DEF BusInv
  <2>4. BusInv' /\ ServingIsComplete'
    BY <1>3, <2>1 DEF Connected, BusInv, ServingIsComplete, Silent
  <2>5. ConsumersSurvive'
    BY <1>3, <2>2 DEF Connected, ConsumersSurvive
  <2>6. phase \in {"closed", "stopped"} => conn' \in overtaken'
    BY <2>3
  <2>7. PhaseInv' /\ ShutdownReleases'
    BY <1>3, <2>2, <2>6 DEF Connected, PhaseInv, ShutdownReleases
  <2>8. QED
    BY <2>4, <2>5, <2>7
<1>4. CASE ChannelOpened(t)
  <2>1. conn # NoConn
    BY <1>4 DEF ChannelOpened, BusInv
  <2>2. BusInv' /\ ServingIsComplete' /\ ConsumersSurvive'
    BY <1>4, <2>1 DEF ChannelOpened, BusInv, ServingIsComplete, Silent, ConsumersSurvive
  <2>3. PhaseInv' /\ ShutdownReleases'
    BY <1>4 DEF ChannelOpened, PhaseInv, ShutdownReleases
  <2>4. QED
    BY <2>2, <2>3
<1>5. CASE Subscribed(t)
  <2>1. conn # NoConn /\ tag' # NoConn /\ tag' = mine[t] /\ link[mine[t]] = "up"
    BY <1>5 DEF Subscribed, BusInv
  <2>2. BusInv' /\ ServingIsComplete' /\ ConsumersSurvive'
    BY <1>5, <2>1 DEF Subscribed, BusInv, ServingIsComplete, Silent, ConsumersSurvive
  <2>3. PhaseInv' /\ ShutdownReleases'
    BY <1>5, <2>1 DEF Subscribed, PhaseInv, ShutdownReleases
  <2>4. QED
    BY <2>2, <2>3
<1>6. CASE AttemptIsClosed(t) \/ AttemptFails(t) \/ Retry(t)
  BY <1>6 DEF AttemptIsClosed, AttemptFails, Retry, BusInv, PhaseInv,
              ConsumersSurvive, ServingIsComplete, ShutdownReleases, Silent
<1>7. QED
  BY <1>1, <1>2, <1>3, <1>4, <1>5, <1>6 DEF BusStep

LEMMA LifespanKeeps ==
  ASSUME IInv, TypeOK', Lifespan
  PROVE  Parts'
<1> USE DEF IInv, TypeOK, BusTypeOK, Parts, BusInv, PhaseInv,
            ConsumersSurvive, ServingIsComplete, ShutdownReleases, Silent
<1>1. CASE BeginConnect
  BY <1>1 DEF BeginConnect, StartConnect, lifeVars
<1>2. CASE RedisConnects \/ RedisFails \/ ConnectGivesUp
  BY <1>2 DEF RedisConnects, RedisFails, ConnectGivesUp, busVars
<1>3. CASE ContainerCreated \/ TopologyDeclared \/ StartupRaises
  BY <1>3 DEF ContainerCreated, TopologyDeclared, StartupRaises, MainUses
<1>4. CASE Unwind \/ RedisCloses \/ Stopped
  BY <1>4 DEF Unwind, RedisCloses, Stopped, busVars
<1>5. ASSUME NEW l \in Listeners, ListenerStarts(l) PROVE Parts'
  BY <1>5 DEF ListenerStarts, MainUses
<1>6. CASE phase = "cancelling" /\ CancelReplies /\ CloseStep
  BY <1>6 DEF CloseStep, CancelReplies, CloseChannel, CloseConnection
<1>7. CASE phase = "channel" /\ CloseChannel /\ CloseStep
  BY <1>7 DEF CloseStep, CancelReplies, CloseChannel, CloseConnection
<1>8. CASE phase = "connection" /\ CloseConnection /\ CloseStep
  BY <1>8 DEF CloseStep, CancelReplies, CloseChannel, CloseConnection, Kept
<1>9. QED
  BY <1>1, <1>2, <1>3, <1>4, <1>5, <1>6, <1>7, <1>8 DEF Lifespan, CloseStep

LEMMA StepKeepsIInv == IInv /\ TypeOK' /\ [Next]_vars => IInv'
<1> SUFFICES ASSUME IInv, TypeOK', [Next]_vars PROVE Parts'
  BY DEF IInv, Parts
<1> USE DEF IInv, TypeOK, BusTypeOK, Parts, BusInv, PhaseInv,
            ConsumersSurvive, ServingIsComplete, ShutdownReleases, Silent
<1>1. CASE Lifespan
  BY <1>1, LifespanKeeps
<1>2. CASE StopRequested
  BY <1>2 DEF StopRequested, busVars
<1>3. ASSUME NEW t \in Tasks, UseBus(t) PROVE Parts'
  BY <1>3, BusStepKeeps
<1>4. ASSUME NEW t \in Tasks, Clock(t) PROVE Parts'
  BY <1>4 DEF Clock, DeadlinePasses, lifeVars
<1>5. ASSUME NEW w \in Workers, Invoked(w) \/ Done(w) PROVE Parts'
  BY <1>5 DEF Invoked, Done, lifeVars
<1>6. CASE Network
  BY <1>6 DEF Network, LinkLost, LinkRestored, lifeVars
<1>7. CASE UNCHANGED vars
  BY <1>7 DEF vars
<1>8. QED
  BY <1>1, <1>2, <1>3, <1>4, <1>5, <1>6, <1>7 DEF Next

\* The phases of the lifespan, the connections and the consumers together are
\* an inductive invariant.
THEOREM InductiveInvariant == Spec => []IInv
<1>1. Init /\ TypeOK => IInv
  BY DEF Init, BusInit, IInv, BusInv, PhaseInv, ConsumersSurvive,
         ServingIsComplete, ShutdownReleases, TypeOK, BusTypeOK
<1>2. IInv /\ TypeOK' /\ [Next]_vars => IInv'
  BY StepKeepsIInv
<1>3. QED
  BY <1>1, <1>2, TypeCorrect, PTL DEF Spec

\* No reconnect takes a consumer off the connection it was started on.
THEOREM ConsumersAreKept == Spec => []ConsumersSurvive
<1>1. IInv => ConsumersSurvive
  BY DEF IInv
<1>2. QED
  BY <1>1, InductiveInvariant, PTL

\* service_lifespan yields only when everything it starts has started.
THEOREM ServingServicesAreComplete == Spec => []ServingIsComplete
<1>1. IInv => ServingIsComplete
  BY DEF IInv
<1>2. QED
  BY <1>1, InductiveInvariant, PTL

\* Whatever else of the shutdown raises, a service that has ended holds Redis
\* only if the close of Redis raised, and a connection only if its close did
\* or a reconnect overtook the shutdown.
THEOREM ShutdownIsComplete == Spec => []ShutdownReleases
<1>1. IInv => ShutdownReleases
  BY DEF IInv
<1>2. QED
  BY <1>1, InductiveInvariant, PTL

-----------------------------------------------------------------------------
\* How far the disagreement of RepliesOnChannel goes.  No connection goes back
\* to being unused, and every channel is taken from a connection that is up.

LEMMA BusStepChannels ==
  ASSUME TypeOK, ChannelInv, NEW t \in Tasks, BusStep(t)
  PROVE  ChannelInv'
<1> USE DEF TypeOK, BusTypeOK, ChannelInv, InUse
<1>0. mine[t] \in OrNone
  OBVIOUS
<1>1. CASE EnsureOpen(t)
  BY <1>1 DEF EnsureOpen
<1>2. CASE EnsureConnects(t)
  BY <1>2 DEF EnsureConnects, StartConnect
<1>3. CASE Connected(t)
  BY <1>3 DEF Connected
<1>4. CASE ChannelOpened(t)
  <2>1. mine[t] \in InUse /\ mine[t] # NoConn
    BY <1>4 DEF ChannelOpened
  <2>2. QED
    BY <1>4, <2>1 DEF ChannelOpened
<1>5. CASE Subscribed(t)
  <2>1. mine[t] \in InUse /\ mine[t] # NoConn /\ chan \in InUse
    BY <1>5 DEF Subscribed
  <2>2. QED
    BY <1>5, <2>1 DEF Subscribed
<1>6. CASE AttemptIsClosed(t) \/ AttemptFails(t) \/ Retry(t)
  BY <1>6 DEF AttemptIsClosed, AttemptFails, Retry
<1>7. QED
  BY <1>1, <1>2, <1>3, <1>4, <1>5, <1>6 DEF BusStep

LEMMA LifespanChannels ==
  ASSUME TypeOK, ChannelInv, Lifespan
  PROVE  ChannelInv'
<1> USE DEF TypeOK, BusTypeOK, ChannelInv, InUse
<1>1. CASE BeginConnect
  BY <1>1 DEF BeginConnect, StartConnect, lifeVars
<1>2. CASE RedisConnects \/ RedisFails \/ ConnectGivesUp \/ Unwind \/ RedisCloses \/ Stopped
  BY <1>2 DEF RedisConnects, RedisFails, ConnectGivesUp, Unwind, RedisCloses,
              Stopped, busVars
<1>3. CASE ContainerCreated \/ TopologyDeclared \/ StartupRaises
  BY <1>3 DEF ContainerCreated, TopologyDeclared, StartupRaises, MainUses
<1>4. CASE CloseStep
  BY <1>4 DEF CloseStep, CancelReplies, CloseChannel, CloseConnection
<1>5. ASSUME NEW l \in Listeners, ListenerStarts(l) PROVE ChannelInv'
  BY <1>5 DEF ListenerStarts, MainUses
<1>6. QED
  BY <1>1, <1>2, <1>3, <1>4, <1>5 DEF Lifespan

LEMMA ChannelsInUse == Spec => []ChannelInv
<1>1. Init => ChannelInv
  BY DEF Init, BusInit, ChannelInv
<1>2. TypeOK /\ ChannelInv /\ [Next]_vars => ChannelInv'
  <2> SUFFICES ASSUME TypeOK, ChannelInv, [Next]_vars PROVE ChannelInv'
    OBVIOUS
  <2> USE DEF TypeOK, BusTypeOK, ChannelInv, InUse
  <2>1. CASE Lifespan
    BY <2>1, LifespanChannels
  <2>2. CASE StopRequested
    BY <2>2 DEF StopRequested, busVars
  <2>3. ASSUME NEW t \in Tasks, UseBus(t) PROVE ChannelInv'
    BY <2>3, BusStepChannels DEF UseBus
  <2>4. ASSUME NEW t \in Tasks, Clock(t) PROVE ChannelInv'
    BY <2>4 DEF Clock, DeadlinePasses
  <2>5. ASSUME NEW w \in Workers, Invoked(w) \/ Done(w) PROVE ChannelInv'
    BY <2>5 DEF Invoked, Done
  <2>6. CASE Network
    BY <2>6 DEF Network, LinkLost, LinkRestored
  <2>7. CASE UNCHANGED vars
    BY <2>7 DEF vars
  <2>8. QED
    BY <2>1, <2>2, <2>3, <2>4, <2>5, <2>6, <2>7 DEF Next
<1>3. QED
  BY <1>1, <1>2, TypeCorrect, PTL DEF Spec

\* The channel without a reply consumer that RepliesOnChannel meets is always
\* one of a later connection: on the first connection of the bus, the channel
\* a request is given has the consumer, through every loss and restoration.
THEOREM FirstConnectionIsSubscribed == Spec => []FirstConnectionServes
<1>1. IInv /\ ChannelInv => FirstConnectionServes
  <2> SUFFICES ASSUME IInv, ChannelInv, \A c, d \in InUse : c = d,
                      NEW w \in Workers, phase = "serving", pc[w] = "ready"
               PROVE  mine[w] \in subscribed
    BY DEF FirstConnectionServes, RepliesOnChannel
  <2>1. tag \in InUse /\ tag \in subscribed
    BY DEF IInv, ServingIsComplete, ConsumersSurvive, ChannelInv
  <2>2. mine[w] \in InUse
    BY DEF ChannelInv
  <2>3. QED
    BY <2>1, <2>2
<1>2. QED
  BY <1>1, InductiveInvariant, ChannelsInUse, PTL

=============================================================================
