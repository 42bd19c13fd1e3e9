------------------------- MODULE TokenServiceProofs -------------------------
(***************************************************************************)
(* Proofs about TokenService for any number of tokens and handlers, any    *)
(* behaviour of the lazy load and any number of faults: types, Rotation,   *)
(* AnswersHold, SpentIsRefused and the implementation of TokenLedger; and  *)
(* about TokenSessions for any number of requests and deliveries.          *)
(*                                                                         *)
(* Rotation and AnswersHold are inductive together with PointMeaning,      *)
(* which says that a handler past its look-up holds a token that is in the *)
(* table, and that only its own commit stores its successor.  The routes   *)
(* implement TokenService, so this invariant holds behind them; on top of  *)
(* it DeliveryMeaning ties each answer to the token of its request, and    *)
(* SessionInReach names the token a session goes on with.                  *)
(***************************************************************************)
EXTENDS TokenSessions, TLAPS

USE NamesAssumption, LoadAssumption, FaultsAssumption DEF Handlers, Tokens

\* The types are an invariant.
THEOREM TypeCorrect == Spec => []TypeOK
<1>1. Init => TypeOK
  BY DEF Init, TypeOK, Points
<1>2. TypeOK /\ [Next]_vars => TypeOK'
  <2> SUFFICES ASSUME TypeOK, [Next]_vars PROVE TypeOK'
    OBVIOUS
  <2> USE DEF TypeOK, Points
  <2>1. ASSUME NEW t \in Tokens, Login(t) \/ Expire(t) PROVE TypeOK'
    BY <2>1 DEF Login, Expire
  <2>2. ASSUME NEW h \in Handlers, Unknown(h) PROVE TypeOK'
    BY <2>2 DEF Unknown, Reply, Goto
  <2>3. ASSUME NEW h \in Handlers, NEW t \in Tokens, Outdated(h, t) PROVE TypeOK'
    BY <2>3 DEF Outdated, Reply, Goto
  <2>4. ASSUME NEW h \in Handlers, NEW t \in Tokens, Spent(h, t) PROVE TypeOK'
    BY <2>4 DEF Spent, Reply, Goto
  <2>5. ASSUME NEW h \in Handlers, NEW t \in Tokens, Find(h, t) PROVE TypeOK'
    BY <2>5 DEF Find, Goto
  <2>6. ASSUME NEW h \in Handlers, LoadAccount(h) PROVE TypeOK'
    BY <2>6 DEF LoadAccount, Goto
  <2>7. ASSUME NEW h \in Handlers, Flush(h) PROVE TypeOK'
    BY <2>7 DEF Flush, Goto
  <2>8. ASSUME NEW h \in Handlers, Commit(h) PROVE TypeOK'
    BY <2>8 DEF Commit, Written, Goto
  <2>9. ASSUME NEW h \in Handlers, Succeed(h) PROVE TypeOK'
    BY <2>9 DEF Succeed, Reply, Goto
  <2>10. ASSUME NEW h \in Handlers, Interrupt(h) PROVE TypeOK'
    <3>1. faults + 1 \in 0..MaxFaults
      BY <2>10 DEF Interrupt
    <3> QED
      BY <2>10, <3>1 DEF Interrupt, Goto
  <2>11. CASE UNCHANGED vars
    BY <2>11 DEF vars
  <2> QED
    BY <2>1, <2>2, <2>3, <2>4, <2>5, <2>6, <2>7, <2>8, <2>9, <2>10, <2>11
    DEF Next, LookUp, Handle
<1> QED
  BY <1>1, <1>2, PTL DEF Spec

\* Every step keeps Rotation, AnswersHold and PointMeaning together.
LEMMA StepKeepsIInv ==
  ASSUME IInv, TypeOK', [Next]_vars PROVE IInv'
<1> USE DEF TypeOK, Points, IInv, Rotation, AnswersHold, PointMeaning
<1>1. ASSUME NEW t \in Tokens, Login(t) PROVE IInv'
  BY <1>1 DEF Login
<1>2. ASSUME NEW t \in Tokens, Expire(t) PROVE IInv'
  BY <1>2 DEF Expire
<1>3. ASSUME NEW h \in Handlers, Unknown(h) PROVE IInv'
  BY <1>3 DEF Unknown, Reply, Goto
<1>4. ASSUME NEW h \in Handlers, NEW t \in Tokens, Outdated(h, t) PROVE IInv'
  BY <1>4 DEF Outdated, Issued, Reply, Goto
<1>5. ASSUME NEW h \in Handlers, NEW t \in Tokens, Spent(h, t) PROVE IInv'
  BY <1>5 DEF Spent, Issued, Reply, Goto
<1>6. ASSUME NEW h \in Handlers, NEW t \in Tokens, Find(h, t) PROVE IInv'
  BY <1>6 DEF Find, Issued, Goto
<1>7. ASSUME NEW h \in Handlers, LoadAccount(h) PROVE IInv'
  BY <1>7 DEF LoadAccount, Goto
<1>8. ASSUME NEW h \in Handlers, Flush(h) PROVE IInv'
  BY <1>8 DEF Flush, Goto
<1>9. ASSUME NEW h \in Handlers, Commit(h) PROVE IInv'
  BY <1>9 DEF Commit, Written, Goto
<1>10. ASSUME NEW h \in Handlers, Succeed(h) PROVE IInv'
  BY <1>10 DEF Succeed, Reply, Goto
<1>11. ASSUME NEW h \in Handlers, Interrupt(h) PROVE IInv'
  BY <1>11 DEF Interrupt, Goto
<1>12. CASE UNCHANGED vars
  BY <1>12 DEF vars
<1> QED
  BY <1>1, <1>2, <1>3, <1>4, <1>5, <1>6, <1>7, <1>8, <1>9, <1>10, <1>11, <1>12
  DEF Next, LookUp, Handle

\* The table, the answers and the program points form an inductive invariant.
THEOREM InductiveInvariant == Spec => []IInv
<1>1. Init /\ TypeOK => IInv
  BY DEF Init, IInv, Rotation, AnswersHold, PointMeaning
<1>2. IInv /\ TypeOK' /\ [Next]_vars => IInv'
  BY StepKeepsIInv
<1> QED
  BY <1>1, <1>2, TypeCorrect, PTL DEF Spec

\* No successor is stored beside a token that can still be used.
THEOREM RefreshIsAtomic == Spec => []Rotation
<1>1. IInv => Rotation
  BY DEF IInv
<1> QED
  BY <1>1, InductiveInvariant, PTL

\* What a handler answered with success stays true.
THEOREM AnswersAreKept == Spec => []AnswersHold
<1>1. IInv => AnswersHold
  BY DEF IInv
<1> QED
  BY <1>1, InductiveInvariant, PTL

\* A look-up after a successful answer for the same token finds nothing.
THEOREM NoLateRefresh == Spec => SpentIsRefused
<1> DEFINE Refused ==
      \A h \in Handlers : pc[h] = "new" /\ pc'[h] = "found" =>
        \A g \in Handlers : answer[g] = "ok" => of[g] # of'[h]
<1>1. IInv /\ [Next]_vars => [Refused]_vars
  <2> SUFFICES ASSUME IInv, Next,
                      NEW h \in Handlers, pc[h] = "new", pc'[h] = "found",
                      NEW g \in Handlers, answer[g] = "ok"
               PROVE  of[g] # of'[h]
    OBVIOUS
  <2> USE DEF IInv, TypeOK
  <2>1. PICK t \in Tokens : Find(h, t)
    <3>1. ASSUME NEW t \in Tokens, Login(t) \/ Expire(t) PROVE FALSE
      BY <3>1 DEF Login, Expire
    <3>2. ASSUME NEW k \in Handlers, LookUp(k) PROVE \E t \in Tokens : Find(h, t)
      BY <3>2 DEF LookUp, Unknown, Outdated, Spent, Find, Reply, Goto
    <3>3. ASSUME NEW k \in Handlers, Handle(k) \/ Interrupt(k) PROVE FALSE
      BY <3>3 DEF Handle, Interrupt, LoadAccount, Flush, Commit, Succeed, Reply, Goto
    <3> QED
      BY <3>1, <3>2, <3>3 DEF Next
  <2>2. of'[h] = t /\ row[t] = "active"
    BY <2>1 DEF Find
  <2> QED
    BY <2>2 DEF AnswersHold
<1> QED
  BY <1>1, InductiveInvariant, PTL DEF Spec, SpentIsRefused

\* The transactions of concurrent handlers change the table as the atomic
\* ledger does: a commit is one rotation or one logout, all else stutters.
THEOREM Implementation == Spec => AtomicChanges
<1> USE DEF Ledger!Fresh, Ledger!vars
<1>1. Init => Ledger!Init
  BY DEF Init, Ledger!Init
<1>2. IInv /\ [Next]_vars => [Ledger!Next]_(Ledger!vars)
  <2> SUFFICES ASSUME IInv, [Next]_vars PROVE [Ledger!Next]_(Ledger!vars)
    OBVIOUS
  <2> USE DEF IInv, TypeOK
  <2>1. ASSUME NEW t \in Tokens, Login(t) PROVE Ledger!Login(t)
    BY <2>1 DEF Login, Ledger!Login
  <2>2. ASSUME NEW h \in Refreshes, NEW t \in Tokens, of[h] = t, Commit(h)
        PROVE  Ledger!Rotate(t, h)
    <3>1. row[t] # "absent" /\ row[h] = "absent"
      BY <2>2 DEF Commit, Goto, PointMeaning
    <3>2. h \in Tokens /\ h \notin Roots /\ t # h
      BY <2>2 DEF PointMeaning
    <3>3. row' = Written(h)
      BY <2>2 DEF Commit
    <3> QED
      BY <2>2, <3>1, <3>2, <3>3 DEF Written, Ledger!Rotate
  <2>3. ASSUME NEW h \in Logouts, NEW t \in Tokens, of[h] = t, Commit(h)
        PROVE  Ledger!Logout(t)
    <3>1. row[t] # "absent"
      BY <2>3 DEF Commit, Goto, PointMeaning
    <3>2. row' = Written(h) /\ h \notin Tokens
      BY <2>3 DEF Commit
    <3> QED
      BY <2>3, <3>1, <3>2 DEF Written, Ledger!Logout
  <2>4. ASSUME row' = row PROVE UNCHANGED Ledger!vars
    BY <2>4
  <2>5. ASSUME NEW h \in Handlers, Commit(h) PROVE Ledger!Next
    <3>1. PICK t \in Tokens : of[h] = t
      BY <2>5 DEF Commit, Goto, PointMeaning
    <3>2. CASE h \in Refreshes
      <4>1. Ledger!Rotate(t, h) /\ h \in Tokens
        BY <3>1, <3>2, <2>2, <2>5
      <4> QED
        BY <4>1 DEF Ledger!Next
    <3>3. CASE h \in Logouts
      <4>1. Ledger!Logout(t)
        BY <3>1, <3>3, <2>3, <2>5
      <4> QED
        BY <4>1 DEF Ledger!Next
    <3> QED
      BY <3>2, <3>3
  <2>6. ASSUME NEW h \in Handlers, ~Commit(h), LookUp(h) \/ Handle(h) \/ Interrupt(h)
        PROVE  row' = row
    BY <2>6 DEF LookUp, Unknown, Outdated, Spent, Find, Handle, LoadAccount,
                Flush, Succeed, Interrupt
  <2>7. ASSUME NEW t \in Tokens, Expire(t) PROVE row' = row
    BY <2>7 DEF Expire
  <2>8. ASSUME NEW t \in Tokens, Login(t) PROVE Ledger!Next
    BY <2>1, <2>8 DEF Ledger!Next
  <2>9. CASE UNCHANGED vars
    BY <2>9, <2>4 DEF vars
  <2> QED
    BY <2>4, <2>5, <2>6, <2>7, <2>8, <2>9 DEF Next
<1> QED
  BY <1>1, <1>2, InductiveInvariant, PTL DEF Spec, AtomicChanges, Ledger!Spec

-----------------------------------------------------------------------------
\* With the relationship loaded lazily, as the repository writes it.

LEMMA NothingNext ==
  ASSUME "loaded" \notin LoadOutcomes, TypeOK, RefreshesDoNothing, [Next]_vars
  PROVE  RefreshesDoNothing'
<1> USE DEF TypeOK, Points, RefreshesDoNothing
<1>1. ASSUME NEW t \in Tokens, Login(t) \/ Expire(t) PROVE RefreshesDoNothing'
  BY <1>1 DEF Login, Expire
<1>2. ASSUME NEW h \in Handlers, LookUp(h) PROVE RefreshesDoNothing'
  <2>1. CASE Unknown(h)
    BY <2>1 DEF Unknown, Reply, Goto
  <2>2. ASSUME NEW t \in Tokens, Outdated(h, t) PROVE RefreshesDoNothing'
    BY <2>2 DEF Outdated, Issued, Reply, Goto
  <2>3. ASSUME NEW t \in Tokens, Spent(h, t) PROVE RefreshesDoNothing'
    BY <2>3 DEF Spent, Issued, Reply, Goto
  <2>4. ASSUME NEW t \in Tokens, Find(h, t) PROVE RefreshesDoNothing'
    BY <2>4 DEF Find, Issued, Goto
  <2>5. QED
    BY <1>2, <2>1, <2>2, <2>3, <2>4 DEF LookUp
<1>3. ASSUME NEW h \in Handlers, LoadAccount(h) \/ Flush(h) PROVE RefreshesDoNothing'
  <2>1. CASE LoadAccount(h)
    <3>1. \A outcome \in LoadOutcomes : outcome = "raises"
      OBVIOUS
    <3>2. pc' = [pc EXCEPT ![h] = "failed"] /\ UNCHANGED <<row, of, answer>>
      BY <2>1, <3>1 DEF LoadAccount, Goto
    <3>3. QED
      BY <3>2
  <2>2. CASE Flush(h)
    BY <2>2 DEF Flush, Goto
  <2>3. QED
    BY <1>3, <2>1, <2>2
<1>4. ASSUME NEW h \in Handlers, Commit(h) PROVE RefreshesDoNothing'
  <2>1. h \in Logouts /\ h \notin Tokens
    BY <1>4 DEF Commit, Goto
  <2>2. /\ pc' = [pc EXCEPT ![h] = "committed"]
        /\ row' = [t \in Tokens |-> IF t = of[h] THEN "revoked" ELSE row[t]]
        /\ UNCHANGED <<of, answer>>
    BY <1>4, <2>1 DEF Commit, Goto, Written
  <2>3. QED
    BY <2>1, <2>2
<1>5. ASSUME NEW h \in Handlers, Succeed(h) \/ Interrupt(h) PROVE RefreshesDoNothing'
  BY <1>5 DEF Succeed, Reply, Interrupt, Goto
<1>6. CASE UNCHANGED vars
  BY <1>6 DEF vars
<1>7. QED
  BY <1>1, <1>2, <1>3, <1>4, <1>5, <1>6 DEF Next, Handle

\* As long as the lazy load raises no refresh ever succeeds, for any number
\* of handlers and without any fault; the tokens survive every attempt.
THEOREM NoRefreshWithoutLoad ==
  ASSUME "loaded" \notin LoadOutcomes
  PROVE  Spec => []RefreshesDoNothing
<1>1. Init => RefreshesDoNothing
  BY DEF Init, RefreshesDoNothing
<1>2. TypeOK /\ RefreshesDoNothing /\ [Next]_vars => RefreshesDoNothing'
  BY NothingNext
<1>3. QED
  BY <1>1, <1>2, TypeCorrect, PTL DEF Spec

-----------------------------------------------------------------------------
(* The routes and their requests. *)

\* Requests keep their types.
LEMMA SessionTypes == SessionSpec => []SessionTypeOK
<1> USE DEF SessionTypeOK
<1>1. SessionInit => SessionTypeOK
  BY DEF SessionInit
<1>2. SessionTypeOK /\ [SessionNext]_allVars => SessionTypeOK'
  <2> SUFFICES ASSUME SessionTypeOK, [SessionNext]_allVars PROVE SessionTypeOK'
    OBVIOUS
  <2>1. ASSUME NEW q \in Requests, Ask(q) PROVE SessionTypeOK'
    BY <2>1 DEF Ask, Move
  <2>2. ASSUME NEW q \in Requests, Hear(q) \/ TimeOut(q) PROVE SessionTypeOK'
    BY <2>2 DEF Hear, TimeOut, Move
  <2>3. CASE UNCHANGED session
    BY <2>3 DEF session
  <2> QED
    BY <2>1, <2>2, <2>3 DEF SessionNext, World, Start, Serve, CutShort, allVars
<1> QED
  BY <1>1, <1>2, PTL DEF SessionSpec

\* A step of the routes, their deliveries or their clients is a step of
\* TokenService or leaves the table and the handlers alone.
LEMMA SessionStep ==
  ASSUME SessionTypeOK, [SessionNext]_allVars PROVE [Next]_vars
<1>1. ASSUME NEW t \in Tokens, World(t) PROVE Next
  BY <1>1 DEF World, Next
<1>2. ASSUME NEW q \in Requests, Ask(q) \/ Hear(q) \/ TimeOut(q) PROVE UNCHANGED vars
  BY <1>2 DEF Ask, Hear, TimeOut
<1>3. ASSUME NEW h \in Handlers, Start(h) PROVE Next
  <2> DEFINE b == body[RequestOf[h]]
  <2>1. b \in Tokens \union {NoToken}
    BY DeliveryAssumption DEF SessionTypeOK
  <2>2. LookUp(h)
    BY <1>3, <2>1 DEF Start, LookUp
  <2> QED
    BY <2>2 DEF Next
<1>4. ASSUME NEW h \in Handlers, Serve(h) \/ CutShort(h) PROVE Next
  BY <1>4 DEF Serve, CutShort, Next
<1>5. CASE UNCHANGED allVars
  BY <1>5 DEF allVars
<1> QED
  BY <1>1, <1>2, <1>3, <1>4, <1>5 DEF SessionNext

\* The routes implement TokenService, so all that is proved of it holds
\* behind them, whatever they time out on and however often a request is
\* delivered.
THEOREM RoutesUseTheService == SessionSpec => Spec
<1>1. SessionInit => Init
  BY DEF SessionInit
<1>2. SessionTypeOK /\ [SessionNext]_allVars => [Next]_vars
  BY SessionStep
<1> QED
  BY <1>1, <1>2, SessionTypes, PTL DEF SessionSpec, Spec

\* So the clients of the routes have what the service promises its callers.
THEOREM PromisesBehindRoutes ==
  SessionSpec => []AnswersHold /\ SpentIsRefused /\ AtomicChanges
<1> QED
  BY RoutesUseTheService, AnswersAreKept, NoLateRefresh, Implementation, PTL

\* A useless token stays useless.
LEMMA UselessStays ==
  ASSUME IInv, [Next]_vars, NEW t \in Tokens, Useless(t) PROVE Useless(t)'
<1> USE DEF IInv, TypeOK, Useless
<1>1. ASSUME NEW u \in Tokens, Login(u) \/ Expire(u) PROVE Useless(t)'
  BY <1>1 DEF Login, Expire
<1>2. ASSUME NEW h \in Handlers, Commit(h) PROVE Useless(t)'
  BY <1>2 DEF Commit, Goto, Written, PointMeaning
<1>3. ASSUME NEW h \in Handlers, ~Commit(h), LookUp(h) \/ Handle(h) \/ Interrupt(h)
      PROVE  Useless(t)'
  BY <1>3 DEF LookUp, Unknown, Outdated, Spent, Find, Handle, LoadAccount,
              Flush, Succeed, Interrupt
<1>4. CASE UNCHANGED vars
  BY <1>4 DEF vars
<1> QED
  BY <1>1, <1>2, <1>3, <1>4 DEF Next, Handle

\* Every step keeps what is known of the deliveries and of the answers.
LEMMA StepKeepsDeliveryMeaning ==
  ASSUME IInv, IInv', SessionTypeOK, DeliveryMeaning, [SessionNext]_allVars
  PROVE  DeliveryMeaning'
<1> USE DeliveryAssumption DEF IInv, TypeOK, SessionTypeOK
<1>1. ASSUME NEW h \in Handlers, answer[h] = "invalid", of[h] \in Tokens, of'[h] = of[h]
      PROVE  Useless(of[h])'
  BY <1>1, SessionStep, UselessStays DEF DeliveryMeaning
<1>2. ASSUME NEW t \in Tokens, World(t) PROVE DeliveryMeaning'
  BY <1>2, <1>1 DEF World, Login, Expire, session, DeliveryMeaning, Useless
<1>3. ASSUME NEW q \in Requests, Ask(q) PROVE DeliveryMeaning'
  BY <1>3 DEF Ask, Move, vars, DeliveryMeaning, Useless
<1>4. ASSUME NEW q \in Requests, Hear(q) \/ TimeOut(q) PROVE DeliveryMeaning'
  BY <1>4 DEF Hear, TimeOut, Move, vars, DeliveryMeaning, Useless
<1>5. ASSUME NEW h \in Handlers, Start(h) PROVE DeliveryMeaning'
  BY <1>5 DEF Start, Unknown, Outdated, Spent, Find, Reply, Goto, session,
              DeliveryMeaning, Useless, PointMeaning
<1>6. ASSUME NEW h \in Handlers, Serve(h) \/ CutShort(h) PROVE DeliveryMeaning'
  <2>1. /\ UNCHANGED session /\ of' = of /\ pc[h] # "new"
        /\ pc' \in [Handlers -> Points]
        /\ \A g \in Handlers : g # h => pc'[g] = pc[g] /\ answer'[g] = answer[g]
        /\ answer'[h] \in {answer[h], "ok"}
    BY <1>6 DEF Serve, CutShort, Handle, LoadAccount, Flush, Commit, Succeed,
                Interrupt, Reply, Goto
  <2>2. ASSUME NEW g \in Handlers, answer'[g] = "invalid", of'[g] # NoToken
        PROVE  Useless(of[g])'
    BY <1>1, <2>1, <2>2
  <2> QED
    BY <2>1, <2>2 DEF session, DeliveryMeaning, Useless
<1>7. CASE UNCHANGED allVars
  BY <1>7 DEF allVars, vars, session, DeliveryMeaning, Useless
<1> QED
  BY <1>2, <1>3, <1>4, <1>5, <1>6, <1>7 DEF SessionNext

\* An id that was repeated stays repeated.
LEMMA SharedIsKept ==
  ASSUME SessionTypeOK, [SessionNext]_allVars PROVE shared \subseteq shared'
BY DEF SessionTypeOK, SessionNext, World, Ask, Hear, TimeOut, Start, Serve,
       CutShort, session, allVars

\* A request that was sent stays sent.
LEMMA LogoutsAreRemembered ==
  ASSUME SessionTypeOK, [SessionNext]_allVars, NEW q \in Requests, route[q] # "new"
  PROVE  route'[q] # "new"
BY DEF SessionTypeOK, SessionNext, World, Ask, Hear, TimeOut, Move, Start, Serve,
       CutShort, session, allVars

\* Every step leaves a token that is not spent, unless a logout is asked for.
LEMMA StepKeepsSessionSurvives ==
  ASSUME IInv, SessionTypeOK, DeliveryMeaning, SessionSurvives, [SessionNext]_allVars
  PROVE  SessionSurvives'
<1> USE DeliveryAssumption DEF IInv, TypeOK, SessionTypeOK
<1> SUFFICES ASSUME Begun' PROVE \E t \in Tokens : row'[t] = "active"
  BY DEF SessionSurvives
<1>1. \A q \in Requests : route[q] # "new" => ~IsLogout(q)
  BY LogoutsAreRemembered DEF Begun, IsLogout
<1>2. ASSUME row' = row PROVE \E t \in Tokens : row'[t] = "active"
  BY <1>1, <1>2 DEF SessionSurvives, Begun
<1>3. ASSUME NEW t \in Tokens, Login(t) PROVE \E u \in Tokens : row'[u] = "active"
  BY <1>3 DEF Login
<1>4. ASSUME NEW h \in Handlers, Commit(h) PROVE \E u \in Tokens : row'[u] = "active"
  <2>1. pc[h] = "flushed" /\ row' = Written(h)
    BY <1>4 DEF Commit, Goto
  <2>2. h \notin Logouts
    BY <1>1, <2>1 DEF DeliveryMeaning, IsLogout
  <2>3. h \in Tokens /\ of[h] # h
    BY <2>2 DEF PointMeaning
  <2>4. Written(h)[h] = "active"
    BY <2>3 DEF Written
  <2> QED
    BY <2>1, <2>3, <2>4
<1>5. ASSUME Next, \A t \in Tokens : ~Login(t), \A h \in Handlers : ~Commit(h)
      PROVE  row' = row
  BY <1>5 DEF Next, Expire, LookUp, Unknown, Outdated, Spent, Find, Handle,
              LoadAccount, Flush, Succeed, Interrupt
<1> QED
  BY <1>2, <1>3, <1>4, <1>5, SessionStep DEF vars

\* While nothing times out and nothing is delivered twice, every step leaves
\* a token that is not spent and that the client knows or may hear of.
LEMMA StepKeepsSessionInReach ==
  ASSUME IInv, IInv', SessionTypeOK, DeliveryMeaning, SessionInReach, [SessionNext]_allVars
  PROVE  SessionInReach'
<1> USE DeliveryAssumption DEF IInv, TypeOK, SessionTypeOK
<1>1. ASSUME NEW h \in Refreshes, answer'[h] = "invalid" PROVE row'[h] = "absent"
  <2>1. ASSUME NEW t \in Tokens, World(t) PROVE row'[h] = "absent"
    BY <1>1, <2>1 DEF World, Login, Expire, SessionInReach
  <2>2. ASSUME NEW q \in Requests, Ask(q) \/ Hear(q) \/ TimeOut(q) PROVE row'[h] = "absent"
    BY <1>1, <2>2 DEF Ask, Hear, TimeOut, vars, SessionInReach
  <2>3. ASSUME NEW g \in Handlers, Start(g) PROVE row'[h] = "absent"
    BY <1>1, <2>3 DEF Start, Unknown, Outdated, Spent, Find, Reply, Goto,
                      SessionInReach, PointMeaning
  <2>4. ASSUME NEW g \in Handlers, Commit(g) PROVE row'[h] = "absent"
    BY <1>1, <2>4 DEF Commit, Written, Goto, SessionInReach, PointMeaning
  <2>5. ASSUME NEW g \in Handlers, ~Commit(g), Handle(g) \/ Interrupt(g)
        PROVE  row'[h] = "absent"
    BY <1>1, <2>5 DEF Handle, LoadAccount, Flush, Succeed, Interrupt, Reply, Goto,
                      SessionInReach
  <2>6. CASE UNCHANGED allVars
    BY <1>1, <2>6 DEF allVars, vars, SessionInReach
  <2> QED
    BY <2>1, <2>2, <2>3, <2>4, <2>5, <2>6 DEF SessionNext, Serve, CutShort
<1>2. SUFFICES ASSUME Calm', Begun'
               PROVE  \E t \in Tokens : row'[t] = "active" /\ Reachable(t)'
  BY <1>1 DEF SessionInReach
<1>3. \A q \in Requests : route[q] # "new" => ~IsLogout(q)
  BY <1>2, LogoutsAreRemembered DEF Begun, IsLogout
<1>4. Calm
  <2>1. \A q \in Requests : route[q] = "timeout" => route'[q] = "timeout"
    BY DEF SessionNext, World, Ask, Hear, TimeOut, Move, Start, Serve, CutShort, session, allVars
  <2>2. \A h \in Handlers : pc[h] # "new" => pc'[h] # "new"
    BY SessionStep DEF Next, Login, Expire, LookUp, Unknown, Outdated, Spent, Find, Handle,
                       LoadAccount, Flush, Commit, Succeed, Interrupt, Reply, Goto, vars
  <2> QED
    BY <1>2, <2>1, <2>2, SharedIsKept DEF Calm, Delivered
<1>5. ASSUME \E r \in Roots : row[r] # "absent"
      PROVE  \E t \in Tokens : row[t] = "active" /\ Reachable(t)
  BY <1>3, <1>4, <1>5 DEF SessionInReach, Begun
<1>6. ASSUME NEW t \in Tokens, Login(t) PROVE row'[t] = "active" /\ Reachable(t)'
  BY <1>6 DEF Login, Reachable
<1>7. ASSUME NEW h \in Handlers, Commit(h), UNCHANGED session
      PROVE  h \in Tokens /\ row'[h] = "active" /\ Reachable(h)'
  <2>1. pc[h] = "flushed" /\ row' = Written(h)
    BY <1>7 DEF Commit, Goto
  <2>2. h \in Tokens /\ of[h] # h
    BY <1>3, <2>1 DEF DeliveryMeaning, IsLogout, PointMeaning
  <2>3. row'[h] = "active"
    BY <2>1, <2>2 DEF Written
  <2>4. route[RequestOf[h]] = "waiting"
    <3> DEFINE q == RequestOf[h]
    <3>1. route[q] \in {"waiting", "answered"}
      BY <1>4, <2>1 DEF DeliveryMeaning, Calm
    <3>2. ASSUME route[q] = "answered" PROVE FALSE
      <4>1. heard[q] \in Handlers /\ RequestOf[heard[q]] = q /\ answer[heard[q]] # "none"
        BY <1>4, <3>2 DEF DeliveryMeaning, Calm
      <4>2. pc[heard[q]] # "new"
        BY <4>1 DEF PointMeaning
      <4>3. heard[q] = h
        BY <1>4, <2>1, <4>1, <4>2 DEF Calm, Delivered
      <4> QED
        BY <2>1, <4>1, <4>3 DEF PointMeaning
    <3> QED
      BY <3>1, <3>2
  <2> QED
    BY <1>7, <2>2, <2>3, <2>4 DEF session, Reachable
<1>8. ASSUME NEW q \in Requests, Hear(q), NEW t \in Tokens, row[t] = "active", Reachable(t)
      PROVE  Reachable(t)'
  <2>1. CASE t \in Roots
    BY <2>1 DEF Reachable
  <2>2. CASE t \in Refreshes /\ RequestOf[t] # q
    BY <1>8, <2>2 DEF Hear, Move, vars, Reachable
  <2>3. CASE t \in Refreshes /\ RequestOf[t] = q
    <3>1. PICK h \in Handlers : RequestOf[h] = q /\ answer[h] # "none"
                                /\ heard' = [heard EXCEPT ![q] = h]
      BY <1>4, <1>8 DEF Hear, Calm
    <3>2. pc[h] # "new" /\ pc[t] # "new"
      BY <1>8, <2>3, <3>1 DEF PointMeaning
    <3>3. h = t
      BY <1>4, <2>3, <3>1, <3>2 DEF Calm, Delivered
    <3>4. answer[t] = "ok"
      BY <1>8, <2>3, <3>1, <3>3 DEF SessionInReach
    <3> QED
      BY <1>8, <2>3, <3>1, <3>3, <3>4 DEF Hear, vars, Reachable
  <2> QED
    BY <2>1, <2>2, <2>3
<1>9. ASSUME NEW q \in Requests, Ask(q), NEW t \in Tokens, Reachable(t) PROVE Reachable(t)'
  BY <1>9 DEF Ask, Move, vars, Reachable
<1>10. ASSUME UNCHANGED session, \A h \in Handlers : answer[h] = "ok" => answer'[h] = "ok",
              NEW t \in Tokens, Reachable(t)
       PROVE  Reachable(t)'
  BY <1>10 DEF session, Reachable
<1>11. ASSUME row' = row, \A t \in Tokens : row[t] = "active" /\ Reachable(t) => Reachable(t)'
       PROVE  \E t \in Tokens : row'[t] = "active" /\ Reachable(t)'
  BY <1>2, <1>5, <1>11 DEF Begun
<1>12. ASSUME NEW q \in Requests, TimeOut(q) PROVE FALSE
  BY <1>2, <1>12 DEF TimeOut, Move, Calm
<1>13. ASSUME NEW t \in Tokens, Expire(t) PROVE row' = row /\ answer' = answer
  BY <1>13 DEF Expire
<1>14. ASSUME NEW h \in Handlers, ~Commit(h), LookUp(h) \/ Handle(h) \/ Interrupt(h)
       PROVE  row' = row /\ \A g \in Handlers : answer[g] = "ok" => answer'[g] = "ok"
  BY <1>14 DEF LookUp, Unknown, Outdated, Spent, Find, Handle, LoadAccount, Flush,
               Succeed, Interrupt, Reply, Goto, PointMeaning
<1>15. ASSUME NEW h \in Handlers, Start(h) PROVE LookUp(h) /\ ~Commit(h)
  BY <1>15 DEF Start, LookUp, Unknown, Outdated, Spent, Find, Commit, Reply, Goto
<1>16. CASE UNCHANGED allVars
  BY <1>10, <1>11, <1>16 DEF allVars, vars
<1>17. ASSUME NEW q \in Requests, Ask(q) \/ Hear(q)
       PROVE  \E t \in Tokens : row'[t] = "active" /\ Reachable(t)'
  BY <1>8, <1>9, <1>11, <1>17 DEF Ask, Hear, vars
<1>18. ASSUME NEW t \in Tokens, World(t)
       PROVE  \E u \in Tokens : row'[u] = "active" /\ Reachable(u)'
  BY <1>6, <1>10, <1>11, <1>13, <1>18 DEF World
<1>19. ASSUME NEW h \in Handlers, Start(h) \/ Serve(h) \/ CutShort(h)
       PROVE  \E u \in Tokens : row'[u] = "active" /\ Reachable(u)'
  <2>1. UNCHANGED session
    BY <1>19 DEF Start, Serve, CutShort
  <2>2. CASE Commit(h)
    BY <1>7, <2>1, <2>2
  <2>3. CASE ~Commit(h)
    BY <1>10, <1>11, <1>14, <1>15, <1>19, <2>1, <2>3 DEF Serve, CutShort
  <2> QED
    BY <2>2, <2>3
<1> QED
  BY <1>12, <1>16, <1>17, <1>18, <1>19 DEF SessionNext

\* The table, the handlers, the deliveries and the routes form an inductive
\* invariant.
THEOREM SessionInductiveInvariant == SessionSpec => []SessionIInv
<1>1. SessionSpec => []IInv
  BY RoutesUseTheService, InductiveInvariant
<1> DEFINE Rest == DeliveryMeaning /\ SessionSurvives /\ SessionInReach
<1>2. SessionInit => Rest
  BY DeliveryAssumption DEF SessionInit, Init, DeliveryMeaning, SessionSurvives,
                            SessionInReach, Begun
<1>3. IInv /\ IInv' /\ SessionTypeOK /\ Rest /\ [SessionNext]_allVars => Rest'
  BY StepKeepsDeliveryMeaning, StepKeepsSessionSurvives, StepKeepsSessionInReach
<1>4. IInv /\ SessionTypeOK /\ Rest => SessionIInv
  BY DEF SessionIInv
<1> QED
  BY <1>1, <1>2, <1>3, <1>4, SessionTypes, PTL DEF SessionSpec

\* However often a refresh is delivered and wherever it is cut short, a
\* session that nobody asked to end has a token that is not spent.
THEOREM SessionsSurvive == SessionSpec => []SessionSurvives
<1>1. SessionIInv => SessionSurvives
  BY DEF SessionIInv
<1> QED
  BY <1>1, SessionInductiveInvariant, PTL

\* What auth_svc answered makes the token of the request useless, unless the
\* id of the request is shared.
LEMMA AnsweredIsUseless ==
  ASSUME SessionIInv, NEW q \in Requests \ shared, route[q] = "answered", body[q] # NoToken
  PROVE  Useless(body[q])
<1> USE DEF SessionIInv
<1>1. /\ heard[q] \in Handlers
      /\ RequestOf[heard[q]] = q
      /\ answer[heard[q]] \in {"ok", "invalid"}
  BY DEF DeliveryMeaning, IInv, TypeOK
<1>2. of[heard[q]] = body[q]
  BY <1>1 DEF DeliveryMeaning, IInv, PointMeaning
<1> QED
  BY <1>1, <1>2 DEF DeliveryMeaning, Useless, IInv, AnswersHold

\* A client whose ids are its own is told 401 only for a token that cannot be
\* used again.
THEOREM RefusalsAreReal == SessionSpec => []RefusalIsReal
<1>1. SessionIInv => RefusalIsReal
  <2> SUFFICES ASSUME SessionIInv, NEW q \in Requests \ shared,
                      Ended(q), body[q] # NoToken, Status(q) = 401
               PROVE  Useless(body[q])
    BY DEF RefusalIsReal
  <2>1. route[q] # "timeout"
    <3>1. RouteStatus("none") = 504
      BY DEF RouteStatus, HttpStatus
    <3> QED
      BY <3>1 DEF Status, Outcome
  <2> QED
    BY <2>1, AnsweredIsUseless DEF Ended
<1> QED
  BY <1>1, SessionInductiveInvariant, PTL

\* A logout with an id of its own that auth_svc answered has made its token
\* useless, although the route does not look at the answer.
THEOREM LogoutsAreDone == SessionSpec => []LogoutIsDone
<1>1. SessionIInv => LogoutIsDone
  BY AnsweredIsUseless DEF LogoutIsDone
<1> QED
  BY <1>1, SessionInductiveInvariant, PTL

\* A client that sent no logout, and whose requests each had an id of their
\* own and were handled once and answered, holds a token that is not spent.
THEOREM SessionsAreKept == SessionSpec => []SessionIsKept
<1>1. SessionIInv => SessionIsKept
  <2> SUFFICES ASSUME SessionIInv, Smooth, Begun
               PROVE  \E t \in Tokens : Holds(t) /\ row[t] = "active"
    BY DEF SessionIsKept
  <2> USE DeliveryAssumption DEF SessionIInv, IInv, TypeOK, SessionTypeOK
  <2>1. Calm
    <3>1. \A q \in Requests : route[q] # "timeout"
      BY DEF Smooth
    <3>2. \A q \in Requests : \A g, h \in Delivered(q) : g = h
      BY DEF Smooth, Delivered, DeliveryMeaning
    <3> QED
      BY <3>1, <3>2 DEF Calm, Smooth
  <2>2. PICK t \in Tokens : row[t] = "active" /\ Reachable(t)
    BY <2>1 DEF SessionInReach
  <2>3. Holds(t)
    BY <2>2 DEF Reachable, Holds, Smooth
  <2> QED
    BY <2>2, <2>3
<1> QED
  BY <1>1, SessionInductiveInvariant, PTL

=============================================================================
