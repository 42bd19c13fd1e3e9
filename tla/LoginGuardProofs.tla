-------------------------- MODULE LoginGuardProofs --------------------------
(***************************************************************************)
(* Proofs about LoginGuard, for every set of workers and of attempts and   *)
(* every limit.                                                            *)
(***************************************************************************)
EXTENDS LoginGuard, FiniteSetTheorems, TLAPS

USE RightAssumption, LimitAssumption, FaultsAssumption, AttemptAssumption
    DEF Points

-----------------------------------------------------------------------------
\* One lemma per conjunct of the inductive invariant, one step per action.

LEMMA TypeNext ==
  ASSUME TypeOK, [Next]_vars
  PROVE  TypeOK'
<1> USE DEF TypeOK
<1>1. ASSUME NEW w \in Workers, NEW a \in Attempts, Refuse(w, a) PROVE TypeOK'
  BY <1>1 DEF Refuse, redis
<1>2. ASSUME NEW w \in Workers, NEW a \in Attempts, Admit(w, a) PROVE TypeOK'
  BY <1>2 DEF Admit, Goto, redis
<1>3. ASSUME NEW w \in Workers, Handle(w) PROVE TypeOK'
  <2>1. CASE Verify(w)
    BY <2>1 DEF Verify, Goto, redis
  <2>2. CASE CountFailure(w)
    BY <2>2 DEF CountFailure, Goto
  <2>3. CASE OpenWindow(w)
    BY <2>3 DEF OpenWindow, Goto
  <2>4. CASE BelowLimit(w)
    BY <2>4 DEF BelowLimit, Finish, Goto, redis
  <2>5. CASE SetBan(w)
    BY <2>5 DEF SetBan, Goto
  <2>6. CASE ClearAfterBan(w)
    BY <2>6 DEF ClearAfterBan, Finish, Goto, DeleteCounter
  <2>7. CASE ClearAfterMatch(w)
    BY <2>7 DEF ClearAfterMatch, Goto, DeleteCounter
  <2>8. CASE Issue(w)
    BY <2>8 DEF Issue, Finish, Goto, redis
  <2>9. QED
    BY <1>3, <2>1, <2>2, <2>3, <2>4,
       <2>5, <2>6, <2>7, <2>8 DEF Handle
<1>4. ASSUME NEW w \in Workers, Interrupt(w) PROVE TypeOK'
  <2>1. PICK outcome \in {"waiting", "done"} : Finish(w, pc[w], outcome)
    BY <1>4 DEF Interrupt
  <2>2. status' \in [Attempts -> {"waiting", "taken", "done"}]
    BY <2>1 DEF Finish
  <2>3. faults' \in 0..MaxFaults
    BY <1>4 DEF Interrupt
  <2>4. QED
    BY <1>4, <2>1, <2>2, <2>3 DEF Interrupt, Finish, Goto, redis
<1>5. CASE CounterExpires
  BY <1>5 DEF CounterExpires, DeleteCounter
<1>6. CASE BanExpires
  BY <1>6 DEF BanExpires
<1>7. CASE UNCHANGED vars
  BY <1>7 DEF vars
<1>8. QED
  BY <1>1, <1>2, <1>3, <1>4, <1>5, <1>6, <1>7 DEF Next

LEMMA OwnerNext ==
  ASSUME TypeOK, LimitOwner, [Next]_vars
  PROVE  LimitOwner'
<1> USE DEF TypeOK, LimitOwner
<1>1. ASSUME NEW w \in Workers, NEW a \in Attempts, Refuse(w, a) PROVE LimitOwner'
  BY <1>1 DEF Refuse, redis
<1>2. ASSUME NEW w \in Workers, NEW a \in Attempts, Admit(w, a) PROVE LimitOwner'
  BY <1>2 DEF Admit, Goto, redis
<1>3. ASSUME NEW w \in Workers, Handle(w) PROVE LimitOwner'
  <2>1. CASE Verify(w)
    BY <2>1 DEF Verify, Goto, redis
  <2>2. CASE CountFailure(w)
    BY <2>2 DEF CountFailure, Goto
  <2>3. CASE OpenWindow(w)
    BY <2>3 DEF OpenWindow, Goto
  <2>4. CASE BelowLimit(w)
    BY <2>4 DEF BelowLimit, Finish, Goto, redis
  <2>5. CASE SetBan(w)
    BY <2>5 DEF SetBan, Goto
  <2>6. CASE ClearAfterBan(w)
    BY <2>6 DEF ClearAfterBan, Finish, Goto, DeleteCounter
  <2>7. CASE ClearAfterMatch(w)
    BY <2>7 DEF ClearAfterMatch, Goto, DeleteCounter
  <2>8. CASE Issue(w)
    BY <2>8 DEF Issue, Finish, Goto, redis
  <2>9. QED
    BY <1>3, <2>1, <2>2, <2>3, <2>4,
       <2>5, <2>6, <2>7, <2>8 DEF Handle
<1>4. ASSUME NEW w \in Workers, Interrupt(w) PROVE LimitOwner'
  BY <1>4 DEF Interrupt, Finish, Goto, redis
<1>5. CASE CounterExpires
  BY <1>5 DEF CounterExpires, DeleteCounter
<1>6. CASE BanExpires
  BY <1>6 DEF BanExpires
<1>7. CASE UNCHANGED vars
  BY <1>7 DEF vars
<1>8. QED
  BY <1>1, <1>2, <1>3, <1>4, <1>5, <1>6, <1>7 DEF Next

LEMMA ClearingNext ==
  ASSUME TypeOK, ClearingIsBanned, [Next]_vars
  PROVE  ClearingIsBanned'
<1> USE DEF TypeOK, ClearingIsBanned
<1>1. ASSUME NEW w \in Workers, NEW a \in Attempts, Refuse(w, a) PROVE ClearingIsBanned'
  BY <1>1 DEF Refuse, redis
<1>2. ASSUME NEW w \in Workers, NEW a \in Attempts, Admit(w, a) PROVE ClearingIsBanned'
  BY <1>2 DEF Admit, Goto, redis
<1>3. ASSUME NEW w \in Workers, Handle(w) PROVE ClearingIsBanned'
  <2>1. CASE Verify(w)
    BY <2>1 DEF Verify, Goto, redis
  <2>2. CASE CountFailure(w)
    BY <2>2 DEF CountFailure, Goto
  <2>3. CASE OpenWindow(w)
    BY <2>3 DEF OpenWindow, Goto
  <2>4. CASE BelowLimit(w)
    BY <2>4 DEF BelowLimit, Finish, Goto, redis
  <2>5. CASE SetBan(w)
    BY <2>5 DEF SetBan, Goto
  <2>6. CASE ClearAfterBan(w)
    BY <2>6 DEF ClearAfterBan, Finish, Goto, DeleteCounter
  <2>7. CASE ClearAfterMatch(w)
    BY <2>7 DEF ClearAfterMatch, Goto, DeleteCounter
  <2>8. CASE Issue(w)
    BY <2>8 DEF Issue, Finish, Goto, redis
  <2>9. QED
    BY <1>3, <2>1, <2>2, <2>3, <2>4,
       <2>5, <2>6, <2>7, <2>8 DEF Handle
<1>4. ASSUME NEW w \in Workers, Interrupt(w) PROVE ClearingIsBanned'
  BY <1>4 DEF Interrupt, Finish, Goto, redis
<1>5. CASE CounterExpires
  BY <1>5 DEF CounterExpires, DeleteCounter
<1>6. CASE BanExpires
  BY <1>6 DEF BanExpires
<1>7. CASE UNCHANGED vars
  BY <1>7 DEF vars
<1>8. QED
  BY <1>1, <1>2, <1>3, <1>4, <1>5, <1>6, <1>7 DEF Next

LEMMA WindowNext ==
  ASSUME TypeOK, WindowHasCounter, [Next]_vars
  PROVE  WindowHasCounter'
<1> USE DEF TypeOK, WindowHasCounter
<1>1. ASSUME NEW w \in Workers, NEW a \in Attempts, Refuse(w, a) PROVE WindowHasCounter'
  BY <1>1 DEF Refuse, redis
<1>2. ASSUME NEW w \in Workers, NEW a \in Attempts, Admit(w, a) PROVE WindowHasCounter'
  BY <1>2 DEF Admit, Goto, redis
<1>3. ASSUME NEW w \in Workers, Handle(w) PROVE WindowHasCounter'
  <2>1. CASE Verify(w)
    BY <2>1 DEF Verify, Goto, redis
  <2>2. CASE CountFailure(w)
    BY <2>2 DEF CountFailure, Goto
  <2>3. CASE OpenWindow(w)
    BY <2>3 DEF OpenWindow, Goto
  <2>4. CASE BelowLimit(w)
    BY <2>4 DEF BelowLimit, Finish, Goto, redis
  <2>5. CASE SetBan(w)
    BY <2>5 DEF SetBan, Goto
  <2>6. CASE ClearAfterBan(w)
    BY <2>6 DEF ClearAfterBan, Finish, Goto, DeleteCounter
  <2>7. CASE ClearAfterMatch(w)
    BY <2>7 DEF ClearAfterMatch, Goto, DeleteCounter
  <2>8. CASE Issue(w)
    BY <2>8 DEF Issue, Finish, Goto, redis
  <2>9. QED
    BY <1>3, <2>1, <2>2, <2>3, <2>4,
       <2>5, <2>6, <2>7, <2>8 DEF Handle
<1>4. ASSUME NEW w \in Workers, Interrupt(w) PROVE WindowHasCounter'
  BY <1>4 DEF Interrupt, Finish, Goto, redis
<1>5. CASE CounterExpires
  BY <1>5 DEF CounterExpires, DeleteCounter
<1>6. CASE BanExpires
  BY <1>6 DEF BanExpires
<1>7. CASE UNCHANGED vars
  BY <1>7 DEF vars
<1>8. QED
  BY <1>1, <1>2, <1>3, <1>4, <1>5, <1>6, <1>7 DEF Next

LEMMA CutNext ==
  ASSUME TypeOK, WindowHasCounter, WindowUnlessCut, [Next]_vars
  PROVE  WindowUnlessCut'
<1> USE DEF TypeOK, WindowHasCounter, WindowUnlessCut
<1>1. ASSUME NEW w \in Workers, NEW a \in Attempts, Refuse(w, a) PROVE WindowUnlessCut'
  BY <1>1 DEF Refuse, redis
<1>2. ASSUME NEW w \in Workers, NEW a \in Attempts, Admit(w, a) PROVE WindowUnlessCut'
  BY <1>2 DEF Admit, Goto, redis
<1>3. ASSUME NEW w \in Workers, Handle(w) PROVE WindowUnlessCut'
  <2>1. CASE Verify(w)
    BY <2>1 DEF Verify, Goto, redis
  <2>2. CASE CountFailure(w)
    BY <2>2 DEF CountFailure, Goto
  <2>3. CASE OpenWindow(w)
    BY <2>3 DEF OpenWindow, Goto
  <2>4. CASE BelowLimit(w)
    BY <2>4 DEF BelowLimit, Finish, Goto, redis
  <2>5. CASE SetBan(w)
    BY <2>5 DEF SetBan, Goto
  <2>6. CASE ClearAfterBan(w)
    BY <2>6 DEF ClearAfterBan, Finish, Goto, DeleteCounter
  <2>7. CASE ClearAfterMatch(w)
    BY <2>7 DEF ClearAfterMatch, Goto, DeleteCounter
  <2>8. CASE Issue(w)
    BY <2>8 DEF Issue, Finish, Goto, redis
  <2>9. QED
    BY <1>3, <2>1, <2>2, <2>3, <2>4,
       <2>5, <2>6, <2>7, <2>8 DEF Handle
<1>4. ASSUME NEW w \in Workers, Interrupt(w) PROVE WindowUnlessCut'
  BY <1>4 DEF Interrupt, Finish, Goto, redis
<1>5. CASE CounterExpires
  BY <1>5 DEF CounterExpires, DeleteCounter
<1>6. CASE BanExpires
  BY <1>6 DEF BanExpires
<1>7. CASE UNCHANGED vars
  BY <1>7 DEF vars
<1>8. QED
  BY <1>1, <1>2, <1>3, <1>4, <1>5, <1>6, <1>7 DEF Next

LEMMA IInvInit == Init => IInv
<1> SUFFICES ASSUME Init PROVE IInv
  OBVIOUS
<1>1. TypeOK
  <2>1. faults \in 0..MaxFaults
    BY DEF Init
  <2>2. window \in BOOLEAN /\ ban \in BOOLEAN
    BY DEF Init
  <2>3. /\ status \in [Attempts -> {"waiting", "taken", "done"}]
        /\ pc \in [Workers -> Points]
        /\ job \in [Workers -> Attempts \union {NoAttempt}]
        /\ seen \in [Workers -> Nat]
    BY DEF Init
  <2>4. counter \in Nat /\ streak \in Nat
    BY DEF Init
  <2>5. QED
    BY <2>1, <2>2, <2>3, <2>4 DEF TypeOK
<1>2. counter = 0 /\ window = FALSE /\ ~(counter >= MaxAttempts)
  BY DEF Init
<1>3. ClearingIsBanned
  BY DEF Init, ClearingIsBanned
<1>4. QED
  BY <1>1, <1>2, <1>3 DEF IInv, LimitOwner, WindowHasCounter, WindowUnlessCut

LEMMA IInvNext == IInv /\ [Next]_vars => IInv'
  BY TypeNext, OwnerNext, ClearingNext, WindowNext, CutNext DEF IInv

\* The inductive invariant: who answers for a counter that is full, or that
\* has no time to live.
THEOREM InductiveInvariant == Spec => []IInv
<1>1. QED
  BY IInvInit, IInvNext, PTL DEF Spec

-----------------------------------------------------------------------------
\* Every variable keeps its type.
THEOREM TypeCorrect == Spec => []TypeOK
<1>1. IInv => TypeOK
  BY DEF IInv
<1>2. QED
  BY <1>1, InductiveInvariant, PTL

\* While no handler is cut short, a counter at its limit means that the ban
\* is set or about to be, for any number of replicas.
THEOREM FullCounterBans == Spec => []LimitBans
<1>1. IInv => LimitBans
  BY DEF IInv, LimitOwner, ClearingIsBanned, LimitBans
<1>2. QED
  BY <1>1, InductiveInvariant, PTL

\* Races alone never leave a counter of failures without a time to live.
THEOREM CounterIsTemporary == Spec => []WindowUnlessCut
<1>1. IInv => WindowUnlessCut
  BY DEF IInv
<1>2. QED
  BY <1>1, InductiveInvariant, PTL

-----------------------------------------------------------------------------
\* How many failures the protection lets through.

\* Two disjoint groups of workers are together no more than the workers.
LEMMA Groups ==
  ASSUME NEW S \in SUBSET Workers, NEW T \in SUBSET Workers, S \intersect T = {}
  PROVE  /\ Cardinality(S) \in Nat /\ Cardinality(T) \in Nat
         /\ Cardinality(Workers) \in Nat
         /\ Cardinality(S) + Cardinality(T) <= Cardinality(Workers)
<1>1. /\ IsFiniteSet(S) /\ IsFiniteSet(T)
      /\ S \union T \in SUBSET Workers
  BY WorkersAssumption, FS_Subset
<1>2. /\ Cardinality(S) \in Nat /\ Cardinality(T) \in Nat
      /\ Cardinality(Workers) \in Nat
  BY <1>1, WorkersAssumption, FS_CardinalityType
<1>3. Cardinality(S \union T) = Cardinality(S) + Cardinality(T) - Cardinality(S \intersect T)
  BY <1>1, FS_Union
<1>4. Cardinality(S \intersect T) = 0
  BY FS_EmptySet
<1>5. Cardinality(S \union T) <= Cardinality(Workers)
  BY <1>1, WorkersAssumption, FS_Subset
<1> QED
  BY <1>2, <1>3, <1>4, <1>5

\* One worker joins or leaves a group.
LEMMA OneWorker ==
  ASSUME NEW S \in SUBSET Workers, NEW w \in Workers
  PROVE  /\ w \notin S => Cardinality(S \union {w}) = Cardinality(S) + 1
         /\ w \in S => Cardinality(S \ {w}) = Cardinality(S) - 1
         /\ w \notin S => Cardinality(S) < Cardinality(Workers)
<1>1. IsFiniteSet(S) /\ Cardinality(S) \in Nat
  BY WorkersAssumption, FS_Subset, FS_CardinalityType
<1>2. w \notin S => Cardinality(S \union {w}) = Cardinality(S) + 1
  BY <1>1, FS_AddElement, Zenon
<1>3. w \in S => Cardinality(S \ {w}) = Cardinality(S) - 1
  BY <1>1, FS_RemoveElement, Zenon
<1>4. ASSUME w \notin S PROVE Cardinality(S) < Cardinality(Workers)
  <2>1. S \union {w} \in SUBSET Workers
    OBVIOUS
  <2>2. /\ Cardinality(S \union {w}) <= Cardinality(Workers)
        /\ Cardinality(Workers) \in Nat
    BY <2>1, WorkersAssumption, FS_Subset, FS_CardinalityType
  <2> QED
    BY <1>1, <1>2, <1>4, <2>2
<1> QED
  BY <1>2, <1>3, <1>4

LEMMA Sizes ==
  /\ Cardinality(Racing) \in Nat /\ Cardinality(Banning) \in Nat
  /\ Cardinality(Workers) \in Nat
  /\ Cardinality(Racing) + Cardinality(Banning) <= Cardinality(Workers)
<1>1. /\ Racing \in SUBSET Workers /\ Banning \in SUBSET Workers
      /\ Racing \intersect Banning = {}
  BY DEF Racing, Banning
<1> QED
  BY <1>1, Groups

\* A step that changes nothing the ledger speaks of, but for workers that
\* stop racing.
LEMMA SameAccount ==
  ASSUME TypeOK, TypeOK', FailureLedger,
         Racing' \in SUBSET Racing, Banning' = Banning,
         ban' = ban, streak' = streak, counter' = counter, faults' = faults,
         ban => \A w \in Workers : pc[w] = "clearing" => pc'[w] = "clearing"
  PROVE  FailureLedger'
<1>1. IsFiniteSet(Racing)
  <2>1. Racing \in SUBSET Workers
    BY DEF Racing
  <2> QED
    BY <2>1, WorkersAssumption, FS_Subset
<1>2. Cardinality(Racing') <= Cardinality(Racing) /\ Cardinality(Racing') \in Nat
  BY <1>1, FS_Subset, FS_CardinalityType
<1> QED
  BY <1>2, Sizes DEF FailureLedger, TypeOK

LEMMA FailureNext ==
  ASSUME IInv, TypeOK', FailureLedger, [Next]_vars
  PROVE  FailureLedger'
<1> USE DEF IInv, TypeOK
<1>0. /\ Racing \in SUBSET Workers /\ Banning \in SUBSET Workers
      /\ Racing' \in SUBSET Workers /\ Banning' \in SUBSET Workers
      /\ Racing' \intersect Banning' = {}
  BY DEF Racing, Banning
<1>00. /\ Cardinality(Racing') \in Nat /\ Cardinality(Banning') \in Nat
       /\ Cardinality(Racing') + Cardinality(Banning') <= Cardinality(Workers)
  BY <1>0, Groups
<1>1. ASSUME NEW w \in Workers, NEW a \in Attempts, Refuse(w, a) PROVE FailureLedger'
  BY <1>1, SameAccount DEF Refuse, redis, Racing, Banning
<1>2. ASSUME NEW w \in Workers, NEW a \in Attempts, Admit(w, a) PROVE FailureLedger'
  <2>1. Banning' = Banning
    BY <1>2 DEF Admit, Goto, Banning
  <2> QED
    BY <1>2, <2>1 DEF Admit, redis, FailureLedger
<1>3. ASSUME NEW w \in Workers, Handle(w) PROVE FailureLedger'
  <2>1. CASE Verify(w)
    <3>1. Banning' = Banning /\ Racing' \in SUBSET Racing
      BY <2>1 DEF Verify, Goto, Banning, Racing
    <3>2. \A v \in Workers : pc[v] = "clearing" => pc'[v] = "clearing"
      BY <2>1 DEF Verify, Goto
    <3> QED
      BY <2>1, <3>1, <3>2, SameAccount DEF Verify, redis
  <2>2. CASE CountFailure(w)
    <3>1. /\ pc[w] = "failed" /\ pc' = [pc EXCEPT ![w] = "counted"]
          /\ counter' = counter + 1 /\ seen' = [seen EXCEPT ![w] = counter + 1]
          /\ streak' = streak + 1 /\ ban' = ban /\ faults' = faults
      BY <2>2 DEF CountFailure, Goto
    <3>2. w \in Racing /\ Racing' = Racing \ {w}
      BY <3>1 DEF Racing
    <3>3. Cardinality(Racing') = Cardinality(Racing) - 1
      BY <1>0, <3>2, OneWorker
    <3>4. w \notin Banning
      BY <3>1 DEF Banning
    <3>5. CASE ban
      <4>1. \A v \in Workers : pc[v] = "clearing" => pc'[v] = "clearing"
        BY <3>1
      <4> QED
        BY <3>1, <3>3, <3>5, <4>1, Sizes DEF FailureLedger
    <3>6. CASE ~ban /\ counter + 1 >= MaxAttempts
      <4>1. Banning' = Banning \union {w}
        BY <3>1, <3>6 DEF Banning
      <4>2. Cardinality(Banning') = Cardinality(Banning) + 1
        BY <1>0, <3>4, <4>1, OneWorker
      <4> QED
        BY <3>1, <3>6, <4>2, Sizes DEF FailureLedger
    <3>7. CASE ~ban /\ counter + 1 < MaxAttempts
      BY <1>00, <3>1, <3>7 DEF FailureLedger
    <3> QED
      BY <3>5, <3>6, <3>7
  <2>3. CASE OpenWindow(w)
    <3>1. Banning' = Banning /\ Racing' = Racing
      BY <2>3 DEF OpenWindow, Goto, Banning, Racing
    <3>2. \A v \in Workers : pc[v] = "clearing" => pc'[v] = "clearing"
      BY <2>3 DEF OpenWindow, Goto
    <3> QED
      BY <2>3, <3>1, <3>2, SameAccount DEF OpenWindow
  <2>4. CASE BelowLimit(w)
    <3>1. Banning' = Banning /\ Racing' = Racing
      BY <2>4 DEF BelowLimit, Finish, Goto, Banning, Racing
    <3>2. \A v \in Workers : pc[v] = "clearing" => pc'[v] = "clearing"
      BY <2>4 DEF BelowLimit, Finish, Goto
    <3> QED
      BY <2>4, <3>1, <3>2, SameAccount DEF BelowLimit, redis
  <2>5. CASE SetBan(w)
    <3>1. Racing' = Racing
      BY <2>5 DEF SetBan, Goto, Racing
    <3>2. pc'[w] = "clearing"
      BY <2>5 DEF SetBan, Goto
    <3> QED
      BY <2>5, <3>1, <3>2, Sizes DEF SetBan, FailureLedger
  <2>6. CASE ClearAfterBan(w)
    <3>1. Racing' = Racing /\ w \notin Racing /\ ban
      BY <2>6 DEF ClearAfterBan, Finish, Goto, Racing, ClearingIsBanned
    <3>2. Cardinality(Racing) < Cardinality(Workers)
      BY <1>0, <3>1, OneWorker
    <3> QED
      BY <2>6, <3>1, <3>2, Sizes DEF ClearAfterBan, DeleteCounter, FailureLedger
  <2>7. CASE ClearAfterMatch(w)
    <3>1. Racing' = Racing /\ w \notin Racing
      BY <2>7 DEF ClearAfterMatch, Goto, Racing
    <3>2. Cardinality(Racing) < Cardinality(Workers)
      BY <1>0, <3>1, OneWorker
    <3> QED
      BY <2>7, <1>00, <3>1, <3>2, Sizes DEF ClearAfterMatch, DeleteCounter, FailureLedger
  <2>8. CASE Issue(w)
    <3>1. Banning' = Banning /\ Racing' = Racing
      BY <2>8 DEF Issue, Finish, Goto, Banning, Racing
    <3>2. \A v \in Workers : pc[v] = "clearing" => pc'[v] = "clearing"
      BY <2>8 DEF Issue, Finish, Goto
    <3> QED
      BY <2>8, <3>1, <3>2, SameAccount DEF Issue, redis
  <2> QED
    BY <1>3, <2>1, <2>2, <2>3, <2>4, <2>5, <2>6, <2>7, <2>8 DEF Handle
<1>4. ASSUME NEW w \in Workers, Interrupt(w) PROVE FailureLedger'
  <2>1. /\ pc' = [pc EXCEPT ![w] = "idle"] /\ seen' = [seen EXCEPT ![w] = 0]
        /\ faults' = faults + 1 /\ UNCHANGED <<redis, streak>>
    BY <1>4 DEF Interrupt, Finish, Goto
  <2>2. Racing' = Racing \ {w} /\ Banning' = Banning \ {w}
    BY <2>1 DEF Racing, Banning
  <2>3. /\ Cardinality(Racing') <= Cardinality(Racing)
        /\ Cardinality(Banning) <= Cardinality(Banning') + 1
    <3>1. /\ w \in Racing => Cardinality(Racing') = Cardinality(Racing) - 1
          /\ w \in Banning => Cardinality(Banning') = Cardinality(Banning) - 1
      BY <1>0, <2>2, OneWorker
    <3>2. /\ w \notin Racing => Racing' = Racing
          /\ w \notin Banning => Banning' = Banning
      BY <2>2
    <3> QED
      BY <3>1, <3>2, Sizes
  <2> QED
    BY <1>00, <2>1, <2>3, Sizes DEF redis, FailureLedger
<1>5. CASE CounterExpires
  <2>1. Racing' = Racing
    BY <1>5 DEF CounterExpires, Racing
  <2> QED
    BY <1>00, <1>5, <2>1, Sizes DEF CounterExpires, DeleteCounter, FailureLedger
<1>6. CASE BanExpires
  BY <1>00, <1>6 DEF BanExpires, FailureLedger
<1>7. CASE UNCHANGED vars
  BY <1>7, SameAccount DEF vars, Racing, Banning
<1>8. QED
  BY <1>1, <1>2, <1>3, <1>4, <1>5, <1>6, <1>7 DEF Next

LEMMA FailureLedgerHolds == Spec => []FailureLedger
<1>1. Init => FailureLedger
  <2> SUFFICES ASSUME Init PROVE FailureLedger
    OBVIOUS
  <2>1. ~ban /\ streak = 0 /\ counter = 0 /\ faults = 0
    BY DEF Init
  <2>2. streak <= counter /\ streak <= MaxAttempts - 1 + Cardinality(Banning) + faults
    BY <2>1, Sizes
  <2> QED
    BY <2>1, <2>2 DEF FailureLedger
<1>2. IInv /\ IInv' /\ FailureLedger /\ [Next]_vars => FailureLedger'
  BY FailureNext DEF IInv
<1> QED
  BY <1>1, <1>2, InductiveInvariant, PTL DEF Spec

\* Between resets no more failures are counted than the limit, plus one for
\* each other worker, plus one for each handler cut short, for any number of
\* workers and any limit.
THEOREM FailuresAreBounded == Spec => []FailureBound
<1>1. IInv /\ FailureLedger => FailureBound
  BY Sizes DEF IInv, TypeOK, FailureLedger, FailureBound
<1> QED
  BY <1>1, InductiveInvariant, FailureLedgerHolds, PTL

\* A user whose ban ends does not start with a full counter.
THEOREM BansEndClean == Spec => FreshStart
<1> DEFINE Clean == ban /\ ~ban' => counter' < Cardinality(Workers) \/ faults > 0
<1>1. IInv /\ FailureLedger /\ [Next]_vars => [Clean]_vars
  <2> SUFFICES ASSUME IInv, FailureLedger, Next, ban, ~ban', faults = 0
               PROVE  counter' < Cardinality(Workers)
    BY DEF IInv, TypeOK
  <2>1. BanExpires
    BY DEF Next, Refuse, Admit, Handle, Verify, CountFailure, OpenWindow, BelowLimit, SetBan,
           ClearAfterBan, ClearAfterMatch, Issue, Interrupt, CounterExpires, redis
  <2>2. counter + Cardinality(Racing) < Cardinality(Workers)
    BY <2>1 DEF BanExpires, FailureLedger
  <2> QED
    BY <2>1, <2>2, Sizes DEF BanExpires, IInv, TypeOK
<1> QED
  BY <1>1, InductiveInvariant, FailureLedgerHolds, PTL DEF Spec, FreshStart

=============================================================================
