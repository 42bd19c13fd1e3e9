------------------------- MODULE RegistrationProofs -------------------------
(***************************************************************************)
(* Proofs about Registration, for every number of requests, of names and   *)
(* of deliveries.                                                          *)
(***************************************************************************)
EXTENDS Registration, TLAPS

-----------------------------------------------------------------------------
\* Type correctness.

\* A run belongs to a request and is one of its deliveries.
LEMMA RunFacts ==
  /\ \A x \in Runs : x[1] \in Requests /\ x[2] \in Nat /\ x = <<x[1], x[2]>> /\ x[2] >= 1
  /\ \A r \in Requests, n \in Nat : n >= 1 /\ n <= MaxDeliveries[r] => <<r, n>> \in Runs
  BY BoundAssumption DEF Runs

\* The statuses the register route answers with when it is told the truth.
LEMMA StatusFacts ==
  /\ {200, 409, 500, 504} \subseteq Statuses /\ 0 \notin Statuses
  /\ \A a \in Answers : RouteStatus(a) \in {200, 409, 500, 504}
  /\ \A a \in Answers : RouteStatus(a) = 200 => a = "ok"
  /\ \A a \in Answers : RouteStatus(a) = 409 => a = "auth.user_exists"
  /\ RouteStatus("none") = 504
  BY DEF Answers, RouteStatus, HttpStatus, Statuses

LEMMA TypeInit == Init => TypeOK
  BY DEF Init, TypeOK, Points, Answers

LEMMA RefuseType ==
  ASSUME TypeOK, NEW x \in Runs, NEW from, NEW code \in Answers, Refuse(x, from, code)
  PROVE  TypeOK'
  BY DEF TypeOK, Points, Answers, Goto, Refuse, http, queue

LEMMA GotoType ==
  ASSUME TypeOK, NEW x \in Runs, NEW from, NEW to \in Points, Goto(x, from, to),
         answer' = answer, rows' = rows
  PROVE  TypeOK'
  BY DEF TypeOK, Points, Answers, Goto, http, queue

LEMMA HandleType ==
  ASSUME TypeOK, NEW x \in Runs, Handle(x)
  PROVE  TypeOK'
<1>1. "auth.user_exists" \in Answers /\ "common.internal_error" \in Answers
      /\ {"nameFree", "mailFree", "inserted"} \subseteq Points
  BY DEF Answers, Points
<1>2. CASE CheckName(x)
  BY <1>1, <1>2, RefuseType, GotoType DEF CheckName
<1>3. CASE CheckMail(x)
  BY <1>1, <1>3, RefuseType, GotoType DEF CheckMail
<1>4. CASE Insert(x)
  BY <1>1, <1>4, RefuseType, GotoType DEF Insert
<1>5. CASE DatabaseFails(x)
  BY <1>1, <1>5, RefuseType DEF DatabaseFails
<1> USE DEF TypeOK, Points, Answers, Goto, http, queue
<1>6. CASE Commit(x) \/ CommitRaises(x)
  BY <1>6 DEF Commit, CommitRaises
<1>7. CASE Reply(x)
  BY <1>7, RunFacts DEF Reply
<1>8. CASE Ack(x)
  BY <1>8 DEF Ack
<1>9. QED
  BY <1>2, <1>3, <1>4, <1>5, <1>6, <1>7, <1>8 DEF Handle, Proceed

LEMMA TypeStep ==
  ASSUME TypeOK, [Next]_vars
  PROVE  TypeOK'
<1> USE RunFacts DEF TypeOK, Points, http, queue
<1>1. ASSUME NEW r \in Requests, Post(r) PROVE TypeOK'
  BY <1>1 DEF Post
<1>2. ASSUME NEW r \in Requests, Answered(r) \/ Crossed(r) \/ TimesOut(r) PROVE TypeOK'
  <2>1. PICK s \in Statuses : Respond(r, s)
    BY <1>2, StatusFacts DEF Answered, Crossed, TimesOut, Answers
  <2>2. QED
    BY <2>1, StatusFacts DEF Respond
<1>3. ASSUME NEW r \in Requests, Deliver(r) PROVE TypeOK'
  <2>1. <<r, deliveries[r] + 1>> \in Runs
    BY <1>3 DEF Deliver
  <2>2. QED
    BY <1>3, <2>1 DEF Deliver
<1>4. ASSUME NEW r \in Requests, LoseConnection(r) PROVE TypeOK'
  BY <1>4 DEF LoseConnection, GiveBack
<1>5. ASSUME NEW x \in Runs, Crash(x) PROVE TypeOK'
  BY <1>5 DEF Crash, GiveBack, Answers
<1>6. ASSUME NEW x \in Runs, Handle(x) PROVE TypeOK'
  BY <1>6, HandleType
<1>7. CASE UNCHANGED vars
  BY <1>7 DEF vars
<1>8. QED
  BY <1>1, <1>2, <1>3, <1>4, <1>5, <1>6, <1>7 DEF Next

\* Types are kept, and every answer is a status a route can give.
THEOREM TypeCorrect == Spec => []TypeOK
<1>1. TypeOK /\ [Next]_vars => TypeOK'
  BY TypeStep
<1>2. QED
  BY TypeInit, <1>1, PTL DEF Spec

-----------------------------------------------------------------------------
\* The inductive invariant.

Safe ==
  /\ InsertInv /\ RunInv /\ AnswerInv
  /\ UniqueAccounts /\ SuccessIsStored /\ ConflictIsReal

\* Before it is posted a request is nowhere; before its answer it has none.
LEMMA PostStep ==
  ASSUME TypeOK, PostInv, RunInv, [Next]_vars
  PROVE  PostInv'
<1> USE DEF PostInv
<1>1. ASSUME NEW r \in Requests, Post(r) PROVE PostInv'
  BY <1>1 DEF TypeOK, Post
<1>2. ASSUME NEW r \in Requests, Answered(r) \/ Crossed(r) \/ TimesOut(r) PROVE PostInv'
  <2>1. PICK s : Respond(r, s)
    BY <1>2 DEF Answered, Crossed, TimesOut
  <2>2. /\ client[r] = "waiting" /\ client' = [client EXCEPT ![r] = "answered"]
        /\ \A q \in Requests \ {r} : status'[q] = status[q]
        /\ UNCHANGED queue
    BY <2>1 DEF TypeOK, Respond
  <2>3. QED
    BY <2>2 DEF TypeOK, queue
<1>3. ASSUME NEW r \in Requests, Deliver(r) PROVE PostInv'
  BY <1>3 DEF TypeOK, Deliver, http
<1>4. ASSUME NEW r \in Requests, LoseConnection(r) PROVE PostInv'
  BY <1>4 DEF TypeOK, LoseConnection, GiveBack, http
<1>5. ASSUME NEW x \in Runs, Crash(x) PROVE PostInv'
  <2>1. holder[x[1]] = x => client[x[1]] # "new"
    BY RunFacts, NoRunAssumption DEF Runs
  <2>2. QED
    BY <1>5, <2>1 DEF TypeOK, Crash, GiveBack, queue, http
<1>6. ASSUME NEW x \in Runs, Handle(x), ~Ack(x) PROVE PostInv'
  BY <1>6 DEF Handle, Proceed, CheckName, CheckMail, Insert, Commit, CommitRaises,
              DatabaseFails, Reply, Refuse, Goto, http, queue
<1>7. ASSUME NEW x \in Runs, Ack(x) PROVE PostInv'
  BY <1>7 DEF TypeOK, Ack, http
<1>8. CASE UNCHANGED vars
  BY <1>8 DEF vars
<1>9. QED
  BY <1>1, <1>2, <1>3, <1>4, <1>5, <1>6, <1>7, <1>8 DEF Next

LEMMA SafeInit == Init => Safe
  BY RunFacts DEF Init, Safe, InsertInv, RunInv, AnswerInv, UniqueAccounts,
                  SuccessIsStored, ConflictIsReal

\* An account and a delivery are never taken back.
LEMMA TakenStays ==
  ASSUME TypeOK, rows \subseteq rows', \A r \in Requests : deliveries'[r] >= deliveries[r],
         deliveries' \in [Requests -> Nat], NEW r \in Requests, Taken(r)
  PROVE  Taken(r)'
  BY DEF Taken, TypeOK

\* Rows and what was said of them stand when neither rows nor answers change.
LEMMA QuietStep ==
  ASSUME TypeOK, Safe, TypeOK', rows' = rows,
         \A x \in Runs : answer'[x] \in {answer[x], "none"},
         replies' = replies, status' = status, shared \subseteq shared',
         \A r \in Requests : deliveries'[r] >= deliveries[r],
         \A x \in Runs : /\ pc'[x] = "inserted" => pc[x] = "inserted"
                         /\ pc'[x] # "none" => x[2] <= deliveries'[x[1]]
                         /\ pc[x] \in {"answering", "replied", "ended"} =>
                              pc'[x] \in {"answering", "replied", "ended"}
  PROVE  Safe'
<1>1. \A r \in Requests : Taken(r) => Taken(r)'
  BY TakenStays DEF TypeOK
<1>2. InsertInv' /\ RunInv' /\ UniqueAccounts'
  BY DEF Safe, InsertInv, RunInv, UniqueAccounts, Clash, SameName, SameMail, TypeOK
<1>3. AnswerInv'
  <2>1. \A x \in Runs : /\ answer'[x] = "ok" => x \in rows'
                        /\ answer'[x] = "auth.user_exists" => Taken(x[1])'
    BY <1>1, RunFacts DEF Safe, AnswerInv
  <2>2. \A m \in replies' : /\ m[2] = "ok" => \E x \in rows' : x[1] = m[1]
                            /\ m[2] = "auth.user_exists" => Taken(m[1])'
    BY <1>1 DEF Safe, AnswerInv, TypeOK
  <2>3. QED
    BY <2>1, <2>2 DEF AnswerInv
<1>4. SuccessIsStored' /\ ConflictIsReal'
  BY <1>1 DEF Safe, SuccessIsStored, ConflictIsReal
<1>5. QED
  BY <1>2, <1>3, <1>4 DEF Safe

\* The register route repeats what it was told, which is true unless the id
\* of the request is shared.
LEMMA RespondSafe ==
  ASSUME TypeOK, Safe, TypeOK', NEW r \in Requests,
         Answered(r) \/ Crossed(r) \/ TimesOut(r)
  PROVE  Safe'
<1>1. PICK s \in Statuses : Respond(r, s)
  BY StatusFacts DEF Answered, Crossed, TimesOut, Answers
<1>2. status'[r] = s /\ \A q \in Requests \ {r} : status'[q] = status[q]
  BY <1>1 DEF Respond, TypeOK
<1>3. UNCHANGED <<queue, shared, pc, answer, rows>> /\ replies' \subseteq replies
  BY <1>1 DEF Respond
<1>4. \A q \in Requests : Taken(q)' <=> Taken(q)
  BY <1>3 DEF Taken, queue
<1>5. InsertInv' /\ RunInv' /\ UniqueAccounts' /\ AnswerInv'
  BY <1>3, <1>4, RunFacts
     DEF Safe, InsertInv, RunInv, UniqueAccounts, AnswerInv, Clash, SameName, SameMail,
         queue, TypeOK
<1>6. ASSUME r \notin shared
      PROVE  /\ s = 200 => \E x \in rows : x[1] = r
             /\ s = 409 => Taken(r)
  <2>1. PICK a \in Answers : Respond(r, RouteStatus(a)) /\ (a = "none" \/ <<r, a>> \in replies)
    BY <1>6 DEF Answered, Crossed, TimesOut, Answers
  <2>2. s = RouteStatus(a)
    BY <1>2, <2>1 DEF Respond, TypeOK
  <2>3. /\ s = 200 => <<r, a>> \in replies /\ a = "ok"
        /\ s = 409 => <<r, a>> \in replies /\ a = "auth.user_exists"
    BY <2>1, <2>2, StatusFacts
  <2>4. \A m \in replies : /\ m[2] = "ok" => \E x \in rows : x[1] = m[1]
                           /\ m[2] = "auth.user_exists" => Taken(m[1])
    BY DEF Safe, AnswerInv
  <2>5. <<r, a>>[1] = r /\ <<r, a>>[2] = a
    OBVIOUS
  <2>6. QED
    BY <2>3, <2>4, <2>5
<1>7. SuccessIsStored'
  BY <1>2, <1>3, <1>6 DEF Safe, SuccessIsStored
<1>8. ConflictIsReal'
  BY <1>2, <1>3, <1>4, <1>6 DEF Safe, ConflictIsReal
<1>9. QED
  BY <1>5, <1>7, <1>8 DEF Safe

\* A refusal with a reason that is true.
LEMMA RefuseSafe ==
  ASSUME TypeOK, Safe, TypeOK', NEW x \in Runs, NEW from \in Points, NEW code \in Answers,
         Refuse(x, from, code), from # "none", code # "ok",
         code = "auth.user_exists" => Taken(x[1])
  PROVE  Safe'
<1>1. /\ \A y \in Runs \ {x} : pc'[y] = pc[y] /\ answer'[y] = answer[y]
      /\ pc[x] = from /\ pc'[x] = "answering" /\ answer'[x] = code
      /\ UNCHANGED <<status, shared, deliveries, rows, replies>>
  BY DEF Refuse, Goto, http, queue, TypeOK
<1>2. \A r \in Requests : Taken(r)' <=> Taken(r)
  BY <1>1 DEF Taken
<1>3. InsertInv' /\ RunInv' /\ UniqueAccounts'
  BY <1>1 DEF Safe, InsertInv, RunInv, UniqueAccounts, Clash, SameName, SameMail, TypeOK
<1>4. AnswerInv'
  BY <1>1, <1>2, RunFacts DEF Safe, AnswerInv, TypeOK
<1>5. SuccessIsStored' /\ ConflictIsReal'
  BY <1>1, <1>2 DEF Safe, SuccessIsStored, ConflictIsReal
<1>6. QED
  BY <1>3, <1>4, <1>5 DEF Safe

\* A step of a handler that claims nothing and inserts nothing.
LEMMA GotoSafe ==
  ASSUME TypeOK, Safe, TypeOK', NEW x \in Runs, NEW from, NEW to,
         Goto(x, from, to), from \in {"begun", "nameFree"}, to \in {"nameFree", "mailFree"},
         answer' = answer, rows' = rows
  PROVE  Safe'
  BY QuietStep DEF Goto, http, queue, TypeOK, Safe, RunInv

\* A taken name or address that a check or the insert of a run has met is
\* another's, or the message was delivered before.
LEMMA MetIsTaken ==
  ASSUME TypeOK, RunInv, NEW x \in Runs, pc[x] \in {"begun", "nameFree", "mailFree"},
         NEW y \in rows, Clash(x, y)
  PROVE  Taken(x[1])
<1>1. y # x /\ y \in Runs
  BY DEF RunInv, TypeOK
<1>2. CASE y[1] # x[1]
  BY <1>2 DEF Taken, Clash, SameName, SameMail
<1>3. CASE y[1] = x[1]
  <2>1. y[2] # x[2] /\ x[2] >= 1 /\ y[2] >= 1 /\ x[2] \in Nat /\ y[2] \in Nat
    BY <1>1, <1>3, RunFacts
  <2>2. x[2] <= deliveries[x[1]] /\ y[2] <= deliveries[x[1]] /\ deliveries[x[1]] \in Nat
    BY <1>1, <1>3, RunFacts DEF RunInv, TypeOK
  <2>3. deliveries[x[1]] > 1
    BY <2>1, <2>2
  <2>4. QED
    BY <2>3 DEF Taken, Clash, SameName, SameMail
<1>4. QED
  BY <1>2, <1>3

\* The insert meets no row: the one it writes clashes with nothing.
LEMMA InsertSafe ==
  ASSUME TypeOK, Safe, TypeOK', NEW x \in Runs, Goto(x, "mailFree", "inserted"),
         ~Locked(x), \A y \in rows : ~Clash(x, y), answer' = answer, rows' = rows
  PROVE  Safe'
<1>1. /\ \A y \in Runs \ {x} : pc'[y] = pc[y]
      /\ pc[x] = "mailFree" /\ pc'[x] = "inserted"
      /\ UNCHANGED <<status, shared, deliveries, rows, replies, answer>>
  BY DEF Goto, http, queue, TypeOK
<1>2. InsertInv'
  BY <1>1 DEF Safe, InsertInv, Locked, Clash, SameName, SameMail
<1>3. RunInv' /\ UniqueAccounts'
  BY <1>1 DEF Safe, RunInv, UniqueAccounts, Clash, SameName, SameMail, TypeOK
<1>4. AnswerInv' /\ SuccessIsStored' /\ ConflictIsReal'
  BY <1>1 DEF Safe, AnswerInv, SuccessIsStored, ConflictIsReal, Taken
<1>5. QED
  BY <1>2, <1>3, <1>4 DEF Safe

\* The commit, whether it is reported as one or not.
LEMMA CommitSafe ==
  ASSUME TypeOK, Safe, TypeOK', NEW x \in Runs, Commit(x) \/ CommitRaises(x)
  PROVE  Safe'
<1>1. /\ pc[x] = "inserted" /\ pc'[x] = "answering"
      /\ \A y \in Runs \ {x} : pc'[y] = pc[y] /\ answer'[y] = answer[y]
      /\ rows' \in {rows, rows \union {x}}
      /\ answer'[x] \in {"ok", "common.internal_error"}
      /\ answer'[x] = "ok" => x \in rows'
      /\ UNCHANGED <<status, shared, deliveries, replies>>
  BY DEF Commit, CommitRaises, Goto, http, queue, TypeOK
<1>2. \A r \in Requests : Taken(r) => Taken(r)'
  BY <1>1, TakenStays DEF TypeOK
<1>3. UniqueAccounts'
  BY <1>1 DEF Safe, InsertInv, UniqueAccounts, Clash, SameName, SameMail
<1>4. InsertInv'
  BY <1>1 DEF Safe, InsertInv, Clash, SameName, SameMail
<1>5. RunInv'
  BY <1>1 DEF Safe, RunInv, TypeOK
<1>6. AnswerInv'
  <2>1. \A y \in Runs : /\ answer'[y] = "ok" => y \in rows'
                        /\ answer'[y] = "auth.user_exists" => Taken(y[1])'
    BY <1>1, <1>2, RunFacts DEF Safe, AnswerInv
  <2>2. \A m \in replies' : /\ m[2] = "ok" => \E y \in rows' : y[1] = m[1]
                            /\ m[2] = "auth.user_exists" => Taken(m[1])'
    BY <1>1, <1>2 DEF Safe, AnswerInv, TypeOK
  <2>3. QED
    BY <2>1, <2>2 DEF AnswerInv
<1>7. SuccessIsStored' /\ ConflictIsReal'
  BY <1>1, <1>2 DEF Safe, SuccessIsStored, ConflictIsReal
<1>8. QED
  BY <1>3, <1>4, <1>5, <1>6, <1>7 DEF Safe

\* The reply carries the answer of its run.
LEMMA ReplySafe ==
  ASSUME TypeOK, Safe, TypeOK', NEW x \in Runs, Reply(x)
  PROVE  Safe'
<1>1. /\ pc[x] = "answering" /\ pc'[x] = "replied" /\ answer'[x] = "none"
      /\ \A y \in Runs \ {x} : pc'[y] = pc[y] /\ answer'[y] = answer[y]
      /\ \A m \in replies' : m \in replies \/ m = <<x[1], answer[x]>>
      /\ UNCHANGED <<status, shared, deliveries, rows>>
  BY DEF Reply, http, queue, TypeOK
<1>2. \A r \in Requests : Taken(r)' <=> Taken(r)
  BY <1>1 DEF Taken
<1>3. InsertInv' /\ RunInv' /\ UniqueAccounts'
  BY <1>1 DEF Safe, InsertInv, RunInv, UniqueAccounts, Clash, SameName, SameMail, TypeOK
<1>4. AnswerInv'
  <2>1. \A y \in Runs : /\ answer'[y] = "ok" => y \in rows'
                        /\ answer'[y] = "auth.user_exists" => Taken(y[1])'
    BY <1>1, <1>2, RunFacts DEF Safe, AnswerInv
  <2>2. /\ answer[x] = "ok" => x \in rows
        /\ answer[x] = "auth.user_exists" => Taken(x[1])
    BY DEF Safe, AnswerInv
  <2>3. \A m \in replies : /\ m[2] = "ok" => \E y \in rows' : y[1] = m[1]
                           /\ m[2] = "auth.user_exists" => Taken(m[1])'
    BY <1>1, <1>2 DEF Safe, AnswerInv, TypeOK
  <2>4. \A m \in replies' : /\ m[2] = "ok" => \E y \in rows' : y[1] = m[1]
                            /\ m[2] = "auth.user_exists" => Taken(m[1])'
    <3>1. x[1] \in Requests
      BY RunFacts
    <3>2. QED
      BY <1>1, <1>2, <2>2, <2>3, <3>1
  <2>5. QED
    BY <2>1, <2>4 DEF AnswerInv
<1>5. SuccessIsStored' /\ ConflictIsReal'
  BY <1>1, <1>2 DEF Safe, SuccessIsStored, ConflictIsReal
<1>6. QED
  BY <1>3, <1>4, <1>5 DEF Safe

LEMMA HandleSafe ==
  ASSUME TypeOK, Safe, TypeOK', NEW x \in Runs, Handle(x)
  PROVE  Safe'
<1>1. /\ {"auth.user_exists", "common.internal_error"} \subseteq Answers
      /\ {"begun", "nameFree", "mailFree"} \subseteq Points
      /\ RunInv
  BY DEF Answers, Points, Safe
<1>2. CASE CheckName(x)
  <2>1. (\E y \in rows : SameName(x, y)) /\ pc[x] = "begun" => Taken(x[1])
    BY <1>1, MetIsTaken DEF Clash
  <2>2. QED
    BY <1>1, <1>2, <2>1, RefuseSafe, GotoSafe DEF CheckName, Refuse, Goto
<1>3. CASE CheckMail(x)
  <2>1. (\E y \in rows : SameMail(x, y)) /\ pc[x] = "nameFree" => Taken(x[1])
    BY <1>1, MetIsTaken DEF Clash
  <2>2. QED
    BY <1>1, <1>3, <2>1, RefuseSafe, GotoSafe DEF CheckMail, Refuse, Goto
<1>4. CASE Insert(x)
  BY <1>1, <1>4, RefuseSafe, InsertSafe DEF Insert
<1>5. CASE Commit(x) \/ CommitRaises(x)
  BY <1>5, CommitSafe
<1>6. CASE DatabaseFails(x)
  BY <1>1, <1>6, RefuseSafe DEF DatabaseFails
<1>7. CASE Reply(x)
  BY <1>7, ReplySafe
<1>8. CASE Ack(x)
  <2>1. /\ pc[x] = "replied" /\ pc' = [pc EXCEPT ![x] = "ended"]
        /\ UNCHANGED <<http, deliveries, answer, rows, replies>>
    BY <1>8 DEF Ack
  <2>2. QED
    BY <2>1, QuietStep DEF http, TypeOK, Safe, RunInv
<1>9. QED
  BY <1>2, <1>3, <1>4, <1>5, <1>6, <1>7, <1>8 DEF Handle, Proceed

LEMMA InductiveStep ==
  ASSUME IInv, [Next]_vars
  PROVE  IInv'
<1>1. TypeOK /\ Safe /\ TypeOK'
  BY TypeStep DEF IInv, Safe
<1>2. ASSUME NEW r \in Requests, Post(r) PROVE Safe'
  BY <1>1, <1>2, QuietStep DEF Post, TypeOK, Safe, RunInv
<1>3. ASSUME NEW r \in Requests, Answered(r) \/ Crossed(r) \/ TimesOut(r) PROVE Safe'
  BY <1>1, <1>3, RespondSafe
<1>4. ASSUME NEW r \in Requests, Deliver(r) PROVE Safe'
  <2>1. /\ \A x \in Runs : pc'[x] = pc[x] \/ (x = <<r, deliveries[r] + 1>> /\ pc'[x] = "begun")
        /\ deliveries'[r] = deliveries[r] + 1
        /\ \A s \in Requests \ {r} : deliveries'[s] = deliveries[s]
        /\ UNCHANGED <<http, answer, rows, replies>>
    BY <1>1, <1>4 DEF Deliver, TypeOK
  <2>2. <<r, deliveries[r] + 1>> \in Runs /\ deliveries[r] \in Nat
    BY <1>1, <1>4, RunFacts DEF Deliver, TypeOK
  <2>3. pc[<<r, deliveries[r] + 1>>] = "none"
    <3> DEFINE x == <<r, deliveries[r] + 1>>
    <3>1. pc[x] # "none" => x[2] <= deliveries[x[1]]
      BY <1>1, <2>2 DEF Safe, RunInv
    <3>2. QED
      BY <2>2, <3>1
  <2>4. \A x \in Runs : /\ pc'[x] = "inserted" => pc[x] = "inserted"
                        /\ pc'[x] # "none" => x[2] <= deliveries'[x[1]]
                        /\ pc[x] \in {"answering", "replied", "ended"} =>
                             pc'[x] \in {"answering", "replied", "ended"}
    BY <1>1, <2>1, <2>2, <2>3, RunFacts DEF Safe, RunInv, TypeOK
  <2>5. \A s \in Requests : deliveries'[s] >= deliveries[s]
    BY <1>1, <2>1 DEF TypeOK
  <2>6. QED
    BY <1>1, <2>1, <2>4, <2>5, QuietStep DEF http
<1>5. ASSUME NEW r \in Requests, LoseConnection(r) PROVE Safe'
  BY <1>1, <1>5, QuietStep DEF LoseConnection, GiveBack, http, TypeOK, Safe, RunInv
<1>6. ASSUME NEW x \in Runs, Crash(x) PROVE Safe'
  <2>1. /\ pc[x] # "none" /\ pc' = [pc EXCEPT ![x] = "ended"]
        /\ answer' = [answer EXCEPT ![x] = "none"]
        /\ UNCHANGED <<http, deliveries, rows, replies>>
    BY <1>6 DEF Crash, GiveBack, queue, Alive
  <2>2. QED
    BY <1>1, <2>1, QuietStep DEF http, TypeOK, Safe, RunInv
<1>7. ASSUME NEW x \in Runs, Handle(x) PROVE Safe'
  BY <1>1, <1>7, HandleSafe
<1>8. ASSUME UNCHANGED vars PROVE Safe'
  BY <1>1, <1>8 DEF vars, Safe, InsertInv, RunInv, AnswerInv, UniqueAccounts,
                    SuccessIsStored, ConflictIsReal, Taken
<1>9. Safe'
  BY <1>2, <1>3, <1>4, <1>5, <1>6, <1>7, <1>8 DEF Next
<1>10. PostInv'
  BY PostStep DEF IInv
<1>11. QED
  BY <1>1, <1>9, <1>10 DEF IInv, Safe

-----------------------------------------------------------------------------
\* Uncommitted rows clash with nothing, and answers are true from the time
\* they are chosen: the inductive invariant.
THEOREM InductiveInvariant == Spec => []IInv
<1>1. Init => IInv
  BY TypeInit, SafeInit DEF IInv, Safe, Init, PostInv
<1>2. IInv /\ [Next]_vars => IInv'
  BY InductiveStep
<1>3. QED
  BY <1>1, <1>2, PTL DEF Spec

\* However many handlers race between their checks and their inserts, no two
\* accounts share a username or an address.
THEOREM AccountsAreUnique == Spec => []UniqueAccounts
<1>1. IInv => UniqueAccounts
  BY DEF IInv
<1>2. QED
  BY <1>1, InductiveInvariant, PTL

\* A client that is told 200, under an id of its own, has its account.
THEOREM SuccessesAreStored == Spec => []SuccessIsStored
<1>1. IInv => SuccessIsStored
  BY DEF IInv
<1>2. QED
  BY <1>1, InductiveInvariant, PTL

\* A client that is told 409, under an id of its own, lost to an account that
\* exists.
THEOREM ConflictsAreReal == Spec => []ConflictIsReal
<1>1. IInv => ConflictIsReal
  BY DEF IInv
<1>2. QED
  BY <1>1, InductiveInvariant, PTL

\* Of the clients with ids of their own that want one name or address at most
\* one is told 200: each of two would have an account, and the accounts would
\* clash.
THEOREM WinnersAreUnique == Spec => []OneWinner
<1>1. IInv => OneWinner
  <2> SUFFICES ASSUME IInv, NEW r \in Requests \ shared, NEW s \in Requests \ shared, r # s,
                      NameOf[r] = NameOf[s] \/ MailOf[r] = MailOf[s],
                      status[r] = 200, status[s] = 200
               PROVE  FALSE
    BY DEF OneWinner
  <2>1. PICK x \in rows : x[1] = r
    BY DEF IInv, SuccessIsStored
  <2>2. PICK y \in rows : y[1] = s
    BY DEF IInv, SuccessIsStored
  <2>3. QED
    BY <2>1, <2>2 DEF IInv, UniqueAccounts, Clash, SameName, SameMail
<1>2. QED
  BY <1>1, InductiveInvariant, PTL

-----------------------------------------------------------------------------
\* The service implements AccountBook.

\* When the book has room for a request, in terms of the rows.
LEMMA BookFacts ==
  ASSUME TypeOK, NEW r \in Requests
  PROVE  /\ Book!Free(r) <=> \A y \in rows : /\ NameOf[y[1]] # NameOf[r]
                                             /\ MailOf[y[1]] # MailOf[r]
         /\ Taken(r) => ~Book!Free(r)
  BY DEF Book!Free, Taken

LEMMA InitRefines == Init => Book!Init
  BY DEF Init, Book!Init

\* An answer of the route is the confirmation of an account, a refusal for
\* one that exists, or says nothing; under a shared id it may mislead.
LEMMA RespondRefines ==
  ASSUME IInv, IInv', NEW r \in Requests, Answered(r) \/ Crossed(r) \/ TimesOut(r)
  PROVE  Book!Confirm(r) \/ Book!Refuse(r) \/ Book!SayNothing(r) \/ Book!Mislead(r)
<1>1. PICK s \in Statuses : Respond(r, s) /\ (r \in shared \/ s \in {200, 409, 500, 504})
  BY StatusFacts DEF Answered, Crossed, TimesOut, Answers
<1>2. /\ client[r] = "waiting" /\ client' = [client EXCEPT ![r] = "answered"]
      /\ status' = [status EXCEPT ![r] = s] /\ status[r] = 0
      /\ UNCHANGED <<rows, shared, deliveries>>
  BY <1>1 DEF Respond, queue, IInv, PostInv
<1>3. Book!Tell(r, s)
  BY <1>2 DEF Book!Tell, IInv, TypeOK
<1>4. status'[r] = s
  BY <1>2 DEF IInv, TypeOK
<1>5. CASE r \in shared
  BY <1>1, <1>3, <1>5 DEF Book!Mislead
<1>6. CASE r \notin shared /\ s = 200
  BY <1>2, <1>3, <1>4, <1>6 DEF IInv, SuccessIsStored, Book!Confirm
<1>7. CASE r \notin shared /\ s = 409
  <2>1. Taken(r)
    BY <1>2, <1>4, <1>7 DEF IInv, ConflictIsReal, Taken
  <2>2. QED
    BY <1>3, <1>7, <2>1, BookFacts DEF IInv, Book!Refuse
<1>8. CASE s \in {500, 504}
  BY <1>3, <1>8 DEF Book!SayNothing
<1>9. QED
  BY <1>1, <1>5, <1>6, <1>7, <1>8

\* A commit, reported or not, is the one step that makes an account.
LEMMA CommitRefines ==
  ASSUME IInv, NEW x \in Runs, Commit(x) \/ CommitRaises(x)
  PROVE  Book!Create(x[1]) \/ UNCHANGED Book!vars
<1>1. /\ pc[x] = "inserted" /\ rows' \in {rows, rows \union {x}}
      /\ UNCHANGED <<client, status, shared, deliveries>>
  BY DEF Commit, CommitRaises, Goto, http, queue
<1>2. CASE rows' = rows
  BY <1>1, <1>2 DEF Book!vars
<1>3. CASE rows' = rows \union {x}
  <2>1. x[1] \in Requests /\ client[x[1]] # "new"
    <3>1. x[2] <= deliveries[x[1]] /\ x[2] >= 1 /\ x[2] \in Nat
      BY <1>1, RunFacts DEF IInv, RunInv
    <3>2. QED
      BY <3>1, RunFacts DEF IInv, PostInv
  <2>2. Book!Free(x[1])
    BY <1>1, <2>1, BookFacts DEF IInv, InsertInv, Clash, SameName, SameMail
  <2>3. {y[1] : y \in rows'} = {y[1] : y \in rows} \union {x[1]}
    BY <1>3
  <2>4. QED
    BY <1>1, <2>1, <2>2, <2>3 DEF Book!Create
<1>4. QED
  BY <1>1, <1>2, <1>3

LEMMA StepRefines ==
  ASSUME IInv, IInv', [Next]_vars
  PROVE  [Book!Next]_(Book!vars)
<1>1. ASSUME NEW r \in Requests, Post(r) PROVE Book!Ask(r)
  BY <1>1 DEF Post, IInv, TypeOK, Book!Ask
<1>2. ASSUME NEW r \in Requests, Answered(r) \/ Crossed(r) \/ TimesOut(r) PROVE Book!Next
  BY <1>2, RespondRefines DEF Book!Next
<1>3. ASSUME NEW r \in Requests, Deliver(r) \/ LoseConnection(r)
      PROVE  UNCHANGED Book!vars
  BY <1>3 DEF Deliver, LoseConnection, http, Book!vars
<1>4. ASSUME NEW x \in Runs, Crash(x) \/ Reply(x) \/ Ack(x)
      PROVE  UNCHANGED Book!vars
  BY <1>4 DEF Crash, Reply, Ack, http, Book!vars
<1>5. ASSUME NEW x \in Runs, CheckName(x) \/ CheckMail(x) \/ Insert(x) \/ DatabaseFails(x)
      PROVE  UNCHANGED Book!vars
  BY <1>5 DEF CheckName, CheckMail, Insert, DatabaseFails, Refuse, Goto, http, Book!vars
<1>6. ASSUME NEW x \in Runs, Commit(x) \/ CommitRaises(x)
      PROVE  Book!Next \/ UNCHANGED Book!vars
  BY <1>6, CommitRefines, RunFacts DEF Book!Next
<1>7. CASE UNCHANGED vars
  BY <1>7 DEF vars, Book!vars
<1>8. QED
  BY <1>1, <1>2, <1>3, <1>4, <1>5, <1>6, <1>7
     DEF Next, Handle, Proceed, Book!Next

\* Crashes, redeliveries, races of transactions and lost answers show nowhere:
\* to its clients registration makes each account at once, for one who asked,
\* and tells each client with an id of its own one true thing.
THEOREM Implementation == Spec => AccountsAreAtomic
<1>1. IInv /\ IInv' /\ [Next]_vars => [Book!Next]_(Book!vars)
  BY StepRefines
<1>2. QED
  BY InductiveInvariant, InitRefines, <1>1, PTL
     DEF Spec, AccountsAreAtomic, Book!Spec

=============================================================================
