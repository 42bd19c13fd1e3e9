---------------------------- MODULE Registration ----------------------------
(***************************************************************************)
(* Registration end to end: POST /v1/auth/register of the gateway, the     *)
(* queue core.auth.rpc.register.v1, AuthRegisterRpc on the replicas of     *)
(* auth_svc, AuthService.register, and the table auth.accounts with its    *)
(* unique columns.                                                         *)
(*                                                                         *)
(* A request is one POST.  Its message is delivered again when a replica   *)
(* dies or loses its connection before the ack; a handler that lost its    *)
(* connection goes on beside the new one.  A run <<r, n>> is the handler   *)
(* of the n-th delivery of request r.                                      *)
(*                                                                         *)
(* The id of the RPC is the client's x-request-id.  call_rpc keeps one     *)
(* future for each id, so calls that bear one id take each other's answers *)
(* (RpcCaller, rpc_crossed).  A request is shared when other calls of the  *)
(* gateway, of whatever route, bear its id too.  What the properties say   *)
(* of an answer they say of requests that are not shared.                  *)
(***************************************************************************)
EXTENDS ErrorModel

CONSTANTS
  Requests,       \* POSTs
  Names, NameOf,  \* usernames, and the one in each request
  Mails, MailOf,  \* e-mail addresses, without their case, and the one in each
  MaxDeliveries,  \* bound: deliveries of the message of each request
  MayShare,       \* bound: the requests whose id other calls may bear
  NoRun           \* no run

ASSUME DataAssumption  == NameOf \in [Requests -> Names] /\ MailOf \in [Requests -> Mails]
ASSUME BoundAssumption == MaxDeliveries \in [Requests -> Nat \ {0}]
ASSUME SharingAssumption == MayShare \subseteq Requests
ASSUME NoRunAssumption == NoRun \notin Requests \X Nat

VARIABLES
  client,      \* each request: "new", "waiting", "answered"
  status,      \* the HTTP status it was answered with, 0 before
  shared,      \* the requests whose id other calls bear
  ready,       \* requests whose message is in the queue
  deliveries,  \* deliveries of each message
  holder,      \* the run whose channel holds the unacknowledged message
  pc,          \* program point of each run
  answer,      \* what each run is about to answer
  rows,        \* auth.accounts: the runs that committed one
  replies      \* replies to waiting calls on their way, <<request, answer>>

vars  == <<client, status, shared, ready, deliveries, holder, pc, answer, rows, replies>>
queue == <<ready, deliveries, holder>>
http  == <<client, status, shared>>

Runs   == UNION {{r} \X (1..MaxDeliveries[r]) : r \in Requests}
Points == {"none", "begun", "nameFree", "mailFree", "inserted",
           "answering", "replied", "ended"}
Alive  == Points \ {"none", "ended"}
Answers == {"none", "ok", "auth.user_exists", "common.internal_error"}

TypeOK ==
  /\ client     \in [Requests -> {"new", "waiting", "answered"}]
  /\ status     \in [Requests -> Statuses \union {0}]
  /\ shared     \in SUBSET MayShare
  /\ ready      \in SUBSET Requests
  /\ deliveries \in [Requests -> Nat]
  /\ holder     \in [Requests -> Runs \union {NoRun}]
  /\ pc         \in [Runs -> Points]
  /\ answer     \in [Runs -> Answers]
  /\ rows       \in SUBSET Runs
  /\ replies    \in SUBSET (Requests \X Answers)

Init ==
  /\ client     = [r \in Requests |-> "new"]
  /\ status     = [r \in Requests |-> 0]
  /\ shared     = {}
  /\ ready      = {}
  /\ deliveries = [r \in Requests |-> 0]
  /\ holder     = [r \in Requests |-> NoRun]
  /\ pc         = [x \in Runs |-> "none"]
  /\ answer     = [x \in Runs |-> "none"]
  /\ rows       = {}
  /\ replies    = {}

\* Operators named Bad... are faulty variants of the definition below them.
\* Nothing refers to them: each is put in the place of that definition to
\* see that the properties notice the mistake.

-----------------------------------------------------------------------------
\* The route of the gateway.

\* call_rpc publishes the request, under an id of the client's choice.
Post(r) ==
  /\ client[r] = "new"
  /\ \/ UNCHANGED shared
     \/ r \in MayShare /\ shared' = shared \union {r}
  /\ client' = [client EXCEPT ![r] = "waiting"]
  /\ ready' = ready \union {r}
  /\ UNCHANGED <<status, deliveries, holder, pc, answer, rows, replies>>

BadRespond(r, s) ==       \* a later outcome of the call overwrites the first
  /\ client[r] # "new"
  /\ client' = [client EXCEPT ![r] = "answered"]
  /\ status' = [status EXCEPT ![r] = s]
  /\ replies' = {m \in replies : m[1] # r}
  /\ UNCHANGED <<queue, shared, pc, answer, rows>>

Respond(r, s) ==
  /\ client[r] = "waiting"
  /\ client' = [client EXCEPT ![r] = "answered"]
  /\ status' = [status EXCEPT ![r] = s]
  /\ replies' = {m \in replies : m[1] # r}
  /\ UNCHANGED <<queue, shared, pc, answer, rows>>

\* call_rpc returns a reply to the request.  A reply that comes later finds
\* no future and is dropped.
Answered(r) ==
  \E a \in Answers : <<r, a>> \in replies /\ Respond(r, RouteStatus(a))

\* call_rpc returns the reply to another call, of this route or of another
\* one: it may have any code, and its "success" and its data may fit the
\* register route or not.
Crossed(r) == r \in shared /\ \E s \in Statuses : Respond(r, s)

\* call_rpc returns None after its timeout.
TimesOut(r) == Respond(r, RouteStatus("none"))

-----------------------------------------------------------------------------
\* The queue.

Deliver(r) ==
  LET n == deliveries[r] + 1 IN
  /\ r \in ready /\ n <= MaxDeliveries[r]
  /\ ready' = ready \ {r}
  /\ deliveries' = [deliveries EXCEPT ![r] = n]
  /\ holder' = [holder EXCEPT ![r] = <<r, n>>]
  /\ pc' = [pc EXCEPT ![<<r, n>>] = "begun"]
  /\ UNCHANGED <<http, answer, rows, replies>>

\* An unacknowledged message goes back to the queue.
GiveBack(r) ==
  /\ holder' = [holder EXCEPT ![r] = NoRun]
  /\ ready' = ready \union {r}
  /\ UNCHANGED deliveries

LoseConnection(r) ==
  /\ holder[r] # NoRun
  /\ GiveBack(r)
  /\ UNCHANGED <<http, pc, answer, rows, replies>>

\* The replica of a run dies; PostgreSQL rolls its transaction back.
Crash(x) ==
  /\ pc[x] \in Alive
  /\ pc' = [pc EXCEPT ![x] = "ended"]
  /\ answer' = [answer EXCEPT ![x] = "none"]
  /\ IF holder[x[1]] = x THEN GiveBack(x[1]) ELSE UNCHANGED queue
  /\ UNCHANGED <<http, rows, replies>>

-----------------------------------------------------------------------------
\* AuthRegisterRpc.process_message and AuthService.register.

Goto(x, from, to) ==
  /\ pc[x] = from
  /\ pc' = [pc EXCEPT ![x] = to]
  /\ UNCHANGED <<http, queue, replies>>

Refuse(x, from, code) ==
  /\ Goto(x, from, "answering")
  /\ answer' = [answer EXCEPT ![x] = code]
  /\ UNCHANGED rows

SameName(x, y) == NameOf[x[1]] = NameOf[y[1]]
SameMail(x, y) == MailOf[x[1]] = MailOf[y[1]]
Clash(x, y)    == SameName(x, y) \/ SameMail(x, y)

\* get_by_username.
CheckName(x) ==
  IF \E y \in rows : SameName(x, y)
  THEN Refuse(x, "begun", "auth.user_exists")
  ELSE Goto(x, "begun", "nameFree") /\ UNCHANGED <<answer, rows>>

\* get_by_email, then the hash of the password.
CheckMail(x) ==
  IF \E y \in rows : SameMail(x, y)
  THEN Refuse(x, "nameFree", "auth.user_exists")
  ELSE Goto(x, "nameFree", "mailFree") /\ UNCHANGED <<answer, rows>>

BadLocked(x) ==           \* the checks lock what they read
  \E y \in Runs \ {x} : pc[y] \in {"mailFree", "inserted"} /\ Clash(x, y)

\* The row another transaction has inserted and not yet committed.
Locked(x) == \E y \in Runs \ {x} : pc[y] = "inserted" /\ Clash(x, y)

BadInsert(x) ==           \* the column email is not unique
  /\ ~\E y \in Runs \ {x} : pc[y] = "inserted" /\ SameName(x, y)
  /\ IF \E y \in rows : SameName(x, y)
     THEN Refuse(x, "mailFree", "common.internal_error")
     ELSE Goto(x, "mailFree", "inserted") /\ UNCHANGED <<answer, rows>>

\* The INSERT of session.commit() waits for an uncommitted row with the same
\* name or address.  A committed one violates a unique constraint: e.orig is
\* SQLAlchemy's wrapper of the driver's error and never the driver's
\* UniqueViolationError, so the code is that of an internal error.
Insert(x) ==
  /\ ~Locked(x)
  /\ IF \E y \in rows : Clash(x, y)
     THEN Refuse(x, "mailFree", "common.internal_error")
     ELSE Goto(x, "mailFree", "inserted") /\ UNCHANGED <<answer, rows>>

BadCommit(x) ==           \* the answer is made before the commit, which fails
  /\ Goto(x, "inserted", "answering")
  /\ answer' = [answer EXCEPT ![x] = "ok"]
  /\ rows' \in {rows, rows \union {x}}

Commit(x) ==
  /\ Goto(x, "inserted", "answering")
  /\ answer' = [answer EXCEPT ![x] = "ok"]
  /\ rows' = rows \union {x}

\* The COMMIT raises; the database may have done it even so.
CommitRaises(x) ==
  /\ Goto(x, "inserted", "answering")
  /\ answer' = [answer EXCEPT ![x] = "common.internal_error"]
  /\ rows' \in {rows, rows \union {x}}

BadDatabaseFails(x) ==    \* any exception is taken for a conflict
  \E from \in {"begun", "nameFree", "mailFree"} : Refuse(x, from, "auth.user_exists")

\* A statement raises anything else: rollback, internal error.
DatabaseFails(x) ==
  \E from \in {"begun", "nameFree", "mailFree"} : Refuse(x, from, "common.internal_error")

\* publish_rpc_response.
Reply(x) ==
  /\ pc[x] = "answering"
  /\ pc' = [pc EXCEPT ![x] = "replied"]
  /\ replies' = IF client[x[1]] = "waiting"
                THEN replies \union {<<x[1], answer[x]>>} ELSE replies
  /\ answer' = [answer EXCEPT ![x] = "none"]
  /\ UNCHANGED <<http, queue, rows>>

\* The ack, which means something only on the channel of the delivery.
Ack(x) ==
  /\ pc[x] = "replied"
  /\ pc' = [pc EXCEPT ![x] = "ended"]
  /\ holder' = IF holder[x[1]] = x THEN [holder EXCEPT ![x[1]] = NoRun] ELSE holder
  /\ UNCHANGED <<http, ready, deliveries, answer, rows, replies>>

Proceed(x) ==
  \/ CheckName(x) \/ CheckMail(x) \/ Insert(x) \/ Commit(x)
  \/ CommitRaises(x) \/ Reply(x) \/ Ack(x)

Handle(x) == Proceed(x) \/ DatabaseFails(x)

-----------------------------------------------------------------------------
Next ==
  \/ \E r \in Requests : \/ Post(r) \/ Answered(r) \/ Crossed(r) \/ TimesOut(r)
                         \/ Deliver(r) \/ LoseConnection(r)
  \/ \E x \in Runs : Handle(x) \/ Crash(x)

Spec == Init /\ [][Next]_vars

\* Every await of a handler ends; that a statement fails is not assumed of
\* the database, so an INSERT that waits goes on only when the lock is released.
FairSpec == Spec /\ \A x \in Runs : WF_vars(Proceed(x))

-----------------------------------------------------------------------------
\* Safety.

\* No two accounts share a username or an address, whichever handlers race
\* between their checks and their inserts, and one request creates one account
\* however often it is delivered.
UniqueAccounts == \A x, y \in rows : x # y => ~Clash(x, y)

\* A client that is told 200, under an id of its own, has its account.
SuccessIsStored ==
  \A r \in Requests \ shared : status[r] = 200 => \E x \in rows : x[1] = r

\* Of the clients with ids of their own that want one name or one address at
\* most one is told 200.
OneWinner ==
  \A r, s \in Requests \ shared :
    r # s /\ (NameOf[r] = NameOf[s] \/ MailOf[r] = MailOf[s]) =>
      ~(status[r] = 200 /\ status[s] = 200)

\* A client that is told 409, under an id of its own, lost to an account that
\* exists; that it is the client's own happens only if the message was
\* delivered again.
Taken(r) ==
  \E x \in rows : /\ NameOf[x[1]] = NameOf[r] \/ MailOf[x[1]] = MailOf[r]
                  /\ x[1] # r \/ deliveries[r] > 1

ConflictIsReal == \A r \in Requests \ shared : status[r] = 409 => Taken(r)

-----------------------------------------------------------------------------
\* The inductive invariant.

\* An inserted row clashes with no other, committed or not.
InsertInv ==
  \A x \in Runs : pc[x] = "inserted" =>
    /\ \A y \in rows : ~Clash(x, y)
    /\ \A y \in Runs \ {x} : pc[y] = "inserted" => ~Clash(x, y)

\* A run begins with its delivery, and its row comes at its end.
RunInv ==
  /\ \A x \in Runs : pc[x] # "none" => x[2] <= deliveries[x[1]]
  /\ \A x \in rows : pc[x] \in {"answering", "replied", "ended"}

\* Every answer is true from the time it is chosen.
AnswerInv ==
  /\ \A x \in Runs : /\ answer[x] = "ok" => x \in rows
                     /\ answer[x] = "auth.user_exists" => Taken(x[1])
  /\ \A m \in replies : /\ m[2] = "ok" => \E x \in rows : x[1] = m[1]
                        /\ m[2] = "auth.user_exists" => Taken(m[1])

\* Nothing happens for a request that was not posted, and nothing is said of
\* it before its answer.
PostInv == \A r \in Requests :
  /\ client[r] = "new" =>
       r \notin ready /\ deliveries[r] = 0 /\ holder[r] = NoRun
  /\ client[r] # "answered" => status[r] = 0

\* The safety properties with what they need to be preserved by every step.
IInv ==
  /\ TypeOK /\ InsertInv /\ RunInv /\ AnswerInv /\ PostInv
  /\ UniqueAccounts /\ SuccessIsStored /\ ConflictIsReal

-----------------------------------------------------------------------------
\* Liveness.

\* A handler ends or dies: no two inserts wait for each other.
HandlersEnd == \A x \in Runs : pc[x] = "begun" ~> pc[x] = "ended"

-----------------------------------------------------------------------------
\* Refinement.

\* To its clients the service is a book of accounts: the transactions, the
\* deliveries and the retries behind it show nowhere; a repeated id does.  An
\* account counts from the commit of the first run that stores it.
Book == INSTANCE AccountBook WITH
          asked    <- {r \in Requests : client[r] # "new"},
          accounts <- {x[1] : x \in rows},
          told     <- status

AccountsAreAtomic == Book!Spec

=============================================================================
