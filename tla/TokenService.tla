---------------------------- MODULE TokenService ----------------------------
(***************************************************************************)
(* The refresh tokens of one account: AuthService.refresh_token and logout *)
(* (apps/auth_svc/services/auth_service.py) over the table refresh_tokens  *)
(* (apps/auth_svc/db/auth_repository.py).                                  *)
(*                                                                         *)
(* A handler is one execution of either method for one delivery of a       *)
(* request; a redelivery is another handler with the same token.  Handlers *)
(* of all replicas run at the same time, each in a transaction of its own: *)
(* a read sees what is committed, an UPDATE locks its row until the        *)
(* transaction ends (PostgreSQL, READ COMMITTED).  The token a refresh     *)
(* issues is named after its handler: every jti is a fresh uuid4.          *)
(***************************************************************************)
EXTENDS Naturals

CONSTANTS
  Roots,         \* tokens issued at login
  Refreshes,     \* handlers that run refresh_token
  Logouts,       \* handlers that run logout
  LoadOutcomes,  \* what `old_token.account` does: "loaded", "raises"
  MaxFaults,     \* bound: handlers cut short by a crash or an exception
  NoToken        \* a handler without a token of the table

ASSUME NamesAssumption ==
  /\ Roots \intersect (Refreshes \union Logouts) = {}
  /\ Refreshes \intersect Logouts = {}
  /\ NoToken \notin Roots \union Refreshes \union Logouts
ASSUME LoadAssumption   == LoadOutcomes \subseteq {"loaded", "raises"}
ASSUME FaultsAssumption == MaxFaults \in Nat

Handlers == Refreshes \union Logouts
Tokens   == Roots \union Refreshes

VARIABLES
  row,      \* the committed row of each token
  expired,  \* tokens whose exp has passed
  pc,       \* program point of each handler
  of,       \* the token a handler was given
  answer,   \* what a handler replied
  faults    \* handlers cut short (history)

vars == <<row, expired, pc, of, answer, faults>>

Points == {"new", "found", "account", "flushed", "committed", "done", "failed"}

TypeOK ==
  /\ row     \in [Tokens -> {"absent", "active", "revoked"}]
  /\ expired \in SUBSET Tokens
  /\ pc      \in [Handlers -> Points]
  /\ of      \in [Handlers -> Tokens \union {NoToken}]
  /\ answer  \in [Handlers -> {"none", "ok", "invalid"}]
  /\ faults  \in 0..MaxFaults

Init ==
  /\ row     = [t \in Tokens |-> "absent"]
  /\ expired = {}
  /\ pc      = [h \in Handlers |-> "new"]
  /\ of      = [h \in Handlers |-> NoToken]
  /\ answer  = [h \in Handlers |-> "none"]
  /\ faults  = 0

Goto(h, from, to) ==
  /\ pc[h] = from
  /\ pc' = [pc EXCEPT ![h] = to]

\* A client has the token: from a login, or as the answer to a refresh.
Issued(t) == IF t \in Roots THEN row[t] # "absent" ELSE answer[t] = "ok"

-----------------------------------------------------------------------------
\* The environment: a login, and time.

Login(t) ==
  /\ t \in Roots
  /\ row[t] = "absent"
  /\ row' = [row EXCEPT ![t] = "active"]
  /\ UNCHANGED <<expired, pc, of, answer, faults>>

Expire(t) ==
  /\ row[t] # "absent"
  /\ expired' = expired \union {t}
  /\ UNCHANGED <<row, pc, of, answer, faults>>

-----------------------------------------------------------------------------
\* refresh_token and logout.

\* Operators named Bad... are faulty variants of the definition below them.
\* Nothing refers to them: each is put in the place of that definition to
\* see that the properties notice the mistake.

Reply(h, from, text) ==
  /\ Goto(h, from, "done")
  /\ answer' = [answer EXCEPT ![h] = text]

\* The string does not decode, or its jti is not in the table: a refresh is
\* refused, a logout is refused in the first case only.
Unknown(h) ==
  /\ \E text \in {"ok", "invalid"} :
       /\ h \in Refreshes => text = "invalid"
       /\ Reply(h, "new", text)
  /\ UNCHANGED <<row, expired, of, faults>>

\* An expired token does not decode: both methods refuse it.
Outdated(h, t) ==
  /\ Issued(t)
  /\ t \in expired
  /\ Reply(h, "new", "invalid")
  /\ of' = [of EXCEPT ![h] = t]
  /\ UNCHANGED <<row, expired, faults>>

\* The query finds no row that is not revoked: logout has nothing to do.
Spent(h, t) ==
  /\ Issued(t)
  /\ t \notin expired
  /\ row[t] = "revoked"
  /\ Reply(h, "new", IF h \in Logouts THEN "ok" ELSE "invalid")
  /\ of' = [of EXCEPT ![h] = t]
  /\ UNCHANGED <<row, expired, faults>>

BadFind(h, t) ==          \* the query does not look at revoked_at
  /\ Issued(t)
  /\ t \notin expired
  /\ Goto(h, "new", "found")
  /\ of' = [of EXCEPT ![h] = t]
  /\ UNCHANGED <<row, expired, answer, faults>>

\* The row is read and revoked_at set on the object, not yet in the table.
Find(h, t) ==
  /\ Issued(t)
  /\ t \notin expired
  /\ row[t] = "active"
  /\ Goto(h, "new", "found")
  /\ of' = [of EXCEPT ![h] = t]
  /\ UNCHANGED <<row, expired, answer, faults>>

\* issue_token_pair needs the account of the token.  The relationship loads
\* lazily; where SQLAlchemy cannot do that the handler fails and its
\* transaction is rolled back.
LoadAccount(h) ==
  /\ h \in Refreshes
  /\ \E outcome \in LoadOutcomes :
       Goto(h, "found", IF outcome = "loaded" THEN "account" ELSE "failed")
  /\ UNCHANGED <<row, expired, of, answer, faults>>

BadLocked(t) ==           \* a failed handler leaves its transaction open
  \E h \in Handlers : of[h] = t /\ pc[h] \in {"flushed", "failed"}

\* A transaction has updated the row of t and not ended.
Locked(t) == \E h \in Handlers : of[h] = t /\ pc[h] = "flushed"

\* The flush of refresh_token inserts the new row and updates the old one;
\* the commit of logout begins with the same update.
Flush(h) ==
  /\ ~Locked(of[h])
  /\ Goto(h, IF h \in Refreshes THEN "account" ELSE "found", "flushed")
  /\ UNCHANGED <<row, expired, of, answer, faults>>

BadSuccessor(h) ==        \* the new token is issued and not stored
  [row EXCEPT ![of[h]] = "revoked"]

BadWritten(h) ==          \* the old token is not in the session
  IF h \in Refreshes THEN [row EXCEPT ![h] = "active"]
                     ELSE [row EXCEPT ![of[h]] = "revoked"]

\* What the transaction of h writes.
Written(h) ==
  [t \in Tokens |-> IF t = of[h] THEN "revoked"
                    ELSE IF t = h THEN "active" ELSE row[t]]

BadCommit(h) ==           \* the handler replies and forgets to commit
  /\ Reply(h, "flushed", "ok")
  /\ UNCHANGED <<row, expired, of, faults>>

Commit(h) ==
  /\ Goto(h, "flushed", "committed")
  /\ row' = Written(h)
  /\ UNCHANGED <<expired, of, answer, faults>>

Succeed(h) ==
  /\ Reply(h, "committed", "ok")
  /\ UNCHANGED <<row, expired, of, faults>>

\* A crash or an exception: what is not committed is rolled back, and the
\* answer is not sent.
Interrupt(h) ==
  /\ pc[h] \in {"found", "account", "flushed", "committed"}
  /\ faults < MaxFaults
  /\ Goto(h, pc[h], "failed")
  /\ faults' = faults + 1
  /\ UNCHANGED <<row, expired, of, answer>>

-----------------------------------------------------------------------------
Handle(h) ==
  LoadAccount(h) \/ Flush(h) \/ Commit(h) \/ Succeed(h)

LookUp(h) ==
  Unknown(h) \/ \E t \in Tokens : Outdated(h, t) \/ Spent(h, t) \/ Find(h, t)

Next ==
  \/ \E t \in Tokens : Login(t) \/ Expire(t)
  \/ \E h \in Handlers : LookUp(h) \/ Handle(h) \/ Interrupt(h)

Spec == Init /\ [][Next]_vars

\* The event loop and the database let every running handler go on.
FairSpec == Spec /\ \A h \in Handlers : WF_vars(Handle(h))

-----------------------------------------------------------------------------
\* A refresh is atomic for everyone who reads the table: the successor of a
\* token is never stored while the token itself can still be used, whatever
\* handler is cut short at whatever point.
Rotation ==
  \A h \in Refreshes : row[h] # "absent" =>
    of[h] \in Tokens /\ row[of[h]] = "revoked"

\* Answers are kept: who was given a new token finds it in the table, and who
\* logged a token out with success cannot use it any more.
AnswersHold ==
  \A h \in Handlers : answer[h] = "ok" /\ of[h] # NoToken =>
    /\ h \in Refreshes => row[h] # "absent"
    /\ row[of[h]] = "revoked"

\* A refresh that begins after another handler of the same token answered
\* with success is refused: two refreshes of one token can both succeed only
\* if they overlap.
SpentIsRefused ==
  [][\A h \in Handlers : pc[h] = "new" /\ pc'[h] = "found" =>
       \A g \in Handlers : answer[g] = "ok" => of[g] # of'[h]]_vars

\* No handler waits for ever for the lock of another: whatever runs, there
\* comes a time when every handler that began has ended.
HandlersEnd == []<>(\A h \in Handlers : pc[h] \in {"new", "done", "failed"})

\* The table changes as TokenLedger says.
Ledger == INSTANCE TokenLedger WITH
  usable  <- {t \in Tokens : row[t] = "active"},
  useless <- {t \in Tokens : row[t] = "revoked"}

AtomicChanges == Ledger!Spec

\* Where a handler has got.
PointMeaning ==
  \A h \in Handlers :
    /\ pc[h] \in {"found", "account", "flushed", "committed"} =>
         /\ of[h] \in Tokens /\ row[of[h]] # "absent"
         /\ answer[h] = "none"
    /\ pc[h] \in {"account", "flushed"} /\ h \in Refreshes => row[h] = "absent"
    /\ pc[h] = "committed" => row[of[h]] = "revoked"
    /\ pc[h] = "committed" /\ h \in Refreshes => row[h] # "absent"
    /\ pc[h] \in {"new", "found"} /\ h \in Refreshes => row[h] = "absent"
    /\ pc[h] = "new" => answer[h] = "none" /\ of[h] = NoToken
    /\ h \in Refreshes => of[h] # h

IInv == TypeOK /\ Rotation /\ AnswersHold /\ PointMeaning

\* What a lazy load that always raises leaves of refresh_token: no token is
\* ever renewed, and none is lost by trying, for only a logout revokes.
RefreshesDoNothing ==
  /\ \A h \in Refreshes : /\ pc[h] \in {"new", "found", "done", "failed"}
                          /\ row[h] = "absent" /\ answer[h] # "ok"
  /\ \A h \in Handlers : of[h] \notin Refreshes
  /\ \A t \in Tokens : row[t] = "revoked" =>
       \E h \in Logouts : of[h] = t /\ pc[h] # "new"

\* The docstring of auth_service.py:169: refresh_token renews the pair.  A
\* refresh of an active token that nothing cuts short is answered with one.
RefreshIsAnswered ==
  \A h \in Refreshes : pc[h] = "found" ~> answer[h] = "ok"

=============================================================================
