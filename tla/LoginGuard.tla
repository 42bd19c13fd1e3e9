----------------------------- MODULE LoginGuard -----------------------------
(***************************************************************************)
(* The brute-force protection of AuthService.issue_token for one username  *)
(* (apps/auth_svc/services/auth_service.py), as the replicas of auth_svc   *)
(* share it through Redis: a counter of failed logins with a time to live, *)
(* and a ban flag with another.                                            *)
(*                                                                         *)
(* An attempt is one auth.issue_token request.  Each worker (a consumer    *)
(* with prefetch 1) handles one at a time; every await of the handler is a *)
(* point where other workers run, and where the handler may be cut short.  *)
(***************************************************************************)
EXTENDS Integers, FiniteSets

CONSTANTS
  Attempts,     \* login requests for the username
  Right,        \* those that carry the right password
  Workers,      \* consumers of the auth.issue_token queue, over all replicas
  MaxAttempts,  \* BRUTEFORCE_MAX_ATTEMPTS
  MaxFaults,    \* bound: handlers cut short by a crash or an exception
  NoAttempt     \* an idle worker has none

ASSUME WorkersAssumption == IsFiniteSet(Workers)
ASSUME RightAssumption   == Right \subseteq Attempts
ASSUME LimitAssumption   == MaxAttempts \in Nat \ {0}
ASSUME FaultsAssumption  == MaxFaults \in Nat
ASSUME AttemptAssumption == NoAttempt \notin Attempts

VARIABLES
  status,     \* each attempt: "waiting" in the queue, "taken", "done"
  counter,    \* auth:rate:login:<username>, 0 when the key is absent
  window,     \* the counter key has a TTL
  ban,        \* auth:ban:login:<username> is set
  pc,         \* program point of each worker
  job,        \* the attempt a worker handles
  seen,       \* what INCR returned to a worker
  streak,     \* failures counted since the last reset or ban (history)
  faults      \* handlers cut short (history)

vars  == <<status, counter, window, ban, pc, job, seen, streak, faults>>
redis == <<counter, window, ban>>

Points == {"idle", "admitted", "failed", "counted", "banning", "clearing",
           "matched", "issuing"}

TypeOK ==
  /\ status  \in [Attempts -> {"waiting", "taken", "done"}]
  /\ counter \in Nat
  /\ window  \in BOOLEAN
  /\ ban     \in BOOLEAN
  /\ pc      \in [Workers -> Points]
  /\ job     \in [Workers -> Attempts \union {NoAttempt}]
  /\ seen    \in [Workers -> Nat]
  /\ streak  \in Nat
  /\ faults  \in 0..MaxFaults

Init ==
  /\ status  = [a \in Attempts |-> "waiting"]
  /\ counter = 0
  /\ window  = FALSE
  /\ ban     = FALSE
  /\ pc      = [w \in Workers |-> "idle"]
  /\ job     = [w \in Workers |-> NoAttempt]
  /\ seen    = [w \in Workers |-> 0]
  /\ streak  = 0
  /\ faults  = 0

Goto(w, from, to) ==
  /\ pc[w] = from
  /\ pc' = [pc EXCEPT ![w] = to]

\* The handler ends and the worker takes its next message.
Finish(w, from, outcome) ==
  /\ Goto(w, from, "idle")
  /\ status' = [status EXCEPT ![job[w]] = outcome]
  /\ job' = [job EXCEPT ![w] = NoAttempt]
  /\ seen' = [seen EXCEPT ![w] = 0]

\* Operators named Bad... are faulty variants of the definition below them.
\* Nothing refers to them: each is put in the place of that definition to
\* see that the properties notice the mistake.

DeleteCounter == counter' = 0 /\ window' = FALSE

-----------------------------------------------------------------------------
\* issue_token.

\* The ban flag is read first; a banned user is refused without a check of
\* the password.
Refuse(w, a) ==
  /\ pc[w] = "idle"
  /\ status[a] = "waiting"
  /\ ban
  /\ status' = [status EXCEPT ![a] = "done"]
  /\ UNCHANGED <<redis, pc, job, seen, streak, faults>>

BadAdmit(w, a) ==         \* the ban flag is not read
  /\ status[a] = "waiting"
  /\ Goto(w, "idle", "admitted")
  /\ status' = [status EXCEPT ![a] = "taken"]
  /\ job' = [job EXCEPT ![w] = a]
  /\ UNCHANGED <<redis, seen, streak, faults>>

Admit(w, a) ==
  /\ status[a] = "waiting"
  /\ ~ban
  /\ Goto(w, "idle", "admitted")
  /\ status' = [status EXCEPT ![a] = "taken"]
  /\ job' = [job EXCEPT ![w] = a]
  /\ UNCHANGED <<redis, seen, streak, faults>>

\* The account is read from PostgreSQL and the password verified.
Verify(w) ==
  /\ Goto(w, "admitted", IF job[w] \in Right THEN "matched" ELSE "failed")
  /\ UNCHANGED <<status, redis, job, seen, streak, faults>>

\* INCR creates the key without a TTL when it is absent.
CountFailure(w) ==
  /\ Goto(w, "failed", "counted")
  /\ counter' = counter + 1
  /\ seen' = [seen EXCEPT ![w] = counter']
  /\ streak' = streak + 1
  /\ UNCHANGED <<status, window, ban, job, faults>>

BadOpenWindow(w) ==       \* the TTL is set by whoever sees 0
  /\ Goto(w, "counted", "banning")
  /\ window' = IF seen[w] = 0 /\ counter > 0 THEN TRUE ELSE window
  /\ UNCHANGED <<status, counter, ban, job, seen, streak, faults>>

\* EXPIRE, for the worker that saw 1 (a missing key stays missing), and the
\* comparison with the limit.
OpenWindow(w) ==
  /\ Goto(w, "counted", "banning")
  /\ window' = IF seen[w] = 1 /\ counter > 0 THEN TRUE ELSE window
  /\ UNCHANGED <<status, counter, ban, job, seen, streak, faults>>

BadBelowLimit(w) ==       \* attempts > BRUTEFORCE_MAX_ATTEMPTS bans
  /\ seen[w] <= MaxAttempts
  /\ Finish(w, "banning", "done")
  /\ UNCHANGED <<redis, streak, faults>>

BelowLimit(w) ==
  /\ seen[w] < MaxAttempts
  /\ Finish(w, "banning", "done")
  /\ UNCHANGED <<redis, streak, faults>>

SetBan(w) ==
  /\ seen[w] >= MaxAttempts
  /\ Goto(w, "banning", "clearing")
  /\ ban' = TRUE
  /\ UNCHANGED <<status, counter, window, job, seen, streak, faults>>

BadClearAfterBan(w) ==    \* the counter survives the ban
  /\ Finish(w, "clearing", "done")
  /\ UNCHANGED <<redis, streak, faults>>

ClearAfterBan(w) ==
  /\ Finish(w, "clearing", "done")
  /\ DeleteCounter
  /\ UNCHANGED <<ban, streak, faults>>

\* The right password: the counter is deleted, then the tokens are stored
\* and committed.
ClearAfterMatch(w) ==
  /\ Goto(w, "matched", "issuing")
  /\ DeleteCounter
  /\ streak' = 0
  /\ UNCHANGED <<status, ban, job, seen, faults>>

Issue(w) ==
  /\ Finish(w, "issuing", "done")
  /\ UNCHANGED <<redis, streak, faults>>

\* A crash, or an exception of Redis or PostgreSQL: the message is handled
\* again, unless it was its last retry.
Interrupt(w) ==
  /\ pc[w] # "idle"
  /\ faults < MaxFaults
  /\ \E outcome \in {"waiting", "done"} : Finish(w, pc[w], outcome)
  /\ faults' = faults + 1
  /\ UNCHANGED <<redis, streak>>

-----------------------------------------------------------------------------
\* Redis.

CounterExpires ==
  /\ window
  /\ DeleteCounter
  /\ streak' = 0
  /\ UNCHANGED <<status, ban, pc, job, seen, faults>>

\* A ban lasts far longer (900 s) than a handler runs: those admitted before
\* it was set are over when it ends.
BanExpires ==
  /\ ban
  /\ \A w \in Workers : pc[w] = "idle"
  /\ ban' = FALSE
  /\ streak' = 0
  /\ UNCHANGED <<status, counter, window, pc, job, seen, faults>>

Handle(w) ==
  \/ Verify(w)     \/ CountFailure(w)  \/ OpenWindow(w)      \/ BelowLimit(w)
  \/ SetBan(w)     \/ ClearAfterBan(w) \/ ClearAfterMatch(w) \/ Issue(w)

Next ==
  \/ \E w \in Workers, a \in Attempts : Refuse(w, a) \/ Admit(w, a)
  \/ \E w \in Workers : Handle(w) \/ Interrupt(w)
  \/ CounterExpires \/ BanExpires

Spec == Init /\ [][Next]_vars

-----------------------------------------------------------------------------
\* The protection has a definite strength: between resets no more failures
\* are counted than the limit, plus one for each other worker that was
\* admitted before the ban was set, plus one per handler that was cut short
\* (auth_service.py reads the ban flag and counts in separate commands).
FailureBound ==
  streak <= MaxAttempts - 1 + Cardinality(Workers) + faults

\* A counter at its limit has led to the ban, or a worker is about to set it:
\* only a handler cut short can leave a full counter without a ban.
LimitBans ==
  counter >= MaxAttempts /\ faults = 0 =>
    ban \/ \E w \in Workers :
             pc[w] \in {"counted", "banning"} /\ seen[w] >= MaxAttempts

\* The counter of failures has a TTL, or the worker that created it is about
\* to set one: races between workers cannot make a counter permanent.
WindowUnlessCut ==
  counter > 0 /\ ~window /\ faults = 0 =>
    \E w \in Workers : pc[w] = "counted" /\ seen[w] = 1

\* A user whose ban ends starts with fewer failures than there are workers,
\* the ones that raced with the ban, and not with a full counter that would
\* ban the user again at the first mistake.
FreshStart ==
  [][ban /\ ~ban' => counter' < Cardinality(Workers) \/ faults > 0]_vars

\* Why LimitBans and WindowUnlessCut hold: the worker that filled the counter
\* keeps it in its hands until the ban is set and the counter deleted.
LimitOwner ==
  counter >= MaxAttempts /\ faults = 0 =>
    \E w \in Workers :
      pc[w] \in {"counted", "banning", "clearing"} /\ seen[w] >= MaxAttempts

ClearingIsBanned ==
  \A w \in Workers : pc[w] = "clearing" => ban

\* Workers that passed the ban check and may still count a failure, and those
\* that counted one too many and are about to set the ban.
Racing  == {w \in Workers : pc[w] \in {"admitted", "failed"}}
Banning == {w \in Workers : pc[w] \in {"counted", "banning"} /\ seen[w] >= MaxAttempts}

\* Why FailureBound and FreshStart hold: without a ban every failure over the
\* limit has a worker that brings the ban, or was cut short; under a ban only
\* the workers that raced with it count, against a counter that is deleted.
FailureLedger ==
  /\ ~ban => /\ streak <= counter
             /\ streak <= MaxAttempts - 1 + Cardinality(Banning) + faults
  /\ ban => streak + Cardinality(Racing) <= MaxAttempts - 1 + Cardinality(Workers) + faults
  /\ ban /\ faults = 0 => \/ \E w \in Workers : pc[w] = "clearing"
                          \/ counter + Cardinality(Racing) < Cardinality(Workers)

WindowHasCounter == window => counter > 0

IInv == /\ TypeOK /\ LimitOwner /\ ClearingIsBanned
        /\ WindowHasCounter /\ WindowUnlessCut

=============================================================================
