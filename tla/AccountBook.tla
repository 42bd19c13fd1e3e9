---------------------------- MODULE AccountBook -----------------------------
(***************************************************************************)
(* What registration promises its clients: an account comes into being at  *)
(* once and whole, only for somebody who asked, and only if no other has   *)
(* its username or address; whoever asked is told one thing, once, and     *)
(* what is said of accounts is true when it is said.  An account may be    *)
(* made before its owner is told or after, and its owner may never hear of *)
(* it.  Who asks under an id that somebody else uses too is promised an    *)
(* answer to one of them, and so nothing of what it says.                  *)
(***************************************************************************)
CONSTANTS Requests, NameOf, MailOf,  \* the username and address each asks for
          Statuses                   \* what can be said

VARIABLES asked,     \* requests that were made
          accounts,  \* requests that have got their account
          told,      \* HTTP status each was answered with, 0 before
          shared     \* requests made under an id that others use

vars == <<asked, accounts, told, shared>>

Init ==
  /\ asked = {}
  /\ accounts = {}
  /\ told = [r \in Requests |-> 0]
  /\ shared = {}

Ask(r) ==
  /\ r \notin asked
  /\ asked' = asked \union {r}
  /\ shared' \in {shared, shared \union {r}}
  /\ UNCHANGED <<accounts, told>>

\* An account of the request itself is in its way, too.
Free(r) == \A s \in accounts : NameOf[s] # NameOf[r] /\ MailOf[s] # MailOf[r]

Create(r) ==
  /\ r \in asked /\ Free(r)
  /\ accounts' = accounts \union {r}
  /\ UNCHANGED <<asked, told, shared>>

Tell(r, s) ==
  /\ r \in asked /\ told[r] = 0
  /\ told' = [told EXCEPT ![r] = s]
  /\ UNCHANGED <<asked, accounts, shared>>

Confirm(r) == r \in accounts /\ Tell(r, 200)

Refuse(r) == ~Free(r) /\ Tell(r, 409)

SayNothing(r) == \E s \in {500, 504} : Tell(r, s)

Mislead(r) == r \in shared /\ \E s \in Statuses : Tell(r, s)

Next == \E r \in Requests :
  Ask(r) \/ Create(r) \/ Confirm(r) \/ Refuse(r) \/ SayNothing(r) \/ Mislead(r)

Spec == Init /\ [][Next]_vars

=============================================================================
