---------------------------- MODULE TokenLedger ----------------------------
(***************************************************************************)
(* What the token service promises about refresh tokens: each change is    *)
(* atomic.  A login makes one token usable; a logout makes one useless; a  *)
(* refresh makes its token useless in the same step in which the successor *)
(* becomes usable.  A useless token never becomes usable again.            *)
(***************************************************************************)
CONSTANTS Tokens, Roots   \* Roots: those a login makes

VARIABLES usable, useless

vars == <<usable, useless>>

Init == usable = {} /\ useless = {}

Fresh(t) == t \in Tokens \ (usable \union useless)

Login(t) ==
  /\ t \in Roots
  /\ Fresh(t)
  /\ usable' = usable \union {t}
  /\ UNCHANGED useless

Logout(t) ==
  /\ t \in usable \union useless
  /\ usable' = usable \ {t}
  /\ useless' = useless \union {t}

\* Requests that raced may each have a successor of the same token.
Rotate(t, successor) ==
  /\ t \in usable \union useless
  /\ successor \notin Roots
  /\ Fresh(successor)
  /\ usable' = (usable \ {t}) \union {successor}
  /\ useless' = useless \union {t}

Next == \E t \in Tokens :
  Login(t) \/ Logout(t) \/ \E u \in Tokens : Rotate(t, u)

Spec == Init /\ [][Next]_vars

=============================================================================
