---------------------------- MODULE AtLeastOnce ----------------------------
(***************************************************************************)
(* What a queue of the platform promises to those who publish to it: a     *)
(* message that was accepted is applied by a consumer or buried in the     *)
(* dead-letter queue before the broker forgets it, it may be applied and   *)
(* buried more than once or even after it was settled, and nothing is      *)
(* applied or buried that was never sent.                                  *)
(***************************************************************************)
CONSTANT Msgs

VARIABLES sent,      \* messages the broker accepted
          applied,   \* messages whose effect happened at least once
          dead,      \* messages with a copy in the dead-letter queue
          settled    \* messages the broker was told to forget

vars == <<sent, applied, dead, settled>>

Init == sent = {} /\ applied = {} /\ dead = {} /\ settled = {}

Send(m) ==
  /\ m \notin sent
  /\ sent' = sent \union {m}
  /\ UNCHANGED <<applied, dead, settled>>

Apply(m) ==
  /\ m \in sent
  /\ applied' = applied \union {m}
  /\ UNCHANGED <<sent, dead, settled>>

Bury(m) ==
  /\ m \in sent
  /\ dead' = dead \union {m}
  /\ UNCHANGED <<sent, applied, settled>>

Settle(m) ==
  /\ m \in applied \union dead
  /\ settled' = settled \union {m}
  /\ UNCHANGED <<sent, applied, dead>>

Next == \E m \in Msgs : Send(m) \/ Apply(m) \/ Bury(m) \/ Settle(m)

Spec == Init /\ [][Next]_vars

=============================================================================
