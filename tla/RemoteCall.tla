----------------------------- MODULE RemoteCall -----------------------------
(***************************************************************************)
(* What the bus and the listeners promise together to those who call a     *)
(* service: a call ends once, with success only after its request was      *)
(* executed.  A call that ended without success may have been executed or  *)
(* may still be, once or more often; a request the broker took is          *)
(* forgotten only after it was executed or buried in the dead-letter queue.*)
(***************************************************************************)
CONSTANTS Calls, NoCall

VARIABLES asked,      \* requests the broker took
          executed,   \* requests whose effect happened at least once
          buried,     \* requests with a copy in the dead-letter queue
          settled,    \* requests the broker was told to forget
          ended,      \* calls that returned or raised
          result      \* the request whose answer a call returned, or NoCall

vars == <<asked, executed, buried, settled, ended, result>>

Init ==
  /\ asked = {} /\ executed = {} /\ buried = {} /\ settled = {} /\ ended = {}
  /\ result = [k \in Calls |-> NoCall]

Ask(k) ==
  /\ k \notin ended \union asked
  /\ asked' = asked \union {k}
  /\ UNCHANGED <<executed, buried, settled, ended, result>>

Execute(k) ==
  /\ k \in asked
  /\ executed' = executed \union {k}
  /\ UNCHANGED <<asked, buried, settled, ended, result>>

Bury(k) ==
  /\ k \in asked
  /\ buried' = buried \union {k}
  /\ UNCHANGED <<asked, executed, settled, ended, result>>

Settle(k) ==
  /\ k \in executed \union buried
  /\ settled' = settled \union {k}
  /\ UNCHANGED <<asked, executed, buried, ended, result>>

Succeed(k) ==
  /\ k \in executed \ ended
  /\ ended' = ended \union {k}
  /\ result' = [result EXCEPT ![k] = k]
  /\ UNCHANGED <<asked, executed, buried, settled>>

\* The caller learns nothing of what became of its request.
GiveUp(k) ==
  /\ k \notin ended
  /\ ended' = ended \union {k}
  /\ UNCHANGED <<asked, executed, buried, settled, result>>

Next == \E k \in Calls :
  Ask(k) \/ Execute(k) \/ Bury(k) \/ Settle(k) \/ Succeed(k) \/ GiveUp(k)

Spec == Init /\ [][Next]_vars

=============================================================================
