---------------------------- MODULE RequestReply ----------------------------
(***************************************************************************)
(* What call_rpc promises its caller: the call ends once, with an answer   *)
(* that a server gave to this very request or with none, and a request the *)
(* caller gave up on may still be answered.                                *)
(***************************************************************************)
CONSTANTS Calls, NoCall

VARIABLES asked,      \* requests that may have reached the server
          answered,   \* requests a server has answered
          ended,      \* calls that returned or raised
          result      \* the request whose answer a call returned, or NoCall

vars == <<asked, answered, ended, result>>

Init ==
  /\ asked = {} /\ answered = {} /\ ended = {}
  /\ result = [k \in Calls |-> NoCall]

Ask(k) ==
  /\ k \notin ended
  /\ asked' = asked \union {k}
  /\ UNCHANGED <<answered, ended, result>>

Answer(k) ==
  /\ k \in asked
  /\ answered' = answered \union {k}
  /\ UNCHANGED <<asked, ended, result>>

\* The call ends with the answer to its own request.
Succeed(k) ==
  /\ k \in answered \ ended
  /\ ended' = ended \union {k}
  /\ result' = [result EXCEPT ![k] = k]
  /\ UNCHANGED <<asked, answered>>

\* The call ends with none; a server may have its request all the same.
GiveUp(k) ==
  /\ k \notin ended
  /\ ended' = ended \union {k}
  /\ UNCHANGED <<asked, answered, result>>

Next == \E k \in Calls : Ask(k) \/ Answer(k) \/ Succeed(k) \/ GiveUp(k)

Spec == Init /\ [][Next]_vars

=============================================================================
