---------------------------- MODULE MCRpcCaller ----------------------------
(***************************************************************************)
(* Instances of RpcCaller for TLC.                                         *)
(***************************************************************************)
EXTENDS RpcCaller

\* Two HTTP requests carry the same x-request-id, the third has none.
RepeatedIds == [k \in Calls |-> IF k = 2 THEN 1 ELSE k]

=============================================================================
