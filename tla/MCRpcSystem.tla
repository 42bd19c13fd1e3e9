---------------------------- MODULE MCRpcSystem ----------------------------
(***************************************************************************)
(* Instances of RpcSystem for TLC.                                         *)
(***************************************************************************)
EXTENDS RpcSystem

CONSTANTS c1, c2

TwoChans == {c1, c2}

\* Every call has its own id: x-request-id is absent or never repeated.
DistinctIds == [k \in Calls |-> k]

=============================================================================
