--------------------------- MODULE MCRpcListener ---------------------------
(***************************************************************************)
(* Instances of RpcListener for TLC.                                       *)
(***************************************************************************)
EXTENDS RpcListener

CONSTANTS m1, m2, c1, c2

NoMsgs   == {}
TwoMsgs  == {m1, m2}
Second   == {m2}
TwoChans  == {c1, c2}

=============================================================================
