---------------------------- MODULE MCWsGateway ----------------------------
(***************************************************************************)
(* Instances of WsGateway for TLC.                                         *)
(***************************************************************************)
EXTENDS WsGateway

CONSTANTS k1, k2, e1

TwoConns == {k1, k2}
OneEvent == {e1}

=============================================================================
