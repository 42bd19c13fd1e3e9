--------------------------- MODULE MCTokenService ---------------------------
(***************************************************************************)
(* Instances of TokenService for TLC.                                      *)
(***************************************************************************)
EXTENDS TokenService

CONSTANTS r1, f1, f2, f3, o1

OneRoot        == {r1}
ThreeRefreshes == {f1, f2, f3}
OneLogout      == {o1}
Raises         == {"raises"}

=============================================================================
