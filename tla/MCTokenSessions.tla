--------------------------- MODULE MCTokenSessions ---------------------------
(***************************************************************************)
(* Instances of TokenSessions for TLC.                                     *)
(***************************************************************************)
EXTENDS TokenSessions

CONSTANTS r1, f1, f2, f3, o1, q1, q2, q3

OneRoot        == {r1}
ThreeRefreshes == {f1, f2, f3}
OneLogout      == {o1}
Either         == {"loaded", "raises"}

\* The first refresh may be delivered twice, the second and the logout once.
ThreeRequests == {q1, q2, q3}
Deliveries    == [h \in Handlers |-> IF h \in {f1, f2} THEN q1
                                     ELSE IF h = f3 THEN q2 ELSE q3]

\* The second refresh may bear the id of other calls.
OneShared == {q2}

=============================================================================
