---------------------------- MODULE MCLoginGuard ----------------------------
(***************************************************************************)
(* Instances of LoginGuard for TLC.                                        *)
(***************************************************************************)
EXTENDS LoginGuard, TLC

CONSTANTS a1, a2, a3, a4, a5, good, w1, w2

Guesses     == {a1, a2, a3, a4, a5}
AllAttempts == Guesses \union {good}
RightOnes   == {good}
TwoWorkers  == {w1, w2}

\* Wrong guesses are interchangeable, and so are workers.
GuardSymmetry == Permutations(Guesses) \union Permutations(TwoWorkers)

=============================================================================
