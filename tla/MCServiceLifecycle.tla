------------------------- MODULE MCServiceLifecycle -------------------------
(***************************************************************************)
(* Instances of ServiceLifecycle for TLC.                                  *)
(***************************************************************************)
EXTENDS ServiceLifecycle

CONSTANTS main, w1, l1, l2

OneWorker    == {main, w1}
OneListener  == {l1}
TwoListeners == {l1, l2}

=============================================================================
