--------------------------- MODULE MCRunpodWorker ---------------------------
(* RunpodWorker for TLC: Pods, attempts and byte strings are               *)
(* interchangeable in the safety run.                                      *)
EXTENDS RunpodWorker, TLC

Symmetry ==
    Permutations(Pods) \cup Permutations(Variants) \cup Permutations(Attempts)
=============================================================================
