---------------------------- MODULE MCEnqueueRun ----------------------------
(* Small instances of EnqueueRun.                                          *)
EXTENDS EnqueueRun, TLC

Symmetry == Permutations(Keys) \cup Permutations(Specs)
=============================================================================
