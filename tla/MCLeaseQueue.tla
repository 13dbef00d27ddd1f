---------------------------- MODULE MCLeaseQueue ----------------------------
EXTENDS LeaseQueue, TLC

Symmetry == Permutations(Workers) \cup Permutations(Jobs)
=============================================================================
