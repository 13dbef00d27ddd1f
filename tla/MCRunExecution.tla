--------------------------- MODULE MCRunExecution ---------------------------
EXTENDS RunExecution, TLC

Symmetry == Permutations(Workers) \cup Permutations(Calls) \cup Permutations(Outputs)
=============================================================================
