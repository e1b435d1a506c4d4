------------------------------ MODULE MCSched ------------------------------
EXTENDS SchedInv, TLC

Symmetry == Permutations(Workers) \cup Permutations(Cpus)
=============================================================================
