------------------------------ MODULE MCServer ------------------------------
EXTENDS Server, TLC
Symmetry == Permutations(Fds)
=============================================================================
