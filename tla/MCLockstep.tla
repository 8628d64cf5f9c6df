---------------------------- MODULE MCLockstep ----------------------------
EXTENDS Lockstep, TLC
Symmetry == Permutations(Players)
=============================================================================
