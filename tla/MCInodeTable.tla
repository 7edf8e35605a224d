---------------------------- MODULE MCInodeTable ----------------------------
EXTENDS InodeTable, TLC

CONSTANTS t1, t2, s1, s2, b1, b2

ThreadSymmetry == Permutations({t1, t2})
BlockSymmetry == Permutations({b1, b2})
Symmetry == ThreadSymmetry \cup BlockSymmetry
=============================================================================
