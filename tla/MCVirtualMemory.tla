--------------------------- MODULE MCVirtualMemory ---------------------------
EXTENDS VirtualMemory, TLC

CONSTANTS p1, p2, u1, u2, u3, fa, v1, v2

\* Processes are interchangeable, and so are page addresses.
ProcSymmetry == Permutations({p1, p2})
=============================================================================
