---------------------------- MODULE MCFixedPoint ----------------------------
(***************************************************************************)
(* Inputs for FixedPoint: every 8-bit int, and the boundary values of a    *)
(* 14-bit int with 6 fraction bits.                                        *)
(***************************************************************************)
EXTENDS FixedPoint

\* W = 8: all ints.
AllInts == IntMin..IntMax

\* Int inputs n for W = 8 and for W = 14.
SmallInts == {-3, -1, 0, 1, 2, 7}
BoundaryInts == {-128, -1, 0, 1, 3, 127}

\* W = 14, Q = 6: zero, one unit, half units, the ends of the range and
\* values whose products overflow int.
Boundary ==
    LET base == {0, 1, 31, 32, 33, 48, 63, 64, 65, 96, 127, 128, 1000, 4095, 4096,
                 8191}
    IN  base \cup {-v : v \in base} \cup {IntMin}
=============================================================================
