\* 14-bit ints with 6 fraction bits (and a 9-bit format) over boundary values.
CONSTANTS
    W = 14
    Q = 6
    Q2 = 9
    Fixeds <- Boundary
    Ints <- BoundaryInts
SPECIFICATION Spec
INVARIANT QuotientsTruncate
INVARIANT ReformatTruncates
INVARIANT RoundIsNearest
