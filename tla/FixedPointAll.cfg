\* 8-bit ints with 3 fraction bits (and a 5-bit format): every pair x, y.
CONSTANTS
    W = 8
    Q = 3
    Q2 = 5
    Fixeds <- AllInts
    Ints <- SmallInts
SPECIFICATION Spec
INVARIANT QuotientsTruncate
INVARIANT ReformatTruncates
INVARIANT RoundIsNearest
