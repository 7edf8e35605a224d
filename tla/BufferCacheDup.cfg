\* Two client threads missing on the same sector.
CONSTANTS
    Threads = {t1, t2}
    Sectors = {s1, s2}
    Values = {v0, v1}
    Zero = v0
    NumEntries = 2
    MaxOps = 1
    NONE = NONE
SYMMETRY SectorSymmetry
SPECIFICATION Spec
INVARIANT UniqueResidency
