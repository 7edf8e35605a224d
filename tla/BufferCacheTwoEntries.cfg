\* Two client threads, two entries and the write-behind thread.
CONSTANTS
    Threads = {t1, t2}
    Sectors = {s1, s2}
    Values = {v0, v1}
    Zero = v0
    NumEntries = 2
    MaxOps = 2
    NONE = NONE
SPECIFICATION Spec
INVARIANT TypeOK
PROPERTY NoDirtyDataDropped
