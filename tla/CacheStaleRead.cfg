\* Two client threads, two entries and the write-behind thread: two misses
\* on one sector can leave two entries caching it.
CONSTANTS
    Threads = {t1, t2}
    Sectors = {s1, s2}
    Values = {v0, v1}
    Zero = v0
    NumEntries = 2
    MaxOps = 2
    NONE = NONE
SPECIFICATION Spec
PROPERTY LinearizableSectors
