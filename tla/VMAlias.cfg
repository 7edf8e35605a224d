CONSTANTS
    p1 = p1
    u1 = u1
    u2 = u2
    u3 = u3
    fa = fa
    v1 = v1
    v2 = v2
    p2 = p2
    Procs = {p1}
    UPages = {u1, u2, u3}
    NumFrames = 2
    NumSlots = 2
    Files = {fa}
    Values = {v1, v2}
    Zero = Zero
    Junk = Junk
    MaxCalls = 9
    NONE = NONE
SPECIFICATION Spec
INVARIANT MappedDataIntact
CHECK_DEADLOCK FALSE
