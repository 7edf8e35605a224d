CONSTANTS
    p1 = p1
    p2 = p2
    u1 = u1
    u2 = u2
    u3 = u3
    fa = fa
    v1 = v1
    v2 = v2
    Procs = {p1, p2}
    UPages = {u1, u2}
    NumFrames = 1
    NumSlots = 1
    Files = {}
    Values = {v1}
    Zero = Zero
    Junk = Junk
    MaxCalls = 8
    NONE = NONE
SPECIFICATION Spec
INVARIANT NoKernelPanic
CHECK_DEADLOCK FALSE
