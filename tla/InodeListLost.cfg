CONSTANTS
    Threads = {t1, t2}
    Sectors = {s1, s2}
    Ids = {b1, b2}
    MaxOps = 6
    NONE = NONE
    Head = Head
    Tail = Tail
    t1 = t1
    t2 = t2
    s1 = s1
    s2 = s2
    b1 = b1
    b2 = b2
SPECIFICATION Spec
INVARIANT ListedIffLive
CHECK_DEADLOCK FALSE
