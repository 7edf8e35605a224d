\* Three files (0, 1 and 2 pages), three struct files, three user pages,
\* fds 0..5 as arguments, five calls.
CONSTANTS
    e = e
    a = a
    b = b
    h1 = h1
    h2 = h2
    h3 = h3
    Names = {e, a, b}
    PagesOf <- FilePages
    Handles = {h1, h2, h3}
    UPages = {1, 2, 3}
    FdArgs = {0, 1, 2, 3, 4, 5}
    MaxCalls = 5
    NONE = NONE
SPECIFICATION Spec
CHECK_DEADLOCK FALSE
INVARIANT NoLeakedFiles
