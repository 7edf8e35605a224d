CONSTANTS
    PageSize = 4
    UserPages = 2
    KernelPages = 1
    WordSize = 2
    MaxPutbuf = 2
    MaxSize = 3
    EspSet = {0, 3, 6}
    PtrSet = {1, 3, 5, 7}
    Numbers <- ReadCalls
    MaxCalls = 2
    NONE = NONE
SPECIFICATION Spec
INVARIANT NoUncheckedAccess
CHECK_DEADLOCK FALSE
