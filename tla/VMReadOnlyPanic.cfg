\* Two user pages of four bytes and a kernel page above PHYS_BASE (8);
\* one-byte words, so that a four-word read or write fits below it.  Stack
\* pointers NULL, 3 (arguments straddling the page boundary) and 4, whose
\* PUSH (esp - 1) and PUSHA (esp - 3) addresses lie in the page below, so
\* that a buffer there grows the stack.  Init is every page table, so three
\* calls reach every mix of fetched, grown and killed pages.
CONSTANTS
    PageSize = 4
    UserPages = 2
    KernelPages = 1
    WordSize = 1
    PushGap = 1
    PushaGap = 3
    MaxSize = 3
    EspSet = {0, 3, 4}
    PtrSet = {1, 3, 6}
    Numbers <- AllCalls
    MaxCalls = 3
    NONE = NONE
SPECIFICATION Spec
INVARIANT NoAssertPanic
CHECK_DEADLOCK FALSE
