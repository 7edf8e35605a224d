\* One direct slot and two indirect sectors of two entries each.
CONSTANTS
    SectorSize = 4
    NumDirect = 1
    NumIndirect = 2
    MaxInodeLen = 20
    NumSectors = 9
    Reserved = {0, 1}
    CreateLens = {8, 12, 20}
    Offsets = {0}
    Sizes = {2}
    WriteVals = {7}
    MaxOpeners = 1
    MaxCalls = 3
    NONE = NONE
SPECIFICATION Spec
CHECK_DEADLOCK FALSE
INVARIANT ResolvesToAllocated
