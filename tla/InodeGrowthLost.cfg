\* A file grown by inode_write_at, closed by its last opener and opened
\* again.
CONSTANTS
    SectorSize = 4
    NumDirect = 3
    NumIndirect = 1
    MaxInodeLen = 12
    NumSectors = 5
    Reserved = {0, 1}
    CreateLens = {0}
    Offsets = {0}
    Sizes = {2}
    WriteVals = {7}
    MaxOpeners = 2
    MaxCalls = 6
    NONE = NONE
SPECIFICATION Spec
CHECK_DEADLOCK FALSE
INVARIANT FileReadsBack
