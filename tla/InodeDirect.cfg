\* Direct blocks only: files up to NumDirect sectors; the free map runs out.
CONSTANTS
    SectorSize = 4
    NumDirect = 3
    NumIndirect = 1
    MaxInodeLen = 12
    NumSectors = 5
    Reserved = {0, 1}
    CreateLens = {0, 5, 9}
    Offsets = {0, 3, 7}
    Sizes = {2, 5}
    WriteVals = {7}
    MaxOpeners = 2
    MaxCalls = 6
    NONE = NONE
SPECIFICATION Spec
CHECK_DEADLOCK FALSE
INVARIANT TypeOK
INVARIANT FreeDisjointFromFile
PROPERTY LengthNeverShrinks
PROPERTY FailedCreateReleasesAll
