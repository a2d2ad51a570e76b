SPECIFICATION FairSpec
CONSTANTS
    Bits = {b1}
    ChipLens = {2, 3}
    StartOffset = 0
    Length = 3
    BlockSize = 2
    SectorSize = 1
PROPERTIES
    PassEnds
    RebootsOnceChipWorks
CHECK_DEADLOCK FALSE
