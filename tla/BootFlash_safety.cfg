SPECIFICATION Spec
CONSTANTS
    Bits = {b1}
    ChipLens = {2, 3, 5}
    StartOffset = 0
    Length = 3
    BlockSize = 2
    SectorSize = 2
INVARIANTS
    TypeOK
    ProgramEstablishesImage
    RebootsOnlyComplete
    ProgrammingCanSucceed
    OutsideUntouched
    EraseWearBounded
PROPERTY ImplementsReflash
CHECK_DEADLOCK FALSE
