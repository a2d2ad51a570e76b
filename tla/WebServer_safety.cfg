SPECIFICATION Spec
CONSTANTS
    Conn = {c1, c2}
    Requests <- AllRequests
    Shapes = {"multipart", "nonewline", "nostart", "noend"}
    SndBuf = 2
    PageLen = 3
    BodyPieces = 2
    MaxConnects = 3
INVARIANTS
    TypeOK
    StateIffReceiving
    BuffersOwned
    FlashFitsBank
    ImageStaysAllocated
SYMMETRY ConnSymmetry
CHECK_DEADLOCK FALSE
