SPECIFICATION FairSpec
CONSTANTS
    Conn = {c1, c2}
    Requests <- TwoRequests
    Shapes = {"multipart"}
    SndBuf = 2
    PageLen = 3
    BodyPieces = 2
    MaxConnects = 3
PROPERTY AnsweredIsReleased
CHECK_DEADLOCK FALSE
