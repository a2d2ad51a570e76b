SPECIFICATION Spec
CONSTANTS
    Serial <- MCSerial
    UserHead <- MCUserHead
    Settings <- MCSettings
    Retries = 2
    Reasons <- MCReasons
    AvModes = {6, 7}
    PicBytes = {2}
    MaxIrqs = 1
    MaxErrors = 1
    MaxUpdates = 1
    MaxLosses = 1
INVARIANTS
    TypeOK
    FaultlessIsConsistent
    DamageIsDetected
PROPERTIES
    EepromOnlyIntended
    TransfersEnd
CHECK_DEADLOCK FALSE
