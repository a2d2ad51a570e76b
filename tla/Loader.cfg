SPECIFICATION Spec
CONSTANTS
    TriesPerBank = 25
    Retries = 2
    MaxErrors = 3
INVARIANTS
    FirstGoodBankStarts
PROPERTIES
    ComesUp
CHECK_DEADLOCK FALSE
