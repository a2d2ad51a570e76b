SPECIFICATION Spec
CONSTANTS
    Drives = {0}
    PadButtons = {"A"}
    KbdKeys = {"UP", "DOWN"}
    IrKeys = {"BACK"}
    MaxPresses = 7
    MaxFaults = 1
    MaxLosses = 1
INVARIANTS
    OnePressOneAction
    SecurityNeedsYes
    LockedHasMaster
