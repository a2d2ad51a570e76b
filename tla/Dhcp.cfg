SPECIFICATION Spec
CONSTANTS
    Addresses = {"a", "b"}
    Times = {100, 620}
    Infinite = 620
    CoarseSecs = 60
    FallbackTicks = 4
    MaxWait = 3
    TimerMod = 5
    TriesMod = 4
    SelectTries = 1
    RebindTries = 2
    MaxReplies = 2
INVARIANTS
    TypeOK
    BoundHasAddress
    LeaseNotOverrun
PROPERTIES
    FallbackSparesLease
    KeepsAsking
