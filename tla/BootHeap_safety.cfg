SPECIFICATION Spec
CONSTANTS
    N = 9
    TableLen = 17
    ClusterSize = 8
    Pad = 2
    Header = 2
    MaxLarge = 48
    Base = 100
    WordSize = 128
    Requests = {5, 8, 30, 37, 44, 48, 126}
INVARIANTS
    TypeOK
    AreasDisjoint
    MarksIntact
    ClustersAccounted
PROPERTY FreeReleases
