SPECIFICATION FatxFairSpec
CONSTANTS
    N = 4
    U = 2
    Names = {"c", "d", "k"}
    Images <- MCImages
    Tables <- MCTables
    Configs <- MCConfigs
    CfgPath <- MCCfgPath
    DebianCfgPath <- MCDebianCfgPath
    KernelRoom = 2
    InitrdRoom = 3
    Junk <- MCJunk
    EOC = EOC
    MaxErrors = 1
INVARIANT StartsConfigured
PROPERTY LoadEnds
CHECK_DEADLOCK FALSE
