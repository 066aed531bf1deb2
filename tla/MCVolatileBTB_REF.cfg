SPECIFICATION Spec
CONSTANTS
    BASIC_BTB_RAS_SIZE = 2
    BASIC_BTB_CALL_INSTR_SIZE_TRACKERS = 1
    NUM_BTB_PARTITIONS = 2
    Ip <- MCIp
    Target <- MCTarget
    SetIndex <- MCSetIndex
    Assoc <- MCAssoc
    Index <- MCIndex
    Tag <- MCTag
    BranchType <- MCBranchTypeJumps
    LifetimeBounds <- MCLifetimeBounds
    POLICY = "REFRESH"
    RETENTION_CYCLES = 1
    NONE = NONE
    MaxCycle = 2
    MaxUpdates = 4
    MaxHits = 1
    MaxEvictions = 0
INVARIANTS
    OwnEntryFound
    HeadIsLRU
    RefreshesConserved
PROPERTIES
    EvictionsProfiled
CHECK_DEADLOCK FALSE
