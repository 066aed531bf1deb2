SPECIFICATION Spec
CONSTANTS
    BASIC_BTB_RAS_SIZE = 2
    BASIC_BTB_CALL_INSTR_SIZE_TRACKERS = 1
    NUM_BTB_PARTITIONS = 2
    Ip <- MCIpCalls
    Target <- MCTarget
    SetIndex <- MCSetIndex
    Assoc <- MCDirectMapped
    Index <- MCIndex
    Tag <- MCTag
    BranchType <- MCBranchTypeCalls
    LifetimeBounds <- MCLifetimeBounds
    POLICY = "WB"
    RETENTION_CYCLES = 1
    NONE = NONE
    MaxCycle = 2
    MaxUpdates = 4
    MaxHits = 1
    MaxEvictions = 0
INVARIANTS
    TypeOK
    StackFollowsTrace
PROPERTIES
    ImplementsShiftStack
    ImplementsTargetMap
    VictimIsOldest
CHECK_DEADLOCK FALSE
