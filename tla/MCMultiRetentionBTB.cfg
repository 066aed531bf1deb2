SPECIFICATION Spec
CONSTANTS
    BASIC_BTB_RAS_SIZE = 2
    BASIC_BTB_CALL_INSTR_SIZE_TRACKERS = 1
    NUM_BTB_PARTITIONS = 2
    Ip <- MCIp
    Target <- MCTarget
    numSets <- MCNumSets
    Assoc <- MCAssoc
    Tag <- MCTag
    BranchType <- MCBranchType
    OffsetPartition <- MCOffsetPartition
    NONE = NONE
    MaxUpdates = 4
    MaxHits = 4
INVARIANTS
    TypeOK
    WearAccounted
    WearPaidFor
    LatestFound
PROPERTIES
    ImplementsTargetMap
    InsertionsKeepPromoted
CHECK_DEADLOCK FALSE
