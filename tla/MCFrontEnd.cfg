SPECIFICATION FairSpec
CONSTANTS
    IFETCH_SIZE = 2
    DECODE_SIZE = 2
    ROB_SIZE = 1
    FETCH_WIDTH = 2
    DECODE_WIDTH = 2
    RETIRE_WIDTH = 1
    DECODE_LATENCY = 0
    BRANCH_MISPREDICT_PENALTY = 1
    WriteLatencies <- MCWriteLatencies
    Line <- MCLine
INVARIANTS
    TypeOK
    StallHasEnd
    ResumesAfterResolving
    RunsAheadWithinBuffer
PROPERTIES
    FetchResumes
