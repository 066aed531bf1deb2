SPECIFICATION Spec
CONSTANTS
    FetchAddr = {"k"}
    LoadAddr = {"k"}
    StoreAddr = {}
    Line = {"K"}
    LineOf <- MCLineOf
    SetIndex = {0}
    SetOf <- MCSetOf
    NUM_WAY <- MCSize
    RQ_SIZE <- MCSize
    WQ_SIZE <- MCOne
    PQ_SIZE <- MCOne
    MSHR_SIZE <- MCSize
    Fetch = {f1}
    Load = {l1}
    PrefetchOf <- MCPrefetchCode
    SwappedPage = {}
    NONE = NONE
    MaxInFlight = 3
INVARIANTS
    CollisionsLoseNoMiss
CHECK_DEADLOCK FALSE
