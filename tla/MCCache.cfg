SPECIFICATION FairSpec
CONSTANTS
    FetchAddr = {"k"}
    LoadAddr = {"b"}
    StoreAddr = {"a", "b"}
    Line = {"K", "A", "B"}
    LineOf <- MCLineOf
    SetIndex = {0}
    SetOf <- MCSetOf
    NUM_WAY <- MCSize
    RQ_SIZE <- MCSize
    WQ_SIZE <- MCOne
    PQ_SIZE <- MCOne
    MSHR_SIZE <- MCSize
    Fetch = {f1}
    Load = {l1}
    PrefetchOf <- MCPrefetchOf
    SwappedPage <- MCSwap
    NONE = NONE
    MaxInFlight = 3
INVARIANTS
    TypeOK
    OneRequestBelow
    RequesterHeldOnce
    NoTwoCopies
    StoresKept
PROPERTIES
    Drains
CHECK_DEADLOCK FALSE
