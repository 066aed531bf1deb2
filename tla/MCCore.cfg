SPECIFICATION Spec
CONSTANTS
    Address = {"x", "y"}
    Register = {"r", "s"}
    Programs <- MCAll
    ROB_SIZE = 4
    SCHEDULER_SIZE = 3
    LQ_SIZE = 2
    SQ_SIZE = 2
    NONE = NONE
INVARIANTS
    TypeOK
    OperandsReady
    CountsAgree
    FindsItsLoads
    NextEntryFree
    NoStandstill
PROPERTIES
    ImplementsProgramOrder
