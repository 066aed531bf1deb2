SPECIFICATION Spec
CONSTANTS
    Address = {"x", "y"}
    Register = {"r", "s"}
    Programs <- MCBlocked
    ROB_SIZE = 8
    SCHEDULER_SIZE = 8
    LQ_SIZE = 8
    SQ_SIZE = 2
    NONE = NONE
INVARIANTS
    NoStandstill
CHECK_DEADLOCK FALSE
