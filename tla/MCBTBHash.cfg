SPECIFICATION Spec
CONSTANTS
    TagBits = 2
    AddressBits = 7
INVARIANTS
    AliasesNest
    NoAliasWhenTagFits
CHECK_DEADLOCK FALSE
