SPECIFICATION FairSpec
CONSTANTS
    Address <- MCAddress
    Bank = {0, 1}
    Row = {0, 1}
    BankOf <- MCBankOf
    RowOf <- MCRowOf
    DRAM_RQ_SIZE = 2
    DRAM_WQ_SIZE = 3
    DRAM_WRITE_HIGH_WM = 3
    DRAM_WRITE_LOW_WM = 2
    ACTIVATE = 1
    tCAS = 1
    DRAM_DBUS_RETURN_TIME = 1
    DRAM_DBUS_TURN_AROUND_TIME = 2
    RequestCycles <- MCRequestCycles
    NONE = NONE
    MaxRequests = 4
INVARIANTS
    TypeOK
    BanksAgree
    NextUpToDate
PROPERTIES
    BusTurnsAround
    RequestsServed
