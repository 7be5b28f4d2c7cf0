SPECIFICATION BuiltSpec
CONSTANTS
    FLASH_PAGE_SIZE = 16
    FLASH_CR_PNB_MASK = 3
    NumBanks = 2
    MaxCalls = 3
    LockedCalls = TRUE
    WriteCalls <- MCWriteCalls
    EraseCalls <- MCEraseCalls
    Programmed <- MCProgrammed
INVARIANTS
    DriverTypeOK
    AtRestBetweenCalls
PROPERTIES
    CopiesAgree
    ImplementsFlashSpec
    NeverCommandedWhileBusy
    CallsReturn
