SPECIFICATION NarrowSpec
CONSTANTS
    FLASH_PAGE_SIZE = 16
    FLASH_CR_PNB_MASK = 3
    NumBanks = 1
    MaxCalls = 4
    LockedCalls = FALSE
    Drivers <- MCDrivers
    WriteCalls <- MCWriteCalls
    EraseCalls <- MCEraseCalls
    Programmed <- MCProgrammed
PROPERTIES
    ImplementsFlashSpec
    NeverCommandedWhileBusy
    CallsReturn
