SPECIFICATION Spec
CONSTANTS
    FLASH_PAGE_SIZE = 16
    FLASH_CR_PNB_MASK = 3
    NumBanks = 1
    MaxCalls = 3
    LockedCalls = FALSE
    WriteCalls <- WordWrites
    EraseCalls <- MCEraseCalls
    Programmed <- MCProgrammed
PROPERTY WriteStoresBuffer
