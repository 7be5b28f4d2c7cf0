SPECIFICATION Spec
CONSTANTS
    CONFIG_FLASH_PAGE_SIZE = 2
    CONFIG_FLASH_SECTOR_SIZE = 4
    FLASH_SIZE_4M = 8
    FLASH_SIZE_8M = 16
    FLASH_BASE_60 = 4
    FLASH_BASE_70 = 8
    Data <- MCData
    WriteCalls <- MCWriteCalls
    EraseCalls <- MCEraseCalls
    MaxCalls = 2
INVARIANTS
    TypeOK
    PllUsedOnlyLocked
    WriteOutcome
    EraseOutcome
PROPERTIES
    HalCallsReturn
