SPECIFICATION Spec
CONSTANTS
    FLASH_PAGE_SIZE = 16
    FLASH_CR_PNB_MASK = 3
    NumBanks = 1
    MaxCalls = 2
    MsgLen = 2
    WOLFBOOT_SECTOR_SIZE = 16
    WOLFBOOT_PARTITION_BOOT_ADDRESS <- MCBootAddress
    WriteCalls <- MCWriteCalls
    EraseCalls <- MCEraseCalls
    Programmed <- MCProgrammed
    Builds <- MCBuilds
    SecrValues <- MCSecrValues
INVARIANTS
    TypeOK
    ClockSwitchPrepared
    SecuredAtHandOver
PROPERTIES
    BootCompletes
