SPECIFICATION Spec
CONSTANTS
    FLASH_PAGE_SIZE = 16
    FLASH_CR_PNB_MASK = 3
    NumBanks = 2
    MaxCalls = 3
    LockedCalls = FALSE
    WriteCalls <- NoWrites
    EraseCalls <- BankErases
    Programmed <- BothProgrammed
PROPERTY EraseSelectsBank
