SPECIFICATION Spec
CONSTANTS
    BootLayouts <- MCBootLayouts
    AppLayouts <- MCAppLayouts
    AppOffset = 24
    MemSize = 96
    MaxHalCalls = 1
    WOLFBOOT_DTS_BOOT_ADDRESS = 40
INVARIANTS
    TypeOK
    SectionsInitialised
    BannerInOrder
PROPERTIES
    ReachesMain
