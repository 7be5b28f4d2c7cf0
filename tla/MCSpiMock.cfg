SPECIFICATION Spec
CONSTANTS
    ByteBits = 3
    MOCK_FLASH_SIZE = 4
    BYTE_WRITE = 2
    BYTE_READ = 3
    SECTOR_ERASE = 4
    CHIP_ERASE = 7
    MDID = 1
    RDSR = 5
    ST_WEL = 2
    Commands <- MCCommands
    AddressBytes = {0, 1}
    DataBytes = {5}
    Lengths = {0, 2}
    Fills <- MCFills
    MaxCount = 1
    MaxReads = 3
INVARIANTS
    MockTypeOK
PROPERTIES
    WritesLandWhereAddressed
    ReadsComeFromAddressed
