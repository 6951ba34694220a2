SPECIFICATION FairSpec
CONSTANTS
    Blank <- MCBlank
    Program <- MCProgram
    Tout = 2
    MAX_IO_PEER = 1
    MAX_SERIAL_PEER = 2
    IO_PAGE_DATA_IDX_MAX = 2
    SERIAL_PAGE_WORDS = 2
    SERIAL_WORDS = 5
    Pages <- MCPages
    SerialDevice <- MCSerialDevice
    MS10 = 1
INVARIANTS
    PagesAreOfThisPeer
PROPERTIES
    ErasedByMaster
    PendingWriteIsKept
    LostBusReleases
