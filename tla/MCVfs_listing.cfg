SPECIFICATION HSpec
CONSTANTS
    FS_NPAGES = 4
    MAX_OPEN_FILES = 1
    FILE_MAX_SIZE = 4
    COPY_UNIT = 2
    INT_MAX = 7
    Names = {a}
    TooLong = TooLong
    Byte = {0}
    PathDepth = 2
    Paths <- MCShort
    Strings <- MCNone
    Lens <- MCNone
VIEW HNoReply
INVARIANTS ListingComplete
