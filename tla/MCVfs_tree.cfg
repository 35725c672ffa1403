SPECIFICATION Spec
CONSTANTS
    FS_NPAGES = 5
    MAX_OPEN_FILES = 0
    FILE_MAX_SIZE = 6
    COPY_UNIT = 2
    INT_MAX = 7
    Names = {a, b}
    TooLong = TooLong
    Byte = {0}
    PathDepth = 3
    Paths <- MCShort
    Strings <- MCNone
    Lens <- MCNone
VIEW NoReply
SYMMETRY MCSymmetry
INVARIANTS WellLinked NothingLost
PROPERTIES StoreSpec
