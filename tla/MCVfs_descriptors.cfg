SPECIFICATION Spec
CONSTANTS
    FS_NPAGES = 3
    MAX_OPEN_FILES = 2
    FILE_MAX_SIZE = 4
    COPY_UNIT = 2
    INT_MAX = 7
    Names = {a, b}
    TooLong = TooLong
    Byte = {0}
    PathDepth = 2
    Paths <- MCPaths
    Strings <- MCNone
    Lens <- MCNone
VIEW NoReply
SYMMETRY MCSymmetry
INVARIANTS RefBound
PROPERTIES StoreSpec
