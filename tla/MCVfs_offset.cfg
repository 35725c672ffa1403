SPECIFICATION Spec
CONSTANTS
    FS_NPAGES = 4
    MAX_OPEN_FILES = 1
    FILE_MAX_SIZE = 6
    COPY_UNIT = 3
    INT_MAX = 7
    Names = {a}
    TooLong = TooLong
    Byte = {0, 1, 2}
    PathDepth = 1
    Paths <- MCShort
    Strings <- MCStrings
    Lens = {1, 2, 3}
PROPERTIES ReadsGoOn
