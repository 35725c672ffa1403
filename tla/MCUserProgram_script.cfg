SPECIFICATION UserSpec
CONSTANTS
    FS_NPAGES = 5
    MAX_OPEN_FILES = 1
    FILE_MAX_SIZE = 6
    COPY_UNIT = 3
    INT_MAX = 7
    Names = {file1, file2, file3, src}
    file1 = file1
    file2 = file2
    file3 = file3
    src = src
    TooLong = TooLong
    Byte = {0, 1, 2}
    Paths = {}
    Strings = {}
    Lens = {}
    TVFS_STRING <- MCString
    TVFS_STRING_SIZE = 2
    MaxTicks = 2
INVARIANTS UserTypeOK PrintsIntended LeavesClean RegistersKept
PROPERTIES ReturnsHome Finishes
