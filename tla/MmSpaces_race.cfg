SPECIFICATION Spec
CONSTANTS
    NR_TASKS = 3
    PAGING_PAGES = 16
    FS_NPAGES = 1
    PTRS_PER_TABLE = 2
    Touched = {0, 1, 4, 8, 12}
INVARIANTS TablesAreNew
