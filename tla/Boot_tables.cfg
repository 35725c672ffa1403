SPECIFICATION Spec
CONSTANTS
    PTRS_PER_TABLE = 512
    DEVICE_BASE = 504
    PHYS_MEMORY_SIZE = 512
    USE_QEMU = TRUE
INVARIANTS TypeOK MmuSafe
PROPERTIES MappedOnce
