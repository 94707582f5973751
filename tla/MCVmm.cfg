SPECIFICATION Spec
CONSTANTS
    LIMIT_MEMORY_MAP_SIZE = 8
    LIMIT_MODULES = 4
    NAME_SIZE = 4
    NAME_CLEARED = 3
    PAGE_SIZE = 2
    ENTRIES = 4
    SHARED_FIRST = 1
    MMAP_IO_BASE = 256
    MMAP_KERNEL_BASE = 480
    USER_STACK_BASE = 24
    KERNEL_STACK_SIZE = 4
    IO_LENGTH = 39
    Boots <- MCBoots
    ModuleNames <- MCModuleNames
    Images <- MCImages
    HeapBytes = {6}
    MaxSpaces = 2
    Touched = {4, 160}
    Observed = {4, 5, 6, 12, 65, 66, 130, 160, 175, 183, 242, 255}
INVARIANTS
    HandoverIsFaithful
    MemoryIsReachable
    UserReachesOnlyItsOwn
    CachedFrameIsCurrent
PROPERTIES
    ImageIsLoaded
    ImplementsVmmAbs
