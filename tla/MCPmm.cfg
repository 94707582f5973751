SPECIFICATION Spec
CONSTANTS
    PAGE_SIZE = 4
    SizeRange = 32
    MemoryMaps <- MCMemoryMaps
    Amounts <- MCAmounts
INVARIANTS
    TypeOK
    HeldExclusively
    HeldIsUsableMemory
    UsablePagesCountClearBits
    ScanIsFirstFit
PROPERTY
    NeverReissued
