SPECIFICATION Spec
CONSTANTS
    PAGE_SIZE = 4
    SizeRange = 32
    MemoryMaps <- MCMemoryMaps
    Amounts <- MCAmounts
INVARIANT
    AllocReturns
