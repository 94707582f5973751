SPECIFICATION Spec
CONSTANTS
    Owner = {o1, o2, o3}
    Stack = {o1}
    Amount = {1, 12, 26}
    MAJOR = 5
    MINOR = 5
    ALIGNMENT = 2
    ALIGN_INFO = 2
    l_pageSize = 40
    l_pageCount = 1
    MemoryPages = 3
SYMMETRY Interchangeable
INVARIANTS
    TotalsMatchLists
    BestBetIsListed
    BlockFitsOwner
PROPERTIES
    AsksOnlyWhenFull
    
    ImplementsHeapAbs
