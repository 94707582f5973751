SPECIFICATION FairSpec
CONSTANTS
    elf = elf
    serial = serial
    usertask = usertask
    liballoc = liballoc
    vmm = vmm
    pmm = pmm
    N = 2
    Lock <- MCLock
    Nested <- MCNested
    Workloads <- MCWorkloads
INVARIANTS
    TypeOK
    MutualExclusion
    LeafSectionsAreAtomic
PROPERTIES
    ContentionIsFatal
    LeafAcquireReturns
