SPECIFICATION FairSpec
CONSTANTS
    LastProc = 3
    SWITCH_TICK = 1
INVARIANTS
    TypeOK
    PidIsIndex
    FreedNeverRuns
    

    
    
