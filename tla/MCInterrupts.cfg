SPECIFICATION Spec
CONSTANTS
    HALF = 2
    KILO = 4
    User = {1, 2}
    SWITCH_TICK = 1
    Irq = {0, 1, 8}
    Exception = {3, 14}
    Site <- MCSite
    Symbols <- MCSymbols
    Pages = {0, 7, 30}
    PAGE_SIZE = 4
    MaxDepth = 3
INVARIANTS
    ResumesItself
    EveryLineIsAnswered
    PrintedReadsBack
PROPERTIES
    NothingRunsAfterFault
    FaultStopsTheMachine
