SPECIFICATION FairSpec
CONSTANTS
    MaxThreads = 2
    Null = null
    Wild = wild
INVARIANTS
    LoopsReady
    QuitReaches
PROPERTIES
    StartReturns
    JoinEnds
CHECK_DEADLOCK FALSE
