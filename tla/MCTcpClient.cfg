SPECIFICATION FairSpec
CONSTANTS
    MaxStarts = 3
INVARIANTS
    StateOK
    DanglingOnlyByOverlap
    SocketsAccounted
PROPERTIES
    AliveInHandler
    AttemptEnds
CHECK_DEADLOCK FALSE
