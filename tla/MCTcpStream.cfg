SPECIFICATION Spec
CONSTANTS
    kCheapPrepend = 1
    kInitialSize = 3
    ExtraSize = 2
    Junk = 0
    highWaterMark_ = 4
    MaxIn = 5
    MaxOut = 5
    MaxMessage = 4
INVARIANTS
    BuffersOK
    InputIntact
    OutputIntact
PROPERTIES
    WritingStalls
CHECK_DEADLOCK FALSE
