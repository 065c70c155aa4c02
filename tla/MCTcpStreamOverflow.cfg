SPECIFICATION Spec
CONSTANTS
    kCheapPrepend = 1
    kInitialSize = 3
    ExtraSize = 2
    Junk = 0
    highWaterMark_ = 4
    MaxIn = 5
    MaxOut = 0
    MaxMessage = 0
INVARIANTS
    AppendFits
CHECK_DEADLOCK FALSE
