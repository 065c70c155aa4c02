SPECIFICATION FairSpec
CONSTANTS
    LoopThread = loop
    WakeupChannel = wakeup
    NoThread = none
    Callers = {t1, t2}
    IoChannels = {c1, c2}
    MaxFunctors = 4
INVARIANTS
    StateOK
    NoLostWakeup
    NoMissedQuit
PROPERTIES
    RefinesQueue
    DeliveredByWakeup
    QuitEndsLoop
    ServedWithTimeout
