SPECIFICATION FairSpec
CONSTANTS
    None = none
    MaxPool = 1
    MaxConns = 1
    MaxDowns = 4
PROPERTIES
    ClosedIsDestroyed
CHECK_DEADLOCK FALSE
