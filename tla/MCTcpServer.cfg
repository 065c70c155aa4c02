SPECIFICATION Spec
CONSTANTS
    None = none
    MaxPool = 2
    MaxConns = 2
    MaxDowns = 2
INVARIANTS
    NoDanglingChannel
    ClosedLeavesMap
    NeverDestroyedConnected
    PoolBalanced
PROPERTIES
    CallbackOrder
CHECK_DEADLOCK FALSE
