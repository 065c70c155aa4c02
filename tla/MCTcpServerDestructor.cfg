SPECIFICATION Spec
CONSTANTS
    None = none
    MaxPool = 1
    MaxConns = 1
    MaxDowns = 1
INVARIANTS
    DestructedByAcceptor
CHECK_DEADLOCK FALSE
