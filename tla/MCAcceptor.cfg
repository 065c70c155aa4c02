SPECIFICATION AcceptorFairSpec
CONSTANTS
    Fds = {f1, f2, f3}
    NoFd = nofd
    MaxArrivals = 3
INVARIANTS
    ClosesOwn
    ReserveKept
PROPERTIES
    ConnectionsTaken
CHECK_DEADLOCK FALSE
