SPECIFICATION Spec
CONSTANTS
    Channels = {c1, c2, c3}
    Fds = {f1, f2, f3}
    Events = {"IN", "OUT"}
    NoChannel = none
SYMMETRY Symmetry
INVARIANTS
    RegistrationAgrees
    DispatchSafe
PROPERTIES
    RefinesInterestSet
\* Nothing follows the use of a destroyed channel.
CHECK_DEADLOCK FALSE
