SPECIFICATION Spec
CHECK_DEADLOCK FALSE
CONSTANTS
    LengthMax = 15
    LengthDigits = {1, 6}
    StatusDigits = {0, 1, 2}
    ChunkDigits = {0, 2}
    VersionDigits = {0, 1, 9}
    FieldChars = {"Alpha", "SP", "LF", "CR", "Colon", "Comma", "Digit", "Ctl"}
    MaxFields = 2
    FollowedRequests <- MCRequests
    FollowedResponses <- MCResponses
INVARIANTS
    StartLineMatches
    BodyAsDeclared
    LengthUnambiguous
PROPERTIES
    RefinesEvents
