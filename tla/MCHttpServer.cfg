SPECIFICATION FairSpec
CONSTANTS
    Requests <- MCRequests
INVARIANTS
    RequestMatchesText
    AnsweredOnce
    HangsOnlyIfCut
PROPERTIES
    WholeHeadAnswered
CHECK_DEADLOCK FALSE
