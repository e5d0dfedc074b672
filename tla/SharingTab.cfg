SPECIFICATION FairSpec
CONSTANTS
    File = {"f", "g"}
    Shared = {"g"}
    MaxId = 2
    MaxRequest = 3
    Default = Default
    Draft = Draft
    Tab = Tab
    Closed = Closed
    Cancelled = Cancelled
    None = None
INVARIANTS
    TypeOK
    ListIsCurrent
    PushedOnce
PROPERTY LoadingEnds
CHECK_DEADLOCK FALSE
