SPECIFICATION FairSpec
CONSTANTS
    Row = {1}
    MaxId = 2
    Value = {"blank", "a", "b"}
    Valid = {"a", "b"}
    Blank = "blank"
    AutoCheck = 2
    MaxRequest = 2
    None = None
INVARIANT RemovedLeavesNothing
CHECK_DEADLOCK FALSE
