SPECIFICATION FairSpec
CONSTANTS
    Row = {1}
    MaxId = 2
    Value = {"blank", "a", "b"}
    Valid = {"a", "b"}
    Blank = "blank"
    AutoCheck = 2
    MaxRequest = 2
    None = None
INVARIANTS TypeOK StatusIsTrue NoOrphan
PROPERTIES NeverResurrected ProgressEnds
CHECK_DEADLOCK FALSE
