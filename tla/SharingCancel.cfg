SPECIFICATION Spec
CONSTANTS
    File = {"f"}
    Shared = {}
    MaxId = 2
    MaxRequest = 2
    Default = Default
    Draft = Draft
    Tab = Tab
    Closed = Closed
    Cancelled = Cancelled
    None = None
INVARIANT CancelledIsNotPushed
CHECK_DEADLOCK FALSE
