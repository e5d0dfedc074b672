SPECIFICATION Spec
CONSTANTS
    Details = {"details"}
    Permission = {1, 2}
    Password = {"", "a"}
    Empty = ""
    None = None
    MaxPending = 2
INVARIANTS
    TypeOK
    LastUpdateWins
    TalkIsRestored
CHECK_DEADLOCK FALSE
