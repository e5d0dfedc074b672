CONSTANTS
    Worker = {w1, w2}
    Cron = {w1}
    Job = {t, u, b, m}
    Class = {"A", "B"}
    ClassA = {t, b, m}
    ClassOf <- MCClassOf
    Exclusive = {"B"}
    Queued = {}
    Broken = {b}
    Missing = {m}
    Addable = {}
    Restricted = {w2}
    JobClasses <- MCJobClasses
    Interval = 0
    ReserveTime = 3
    CheckTime = 2
    MaxRun = 1
    MaxTime = 4
    MaxAdds = 1
SPECIFICATION Spec
INVARIANTS
    NoOrphanReservation
    OnlyRequestedClasses
CHECK_DEADLOCK FALSE
