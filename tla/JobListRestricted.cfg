CONSTANTS
    Worker = {w1, w2}
    Cron = {w1}
    Job = {t, u}
    Class = {"A", "B"}
    ClassA = {t}
    ClassOf <- MCClassOf
    Exclusive = {"A"}
    Queued = {}
    Broken = {}
    Missing = {}
    Addable = {}
    Restricted = {w2}
    JobClasses <- MCJobClasses
    Interval = 0
    ReserveTime = 2
    CheckTime = 1
    MaxRun = 1
    MaxTime = 4
    MaxAdds = 1
SPECIFICATION Spec
INVARIANTS OnlyRequestedClasses
CHECK_DEADLOCK FALSE
