CONSTANTS
    Worker = {w1, w2, w3}
    Cron = {w1, w2, w3}
    Job = {t}
    Class = {"A", "B"}
    ClassA = {t}
    ClassOf <- MCClassOf
    Exclusive = {"A"}
    Queued = {}
    Broken = {}
    Missing = {}
    Addable = {}
    Restricted = {}
    JobClasses <- MCJobClasses
    Interval = 0
    ReserveTime = 3
    CheckTime = 2
    MaxRun = 1
    MaxTime = 5
    MaxAdds = 1
SPECIFICATION Spec
INVARIANTS
    NoParallelRuns
CHECK_DEADLOCK FALSE
