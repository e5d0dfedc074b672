CONSTANTS
    Worker = {w1, w2}
    Cron = {w1, w2}
    Job = {t, q}
    Class = {"A", "B"}
    ClassA = {t}
    ClassOf <- MCClassOf
    Exclusive = {"A"}
    Queued = {q}
    Broken = {}
    Missing = {}
    Addable = {q}
    Restricted = {}
    JobClasses <- MCJobClasses
    Interval = 0
    ReserveTime = 2
    CheckTime = 1
    MaxRun = 1
    MaxTime = 4
    MaxAdds = 2
SPECIFICATION Spec
SYMMETRY MCSymmetry
INVARIANTS
    TypeOK
    NoOrphanReservation
    RunsAtMostOncePerAdd
PROPERTIES
    ReservationsAreKept
CHECK_DEADLOCK FALSE
