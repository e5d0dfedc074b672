CONSTANTS
    Request = {r1, r2, r3}
    Path = {f}
    SharedPath = {f}
    Absent = Absent
    Exclusive = Exclusive
    HasTTL = FALSE
    AtomicCas = TRUE
    TTL = 1
    DefaultTTL = 9
    MaxTime = 0
    MaxShared = 2
SPECIFICATION Spec
SYMMETRY MCSymmetry
INVARIANTS
    TypeOK
    MutualExclusion
    NoLeakedLock
PROPERTIES
    ImplementsFileLock
CHECK_DEADLOCK FALSE
