CONSTANTS
    Request = {r1, r2, r3}
    Path = {f}
    SharedPath = {}
    Absent = Absent
    Exclusive = Exclusive
    HasTTL = FALSE
    AtomicCas = FALSE
    TTL = 1
    DefaultTTL = 9
    MaxTime = 0
    MaxShared = 1
SPECIFICATION Spec
SYMMETRY MCSymmetry
INVARIANTS
    MutualExclusion
PROPERTIES
    ImplementsFileLock
CHECK_DEADLOCK FALSE
