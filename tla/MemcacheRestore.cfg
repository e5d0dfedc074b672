CONSTANTS
    Request = {r1, r2}
    Path = {f}
    SharedPath = {f}
    Absent = Absent
    Exclusive = Exclusive
    HasTTL = TRUE
    AtomicCas = TRUE
    TTL = 3
    DefaultTTL = 9
    MaxTime = 2
    MaxShared = 1
SPECIFICATION Spec
INVARIANTS
    MutualExclusion
CHECK_DEADLOCK FALSE
