CONSTANTS
    Request = {r1, r2}
    Path = {f}
    SharedPath = {f}
    Absent = Absent
    Exclusive = Exclusive
    HasTTL = FALSE
    AtomicCas = FALSE
    TTL = 1
    DefaultTTL = 9
    MaxTime = 0
    MaxShared = 1
SPECIFICATION Spec
INVARIANTS
    MutualExclusion
CHECK_DEADLOCK FALSE
