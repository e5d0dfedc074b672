CONSTANTS
    Request = {w1, w2, c1}
    Path = {f, k}
    Caching = {w1, w2}
    SharedPath = {f}
    ExclusivePath = {k}
    TTL = 2
    MaxAge = 1
    MaxShared = 2
SPECIFICATION Spec
SYMMETRY MCSymmetry
INVARIANTS
    TypeOK
    MutualExclusion
    RowIsExact
    LiveLocksDoNotExpire
PROPERTIES
    ImplementsFileLock
