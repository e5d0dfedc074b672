CONSTANTS
    Request = {w1, w2}
    Path = {f}
    Caching = {w1, w2}
    SharedPath = {f}
    ExclusivePath = {f}
    TTL = 2
    MaxAge = 1
    MaxShared = 1
SPECIFICATION Spec
INVARIANTS
    MutualExclusion
