SPECIFICATION Spec
CONSTANTS
    e = e
    d = d
    f = f
    s = s
    x = x
    t = t
    Request = {r1, r2}
    Path = {e, d, f, s, x, t}
    Parents <- MCParents
    Mount = {s}
    Source <- MCSource
    Node <- MCNode
    Operation <- MCOperation
    NoOperation = NoOperation
    BesideHandle = {"read", "write", "openRead", "openWrite", "stream", "put", "copy", "unmount"}
    MaxShared = 3
INVARIANT ReleasesWhatItHolds
SYMMETRY MCSymmetry
