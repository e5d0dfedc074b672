CONSTANTS
    Request = {w1, c1}
    Path = {f}
    Caching = {w1}
    SharedPath = {f}
    ExclusivePath = {}
    TTL = 2
    MaxAge = 1
    MaxShared = 1
SPECIFICATION FairSpec
PROPERTIES
    WritersGoAway
