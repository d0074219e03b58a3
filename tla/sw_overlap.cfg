CONSTANTS
    a = a
    b = b
    c = c
    w1 = w1
    w2 = w2
    Roots = {a, b}
    FirstRoot = a
    Workers = {w1, w2}
    Baked <- BakedTwo
    Tasks = {t1, t2}
    Lifetime = 0
    MAX_ROTATION_CHAIN = 1
    MaxClock = 1
    MaxReleases = 4
    MaxRotations = 1
    FaultKinds = {"readPin", "evict", "restart", "corrupt", "outage", "save", "redeploy"}
    MaxFaults = 1
    NoManifest = NoManifest
    NoPin = NoPin
    NoTask = NoTask
SPECIFICATION Spec
INVARIANTS TypeOK ServesOnlySigned PinDescendsFromAnchor
PROPERTIES MemoryProtocol PinMovesOrIsLost CoverEndsOnlyByLoss
SYMMETRY TaskSymmetry
