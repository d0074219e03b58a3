CONSTANTS
    a = a
    b = b
    c = c
    w1 = w1
    w2 = w2
    Roots = {a, b, c}
    FirstRoot = a
    Workers = {w1, w2}
    Baked <- BakedLater
    Tasks = {t1}
    Lifetime = 1
    MAX_ROTATION_CHAIN = 2
    MaxClock = 2
    MaxReleases = 4
    MaxRotations = 2
    FaultKinds = {}
    MaxFaults = 0
    NoManifest = NoManifest
    NoPin = NoPin
    NoTask = NoTask
SPECIFICATION Spec
PROPERTY RefusedWalkHasNoLink
