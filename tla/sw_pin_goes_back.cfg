CONSTANTS
    a = a
    b = b
    c = c
    w1 = w1
    w2 = w2
    Roots = {a}
    FirstRoot = a
    Workers = {w1}
    Baked <- BakedOne
    Tasks = {t1, t2}
    Lifetime = 1
    MAX_ROTATION_CHAIN = 1
    MaxClock = 2
    MaxReleases = 4
    MaxRotations = 0
    FaultKinds = {}
    MaxFaults = 0
    NoManifest = NoManifest
    NoPin = NoPin
    NoTask = NoTask
SPECIFICATION Spec
PROPERTY PinNeverGoesBack
