CONSTANTS
    a = a
    b = b
    c = c
    w1 = w1
    w2 = w2
    Roots = {a, b}
    FirstRoot = a
    Workers = {w1, w2}
    Baked <- BakedTwo
    Tasks = {t1}
    Lifetime = 1
    MAX_ROTATION_CHAIN = 2
    MaxClock = 2
    MaxReleases = 2
    MaxRotations = 2
    FaultKinds = {"writePin", "outage", "restart"}
    MaxFaults = 2
    NoManifest = NoManifest
    NoPin = NoPin
    NoTask = NoTask
SPECIFICATION FairSpec
INVARIANTS PinCoversMemory TransitionNeverRejects
PROPERTIES PinProtocol Heals
