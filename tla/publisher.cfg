CONSTANTS
    k1 = k1
    k2 = k2
    k3 = k3
    KeyFiles <- Quorums
    Remote = {k3}
    Keys = {k1, k2, k3}
    Algs = {"ed25519", "p256"}
    MAX_TRUST_ROOT_KEYS = 16
    Malformed = Malformed
    RootFiles <- FullAndLeft
    Builds = {b1}
    Overrides = {0}
    Windows = {1}
    MaxClock = 2
    MaxCommands = 2
    NoFile = NoFile
    NoJob = NoJob
    NoRelease = NoRelease
SPECIFICATION Spec
INVARIANTS TypeOK AcceptsOnlyGated VerifiersAgree ShippedVerifies RevocationLeavesQuorum RevokedNeverCount
CHECK_DEADLOCK FALSE
