CONSTANTS
    k1 = k1
    k2 = k2
    html = html
    injected = injected
    js1 = js1
    js2 = js2
    Nothing = Nothing
    Keys = {k1, k2}
    Algs = {"ed25519", "p256"}
    MAX_TRUST_ROOT_KEYS = 16
    Malformed = Malformed
    Paths = {"/index", "/app", "/extra"}
    Tags <- PageTags
    Unscannable = Unscannable
    CrossOrigin = CrossOrigin
    NoIntegrity = NoIntegrity
    Untyped = Untyped
    NoAnswer = NoAnswer
    Absent = Absent
    Answers <- TheAnswers
    Honest <- TheHonest
    NextRelease <- TheNextRelease
    TrustRootFile <- Root
    PinnedVersion = 0
    FailOn = 1
    GraphOnly = FALSE
    Heartbeat = 2
    MaxDay = 2
    MaxChanges = 2
    MaxIncidents = 3
    Idle = Idle
    NoAlert = NoAlert
    Silent = Silent
SPECIFICATION Spec
INVARIANTS TypeOK AuditTellsTheTruth NetworkNeverPages
PROPERTIES LastingFailureIsPaged FalseAlarmsEnd
