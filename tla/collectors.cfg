CONSTANTS
    k1 = k1
    html = html
    forEu = forEu
    forUs = forUs
    js1 = js1
    js2 = js2
    Nothing = Nothing
    eu = eu
    us = us
    Keys = {k1}
    Algs = {"ed25519", "p256"}
    MAX_TRUST_ROOT_KEYS = 16
    Malformed = Malformed
    Paths = {"/index", "/app"}
    Tags <- PageTags
    Unscannable = Unscannable
    CrossOrigin = CrossOrigin
    NoIntegrity = NoIntegrity
    Untyped = Untyped
    NoAnswer = NoAnswer
    Absent = Absent
    Vantages = {eu, us}
    SafeLabel <- Ranks
    NamedBefore <- ByLabel
    Views <- TheViews
    GraphOnly = {}
    TrustRootFile <- Root
    Today = 2
    MaxPushes = 3
    MaxFailures = 1
    MaxRestarts = 2
    MaxUnread = 2
    MaxPulls = 2
    Sinces = {0, 3}
    Torn = Torn
    MaxReports = 3
    MaxBatch = 2
    LastSecond = 1
    MaxReportFailures = 2
SPECIFICATION OneSpec
INVARIANTS TypeOK LossIsBounded SelectiveDeliverySurfaces TelemetryTypeOK FilesAreKept OneFaultLosesNothing
CHECK_DEADLOCK FALSE
