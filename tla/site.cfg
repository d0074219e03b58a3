CONSTANTS
    app1 = app1
    app2 = app2
    blog1 = blog1
    dated2 = dated2
    Paths <- ThePaths
    PageOrder <- ThePageOrder
    Fold <- TheFold
    Outputs <- TheOutputs
    Loads <- TheLoads
    Versions = {1}
    StatementPath <- Rotation
    ByHand = ByHand
    Statement = Statement
    Symlink = Symlink
    Absent = Absent
    Torn = Torn
    Unscannable = Unscannable
    NoJob = NoJob
    NoRelease = NoRelease
    CrossOrigin = CrossOrigin
    MaxCommands = 4
SPECIFICATION Spec
INVARIANTS TypeOK ReleaseVerifies VerifiedPagesLoad ReleaseIsProtected HeadersCoverPages
CHECK_DEADLOCK FALSE
