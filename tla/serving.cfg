CONSTANTS
    html = html
    text = text
    js = js
    wasm = wasm
    wasm2 = wasm2
    script = script
    style = style
    module = module
    Requests = {r1, r2}
    Chunks <- AllChunks
    Zeroed = Zeroed
    NoHasher = NoHasher
    Paths = {"/app.js", "/app.wasm", "/api", "/x.js", "/route", "/%2e"}
    OutOfScope = {"/api"}
    Illegal = {"/%2e"}
    Navigations = {"/route"}
    WasmPaths = {"/app.wasm"}
    Files <- AllFiles
    Releases <- TwoReleases
    Large = {wasm, wasm2}
    Parts <- TwoParts
    HardStates = {"TAMPERED"}
    Incidents = {"corrupt", "refused", "outage", "partial", "storage", "evict", "wasm", "restart", "unlisted"}
    MaxIncidents = 1
    MaxAsked = 3
    ErrorPage <- Sorry
    NoManifest = NoManifest
    NoFile = NoFile
    NoResponse = NoResponse
SPECIFICATION Spec
INVARIANTS TypeOK ServesSigned  NoSlotLost DigestsAreOwn
SYMMETRY RequestSymmetry
CHECK_DEADLOCK FALSE
PROPERTIES UsesThePool RefusedByOtherRelease
