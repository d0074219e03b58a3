------------------------------- MODULE Serving -------------------------------
(***************************************************************************)
(* How the Tier 1 worker answers a page: handle() and streamVerify() of    *)
(* runtime/veil-guard-sw.js, the decisions of veilguard-policy.mjs, and    *)
(* the page side, runtime/veil-guard-loader.js.                            *)
(*                                                                         *)
(* A request runs from one await to the next while refreshes replace the   *)
(* manifest (module WorkerMemory), deploys replace the files, and other    *)
(* requests share the cache and the hashers (module HasherPool).  A body   *)
(* and its digest are one value, as are a content type and its class.      *)
(***************************************************************************)
EXTENDS HasherPool

CONSTANTS
    Paths,          \* paths of this origin
    OutOfScope,     \* the ones in no `include`, or in an `exclude`
    Illegal,        \* the ones requestKey refuses
    Navigations,    \* the ones that are asked for as documents
    WasmPaths,      \* the ones a page compiles
    Files,          \* [body, type]
    Releases,       \* the releases, in order: which file is at which path
    Large,          \* the bodies above STREAM_THRESHOLD_BYTES
    Parts,          \* the chunks a body arrives in
    HardStates,
    Incidents,      \* what may go wrong
    MaxIncidents,   \* bound on how many kinds of it do, each once
    MaxAsked,       \* bound on what the page asks for: files, refreshes, verdicts
    ErrorPage,      \* what an origin sends with a status that is not 200
    NoManifest, NoFile, NoResponse

VARIABLES
    signed,         \* the releases signed so far, by number
    memory,         \* the worker's `state`
    origin,         \* the file at each path
    cache,          \* Cache Storage: the response kept per digest
    request,        \* what the page asked for
    asked,          \* how much that was
    overlay,        \* what the page shows: "none", "security" or "unsupported"
    known,          \* _manifest of the page
    asking,         \* the page is fetching the manifest by itself
    incidents       \* history: what went wrong

worker == <<memory, cache, pool>>
page   == <<overlay, known, asking>>
vars   == <<signed, origin, worker, request, asked, page, incidents>>

Numbers   == DOMAIN Releases
Manifests == Numbers \cup {NoManifest}
Statuses  == {"200", "206", "other"}
Response  == [status: Statuses, file: Files]
Outcomes  == {"cached", "verified", "passed", "blocked", "unavailable", "failed",
              "refused"}
Steps     == {"idle", "ready", "waiting", "decide", "pass", "lookup", "fetch",
              "judge", "stream", "put", "answered"}
Request   == [step: Steps, path: Paths, under: Manifests,
              response: Response \cup {NoResponse}, outcome: Outcomes]

Bodies == {f.body : f \in Files}

\* Whether resolveEntry finds an entry.
Listed(n, path) == path \in DOMAIN Releases[n]

ASSUME ServingAssumption ==
    /\ Files \subseteq [body: Bodies, type: {f.type : f \in Files}]
    /\ \A n \in Numbers : DOMAIN Releases[n] \subseteq Paths
                          /\ \A p \in DOMAIN Releases[n] : Releases[n][p] \in Files
    /\ ErrorPage \in Files /\ 1 \in Numbers /\ MaxIncidents \in Nat /\ MaxAsked \in Nat
    /\ Parts \in [Bodies -> Seq(Chunks)] /\ Large \subseteq Bodies
    /\ \A b, c \in Bodies : Parts[b] = Parts[c] => b = c
    /\ IsFiniteSet(Requests) /\ Paths # {} /\ NoResponse \notin Response
    \* A path that requestKey refuses has no key: no list can name it.
    /\ \A p \in Illegal : p \notin OutOfScope /\ \A n \in Numbers : ~Listed(n, p)
    /\ HardStates \cap {"VALID", "EXPIRED", "NETWORK_FAIL"} = {}

Environment == INSTANCE WorkerMemory

----------------------------------------------------------------------------
(* veilguard-policy.mjs.                                                   *)

IsHardFailure(state) == state \in HardStates

PresentationFor(state) ==
    CASE state = "VALID" -> "none"
      [] state = "EXPIRED" -> "notice"
      [] state = "NETWORK_FAIL" -> "retry"
      [] state = "UNSUPPORTED" -> "unsupported"
      [] OTHER -> "security"

DecideRequest(path) ==
    IF IsHardFailure(memory.state) THEN "BLOCK_TAMPER"
    ELSE IF memory.manifest = NoManifest THEN "BLOCK_NO_MANIFEST"
    ELSE IF path \in Illegal THEN "BLOCK_TAMPER"
    ELSE IF path \in OutOfScope THEN "PASSTHROUGH"
    ELSE IF Listed(memory.manifest, path) THEN "CHECK"
    ELSE IF path \in Navigations THEN "PASSTHROUGH"
    ELSE "BLOCK_UNMANIFESTED"

\* Mutant: the body is not compared.
DecideResponseHeadOnly(response, entry, body) ==
    CASE response.status = "206" -> "PASSTHROUGH"
      [] response.status # "200" -> "NETWORK_FAIL"
      [] response.file.type # entry.type -> "BLOCK_TAMPER"
      [] OTHER -> "SERVE_VERIFIED"

\* Mutant: the status is looked at last.
DecideResponseStatusLast(response, entry, body) ==
    CASE response.status = "206" -> "PASSTHROUGH"
      [] response.file.type # entry.type -> "BLOCK_TAMPER"
      [] body # entry.body -> "BLOCK_TAMPER"
      [] response.status # "200" -> "NETWORK_FAIL"
      [] OTHER -> "SERVE_VERIFIED"

\* decideResponse once the body was read.  (fetch() never follows a redirect
\* here, so no response is `redirected`; a size differs only when a digest does.)
DecideResponse(response, entry, body) ==
    CASE response.status = "206" -> "PASSTHROUGH"
      [] response.status = "other" -> "NETWORK_FAIL"
      [] OTHER -> IF response.file = [type |-> entry.type, body |-> body]
                     /\ body = entry.body
                  THEN "SERVE_VERIFIED" ELSE "BLOCK_TAMPER"

\* Before the body is read: what the head alone says.
DecideHead(response, entry) == DecideResponse(response, entry, entry.body)

----------------------------------------------------------------------------
IdleRequest == [step |-> "idle", path |-> CHOOSE p \in Paths : TRUE,
                under |-> NoManifest,
                response |-> NoResponse, outcome |-> "failed"]

At(r, step) == request[r].step = step
Ready == memory.manifest # NoManifest /\ ~IsHardFailure(memory.state)
Entry(r) == Releases[request[r].under][request[r].path]

Incident(kind) == /\ kind \in Incidents \ incidents
                  /\ Cardinality(incidents) < MaxIncidents
                  /\ incidents' = incidents \cup {kind}
Calm == UNCHANGED incidents

Goto(r, step) == request' = [request EXCEPT ![r].step = step]
Answer(r, outcome, response) ==
    request' = [request EXCEPT ![r] =
        [(IF response = NoResponse THEN IdleRequest ELSE request[r]) EXCEPT
           !.step = "answered", !.outcome = outcome, !.response = response]]

\* broadcast, and what the page does with the message: render(), and the
\* first valid state arms the wrapper below.  (Messages are handled at once.)
Post(ui, valid, n) ==
    /\ overlay' = CASE ui \in {"security", "unsupported"} -> ui
                    [] ui = "none" -> "none"
                    [] OTHER -> overlay
    /\ known' = IF valid /\ known = NoManifest THEN n ELSE known
    /\ asking' = (asking \/ (valid /\ known = NoManifest /\ n = NoManifest))
Quiet == UNCHANGED page

\* blockedResponse and unavailableResponse.
Block(r) == /\ Answer(r, "blocked", NoResponse)
            /\ Post(PresentationFor("TAMPERED"), FALSE, NoManifest)
Refuse(r) == /\ Answer(r, "unavailable", NoResponse)
             /\ Post(PresentationFor("NETWORK_FAIL"), FALSE, NoManifest)

Init ==
    /\ signed = {1}
    /\ origin = [p \in Paths |-> IF Listed(1, p) THEN Releases[1][p] ELSE NoFile]
    /\ Environment!Init
    /\ PoolInit
    /\ cache = [b \in Bodies |-> NoFile]
    /\ request = [r \in Requests |-> IdleRequest]
    /\ overlay = "none" /\ known = NoManifest /\ asking = FALSE
    /\ asked = 0
    /\ incidents = {}

----------------------------------------------------------------------------
(* The publisher, the origin, and refreshes of the worker.                 *)

Latest == Cardinality(signed)

Deploy == /\ Latest + 1 \in Numbers /\ Calm
          /\ signed' = signed \cup {Latest + 1}
          /\ UNCHANGED <<origin, worker, request, asked, page>>

\* One file at a time reaches the origin.
Upload(p) == /\ Listed(Latest, p) /\ origin[p] # Releases[Latest][p]
             /\ ~("corrupt" \in incidents)
             /\ origin' = [origin EXCEPT ![p] = Releases[Latest][p]]
             /\ UNCHANGED <<signed, worker, request, asked, page, incidents>>

\* Another file than the one that belongs there, of a path that has one.
Corrupt(p, f) == /\ Listed(1, p) /\ f # origin[p] /\ Incident("corrupt")
                 /\ origin' = [origin EXCEPT ![p] = f]
                 /\ UNCHANGED <<signed, worker, request, asked, page>>

\* What a refresh does to `state`, and the message it ends with.  Only the
\* message about an unreachable origin says nothing of how to present it.
Settled ==
    \/ /\ Environment!Accept /\ Calm
       /\ Post(PresentationFor(memory'.state), memory'.state = "VALID", NoManifest)
    \/ /\ Environment!Refuse /\ Incident("refused")
       /\ Post(PresentationFor(memory'.state), FALSE, NoManifest)
    \/ /\ Environment!Unreachable /\ Incident("outage")
       /\ Post("none", memory'.state = "VALID", NoManifest)

Waiting == {r \in Requests : At(r, "waiting")}

AskOnce == asked < MaxAsked /\ asked' = asked + 1

\* The veil-guard:refresh message, or a lifecycle event.
Refresh == /\ Settled /\ AskOnce
           /\ UNCHANGED <<origin, cache, pool, request>>

FlightThrows ==
    /\ Waiting # {} /\ Incident("storage")
    /\ request' = [r \in Requests |-> IF r \in Waiting
                     THEN [request[r] EXCEPT !.step = "answered", !.outcome = "failed"]
                     ELSE request[r]]
    /\ UNCHANGED <<asked, signed, memory, origin, cache, pool, page>>

\* The one refresh that ensureReady() shares: all who wait for it go on.
FlightLands ==
    /\ Waiting # {} /\ Settled
    /\ request' = [r \in Requests |-> IF r \in Waiting
                     THEN [request[r] EXCEPT !.step = "decide"] ELSE request[r]]
    /\ UNCHANGED <<asked, origin, cache, pool>>

\* The browser ends the worker, with the requests it was answering.
Restart ==
    /\ Incident("restart") /\ Environment!Restart
    /\ PoolRestart
    /\ request' = [r \in Requests |->
         IF request[r].step \in {"idle", "answered"} THEN request[r]
         ELSE [request[r] EXCEPT !.step = "answered", !.outcome = "failed",
                                 !.response = NoResponse]]
    /\ UNCHANGED <<asked, origin, cache, page>>

Evict(b) == /\ cache[b] # NoFile /\ Incident("evict")
            /\ cache' = [cache EXCEPT ![b] = NoFile]
            /\ UNCHANGED <<asked, signed, origin, memory, pool, request, page>>

----------------------------------------------------------------------------
(* handle().                                                               *)

surroundings == <<asked, signed, origin, memory>>

Join(r) == /\ At(r, "ready") /\ ~Ready
           /\ Goto(r, "waiting") /\ Quiet /\ Calm
           /\ UNCHANGED <<surroundings, cache, pool>>

Decide(r) ==
    LET d == DecideRequest(request[r].path)
    IN  /\ At(r, "decide") \/ (At(r, "ready") /\ Ready)
        /\ CASE d = "CHECK" ->
                  /\ request' = [request EXCEPT ![r].step = "lookup",
                                                ![r].under = memory.manifest]
                  /\ Quiet
             [] d = "PASSTHROUGH" -> Goto(r, "pass") /\ Quiet
             [] d = "BLOCK_NO_MANIFEST" -> Refuse(r)
             [] OTHER -> Block(r)
        /\ Calm /\ UNCHANGED <<surroundings, cache, pool>>

Reply(p) == IF origin[p] = NoFile THEN [status |-> "other", file |-> ErrorPage]
            ELSE [status |-> "200", file |-> origin[p]]

PassThrough(r) ==
    /\ At(r, "pass")
    /\ \/ Answer(r, "passed", Reply(request[r].path)) /\ Calm
       \/ Answer(r, "failed", NoResponse) /\ Incident("outage")
    /\ Quiet /\ UNCHANGED <<surroundings, cache, pool>>

\* Cache Storage is asked for the digest, or cannot be opened.
Lookup(r) ==
    LET hit == cache[Entry(r).body]
    IN  /\ At(r, "lookup")
        /\ \/ /\ hit # NoFile /\ Calm
              /\ Answer(r, "cached", [status |-> "200", file |-> hit])
           \/ hit = NoFile /\ Calm /\ Goto(r, "fetch")
           \/ Incident("storage") /\ Answer(r, "failed", NoResponse)
        /\ Quiet /\ UNCHANGED <<surroundings, cache, pool>>

Responded(r, response) ==
    /\ request' = [request EXCEPT ![r].step = "judge", ![r].response = response]
    /\ Quiet

Fetch(r) ==
    /\ At(r, "fetch")
    /\ \/ Responded(r, Reply(request[r].path)) /\ Calm
       \/ Responded(r, [status |-> "other", file |-> ErrorPage]) /\ Incident("outage")
       \/ Refuse(r) /\ Incident("outage")
       \/ /\ origin[request[r].path] # NoFile /\ Incident("partial")
          /\ Answer(r, "passed", [status |-> "206", file |-> origin[request[r].path]])
          /\ Quiet
    /\ UNCHANGED <<surroundings, cache, pool>>

\* The verdicts that need no body, or that come once it was read.
Unserved(r, verdict) ==
    \/ verdict = "BLOCK_TAMPER" /\ Block(r)
    \/ /\ verdict = "NETWORK_FAIL" /\ Answer(r, "passed", request[r].response)
       /\ Post(PresentationFor("NETWORK_FAIL"), FALSE, NoManifest)

IsLarge(r) == Entry(r).body \in Large

\* The body is read and hashed in one piece; or the read breaks off.
Buffer(r) ==
    LET response == request[r].response
        verdict == DecideResponse(response, Entry(r), response.file.body)
    IN  /\ At(r, "judge")
        /\ \/ ~IsLarge(r) /\ Calm
           \/ IsLarge(r) /\ Incident("wasm")
        /\ \/ Unserved(r, verdict)
           \/ verdict = "SERVE_VERIFIED" /\ Goto(r, "put") /\ Quiet
        /\ UNCHANGED <<surroundings, cache, pool>>

ReadFails(r) ==
    /\ At(r, "judge") /\ ~IsLarge(r) /\ Incident("outage")
    /\ Answer(r, "failed", NoResponse) /\ Quiet
    /\ UNCHANGED <<surroundings, cache, pool>>

Put(r) ==
    /\ At(r, "put")
    /\ \/ /\ cache' = [cache EXCEPT ![Entry(r).body] = request[r].response.file]
          /\ Answer(r, "verified", request[r].response) /\ Calm
       \/ /\ Incident("storage") /\ Answer(r, "failed", NoResponse)
          /\ UNCHANGED cache
    /\ Quiet /\ UNCHANGED <<surroundings, pool>>

\* streamVerify: first the head, then a hasher.
StartStream(r) ==
    LET head == DecideHead(request[r].response, Entry(r))
    IN  /\ At(r, "judge") /\ IsLarge(r)
        /\ \/ Unserved(r, head) /\ Calm /\ UNCHANGED pool
           \/ /\ head = "SERVE_VERIFIED" /\ Calm /\ Quiet
              /\ New(r) /\ Goto(r, "stream")
           \/ /\ head = "SERVE_VERIFIED" /\ Incident("wasm") /\ Quiet
              /\ NewFails /\ Answer(r, "failed", NoResponse)
        /\ UNCHANGED <<surroundings, cache>>

Body(r) == Parts[request[r].response.file.body]

Transform(r) ==
    /\ At(r, "stream") /\ Len(fed[r]) < Len(Body(r))
    /\ Update(r, Body(r)[Len(fed[r]) + 1])
    /\ Quiet /\ Calm /\ UNCHANGED <<surroundings, cache, request>>

Flush(r) ==
    /\ At(r, "stream") /\ Len(fed[r]) = Len(Body(r))
    /\ Finalize(r)
    /\ IF Digest(r) = Parts[Entry(r).body]
         THEN Answer(r, "verified", request[r].response) /\ Quiet
         ELSE Block(r)
    /\ Calm /\ UNCHANGED <<surroundings, cache>>

\* Mutant: a stream that is given up keeps its slot.
CancelKeepsSlot(r) ==
    /\ At(r, "stream") /\ Answer(r, "failed", NoResponse)
    /\ slot' = [slot EXCEPT ![r] = NoHasher] /\ fed' = [fed EXCEPT ![r] = <<>>]
    /\ Quiet /\ Calm
    /\ UNCHANGED <<surroundings, cache, next, free, grown, heap>>

\* The consumer goes away, or the connection breaks.
Cancel(r) ==
    /\ At(r, "stream") /\ Dispose(r) /\ Answer(r, "failed", NoResponse)
    /\ Quiet /\ Calm /\ UNCHANGED <<surroundings, cache>>

Handle(r) == \/ Join(r) \/ Decide(r) \/ PassThrough(r) \/ Lookup(r) \/ Fetch(r)
             \/ Buffer(r) \/ ReadFails(r) \/ Put(r) \/ StartStream(r)
             \/ Transform(r) \/ Flush(r) \/ Cancel(r)

----------------------------------------------------------------------------
(* The page.                                                               *)

Ask(r, path) ==
    /\ request[r].step \in {"idle", "answered"} /\ AskOnce
    /\ request' = [request EXCEPT ![r] = [IdleRequest EXCEPT !.step = "ready",
                     !.path = path]]
    /\ IF Listed(1, path) \/ path \in OutOfScope THEN Calm ELSE Incident("unlisted")
    /\ Quiet /\ UNCHANGED <<signed, origin, worker>>

\* The page asks for the verdict, and the worker answers with what it has.
Status == /\ Post(PresentationFor(memory.state), memory.state = "VALID",
                  memory.manifest)
          /\ AskOnce
          /\ UNCHANGED <<signed, origin, worker, request, incidents>>

\* A state without a manifest makes the page fetch it, unverified.
FetchManifest == /\ asking /\ asking' = FALSE /\ known' = Latest
                 /\ UNCHANGED <<signed, origin, worker, request, asked, overlay,
                                incidents>>

\* The wrapper of WebAssembly.instantiateStreaming refuses a module.
Wrapper(r) ==
    LET path == request[r].path
    IN  /\ At(r, "answered") /\ path \in WasmPaths
        /\ request[r].outcome \in {"cached", "verified", "passed"}
        /\ request[r].response.status = "200"
        /\ known # NoManifest /\ Listed(known, path)
        /\ request[r].response.file.body # Releases[known][path].body
        /\ request' = [request EXCEPT ![r].outcome = "refused"]
        /\ Post(PresentationFor("TAMPERED"), FALSE, NoManifest)
        /\ UNCHANGED <<signed, origin, worker, asked, incidents>>

Next ==
    \/ Deploy \/ Refresh \/ FlightLands \/ FlightThrows \/ Restart \/ Status
    \/ FetchManifest
    \/ \E p \in Paths : Upload(p) \/ \E f \in Files : Corrupt(p, f)
    \/ \E b \in Bodies : Evict(b)
    \/ \E r \in Requests : \/ Handle(r) \/ Wrapper(r)
                           \/ \E p \in Paths : Ask(r, p)

Spec == Init /\ [][Next]_vars

----------------------------------------------------------------------------
TypeOK ==
    /\ signed \subseteq Numbers
    /\ memory \in [state: HardStates \cup {"VALID", "EXPIRED", "NETWORK_FAIL"},
                   manifest: Manifests]
    /\ origin \in [Paths -> Files \cup {NoFile}]
    /\ cache \in [Bodies -> Files \cup {NoFile}]
    /\ PoolTypeOK
    /\ request \in [Requests -> Request]
    /\ overlay \in {"none", "security", "unsupported"}
    /\ asked \in Nat /\ known \in Manifests /\ asking \in BOOLEAN
    /\ incidents \subseteq Incidents

\* What the worker serves as checked is, byte for byte, what a signed release
\* has at that path, whichever way it came: out of the cache, read at once or
\* streamed, while deploys, refreshes and other requests go on around it.
ServesSigned ==
    \A r \in Requests :
        At(r, "answered") /\ request[r].outcome \in {"cached", "verified"} =>
            /\ request[r].under \in signed
            /\ request[r].response.file.body = Entry(r).body

\* No outage, eviction, full storage, aborted stream or restart is ever shown
\* as an attack: before the page is told that code was tampered with, a file
\* or the manifest did change, or a path was asked for that is not signed.
AlarmHasCause ==
    overlay # "none" =>
        Latest > 1 \/ incidents \cap {"corrupt", "refused", "unlisted"} # {}

\* What the page checks again it finds as the worker did: a module that came
\* verified is refused only by a page that still has the manifest of another
\* release than the one the worker checked it against.
RefusedByOtherRelease ==
    [][\A r \in Requests :
         /\ At(r, "answered") /\ request[r].outcome \in {"cached", "verified"}
         /\ request'[r].outcome = "refused"
         => known # request[r].under]_vars

\* All of this uses the hashers one step of HasherPool at a time: what is proved
\* of that module holds here.
UsesThePool == [][PoolNext]_pool

\* However streams end, every slot ever handed out is in use or free again;
\* only one whose memory could not be had is lost.
NoSlotLost == "wasm" \notin incidents =>
    next = Len(free) + Cardinality({r \in Requests : Live(r)})
==============================================================================
