# A TLA+ model of veil-guard

veil-guard signs the release of a web application with a k-of-n trust root and
has the browser (a service worker), an out-of-band auditor and the publisher's
own command line verify it. This directory models those parts in TLA+, checks
them with TLC on small instances, and proves the properties that matter most
for every instance with TLAPS.

Paths below are relative to the repository: `src/manifest.rs` is the crate's
source, `runtime/` the browser code, `SPEC.md` the protocol document. (In
`PROJECT.json` the same files carry one more leading `src/`.)

## 1. The system and its parts

| part | code | state it keeps | operations |
|---|---|---|---|
| Trust policy | `src/crypto.rs`, `src/manifest.rs`, twin `runtime/veilguard-verify.mjs` | none | `check_threshold`, `verify_manifest`, `verify_manifest_with_revocation`, `verify_rotation`, `verify_revocation` |
| Publisher commands | `src/main.rs` | payload + signature bundle of manifest, rotation, revocation | `sign` (with verify-before-write, Rekor upload), `rotate`, `revoke`, `verify` |
| Build directory tools | `src/scanner.rs`, `src/generators.rs`, `src/html.rs`, `sign` and `verify` in `src/main.rs` | every file of the build directory, the header files | scan, splicing of integrity into pages and import maps, header files, comparison with the manifest |
| Worker control plane | `runtime/veil-guard-sw.js` 83-257, 460-499, `runtime/veilguard-policy.mjs` 189-245 | the pin (IndexedDB), the mirror of manifest and signature (Cache Storage), `state` in memory, the single flight of `ensureReady` | `refresh`, `ensureReady`, `readPin`/`writePin`, `loadControl`/`saveControl`, the rotation walk |
| Request handling and loader | `runtime/veil-guard-sw.js` 307-457, `runtime/veilguard-policy.mjs` 23-179, `runtime/veil-guard-loader.js` | the content cache, responses in flight; on the page the overlay and the manifest its Wasm wrapper uses | `handle`, `streamVerify`, `broadcast`, `render`, the `instantiateStreaming` wrapper |
| Streaming hasher | `runtime/veilguard-verify.mjs` 570-665, `wasm-hasher/src/lib.rs` | a free list and a counter over one linear memory, one slot per hasher | constructor, `update`, `finalize`, `dispose` |
| Auditor | `src/auditor.rs` | none | `audit`, `diff` |
| Audit daemon and alerting | `src/auditor.rs` 750-913, `src/alerting.rs` | per target: failing or not, time of the last alert | `run_daemon`, `send_alert` with three attempts |
| Audit relay and its clients | `relay-server/src/main.rs`, `src/relay.rs` | snapshots in memory and as files, the operator's directory of pulled files | push, reload at start, list, `pull --since` |
| Telemetry server | `src/bin/veil-guard-telemetry.rs` | reports in memory and as files, forwards under way | a request report by report, the forwarding tasks, reload at start |
| The rest | `keygen`, `trust-root`, `runtime`, `audit`, `relay`, `diff` commands of `src/main.rs`; `runtime.rs`, `kms.rs`, `vault.rs`, `rekor.rs` | none | not modelled, see section 8 |

How they interact. The publisher's files reach the origin one at a time. Every
worker fetches them, falls back to its mirror, judges them under the pinned
root and shares the pin with the workers of other generations; requests are
served under whatever manifest the last refresh left, share one content cache
and one hasher memory, and report to the page by messages. The auditor asks
the same origin for the same files, from outside; its snapshots go through the
relay to an operator who compares them.

What is hard about it, and which properties speak of it:

* **Interleaving.** Every `await` of the worker is a point at which another
  refresh, request or deploy may run; nothing serialises two refreshes.
  (`ServesOnlySigned`, `MemoryProtocol`, `PinDescendsFromAnchor`, `PinMovesOrIsLost`,
  `CoverEndsOnlyByLoss`, `ServesSigned`, `DigestsAreOwn`, and the violated
  `PinNeverGoesBack`.)
* **Torn pairs.** Manifest and signature are two files on the origin and two
  entries in the mirror; commands, too, write payload and bundle one after the
  other. (`ServesOnlySigned`, `Heals`, `AcceptsOnlyGated`, `ShippedVerifies`.)
* **Two releases at once.** A page, an audit or a build directory may hold parts of
  two releases. (`RefusedByOtherRelease`, `FalseAlarmsEnd`, `VerifiedPagesLoad`.)
* **Commands over what commands left.** `sign` rewrites the pages it signs, and runs
  again over pages it, or a `sign` that died, rewrote before. (`ReleaseVerifies`,
  `ReleaseIsProtected`, `HeadersCoverPages`.)
* **Crashes and restarts.** The browser ends workers, commands die inside a
  write, the daemon and the two servers are restarted. (`PinCoversMemory`,
  `CoverEndsOnlyByLoss`, `Heals`, `AcceptsOnlyGated`, `LastingFailureIsPaged`,
  `LossIsBounded`, `FilesAreKept`.)
* **Errors that are swallowed.** `readPin`, `saveControl`, the relay's
  and the telemetry server's `fs::write` and `fs::read`, the daemon's alert, a forwarded report, the
  auditor's revocation fetch. (`OneFaultLosesNothing`, `LossIsBounded`, `FilesAreKept`,
  `PinCoversMemory`.)
* **Outage or attack.** A failing network must not look like tampering.
  (`AlarmHasCause`, `NetworkNeverPages`.)
* **Two verifiers.** Browsers with fewer algorithms and the command line must
  not disagree on one manifest. (`VerifiersAgree`, `FewerAlgorithmsAccept`.)

The full list, at the lines where each one bites, is in `PROJECT.json` under
`hazards`.

## 2. The modules

    TrustPolicy                          pure operators
      ^-- Publisher  <- MCPublisher      commands over the build directory
      ^-- Auditor                        pure operators: audit(), diff()
            ^-- AuditDaemon <- MCAuditDaemon
            ^-- Relay       <- MCRelay
                  ^-- Collectors         Relay or Telemetry, <- MCCollectors
    Directory                            pure operators: a server's files
      ^-- Relay
      ^-- Telemetry                      the telemetry server
    Site             <- MCSite           the files of a build directory
    HasherPool
      ^-- Serving    <- MCServing        takes WorkerMemory as its environment
    ServiceWorker    <- MCServiceWorker  implements TrustPin and WorkerMemory

    ServiceWorkerProofs, TrustPolicyProofs, PublisherProofs, SiteProofs,
    HasherPoolProofs, ServingProofs, AuditDaemonProofs, CollectorsProofs

(`^--` is EXTENDS.) Two modules are abstract specifications:

* **TrustPin** is what `SPEC.md` 6.5 and 9.1 promise of a pin: adopted once,
  advancing along signed releases of its root, moving to another root only along
  signed rotation statements. `ServiceWorker` implements it while refreshes do
  not overlap and can read the pin (`PinProtocol`, a refinement that drops the two
  bookkeeping fields of the pin and the bytes of a release). Always, each of its steps
  is one of TrustPin's or a `LostUpdate`: a write by a refresh whose copy of the pin,
  `base`, is not what is stored (`PinMovesOrIsLost`).
* **WorkerMemory** is what a request may assume of `state`: it is cold, or a
  refresh accepted a signed manifest, refused and forgot, or found nothing.
  `ServiceWorker` implements it with overlapping refreshes too
  (`MemoryProtocol`), and `Serving` instantiates it as its environment, so that
  requests are checked against everything refreshes can do without modelling
  the refreshes twice.

`Serving` uses `HasherPool`'s variables directly; `UsesThePool` says that each
of its steps is one of the pool's, so that the theorems on the pool carry over.

### TrustPolicy
A trust root is a record of threshold, algorithms and keys; it stands for its
own id, which the code computes as a hash over all of it. A bundle is the message
it was made over, the entries `<<key, algorithm>>` that verify for that message
and those that verify for none, or `Malformed`. `CheckThreshold` keeps the
code's order: no common algorithm, then a signature that is present and fails,
then the count. Signatures come before contents, as in `verify_manifest`: a
corrupted body under a good bundle is `TAMPERED`, a bundle of other keys
`UNTRUSTED_ROOT`. `VerifyManifestWithRevocation` filters the root first, exactly
as lines 209-236 do, which is what `RemainingQuorumIsValid` runs into.

### Publisher
A command is a job with a step: `gate`, `payload`, `sig`, `rekor`. `Sign` does what
comes before the gate, including the rewriting of the HTML files; `Gate` is the
verify-before-write of 996-1006; `WritePayload` and `WriteSig` are the two writes;
`RekorUploaded` rewrites the manifest with the log entry and does not sign it
again, as 1012-1046. Keys in `Remote` have a signer outside the key file, and either half
of what it returns may be of another key. `Crash` ends a job before its next write or in the middle of
it. `rotate` and `revoke` verify before they start to write. The build tool may
replace the directory, or only its own files.

### ServiceWorker
A refresh is a task with a program counter named for what it awaits next
(`fetch`, `mirror`, `readPin`, `walk`, `writeRotation`, `verify`, `writePin`,
`saveManifest`, `saveSig`, `commit`): one action from one await to the next, since
JavaScript runs that stretch to completion. The two files of the mirror are read one
by one (`LoadControl`), with another refresh's puts in between, and reading them may fail
(`Unreachable`). A task has its own copy of the pin from `ReadPin` on, as the code does: that copy going stale is what makes the
overlapping refreshes interesting. Faults (`outage`, `restart`, `readPin`,
`writePin`, `save`, `evict`, `corrupt`, `redeploy`) are counted together and
bounded. `EnsureReady` has the single flight, `StartRefresh` (install, activate,
the page's message) has none, as in the code.

### HasherPool
Memory is counted in slots and the state in a slot is the sequence of chunks fed
to it. `Taken` and `Popped` are `take()`; a `memory.grow` that throws has already
taken the index (`NewFails`). `Dispose` leaves the slot's contents behind.

### Serving
A request goes `ready`, (`waiting`,) `decide`, `lookup`, `fetch`, `judge`, then
`stream` or `put`, then `answered`; `under` is the manifest its entry was taken
from at `decide`, which may be replaced while it runs. `overlay`, `known` and
`asking` are the page. Incidents are named, and each kind happens at most once.

### Site
`sign` and `verify` again, from the side of the files. The directory is a function
from paths to contents; a page is a sequence of tags, and `InjectSri`,
`InjectImportmap` and `InlineScriptHashes` are what `generators.rs` does to one of
them. A job goes `splice`, one page per action in the order of the keys (865-891),
then `payload`, `sig` and `headers`, one file per action. Every step may be the last
one, and a page, a manifest or a header file may be cut off: of a page the browser
and `scan` then see the first tags, or nothing they can read. `Build` renews any part
of the build's files, after clearing the directory or over what lies there;
`WriteStatement` is `rotate` or `revoke` with an `--out` in the directory, and `revoked`
whether `verify` accepts a revocation that lies there: then it refuses every manifest
there (1137-1161), until the revocation expires. `RekorUploaded` puts the log entry into
the manifest after it was signed, before the header files. `release`
remembers the `sign` that ran to its end and whose files nobody touched since. How a
browser resolves a URL is the constant `Loads`, written apart from
`ResolveSameOrigin` in `MCSite`, so that the two can be compared. `behind` are the
pairs of a page and a file that was renewed without it: only for those may integrity
in a page be that of another file (`generators.rs` 75 leaves it alone).

### Telemetry
A request has the mutex from `Post` to `Answer` and goes through its reports one by one
(`Item`): memory, file, forwarding task. The second it read at its start is in all of
its names. A failed write is ignored, a forward is tried once, `Restart` may cut off
the file being written and drops the forwards under way, a file that a start cannot read
is skipped (77, 82; `unread` counts them), and the clock may be set back.
`Collectors` runs either this server or the relay, as its initial state chooses.

### Directory
What the two servers share: a directory is a function from names to contents, `Overwrite`
is `fs::write`, and `Listings` are the contents in the order of the names. It is a set, of
one sequence for a total order, so that it needs no recursion.

### Auditor, AuditDaemon, Relay
`Auditor` has the findings of each check and `diff`. `AuditDaemon` runs the audit
request by request, over an origin of which a file (`Change`) or a whole release
(`Deploy`) may change between any two of them, then
the state machine of the target and the attempts of `send_alert`. `Relay` numbers
files by the length of its memory, ignores failed writes, and reloads the files
that parse in the order of their names, but for those it cannot read (61, 66; `unread`
counts them). A pull may stop between two files or inside one. Its snapshots are whole
audits (`Auditor!Snapshot`) of what each vantage point was served, and
`SelectiveDeliverySurfaces` is a statement about `Snapshot` and `Diff`: the relay hands it
pairs of audits, but no step of the relay could break it.

## 3. The runs

| run | instance | what it shows |
|---|---|---|
| `sw_serial` | 2 roots, 2 builds with different baked roots, 2 rotations, 2 releases, 1 task, clock 1-2, chain bound 2, two of outage, restart, failed pin write | `PinProtocol` (implements TrustPin), `PinCoversMemory` (nothing is served under a release newer than what a restart will read), `TransitionNeverRejects`; `Heals`, under `FairSpec` |
| `sw_overlap` | 2 tasks, 2 workers, 1 rotation, 4 releases, one of restart, outage, corrupted manifest, redeploy, failed mirror write, unreadable pin, eviction | `ServesOnlySigned`, `PinDescendsFromAnchor`, `PinMovesOrIsLost`, `CoverEndsOnlyByLoss`, `MemoryProtocol`, the type invariant |
| `publisher` | 3 keys, a 2-of-3 root and what is left of it, good, short and stray signers, one of them remote, 2 commands, 2 days | `AcceptsOnlyGated`, `VerifiersAgree`, `ShippedVerifies`, `RevocationLeavesQuorum`, `RevokedNeverCount` |
| `site` | 2 pages, the second in a directory with a script of the same name, an import map, an inline script, a statement that may be an accepted revocation, signs with and without a log upload; a second build with a page that does not scan, a link and a name that differs by case; any 4 commands | `ReleaseVerifies`, `VerifiedPagesLoad`, `ReleaseIsProtected`, `HeadersCoverPages`, the type invariant |
| `serving` | 2 requests, 3 asked in all, 6 paths (script, large Wasm, out of scope, unlisted, navigation, and one that `requestKey` refuses), 2 releases, any one of 9 kinds of incident | `ServesSigned`, `AlarmHasCause`, `RefusedByOtherRelease`, `NoSlotLost`, `DigestsAreOwn`, `UsesThePool` |
| `daemon` | page, script and an injected one, 2 releases, a revocation, 2 changes of the origin, a file or a release at a time, 3 incidents, heartbeat 2 | `AuditTellsTheTruth`, `NetworkNeverPages`, `LastingFailureIsPaged`, `FalseAlarmsEnd` |
| `collectors` | the relay: 2 vantage points, 3 pushes, 1 failed write, 2 files a start cannot read, 2 deaths, 2 pulls; or the telemetry server: 3 reports in requests of 1 or 2, 2 failed writes, 2 failed forwards, 2 files a start cannot read, 2 deaths, 2 seconds | `LossIsBounded`, `SelectiveDeliverySurfaces`; `FilesAreKept`, `OneFaultLosesNothing` |

Five more runs each find one documented claim violated; see section 7.

Why these bounds. The two-client hazards need two tasks or two requests, and the
code has no place where a third would see something a second does not: every
decision reads one stored value and one value of its own. Three versions (1, 2
and the 0 of "no pin") are what an advance, a rollback and an equal version need;
no release expires within the clock of the two passing runs of ServiceWorker; the theorems
hold for any `Lifetime`. Two rotations and a chain bound of 2 give a chain with a middle,
and `MAX_ROTATION_CHAIN` 1 in `sw_overlap` makes the bound bite; there every release has
version 1, and versions that advance are `sw_serial`'s and the theorems'. One fault in
`sw_overlap` reaches every error path from every state, two in `sw_serial` are what a
mirror takes that a restart tears and an outage makes the worker read; what more of them do
is covered for the properties that are proved, which carry no bound. In `publisher`, two commands are
one that leaves something behind and one that runs over it. In `serving`, a deploy
is free and one kind of incident comes on top of it. `MaxReleases` bounds the releases
`ServiceWorker` signs: 2 are an advance, 4 let each of two roots have one in each second. In `site`, four commands are a build, a `sign` that may die, a part of
another build or a statement (which may revoke a key), and a `sign` over all of that; a fifth only repeats one
of them. In `daemon`, two changes are a deploy and its end, or a deviation of two files,
and three failed requests
or attempts use up `send_alert`'s three attempts once. In
`collectors`, three pushes, a failed write and a restart reach the bound of
`LossIsBounded` exactly, and two files that a start could not read cost two snapshots
without any failed write; with the bound of `failures` alone, TLC finds both servers
violating theirs. Three reports, a failed write and a restart
within one second are what `FilesAreKept` needs to tell its two cases apart. TLC reports
that every action of every next-state relation is taken in some passing run.

## 4. Fairness

`ServiceWorker!FairSpec` assumes

* WF of each refresh in progress: promises settle as long as the worker lives;
* SF of `EnsureReady`: pages keep asking. It is strong only because the bound on
  tasks of the instance, which the code does not have, can disable it again and
  again;
* WF of `Deploy` (`SignRelease`, `SwitchRoot` or `Upload`): a deploy or a rotation that
  was begun is finished, and releases go on being signed while the clock allows.

Nothing is assumed of faults, restarts, `Tick` or the page's own refresh message.
`Heals` is stated for workers built with the root that releases are signed with, as
long as the chain on the origin leads there from the stored pin (`ChainCarriesPin`) and
the release that lies there is not older than the pin (`Servable`). Without the first it
is false, also for a worker built with the current root: a chain that starts before the
pin's root is refused at its first statement for good (`sw_mid_chain`), and so is a second
rotation within the second of the first. Without the second it is false as well: an older
release that stays is `ROLLBACK` for good, which is what it should be.

`AuditDaemon!Spec` has WF of `Progress`: the interval timer goes on and requests
end. Incidents are bounded, so "the network works in the end" is built into
`LastingFailureIsPaged` and `FalseAlarmsEnd`, together with their antecedents that the
origin ends deviating for good, or genuine for good.

## 5. What is proved

Every safety property that a passing run checks is also a theorem, for every value of the
constants, but for two: `PinCoversMemory` and `PinProtocol` are of refreshes that do not
overlap, in storage that can be read and is not evicted, which nothing in the code ensures.
What holds without that is proved in their place (`PinMovesOrIsLost`,
`CoverEndsOnlyByLoss`). TLAPS checks them under the named assumptions of the modules
(`ConstantsAssumption`, `PolicyAssumption`, `PublisherAssumption`, `PoolAssumption`,
`SiteAssumption`, `ServingAssumption`, `DaemonAssumption`, `RelayAssumption`,
`TelemetryAssumption`), which give types, say that the special values are not ordinary
ones and, in `RelayAssumption`, that file names are totally ordered. TLC evaluates each of
them in a passing run. Five theorems have a hypothesis of their own, stated with them
below: `BothPublished`, `BuildsAreResolved`, `~GraphOnly`, and `HonestDeployment`.

**ServiceWorkerProofs.** For any number of overlapping refreshes, generations,
rotations and faults:

* `Typing` (`TypeOK`) and `PinnedRootDescends` (`PinDescendsFromAnchor`): the pinned root
  is one that was adopted on first use or one that signed statements lead to from there.
  That is not inductive alone: what is written to the pin is a copy a task made earlier.
  `IInv` adds `StepInv` (which copies a task holds at which step), `TasksDescend` (both
  copies, the one read and the one being walked, descend from an anchor, except a pin
  about to be adopted) and `ChainSigned`. An adoption is an anchor: what the theorem says
  of a worker that cannot read its pin is that it adopts its baked root anew, not that it
  may not, and `sw_pin_unreadable` shows it does.
* `WorkerServesOnlySigned` (`ServesOnlySigned`), `VerifiedIsNeverRejected`
  (`TransitionNeverRejects`) and `MemoryKeepsToProtocol` (`MemoryProtocol`, the refinement
  of WorkerMemory, step by step). `SignedInv` adds `FilesSigned` (the signature
  bundles on the origin and in the mirror are those of signed releases; a manifest there
  may be torn, until `verify` compares the two), `Whole` (a pin's id is that of the root in
  it, also in the copies) and `TasksSigned` (a task's bundle is that of a signed release,
  and past `verify` so is its manifest).

  `ServesOnlySigned` also says the root is one the worker has reason to trust
  (`TrustedMemory`): what is committed was judged under the root of the task's copy of the
  pin, which descends from an anchor by `IInv`.
* `PinMovesOrGetsLost` (`PinMovesOrIsLost`): each step of the stored pin is one of
  TrustPin's, or a write by a refresh whose copy is not what is stored. The invariant is
  `Founded`: what a refresh is about to write is what TrustPin allows for the pin it read,
  `base`, and `Walked`: the links it has applied start from `base`, were published, and
  visit no root twice.
* `CoverEndsByLossAlone` (`CoverEndsOnlyByLoss`): as long as no worker's memory and no
  refresh's copy is ahead of the stored pin, only a lost update or an eviction can bring
  one ahead of it. It follows step by step from `Founded`: before `commit` the version is
  in `base`, and a write that is not lost is to a pin that is `base` and only advances.

**TrustPolicyProofs.** `QuorumBehindVerdict`: behind every verdict that is not a
hard failure there is a threshold of keys of the pinned root, each with a signature
for exactly that message under every active algorithm. `FewerAlgorithmsReach` and
`FewerAlgorithmsAccept`: with fewer algorithms a verifier still reaches what one with
more reached, and judges an accepted manifest alike. `RevocationLeavesThreshold`: an
acceptable revocation leaves a threshold of keys, although the list may repeat keys.

**PublisherProofs.** `Typing`, `OnlyGatedAccepted` (`AcceptsOnlyGated`),
`QuorumSurvivesRevocation` (`RevocationLeavesQuorum`) and `RevokedKeysNeverCount`
(`RevokedNeverCount`). The invariant adds `JobInv` (past the gate, a job's payload is
in `gated` and its bundle was made over it) and `FilesInv` (every bundle on disk was
made over a gated payload of its kind, or is malformed): files of different commands
may be paired, and the argument is that a bundle only reaches the threshold for the
one message it was made over. `ShippedStaysVerifiable` (`ShippedVerifies`) adds what a
running `sign` has written (`SignInv`), that a manifest's bundle is always that of a release
its gate let through (`SigInv`), and that what was shipped lies there untouched
(`ShippedInv`). `EveryVerifierAgrees` (`VerifiersAgree`) rests on `SigInv` and on
`ByKeyFiles`: a key signs with both halves or not at all. Its hypothesis `BothPublished`,
that trust roots publish both algorithms, is what `trust_root_init` writes; a root of one
algorithm is legal, and unreadable to a browser that has only the other.

**SiteProofs.** `Typing` (`TypeOK`), `FinishedSignVerifies` (`ReleaseVerifies`, which
leaves out releases with a log entry and directories with an accepted revocation) and
`FinishedSignCoversPages` (`HeadersCoverPages`), for any pages, builds and number of
commands. The heart is the lemma `InjectTwice`: splicing a spliced page changes
nothing, since a tag with integrity is left alone and an import map without entries
gets none again. The invariant `SiteInv` adds `ReleaseIsSpliced` (every page of a
release with SRI is already what splicing makes of it, so that a later `sign` writes
what is there) and `JobProgress` (what a job past a step has written: the pages that
are done are spliced and hashed, the manifest on disk is its own, and each header file
written so far has the hashes of the pages). `VerifiedPagesAlwaysLoad`
(`VerifiedPagesLoad`) and `FinishedSignProtects` (`ReleaseIsProtected`) add `CurrentInv`:
integrity in any page, also in the half of a page that a death left, is the digest of the
file the browser loads there, or the pair of the page and the file is in `behind`. It
survives a build only if the tool resolves the builds' URLs as a browser does, and the
builds bring no integrity for the site's own files (`BuildsAreResolved`): a URL like
`/a/../b.js` is resolved by the browser alone, and integrity that a build made itself is
nothing `sign` looks at.

**HasherPoolProofs.** `PoolTyping` and `StreamsDoNotMix` (`DigestsAreOwn`). The
invariant adds `Disjoint`: live slots are distinct, free slots are distinct, and no
slot is both; the key lemma is `TakenIsFresh`.

**ServingProofs.** For any site, number of requests and releases: `ServingTyping`,
`ServedIsSigned` (`ServesSigned`), `ServingUsesThePool` (`UsesThePool`, the refinement of
HasherPool) and with it `ServedStreamsDoNotMix` (`DigestsAreOwn`), `PageAgreesWithWorker`
(`RefusedByOtherRelease`), `SlotsComeBack` (`NoSlotLost`) and `NoAlarmWithoutCause`
(`AlarmHasCause`). The invariant `SInv` says of a request at each step what `handle` knows
of it there (`Sound`): from `lookup` on its entry is of a signed release, whatever became
of the worker's manifest since; a stream has fed its hasher a first part of its body; and a
body that is kept has the entry's digest; of the cache it says that an entry answers to the
digest it is kept under. `NoAlarmWithoutCause` adds `PlainWorld`: until something is
deployed, corrupted, refused or asked for that nobody signed, every copy of a file
anywhere is the first release's.

**AuditDaemonProofs.** For any manifest, pages, tags, answers and deploys: `DaemonTyping`
(`TypeOK`), `UndisturbedAuditIsRight` (`AuditTellsTheTruth`) for a daemon that runs its
probes (`~GraphOnly`), and `HonestOriginPagesNoOne` (`NetworkNeverPages`) for an origin that
serves what was signed (`HonestDeployment`, which TLC evaluates for its instance) and a
daemon that pages on critical findings or warnings. The first's invariant, `Undisturbed`,
is that the audit has in hand what the origin serves and its findings are those of the
files it has been through; the second's, `Calm`, follows what is honest through the
audit, the state of the target and the alert.

**CollectorsProofs.** The first half is about any directory that a server fills by the
length of its memory and counts anew at its start. `troubles` are the failed writes and
the files a start could not read. `Bound` says two things: below any index `k` that the
memory has reached, or would have had it read every file that parses (`Reached`), at least
`k - troubles` files parse, and one more while the memory misses some (`Spare`, since a death
then may tear a file that nobody counts); and the answered items that are in no file
together with the files that an index still to come may write over are at most
`troubles * (1 + started)`. The second is what is wanted and needs the first, which is why a
start adds no more than the troubles so far. A write, a failed write and a start
keep it (`StoredKeepsBound`, `FailureKeepsBound`, `StartKeepsBound`). From that:
`RelayTyping` and `LossStaysBounded` (`LossIsBounded`) of the relay; of the telemetry server
`TelemetryTyping` (`TelemetryTypeOK`), `ReportsStayInFiles` (`FilesAreKept`), where
`NamesArePassed` adds that a taken name has a second of before the start or an index that
is passed, and `OneFaultIsSurvived` (`OneFaultLosesNothing`), which counts the reports of the
request under way as answered. `SelectiveDeliveryAlwaysSurfaces`
(`SelectiveDeliverySurfaces`) is a lemma on snapshots: one that was not graph-only keeps
the bytes it was served.

Only model-checked: `PinCoversMemory` and `PinProtocol`, as said above, and the
liveness properties `Heals`, `LastingFailureIsPaged` and
`FalseAlarmsEnd`, since liveness under fairness and ENABLED are out of TLAPS's reach.

## 6. Abstractions

* *All.* Keys, roots and bundles are values and sets: encodings, canonical order and
  JSON parsing are left out, a file that does not parse is one value. Versions and
  times are small naturals, so the overflow of a `u64` is out of the model.
* *ServiceWorker.* One release per tick of the clock and root. A rotation
  statement and its signature appear at once, and only statements and bundles the
  command line would write are served: roots share no key and bundles reach the
  threshold (what else a verifier may be handed is TrustPolicy's subject). A worker
  built without a trust root is left out. Redeploying an older release and corrupting
  the manifest stand for what an origin may do by mistake.
* *Publisher.* Time is in days. A signer that fails makes the command do nothing.
  The asset table is the build and whether SRI is in it.
* *Site.* A content stands for its digests, so two files are the same content or
  differ in all of them. A sign has enough good signers or not, and `verify` of a
  manifest that a sign of this directory wrote is a comparison of what the bundle was
  made over, unless a revocation that it accepts lies there: `revoked` stands for that, and
  which keys it names and until when is the subject of Publisher. A URL is its host and its
  components: percent-encoding, NFC, queries and fragments are left out, and so is the
  syntax of attributes. Integrity that a build
  tool wrote itself is put on a cross-origin tag only. A statement is one file.
  Changes to the directory while a command runs are left out, and so are header files
  written into it.
* *Telemetry.* Both `--out-dir` and `--webhook-url` are given. Names are ordered as
  numbers where the code orders strings, which nothing but the order of the memory
  depends on. A forward that the webhook took too late counts as failed.
* *Serving.* One page, GET requests. A body and its digest are one value, so are
  content type and class; a size differs only when the digest does. Redirects
  are never followed by the worker's fetch. Messages are handled by the page at once.
* *Auditor.* No Rekor entries; a tag's reference is a key or cross-origin. *AuditDaemon.* One target, assets in any order (the code has
  the manifest's), the heartbeat in intervals and capped at its period. The push to a
  relay, whose outcome the daemon ignores, is left out. `HonestDeployment` is the reference
  for "what was signed": files that an independent definition, not `audit`, finds in order.
* *Relay.* A start that cannot read the directory is one that cannot read any of its
  files. One mutex covers a request, so it is one action. The token check and the
  domain filter change nothing. The order of file names is a constant, `NamedBefore`.

## 7. Where the code and its documents part

Found by a run, each listed under `findings`:

* `sw_pin_goes_back`: two overlapping refreshes write an older version over a newer
  pin (`veil-guard-sw.js` 164 to 227; `SPEC.md` 426).
* `sw_pin_unreadable`: one failed read of IndexedDB is taken for first use, and the
  worker pins its baked root with rotation version 0 (91; `src/runtime.rs` 92-94).
* `sw_mid_chain`: a client pinned in the middle of a chain is refused at statement 0
  and never walks on, although a later statement would apply (`veilguard-policy.mjs` 218; its own comment at 208).
* `publisher_remaining_quorum`: with a revocation in force, a manifest signed by a
  quorum of the remaining keys is `UNTRUSTED_ROOT`, as its root's id is compared with
  that of the filtered root (`manifest.rs` 221; `SPEC.md` 693).
* `publisher_rekor_upload`: after a log upload the manifest is rewritten and not signed
  again, so that what `sign` ends with is `TAMPERED` (`main.rs` 1040, after the comment at
  995: "Refuse to ship a manifest this build would itself reject"; `README.md` 368-370).

Met while modelling, in the models as the code has them, and not given a run:

* A mirror torn between its two puts, met by an outage, is judged `TAMPERED`
  (`saveControl` 121-129), although an outage should not look like an attack. `Heals`
  shows that it passes.
* `EXPIRED` is never revalidated by a navigation: `ensureReady` returns at once for it
  (252), where `SPEC.md` 586 asks for it.
* A rotation's version is compared with the rotation counter only (`manifest.rs` 293),
  not with the pinned release's version as `SPEC.md` 644-647 has it, and the cycle check
  does not know where the walk started (`SPEC.md` 649).
* A body that matched is not served when Cache Storage is full: `handle` awaits
  `cache.put` and catches nothing (`veil-guard-sw.js` 455; `SPEC.md` 607).
* `audit --rekor-lookup` cannot confirm an entry that `sign --rekor-upload` recorded: the
  manifest it is recorded in is refused before the lookup (`auditor.rs` 344, 379;
  `README.md` 370).
* A rotation or revocation statement written into the build directory after `sign`, as
  `README.md` 284 does it, is UNSIGNED to `verify`: a scan leaves out the manifest and its
  bundle only (`scanner.rs` 11-16). Header files written there have the same fate.
* The worker checks the order of the assets with `<` on JavaScript strings, by UTF-16 code
  unit (`veilguard-verify.mjs` 251), where `SPEC.md` 379 and the Rust side (`scanner.rs` 139,
  `manifest.rs` 129) have the order of the UTF-8 bytes. A release with one name beyond the
  BMP (`/😀.js`) and one between U+E000 and U+FFFF (`/！.js`) passes the gate of `sign` and
  `verify`, and every browser finds it `TAMPERED`. No model spells a name:
  `VerifiersAgree` holds for names that sort alike in both orders.
* A file with a percent sign in its name is scanned, and refused by the gate (`manifest.rs`
  125), after the pages were rewritten and with a message about the number of signers
  (`main.rs` 998). In Site this is a `sign` with `enough` false.
* `sign --no-sri --headers-out` writes header files without any page in them, since
  pages are only collected while SRI is put in (`main.rs` 847-887).
* `headers_caddy` names a matcher by the path with every other character as `_`, so
  that `/a-b.html` and `/a_b.html` get one name (`generators.rs` 432).
* `sign` rewrites the HTML before the gate decides whether there will be a manifest.
* A revocation may be signed by the keys it revokes.
* The loader keeps the first manifest it was given (152) and refuses, after a deploy,
  a Wasm module its worker verified; a message about an unreachable origin clears an
  overlay that a blocked resource had raised (139-141).
* The auditor asks the audited origin itself for revocations and goes on without them
  when that fails (`auditor.rs` 301), where `SPEC.md` 699 has them out of band; it also
  remembers no revocation version (311).
* A critical finding is lost when a later request of the same audit fails (463, 541).

## 8. Not modelled

* `keygen`, `trust-root`, `runtime`: one file written from the arguments.
* `audit`, `relay`, `diff` commands: arguments around operations that are modelled.
* `runtime.rs`: concatenates the worker's files.
* Percent-decoding and NFC in `paths.rs`, the attribute parser in `html.rs`: sequential
  text algorithms with unit tests.
* `kms.rs`, `vault.rs`: remote signers, of which the publisher's model has the outcomes.
* `rekor.rs`: the publisher's model has the outcomes of an upload; the lookup by the
  auditor is left out, as no manifest with an entry in it verifies (section 7).

## 9. Plan

Done: TrustPolicy, ServiceWorker with TrustPin and WorkerMemory, Publisher,
HasherPool, Serving, Auditor, AuditDaemon, Relay, Telemetry, Site; their runs; theorems for
every safety property of theirs that does not rest on a hypothesis the code leaves open, and
three refinements.

Next, in this order:

1. A run for a revocation that is served again after it was replaced, with the auditor
   that remembers no version of it (section 7).
2. Theorems on `Auditor` by itself: what `diff` finds between any two snapshots, and that it
   finds as much the other way round; that no finding of an audit is without a file that
   deviates.
3. What the liveness properties rest on, as action properties that can be proved: that a
   refresh which ends leaves no single flight behind, that an alert which is not delivered
   is tried again at the next tick.
4. Request keys (`paths.rs` and its twin in `veilguard-verify.mjs`) as a pure module.
