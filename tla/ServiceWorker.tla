--------------------------- MODULE ServiceWorker ---------------------------
(***************************************************************************)
(* The control plane of the Tier 1 worker: refresh() and ensureReady() of  *)
(* runtime/veil-guard-sw.js with the pin and rotation rules of             *)
(* runtime/veilguard-policy.mjs.                                           *)
(*                                                                         *)
(* A refresh is a task that runs from one await to the next; JavaScript    *)
(* runs such a stretch to completion, so each is one action.  The tasks of *)
(* one worker, and of two generations of the worker script, interleave:    *)
(* they share the pin (IndexedDB) and the mirror (Cache Storage), while    *)
(* what a worker decided is in its memory, which a restart loses.          *)
(*                                                                         *)
(* A manifest is its version, the root it names, and whether its bytes are *)
(* the ones that were signed; a signature bundle is the manifest it was    *)
(* made for.  Distinct roots share no key, and every bundle reaches the    *)
(* threshold of its root, since the command line writes no other.  The     *)
(* threshold check itself is module TrustPolicy.                           *)
(***************************************************************************)
EXTENDS Naturals, Sequences, FiniteSets

CONSTANTS
    Roots,          \* trust roots; a root is identified with its id
    FirstRoot,      \* the root the publisher starts with
    Workers,        \* generations of the worker script
    Baked,          \* the root built into each generation
    Tasks,          \* the calls of refresh() that may run at once
    Lifetime,       \* not_after - version
    MAX_ROTATION_CHAIN,
    MaxClock,       \* bound: the clock stops here
    MaxReleases,    \* bound on the releases signed
    MaxRotations,   \* bound on the rotation statements signed
    FaultKinds,     \* which faults may happen, a subset of Faults
    MaxFaults,      \* bound on how many of them happen
    NoManifest, NoPin, NoTask

VARIABLES
    clock,          \* Unix time
    origin,         \* the release being served and the two control files
    chain,          \* the rotation statements served, by index
    current,        \* the root the publisher signs releases with
    signed,         \* history: every release signed
    statements,     \* history: every rotation statement signed
    pin,            \* IndexedDB, key 'current'
    mirror,         \* the two control files in Cache Storage
    anchors,        \* history: every root adopted on first use
    memory,         \* the `state` of each worker
    readying,       \* the single flight of ensureReady, per worker
    task,           \* the refreshes that are running
    faults          \* how many faults have happened

publisher == <<origin, chain, current, signed, statements>>
storage   == <<pin, mirror, anchors>>
vars == <<clock, publisher, storage, memory, readying, task, faults>>

HardStates == {"TAMPERED", "ROLLBACK", "UNTRUSTED_ROOT", "UNSUPPORTED"}
SoftStates == {"VALID", "EXPIRED", "NETWORK_FAIL"}
Faults == {"outage", "restart", "readPin", "writePin", "save", "evict",
           "corrupt", "redeploy"}

Version   == 0 .. MaxClock
Manifest  == [version: Version, root: Roots, genuine: BOOLEAN]
Statement == [from: Roots, to: Roots, version: Version]
Pin       == [trustRootId: Roots, trustRoot: Roots, version: Version,
              rotationVersion: Version]
File      == Manifest \cup {NoManifest}
Steps     == {"fetch", "mirror", "readPin", "walk", "writeRotation", "verify",
              "writePin", "saveManifest", "saveSig", "commit"}
\* `walked` is the pin as it was read, then as far as the chain has moved it;
\* `pin` is what the rest of refresh() works with; `base` is history: the stored
\* pin as this refresh last read or wrote it.
Task == [worker: Workers, step: Steps, manifest: File, sig: File,
         fromCache: BOOLEAN, pin: Pin \cup {NoPin}, walked: Pin \cup {NoPin},
         base: Pin \cup {NoPin}, index: Nat, applied: SUBSET Roots, verdict: HardStates \cup SoftStates]

ASSUME ConstantsAssumption ==
    /\ FirstRoot \in Roots
    /\ Baked \in [Workers -> Roots]
    /\ MaxClock \in Nat \ {0}
    /\ Lifetime \in Nat /\ MaxRotations \in Nat /\ MaxFaults \in Nat
    /\ MaxReleases \in Nat
    /\ MAX_ROTATION_CHAIN \in Nat \ {0}
    /\ FaultKinds \subseteq Faults
    /\ NoManifest \notin Manifest /\ NoTask \notin Task
    /\ NoPin \notin Pin \cup [root: Roots, version: Version, rotationVersion: Version]

----------------------------------------------------------------------------
(* The rules of veilguard-policy.mjs and veilguard-verify.mjs.             *)

IsHardFailure(state) == state \in HardStates

\* Mutant: nobody compares the bytes with what was signed.
VerifyManifestAnyBytes(manifest, sig, root, pinnedVersion) ==
    IF sig.root # root THEN "UNTRUSTED_ROOT"
    ELSE IF manifest.version < pinnedVersion THEN "ROLLBACK"
    ELSE "VALID"

\* A bundle made for another root holds no signature of a pinned key, so no
\* signer qualifies; one made by the pinned keys for other bytes holds
\* signatures that are present and fail.
VerifyManifest(manifest, sig, root, pinnedVersion) ==
    IF sig.root # root THEN "UNTRUSTED_ROOT"
    ELSE IF manifest # sig THEN "TAMPERED"
    ELSE IF manifest.version < pinnedVersion THEN "ROLLBACK"
    ELSE IF clock > manifest.version + Lifetime THEN "EXPIRED"
    ELSE "VALID"

\* Mutant: a statement already used is accepted again.
RotationAcceptedAnyVersion(st, p) == st.from = p.trustRoot

\* verifyRotation of a genuine statement.
RotationAccepted(st, p) ==
    /\ st.from = p.trustRoot
    /\ st.version > p.rotationVersion

Rotated(p, st) == [p EXCEPT !.trustRootId = st.to, !.trustRoot = st.to,
                            !.rotationVersion = st.version]

\* Mutant: the first pin is stored without its rotation counter.
AdoptedWithoutRotation(root, m) ==
    [trustRootId |-> m.root, trustRoot |-> root, version |-> m.version]

Adopted(root, m) == [trustRootId |-> m.root, trustRoot |-> root,
                     version |-> m.version, rotationVersion |-> 0]

\* Mutant: the first manifest is accepted without a pin being recorded.
PinTransitionUnrecorded(p, m) ==
    IF p = NoPin THEN "unchanged"
    ELSE IF p.trustRootId # m.root THEN "trust-root-changed-without-rotation"
    ELSE IF m.version < p.version THEN "rollback"
    ELSE IF m.version > p.version THEN "advance"
    ELSE "unchanged"

PinTransition(p, m) ==
    IF p = NoPin THEN "adopt"
    ELSE IF p.trustRootId # m.root THEN "trust-root-changed-without-rotation"
    ELSE IF m.version < p.version THEN "rollback"
    ELSE IF m.version > p.version THEN "advance"
    ELSE "unchanged"

----------------------------------------------------------------------------
ColdMemory == [state |-> "NETWORK_FAIL", manifest |-> NoManifest]
EmptyMirror == [manifest |-> NoManifest, sig |-> NoManifest]
FirstRelease == [version |-> 1, root |-> FirstRoot, genuine |-> TRUE]
NewTask(w) == [worker |-> w, step |-> "fetch", manifest |-> NoManifest,
               sig |-> NoManifest, fromCache |-> FALSE, pin |-> NoPin,
               walked |-> NoPin, base |-> NoPin, index |-> 0, applied |-> {},
               verdict |-> "NETWORK_FAIL"]

\* What ensureReady() looks at before it lets a request through.
Ready(w) == memory[w].manifest # NoManifest /\ ~IsHardFailure(memory[w].state)

At(t, steps) == task[t] # NoTask /\ task[t].step \in steps

\* The root a refresh verifies against: pin?.trustRoot ?? BAKED_TRUST_ROOT.
RootOf(t) == IF task[t].pin = NoPin THEN Baked[task[t].worker]
             ELSE task[t].pin.trustRoot

\* Mutant: the verification is not told the pinned version.
NoPinnedVersion(t) == 0

PinnedVersion(t) == IF task[t].pin = NoPin THEN 0 ELSE task[t].pin.version

\* The state refresh() settles on once it has the two files and the pin.
Judgement(t) ==
    LET m == task[t].manifest
        v == VerifyManifest(m, task[t].sig, RootOf(t), PinnedVersion(t))
    IN  IF IsHardFailure(v) THEN v
        ELSE CASE PinTransition(task[t].pin, m) = "rollback" -> "ROLLBACK"
               [] PinTransition(task[t].pin, m) = "trust-root-changed-without-rotation"
                    -> "UNTRUSTED_ROOT"
               [] OTHER -> v

Fault(kind) == /\ kind \in FaultKinds
               /\ faults < MaxFaults
               /\ faults' = faults + 1
NoFault == UNCHANGED faults

Init ==
    /\ clock = 1
    /\ origin = [release |-> FirstRelease, manifest |-> FirstRelease,
                 sig |-> FirstRelease]
    /\ chain = <<>> /\ current = FirstRoot
    /\ signed = {FirstRelease} /\ statements = {}
    /\ pin = NoPin /\ mirror = EmptyMirror /\ anchors = {}
    /\ memory = [w \in Workers |-> ColdMemory]
    /\ readying = [w \in Workers |-> NoTask]
    /\ task = [t \in Tasks |-> NoTask]
    /\ faults = 0

----------------------------------------------------------------------------
(* The publisher and the origin.                                           *)

Tick == /\ clock < MaxClock
        /\ clock' = clock + 1
        /\ UNCHANGED <<publisher, storage, memory, readying, task, faults>>

Deployed == origin.manifest = origin.release /\ origin.sig = origin.release

\* `veil-guard sign`: the version is the clock.  The two files it writes reach
\* the origin one at a time.
SignRelease ==
    LET m == [version |-> clock, root |-> current, genuine |-> TRUE]
    IN  /\ Deployed /\ m \notin signed /\ Cardinality(signed) < MaxReleases
        /\ signed' = signed \cup {m}
        /\ origin' = [origin EXCEPT !.release = m]
        /\ UNCHANGED <<clock, chain, current, statements, storage, memory,
                       readying, task, faults>>

Redeploy(m) == /\ Deployed /\ Fault("redeploy")
               /\ m \in signed \ {origin.release}
               /\ origin' = [origin EXCEPT !.release = m]
               /\ UNCHANGED <<clock, chain, current, signed, statements,
                              storage, memory, readying, task>>

\* A manifest that arrives damaged; the deploy goes on until it is whole.
Corrupt == /\ Fault("corrupt") /\ origin.manifest # origin.release
           /\ origin' = [origin EXCEPT !.manifest =
                            [origin.release EXCEPT !.genuine = FALSE]]
           /\ UNCHANGED <<clock, chain, current, signed, statements,
                          storage, memory, readying, task>>

Upload(file) == /\ origin[file] # origin.release
                /\ origin' = [origin EXCEPT ![file] = origin.release]
                /\ UNCHANGED <<clock, chain, current, signed, statements,
                               storage, memory, readying, task, faults>>

Tip == IF chain = <<>> THEN FirstRoot ELSE chain[Len(chain)].to

\* `veil-guard rotate`: the operator adds the statement to the chain, or puts
\* it in the place of the whole chain.
PublishRotation(to) ==
    LET st == [from |-> Tip, to |-> to, version |-> clock]
    IN  /\ to # Tip /\ st \notin statements
        /\ Cardinality(statements) < MaxRotations
        /\ statements' = statements \cup {st}
        /\ chain' \in {Append(chain, st), <<st>>}
        /\ UNCHANGED <<clock, origin, current, signed, storage, memory,
                       readying, task, faults>>

\* From here on releases are signed with the root the chain ends in.
SwitchRoot == /\ current # Tip
              /\ current' = Tip
              /\ UNCHANGED <<clock, origin, chain, signed, statements, storage,
                             memory, readying, task, faults>>

Publish == \/ SignRelease \/ SwitchRoot
           \/ \E m \in signed : Redeploy(m)
           \/ Corrupt
           \/ \E file \in {"manifest", "sig"} : Upload(file)
           \/ \E to \in Roots : PublishRotation(to)

----------------------------------------------------------------------------
(* refresh(), from await to await.                                         *)

world == <<clock, publisher, faults>>

Update(t, tk) == task' = [task EXCEPT ![t] = tk]
Goto(t, step) == Update(t, [task[t] EXCEPT !.step = step])

Start(w, t) == task[t] = NoTask /\ Update(t, NewTask(w))

\* install, activate, and the veil-guard:refresh message.
StartRefresh(w, t) == /\ Start(w, t)
                      /\ UNCHANGED <<world, storage, memory, readying>>

\* A request that finds no usable manifest waits for one shared refresh.
EnsureReady(w, t) == /\ ~Ready(w) /\ readying[w] = NoTask
                     /\ Start(w, t)
                     /\ readying' = [readying EXCEPT ![w] = t]
                     /\ UNCHANGED <<world, storage, memory>>

\* Mutant: the single flight is not cleared.
FinishWithoutFinally(t) == /\ task' = [task EXCEPT ![t] = NoTask]
                           /\ UNCHANGED readying

\* The refresh returns or throws; finally() clears the single flight.
Finish(t) ==
    /\ Update(t, NoTask)
    /\ readying' = [w \in Workers |-> IF readying[w] = t THEN NoTask
                                                          ELSE readying[w]]

\* The two control files are fetched in parallel.
Fetch(t, file) ==
    /\ At(t, {"fetch"}) /\ task[t][file] = NoManifest
    /\ Update(t, [task[t] EXCEPT
         ![file] = origin[file],
         !.step = IF task[t].manifest = NoManifest /\ task[t].sig = NoManifest
                  THEN "fetch" ELSE "readPin"])
    /\ UNCHANGED <<world, storage, memory, readying>>

FetchFails(t) ==
    /\ At(t, {"fetch"}) /\ Fault("outage")
    /\ Update(t, [task[t] EXCEPT !.step = "mirror", !.manifest = NoManifest,
                                 !.sig = NoManifest])
    /\ UNCHANGED <<clock, publisher, storage, memory, readying>>

\* loadControl() reads the two files beside each other, and another refresh may
\* save its own in between.
LoadControl(t, file) ==
    /\ At(t, {"mirror"})
    /\ task[t][file] = NoManifest /\ mirror[file] # NoManifest
    /\ Update(t, [task[t] EXCEPT
         ![file] = mirror[file],
         !.fromCache = TRUE,
         !.step = IF task[t].manifest = NoManifest /\ task[t].sig = NoManifest
                  THEN "mirror" ELSE "readPin"])
    /\ UNCHANGED <<world, storage, memory, readying>>

\* Nothing in the mirror either, or an error while it is read, which loadControl()
\* swallows: what the worker already knew stands.
Unreachable(t) ==
    /\ At(t, {"mirror"})
    /\ LET w == task[t].worker
       IN  memory' = [memory EXCEPT ![w].state =
             IF memory[w].manifest # NoManifest THEN @ ELSE "NETWORK_FAIL"]
    /\ Finish(t)
    /\ UNCHANGED <<world, storage>>

\* readPin() turns every error of IndexedDB into "there is no pin".
ReadPin(t) ==
    /\ At(t, {"readPin"})
    /\ \E p \in {pin, NoPin} :
         /\ IF p = pin THEN NoFault ELSE Fault("readPin")
         /\ Update(t, [task[t] EXCEPT
              !.pin = p, !.walked = p, !.base = p,
              !.step = IF p # NoPin /\ p.trustRootId # Baked[task[t].worker]
                       THEN "walk" ELSE "verify"])
    /\ UNCHANGED <<clock, publisher, storage, memory, readying>>

LinkServed(t) == task[t].index < MAX_ROTATION_CHAIN
                 /\ task[t].index < Len(chain)

\* One turn of the loop of applyRotationChain() that moves on.
LinkApplies(t) ==
    LET st == chain[task[t].index + 1]
    IN  /\ LinkServed(t)
        /\ RotationAccepted(st, task[t].walked)
        /\ st.to \notin task[t].applied

WalkLink(t) ==
    /\ At(t, {"walk"}) /\ LinkApplies(t)
    /\ LET st == chain[task[t].index + 1]
       IN  Update(t, [task[t] EXCEPT !.walked = Rotated(@, st),
                                     !.applied = @ \cup {st.to},
                                     !.index = @ + 1])
    /\ UNCHANGED <<world, storage, memory, readying>>

\* Mutant: a refused walk falls back to the root the worker was built with.
WalkRefusedTrustsBaked(t) ==
    /\ At(t, {"walk"}) /\ LinkServed(t) /\ ~LinkApplies(t)
    /\ LET root == Baked[task[t].worker]
       IN  Update(t, [task[t] EXCEPT !.step = "writeRotation",
                                     !.pin.trustRoot = root,
                                     !.pin.trustRootId = root])
    /\ UNCHANGED <<world, storage, memory, readying>>

\* A statement that is refused discards the links before it as well.
WalkRefused(t) ==
    /\ At(t, {"walk"}) /\ LinkServed(t) /\ ~LinkApplies(t)
    /\ Goto(t, "verify")
    /\ UNCHANGED <<world, storage, memory, readying>>

\* fetchStatement() returns null at the end of the chain, and on any error.
WalkEnds(t) ==
    /\ At(t, {"walk"})
    /\ IF LinkServed(t) THEN Fault("outage") ELSE NoFault
    /\ IF task[t].applied = {}
         THEN Goto(t, "verify")
         ELSE Update(t, [task[t] EXCEPT !.step = "writeRotation",
                                        !.pin = task[t].walked])
    /\ UNCHANGED <<clock, publisher, storage, memory, readying>>

WriteRotation(t) ==
    /\ At(t, {"writeRotation"})
    /\ pin' = task[t].pin
    /\ Update(t, [task[t] EXCEPT !.base = task[t].pin, !.step = "verify"])
    /\ UNCHANGED <<world, mirror, anchors, memory, readying>>

\* Mutant: only the state is set, and the manifest stays.
RefuseManifestKeeping(t) ==
    /\ At(t, {"verify"}) /\ IsHardFailure(Judgement(t))
    /\ memory' = [memory EXCEPT ![task[t].worker].state = Judgement(t)]
    /\ Finish(t)
    /\ UNCHANGED <<world, storage>>

RefuseManifest(t) ==
    /\ At(t, {"verify"}) /\ IsHardFailure(Judgement(t))
    /\ memory' = [memory EXCEPT ![task[t].worker] =
                    [state |-> Judgement(t), manifest |-> NoManifest]]
    /\ Finish(t)
    /\ UNCHANGED <<world, storage>>

AcceptManifest(t) ==
    LET m == task[t].manifest
        p == task[t].pin
        transition == PinTransition(p, m)
    IN  /\ At(t, {"verify"}) /\ ~IsHardFailure(Judgement(t))
        /\ Update(t, [task[t] EXCEPT
             !.verdict = Judgement(t),
             !.pin = CASE transition = "adopt" -> Adopted(RootOf(t), m)
                       [] transition = "advance" ->
                            [p EXCEPT !.version = m.version,
                                      !.trustRoot = RootOf(t)]
                       [] OTHER -> p,
             !.step = IF transition # "unchanged" THEN "writePin"
                      ELSE IF task[t].fromCache THEN "commit"
                      ELSE "saveManifest"])
        /\ UNCHANGED <<world, storage, memory, readying>>

WritePin(t) ==
    /\ At(t, {"writePin"})
    /\ pin' = task[t].pin
    /\ anchors' = IF task[t].walked = NoPin
                  THEN anchors \cup {task[t].pin.trustRoot} ELSE anchors
    /\ Update(t, [task[t] EXCEPT
         !.base = task[t].pin,
         !.step = IF task[t].fromCache THEN "commit" ELSE "saveManifest"])
    /\ UNCHANGED <<world, mirror, memory, readying>>

\* Mutant: writePin() swallows its errors, as readPin() does.
WriteFailsSilently(t) ==
    /\ At(t, {"writeRotation", "writePin"}) /\ Fault("writePin")
    /\ Goto(t, IF task[t].step = "writePin" THEN "commit" ELSE "verify")
    /\ UNCHANGED <<clock, publisher, storage, memory, readying>>

\* writePin() does not catch: refresh() throws.
WriteFails(t) ==
    /\ At(t, {"writeRotation", "writePin"}) /\ Fault("writePin")
    /\ Finish(t)
    /\ UNCHANGED <<clock, publisher, storage, memory>>

\* saveControl(): one put after the other, an error is swallowed.
SaveManifest(t) ==
    /\ At(t, {"saveManifest"})
    /\ mirror' = [mirror EXCEPT !.manifest = task[t].manifest]
    /\ Goto(t, "saveSig")
    /\ UNCHANGED <<world, pin, anchors, memory, readying>>

SaveSig(t) ==
    /\ At(t, {"saveSig"})
    /\ mirror' = [mirror EXCEPT !.sig = task[t].sig]
    /\ Goto(t, "commit")
    /\ UNCHANGED <<world, pin, anchors, memory, readying>>

SaveFails(t) ==
    /\ At(t, {"saveManifest", "saveSig"}) /\ Fault("save")
    /\ Goto(t, "commit")
    /\ UNCHANGED <<clock, publisher, storage, memory, readying>>

Commit(t) ==
    /\ At(t, {"commit"})
    /\ memory' = [memory EXCEPT ![task[t].worker] =
                    [state |-> task[t].verdict, manifest |-> task[t].manifest]]
    /\ Finish(t)
    /\ UNCHANGED <<world, storage>>

Refresh(t) ==
    \/ \E file \in {"manifest", "sig"} : Fetch(t, file)
    \/ \E file \in {"manifest", "sig"} : LoadControl(t, file)
    \/ Unreachable(t)
    \/ ReadPin(t)
    \/ WalkLink(t) \/ WalkRefused(t) \/ WalkEnds(t) \/ WriteRotation(t)
    \/ RefuseManifest(t) \/ AcceptManifest(t) \/ WritePin(t)
    \/ SaveManifest(t) \/ SaveSig(t) \/ Commit(t)

----------------------------------------------------------------------------
(* The browser.                                                            *)

\* The browser ends a worker whenever it likes, with all it was doing.
Restart(w) ==
    /\ Fault("restart")
    /\ memory' = [memory EXCEPT ![w] = ColdMemory]
    /\ readying' = [readying EXCEPT ![w] = NoTask]
    /\ task' = [t \in Tasks |-> IF task[t] # NoTask /\ task[t].worker = w
                                THEN NoTask ELSE task[t]]
    /\ UNCHANGED <<clock, publisher, storage>>

\* Storage pressure, or the user clearing the site's data.
Evict ==
    /\ Fault("evict")
    /\ pin' = NoPin /\ mirror' = EmptyMirror
    /\ UNCHANGED <<clock, publisher, anchors, memory, readying, task>>

Next ==
    \/ Tick \/ Publish \/ Evict
    \/ \E w \in Workers : Restart(w)
    \/ \E w \in Workers, t \in Tasks : StartRefresh(w, t) \/ EnsureReady(w, t)
    \/ \E t \in Tasks : Refresh(t) \/ FetchFails(t) \/ WriteFails(t) \/ SaveFails(t)

Spec == Init /\ [][Next]_vars

\* What a publisher does to finish a deploy or a rotation that was begun.
Deploy == SignRelease \/ SwitchRoot \/ \E file \in {"manifest", "sig"} : Upload(file)

\* A refresh goes on by itself, pages keep asking their worker for something
\* (strongly fair: the bound on tasks must not keep a request out for good),
\* and a publisher goes on with what it began.
Fairness ==
    /\ \A t \in Tasks : WF_vars(Refresh(t))
    /\ \A w \in Workers : SF_vars(\E t \in Tasks : EnsureReady(w, t))
    /\ WF_vars(Deploy)

FairSpec == Spec /\ Fairness

----------------------------------------------------------------------------
(* What a worker and its pin guarantee however refreshes interleave.       *)

\* Every variable stays in the set of values the code can put in it.
TypeOK ==
    /\ clock \in Version
    /\ origin \in [release: Manifest, manifest: Manifest, sig: Manifest]
    /\ chain \in Seq(Statement) /\ current \in Roots
    /\ signed \subseteq Manifest /\ statements \subseteq Statement
    /\ pin \in Pin \cup {NoPin}
    /\ mirror \in [manifest: File, sig: File]
    /\ anchors \subseteq Roots
    /\ memory \in [Workers -> [state: HardStates \cup SoftStates, manifest: File]]
    /\ readying \in [Workers -> Tasks \cup {NoTask}]
    /\ task \in [Tasks -> Task \cup {NoTask}]
    /\ faults \in Nat

\* The roots that signed rotation statements lead to from an adopted root.
ClosedUnderRotation(S) == \A st \in statements : st.from \in S => st.to \in S
Trusted(root) == \A S \in SUBSET Roots :
                   anchors \subseteq S /\ ClosedUnderRotation(S) => root \in S

\* A worker only ever serves from a release that was signed as a whole, under a
\* root that it trusts, whatever torn or corrupted pair of files the origin or
\* the mirror handed it and whatever overlapping refreshes did to the pin; and
\* it never holds a manifest next to a verdict that forbids using it.
ServesOnlySigned ==
    \A w \in Workers : memory[w].manifest # NoManifest =>
        /\ memory[w].manifest \in signed
        /\ Trusted(memory[w].manifest.root)
        /\ memory[w].state \in {"VALID", "EXPIRED"}

Memory(w) == INSTANCE WorkerMemory WITH memory <- memory[w]

\* What serving a request relies on (module Serving): seen from a request, the
\* refreshes of its worker, overlapping as they may, only ever accept a signed
\* manifest, refuse and forget, or find nothing and leave what was there.
MemoryProtocol ==
    /\ \A w \in Workers : Memory(w)!Init
    /\ [][\A w \in Workers : [Memory(w)!Next]_<<memory[w], signed>>]_vars

\* The pinned root is one adopted on first use or one that signed statements
\* lead to from there, in every interleaving, restart and failed write: no
\* walk that was abandoned half way, and no worker built with another root,
\* leaves the pin anywhere else.
PinDescendsFromAnchor == pin # NoPin => Trusted(pin.trustRoot)

\* Once verifyManifest has accepted, pinTransition has nothing left to refuse:
\* its two `reject` branches repeat what the verification settled with the
\* same pin, also after a walk has replaced the pin in between.
TransitionNeverRejects ==
    \A t \in Tasks : At(t, {"verify"}) =>
        LET m == task[t].manifest
        IN  ~IsHardFailure(VerifyManifest(m, task[t].sig, RootOf(t),
                                          PinnedVersion(t)))
            => PinTransition(task[t].pin, m) \in {"adopt", "advance", "unchanged"}

----------------------------------------------------------------------------
(* The stored pin.  Nothing in the code keeps refreshes from overlapping: a  *)
(* refresh writes what it made of the pin it read, whatever became of it.    *)

\* A write by a refresh that no longer knows what is stored: another refresh
\* wrote since it read the pin, or its read failed, or the pin was evicted.
LostUpdate == \E t \in Tasks : /\ task[t] # NoTask /\ task[t].base # pin
                              /\ (WriteRotation(t) \/ WritePin(t))

AbstractPin == INSTANCE TrustPin WITH
    MaxLinks <- MAX_ROTATION_CHAIN,
    Unpinned <- NoPin,
    pin <- IF pin = NoPin THEN NoPin
           ELSE [root |-> pin.trustRoot, version |-> pin.version,
                 rotationVersion |-> pin.rotationVersion],
    signed <- {[version |-> m.version, root |-> m.root] : m \in signed}

\* The promise of SPEC.md 6.5 and 9.1, as far as the code keeps it: restarts,
\* outages, torn mirrors, failed reads and writes, evictions and refreshes that
\* overlap never move the pin any other way, except by a lost update.
PinMovesOrIsLost ==
    /\ AbstractPin!Init
    /\ [][LostUpdate \/ AbstractPin!Next]_AbstractPin!vars

\* Refreshes that do not overlap and can read the pin keep the promise itself.
PinProtocol == AbstractPin!Spec

Covered(version) == pin # NoPin /\ version <= pin.version

\* Rollback protection is durable before it is relied on: what any worker
\* serves from is never newer than the pin that a restarted worker will read.
\* (Refreshes that do not overlap, in storage that is not evicted.)
PinCoversMemory ==
    \A w \in Workers : memory[w].manifest # NoManifest =>
        Covered(memory[w].manifest.version)

\* Nor is any refresh ahead of the stored pin with the pin it has read.
NobodyAhead ==
    /\ PinCoversMemory
    /\ \A t \in Tasks : task[t] # NoTask /\ task[t].base # NoPin =>
         Covered(task[t].base.version)

\* Refreshes that overlap keep it too, wherever they are cut short: a worker gets
\* ahead of the stored pin only when an update is lost or the pin is evicted.
CoverEndsOnlyByLoss == [][NobodyAhead => NobodyAhead' \/ LostUpdate \/ Evict]_vars

----------------------------------------------------------------------------
(* Liveness, under FairSpec.                                               *)

\* The chain that is served takes the stored pin to the root releases are now
\* signed with.  Operators do publish others: a chain that starts before the
\* pin's root is refused for good (sw_mid_chain), and so is a second rotation
\* within the second of the first.
ChainCarriesPin ==
    \/ pin = NoPin \/ pin.trustRoot = Tip
    \/ /\ Len(chain) \in 1 .. MAX_ROTATION_CHAIN
       /\ chain[1].from = pin.trustRoot /\ chain[1].version > pin.rotationVersion
       /\ \A i \in 2 .. Len(chain) : /\ chain[i].from = chain[i - 1].to
                                     /\ chain[i].version > chain[i - 1].version
       /\ \A i, j \in DOMAIN chain : i # j => chain[i].to # chain[j].to

\* The origin serves a release of that root that the pin does not rule out.
Servable == /\ origin.release.root = Tip
            /\ pin = NoPin \/ origin.release.version >= pin.version

\* Once faults and deploys are over, a worker built with the root that releases
\* are signed with holds a manifest it may serve from, if the chain still leads
\* there from the pin: no torn fetch, torn mirror, failed write of the pin,
\* restart or chain of rotations leaves it refusing for good.
Heals == <>[](\A w \in Workers :
                Baked[w] = Tip /\ ChainCarriesPin /\ Servable => Ready(w))

============================================================================
