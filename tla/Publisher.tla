----------------------------- MODULE Publisher -----------------------------
(***************************************************************************)
(* The publisher's command line (src/main.rs): `sign`, `rotate` and        *)
(* `revoke` write a payload and then its signature bundle, `verify` reads  *)
(* them back.  A command is a job that runs step by step and may die       *)
(* between two steps, or in the middle of a write.                         *)
(*                                                                         *)
(* The build directory is what the application files are (`app`), and for  *)
(* each kind of statement its two files.  Time is counted in days.         *)
(***************************************************************************)
EXTENDS TrustPolicy

CONSTANTS
    RootFiles,      \* the trust root files the operator keeps
    KeyFiles,       \* the sets of key files given on a command line
    Remote,         \* the signers whose private keys are in key services
    Builds,         \* what the application's build tool produces
    Overrides,      \* the values given with --version
    Windows,        \* the values given with --not-after-days
    MaxClock,       \* bound: the clock stops here
    MaxCommands,    \* bound on the commands that are run
    NoFile, NoJob, NoRelease

VARIABLES
    now,            \* the clock
    app,            \* the application files: the build, and whether SRI is in
    files,          \* per kind, the two files that say it
    job,            \* the command that is running
    shipped,        \* history: the release of the last `sign` that ran to its end
    gated,          \* history: every payload a command agreed to write
    commands        \* how many commands were run

vars == <<now, app, files, job, shipped, gated, commands>>

Kinds == {"manifest", "rotation", "revocation"}
Torn  == [spec |-> "torn"]      \* a file whose write was cut off

Supported == Algs               \* SUPPORTED_ALGS of the Rust build

Manifest == [spec: {"manifest"}, version: Nat, not_after: Nat,
             trust_root: RootFiles, logged: BOOLEAN,
             assets: [build: Builds, sri: BOOLEAN]]
Rotation == [spec: {"rotation"}, version: Nat, from_trust_root: RootFiles,
             to_trust_root: RootFiles]
Revocation == [spec: {"revocation"}, version: Nat, not_after: Nat,
               trust_root: RootFiles, revoked_keys: Seq(Keys)]
Payload == Manifest \cup Rotation \cup Revocation
Bundle  == [over: Kinds \X Payload, valid: SUBSET (Keys \X Algs),
            broken: SUBSET (Keys \X Algs)] \cup {Malformed}
File    == [payload: Payload \cup {Torn, NoFile}, sig: Bundle \cup {NoFile}]
Job     == [payload: Payload, bundle: Bundle, upload: BOOLEAN,
            step: {"gate", "payload", "sig", "rekor"}]

ASSUME PublisherAssumption ==
    /\ RootFiles \subseteq TrustRoot
    /\ KeyFiles \subseteq SUBSET Keys /\ Remote \subseteq Keys
    /\ Overrides \subseteq Nat /\ Windows \subseteq Nat
    /\ MaxClock \in Nat /\ MaxCommands \in Nat
    /\ NoFile \notin Payload \cup {Torn} \cup Bundle
    /\ Malformed \notin [over: Kinds \X Payload, valid: SUBSET (Keys \X Algs),
                         broken: SUBSET (Keys \X Algs)]
    /\ NoJob \notin Job /\ NoRelease \notin Manifest

Versions == {now} \cup Overrides

\* KeyFile::sign for each key file, and build_bundle: both algorithms or none.
\* What a key service signs with (P-256 in a KMS, Ed25519 in a Vault) may turn out
\* not to be what the trust root names.
BuildBundle(signers, strays, prefix, payload) ==
    [over |-> Message(prefix, payload), valid |-> (signers \X Algs) \ strays,
     broken |-> strays]

\* A key file named twice makes duplicate entries, which parse_bundle refuses.
Bundles(prefix, payload) ==
    {Malformed} \cup UNION {
        {BuildBundle(signers, strays, prefix, payload) :
            strays \in SUBSET ((signers \cap Remote) \X Algs)} :
        signers \in KeyFiles}

Init ==
    /\ now = 1
    /\ app \in [build: Builds, sri: {FALSE}]
    /\ files = [kind \in Kinds |-> [payload |-> NoFile, sig |-> NoFile]]
    /\ job = NoJob /\ shipped = NoRelease /\ gated = {} /\ commands = 0

Tick == /\ now < MaxClock
        /\ now' = now + 1
        /\ UNCHANGED <<app, files, job, shipped, gated, commands>>

\* The build tool writes the directory anew, or only its own files.
Build(b) ==
    /\ job = NoJob /\ commands < MaxCommands
    /\ app' = [build |-> b, sri |-> FALSE]
    /\ files' \in {files, [kind \in Kinds |-> [payload |-> NoFile, sig |-> NoFile]]}
    /\ shipped' = NoRelease
    /\ UNCHANGED <<now, job, gated, commands>>

Run(payload, bundle, step, upload) ==
    /\ job = NoJob /\ commands < MaxCommands
    /\ commands' = commands + 1
    /\ job' = [payload |-> payload, bundle |-> bundle, step |-> step,
               upload |-> upload]

\* `sign` rewrites the HTML before it knows whether it will write a manifest.
Sign(root, version, days, noSri, upload) ==
    LET assets == [app EXCEPT !.sri = @ \/ ~noSri]
        m == [spec |-> "manifest", version |-> version,
              not_after |-> version + days, trust_root |-> root,
              logged |-> FALSE, assets |-> assets]
    IN  /\ ValidRoot(root)
        /\ app' = assets
        /\ \E bundle \in Bundles("manifest", m) : Run(m, bundle, "gate", upload)
        /\ shipped' = NoRelease
        /\ UNCHANGED <<now, files, gated>>

GatePasses == VerifyManifest(job.payload, job.bundle, job.payload.trust_root, 0,
                             job.payload.version, Supported) = "VALID"

\* Mutant: the manifest is written whatever the verification said.
GateAlwaysOpen ==
    /\ job # NoJob /\ job.step = "gate"
    /\ job' = [job EXCEPT !.step = "payload"]
    /\ gated' = gated \cup {job.payload}
    /\ UNCHANGED <<now, app, files, shipped, commands>>

Gate ==
    /\ job # NoJob /\ job.step = "gate"
    /\ job' = IF GatePasses THEN [job EXCEPT !.step = "payload"] ELSE NoJob
    /\ gated' = IF GatePasses THEN gated \cup {job.payload} ELSE gated
    /\ UNCHANGED <<now, app, files, shipped, commands>>

\* `rotate`: a statement that would be rejected is never written.
Rotate(from, to, version) ==
    LET st == [spec |-> "rotation", version |-> version,
               from_trust_root |-> from, to_trust_root |-> to]
    IN  /\ ValidRoot(from) /\ ValidRoot(to)
        /\ \E bundle \in Bundles("rotation", st) :
             /\ VerifyRotation(st, bundle, from, 0, Supported)
             /\ Run(st, bundle, "payload", FALSE)
        /\ gated' = gated \cup {st}
        /\ UNCHANGED <<now, app, files, shipped>>

\* `revoke`.
Revoke(root, revoked_keys, version, days) ==
    LET st == [spec |-> "revocation", version |-> version,
               not_after |-> version + days, trust_root |-> root,
               revoked_keys |-> revoked_keys]
    IN  /\ ValidRoot(root)
        /\ Len(revoked_keys) <= MaxRevocable(root)
        /\ \E bundle \in Bundles("revocation", st) :
             /\ VerifyRevocation(st, bundle, root, 0, now, Supported)
             /\ Run(st, bundle, "payload", FALSE)
        /\ gated' = gated \cup {st}
        /\ UNCHANGED <<now, app, files, shipped>>

Kind == job.payload.spec

\* Mutant: every statement goes to the manifest's file.
WritePayloadToManifest ==
    /\ job # NoJob /\ job.step = "payload"
    /\ files' = [files EXCEPT !["manifest"].payload = job.payload]
    /\ job' = [job EXCEPT !.step = "sig"]
    /\ UNCHANGED <<now, app, shipped, gated, commands>>

WritePayload ==
    /\ job # NoJob /\ job.step = "payload"
    /\ files' = [files EXCEPT ![Kind].payload = job.payload]
    /\ job' = [job EXCEPT !.step = "sig"]
    /\ UNCHANGED <<now, app, shipped, gated, commands>>

Done(payload) == /\ job' = NoJob
                 /\ shipped' = IF Kind = "manifest" THEN payload ELSE shipped

WriteSig ==
    /\ job # NoJob /\ job.step = "sig"
    /\ files' = [files EXCEPT ![Kind].sig = job.bundle]
    /\ IF job.upload
         THEN job' = [job EXCEPT !.step = "rekor"] /\ UNCHANGED shipped
         ELSE Done(job.payload)
    /\ UNCHANGED <<now, app, gated, commands>>

\* The log entry is put into the manifest that was signed without it.
RekorUploaded ==
    LET m == [job.payload EXCEPT !.logged = TRUE]
    IN  /\ job # NoJob /\ job.step = "rekor"
        /\ files' = [files EXCEPT !["manifest"].payload = m]
        /\ Done(m)
        /\ UNCHANGED <<now, app, gated, commands>>

\* A failed upload is a warning.
RekorFails ==
    /\ job # NoJob /\ job.step = "rekor"
    /\ Done(job.payload)
    /\ UNCHANGED <<now, app, files, gated, commands>>

\* The command dies, or a write fails: before the next file, or half way in it.
Crash ==
    /\ job # NoJob
    /\ job' = NoJob
    /\ \/ UNCHANGED files
       \/ /\ job.step \in {"payload", "rekor"}
          /\ files' = [files EXCEPT ![Kind].payload = Torn]
       \/ /\ job.step = "sig"
          /\ files' = [files EXCEPT ![Kind].sig = Malformed]
    /\ UNCHANGED <<now, app, shipped, gated, commands>>

Next ==
    \/ Tick \/ Gate \/ WritePayload \/ WriteSig \/ RekorUploaded \/ RekorFails
    \/ Crash
    \/ \E b \in Builds : Build(b)
    \/ \E root \in RootFiles, version \in Versions :
         \/ \E days \in Windows :
              \/ \E noSri, upload \in BOOLEAN :
                   Sign(root, version, days, noSri, upload)
              \/ \E list \in {<<k>> : k \in Keys} \cup (Keys \X Keys) :
                   Revoke(root, list, version, days)
         \/ \E to \in RootFiles : Rotate(root, to, version)

Spec == Init /\ [][Next]_vars

----------------------------------------------------------------------------
(* `verify`.                                                               *)

Complete(kind) == files[kind].payload # NoFile /\ files[kind].sig # NoFile

\* The keys `verify` leaves out: only a revocation it accepts itself counts.
RevokedKeys(root) ==
    LET st == files["revocation"].payload
    IN  IF /\ Complete("revocation")
           /\ VerifyRevocation(st, files["revocation"].sig, root, 0, now, Supported)
        THEN {st.revoked_keys[i] : i \in DOMAIN st.revoked_keys}
        ELSE {}

\* What `verify --trust-root root --pinned-version v` says of the signature.
VerifyDist(root, v) ==
    VerifyManifestWithRevocation(files["manifest"].payload,
        files["manifest"].sig, root, v, now, Supported, RevokedKeys(root))

\* No asset tampered, missing or unsigned.
AssetsMatch == files["manifest"].payload.assets = app

Accepted(state) == state \notin HardFailures

----------------------------------------------------------------------------
\* Every file holds a statement of its own kind, and a job the one its step is
\* about: a log entry is only ever put into a manifest.
TypeOK ==
    /\ now \in Nat /\ commands \in Nat
    /\ app \in [build: Builds, sri: BOOLEAN]
    /\ files \in [Kinds -> File]
    /\ \A kind \in Kinds : files[kind].payload \in Payload
                          => files[kind].payload.spec = kind
    /\ gated \subseteq Payload
    /\ job \in Job \cup {NoJob}
    /\ job # NoJob /\ (job.upload \/ job.step \in {"gate", "rekor"})
         => job.payload \in Manifest
    /\ shipped \in Manifest \cup {NoRelease}

\* Whatever a command left behind when it died, and whatever was written over
\* it since, no verifier of any root and any set of algorithms accepts a
\* payload that no command agreed to write.
AcceptsOnlyGated ==
    \A root \in RootFiles, algs \in SUBSET Algs :
        /\ Complete("manifest")
           /\ Accepted(VerifyManifest(files["manifest"].payload,
                  files["manifest"].sig, root, 0, now, algs))
           => files["manifest"].payload \in gated
        /\ Complete("rotation")
           /\ VerifyRotation(files["rotation"].payload, files["rotation"].sig,
                  root, 0, algs)
           => files["rotation"].payload \in gated
        /\ Complete("revocation")
           /\ VerifyRevocation(files["revocation"].payload,
                  files["revocation"].sig, root, 0, now, algs)
           => files["revocation"].payload \in gated

\* A browser without Ed25519, one without P-256 and the command line judge a
\* manifest alike under the root it names, whatever pair of runs or signers the
\* two files come from, as long as its names sort alike by byte and by code unit.
VerifiersAgree ==
    LET m == files["manifest"].payload
    IN  Complete("manifest") /\ m # Torn =>
            \A algs, others \in (SUBSET Algs) \ {{}} :
                VerifyManifest(m, files["manifest"].sig, m.trust_root, 0, now, algs)
                = VerifyManifest(m, files["manifest"].sig, m.trust_root, 0, now, others)

\* What `sign` left when it ran to its end, `verify` accepts until it expires,
\* asset for asset, whatever later commands left beside it; unless a revocation is
\* in force. What becomes of a release with a log entry is the run
\* publisher_rekor_upload.
ShippedVerifies ==
    /\ shipped # NoRelease /\ ~shipped.logged
    /\ RevokedKeys(shipped.trust_root) = {}
    => /\ VerifyDist(shipped.trust_root, shipped.version)
            = IF now > shipped.not_after THEN "EXPIRED" ELSE "VALID"
       /\ AssetsMatch

\* A revocation that is accepted never takes a root's quorum away.
RevocationLeavesQuorum ==
    \A root \in RootFiles : RevokedKeys(root) # {} =>
        Cardinality(root.keys \ RevokedKeys(root)) >= root.threshold

\* While a revocation is in force, a release is accepted only on the signatures
\* of enough keys of the root that are not revoked.
RevokedNeverCount ==
    \A root \in RootFiles :
        Complete("manifest") /\ Accepted(VerifyDist(root, 0)) =>
            Cardinality({k \in root.keys \ RevokedKeys(root) :
                \A alg \in root.sigalgs :
                    Signs(files["manifest"].sig, k, alg,
                          Message("manifest", files["manifest"].payload))})
              >= root.threshold
============================================================================
