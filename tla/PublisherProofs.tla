-------------------------- MODULE PublisherProofs --------------------------
(***************************************************************************)
(* What the command line guarantees for any number of keys, root files,    *)
(* builds and commands, wherever they were interrupted.                    *)
(***************************************************************************)
EXTENDS Publisher, TrustPolicyProofs

----------------------------------------------------------------------------
(* The inductive invariant: TypeOK, and where every bundle on disk or in   *)
(* hand comes from.                                                        *)

\* A bundle was made over a payload a command agreed to write, as the kind of
\* statement it is.
FromGate(bundle, kind) ==
    bundle = Malformed \/ (bundle.over[1] = kind /\ bundle.over[2] \in gated)

\* The bundle of a job is the one made over its payload.
JobInv ==
    job # NoJob =>
        /\ job.bundle = Malformed \/ job.bundle.over = Message(Kind, job.payload)
        /\ job.step # "gate" => job.payload \in gated

FilesInv == \A kind \in Kinds :
              files[kind].sig # NoFile => FromGate(files[kind].sig, kind)

IInv == TypeOK /\ JobInv /\ FilesInv

----------------------------------------------------------------------------
(* Typing.                                                                 *)

\* What key files sign is a bundle over that very message.
LEMMA BundleTyped ==
    ASSUME NEW payload \in Payload, NEW prefix \in Kinds,
           NEW bundle \in Bundles(prefix, payload)
    PROVE  /\ bundle \in Bundle
           /\ bundle = Malformed \/ bundle.over = Message(prefix, payload)
  <1>1. CASE bundle = Malformed
    BY <1>1 DEF Bundle
  <1>2. CASE bundle # Malformed
    <2>1. PICK signers \in KeyFiles :
            \E strays \in SUBSET ((signers \cap Remote) \X Algs) :
              bundle = BuildBundle(signers, strays, prefix, payload)
      BY <1>2 DEF Bundles
    <2>2. PICK strays \in SUBSET ((signers \cap Remote) \X Algs) :
            bundle = BuildBundle(signers, strays, prefix, payload)
      BY <2>1
    <2>3. strays \in SUBSET (Keys \X Algs) /\ signers \in SUBSET Keys
      BY <2>2, PublisherAssumption
    <2>4. Message(prefix, payload) \in Kinds \X Payload
      BY DEF Message
    <2> QED  BY <2>2, <2>3, <2>4 DEF BuildBundle, Bundle
  <1> QED  BY <1>1, <1>2

LEMMA VersionTyped ==
    ASSUME TypeOK PROVE Versions \subseteq Nat
  BY PublisherAssumption DEF Versions, TypeOK

\* A statement is of one kind.
LEMMA KindOf ==
    ASSUME NEW p \in Payload
    PROVE  /\ p.spec \in Kinds
           /\ p.spec = "manifest" => p \in Manifest
           /\ p \in Manifest => p.spec = "manifest"
  BY DEF Payload, Manifest, Rotation, Revocation, Kinds

LEMMA JobTyped ==
    ASSUME TypeOK, job # NoJob
    PROVE  /\ job \in Job /\ job.payload \in Payload /\ Kind \in Kinds
           /\ job.bundle \in Bundle
  BY KindOf DEF TypeOK, Job, Kind

LEMMA Initial == Init => IInv
  <1> SUFFICES ASSUME Init PROVE IInv
    OBVIOUS
  <1>1. TypeOK
    BY PublisherAssumption DEF Init, TypeOK, File
  <1>2. JobInv /\ FilesInv
    BY DEF Init, JobInv, FilesInv
  <1> QED  BY <1>1, <1>2 DEF IInv

----------------------------------------------------------------------------
(* One lemma per action.                                                   *)

LEMMA TickStep == IInv /\ Tick => IInv'
  BY DEF IInv, TypeOK, JobInv, FilesInv, FromGate, Tick, Kind

LEMMA BuildStep == ASSUME IInv, NEW b \in Builds, Build(b) PROVE IInv'
  <1>1. TypeOK'
    BY PublisherAssumption DEF IInv, TypeOK, Build, File
  <1>2. JobInv' /\ FilesInv'
    BY DEF IInv, JobInv, FilesInv, FromGate, Build, Kind
  <1> QED  BY <1>1, <1>2 DEF IInv

\* Starting a command with a bundle over its payload.
LEMMA RunStep ==
    ASSUME TypeOK, NEW payload \in Payload,
           NEW bundle \in Bundles(payload.spec, payload),
           NEW step \in {"gate", "payload"}, NEW upload \in BOOLEAN,
           Run(payload, bundle, step, upload)
    PROVE  /\ job' \in Job /\ job' # NoJob /\ commands' \in Nat
           /\ job'.payload = payload /\ job'.step = step /\ job'.upload = upload
           /\ job'.bundle = Malformed
              \/ job'.bundle.over = Message(payload.spec, payload)
  <1>1. /\ bundle \in Bundle
        /\ bundle = Malformed \/ bundle.over = Message(payload.spec, payload)
    BY BundleTyped, KindOf
  <1>2. job' \in Job
    BY <1>1 DEF Run, Job
  <1> QED  BY <1>1, <1>2, PublisherAssumption DEF Run, TypeOK

LEMMA SignStep ==
    ASSUME IInv, NEW root \in RootFiles, NEW version \in Versions,
           NEW days \in Windows, NEW noSri \in BOOLEAN, NEW upload \in BOOLEAN,
           Sign(root, version, days, noSri, upload)
    PROVE  IInv'
  <1> DEFINE assets == [app EXCEPT !.sri = @ \/ ~noSri]
             m == [spec |-> "manifest", version |-> version,
                   not_after |-> version + days, trust_root |-> root,
                   logged |-> FALSE, assets |-> assets]
  <1>1. assets \in [build: Builds, sri: BOOLEAN]
    <2>1. app \in [build: Builds, sri: BOOLEAN]
      BY DEF IInv, TypeOK
    <2>2. assets = [build |-> app.build, sri |-> app.sri \/ ~noSri]
      BY <2>1
    <2>3. (app.sri \/ ~noSri) \in BOOLEAN
      OBVIOUS
    <2> HIDE DEF assets
    <2> QED  BY <2>1, <2>2, <2>3
  <1>2. version \in Nat /\ version + days \in Nat
    BY VersionTyped, PublisherAssumption DEF IInv
  <1>3. m \in Manifest /\ m \in Payload /\ m.spec = "manifest"
    <2> HIDE DEF assets
    <2>1. m \in Manifest
      BY <1>1, <1>2 DEF Manifest
    <2> QED  BY <2>1 DEF Payload
  <1>4. PICK bundle \in Bundles("manifest", m) : Run(m, bundle, "gate", upload)
    BY DEF Sign
  <1>5. /\ app' = assets /\ shipped' = NoRelease
        /\ UNCHANGED <<now, files, gated>>
    BY DEF Sign
  <1> HIDE DEF assets, m
  <1>6. /\ job' \in Job /\ job' # NoJob /\ commands' \in Nat
        /\ job'.payload = m /\ job'.step = "gate"
        /\ job'.bundle = Malformed \/ job'.bundle.over = Message("manifest", m)
    BY <1>3, <1>4, RunStep DEF IInv
  <1>7. TypeOK'
    BY <1>1, <1>3, <1>5, <1>6 DEF IInv, TypeOK
  <1>8. JobInv'
    BY <1>3, <1>6 DEF JobInv, Kind
  <1>9. FilesInv'
    BY <1>5 DEF IInv, FilesInv, FromGate
  <1> QED  BY <1>7, <1>8, <1>9 DEF IInv

LEMMA GateStep == IInv /\ Gate => IInv'
  <1> SUFFICES ASSUME IInv, Gate PROVE IInv'
    OBVIOUS
  <1>1. job \in Job /\ job.payload \in Payload /\ job.payload \in Manifest
    BY JobTyped DEF IInv, TypeOK, Gate
  <1>2. /\ UNCHANGED <<now, app, files, shipped, commands>>
        /\ gated \subseteq gated' /\ gated' \subseteq Payload
    BY <1>1 DEF Gate, IInv, TypeOK
  <1>3. FilesInv'
    BY <1>2 DEF IInv, FilesInv, FromGate
  <1>4. CASE GatePasses
    <2>1. /\ job' = [job EXCEPT !.step = "payload"]
          /\ gated' = gated \cup {job.payload}
      BY <1>4 DEF Gate
    <2>2. /\ job' \in Job /\ job'.payload = job.payload
          /\ job'.bundle = job.bundle /\ job'.payload \in gated'
      BY <1>1, <2>1 DEF Job
    <2>3. TypeOK'
      BY <1>1, <1>2, <2>2 DEF IInv, TypeOK
    <2>4. JobInv'
      BY <2>2 DEF IInv, JobInv, Kind, Gate
    <2> QED  BY <1>3, <2>3, <2>4 DEF IInv
  <1>5. CASE ~GatePasses
    <2>1. job' = NoJob
      BY <1>5 DEF Gate
    <2>2. TypeOK' /\ JobInv'
      BY <1>2, <2>1 DEF IInv, TypeOK, JobInv
    <2> QED  BY <1>3, <2>2 DEF IInv
  <1> QED  BY <1>4, <1>5

\* Starting to write a statement that its own gate let through.
LEMMA StatementStep ==
    ASSUME IInv, NEW st \in Payload, NEW bundle \in Bundles(st.spec, st),
           Run(st, bundle, "payload", FALSE),
           gated' = gated \cup {st}, UNCHANGED <<now, app, files, shipped>>
    PROVE  IInv'
  <1>1. /\ job' \in Job /\ job' # NoJob /\ commands' \in Nat
        /\ job'.payload = st /\ job'.step = "payload" /\ job'.upload = FALSE
        /\ job'.bundle = Malformed \/ job'.bundle.over = Message(st.spec, st)
    BY RunStep DEF IInv
  <1>2. TypeOK'
    BY <1>1 DEF IInv, TypeOK
  <1>3. JobInv'
    BY <1>1 DEF JobInv, Kind
  <1>4. FilesInv'
    BY DEF IInv, FilesInv, FromGate
  <1> QED  BY <1>2, <1>3, <1>4 DEF IInv

LEMMA RotateStep ==
    ASSUME IInv, NEW from \in RootFiles, NEW to \in RootFiles,
           NEW version \in Versions, Rotate(from, to, version)
    PROVE  IInv'
  <1> DEFINE st == [spec |-> "rotation", version |-> version,
                    from_trust_root |-> from, to_trust_root |-> to]
  <1>1. st \in Payload /\ st.spec = "rotation"
    BY VersionTyped DEF IInv, Payload, Rotation
  <1>2. PICK bundle \in Bundles("rotation", st) : Run(st, bundle, "payload", FALSE)
    BY DEF Rotate
  <1>3. gated' = gated \cup {st} /\ UNCHANGED <<now, app, files, shipped>>
    BY DEF Rotate
  <1> QED  BY <1>1, <1>2, <1>3, StatementStep

LEMMA RevokeStep ==
    ASSUME IInv, NEW root \in RootFiles, NEW version \in Versions,
           NEW days \in Windows, NEW list \in Seq(Keys),
           Revoke(root, list, version, days)
    PROVE  IInv'
  <1> DEFINE st == [spec |-> "revocation", version |-> version,
                    not_after |-> version + days, trust_root |-> root,
                    revoked_keys |-> list]
  <1>1. st \in Payload /\ st.spec = "revocation"
    <2>1. version \in Nat /\ version + days \in Nat
      BY VersionTyped, PublisherAssumption DEF IInv
    <2> QED  BY <2>1 DEF Payload, Revocation
  <1>2. PICK bundle \in Bundles("revocation", st) :
          Run(st, bundle, "payload", FALSE)
    BY DEF Revoke
  <1>3. gated' = gated \cup {st} /\ UNCHANGED <<now, app, files, shipped>>
    BY DEF Revoke
  <1> QED  BY <1>1, <1>2, <1>3, StatementStep

\* Putting a payload, or a torn one, in the place of its own kind.
LEMMA PayloadWritten ==
    ASSUME IInv, NEW kind \in Kinds, NEW p \in Payload \cup {Torn, NoFile},
           p \in Payload => p.spec = kind,
           files' = [files EXCEPT ![kind].payload = p],
           UNCHANGED gated
    PROVE  /\ files' \in [Kinds -> File] /\ FilesInv'
           /\ \A k \in Kinds : files'[k].payload \in Payload
                             => files'[k].payload.spec = k
  <1>1. files \in [Kinds -> File]
    BY DEF IInv, TypeOK
  <1>2. files' \in [Kinds -> File]
    BY <1>1 DEF File
  <1>3. \A k \in Kinds : /\ files'[k].sig = files[k].sig
                        /\ files'[k].payload = IF k = kind THEN p
                                               ELSE files[k].payload
    BY <1>1 DEF File
  <1>4. FilesInv'
    BY <1>3 DEF IInv, FilesInv, FromGate
  <1>5. \A k \in Kinds : files'[k].payload \in Payload
                          => files'[k].payload.spec = k
    BY <1>3 DEF IInv, TypeOK
  <1> QED  BY <1>2, <1>4, <1>5

LEMMA WritePayloadStep == IInv /\ WritePayload => IInv'
  <1> SUFFICES ASSUME IInv, WritePayload PROVE IInv'
    OBVIOUS
  <1>1. /\ job \in Job /\ job.payload \in Payload /\ Kind \in Kinds
    BY JobTyped DEF IInv, WritePayload
  <1>2. /\ files' \in [Kinds -> File] /\ FilesInv'
        /\ \A k \in Kinds : files'[k].payload \in Payload
                          => files'[k].payload.spec = k
    BY <1>1, PayloadWritten DEF WritePayload, Kind
  <1>3. /\ job' \in Job /\ job'.payload = job.payload /\ job'.step = "sig"
        /\ job'.bundle = job.bundle /\ job'.upload = job.upload
    BY <1>1 DEF WritePayload, Job
  <1>4. UNCHANGED <<now, app, shipped, gated, commands>>
    BY DEF WritePayload
  <1>5. TypeOK'
    BY <1>2, <1>3, <1>4 DEF IInv, TypeOK, WritePayload
  <1>6. JobInv'
    BY <1>3, <1>4 DEF IInv, JobInv, Kind, WritePayload
  <1> QED  BY <1>2, <1>5, <1>6 DEF IInv

\* Putting a bundle in the place of its own kind.
LEMMA SigWritten ==
    ASSUME IInv, NEW kind \in Kinds, NEW b \in Bundle, FromGate(b, kind),
           files' = [files EXCEPT ![kind].sig = b], UNCHANGED gated
    PROVE  /\ files' \in [Kinds -> File] /\ FilesInv'
           /\ \A k \in Kinds : files'[k].payload \in Payload
                             => files'[k].payload.spec = k
  <1>1. files \in [Kinds -> File]
    BY DEF IInv, TypeOK
  <1>2. files' \in [Kinds -> File]
    BY <1>1 DEF File
  <1>3. \A k \in Kinds : /\ files'[k].payload = files[k].payload
                        /\ files'[k].sig = IF k = kind THEN b ELSE files[k].sig
    BY <1>1 DEF File
  <1>4. FilesInv'
    BY <1>3 DEF IInv, FilesInv, FromGate
  <1>5. \A k \in Kinds : files'[k].payload \in Payload
                          => files'[k].payload.spec = k
    BY <1>3 DEF IInv, TypeOK
  <1> QED  BY <1>2, <1>4, <1>5

LEMMA WriteSigStep == IInv /\ WriteSig => IInv'
  <1> SUFFICES ASSUME IInv, WriteSig PROVE IInv'
    OBVIOUS
  <1>1. /\ job \in Job /\ job.payload \in Payload /\ Kind \in Kinds
        /\ job.bundle \in Bundle
    BY JobTyped DEF IInv, WriteSig
  <1>2. FromGate(job.bundle, Kind)
    BY DEF IInv, JobInv, FromGate, WriteSig, Message
  <1>3. /\ files' \in [Kinds -> File] /\ FilesInv'
        /\ \A k \in Kinds : files'[k].payload \in Payload
                          => files'[k].payload.spec = k
    BY <1>1, <1>2, SigWritten DEF WriteSig
  <1>4. UNCHANGED <<now, app, gated, commands>>
    BY DEF WriteSig
  <1>5. CASE job.upload
    <2>1. job' = [job EXCEPT !.step = "rekor"] /\ UNCHANGED shipped
      BY <1>5 DEF WriteSig
    <2>2. /\ job' \in Job /\ job'.payload = job.payload
          /\ job'.bundle = job.bundle /\ job.payload \in Manifest
      BY <1>1, <1>5, <2>1 DEF Job, IInv, TypeOK, WriteSig
    <2>3. TypeOK'
      BY <1>3, <1>4, <2>1, <2>2 DEF IInv, TypeOK
    <2>4. JobInv'
      BY <1>4, <2>2 DEF IInv, JobInv, Kind, WriteSig
    <2> QED  BY <1>3, <2>3, <2>4 DEF IInv
  <1>6. CASE ~job.upload
    <2>1. job' = NoJob /\ shipped' = IF Kind = "manifest" THEN job.payload
                                                         ELSE shipped
      BY <1>6 DEF WriteSig, Done
    <2>2. shipped' \in Manifest \cup {NoRelease}
      BY <1>1, <2>1, KindOf DEF Kind, IInv, TypeOK
    <2>3. TypeOK' /\ JobInv'
      BY <1>3, <1>4, <2>1, <2>2 DEF IInv, TypeOK, JobInv
    <2> QED  BY <1>3, <2>3 DEF IInv
  <1> QED  BY <1>5, <1>6

LEMMA RekorUploadedStep == IInv /\ RekorUploaded => IInv'
  <1> SUFFICES ASSUME IInv, RekorUploaded PROVE IInv'
    OBVIOUS
  <1> DEFINE m == [job.payload EXCEPT !.logged = TRUE]
  <1>1. job.payload \in Manifest
    BY DEF IInv, TypeOK, RekorUploaded
  <1>2. m \in Manifest /\ m \in Payload /\ m.spec = "manifest"
    <2>1. m \in Manifest /\ m.spec = "manifest"
      BY <1>1 DEF Manifest
    <2> QED  BY <2>1 DEF Payload
  <1>3. /\ files' = [files EXCEPT !["manifest"].payload = m]
        /\ UNCHANGED <<now, app, gated, commands>>
        /\ job' = NoJob /\ shipped' \in {m, shipped}
    BY DEF RekorUploaded, Done
  <1> HIDE DEF m
  <1>4. /\ files' \in [Kinds -> File] /\ FilesInv'
        /\ \A k \in Kinds : files'[k].payload \in Payload
                          => files'[k].payload.spec = k
    BY <1>2, <1>3, PayloadWritten DEF Kinds
  <1>5. TypeOK' /\ JobInv'
    BY <1>2, <1>3, <1>4 DEF IInv, TypeOK, JobInv
  <1> QED  BY <1>4, <1>5 DEF IInv

LEMMA RekorFailsStep == IInv /\ RekorFails => IInv'
  <1> SUFFICES ASSUME IInv, RekorFails PROVE IInv'
    OBVIOUS
  <1>1. job.payload \in Manifest
    BY DEF IInv, TypeOK, RekorFails
  <1>2. /\ UNCHANGED <<now, app, files, gated, commands>>
        /\ job' = NoJob /\ shipped' \in {job.payload, shipped}
    BY DEF RekorFails, Done
  <1> QED  BY <1>1, <1>2 DEF IInv, TypeOK, JobInv, FilesInv, FromGate

LEMMA CrashStep == IInv /\ Crash => IInv'
  <1> SUFFICES ASSUME IInv, Crash PROVE IInv'
    OBVIOUS
  <1>1. Kind \in Kinds
    BY JobTyped DEF IInv, Crash
  <1>2. job' = NoJob /\ UNCHANGED <<now, app, shipped, gated, commands>>
    BY DEF Crash
  <1>3. /\ files' \in [Kinds -> File] /\ FilesInv'
        /\ \A k \in Kinds : files'[k].payload \in Payload
                          => files'[k].payload.spec = k
    <2>1. CASE UNCHANGED files
      BY <2>1, <1>2 DEF IInv, TypeOK, FilesInv, FromGate
    <2>2. CASE files' = [files EXCEPT ![Kind].payload = Torn]
      <3>1. Torn \notin Payload
        BY KindOf DEF Torn, Kinds
      <3> QED  BY <3>1, <2>2, <1>1, <1>2, PayloadWritten
    <2>3. CASE files' = [files EXCEPT ![Kind].sig = Malformed]
      BY <2>3, <1>1, <1>2, SigWritten DEF FromGate, Bundle
    <2> QED  BY <2>1, <2>2, <2>3 DEF Crash
  <1>4. TypeOK' /\ JobInv'
    BY <1>2, <1>3 DEF IInv, TypeOK, JobInv
  <1> QED  BY <1>3, <1>4 DEF IInv

----------------------------------------------------------------------------
LEMMA NextStep == IInv /\ [Next]_vars => IInv'
  <1> SUFFICES ASSUME IInv, [Next]_vars PROVE IInv'
    OBVIOUS
  <1>1. CASE UNCHANGED vars
    BY <1>1 DEF vars, IInv, TypeOK, JobInv, FilesInv, FromGate, Kind
  <1>2. CASE Tick
    BY <1>2, TickStep
  <1>3. CASE Gate
    BY <1>3, GateStep
  <1>4. CASE WritePayload
    BY <1>4, WritePayloadStep
  <1>5. CASE WriteSig
    BY <1>5, WriteSigStep
  <1>6. CASE RekorUploaded \/ RekorFails
    BY <1>6, RekorUploadedStep, RekorFailsStep
  <1>7. CASE Crash
    BY <1>7, CrashStep
  <1>8. ASSUME NEW b \in Builds, Build(b) PROVE IInv'
    BY <1>8, BuildStep
  <1>9. ASSUME NEW root \in RootFiles, NEW version \in Versions,
               NEW days \in Windows, NEW noSri \in BOOLEAN,
               NEW upload \in BOOLEAN, Sign(root, version, days, noSri, upload)
        PROVE  IInv'
    BY <1>9, SignStep
  <1>10. ASSUME NEW root \in RootFiles, NEW version \in Versions,
                NEW days \in Windows,
                NEW list \in {<<k>> : k \in Keys} \cup (Keys \X Keys),
                Revoke(root, list, version, days)
         PROVE  IInv'
    <2>1. \A k \in Keys : <<k>> \in Seq(Keys)
      OBVIOUS
    <2>2. \A k, l \in Keys : <<k, l>> \in Seq(Keys)
      OBVIOUS
    <2>3. CASE list \in {<<k>> : k \in Keys}
      BY <1>10, <2>1, <2>3, RevokeStep
    <2>4. CASE list \in Keys \X Keys
      <3>1. PICK k \in Keys, l \in Keys : list = <<k, l>>
        BY <2>4
      <3> QED  BY <1>10, <2>2, <3>1, RevokeStep
    <2> QED  BY <1>10, <2>3, <2>4
  <1>11. ASSUME NEW root \in RootFiles, NEW version \in Versions,
                NEW to \in RootFiles, Rotate(root, to, version)
         PROVE  IInv'
    BY <1>11, RotateStep
  <1> QED  BY <1>1, <1>2, <1>3, <1>4, <1>5, <1>6, <1>7, <1>8, <1>9, <1>10, <1>11
           DEF Next

LEMMA Invariance == Spec => []IInv
  BY Initial, NextStep, PTL DEF Spec

\* In every state of every run of commands, each file holds a statement of its
\* own kind and each job is at a step that its statement can be at.
THEOREM Typing == Spec => []TypeOK
  <1>1. IInv => TypeOK
    BY DEF IInv
  <1> QED  BY <1>1, Invariance, PTL

\* Wherever commands died and whatever was written over what they left, no
\* verifier accepts a payload that no command agreed to write.
THEOREM OnlyGatedAccepted == Spec => []AcceptsOnlyGated
  <1>1. ASSUME IInv, NEW kind \in Kinds, NEW root \in RootFiles,
               NEW algs \in SUBSET Algs, Complete(kind),
               Reaches(files[kind].payload, files[kind].sig, root, kind, algs)
        PROVE  files[kind].payload \in gated
    <2> DEFINE bundle == files[kind].sig
               p == files[kind].payload
               Q == Qualifying(bundle, root, algs, Message(kind, p))
    <2>1. root \in TrustRoot /\ root.threshold \in Nat /\ root.threshold >= 1
      BY <1>1, PublisherAssumption DEF Reaches, ValidRoot, TrustRoot
    <2>2. Cardinality(Q) >= root.threshold /\ Active(root, algs) # {}
      BY <1>1, <2>1, ReachedByQuorum DEF Reaches
    <2>3. Cardinality(Q) \in Nat
      BY <2>1, QualifyingFinite
    <2>4. Q # {}
      BY <2>1, <2>2, <2>3, FS_EmptySet
    <2>5. PICK key \in Q, alg \in Active(root, algs) :
            Signs(bundle, key, alg, Message(kind, p))
      BY <2>2, <2>4 DEF Qualifying
    <2>6. bundle.over = Message(kind, p)
      BY <2>5 DEF Signs
    <2>7. bundle # Malformed /\ FromGate(bundle, kind)
      BY <1>1 DEF IInv, FilesInv, Complete, Reaches
    <2> QED  BY <2>6, <2>7 DEF FromGate, Message
  <1>2. IInv => AcceptsOnlyGated
    BY <1>1, AcceptedManifest
       DEF AcceptsOnlyGated, Accepted, VerifyRotation, VerifyRevocation, Kinds
  <1> QED  BY <1>2, Invariance, PTL

\* What verify accepts as a revocation never takes a root's quorum away.
THEOREM QuorumSurvivesRevocation == Spec => []RevocationLeavesQuorum
  <1>1. ASSUME IInv, NEW root \in RootFiles, RevokedKeys(root) # {}
        PROVE  Cardinality(root.keys \ RevokedKeys(root)) >= root.threshold
    <2> DEFINE st == files["revocation"].payload
               list == st.revoked_keys
    <2>1. /\ Complete("revocation")
          /\ VerifyRevocation(st, files["revocation"].sig, root, 0, now, Supported)
          /\ RevokedKeys(root) = {list[i] : i \in DOMAIN list}
      BY <1>1 DEF RevokedKeys
    <2>2. st.spec = "revocation" /\ Revocable(root, list)
      BY <2>1, <1>1 DEF VerifyRevocation
    <2>3. list \in Seq(Keys)
      <3>1. st \in Payload \cup {Torn, NoFile}
        BY <1>1 DEF IInv, TypeOK, File, Kinds
      <3>2. st # Torn /\ st # NoFile
        BY <2>1, <2>2 DEF Torn, Complete
      <3>3. st \in Revocation
        BY <3>1, <3>2, <2>2 DEF Payload, Manifest, Rotation
      <3> QED  BY <3>3 DEF Revocation
    <2>4. root \in TrustRoot
      BY PublisherAssumption
    <2> QED  BY <2>1, <2>2, <2>3, <2>4, RevocationLeavesThreshold
  <1>2. IInv => RevocationLeavesQuorum
    BY <1>1 DEF RevocationLeavesQuorum
  <1> QED  BY <1>2, Invariance, PTL

\* A release that verify accepts next to a revocation was signed by enough keys
\* of the root that are not revoked, with both algorithms.
THEOREM RevokedKeysNeverCount == Spec => []RevokedNeverCount
  <1>1. ASSUME NEW root \in RootFiles, Complete("manifest"),
               Accepted(VerifyDist(root, 0))
        PROVE  LET m == files["manifest"].payload
                   Q == {k \in root.keys \ RevokedKeys(root) :
                           \A alg \in root.sigalgs :
                             Signs(files["manifest"].sig, k, alg,
                                   Message("manifest", m))}
               IN  Cardinality(Q) >= root.threshold
    <2> DEFINE m == files["manifest"].payload
               left == root.keys \ RevokedKeys(root)
               Q == {k \in left : \A alg \in root.sigalgs :
                       Signs(files["manifest"].sig, k, alg, Message("manifest", m))}
    <2>1. root \in TrustRoot /\ Active(root, Supported) = root.sigalgs
      BY PublisherAssumption DEF TrustRoot, Active, Supported
    <2>2. PICK S \in SUBSET left :
            /\ Cardinality(S) >= root.threshold
            /\ \A k \in S, alg \in root.sigalgs :
                 Signs(files["manifest"].sig, k, alg, Message("manifest", m))
      BY <1>1, <2>1, QuorumBehindVerdict DEF Accepted, VerifyDist
    <2>3. S \in SUBSET Q /\ Q \in SUBSET root.keys /\ S \in SUBSET root.keys
      BY <2>2
    <2>4. /\ IsFiniteSet(Q) /\ Cardinality(Q) \in Nat /\ Cardinality(S) \in Nat
          /\ root.threshold \in Nat
      BY <2>1, <2>3, RootFinite DEF TrustRoot
    <2>5. Cardinality(S) <= Cardinality(Q)
      BY <2>3, <2>4, FS_Subset
    <2> QED  BY <2>2, <2>4, <2>5
  <1>2. RevokedNeverCount
    BY <1>1 DEF RevokedNeverCount
  <1> QED  BY <1>2, PTL

----------------------------------------------------------------------------
(* The release on disk and the one that was signed.                        *)

\* Key files sign with both halves: every key is in the bundle with both
\* algorithms or with none, whether its signatures hold or not.
ByKeyFiles(bundle) == \E signers \in SUBSET Keys : Entries(bundle) = signers \X Algs

\* What the gate of `sign` lets through.
Released(m, bundle) ==
    /\ m \in Manifest /\ ~m.logged
    /\ bundle # Malformed /\ ByKeyFiles(bundle)
    /\ bundle.over = Message("manifest", m)
    /\ VerifyManifest(m, bundle, m.trust_root, 0, m.version, Supported) = "VALID"

\* A running `sign`: the application is the one it signs, and what it has written
\* so far is still there.
SignInv ==
    job # NoJob /\ Kind = "manifest" =>
        /\ job.payload.assets = app /\ ~job.payload.logged /\ shipped = NoRelease
        /\ job.bundle # Malformed => ByKeyFiles(job.bundle)
        /\ job.step # "gate" => Released(job.payload, job.bundle)
        /\ job.step \in {"sig", "rekor"} => files["manifest"].payload = job.payload
        /\ job.step = "rekor" => files["manifest"].sig = job.bundle

\* The manifest's signature file is that of a release, of this one or another.
SigInv == files["manifest"].sig \notin {NoFile, Malformed} =>
            \E m \in Manifest : Released(m, files["manifest"].sig)

\* What a finished `sign` left is still there.
ShippedInv ==
    shipped # NoRelease =>
        /\ files["manifest"].payload = shipped /\ shipped.assets = app
        /\ Released([shipped EXCEPT !.logged = FALSE], files["manifest"].sig)

ReleaseInv == SignInv /\ SigInv /\ ShippedInv

LEMMA BundleByKeyFiles ==
    ASSUME NEW prefix, NEW payload, NEW bundle \in Bundles(prefix, payload),
           bundle # Malformed
    PROVE  ByKeyFiles(bundle)
  <1>1. PICK signers \in KeyFiles :
          \E strays \in SUBSET ((signers \cap Remote) \X Algs) :
            bundle = BuildBundle(signers, strays, prefix, payload)
    BY DEF Bundles
  <1>2. PICK strays \in SUBSET ((signers \cap Remote) \X Algs) :
          bundle = BuildBundle(signers, strays, prefix, payload)
    BY <1>1
  <1>3. strays \subseteq signers \X Algs /\ signers \in SUBSET Keys
    BY <1>2, PublisherAssumption
  <1>4. Entries(bundle) = signers \X Algs
    BY <1>2, <1>3 DEF BuildBundle, Entries
  <1> QED  BY <1>3, <1>4 DEF ByKeyFiles

\* The log entry that is put in is taken out again.
LEMMA Unlogged ==
    ASSUME NEW m \in Manifest, ~m.logged
    PROVE  /\ [m EXCEPT !.logged = FALSE] = m
           /\ [[m EXCEPT !.logged = TRUE] EXCEPT !.logged = FALSE] = m
           /\ [m EXCEPT !.logged = TRUE].assets = m.assets
  BY DEF Manifest

----------------------------------------------------------------------------
LEMMA ReleaseInitial == Init => ReleaseInv
  BY DEF Init, ReleaseInv, SignInv, SigInv, ShippedInv, Kinds

\* A command that is no `sign` leaves the release alone.
LEMMA ReleaseKept ==
    ASSUME ReleaseInv, files'["manifest"] = files["manifest"],
           UNCHANGED <<app, shipped>>,
           job' # NoJob => job'.payload.spec # "manifest" \/ job' = job
    PROVE  ReleaseInv'
  BY DEF ReleaseInv, SignInv, SigInv, ShippedInv, Kind

LEMMA ReleaseSign ==
    ASSUME TypeOK, ReleaseInv, NEW root \in RootFiles, NEW version \in Versions,
           NEW days \in Windows, NEW noSri \in BOOLEAN, NEW upload \in BOOLEAN,
           Sign(root, version, days, noSri, upload)
    PROVE  ReleaseInv'
  <1> DEFINE assets == [app EXCEPT !.sri = @ \/ ~noSri]
             m == [spec |-> "manifest", version |-> version,
                   not_after |-> version + days, trust_root |-> root,
                   logged |-> FALSE, assets |-> assets]
  <1>1. PICK bundle \in Bundles("manifest", m) : Run(m, bundle, "gate", upload)
    BY DEF Sign
  <1>2. app' = assets /\ shipped' = NoRelease /\ files' = files
    BY DEF Sign
  <1>3. bundle # Malformed => ByKeyFiles(bundle)
    BY BundleByKeyFiles
  <1>4. /\ job'.payload = m /\ job'.bundle = bundle /\ job'.step = "gate"
    BY <1>1 DEF Run
  <1>5. m.assets = assets /\ ~m.logged
    OBVIOUS
  <1> HIDE DEF m, assets
  <1>6. SignInv'
    BY <1>2, <1>3, <1>4, <1>5 DEF SignInv
  <1> QED  BY <1>2, <1>6 DEF ReleaseInv, SigInv, ShippedInv

LEMMA ReleaseGate ==
    ASSUME IInv, ReleaseInv, Gate PROVE ReleaseInv'
  <1>1. CASE ~GatePasses
    BY <1>1, ReleaseKept DEF Gate
  <1>2. CASE GatePasses
    <2>1. /\ job' = [job EXCEPT !.step = "payload"] /\ job # NoJob
          /\ job.step = "gate" /\ UNCHANGED <<app, files, shipped>>
      BY <1>2 DEF Gate
    <2>2. /\ job \in Job /\ job.payload \in Manifest /\ Kind = "manifest"
      BY <2>1, JobTyped, KindOf DEF IInv, TypeOK, Kind
    <2>3. /\ job'.payload = job.payload /\ job'.bundle = job.bundle
          /\ job'.step = "payload"
      BY <2>1, <2>2 DEF Job
    <2>4. job.bundle # Malformed
      BY <1>2 DEF GatePasses, VerifyManifest
    <2>5. job.bundle.over = Message("manifest", job.payload)
      BY <2>1, <2>2, <2>4 DEF IInv, JobInv
    <2>6. Released(job.payload, job.bundle)
      BY <1>2, <2>1, <2>2, <2>4, <2>5 DEF Released, GatePasses, ReleaseInv, SignInv
    <2>7. SignInv'
      BY <2>1, <2>2, <2>3, <2>6 DEF ReleaseInv, SignInv
    <2> QED  BY <2>1, <2>7 DEF ReleaseInv, SigInv, ShippedInv
  <1> QED  BY <1>1, <1>2

\* The steps of a `sign` that write.
LEMMA ReleaseWritten ==
    ASSUME IInv, ReleaseInv,
           WritePayload \/ WriteSig \/ RekorUploaded \/ RekorFails \/ Crash
    PROVE  ReleaseInv'
  <1>1. /\ job \in Job /\ job # NoJob /\ Kind \in Kinds /\ job.payload \in Payload
        /\ job.upload \/ job.step \in {"gate", "rekor"} => Kind = "manifest"
        /\ Kind = "manifest" => job.payload \in Manifest
        /\ job' = NoJob \/ (job'.payload = job.payload /\ job'.bundle = job.bundle)
        /\ files \in [Kinds -> File]
        /\ \A s : [job EXCEPT !.step = s].step = s
    <2>1. job # NoJob
      BY DEF WritePayload, WriteSig, RekorUploaded, RekorFails, Crash
    <2>2. job \in Job
      BY <2>1, JobTyped DEF IInv
    <2>3. \A s : /\ [job EXCEPT !.step = s].payload = job.payload
                 /\ [job EXCEPT !.step = s].bundle = job.bundle
                 /\ [job EXCEPT !.step = s].step = s
      BY <2>2 DEF Job
    <2>4. \/ job' = NoJob
          \/ job' = [job EXCEPT !.step = "sig"]
          \/ job' = [job EXCEPT !.step = "rekor"]
      BY DEF WritePayload, WriteSig, RekorUploaded, RekorFails, Crash, Done
    <2>5. /\ Kind \in Kinds /\ job.payload \in Payload
          /\ Kind = "manifest" => job.payload \in Manifest
          /\ job.upload \/ job.step \in {"gate", "rekor"} => Kind = "manifest"
      BY <2>1, JobTyped, KindOf DEF IInv, TypeOK, Kind
    <2>6. job' = NoJob \/ (job'.payload = job.payload /\ job'.bundle = job.bundle)
      <3>1. CASE job' = [job EXCEPT !.step = "sig"]
        BY <2>2, <3>1 DEF Job
      <3>2. CASE job' = [job EXCEPT !.step = "rekor"]
        BY <2>2, <3>2 DEF Job
      <3> QED  BY <2>4, <3>1, <3>2
    <2>7. files \in [Kinds -> File]
      BY DEF IInv, TypeOK
    <2> QED  BY <2>1, <2>2, <2>3, <2>5, <2>6, <2>7
  <1>2. app' = app
    BY DEF WritePayload, WriteSig, RekorUploaded, RekorFails, Crash
  <1>3. CASE Kind # "manifest"
    <2>1. files'["manifest"] = files["manifest"] /\ shipped' = shipped
      BY <1>1, <1>3
      DEF WritePayload, WriteSig, RekorUploaded, RekorFails, Crash, Done, Kinds
    <2>2. job' # NoJob => job'.payload.spec # "manifest"
      BY <1>1, <1>3 DEF Kind
    <2> QED  BY <1>2, <2>1, <2>2, ReleaseKept
  <1>4. CASE Kind = "manifest"
    <2> DEFINE f == files["manifest"]
    <2>1. /\ job.payload \in Manifest /\ job.payload.assets = app
          /\ ~job.payload.logged /\ shipped = NoRelease
          /\ job.bundle # Malformed => ByKeyFiles(job.bundle)
          /\ job.step # "gate" => Released(job.payload, job.bundle)
          /\ job.step \in {"sig", "rekor"} => f.payload = job.payload
          /\ job.step = "rekor" => f.sig = job.bundle
          /\ f \in File /\ "manifest" \in Kinds
          /\ SigInv
      BY <1>1, <1>4 DEF ReleaseInv, SignInv, Kinds
    <2>2. \A x : /\ [f EXCEPT !.payload = x].payload = x
                 /\ [f EXCEPT !.payload = x].sig = f.sig
                 /\ [f EXCEPT !.sig = x].sig = x
                 /\ [f EXCEPT !.sig = x].payload = f.payload
      BY <2>1 DEF File
    <2>3. CASE WritePayload
      <3>1. /\ files'["manifest"].payload = job.payload /\ files'["manifest"].sig = f.sig
            /\ job'.step = "sig" /\ shipped' = shipped
        BY <1>1, <1>4, <2>1, <2>2, <2>3, PublisherAssumption DEF WritePayload
      <3>2. job.step # "gate"
        BY <2>3 DEF WritePayload
      <3> QED  BY <1>1, <1>2, <2>1, <3>1, <3>2
               DEF ReleaseInv, SignInv, SigInv, ShippedInv
    <2>4. CASE WriteSig
      <3>1. /\ files'["manifest"].payload = job.payload
            /\ files'["manifest"].sig = job.bundle /\ Released(job.payload, job.bundle)
        BY <1>1, <1>4, <2>1, <2>2, <2>4 DEF WriteSig
      <3>2. SigInv'
        BY <2>1, <3>1 DEF SigInv
      <3>3. CASE job.upload
        <4>1. job'.step = "rekor" /\ shipped' = shipped
          BY <1>1, <2>4, <3>3 DEF WriteSig
        <4> QED  BY <1>1, <1>2, <2>1, <3>1, <3>2, <4>1
                 DEF ReleaseInv, SignInv, ShippedInv
      <3>4. CASE ~job.upload
        <4>1. job' = NoJob /\ shipped' = job.payload
          BY <1>4, <2>4, <3>4 DEF WriteSig, Done
        <4>2. [job.payload EXCEPT !.logged = FALSE] = job.payload
          BY <2>1, Unlogged
        <4>3. ShippedInv'
          BY <1>2, <2>1, <3>1, <4>1, <4>2 DEF ShippedInv
        <4> QED  BY <3>2, <4>1, <4>3 DEF ReleaseInv, SignInv
      <3> QED  BY <3>3, <3>4
    <2>5. CASE RekorUploaded
      <3> DEFINE m == [job.payload EXCEPT !.logged = TRUE]
      <3>1. /\ files'["manifest"].payload = m /\ files'["manifest"].sig = job.bundle
            /\ Released(job.payload, job.bundle) /\ job' = NoJob /\ shipped' = m
        BY <1>1, <1>4, <2>1, <2>2, <2>5 DEF RekorUploaded, Done
      <3>2. [m EXCEPT !.logged = FALSE] = job.payload /\ m.assets = job.payload.assets
        BY <2>1, Unlogged
      <3> HIDE DEF m
      <3> QED  BY <1>2, <2>1, <3>1, <3>2 DEF ReleaseInv, SignInv, SigInv, ShippedInv
    <2>6. CASE RekorFails
      <3>1. /\ files' = files /\ job' = NoJob /\ shipped' = job.payload
            /\ f.payload = job.payload
            /\ f.sig = job.bundle /\ Released(job.payload, job.bundle)
        BY <1>4, <2>1, <2>6 DEF RekorFails, Done
      <3>2. [job.payload EXCEPT !.logged = FALSE] = job.payload
        BY <2>1, Unlogged
      <3> QED  BY <1>2, <2>1, <3>1, <3>2 DEF ReleaseInv, SignInv, SigInv, ShippedInv
    <2>7. CASE Crash
      <3>1. job' = NoJob /\ shipped' = NoRelease
        BY <2>1, <2>7 DEF Crash
      <3>2. \/ files'["manifest"].sig = f.sig
            \/ files'["manifest"].sig = Malformed
        <4>1. CASE files' = files
          BY <4>1
        <4>2. CASE files' = [files EXCEPT ![Kind].payload = Torn]
          BY <1>1, <1>4, <2>1, <2>2, <4>2
        <4>3. CASE files' = [files EXCEPT ![Kind].sig = Malformed]
          BY <1>1, <1>4, <2>1, <2>2, <4>3
        <4> QED  BY <2>7, <4>1, <4>2, <4>3 DEF Crash
      <3> QED  BY <2>1, <3>1, <3>2 DEF ReleaseInv, SignInv, SigInv, ShippedInv
    <2> QED  BY <2>3, <2>4, <2>5, <2>6, <2>7
  <1> QED  BY <1>3, <1>4

LEMMA ReleaseNext == ASSUME IInv, ReleaseInv, [Next]_vars PROVE ReleaseInv'
  <1>1. CASE Tick \/ UNCHANGED vars
    BY <1>1, ReleaseKept DEF Tick, vars
  <1>2. CASE \E b \in Builds : Build(b)
    BY <1>2, PublisherAssumption DEF Build, ReleaseInv, SignInv, SigInv, ShippedInv, Kinds
  <1>3. CASE \E root, to \in RootFiles, version \in Versions : Rotate(root, to, version)
    BY <1>3, ReleaseKept DEF Rotate, Run
  <1>4. CASE \E root \in RootFiles, version \in Versions, days \in Windows,
               list \in {<<k>> : k \in Keys} \cup (Keys \X Keys) :
               Revoke(root, list, version, days)
    BY <1>4, ReleaseKept DEF Revoke, Run
  <1>5. CASE Gate
    BY <1>5, ReleaseGate
  <1>6. CASE WritePayload \/ WriteSig \/ RekorUploaded \/ RekorFails \/ Crash
    BY <1>6, ReleaseWritten
  <1>7. CASE \E root \in RootFiles, version \in Versions, days \in Windows,
               noSri, upload \in BOOLEAN : Sign(root, version, days, noSri, upload)
    BY <1>7, ReleaseSign DEF IInv
  <1> QED  BY <1>1, <1>2, <1>3, <1>4, <1>5, <1>6, <1>7 DEF Next

LEMMA ReleaseInvariance == Spec => [](IInv /\ ReleaseInv)
  BY Initial, ReleaseInitial, NextStep, ReleaseNext, PTL DEF Spec

----------------------------------------------------------------------------
\* The two verdicts on the signatures.
LEMMA ReleasedReaches ==
    ASSUME NEW m, NEW bundle, Released(m, bundle)
    PROVE  /\ Reaches(m, bundle, m.trust_root, "manifest", Supported)
           /\ StructurallyValid(m) /\ ~(m.version > m.not_after)
  <1>1. VerifyManifest(m, bundle, m.trust_root, 0, m.version, Supported)
          \notin HardFailures
    BY DEF Released, HardFailures
  <1>2. /\ Reaches(m, bundle, m.trust_root, "manifest", Supported)
        /\ StructurallyValid(m)
    BY <1>1, AcceptedManifest
  <1> QED  BY <1>2 DEF StructurallyValid, Released, Manifest

\* Over another message than its own, a bundle of key files is tampered for every
\* set of algorithms or short for every one: its entries do not tell them apart.
LEMMA OtherMessage ==
    ASSUME NEW payload, NEW bundle, NEW root \in TrustRoot, NEW prefix,
           ValidRoot(root), root.sigalgs = Algs, ByKeyFiles(bundle),
           bundle.over # Message(prefix, payload),
           NEW algs \in (SUBSET Algs) \ {{}}
    PROVE  CheckThreshold(payload, bundle, root, prefix, algs) =
             IF \E key \in root.keys : \E alg \in Algs : <<key, alg>> \in Entries(bundle)
             THEN "tampered" ELSE "short"
  <1> DEFINE msg == Message(prefix, payload)
  <1>1. PICK signers \in SUBSET Keys : Entries(bundle) = signers \X Algs
    BY DEF ByKeyFiles
  <1>2. Active(root, algs) = algs /\ algs # {} /\ algs \subseteq Algs
    BY DEF Active
  <1>3. \A key, alg : ~Signs(bundle, key, alg, msg)
    BY DEF Signs
  <1>4. Broken(bundle, root, algs, msg) <=>
          \E key \in root.keys : \E alg \in Algs : <<key, alg>> \in Entries(bundle)
    BY <1>1, <1>2, <1>3 DEF Broken
  <1>5. Qualifying(bundle, root, algs, msg) = {}
    BY <1>2, <1>3 DEF Qualifying
  <1>6. ~(Cardinality(Qualifying(bundle, root, algs, msg)) >= root.threshold)
    BY <1>5, FS_EmptySet DEF ValidRoot, TrustRoot
  <1>7. CASE Broken(bundle, root, algs, msg)
    BY <1>2, <1>4, <1>7 DEF CheckThreshold
  <1>8. CASE ~Broken(bundle, root, algs, msg)
    BY <1>2, <1>4, <1>6, <1>8 DEF CheckThreshold
  <1> QED  BY <1>7, <1>8

LEMMA SameThreshold ==
    ASSUME NEW payload, NEW bundle, NEW pinned, NEW v, NEW today, NEW many, NEW few,
           ValidRoot(pinned), bundle # Malformed,
           CheckThreshold(payload, bundle, pinned, "manifest", many)
             = CheckThreshold(payload, bundle, pinned, "manifest", few)
    PROVE  VerifyManifest(payload, bundle, pinned, v, today, many)
             = VerifyManifest(payload, bundle, pinned, v, today, few)
  <1> DEFINE t == CheckThreshold(payload, bundle, pinned, "manifest", many)
  <1>1. t \in {"unsupported", "tampered", "short", "reached"}
    BY DEF CheckThreshold
  <1>2. CASE t = "unsupported"
    BY <1>2 DEF VerifyManifest
  <1>3. CASE t = "tampered"
    BY <1>3 DEF VerifyManifest
  <1>4. CASE t = "short"
    BY <1>4 DEF VerifyManifest
  <1>5. CASE t = "reached"
    BY <1>5 DEF VerifyManifest
  <1> QED  BY <1>1, <1>2, <1>3, <1>4, <1>5

\* The roots this command line writes (src/main.rs, trust_root_init) publish both
\* algorithms; a root for one of them only is legal, and unreadable to a browser
\* that has the other.
BothPublished == \A root \in RootFiles : root.sigalgs = Algs

\* VerifiersAgree: whatever pair of files of this or of other runs is on disk, a
\* verifier with one algorithm judges the manifest as one with both does.
THEOREM EveryVerifierAgrees == BothPublished /\ Spec => []VerifiersAgree
  <1>1. ASSUME BothPublished, IInv, ReleaseInv, Complete("manifest"),
               files["manifest"].payload # Torn,
               NEW algs \in (SUBSET Algs) \ {{}}, NEW others \in (SUBSET Algs) \ {{}}
        PROVE  LET m == files["manifest"].payload
                   Judged(a) == VerifyManifest(m, files["manifest"].sig,
                                               m.trust_root, 0, now, a)
               IN  Judged(algs) = Judged(others)
    <2> DEFINE m == files["manifest"].payload
               bundle == files["manifest"].sig
               root == m.trust_root
    <2>1. m \in Manifest
      BY <1>1, KindOf DEF IInv, TypeOK, File, Complete, Kinds
    <2>2. root \in TrustRoot /\ root.sigalgs = Algs
      BY <1>1, <2>1, PublisherAssumption DEF Manifest, BothPublished
    <2>3. CASE ~ValidRoot(root) \/ bundle = Malformed
      BY <2>3 DEF VerifyManifest
    <2>4. CASE ValidRoot(root) /\ bundle # Malformed
      <3>1. PICK r \in Manifest : Released(r, bundle)
        BY <1>1, <2>4 DEF ReleaseInv, SigInv, Complete
      <3>2. CheckThreshold(m, bundle, root, "manifest", algs)
              = CheckThreshold(m, bundle, root, "manifest", others)
        <4>1. CASE bundle.over # Message("manifest", m)
          <5>1. ByKeyFiles(bundle)
            BY <3>1 DEF Released
          <5>2. \A a \in (SUBSET Algs) \ {{}} :
                  CheckThreshold(m, bundle, root, "manifest", a) =
                    IF \E key \in root.keys : \E alg \in Algs :
                          <<key, alg>> \in Entries(bundle)
                    THEN "tampered" ELSE "short"
            BY <2>2, <2>4, <4>1, <5>1, OtherMessage
          <5> QED  BY <5>2
        <4>2. CASE bundle.over = Message("manifest", m)
          <5>1. r = m
            BY <3>1, <4>2 DEF Released, Message
          <5>2. CheckThreshold(m, bundle, root, "manifest", Supported) = "reached"
            BY <3>1, <5>1, ReleasedReaches DEF Reaches
          <5>3. \A a \in (SUBSET Algs) \ {{}} :
                  CheckThreshold(m, bundle, root, "manifest", a) = "reached"
            BY <2>2, <5>2, FewerAlgorithmsReach DEF Supported, Active
          <5> QED  BY <5>3
        <4> QED  BY <4>1, <4>2
      <3> QED  BY <2>4, <3>2, SameThreshold
    <2> QED  BY <2>3, <2>4
  <1>2. BothPublished /\ IInv /\ ReleaseInv => VerifiersAgree
    BY <1>1 DEF VerifiersAgree
  <1>3. SUFFICES ASSUME BothPublished PROVE Spec => []VerifiersAgree
    BY DEF BothPublished
  <1>4. IInv /\ ReleaseInv => VerifiersAgree
    BY <1>2, <1>3
  <1> QED  BY <1>4, ReleaseInvariance, PTL

\* ShippedVerifies: through every later command that dies, fails or says something
\* else, what a finished sign left without a log entry is accepted until it expires,
\* and its assets match.
THEOREM ShippedStaysVerifiable == Spec => []ShippedVerifies
  <1>1. ASSUME IInv, ReleaseInv, shipped # NoRelease, ~shipped.logged,
               RevokedKeys(shipped.trust_root) = {}
        PROVE  /\ VerifyDist(shipped.trust_root, shipped.version)
                    = IF now > shipped.not_after THEN "EXPIRED" ELSE "VALID"
               /\ AssetsMatch
    <2> DEFINE bundle == files["manifest"].sig
               root == shipped.trust_root
    <2>1. /\ shipped \in Manifest /\ Released([shipped EXCEPT !.logged = FALSE], bundle)
          /\ files["manifest"].payload = shipped /\ shipped.assets = app
      BY <1>1 DEF IInv, TypeOK, ReleaseInv, ShippedInv
    <2>2. Released(shipped, bundle)
      BY <1>1, <2>1, Unlogged
    <2>3. root \in TrustRoot
      BY <2>1, PublisherAssumption DEF Manifest
    <2>4. [root EXCEPT !.keys = @ \ {}] = root
      BY <2>3 DEF TrustRoot
    <2>5. VerifyDist(root, shipped.version) =
            VerifyManifest(shipped, bundle, root, shipped.version, now, Supported)
      BY <1>1, <2>1, <2>4 DEF VerifyDist, VerifyManifestWithRevocation
    <2>6. /\ Reaches(shipped, bundle, root, "manifest", Supported)
          /\ StructurallyValid(shipped) /\ ~(shipped.version < shipped.version)
      BY <2>1, <2>2, ReleasedReaches DEF Manifest
    <2>7. VerifyManifest(shipped, bundle, root, shipped.version, now, Supported)
            = JudgeContents(shipped, root, shipped.version, now)
      BY <2>6 DEF VerifyManifest, Reaches
    <2>8. JudgeContents(shipped, root, shipped.version, now)
            = IF now > shipped.not_after THEN "EXPIRED" ELSE "VALID"
      BY <2>6 DEF JudgeContents
    <2> QED  BY <2>1, <2>5, <2>7, <2>8 DEF AssetsMatch
  <1>2. IInv /\ ReleaseInv => ShippedVerifies
    BY <1>1 DEF ShippedVerifies
  <1> QED  BY <1>2, ReleaseInvariance, PTL
============================================================================
