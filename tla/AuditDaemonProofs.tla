------------------------- MODULE AuditDaemonProofs -------------------------
(***************************************************************************)
(* What the daemon's audits say, for any deployment, any pages and any     *)
(* number of changes, failed requests and restarts.                        *)
(***************************************************************************)
EXTENDS AuditDaemon, TrustPolicyProofs

USE DEF daemon

----------------------------------------------------------------------------
(* The findings.                                                           *)

\* A manifest is refused, expired or valid.
LEMMA Verdicts ==
    ASSUME NEW payload, NEW bundle, NEW pinned, NEW v, NEW today, NEW supported,
           NEW revoked
    PROVE  VerifyManifestWithRevocation(payload, bundle, pinned, v, today, supported,
                                        revoked) \in HardFailures \cup {"EXPIRED", "VALID"}
  <1>1. ASSUME NEW root
        PROVE  VerifyManifest(payload, bundle, root, v, today, supported)
                 \in HardFailures \cup {"EXPIRED", "VALID"}
    <2> DEFINE t == CheckThreshold(payload, bundle, root, "manifest", supported)
    <2>1. t \in {"unsupported", "tampered", "short", "reached"}
      BY DEF CheckThreshold
    <2>2. JudgeContents(payload, root, v, today) \in HardFailures \cup {"EXPIRED", "VALID"}
      BY DEF JudgeContents, HardFailures
    <2>3. CASE t = "unsupported"
      BY <2>3 DEF VerifyManifest, HardFailures
    <2>4. CASE t = "tampered"
      BY <2>4 DEF VerifyManifest, HardFailures
    <2>5. CASE t = "short"
      BY <2>5 DEF VerifyManifest, HardFailures
    <2>6. CASE t = "reached"
      BY <2>2, <2>6 DEF VerifyManifest, HardFailures
    <2> QED  BY <2>1, <2>3, <2>4, <2>5, <2>6
  <1> QED  BY <1>1 DEF VerifyManifestWithRevocation, HardFailures

\* The verdict of an audit on a pair of answers.
Verdict(man, sig, revoked, today) ==
    VerifyManifestWithRevocation(man.body, sig.body, TrustRootFile, PinnedVersion,
                                 today, Supported, revoked)

\* A manifest that is not refused names assets by their keys.
LEMMA NamesKeys ==
    ASSUME NEW man \in Answers["manifest.json"], Ok(man), NEW sig, NEW revoked,
           NEW today, Verdict(man, sig, revoked, today) \notin HardFailures
    PROVE  DOMAIN man.body.assets \subseteq Paths /\ Pages(man.body) \subseteq Paths
  <1>1. StructurallyValid(man.body)
    <2>1. PICK root : VerifyManifest(man.body, sig.body, root, PinnedVersion, today,
                                     Supported) \notin HardFailures
      BY DEF Verdict, VerifyManifestWithRevocation, HardFailures
    <2> QED  BY <2>1, AcceptedManifest
  <1> QED  BY <1>1, DaemonAssumption DEF Pages

LEMMA OneFinding ==
    ASSUME NEW severity \in Nat, NEW kind, NEW subject
    PROVE  /\ Worst({Finding(severity, kind, subject)}, Warning) <=> severity <= 1
           /\ ~Worst({}, Warning)
           /\ Finding(severity, kind, subject).severity = severity
  BY DEF Worst, Finding, Warning

LEMMA StateIsFound ==
    ASSUME NEW s \in HardFailures \cup {"EXPIRED", "VALID"}
    PROVE  /\ Worst(StateFindings(s), Warning) <=> s # "VALID"
           /\ s = "VALID" => StateFindings(s) = {}
  <1> USE OneFinding DEF Critical, Warning
  <1>1. CASE s \in HardFailures
    <2>1. StateFindings(s) = {Finding(Critical, "manifest-verification-failed", "base")}
      BY <1>1 DEF StateFindings, HardFailures
    <2> QED  BY <1>1, <2>1 DEF HardFailures
  <1>2. CASE s = "EXPIRED"
    <2>1. StateFindings(s) = {Finding(Warning, "manifest-expired", "base")}
      BY <1>2 DEF StateFindings, HardFailures
    <2> QED  BY <1>2, <2>1
  <1>3. CASE s = "VALID"
    BY <1>3 DEF StateFindings, HardFailures
  <1> QED  BY <1>1, <1>2, <1>3

LEMMA WorstOfTwo ==
    ASSUME NEW F, NEW G, NEW threshold
    PROVE  Worst(F \cup G, threshold) <=> Worst(F, threshold) \/ Worst(G, threshold)
  BY DEF Worst

LEMMA RevocationIsNoFailure ==
    ASSUME NEW revoked
    PROVE  /\ ~Worst(RevocationFindings(revoked), Warning)
           /\ \A f \in RevocationFindings(revoked) : f.severity = Info
  <1>1. CASE revoked = {}
    BY <1>1, OneFinding DEF RevocationFindings
  <1>2. CASE revoked # {}
    <2>1. RevocationFindings(revoked) = {Finding(Info, "revocation-active", "base")}
      BY <1>2 DEF RevocationFindings
    <2> QED  BY <2>1, OneFinding DEF Info
  <1> QED  BY <1>1, <1>2

\* An asset is found fault with exactly when it is not served as it was signed.
LEMMA AssetIsFound ==
    ASSUME NEW path, NEW entry, NEW f \in Files, NEW res \in Answers[f]
    PROVE  /\ Worst(AssetFindings(path, res, entry), Warning) <=>
                ~AsSigned(res, entry)
           /\ AssetFindings(path, res, entry) # {} =>
                Worst(AssetFindings(path, res, entry), Warning)
  <1>1. /\ res.status \in Nat
        /\ res = [status |-> res.status, body |-> res.body,
                  content_type |-> res.content_type]
    BY DaemonAssumption
  <1>2. AsSigned(res, entry) <=> /\ res.status = 200 /\ res.body = entry.sha
                                 /\ res.content_type \in {entry.content_type, Untyped}
    BY DEF AsSigned
  <1> USE OneFinding DEF Critical, Warning
  <1>3. CASE res.status \in 300 .. 399
    <2>1. AssetFindings(path, res, entry) = {Finding(Critical, "redirected-asset", path)}
      BY <1>1, <1>3 DEF AssetFindings
    <2>2. ~AsSigned(res, entry)
      BY <1>2, <1>3
    <2> QED  BY <2>1, <2>2
  <1>4. CASE res.status \notin 300 .. 399 /\ res.status # 200
    <2>1. AssetFindings(path, res, entry) = {Finding(Critical, "asset-unavailable", path)}
      BY <1>1, <1>4 DEF AssetFindings
    <2> QED  BY <1>2, <1>4, <2>1
  <1>5. CASE res.status = 200 /\ res.body # entry.sha
    <2>1. AssetFindings(path, res, entry) = {Finding(Critical, "content-mismatch", path)}
      BY <1>1, <1>5 DEF AssetFindings
    <2> QED  BY <1>2, <1>5, <2>1
  <1>6. CASE res.status = 200 /\ res.body = entry.sha
    <2>1. AssetFindings(path, res, entry) =
            IF res.content_type \in {entry.content_type, Untyped} THEN {}
            ELSE {Finding(Warning, "content-type-mismatch", path)}
      BY <1>1, <1>6 DEF AssetFindings
    <2>2. CASE res.content_type \in {entry.content_type, Untyped}
      BY <1>2, <1>6, <2>1, <2>2
    <2>3. CASE res.content_type \notin {entry.content_type, Untyped}
      BY <1>2, <1>6, <2>1, <2>3
    <2> QED  BY <2>2, <2>3
  <1> QED  BY <1>3, <1>4, <1>5, <1>6

\* A tag is found fault with exactly when it is not sound.
LEMMA TagIsFound ==
    ASSUME NEW tag, NEW manifest
    PROVE  /\ Worst(TagFindings(tag, manifest), Warning) <=> ~Sound(tag, manifest.assets)
           /\ TagFindings(tag, manifest) # {} => Worst(TagFindings(tag, manifest), Warning)
  <1> DEFINE found == TagFindings(tag, manifest)
             signed == manifest.assets
  <1> USE OneFinding DEF Critical, Warning
  <1>1. CASE tag.ref = CrossOrigin
    BY <1>1 DEF TagFindings, Sound
  <1>2. CASE tag.ref # CrossOrigin /\ tag.ref \notin DOMAIN signed
    <2>1. PICK severity \in {0, 1} :
            found = {Finding(severity, "unmanifested-subresource", tag.ref)}
      BY <1>2 DEF TagFindings
    <2> QED  BY <1>2, <2>1 DEF Sound
  <1>3. CASE /\ tag.ref # CrossOrigin /\ tag.ref \in DOMAIN signed
             /\ tag.integrity # NoIntegrity
    <2>1. found = IF signed[tag.ref].sha \in tag.integrity THEN {}
                  ELSE {Finding(Critical, "sri-mismatch", tag.ref)}
      BY <1>3 DEF TagFindings
    <2>2. CASE signed[tag.ref].sha \in tag.integrity
      BY <1>3, <2>1, <2>2 DEF Sound
    <2>3. CASE signed[tag.ref].sha \notin tag.integrity
      BY <1>3, <2>1, <2>3 DEF Sound
    <2> QED  BY <2>2, <2>3
  <1>4. CASE /\ tag.ref # CrossOrigin /\ tag.ref \in DOMAIN signed
             /\ tag.integrity = NoIntegrity
    <2>1. PICK bare \in BOOLEAN : bare = (tag.name = "script" \/ tag.stylesheet)
      OBVIOUS
    <2>2. found = IF bare THEN {Finding(Warning, "missing-integrity", tag.ref)} ELSE {}
      BY <1>4, <2>1 DEF TagFindings
    <2>3. Sound(tag, signed) <=> ~bare
      BY <1>4, <2>1 DEF Sound
    <2>4. CASE bare
      BY <2>2, <2>3, <2>4
    <2>5. CASE ~bare
      BY <2>2, <2>3, <2>5
    <2> QED  BY <2>4, <2>5
  <1> QED  BY <1>1, <1>2, <1>3, <1>4

LEMMA PageIsFound ==
    ASSUME NEW path, NEW manifest, NEW res
    PROVE  /\ Worst(PageFindings(path, res, manifest), Warning) <=>
                /\ res.status = 200
                /\ ~ /\ Tags[res.body] # Unscannable
                     /\ \A tag \in Tags[res.body] : Sound(tag, manifest.assets)
           /\ PageFindings(path, res, manifest) # {} =>
                Worst(PageFindings(path, res, manifest), Warning)
  <1>1. CASE res.status # 200
    BY <1>1 DEF PageFindings, Worst
  <1>2. CASE res.status = 200 /\ Tags[res.body] = Unscannable
    BY <1>2 DEF PageFindings, Worst, Finding, Warning
  <1>3. CASE res.status = 200 /\ Tags[res.body] # Unscannable
    <2>1. PageFindings(path, res, manifest) =
            UNION {TagFindings(tag, manifest) : tag \in Tags[res.body]}
      BY <1>3 DEF PageFindings
    <2>2. Worst(PageFindings(path, res, manifest), Warning) <=>
            \E tag \in Tags[res.body] : Worst(TagFindings(tag, manifest), Warning)
      BY <2>1 DEF Worst
    <2>3. PageFindings(path, res, manifest) # {} =>
            \E tag \in Tags[res.body] : TagFindings(tag, manifest) # {}
      BY <2>1
    <2> QED  BY <1>3, <2>2, <2>3, TagIsFound
  <1> QED  BY <1>1, <1>2, <1>3

----------------------------------------------------------------------------
(* Types.                                                                  *)

Got == [manifest: Answers["manifest.json"] \cup {NoAnswer},
        sig: Answers["manifest.sig"] \cup {NoAnswer},
        revocation: Answers["revocation.json"] \cup {NoAnswer}]

\* What an audit has in hand at each of its steps.
AuditTyped ==
    audit # Idle =>
      /\ audit.step \in Steps /\ audit.todo \subseteq Paths /\ audit.got \in Got
      /\ audit = [step |-> audit.step, got |-> audit.got, todo |-> audit.todo,
                  findings |-> audit.findings]
      /\ audit.step \notin {"manifest", "done"} =>
           audit.got.manifest \in Answers["manifest.json"]
      /\ audit.step \in {"revocation", "revocation_sig"} =>
           /\ audit.got.sig \in Answers["manifest.sig"]
           /\ Ok(audit.got.manifest) /\ Ok(audit.got.sig)
      /\ audit.step \in {"pages", "assets"} => DOMAIN Manifest.assets \subseteq Paths
      /\ audit.step = "pages" => audit.todo \subseteq Pages(Manifest)
      /\ audit.step = "assets" => audit.todo \subseteq DOMAIN Manifest.assets

OriginTyped ==
    /\ origin \in [Files -> UNION {Answers[f] : f \in Files}]
    /\ \A f \in Files : origin[f] \in Answers[f]

StatusTyped == status \in [is_failing: BOOLEAN, age: 0 .. Heartbeat]
AlertTyped == alert \in [event: Event, attempts: 0 .. 2] \cup {NoAlert}
CountsTyped ==
    /\ day \in 1 .. MaxDay /\ changes \in 0 .. MaxChanges
    /\ incidents \in 0 .. MaxIncidents /\ steady \in BOOLEAN
    /\ inbox \in Event \cup {Silent}

Typed == OriginTyped /\ CountsTyped /\ AuditTyped /\ StatusTyped /\ AlertTyped

\* An audit as its record.
Record(step, got, todo, findings) ==
    [step |-> step, got |-> got, todo |-> todo, findings |-> findings]

LEMMA UnaskedTyped == Unasked \in Got
  BY DEF Unasked, Got

\* Every answer a request may get is one of the file's, or none.
LEMMA AnswerTyped ==
    ASSUME OriginTyped, NEW f \in Files, NEW res \in Answer(f), res # NoAnswer
    PROVE  res = origin[f] /\ res \in Answers[f]
  BY DEF OriginTyped, Answer

LEMMA FilesAre ==
    /\ "manifest.json" \in Files /\ "manifest.sig" \in Files
    /\ "revocation.json" \in Files /\ "revocation.sig" \in Files
    /\ Paths \subseteq Files
  BY DEF Files, Statements

\* What a step that takes an answer makes of the audit.
LEMMA Taken ==
    ASSUME AuditTyped, audit # Idle, NEW name \in {"manifest", "sig", "revocation"},
           NEW res, NEW step, Take(name, res, step)
    PROVE  /\ audit' = Record(step, audit'.got, audit.todo, audit.findings)
           /\ audit'.got = [manifest |-> IF name = "manifest" THEN res
                                         ELSE audit.got.manifest,
                            sig |-> IF name = "sig" THEN res ELSE audit.got.sig,
                            revocation |-> IF name = "revocation" THEN res
                                           ELSE audit.got.revocation]
  <1>1. /\ audit.got = [manifest |-> audit.got.manifest, sig |-> audit.got.sig,
                        revocation |-> audit.got.revocation]
        /\ audit = Record(audit.step, audit.got, audit.todo, audit.findings)
    BY DEF AuditTyped, Got, Record
  <1>2. PICK got : got = [audit.got EXCEPT ![name] = res]
    OBVIOUS
  <1>3. audit' = Record(step, got, audit.todo, audit.findings)
    BY <1>1, <1>2 DEF Take, Record
  <1>4. got = [manifest |-> IF name = "manifest" THEN res ELSE audit.got.manifest,
               sig |-> IF name = "sig" THEN res ELSE audit.got.sig,
               revocation |-> IF name = "revocation" THEN res
                              ELSE audit.got.revocation]
    BY <1>1, <1>2
  <1> QED  BY <1>3, <1>4 DEF Record

\* What the verdict makes of it.
LEMMA Judged ==
    ASSUME AuditTyped, Running("revocation_sig"), NEW revoked, Judge(revoked)
    PROVE  LET state == Verdict(audit.got.manifest, audit.got.sig, revoked, day)
               findings == RevocationFindings(revoked) \cup StateFindings(state)
           IN  /\ state \in HardFailures => audit' = Record("done", Unasked, {}, findings)
               /\ state \notin HardFailures =>
                    /\ audit' = Record("pages", audit'.got,
                                       Pages(audit.got.manifest.body), findings)
                    /\ audit'.got = [manifest |-> audit.got.manifest,
                                     sig |-> NoAnswer, revocation |-> NoAnswer]
                    /\ DOMAIN audit.got.manifest.body.assets \subseteq Paths
                    /\ Pages(audit.got.manifest.body) \subseteq Paths
  <1> DEFINE state == Verdict(audit.got.manifest, audit.got.sig, revoked, day)
             findings == RevocationFindings(revoked) \cup StateFindings(state)
  <1>1. /\ audit.got.manifest \in Answers["manifest.json"]
        /\ Ok(audit.got.manifest)
    BY DEF AuditTyped, Running
  <1>2. CASE state \in HardFailures
    BY <1>2 DEF Judge, Done, Record, Verdict, Manifest
  <1>3. CASE state \notin HardFailures
    <2>1. PICK got : got = [Unasked EXCEPT !.manifest = audit.got.manifest]
      OBVIOUS
    <2>2. audit' = Record("pages", got, Pages(audit.got.manifest.body), findings)
      BY <1>3, <2>1 DEF Judge, Record, Verdict, Manifest
    <2>3. got = [manifest |-> audit.got.manifest, sig |-> NoAnswer,
                 revocation |-> NoAnswer]
      BY <2>1 DEF Unasked
    <2>4. /\ DOMAIN audit.got.manifest.body.assets \subseteq Paths
          /\ Pages(audit.got.manifest.body) \subseteq Paths
      BY <1>1, <1>3, NamesKeys
    <2> QED  BY <1>3, <2>2, <2>3, <2>4 DEF Record
  <1> QED  BY <1>2, <1>3

LEMMA TypedInit == Init => Typed
  <1> SUFFICES ASSUME Init PROVE Typed
    OBVIOUS
  <1> USE DEF Init
  <1>1. OriginTyped
    BY DaemonAssumption DEF OriginTyped
  <1>2. CountsTyped
    BY DaemonAssumption DEF CountsTyped
  <1>3. AuditTyped /\ AlertTyped
    BY DEF AuditTyped, AlertTyped
  <1>4. StatusTyped
    BY DaemonAssumption DEF StatusTyped
  <1> QED  BY <1>1, <1>2, <1>3, <1>4 DEF Typed

\* An audit that is over, or was given up.
LEMMA AuditOver ==
    ASSUME \/ audit' = Idle
           \/ \E F : audit' = Record("done", Unasked, {}, F)
    PROVE  AuditTyped'
  BY UnaskedTyped DEF AuditTyped, Record, Steps

\* An audit that goes on.
LEMMA AuditGoesOn ==
    ASSUME NEW step \in Steps, NEW got \in Got, NEW todo \in SUBSET Paths, NEW F,
           audit' = Record(step, got, todo, F),
           step \notin {"manifest", "done"} => got.manifest \in Answers["manifest.json"],
           step \in {"revocation", "revocation_sig"} =>
             got.sig \in Answers["manifest.sig"] /\ Ok(got.manifest) /\ Ok(got.sig),
           step \in {"pages", "assets"} =>
             DOMAIN got.manifest.body.assets \subseteq Paths,
           step = "pages" => todo \subseteq Pages(got.manifest.body),
           step = "assets" => todo \subseteq DOMAIN got.manifest.body.assets
    PROVE  AuditTyped'
  <1>1. /\ audit' = [step |-> step, got |-> got, todo |-> todo, findings |-> F]
        /\ audit'.step = step /\ audit'.got = got /\ audit'.todo = todo
        /\ audit'.findings = F
    BY DEF Record
  <1> QED  BY <1>1 DEF AuditTyped, Manifest

LEMMA TypedStep == Typed /\ [Next]_vars => Typed'
  <1> SUFFICES ASSUME Typed, [Next]_vars PROVE Typed'
    OBVIOUS
  <1> USE DEF Typed
  <1>0. CASE UNCHANGED vars
    BY <1>0 DEF vars, OriginTyped, CountsTyped, AuditTyped, StatusTyped, AlertTyped,
                Manifest
  <1>1. ASSUME NEW f \in Files, Change(f) PROVE Typed'
    <2>1. PICK res \in Answers[f] : origin' = [origin EXCEPT ![f] = res]
      BY <1>1 DEF Change
    <2>2. OriginTyped'
      BY <2>1 DEF OriginTyped
    <2>3. CountsTyped'
      <3>1. steady' \in BOOLEAN /\ UNCHANGED <<day, incidents, inbox>>
        BY <1>1 DEF Change
      <3>2. changes' \in 0 .. MaxChanges
        BY <1>1, DaemonAssumption DEF Change, CountsTyped
      <3> QED  BY <3>1, <3>2 DEF CountsTyped
    <2> QED  BY <1>1, <2>2, <2>3 DEF Change, AuditTyped, StatusTyped, AlertTyped, Manifest
  <1>2. CASE Deploy
    <2>1. OriginTyped'
      BY <1>2, DaemonAssumption DEF Deploy, OriginTyped
    <2>2. CountsTyped'
      <3>1. steady' \in BOOLEAN /\ UNCHANGED <<day, incidents, inbox>>
        BY <1>2 DEF Deploy
      <3>2. changes' \in 0 .. MaxChanges
        BY <1>2, DaemonAssumption DEF Deploy, CountsTyped
      <3> QED  BY <3>1, <3>2 DEF CountsTyped
    <2> QED  BY <1>2, <2>1, <2>2 DEF Deploy, AuditTyped, StatusTyped, AlertTyped, Manifest
  <1>3. CASE NextDay
    <2>1. CountsTyped'
      <3>1. steady' \in BOOLEAN /\ UNCHANGED <<changes, incidents, inbox>>
        BY <1>3 DEF NextDay
      <3>2. day' \in 1 .. MaxDay
        BY <1>3, DaemonAssumption DEF NextDay, CountsTyped
      <3> QED  BY <3>1, <3>2 DEF CountsTyped
    <2> QED  BY <1>3, <2>1 DEF NextDay, OriginTyped, AuditTyped, StatusTyped, AlertTyped,
                              Manifest
  <1>4. CASE Restart
    <2>1. CountsTyped'
      BY <1>4, DaemonAssumption DEF Restart, Incident, Environment, CountsTyped
    <2>2. StatusTyped' /\ AlertTyped' /\ OriginTyped'
      BY <1>4, DaemonAssumption DEF Restart, Environment, StatusTyped, AlertTyped,
                                    OriginTyped
    <2>3. AuditTyped'
      BY <1>4, AuditOver DEF Restart
    <2> QED  BY <2>1, <2>2, <2>3
  <1>5. CASE Tick
    <2>1. audit' = Record("manifest", Unasked, {}, {})
      BY <1>5 DEF Tick, Record
    <2>2. AuditTyped'
      BY <2>1, UnaskedTyped DEF AuditTyped, Record, Steps
    <2>3. PICK elapsed \in {1, Heartbeat} : status' = [status EXCEPT !.age =
            IF status.age + elapsed < Heartbeat THEN status.age + elapsed ELSE Heartbeat]
      BY <1>5 DEF Tick
    <2>4. StatusTyped'
      <3>1. PICK age \in 0 .. Heartbeat : status' = [status EXCEPT !.age = age]
        <4>1. status.age \in Nat /\ elapsed \in Nat /\ Heartbeat \in Nat
          BY DaemonAssumption DEF StatusTyped
        <4>2. (IF status.age + elapsed < Heartbeat THEN status.age + elapsed
               ELSE Heartbeat) \in 0 .. Heartbeat
          BY <4>1
        <4> QED  BY <2>3, <4>2
      <3> QED  BY <3>1 DEF StatusTyped
    <2> QED  BY <1>5, <2>2, <2>4 DEF Tick, OriginTyped, CountsTyped, AlertTyped
  \* A request is counted when it fails, and changes nothing else.
  <1>a. ASSUME NEW f, NEW res, Get(f, res) PROVE incidents' \in 0 .. MaxIncidents
    BY <1>a, DaemonAssumption DEF Get, Incident, CountsTyped
  <1>b. ASSUME UNCHANGED <<origin, day, changes, inbox, status, alert>>,
               incidents' \in 0 .. MaxIncidents, steady' \in BOOLEAN
        PROVE  OriginTyped' /\ CountsTyped' /\ StatusTyped' /\ AlertTyped'
    BY <1>b DEF OriginTyped, CountsTyped, StatusTyped, AlertTyped
  <1>6. CASE GetManifest
    <2>1. PICK res \in Answer("manifest.json") :
            /\ Get("manifest.json", res)
            /\ IF res = NoAnswer THEN Fails ELSE Take("manifest", res, "sig")
      BY <1>6 DEF GetManifest
    <2>2. audit # Idle
      BY <1>6 DEF GetManifest, Running
    <2>3. ASSUME res = NoAnswer PROVE AuditTyped'
      BY <2>1, <2>3, AuditOver DEF Fails
    <2>4. ASSUME res # NoAnswer PROVE AuditTyped'
      <3>1. res \in Answers["manifest.json"]
        BY <2>4, AnswerTyped, FilesAre
      <3>2. Take("manifest", res, "sig")
        BY <2>1, <2>4
      <3>3. PICK got : got = [manifest |-> res, sig |-> audit.got.sig,
                              revocation |-> audit.got.revocation]
        OBVIOUS
      <3>4. audit' = Record("sig", got, audit.todo, audit.findings)
        BY <2>2, <3>2, <3>3, Taken
      <3>5. got \in Got /\ audit.todo \in SUBSET Paths /\ got.manifest = res
        BY <2>2, <3>1, <3>3 DEF AuditTyped, Got
      <3> QED  BY <3>1, <3>4, <3>5, AuditGoesOn DEF Steps
    <2>5. AuditTyped'
      BY <2>3, <2>4
    <2> QED  BY <1>6, <2>1, <2>5, <1>a, <1>b DEF GetManifest, Environment, CountsTyped
  <1>7. CASE GetSig
    <2>1. PICK res \in Answer("manifest.sig") :
            /\ Get("manifest.sig", res)
            /\ IF res = NoAnswer THEN Fails
               ELSE IF Ok(audit.got.manifest) /\ Ok(res) THEN Take("sig", res, "revocation")
               ELSE Done(Unavailable)
      BY <1>7 DEF GetSig
    <2>2. audit # Idle /\ audit.step = "sig"
      BY <1>7 DEF GetSig, Running
    <2>3. ASSUME res = NoAnswer \/ ~(Ok(audit.got.manifest) /\ Ok(res))
          PROVE  AuditTyped'
      BY <2>1, <2>3, AuditOver DEF Fails, Done, Record
    <2>4. ASSUME res # NoAnswer, Ok(audit.got.manifest), Ok(res) PROVE AuditTyped'
      <3>1. res \in Answers["manifest.sig"]
        BY <2>4, AnswerTyped, FilesAre
      <3>2. Take("sig", res, "revocation")
        BY <2>1, <2>4
      <3>3. PICK got : got = [manifest |-> audit.got.manifest, sig |-> res,
                              revocation |-> audit.got.revocation]
        OBVIOUS
      <3>4. audit' = Record("revocation", got, audit.todo, audit.findings)
        BY <2>2, <3>2, <3>3, Taken
      <3>5. /\ got \in Got /\ audit.todo \in SUBSET Paths
            /\ got.manifest \in Answers["manifest.json"] /\ Ok(got.manifest)
            /\ got.sig \in Answers["manifest.sig"] /\ Ok(got.sig)
        BY <2>2, <2>4, <3>1, <3>3 DEF AuditTyped, Got
      <3> QED  BY <3>4, <3>5, AuditGoesOn DEF Steps
    <2>5. AuditTyped'
      BY <2>3, <2>4
    <2> QED  BY <1>7, <2>1, <2>5, <1>a, <1>b DEF GetSig, Environment, CountsTyped
  <1>8. CASE GetRevocation
    <2>1. PICK res \in Answer("revocation.json") :
            /\ Get("revocation.json", res)
            /\ steady' = (steady /\ res # NoAnswer)
            /\ Take("revocation", res, "revocation_sig")
      BY <1>8 DEF GetRevocation
    <2>2. audit # Idle /\ audit.step = "revocation"
      BY <1>8 DEF GetRevocation, Running
    <2>3. res \in Answers["revocation.json"] \cup {NoAnswer}
      BY AnswerTyped, FilesAre
    <2>4. AuditTyped'
      <3>3. PICK got : got = [manifest |-> audit.got.manifest, sig |-> audit.got.sig,
                              revocation |-> res]
        OBVIOUS
      <3>4. audit' = Record("revocation_sig", got, audit.todo, audit.findings)
        BY <2>1, <2>2, <3>3, Taken
      <3>5. /\ got \in Got /\ audit.todo \in SUBSET Paths
            /\ got.manifest \in Answers["manifest.json"] /\ Ok(got.manifest)
            /\ got.sig \in Answers["manifest.sig"] /\ Ok(got.sig)
        BY <2>2, <2>3, <3>3 DEF AuditTyped, Got
      <3> QED  BY <3>4, <3>5, AuditGoesOn DEF Steps
    <2>5. steady' \in BOOLEAN
      BY <2>1 DEF CountsTyped
    <2> QED  BY <1>8, <2>1, <2>4, <2>5, <1>a, <1>b DEF GetRevocation, Environment
  <1>9. CASE GetRevocationSig
    <2>1. PICK res \in Answer("revocation.sig") :
            /\ Get("revocation.sig", res)
            /\ steady' = (steady /\ res # NoAnswer)
            /\ Judge(RevokedKeys(audit.got.revocation, res, TrustRootFile, day))
      BY <1>9 DEF GetRevocationSig
    <2>2. PICK revoked : revoked = RevokedKeys(audit.got.revocation, res, TrustRootFile, day)
      OBVIOUS
    <2>3. Running("revocation_sig") /\ Judge(revoked)
      BY <1>9, <2>1, <2>2 DEF GetRevocationSig
    <2>4. AuditTyped'
      <3>1. /\ audit.got.manifest \in Answers["manifest.json"]
            /\ Ok(audit.got.manifest)
        BY <2>3 DEF AuditTyped, Running
      <3>2. CASE Verdict(audit.got.manifest, audit.got.sig, revoked, day) \in HardFailures
        BY <2>3, <3>2, Judged, AuditOver
      <3>3. CASE Verdict(audit.got.manifest, audit.got.sig, revoked, day) \notin HardFailures
        <4>1. PICK got : got = [manifest |-> audit.got.manifest, sig |-> NoAnswer,
                                revocation |-> NoAnswer]
          OBVIOUS
        <4>2. \E F : audit' = Record("pages", got, Pages(audit.got.manifest.body), F)
          BY <2>3, <3>3, <4>1, Judged
        <4>3. /\ DOMAIN audit.got.manifest.body.assets \subseteq Paths
              /\ Pages(audit.got.manifest.body) \subseteq Paths
          BY <2>3, <3>3, Judged
        <4>4. got \in Got /\ got.manifest = audit.got.manifest
          BY <3>1, <4>1 DEF Got
        <4> QED  BY <3>1, <4>2, <4>3, <4>4, AuditGoesOn DEF Steps
      <3> QED  BY <3>2, <3>3
    <2>5. steady' \in BOOLEAN
      BY <2>1 DEF CountsTyped
    <2> QED  BY <1>9, <2>1, <2>4, <2>5, <1>a, <1>b DEF GetRevocationSig, Environment
  <1>10. ASSUME NEW path \in Paths, WalkPage(path) PROVE Typed'
    <2>1. PICK res \in Answer(path) :
            /\ Get(path, res)
            /\ IF res = NoAnswer THEN Fails
               ELSE audit' = [audit EXCEPT !.todo = @ \ {path},
                      !.findings = @ \cup PageFindings(path, res, Manifest)]
      BY <1>10 DEF WalkPage
    <2>2. audit # Idle /\ audit.step = "pages"
      BY <1>10 DEF WalkPage, Running
    <2>3. ASSUME res = NoAnswer PROVE AuditTyped'
      BY <2>1, <2>3, AuditOver DEF Fails
    <2>4. ASSUME res # NoAnswer PROVE AuditTyped'
      <3>1. audit' = Record("pages", audit.got, audit.todo \ {path},
                            audit.findings \cup PageFindings(path, res, Manifest))
        BY <2>1, <2>2, <2>4 DEF AuditTyped, Record
      <3>2. PICK todo, F : /\ todo = audit.todo \ {path}
                           /\ audit' = Record(audit.step, audit.got, todo, F)
        BY <2>2, <3>1
      <3>3. /\ audit.got \in Got /\ todo \in SUBSET Paths
            /\ audit.got.manifest \in Answers["manifest.json"]
            /\ DOMAIN audit.got.manifest.body.assets \subseteq Paths
            /\ audit.step = "pages" => todo \subseteq Pages(audit.got.manifest.body)
            /\ audit.step = "assets" =>
                 todo \subseteq DOMAIN audit.got.manifest.body.assets
        BY <2>2, <3>2 DEF AuditTyped, Manifest
      <3> QED  BY <2>2, <3>2, <3>3, AuditGoesOn DEF Steps
    <2>5. AuditTyped'
      BY <2>3, <2>4
    <2> QED  BY <1>10, <2>1, <2>5, <1>a, <1>b DEF WalkPage, Environment, CountsTyped
  <1>11. CASE EndWalk
    <2>1. audit # Idle /\ audit.step = "pages"
      BY <1>11 DEF EndWalk, Running
    <2>2. ASSUME GraphOnly PROVE AuditTyped'
      BY <1>11, <2>2, AuditOver DEF EndWalk, Done, Record
    <2>3. ASSUME ~GraphOnly PROVE AuditTyped'
      <3>1. audit' = Record("assets", audit.got, DOMAIN Manifest.assets, audit.findings)
        BY <1>11, <2>1, <2>3 DEF EndWalk, AuditTyped, Record
      <3> QED  BY <2>1, <3>1, AuditGoesOn DEF AuditTyped, Manifest, Steps
    <2>4. AuditTyped'
      BY <2>2, <2>3
    <2> QED  BY <1>11, <2>4, <1>b DEF EndWalk, Environment, CountsTyped
  <1>12. ASSUME NEW path \in Paths, ProbeAsset(path) PROVE Typed'
    <2>1. PICK res \in Answer(path) :
            /\ Get(path, res)
            /\ IF res = NoAnswer THEN Fails
               ELSE audit' = [audit EXCEPT !.todo = @ \ {path},
                      !.findings = @ \cup AssetFindings(path, res, Manifest.assets[path])]
      BY <1>12 DEF ProbeAsset
    <2>2. audit # Idle /\ audit.step = "assets"
      BY <1>12 DEF ProbeAsset, Running
    <2>3. ASSUME res = NoAnswer PROVE AuditTyped'
      BY <2>1, <2>3, AuditOver DEF Fails
    <2>4. ASSUME res # NoAnswer PROVE AuditTyped'
      <3>1. audit' = Record("assets", audit.got, audit.todo \ {path},
                       audit.findings \cup AssetFindings(path, res, Manifest.assets[path]))
        BY <2>1, <2>2, <2>4 DEF AuditTyped, Record
      <3>2. PICK todo, F : /\ todo = audit.todo \ {path}
                           /\ audit' = Record(audit.step, audit.got, todo, F)
        BY <2>2, <3>1
      <3>3. /\ audit.got \in Got /\ todo \in SUBSET Paths
            /\ audit.got.manifest \in Answers["manifest.json"]
            /\ DOMAIN audit.got.manifest.body.assets \subseteq Paths
            /\ audit.step = "pages" => todo \subseteq Pages(audit.got.manifest.body)
            /\ audit.step = "assets" =>
                 todo \subseteq DOMAIN audit.got.manifest.body.assets
        BY <2>2, <3>2 DEF AuditTyped, Manifest
      <3> QED  BY <2>2, <3>2, <3>3, AuditGoesOn DEF Steps
    <2>5. AuditTyped'
      BY <2>3, <2>4
    <2> QED  BY <1>12, <2>1, <2>5, <1>a, <1>b DEF ProbeAsset, Environment, CountsTyped
  <1>13. CASE EndProbe
    <2>1. AuditTyped'
      BY <1>13, AuditOver DEF EndProbe, Done, Record
    <2> QED  BY <1>13, <2>1, <1>b DEF EndProbe, Environment, CountsTyped
  <1>14. CASE Finish
    <2>1. AuditTyped'
      BY <1>14, AuditOver DEF Finish
    <2>2. StatusTyped' /\ AlertTyped'
      <3>1. \/ UNCHANGED <<status, alert>>
            \/ /\ \E f \in BOOLEAN : status' = [is_failing |-> f, age |-> 0]
               /\ \E event \in Event : alert' = [event |-> event, attempts |-> 0]
        BY <1>14 DEF Finish, Report, Send, Event
      <3> QED  BY <3>1, DaemonAssumption DEF StatusTyped, AlertTyped
    <2> QED  BY <1>14, <2>1, <2>2 DEF Finish, Environment, OriginTyped, CountsTyped
  <1>15. CASE Attempt
    <2>1. alert \in [event: Event, attempts: 0 .. 2]
      BY <1>15 DEF Attempt, AlertTyped
    <2>2. AlertTyped'
      BY <1>15, <2>1 DEF Attempt, AlertTyped, AttemptsLeft
    <2>3. inbox' \in Event \cup {Silent} /\ incidents' \in 0 .. MaxIncidents
      BY <1>15, <2>1, DaemonAssumption DEF Attempt, Incident, CountsTyped
    <2> QED  BY <1>15, <2>2, <2>3 DEF Attempt, OriginTyped, CountsTyped, AuditTyped,
                                      StatusTyped, Manifest
  <1> QED  BY <1>0, <1>1, <1>2, <1>3, <1>4, <1>5, <1>6, <1>7, <1>8, <1>9, <1>10, <1>11,
              <1>12, <1>13, <1>14, <1>15 DEF Next, Progress

\* Types: an audit asks in the code's order, holds what each file may answer, and
\* walks only what its manifest names; an alert is never tried a fourth time.
THEOREM DaemonTyping == Spec => []TypeOK
  <1>1. Spec => []Typed
    BY TypedInit, TypedStep, PTL DEF Spec
  <1>2. Typed => TypeOK
    BY DEF Typed, TypeOK, OriginTyped, CountsTyped, AuditTyped, Got, StatusTyped,
           AlertTyped
  <1> QED  BY <1>1, <1>2, PTL

----------------------------------------------------------------------------
(* What an audit that nothing disturbed finds.                             *)

\* The answers of the origin, as they are judged today.
Man == origin["manifest.json"]
Sig == origin["manifest.sig"]
TodaysVerdict == Verdict(Man, Sig, RevokedBy(origin, day), day)

BadPage(p)  == Worst(PageFindings(p, origin[p], Man.body), Warning)
BadAsset(p) == Worst(AssetFindings(p, origin[p], Man.body.assets[p]), Warning)

\* What is genuine is what an audit of every file finds no fault with.
LEMMA GenuineMeans ==
    ASSUME OriginTyped
    PROVE  Genuine <=> /\ Ok(Man) /\ Ok(Sig) /\ TodaysVerdict = "VALID"
                       /\ \A p \in DOMAIN Man.body.assets : ~BadAsset(p)
                       /\ \A p \in Pages(Man.body) : ~BadPage(p)
  <1>1. CASE ~(Ok(Man) /\ Ok(Sig) /\ TodaysVerdict = "VALID")
    BY <1>1 DEF Genuine, Deployed, Man, Sig, TodaysVerdict, Verdict, RevokedBy
  <1>2. CASE Ok(Man) /\ Ok(Sig) /\ TodaysVerdict = "VALID"
    <2> DEFINE signed == Man.body.assets
               AllSound(p) == /\ Tags[signed[p].sha] # Unscannable
                              /\ \A tag \in Tags[signed[p].sha] : Sound(tag, signed)
    <2>1. Genuine <=> /\ \A p \in DOMAIN signed : AsSigned(origin[p], signed[p])
                      /\ \A p \in Pages(Man.body) : AllSound(p)
      BY <1>2 DEF Genuine, Deployed, Man, Sig, TodaysVerdict, Verdict
    <2>2. DOMAIN signed \subseteq Paths /\ Man \in Answers["manifest.json"]
      <3>1. Man \in Answers["manifest.json"]
        BY FilesAre DEF OriginTyped, Man
      <3> QED  BY <1>2, <3>1, NamesKeys DEF TodaysVerdict, HardFailures
    <2>3. ASSUME NEW p \in DOMAIN signed PROVE AsSigned(origin[p], signed[p]) <=> ~BadAsset(p)
      <3>1. p \in Files /\ origin[p] \in Answers[p]
        BY <2>2, FilesAre DEF OriginTyped
      <3>2. PICK entry : entry = signed[p]
        OBVIOUS
      <3>3. Worst(AssetFindings(p, origin[p], entry), Warning) <=>
              ~AsSigned(origin[p], entry)
        BY <3>1, AssetIsFound
      <3> QED  BY <3>2, <3>3 DEF BadAsset
    <2>4. ASSUME NEW p \in DOMAIN signed, AsSigned(origin[p], signed[p])
          PROVE  AllSound(p) <=> ~BadPage(p)
      <3>1. origin[p].status = 200 /\ origin[p].body = signed[p].sha
        BY <2>4 DEF AsSigned
      <3> QED  BY <3>1, PageIsFound DEF BadPage
    <2>5. Pages(Man.body) \subseteq DOMAIN signed
      BY DEF Pages
    <2> HIDE DEF AllSound, signed
    <2>6. Genuine <=> /\ \A p \in DOMAIN signed : ~BadAsset(p)
                      /\ \A p \in Pages(Man.body) : ~BadPage(p)
      BY <2>1, <2>3, <2>4, <2>5
    <2> QED  BY <1>2, <2>6 DEF signed
  <1> QED  BY <1>1, <1>2

\* What the audit has in hand is what the origin serves, and its findings are
\* those of the files it has been through.
Undisturbed ==
    steady /\ audit # Idle =>
      /\ audit.step \notin {"manifest", "done"} => audit.got.manifest = Man
      /\ audit.step \in {"revocation", "revocation_sig"} => audit.got.sig = Sig
      /\ audit.step = "revocation_sig" => audit.got.revocation = origin["revocation.json"]
      /\ audit.step \in {"pages", "assets"} => Ok(Man) /\ Ok(Sig)
      /\ audit.step = "pages" =>
           (Worst(audit.findings, Warning) <=>
              \/ TodaysVerdict # "VALID"
              \/ \E p \in Pages(Man.body) \ audit.todo : BadPage(p))
      /\ audit.step = "assets" =>
           (Worst(audit.findings, Warning) <=>
              \/ TodaysVerdict # "VALID"
              \/ \E p \in Pages(Man.body) : BadPage(p)
              \/ \E p \in DOMAIN Man.body.assets \ audit.todo : BadAsset(p))
      /\ audit.step = "done" => (Worst(audit.findings, Warning) <=> ~Genuine)

\* As long as the origin and the day stay as they are, so does what they imply.
LEMMA SameOrigin ==
    ASSUME UNCHANGED <<origin, day>>
    PROVE  /\ Man' = Man /\ Sig' = Sig /\ TodaysVerdict' = TodaysVerdict
           /\ Genuine' <=> Genuine
           /\ \A p : (BadPage(p)' <=> BadPage(p)) /\ (BadAsset(p)' <=> BadAsset(p))
  BY DEF Man, Sig, TodaysVerdict, Genuine, BadPage, BadAsset

LEMMA UndisturbedStep ==
    ASSUME Typed, Undisturbed, ~GraphOnly, [Next]_vars
    PROVE  Undisturbed'
  <1> SUFFICES ASSUME steady', audit' # Idle PROVE Undisturbed'
    BY DEF Undisturbed
  <1>a. OriginTyped /\ AuditTyped
    BY DEF Typed
  <1>0. CASE UNCHANGED vars
    <2>1. UNCHANGED <<origin, day>>
      BY <1>0 DEF vars
    <2> QED  BY <1>0, <2>1, SameOrigin DEF vars, Undisturbed
  <1>1. CASE \/ \E f \in Files : Change(f)
             \/ Deploy \/ NextDay
    BY <1>1 DEF Change, Deploy, NextDay
  <1>2. CASE Restart \/ Finish
    BY <1>2 DEF Restart, Finish
  <1>3. CASE Attempt
    <2>1. UNCHANGED <<origin, day, audit, steady>>
      BY <1>3 DEF Attempt
    <2> QED  BY <2>1, SameOrigin DEF Undisturbed
  <1>4. CASE Tick
    <2>1. audit'.step = "manifest"
      BY <1>4 DEF Tick
    <2> QED  BY <2>1 DEF Undisturbed
  <1>5. CASE GetManifest
    <2>1. PICK res \in Answer("manifest.json") :
            IF res = NoAnswer THEN Fails ELSE Take("manifest", res, "sig")
      BY <1>5 DEF GetManifest
    <2>2. audit # Idle
      BY <1>5 DEF GetManifest, Running
    <2>3. res # NoAnswer /\ res = Man
      BY <2>1, <1>a, AnswerTyped, FilesAre DEF Fails, Man
    <2>4. audit'.step = "sig" /\ audit'.got.manifest = Man
      <3>1. Take("manifest", Man, "sig")
        BY <2>1, <2>3
      <3>2. /\ audit' = Record("sig", audit'.got, audit.todo, audit.findings)
            /\ audit'.got = [manifest |-> Man, sig |-> audit.got.sig,
                             revocation |-> audit.got.revocation]
        BY <1>a, <2>2, <3>1, Taken
      <3> QED  BY <3>2 DEF Record
    <2>5. UNCHANGED <<origin, day>>
      BY <1>5 DEF GetManifest, Environment
    <2> QED  BY <2>4, <2>5, SameOrigin DEF Undisturbed
  <1>6. CASE GetSig
    <2>1. PICK res \in Answer("manifest.sig") :
            IF res = NoAnswer THEN Fails
            ELSE IF Ok(audit.got.manifest) /\ Ok(res) THEN Take("sig", res, "revocation")
            ELSE Done(Unavailable)
      BY <1>6 DEF GetSig
    <2>2. audit # Idle /\ audit.step = "sig"
      BY <1>6 DEF GetSig, Running
    <2>3. UNCHANGED <<origin, day, steady>>
      BY <1>6 DEF GetSig, Environment
    <2>4. res # NoAnswer /\ res = Sig /\ audit.got.manifest = Man
      BY <2>1, <2>2, <2>3, <1>a, AnswerTyped, FilesAre DEF Fails, Sig, Undisturbed
    <2>5. ASSUME Ok(Man), Ok(Sig) PROVE Undisturbed'
      <3>1. /\ audit'.step = "revocation"
            /\ audit'.got.manifest = Man /\ audit'.got.sig = Sig
        <4>1. Take("sig", Sig, "revocation")
          BY <2>1, <2>4, <2>5
        <4>2. /\ audit' = Record("revocation", audit'.got, audit.todo, audit.findings)
              /\ audit'.got = [manifest |-> Man, sig |-> Sig,
                               revocation |-> audit.got.revocation]
          BY <1>a, <2>2, <2>4, <4>1, Taken
        <4> QED  BY <4>2 DEF Record
      <3> QED  BY <3>1, <2>3, SameOrigin DEF Undisturbed
    <2>6. ASSUME ~(Ok(Man) /\ Ok(Sig)) PROVE Undisturbed'
      <3>1. audit' = Record("done", Unasked, {}, Unavailable)
        BY <2>1, <2>4, <2>6 DEF Done, Record
      <3>2. Worst(Unavailable, Warning)
        BY OneFinding DEF Unavailable, Critical
      <3>3. ~Genuine
        BY <1>a, <2>6, GenuineMeans
      <3>4. audit'.step = "done" /\ audit'.findings = Unavailable
        BY <3>1 DEF Record
      <3> QED  BY <3>2, <3>3, <3>4, <2>3, SameOrigin DEF Undisturbed
    <2> QED  BY <2>5, <2>6
  <1>7. CASE GetRevocation
    <2>1. PICK res \in Answer("revocation.json") :
            steady' = (steady /\ res # NoAnswer) /\ Take("revocation", res, "revocation_sig")
      BY <1>7 DEF GetRevocation
    <2>2. audit # Idle /\ audit.step = "revocation"
      BY <1>7 DEF GetRevocation, Running
    <2>3. UNCHANGED <<origin, day>> /\ steady /\ res # NoAnswer
      BY <1>7, <2>1 DEF GetRevocation, Environment
    <2>4. res = origin["revocation.json"] /\ audit.got.manifest = Man /\ audit.got.sig = Sig
      BY <2>2, <2>3, <1>a, AnswerTyped, FilesAre DEF Undisturbed
    <2>5. /\ audit'.step = "revocation_sig"
          /\ audit'.got.manifest = Man /\ audit'.got.sig = Sig
          /\ audit'.got.revocation = origin["revocation.json"]
      <3>1. /\ audit' = Record("revocation_sig", audit'.got, audit.todo, audit.findings)
            /\ audit'.got = [manifest |-> Man, sig |-> Sig,
                             revocation |-> origin["revocation.json"]]
        BY <1>a, <2>1, <2>2, <2>4, Taken
      <3> QED  BY <3>1 DEF Record
    <2> QED  BY <2>3, <2>5, SameOrigin DEF Undisturbed
  <1>8. CASE GetRevocationSig
    <2>1. PICK res \in Answer("revocation.sig") :
            /\ steady' = (steady /\ res # NoAnswer)
            /\ Judge(RevokedKeys(audit.got.revocation, res, TrustRootFile, day))
      BY <1>8 DEF GetRevocationSig
    <2>2. Running("revocation_sig") /\ audit # Idle /\ audit.step = "revocation_sig"
      BY <1>8 DEF GetRevocationSig, Running
    <2>3. UNCHANGED <<origin, day>> /\ steady /\ res # NoAnswer
      BY <1>8, <2>1 DEF GetRevocationSig, Environment
    <2>4. /\ res = origin["revocation.sig"]
          /\ audit.got.manifest = Man /\ audit.got.sig = Sig
          /\ audit.got.revocation = origin["revocation.json"]
      BY <2>2, <2>3, <1>a, AnswerTyped, FilesAre DEF Undisturbed
    <2> DEFINE revoked == RevokedBy(origin, day)
               findings == RevocationFindings(revoked) \cup StateFindings(TodaysVerdict)
    <2>5. Judge(revoked)
      BY <2>1, <2>4 DEF RevokedBy
    <2>6. Ok(Man) /\ Ok(Sig)
      BY <1>a, <2>2, <2>4 DEF AuditTyped
    <2>7. Worst(findings, Warning) <=> TodaysVerdict # "VALID"
      BY WorstOfTwo, RevocationIsNoFailure, Verdicts, StateIsFound
         DEF TodaysVerdict, Verdict
    <2>8. /\ TodaysVerdict \in HardFailures => audit' = Record("done", Unasked, {}, findings)
          /\ TodaysVerdict \notin HardFailures =>
               /\ audit' = Record("pages", audit'.got, Pages(Man.body), findings)
               /\ audit'.got = [manifest |-> Man, sig |-> NoAnswer, revocation |-> NoAnswer]
      BY <1>a, <2>2, <2>4, <2>5, Judged DEF TodaysVerdict
    <2> HIDE DEF findings, revoked
    <2>9. ASSUME TodaysVerdict \in HardFailures PROVE Undisturbed'
      <3>1. audit'.step = "done" /\ audit'.findings = findings
        BY <2>8, <2>9 DEF Record
      <3>2. ~Genuine /\ TodaysVerdict # "VALID"
        BY <1>a, <2>9, GenuineMeans DEF HardFailures
      <3> QED  BY <2>3, <2>7, <3>1, <3>2, SameOrigin DEF Undisturbed
    <2>10. ASSUME TodaysVerdict \notin HardFailures PROVE Undisturbed'
      <3>1. /\ audit'.step = "pages" /\ audit'.findings = findings
            /\ audit'.got.manifest = Man /\ audit'.todo = Pages(Man.body)
        BY <2>8, <2>10 DEF Record
      <3> QED  BY <2>3, <2>6, <2>7, <3>1, SameOrigin DEF Undisturbed
    <2> QED  BY <2>9, <2>10
  <1>9. ASSUME NEW path \in Paths, WalkPage(path) PROVE Undisturbed'
    <2>1. PICK res \in Answer(path) :
            IF res = NoAnswer THEN Fails
            ELSE audit' = [audit EXCEPT !.todo = @ \ {path},
                   !.findings = @ \cup PageFindings(path, res, Manifest)]
      BY <1>9 DEF WalkPage
    <2>2. /\ audit # Idle /\ audit.step = "pages" /\ path \in audit.todo
          /\ UNCHANGED <<origin, day, steady>>
      BY <1>9 DEF WalkPage, Running, Environment
    <2>3. res # NoAnswer /\ res = origin[path]
      BY <2>1, <1>a, AnswerTyped, FilesAre DEF Fails
    <2>4. /\ audit.got.manifest = Man /\ Manifest = Man.body
          /\ audit.todo \subseteq Pages(Man.body)
      BY <1>a, <2>2 DEF Undisturbed, Manifest, AuditTyped
    <2>5. audit' = Record("pages", audit.got, audit.todo \ {path},
                      audit.findings \cup PageFindings(path, origin[path], Man.body))
      BY <1>a, <2>1, <2>2, <2>3, <2>4 DEF AuditTyped, Record
    <2>6. Worst(audit'.findings, Warning) <=> Worst(audit.findings, Warning) \/ BadPage(path)
      BY <2>5, WorstOfTwo DEF Record, BadPage
    <2>7. Pages(Man.body) \ audit'.todo = (Pages(Man.body) \ audit.todo) \cup {path}
      BY <2>2, <2>4, <2>5 DEF Record
    <2>8. audit'.step = "pages" /\ audit'.got.manifest = Man
      BY <2>4, <2>5 DEF Record
    <2> QED  BY <2>2, <2>6, <2>7, <2>8, SameOrigin DEF Undisturbed
  <1>10. CASE EndWalk
    <2>1. /\ audit # Idle /\ audit.step = "pages" /\ audit.todo = {}
          /\ UNCHANGED <<origin, day, steady>>
      BY <1>10 DEF EndWalk, Running, Environment
    <2>2. audit' = Record("assets", audit.got, DOMAIN Manifest.assets, audit.findings)
      BY <1>a, <1>10, <2>1 DEF EndWalk, AuditTyped, Record
    <2>3. audit.got.manifest = Man /\ Manifest = Man.body
      BY <2>1 DEF Undisturbed, Manifest
    <2>4. /\ audit'.step = "assets" /\ audit'.got.manifest = Man
          /\ audit'.findings = audit.findings
          /\ DOMAIN Man.body.assets \ audit'.todo = {}
      BY <2>2, <2>3 DEF Record
    <2>5. Pages(Man.body) \ audit.todo = Pages(Man.body)
      BY <2>1
    <2> QED  BY <2>1, <2>4, <2>5, SameOrigin DEF Undisturbed
  <1>11. ASSUME NEW path \in Paths, ProbeAsset(path) PROVE Undisturbed'
    <2>1. PICK res \in Answer(path) :
            IF res = NoAnswer THEN Fails
            ELSE audit' = [audit EXCEPT !.todo = @ \ {path},
                   !.findings = @ \cup AssetFindings(path, res, Manifest.assets[path])]
      BY <1>11 DEF ProbeAsset
    <2>2. /\ audit # Idle /\ audit.step = "assets" /\ path \in audit.todo
          /\ UNCHANGED <<origin, day, steady>>
      BY <1>11 DEF ProbeAsset, Running, Environment
    <2>3. res # NoAnswer /\ res = origin[path]
      BY <2>1, <1>a, AnswerTyped, FilesAre DEF Fails
    <2>4. /\ audit.got.manifest = Man /\ Manifest = Man.body
          /\ audit.todo \subseteq DOMAIN Man.body.assets
      BY <1>a, <2>2 DEF Undisturbed, Manifest, AuditTyped
    <2>5. audit' = Record("assets", audit.got, audit.todo \ {path}, audit.findings \cup
                      AssetFindings(path, origin[path], Man.body.assets[path]))
      BY <1>a, <2>1, <2>2, <2>3, <2>4 DEF AuditTyped, Record
    <2>6. Worst(audit'.findings, Warning) <=> Worst(audit.findings, Warning) \/ BadAsset(path)
      BY <2>5, WorstOfTwo DEF Record, BadAsset
    <2>7. DOMAIN Man.body.assets \ audit'.todo =
            (DOMAIN Man.body.assets \ audit.todo) \cup {path}
      BY <2>2, <2>4, <2>5 DEF Record
    <2>8. audit'.step = "assets" /\ audit'.got.manifest = Man
      BY <2>4, <2>5 DEF Record
    <2> QED  BY <2>2, <2>6, <2>7, <2>8, SameOrigin DEF Undisturbed
  <1>12. CASE EndProbe
    <2>1. /\ audit # Idle /\ audit.step = "assets" /\ audit.todo = {}
          /\ UNCHANGED <<origin, day, steady>>
      BY <1>12 DEF EndProbe, Running, Environment
    <2>2. audit'.step = "done" /\ audit'.findings = audit.findings
      BY <1>12 DEF EndProbe, Done
    <2>3. Ok(Man) /\ Ok(Sig) /\ DOMAIN Man.body.assets \ audit.todo = DOMAIN Man.body.assets
      BY <2>1 DEF Undisturbed
    <2>4. Worst(audit.findings, Warning) <=> ~Genuine
      BY <1>a, <2>1, <2>3, GenuineMeans DEF Undisturbed
    <2> QED  BY <2>1, <2>2, <2>4, SameOrigin DEF Undisturbed
  <1> QED  BY <1>0, <1>1, <1>2, <1>3, <1>4, <1>5, <1>6, <1>7, <1>8, <1>9, <1>10, <1>11,
              <1>12 DEF Next, Progress

\* AuditTellsTheTruth, for any manifest, pages, tags and answers: an audit that runs
\* its probes, was answered throughout and during which nothing changed reports a
\* failure exactly when what the origin serves is not what was signed.
THEOREM UndisturbedAuditIsRight ==
    ~GraphOnly /\ Spec => []AuditTellsTheTruth
  <1>1. Init => Undisturbed
    BY DEF Init, Undisturbed
  <1>2. Spec => []Typed
    BY TypedInit, TypedStep, PTL DEF Spec
  <1>3. ~GraphOnly /\ Typed /\ Undisturbed /\ [Next]_vars => Undisturbed'
    BY UndisturbedStep
  <1>4. Undisturbed => AuditTellsTheTruth
    BY DEF Undisturbed, AuditTellsTheTruth, Running
  <1>5. CASE ~GraphOnly
    <2>1. Typed /\ Undisturbed /\ [Next]_vars => Undisturbed'
      BY <1>3, <1>5
    <2> QED  BY <1>1, <1>2, <1>4, <2>1, PTL DEF Spec
  <1> QED  BY <1>5

----------------------------------------------------------------------------
(* The deployment as it was first signed, and the network.                 *)

HonestMan == Honest["manifest.json"]
HonestSig == Honest["manifest.sig"]

\* No part of an honest deployment is found fault with.
LEMMA HonestIsFaultless ==
    ASSUME HonestDeployment
    PROVE  /\ Ok(HonestMan) /\ Ok(HonestSig)
           /\ \A revoked \in {{}, RevokedBy(Honest, 1)} :
                Verdict(HonestMan, HonestSig, revoked, 1) = "VALID"
           /\ \A p \in Pages(HonestMan.body) :
                PageFindings(p, Honest[p], HonestMan.body) = {}
           /\ \A p \in DOMAIN HonestMan.body.assets :
                AssetFindings(p, Honest[p], HonestMan.body.assets[p]) = {}
  <1> DEFINE signed == HonestMan.body.assets
  <1>1. Deployed(Honest, {}, 1)
    BY DEF HonestDeployment
  <1>2. Ok(HonestMan) /\ Ok(HonestSig)
    BY <1>1 DEF Deployed, HonestMan, HonestSig
  <1>3. ASSUME NEW revoked \in {{}, RevokedBy(Honest, 1)}
        PROVE  Verdict(HonestMan, HonestSig, revoked, 1) = "VALID"
    BY <1>3 DEF HonestDeployment, Deployed, Verdict, HonestMan, HonestSig
  <1>4. DOMAIN signed \subseteq Paths
    <2>1. Verdict(HonestMan, HonestSig, {}, 1) \notin HardFailures
      BY <1>3 DEF HardFailures
    <2>2. HonestMan \in Answers["manifest.json"]
      BY DaemonAssumption, FilesAre DEF HonestMan
    <2> QED  BY <1>2, <2>1, <2>2, NamesKeys
  <1>5. ASSUME NEW p \in DOMAIN signed
        PROVE  AsSigned(Honest[p], signed[p])
    BY <1>1, <1>5 DEF Deployed, HonestMan
  <1>6. ASSUME NEW p \in DOMAIN signed PROVE AssetFindings(p, Honest[p], signed[p]) = {}
    <2>1. p \in Files /\ Honest[p] \in Answers[p]
      BY <1>4, FilesAre, DaemonAssumption
    <2>2. PICK entry : entry = signed[p]
      OBVIOUS
    <2>3. AsSigned(Honest[p], entry)
      BY <1>5, <2>2
    <2>4. AssetFindings(p, Honest[p], entry) = {}
      BY <2>1, <2>3, AssetIsFound
    <2> QED  BY <2>2, <2>4
  <1>7. ASSUME NEW p \in Pages(HonestMan.body)
        PROVE  PageFindings(p, Honest[p], HonestMan.body) = {}
    <2>1. p \in DOMAIN signed
      BY DEF Pages
    <2>2. /\ Tags[signed[p].sha] # Unscannable
          /\ \A tag \in Tags[signed[p].sha] : Sound(tag, signed)
      BY <1>1 DEF Deployed, HonestMan
    <2>3. Honest[p].body = signed[p].sha
      <3>1. AsSigned(Honest[p], signed[p])
        BY <1>5, <2>1
      <3> QED  BY <3>1 DEF AsSigned
    <2> QED  BY <2>2, <2>3, PageIsFound
  <1> QED  BY <1>2, <1>3, <1>6, <1>7

\* An audit of the honest deployment finds nothing that pages.
AllInfo(findings) == \A f \in findings : f.severity = Info

LEMMA InfoNeverPages ==
    ASSUME FailOn \in {Critical, Warning}, NEW F, AllInfo(F)
    PROVE  ~Worst(F, FailOn)
  BY DEF AllInfo, Worst, Critical, Warning, Info

CalmAudit ==
    audit # Idle =>
      /\ audit.step \notin {"manifest", "done"} => audit.got.manifest = HonestMan
      /\ audit.step \in {"revocation", "revocation_sig"} => audit.got.sig = HonestSig
      /\ audit.step = "revocation_sig" =>
           audit.got.revocation \in {Honest["revocation.json"], NoAnswer}
      /\ audit.step \in {"pages", "assets", "done"} => AllInfo(audit.findings)

CalmAlert == alert # NoAlert => alert.event # "TRIGGER"

Calm ==
    changes = 0 /\ day = 1 =>
      /\ origin = Honest /\ CalmAudit
      /\ ~status.is_failing /\ CalmAlert /\ inbox # "TRIGGER"

LEMMA CalmStep ==
    ASSUME Typed, Calm, HonestDeployment, FailOn \in {Critical, Warning}, [Next]_vars
    PROVE  Calm'
  <1> SUFFICES ASSUME changes' = 0, day' = 1
               PROVE  /\ origin' = Honest /\ CalmAudit'
                      /\ ~status'.is_failing /\ CalmAlert' /\ inbox' # "TRIGGER"
    BY DEF Calm
  <1>a. OriginTyped /\ AuditTyped /\ CountsTyped /\ StatusTyped /\ AlertTyped
    BY DEF Typed
  <1>b. changes \in Nat /\ day \in Nat /\ day >= 1
    BY <1>a, DaemonAssumption DEF CountsTyped
  <1>c. ASSUME changes = 0, day = 1
        PROVE  /\ origin = Honest /\ CalmAudit
               /\ ~status.is_failing /\ CalmAlert /\ inbox # "TRIGGER"
    BY <1>c DEF Calm
  <1>d. ASSUME UNCHANGED <<Environment, status, alert>>, CalmAudit'
        PROVE  /\ origin' = Honest /\ CalmAudit'
               /\ ~status'.is_failing /\ CalmAlert' /\ inbox' # "TRIGGER"
    BY <1>c, <1>d DEF Environment, CalmAlert
  <1>0. CASE UNCHANGED vars
    BY <1>0, <1>c DEF vars, CalmAudit, CalmAlert
  <1>1. CASE (\E f \in Files : Change(f)) \/ Deploy
    <2>1. changes' = changes + 1
      BY <1>1 DEF Change, Deploy
    <2> QED  BY <1>b, <2>1
  <1>2. CASE NextDay
    <2>1. day' = day + 1
      BY <1>2 DEF NextDay
    <2> QED  BY <1>b, <2>1
  <1>3. CASE Restart
    <2>1. /\ UNCHANGED Environment /\ audit' = Idle /\ alert' = NoAlert
          /\ ~status'.is_failing
      BY <1>3 DEF Restart
    <2> QED  BY <1>c, <2>1 DEF Environment, CalmAudit, CalmAlert
  <1>4. CASE Tick
    <2>1. /\ UNCHANGED <<Environment, alert>> /\ audit'.step = "manifest"
      BY <1>4 DEF Tick, Environment
    <2>2. status'.is_failing = status.is_failing
      BY <1>a, <1>4 DEF Tick, StatusTyped
    <2> QED  BY <1>c, <2>1, <2>2 DEF Environment, CalmAudit, CalmAlert
  <1>5. CASE GetManifest
    <2>1. PICK res \in Answer("manifest.json") :
            IF res = NoAnswer THEN Fails ELSE Take("manifest", res, "sig")
      BY <1>5 DEF GetManifest
    <2>2. audit # Idle /\ UNCHANGED <<Environment, status, alert>>
      BY <1>5 DEF GetManifest, Running
    <2>3. ASSUME res = NoAnswer PROVE CalmAudit'
      BY <2>1, <2>3 DEF Fails, CalmAudit
    <2>4. ASSUME res # NoAnswer PROVE CalmAudit'
      <3>1. res = HonestMan
        BY <1>a, <1>c, <2>2, <2>4, AnswerTyped, FilesAre DEF Environment, HonestMan
      <3>2. Take("manifest", HonestMan, "sig")
        BY <2>1, <2>4, <3>1
      <3>3. /\ audit' = Record("sig", audit'.got, audit.todo, audit.findings)
            /\ audit'.got = [manifest |-> HonestMan, sig |-> audit.got.sig,
                             revocation |-> audit.got.revocation]
        BY <1>a, <2>2, <3>2, Taken
      <3> QED  BY <3>3 DEF Record, CalmAudit
    <2> QED  BY <2>2, <2>3, <2>4, <1>d
  <1>6. CASE GetSig
    <2>1. PICK res \in Answer("manifest.sig") :
            IF res = NoAnswer THEN Fails
            ELSE IF Ok(audit.got.manifest) /\ Ok(res) THEN Take("sig", res, "revocation")
            ELSE Done(Unavailable)
      BY <1>6 DEF GetSig
    <2>2. /\ audit # Idle /\ audit.step = "sig"
          /\ UNCHANGED <<Environment, status, alert>>
      BY <1>6 DEF GetSig, Running
    <2>3. ASSUME res = NoAnswer PROVE CalmAudit'
      BY <2>1, <2>3 DEF Fails, CalmAudit
    <2>4. ASSUME res # NoAnswer PROVE CalmAudit'
      <3>1. res = HonestSig /\ audit.got.manifest = HonestMan
        BY <1>a, <1>c, <2>2, <2>4, AnswerTyped, FilesAre
           DEF Environment, HonestSig, CalmAudit
      <3>2. Take("sig", HonestSig, "revocation")
        BY <2>1, <2>4, <3>1, HonestIsFaultless
      <3>3. /\ audit' = Record("revocation", audit'.got, audit.todo, audit.findings)
            /\ audit'.got = [manifest |-> HonestMan, sig |-> HonestSig,
                             revocation |-> audit.got.revocation]
        BY <1>a, <2>2, <3>1, <3>2, Taken
      <3> QED  BY <3>3 DEF Record, CalmAudit
    <2> QED  BY <2>2, <2>3, <2>4, <1>d
  <1>7. CASE GetRevocation
    <2>1. PICK res \in Answer("revocation.json") :
            Take("revocation", res, "revocation_sig")
      BY <1>7 DEF GetRevocation
    <2>2. /\ audit # Idle /\ audit.step = "revocation"
          /\ UNCHANGED <<Environment, status, alert>>
      BY <1>7 DEF GetRevocation, Running
    <2>3. /\ res \in {Honest["revocation.json"], NoAnswer}
          /\ audit.got.manifest = HonestMan /\ audit.got.sig = HonestSig
      BY <1>c, <2>2 DEF Environment, Answer, CalmAudit
    <2>4. /\ audit' = Record("revocation_sig", audit'.got, audit.todo, audit.findings)
          /\ audit'.got = [manifest |-> HonestMan, sig |-> HonestSig, revocation |-> res]
      BY <1>a, <2>1, <2>2, <2>3, Taken
    <2>5. CalmAudit'
      BY <2>3, <2>4 DEF Record, CalmAudit
    <2> QED  BY <2>2, <2>5, <1>d
  <1>8. CASE GetRevocationSig
    <2>1. PICK res \in Answer("revocation.sig") :
            Judge(RevokedKeys(audit.got.revocation, res, TrustRootFile, day))
      BY <1>8 DEF GetRevocationSig
    <2>2. /\ Running("revocation_sig") /\ audit # Idle /\ audit.step = "revocation_sig"
          /\ UNCHANGED <<Environment, status, alert>>
      BY <1>8 DEF GetRevocationSig, Running
    <2>3. /\ res \in {Honest["revocation.sig"], NoAnswer} /\ day = 1
          /\ audit.got.revocation \in {Honest["revocation.json"], NoAnswer}
          /\ audit.got.manifest = HonestMan /\ audit.got.sig = HonestSig
      BY <1>c, <2>2 DEF Environment, Answer, CalmAudit
    <2>4. PICK revoked \in {{}, RevokedBy(Honest, 1)} :
            revoked = RevokedKeys(audit.got.revocation, res, TrustRootFile, day)
      BY <2>3 DEF RevokedKeys, RevokedBy, Ok
    <2>5. Verdict(HonestMan, HonestSig, revoked, day) = "VALID"
      BY <2>3, HonestIsFaultless
    <2>6. /\ audit' = Record("pages", audit'.got, Pages(HonestMan.body),
                      RevocationFindings(revoked) \cup StateFindings("VALID"))
          /\ audit'.got = [manifest |-> HonestMan, sig |-> NoAnswer,
                           revocation |-> NoAnswer]
      <3>1. Judge(revoked) /\ "VALID" \notin HardFailures
        BY <2>1, <2>4 DEF HardFailures
      <3> QED  BY <1>a, <2>2, <2>3, <2>5, <3>1, Judged
    <2>7. AllInfo(RevocationFindings(revoked) \cup StateFindings("VALID"))
      BY RevocationIsNoFailure, StateIsFound DEF AllInfo
    <2>8. CalmAudit'
      BY <2>6, <2>7 DEF Record, CalmAudit
    <2> QED  BY <2>2, <2>8, <1>d
  <1>9. ASSUME NEW path \in Paths, WalkPage(path)
        PROVE  /\ origin' = Honest /\ CalmAudit'
               /\ ~status'.is_failing /\ CalmAlert' /\ inbox' # "TRIGGER"
    <2>1. PICK res \in Answer(path) :
            IF res = NoAnswer THEN Fails
            ELSE audit' = [audit EXCEPT !.todo = @ \ {path},
                   !.findings = @ \cup PageFindings(path, res, Manifest)]
      BY <1>9 DEF WalkPage
    <2>2. /\ audit # Idle /\ audit.step = "pages" /\ path \in audit.todo
          /\ UNCHANGED <<Environment, status, alert>>
      BY <1>9 DEF WalkPage, Running
    <2>3. ASSUME res = NoAnswer PROVE CalmAudit'
      BY <2>1, <2>3 DEF Fails, CalmAudit
    <2>4. ASSUME res # NoAnswer PROVE CalmAudit'
      <3>1. /\ res = Honest[path] /\ audit.got.manifest = HonestMan
            /\ AllInfo(audit.findings)
        BY <1>a, <1>c, <2>2, <2>4, AnswerTyped, FilesAre DEF Environment, CalmAudit
      <3>2. path \in Pages(HonestMan.body) /\ Manifest = HonestMan.body
        BY <1>a, <2>2, <3>1 DEF AuditTyped, Manifest
      <3>3. PageFindings(path, res, Manifest) = {}
        BY <3>1, <3>2, HonestIsFaultless
      <3>4. audit' = Record("pages", audit.got, audit.todo \ {path},
                            audit.findings \cup PageFindings(path, res, Manifest))
        BY <1>a, <2>1, <2>2, <2>4 DEF AuditTyped, Record
      <3>5. AllInfo(audit.findings \cup PageFindings(path, res, Manifest))
        BY <3>1, <3>3 DEF AllInfo
      <3> QED  BY <3>1, <3>4, <3>5 DEF Record, CalmAudit
    <2> QED  BY <2>2, <2>3, <2>4, <1>d
  <1>10. CASE EndWalk
    <2>1. /\ audit # Idle /\ audit.step = "pages"
          /\ UNCHANGED <<Environment, status, alert>>
      BY <1>10 DEF EndWalk, Running
    <2>2. audit.got.manifest = HonestMan /\ AllInfo(audit.findings)
      BY <1>c, <2>1 DEF Environment, CalmAudit
    <2>3. \/ audit' = Record("done", Unasked, {}, audit.findings)
          \/ audit' = Record("assets", audit.got, DOMAIN Manifest.assets, audit.findings)
      BY <1>a, <1>10, <2>1 DEF EndWalk, Done, AuditTyped, Record
    <2>4. CalmAudit'
      BY <2>2, <2>3 DEF Record, CalmAudit
    <2> QED  BY <2>1, <2>4, <1>d
  <1>11. ASSUME NEW path \in Paths, ProbeAsset(path)
         PROVE  /\ origin' = Honest /\ CalmAudit'
                /\ ~status'.is_failing /\ CalmAlert' /\ inbox' # "TRIGGER"
    <2>1. PICK res \in Answer(path) :
            IF res = NoAnswer THEN Fails
            ELSE audit' = [audit EXCEPT !.todo = @ \ {path},
                   !.findings = @ \cup AssetFindings(path, res, Manifest.assets[path])]
      BY <1>11 DEF ProbeAsset
    <2>2. /\ audit # Idle /\ audit.step = "assets" /\ path \in audit.todo
          /\ UNCHANGED <<Environment, status, alert>>
      BY <1>11 DEF ProbeAsset, Running
    <2>3. ASSUME res = NoAnswer PROVE CalmAudit'
      BY <2>1, <2>3 DEF Fails, CalmAudit
    <2>4. ASSUME res # NoAnswer PROVE CalmAudit'
      <3>1. /\ res = Honest[path] /\ audit.got.manifest = HonestMan
            /\ AllInfo(audit.findings)
        BY <1>a, <1>c, <2>2, <2>4, AnswerTyped, FilesAre DEF Environment, CalmAudit
      <3>2. path \in DOMAIN HonestMan.body.assets /\ Manifest = HonestMan.body
        BY <1>a, <2>2, <3>1 DEF AuditTyped, Manifest
      <3>3. AssetFindings(path, res, Manifest.assets[path]) = {}
        BY <3>1, <3>2, HonestIsFaultless
      <3>4. audit' = Record("assets", audit.got, audit.todo \ {path},
                            audit.findings \cup AssetFindings(path, res, Manifest.assets[path]))
        BY <1>a, <2>1, <2>2, <2>4 DEF AuditTyped, Record
      <3>5. AllInfo(audit.findings \cup AssetFindings(path, res, Manifest.assets[path]))
        BY <3>1, <3>3 DEF AllInfo
      <3> QED  BY <3>1, <3>4, <3>5 DEF Record, CalmAudit
    <2> QED  BY <2>2, <2>3, <2>4, <1>d
  <1>12. CASE EndProbe
    <2>1. /\ audit # Idle /\ audit.step = "assets"
          /\ UNCHANGED <<Environment, status, alert>>
          /\ audit' = Record("done", Unasked, {}, audit.findings)
      BY <1>12 DEF EndProbe, Running, Done, Record
    <2>2. AllInfo(audit.findings)
      BY <1>c, <2>1 DEF Environment, CalmAudit
    <2>3. CalmAudit'
      BY <2>1, <2>2 DEF Record, CalmAudit
    <2> QED  BY <2>1, <2>3, <1>d
  <1>13. CASE Finish
    <2>1. /\ audit # Idle /\ audit.step = "done" /\ audit' = Idle
          /\ UNCHANGED Environment
      BY <1>13 DEF Finish, Running
    <2>2. ~Worst(audit.findings, FailOn) /\ ~status.is_failing
      BY <1>c, <2>1, InfoNeverPages DEF Environment, CalmAudit
    <2>3. UNCHANGED <<status, alert>>
      BY <1>13, <2>2 DEF Finish, Report
    <2> QED  BY <2>1, <2>3, <1>d DEF CalmAudit
  <1>14. CASE Attempt
    <2>1. /\ alert # NoAlert /\ UNCHANGED <<origin, day, changes, audit, status>>
          /\ inbox' \in {inbox, alert.event}
      BY <1>14 DEF Attempt
    <2>2. alert' = NoAlert \/ alert'.event = alert.event
      BY <1>a, <1>14 DEF Attempt, AlertTyped
    <2> QED  BY <1>c, <2>1, <2>2 DEF CalmAudit, CalmAlert
  <1> QED  BY <1>0, <1>1, <1>2, <1>3, <1>4, <1>5, <1>6, <1>7, <1>8, <1>9, <1>10, <1>11,
              <1>12, <1>13, <1>14 DEF Next, Progress

\* NetworkNeverPages, whatever is lost and however often the daemon dies: while the
\* origin serves an honest deployment, no one is paged.  `info`, the third value of
\* --fail-on, pages on a revocation by design.
THEOREM HonestOriginPagesNoOne ==
    HonestDeployment /\ FailOn \in {Critical, Warning} /\ Spec => []NetworkNeverPages
  <1>1. Init => Calm
    BY DaemonAssumption DEF Init, Calm, CalmAudit, CalmAlert, Event
  <1>2. Spec => []Typed
    BY TypedInit, TypedStep, PTL DEF Spec
  <1>3. Calm => NetworkNeverPages
    BY DEF Calm, CalmAlert, NetworkNeverPages
  <1>4. CASE HonestDeployment /\ FailOn \in {Critical, Warning}
    <2>1. Typed /\ Calm /\ [Next]_vars => Calm'
      BY <1>4, CalmStep
    <2> QED  BY <1>1, <1>2, <1>3, <2>1, PTL DEF Spec
  <1> QED  BY <1>4
============================================================================
