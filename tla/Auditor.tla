------------------------------ MODULE Auditor ------------------------------
(***************************************************************************)
(* The out-of-band auditor (src/auditor.rs): what an audit finds in the    *)
(* answers of the audited origin, and how two snapshots are compared.      *)
(* Pure operators, no state.                                               *)
(*                                                                         *)
(* A finding is its severity, kind and subject; a body stands for its      *)
(* hashes.  Manifests with a Rekor entry are left out.                     *)
(***************************************************************************)
EXTENDS TrustPolicy

CONSTANTS
    Paths,          \* the keys a manifest may name
    Tags,           \* what scan() makes of each body that is a page
    Unscannable,    \* ... when it makes nothing of it
    CrossOrigin,    \* a reference resolve_same_origin has no key for
    NoIntegrity,    \* a tag without an integrity attribute
    Untyped,        \* an answer without a Content-Type
    NoAnswer,       \* a request that failed
    Absent          \* no manifest hash in a snapshot

Supported  == Algs              \* SUPPORTED_ALGS of the Rust build
Statements == {"manifest.json", "manifest.sig",
               "revocation.json", "revocation.sig"}
Files      == Statements \cup Paths

\* Severity orders Critical < Warning < Info.
Critical == 0
Warning  == 1
Info     == 2

Finding(severity, kind, subject) ==
    [severity |-> severity, kind |-> kind, subject |-> subject]

Worst(findings, threshold) == \E f \in findings : f.severity <= threshold

----------------------------------------------------------------------------
(* The manifest and the revocation statement.                              *)

Ok(res) == res # NoAnswer /\ res.status = 200

Unavailable == {Finding(Critical, "manifest-unavailable", "manifest.json")}

\* Both files of the statement are asked for; an audit remembers no version.
RevokedKeys(rev_res, rev_sig_res, trust_root, now) ==
    IF /\ Ok(rev_res) /\ Ok(rev_sig_res)
       /\ VerifyRevocation(rev_res.body, rev_sig_res.body, trust_root, 0, now,
                           Supported)
    THEN {rev_res.body.revoked_keys[i] : i \in DOMAIN rev_res.body.revoked_keys}
    ELSE {}

RevocationFindings(revoked_keys) ==
    IF revoked_keys = {} THEN {}
    ELSE {Finding(Info, "revocation-active", "base")}

StateFindings(state) ==
    CASE state \in HardFailures ->
            {Finding(Critical, "manifest-verification-failed", "base")}
      [] state = "EXPIRED" -> {Finding(Warning, "manifest-expired", "base")}
      [] OTHER -> {}

----------------------------------------------------------------------------
(* The static graph of the served pages.                                   *)

Pages(manifest) ==
    {p \in DOMAIN manifest.assets : manifest.assets[p].content_type = "text/html"}

TagFindings(tag, manifest) ==
    IF tag.ref = CrossOrigin THEN {}
    ELSE IF tag.ref \notin DOMAIN manifest.assets
    THEN {Finding(IF tag.name = "script" THEN Critical ELSE Warning,
                  "unmanifested-subresource", tag.ref)}
    ELSE IF tag.integrity # NoIntegrity
    THEN IF manifest.assets[tag.ref].sha \in tag.integrity THEN {}
         ELSE {Finding(Critical, "sri-mismatch", tag.ref)}
    ELSE IF tag.name = "script" \/ tag.stylesheet
    THEN {Finding(Warning, "missing-integrity", tag.ref)} ELSE {}

\* A page that is not answered with 200 is passed over here.
PageFindings(path, res, manifest) ==
    IF res.status # 200 THEN {}
    ELSE IF Tags[res.body] = Unscannable
    THEN {Finding(Warning, "html-unparseable", path)}
    ELSE UNION {TagFindings(tag, manifest) : tag \in Tags[res.body]}

----------------------------------------------------------------------------
(* The probe of every manifested asset.                                    *)

\* Mutant: an answer that is not 200 is left to the graph walk.
AssetFindingsOfAnswered(path, res, entry) ==
    IF res.status = 200 /\ res.body # entry.sha
    THEN {Finding(Critical, "content-mismatch", path)} ELSE {}

AssetFindings(path, res, entry) ==
    CASE res.status \in 300 .. 399 ->
            {Finding(Critical, "redirected-asset", path)}
      [] res.status \notin 300 .. 399 /\ res.status # 200 ->
            {Finding(Critical, "asset-unavailable", path)}
      [] res.status = 200 /\ res.body # entry.sha ->
            {Finding(Critical, "content-mismatch", path)}
      [] OTHER -> IF res.content_type \in {entry.content_type, Untyped} THEN {}
                  ELSE {Finding(Warning, "content-type-mismatch", path)}

Observed(res) == IF res.status = 200 THEN res.body ELSE Absent

\* Mutant: a page is compared by its findings alone.
ObservedButPages(served, manifest) ==
    [p \in DOMAIN manifest.assets \ Pages(manifest) |-> Observed(served[p])]

ObservedAssets(served, manifest) ==
    [p \in DOMAIN manifest.assets |-> Observed(served[p])]

----------------------------------------------------------------------------
(* audit(), when every request is answered and the answers hold still.     *)

Snapshot(served, label, trust_root, pinned_version, now, graph_only) ==
    LET manifest == served["manifest.json"].body
        revoked  == RevokedKeys(served["revocation.json"],
                                served["revocation.sig"], trust_root, now)
        state == VerifyManifestWithRevocation(manifest,
                    served["manifest.sig"].body, trust_root, pinned_version,
                    now, Supported, revoked)
        walked == UNION {PageFindings(p, served[p], manifest) :
                            p \in Pages(manifest)}
        probed == UNION {AssetFindings(p, served[p], manifest.assets[p]) :
                            p \in DOMAIN manifest.assets}
        snap(hash, s, observed, findings) ==
            [label |-> label, manifest |-> hash, state |-> s,
             observed |-> observed, findings |-> findings]
    IN  IF ~Ok(served["manifest.json"]) \/ ~Ok(served["manifest.sig"])
        THEN snap(Absent, "UNAVAILABLE", <<>>, Unavailable)
        ELSE IF state \in HardFailures
        THEN snap(manifest, state, <<>>,
                  RevocationFindings(revoked) \cup StateFindings(state))
        ELSE snap(manifest, state,
                  IF graph_only THEN <<>> ELSE ObservedAssets(served, manifest),
                  RevocationFindings(revoked) \cup StateFindings(state) \cup walked
                    \cup (IF graph_only THEN {} ELSE probed))

(* diff(): the subjects two snapshots differ in.                           *)

Key(f) == <<f.kind, f.subject>>

Diff(left, right) ==
    LET keys(snap) == {Key(f) : f \in snap.findings}
        only(a, b) == {<<"finding-only-in", k>> : k \in keys(a) \ keys(b)}
        both == DOMAIN left.observed \cap DOMAIN right.observed
        some == DOMAIN left.observed \cup DOMAIN right.observed
    IN  (IF left.manifest # right.manifest THEN {<<"manifest-differs">>} ELSE {})
        \cup (IF left.state # right.state THEN {<<"state-differs">>} ELSE {})
        \cup only(left, right) \cup only(right, left)
        \cup {<<"content-differs", p>> : p \in
                {q \in both : left.observed[q] # right.observed[q]}}
        \cup {<<"only-in", p>> : p \in some \ both}
============================================================================
