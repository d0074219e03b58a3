---------------------------- MODULE TrustPolicy ----------------------------
(***************************************************************************)
(* The verification core: src/crypto.rs and src/manifest.rs, and its twin  *)
(* runtime/veilguard-verify.mjs.  Pure operators, no state.                *)
(*                                                                         *)
(* A signed file is a record whose `spec` says what it is; the bytes of a  *)
(* file and its contents are one value.  A trust root stands for its id,   *)
(* which is a hash of all of it, and a set of keys for their canonical     *)
(* list.  A bundle that parses is the message it was made over, the        *)
(* entries <<key, algorithm>> whose signature holds for that message, and  *)
(* the entries whose signature holds for no message that is looked at.     *)
(***************************************************************************)
EXTENDS Naturals, Sequences, FiniteSets

CONSTANTS
    Keys,                   \* signers
    Algs,                   \* ed25519 and p256
    MAX_TRUST_ROOT_KEYS,
    Malformed               \* bytes that parse_bundle refuses

ASSUME PolicyAssumption == IsFiniteSet(Keys) /\ MAX_TRUST_ROOT_KEYS \in Nat

TrustRoot == [threshold: Nat, sigalgs: SUBSET Algs, keys: SUBSET Keys]

Message(prefix, payload) == <<prefix, payload>>

\* TrustRoot::validate.
ValidRoot(root) ==
    /\ root.keys # {} /\ Cardinality(root.keys) <= MAX_TRUST_ROOT_KEYS
    /\ 1 <= root.threshold /\ root.threshold <= Cardinality(root.keys)
    /\ root.sigalgs # {}

----------------------------------------------------------------------------
(* check_threshold.                                                        *)

Active(root, supported) == root.sigalgs \cap supported

Entries(bundle) == bundle.valid \cup bundle.broken

\* Mutant: whatever the key signed.
SignsAnything(bundle, key, alg, msg) ==
    <<key, alg>> \in bundle.valid \ bundle.broken

Signs(bundle, key, alg, msg) ==
    <<key, alg>> \in bundle.valid \ bundle.broken /\ bundle.over = msg

\* Mutant: a signer counts only with every published algorithm.
QualifyingUnderAll(bundle, root, supported, msg) ==
    {key \in root.keys : \A alg \in Algs : Signs(bundle, key, alg, msg)
                                           /\ alg \in supported}

Qualifying(bundle, root, supported, msg) ==
    {key \in root.keys : \A alg \in Active(root, supported) :
                            Signs(bundle, key, alg, msg)}

\* A signature that is there and fails is fatal, one that is missing is not.
Broken(bundle, root, supported, msg) ==
    \E key \in root.keys, alg \in Active(root, supported) :
        <<key, alg>> \in Entries(bundle) /\ ~Signs(bundle, key, alg, msg)

CheckThreshold(payload, bundle, root, prefix, supported) ==
    LET msg == Message(prefix, payload)
    IN  CASE Active(root, supported) = {} -> "unsupported"
          [] Active(root, supported) # {} /\ Broken(bundle, root, supported, msg)
               -> "tampered"
          [] OTHER ->
               IF Cardinality(Qualifying(bundle, root, supported, msg))
                    >= root.threshold
               THEN "reached" ELSE "short"

Reaches(payload, bundle, root, prefix, supported) ==
    /\ ValidRoot(root) /\ bundle # Malformed
    /\ CheckThreshold(payload, bundle, root, prefix, supported) = "reached"

----------------------------------------------------------------------------
(* verify_manifest.                                                        *)

HardFailures == {"TAMPERED", "ROLLBACK", "UNTRUSTED_ROOT", "UNSUPPORTED"}

\* What is looked at once the signatures hold.
StructurallyValid(m) == /\ m.spec = "manifest"
                        /\ m.not_after > m.version
                        /\ ValidRoot(m.trust_root)

JudgeContents(m, pinned, pinnedVersion, now) ==
    CASE ~StructurallyValid(m) -> "TAMPERED"
      [] StructurallyValid(m) /\ m.trust_root # pinned -> "UNTRUSTED_ROOT"
      [] OTHER -> IF m.version < pinnedVersion THEN "ROLLBACK"
                  ELSE IF now > m.not_after THEN "EXPIRED" ELSE "VALID"

VerifyManifest(payload, bundle, pinned, pinnedVersion, now, supported) ==
    IF ~ValidRoot(pinned) THEN "UNTRUSTED_ROOT"
    ELSE IF bundle = Malformed THEN "TAMPERED"
    ELSE LET t == CheckThreshold(payload, bundle, pinned, "manifest", supported)
         IN  CASE t = "unsupported" -> "UNSUPPORTED"
               [] t = "tampered"    -> "TAMPERED"
               [] t = "short"       -> "UNTRUSTED_ROOT"
               [] t = "reached"     ->
                    JudgeContents(payload, pinned, pinnedVersion, now)

\* Mutant: a revoked key still counts.
VerifyManifestUnfiltered(payload, bundle, pinned, pinnedVersion, now, supported, revoked) ==
    VerifyManifest(payload, bundle, pinned, pinnedVersion, now, supported)

\* The verification runs against the root without the revoked keys.
VerifyManifestWithRevocation(payload, bundle, pinned, pinnedVersion, now, supported, revoked) ==
    LET filtered == [pinned EXCEPT !.keys = @ \ revoked]
    IN  IF revoked # {} /\ Cardinality(filtered.keys) < pinned.threshold
        THEN "UNTRUSTED_ROOT"
        ELSE VerifyManifest(payload, bundle, filtered, pinnedVersion, now,
                            supported)

----------------------------------------------------------------------------
(* verify_rotation and verify_revocation: accepted or rejected.            *)

VerifyRotation(payload, bundle, pinned, pinnedRotationVersion, supported) ==
    /\ Reaches(payload, bundle, pinned, "rotation", supported)
    /\ payload.spec = "rotation"
    /\ payload.from_trust_root = pinned
    /\ payload.version > pinnedRotationVersion
    /\ ValidRoot(payload.to_trust_root)

\* Mutant: off by one.
RevocableOneMore(root) == Cardinality(root.keys) - root.threshold + 1

MaxRevocable(root) == Cardinality(root.keys) - root.threshold

\* The list may name a key twice, and is counted as it is.
Revocable(root, revoked_keys) ==
    /\ Len(revoked_keys) <= MaxRevocable(root)
    /\ \A i \in DOMAIN revoked_keys : revoked_keys[i] \in root.keys

VerifyRevocation(payload, bundle, pinned, pinnedRevocationVersion, now, supported) ==
    /\ Reaches(payload, bundle, pinned, "revocation", supported)
    /\ payload.spec = "revocation"
    /\ payload.version > pinnedRevocationVersion
    /\ now <= payload.not_after /\ payload.not_after > payload.version
    /\ payload.trust_root = pinned
    /\ Revocable(pinned, payload.revoked_keys)
============================================================================
