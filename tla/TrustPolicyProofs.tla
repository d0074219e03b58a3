------------------------- MODULE TrustPolicyProofs -------------------------
(***************************************************************************)
(* What the verification core promises for every trust root, every bundle  *)
(* and every set of algorithms a verifier supports.                        *)
(***************************************************************************)
EXTENDS TrustPolicy, FiniteSetTheorems, TLAPS

\* The keys of a trust root are finitely many.
LEMMA RootFinite ==
    ASSUME NEW root \in TrustRoot, NEW S \in SUBSET root.keys
    PROVE  /\ IsFiniteSet(root.keys) /\ Cardinality(root.keys) \in Nat
           /\ IsFiniteSet(S) /\ Cardinality(S) \in Nat
           /\ Cardinality(S) <= Cardinality(root.keys)
  <1>1. root.keys \in SUBSET Keys
    BY DEF TrustRoot
  <1>2. IsFiniteSet(root.keys)
    BY <1>1, FS_Subset, PolicyAssumption
  <1>3. IsFiniteSet(S) /\ Cardinality(S) <= Cardinality(root.keys)
    BY <1>2, FS_Subset
  <1> QED  BY <1>2, <1>3, FS_CardinalityType

LEMMA QualifyingFinite ==
    ASSUME NEW root \in TrustRoot, NEW bundle, NEW supported, NEW msg
    PROVE  /\ Qualifying(bundle, root, supported, msg) \subseteq root.keys
           /\ Cardinality(Qualifying(bundle, root, supported, msg)) \in Nat
  <1>1. Qualifying(bundle, root, supported, msg) \in SUBSET root.keys
    BY DEF Qualifying
  <1> QED  BY <1>1, RootFinite

\* A threshold that is reached is reached by keys of the root that signed this
\* very message, prefix and all, with every algorithm in use.
LEMMA ReachedByQuorum ==
    ASSUME NEW root \in TrustRoot, NEW bundle, NEW supported, NEW prefix,
           NEW payload,
           CheckThreshold(payload, bundle, root, prefix, supported) = "reached"
    PROVE  /\ Cardinality(Qualifying(bundle, root, supported,
                                     Message(prefix, payload))) >= root.threshold
           /\ Active(root, supported) # {}
           /\ ~Broken(bundle, root, supported, Message(prefix, payload))
  <1> DEFINE msg == Message(prefix, payload)
  <1>1. CASE Active(root, supported) = {}
    BY <1>1 DEF CheckThreshold
  <1>2. CASE Active(root, supported) # {} /\ Broken(bundle, root, supported, msg)
    BY <1>2 DEF CheckThreshold
  <1>3. CASE Active(root, supported) # {} /\ ~Broken(bundle, root, supported, msg)
    BY <1>3 DEF CheckThreshold
  <1> QED  BY <1>1, <1>2, <1>3

\* A verdict that lets a manifest be used comes after a threshold that was
\* reached and contents that were judged good.
LEMMA AcceptedManifest ==
    ASSUME NEW payload, NEW bundle, NEW pinned, NEW v, NEW now, NEW supported,
           VerifyManifest(payload, bundle, pinned, v, now, supported)
             \notin HardFailures
    PROVE  /\ Reaches(payload, bundle, pinned, "manifest", supported)
           /\ StructurallyValid(payload) /\ payload.trust_root = pinned
           /\ ~(payload.version < v)
  <1> DEFINE t == CheckThreshold(payload, bundle, pinned, "manifest", supported)
  <1>1. ValidRoot(pinned) /\ bundle # Malformed
    BY DEF VerifyManifest, HardFailures
  <1>2. t \in {"unsupported", "tampered", "short", "reached"}
    BY DEF CheckThreshold
  <1>3. /\ VerifyManifest(payload, bundle, pinned, v, now, supported)
             = JudgeContents(payload, pinned, v, now)
        /\ t = "reached"
    BY <1>1, <1>2 DEF VerifyManifest, HardFailures
  <1>4. /\ StructurallyValid(payload) /\ payload.trust_root = pinned
        /\ ~(payload.version < v)
    BY <1>3 DEF JudgeContents, HardFailures
  <1> QED  BY <1>1, <1>3, <1>4 DEF Reaches

\* A release is accepted next to a revocation only on the signatures of enough
\* keys of the root that are not revoked, each made with every algorithm the
\* verifier and the root have in common, over this manifest as a manifest.
THEOREM QuorumBehindVerdict ==
    ASSUME NEW payload, NEW bundle, NEW pinned \in TrustRoot, NEW v, NEW now,
           NEW supported, NEW revoked,
           VerifyManifestWithRevocation(payload, bundle, pinned, v, now,
                                        supported, revoked) \notin HardFailures
    PROVE  \E Q \in SUBSET (pinned.keys \ revoked) :
             /\ Cardinality(Q) >= pinned.threshold
             /\ \A key \in Q, alg \in Active(pinned, supported) :
                  Signs(bundle, key, alg, Message("manifest", payload))
  <1> DEFINE filtered == [pinned EXCEPT !.keys = @ \ revoked]
             msg == Message("manifest", payload)
             Q == Qualifying(bundle, filtered, supported, msg)
  <1>1. /\ filtered \in TrustRoot
        /\ filtered.keys = pinned.keys \ revoked
        /\ filtered.threshold = pinned.threshold
        /\ filtered.sigalgs = pinned.sigalgs
    BY DEF TrustRoot
  <1>2. VerifyManifest(payload, bundle, filtered, v, now, supported)
          \notin HardFailures
    BY DEF VerifyManifestWithRevocation, HardFailures
  <1>3. CheckThreshold(payload, bundle, filtered, "manifest", supported) = "reached"
    BY <1>2, AcceptedManifest DEF Reaches
  <1>4. Cardinality(Q) >= pinned.threshold
    BY <1>1, <1>3, ReachedByQuorum
  <1>5. Q \subseteq pinned.keys \ revoked
    BY <1>1 DEF Qualifying
  <1>6. \A key \in Q, alg \in Active(pinned, supported) :
          Signs(bundle, key, alg, msg)
    BY <1>1 DEF Qualifying, Active
  <1> QED  BY <1>4, <1>5, <1>6

\* A verifier with fewer algorithms reaches every threshold that one with more
\* of them reaches, as long as it has one the root uses: dropping an algorithm
\* never turns a good release into a bad one.
THEOREM FewerAlgorithmsReach ==
    ASSUME NEW payload, NEW bundle, NEW root \in TrustRoot, NEW prefix,
           NEW many, NEW few \in SUBSET many,
           Active(root, few) # {},
           CheckThreshold(payload, bundle, root, prefix, many) = "reached"
    PROVE  CheckThreshold(payload, bundle, root, prefix, few) = "reached"
  <1> DEFINE msg == Message(prefix, payload)
             QM == Qualifying(bundle, root, many, msg)
             QF == Qualifying(bundle, root, few, msg)
  <1>1. Cardinality(QM) >= root.threshold /\ ~Broken(bundle, root, many, msg)
    BY ReachedByQuorum
  <1>2. Active(root, few) \subseteq Active(root, many)
    BY DEF Active
  <1>3. ~Broken(bundle, root, few, msg)
    BY <1>1, <1>2 DEF Broken
  <1>4. QM \in SUBSET QF
    BY <1>2 DEF Qualifying
  <1>5. Cardinality(QM) <= Cardinality(QF)
    <2>1. QF \in SUBSET root.keys
      BY DEF Qualifying
    <2>2. IsFiniteSet(QF)
      BY <2>1, RootFinite
    <2> QED  BY <1>4, <2>2, FS_Subset
  <1>6. Cardinality(QF) >= root.threshold
    <2>1. root.threshold \in Nat
      BY DEF TrustRoot
    <2> QED  BY <2>1, <1>1, <1>5, QualifyingFinite
  <1> QED  BY <1>3, <1>6 DEF CheckThreshold

\* The same for the whole verdict on a manifest.
THEOREM FewerAlgorithmsAccept ==
    ASSUME NEW payload, NEW bundle, NEW pinned \in TrustRoot, NEW v, NEW now,
           NEW many, NEW few \in SUBSET many,
           Active(pinned, few) # {},
           VerifyManifest(payload, bundle, pinned, v, now, many)
             \notin HardFailures
    PROVE  VerifyManifest(payload, bundle, pinned, v, now, few)
             = VerifyManifest(payload, bundle, pinned, v, now, many)
  <1>1. /\ ValidRoot(pinned) /\ bundle # Malformed
        /\ CheckThreshold(payload, bundle, pinned, "manifest", many) = "reached"
    BY AcceptedManifest DEF Reaches
  <1>2. CheckThreshold(payload, bundle, pinned, "manifest", few) = "reached"
    BY <1>1, FewerAlgorithmsReach
  <1> QED  BY <1>1, <1>2 DEF VerifyManifest

\* The keys a list names are at most as many as the list is long.
LEMMA ListedKeys ==
    ASSUME NEW list \in Seq(Keys)
    PROVE  /\ IsFiniteSet({list[i] : i \in DOMAIN list})
           /\ Cardinality({list[i] : i \in DOMAIN list}) \in Nat
           /\ Cardinality({list[i] : i \in DOMAIN list}) <= Len(list)
  <1> DEFINE T == {list[i] : i \in DOMAIN list}
  <1>1. DOMAIN list = 1 .. Len(list) /\ Len(list) \in Nat
    OBVIOUS
  <1>2. IsFiniteSet(DOMAIN list) /\ Cardinality(DOMAIN list) = Len(list)
    BY <1>1, FS_Interval
  <1>3. list \in Surjection(DOMAIN list, T)
    BY DEF Surjection
  <1>4. IsFiniteSet(T) /\ Cardinality(T) <= Cardinality(DOMAIN list)
    BY <1>2, <1>3, FS_Surjection
  <1> QED  BY <1>2, <1>4, FS_CardinalityType

\* A revocation that is accepted leaves its root enough keys for a quorum,
\* also when its list names a key twice.
THEOREM RevocationLeavesThreshold ==
    ASSUME NEW root \in TrustRoot, NEW list \in Seq(Keys), Revocable(root, list)
    PROVE  Cardinality(root.keys \ {list[i] : i \in DOMAIN list}) >= root.threshold
  <1> DEFINE T == {list[i] : i \in DOMAIN list}
  <1>1. /\ IsFiniteSet(root.keys) /\ Cardinality(root.keys) \in Nat
        /\ root.threshold \in Nat
    BY RootFinite DEF TrustRoot
  <1>2. Len(list) <= Cardinality(root.keys) - root.threshold
    BY DEF Revocable, MaxRevocable
  <1>3. Cardinality(T) \in Nat /\ Cardinality(T) <= Len(list) /\ Len(list) \in Nat
    BY ListedKeys
  <1>4. root.keys \cap T = T
    BY DEF Revocable
  <1>5. Cardinality(root.keys \ T) = Cardinality(root.keys) - Cardinality(T)
    BY <1>1, <1>4, FS_Difference
  <1> QED  BY <1>1, <1>2, <1>3, <1>5
============================================================================
