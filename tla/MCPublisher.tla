---------------------------- MODULE MCPublisher ----------------------------
(* Instances of Publisher, and the documented claims it does not keep.     *)
EXTENDS Publisher

CONSTANTS k1, k2, k3

\* A quorum with the first key, one without it, and too few.
Quorums == {{k1, k2}, {k2, k3}, {k1}}

\* A 2-of-3 root, and the root that is left of it without its first key.
FullAndLeft == {[threshold |-> 2, sigalgs |-> Algs, keys |-> s] :
                  s \in {Keys, Keys \ {k1}}}

----------------------------------------------------------------------------
\* SPEC.md 9.2.3, item 4: when enough keys are not revoked and their signatures
\* reach the threshold, the manifest is VALID.
RemainingQuorumIsValid ==
    shipped # NoRelease /\ ~shipped.logged /\ now <= shipped.not_after =>
        LET root == shipped.trust_root
            left == root.keys \ RevokedKeys(root)
        IN  Cardinality({k \in left : \A alg \in root.sigalgs :
                Signs(files["manifest"].sig, k, alg,
                      Message("manifest", shipped))}) >= root.threshold
            => VerifyDist(root, 0) = "VALID"

\* src/main.rs:995: "Refuse to ship a manifest this build would itself reject". The
\* judgement is the gate's own, of the two files a finished `sign` has left.
ShipsNothingItRejects ==
    shipped # NoRelease =>
        VerifyManifest(files["manifest"].payload, files["manifest"].sig,
                       shipped.trust_root, 0, shipped.version, Supported) = "VALID"
============================================================================
