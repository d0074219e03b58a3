-------------------------- MODULE MCServiceWorker --------------------------
(* Instances of ServiceWorker, and the claims of the documents that the    *)
(* worker does not keep: each is checked by a run that finds it violated.  *)
EXTENDS ServiceWorker, TLC

CONSTANTS a, b, c, w1, w2

\* Which root each generation of the worker was built with.
BakedOne == [w \in Workers |-> a]
BakedTwo == [w \in Workers |-> IF w = w1 THEN a ELSE b]
BakedLater == [w \in Workers |-> IF w = w1 THEN b ELSE c]

\* The tasks are interchangeable.
TaskSymmetry == Permutations(Tasks)

----------------------------------------------------------------------------
PinKept == pin # NoPin /\ pin' # NoPin

\* SPEC.md 6.5: a client that already saw a newer release rejects an older
\* one; so the pinned version never decreases.  (Overlapping refreshes.)
PinNeverGoesBack == [][PinKept => pin'.version >= pin.version]_vars

\* runtime.rs on the bundled worker: after first use only a rotation
\* statement moves the root.  (The pin is read, and an error means none.)
RootMovesOnlyByRotation ==
    [][PinKept /\ pin'.trustRoot # pin.trustRoot
         => pin'.rotationVersion > pin.rotationVersion]_vars

\* applyRotationChain: it walks from the pinned root towards a target root; so
\* when it gives up, no statement of the chain that is newer than those before
\* it would have led on from there.
RefusedWalkHasNoLink ==
    [][\A t \in Tasks :
         At(t, {"walk"}) /\ LinkServed(t) /\ At(t, {"verify"})'
           => ~\E i \in DOMAIN chain :
                  /\ i <= MAX_ROTATION_CHAIN
                  /\ RotationAccepted(chain[i], task[t].walked)
                  /\ \A j \in 1 .. (i - 1) : chain[j].version < chain[i].version]_vars
=============================================================================
