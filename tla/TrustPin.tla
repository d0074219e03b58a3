------------------------------ MODULE TrustPin ------------------------------
(***************************************************************************)
(* What a client's pin promises (SPEC.md 6.5 and 9.1), without the worker  *)
(* that keeps it: the pin is adopted once, then only advances along signed *)
(* releases of its root and moves only along signed rotation statements.   *)
(* Module ServiceWorker keeps to it, lost updates apart.                   *)
(***************************************************************************)
EXTENDS Naturals

CONSTANTS Roots, MaxLinks, Unpinned

VARIABLES
    pin,            \* [root, version, rotationVersion] or Unpinned
    signed,         \* the releases signed so far: [version, root]
    statements      \* the rotation statements signed: [from, to, version]

vars == <<pin, signed, statements>>

Release   == [version: Nat, root: Roots]
Statement == [from: Roots, to: Roots, version: Nat]
Pin       == [root: Roots, version: Nat, rotationVersion: Nat]

Init == pin = Unpinned /\ signed \subseteq Release /\ statements = {}

Publish == /\ signed \subseteq signed' /\ signed' \subseteq Release
           /\ statements \subseteq statements' /\ statements' \subseteq Statement
           /\ UNCHANGED pin

Adopt(m) == /\ pin = Unpinned
            /\ pin' = [root |-> m.root, version |-> m.version,
                       rotationVersion |-> 0]
            /\ UNCHANGED <<signed, statements>>

Advance(m) == /\ pin # Unpinned
              /\ m.root = pin.root /\ m.version > pin.version
              /\ pin' = [pin EXCEPT !.version = m.version]
              /\ UNCHANGED <<signed, statements>>

\* A chain of statements, each signed by the root the one before moved to,
\* each newer than the one before, none returning to a root of the same walk.
IsWalk(links, n) ==
    /\ links[1].from = pin.root
    /\ links[1].version > pin.rotationVersion
    /\ \A i \in 2 .. n : /\ links[i].from = links[i - 1].to
                         /\ links[i].version > links[i - 1].version
    /\ \A i, j \in 1 .. n : i # j => links[i].to # links[j].to

Rotate(n) == /\ pin # Unpinned
             /\ \E links \in [1 .. n -> statements] :
                  /\ IsWalk(links, n)
                  /\ pin' = [pin EXCEPT !.root = links[n].to,
                                        !.rotationVersion = links[n].version]
             /\ UNCHANGED <<signed, statements>>

\* The browser drops the site's storage.
Forget == pin' = Unpinned /\ UNCHANGED <<signed, statements>>

Next == \/ Publish \/ Forget
        \/ \E m \in signed : Adopt(m) \/ Advance(m)
        \/ \E n \in 1 .. MaxLinks : Rotate(n)

Spec == Init /\ [][Next]_vars
=============================================================================
