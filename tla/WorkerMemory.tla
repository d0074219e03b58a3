---------------------------- MODULE WorkerMemory ----------------------------
(***************************************************************************)
(* What serving may rely on: how the `state` of a worker changes, without  *)
(* saying why.  Module ServiceWorker implements it; module Serving takes   *)
(* it as its environment.                                                  *)
(***************************************************************************)
CONSTANTS HardStates, NoManifest

VARIABLES
    memory,         \* the verdict, and the manifest requests are checked with
    signed          \* the manifests signed so far

Cold == [state |-> "NETWORK_FAIL", manifest |-> NoManifest]

Init == memory = Cold

Sign == signed \subseteq signed' /\ UNCHANGED memory

\* A refresh accepts a manifest that was signed.
Accept == /\ \E m \in signed, verdict \in {"VALID", "EXPIRED"} :
               memory' = [state |-> verdict, manifest |-> m]
          /\ UNCHANGED signed

\* It refuses what it was handed, and forgets what it had.
Refuse == /\ \E verdict \in HardStates :
               memory' = [state |-> verdict, manifest |-> NoManifest]
          /\ UNCHANGED signed

\* It finds neither the origin nor the mirror.
Unreachable == /\ memory' = [memory EXCEPT !.state =
                     IF memory.manifest # NoManifest THEN @ ELSE "NETWORK_FAIL"]
               /\ UNCHANGED signed

\* The browser ends the worker.
Restart == memory' = Cold /\ UNCHANGED signed

Next == Sign \/ Accept \/ Refuse \/ Unreachable \/ Restart

Spec == Init /\ [][Next]_<<memory, signed>>
============================================================================
