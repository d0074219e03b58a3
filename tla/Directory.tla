----------------------------- MODULE Directory -----------------------------
(***************************************************************************)
(* The directory in which a server keeps one file for each thing it was    *)
(* sent, as the audit relay and the telemetry server do: a function from   *)
(* the names of the files to what is in them.                              *)
(***************************************************************************)
EXTENDS Naturals, FiniteSets

Overwrite(dir, files) ==
    [f \in DOMAIN dir \cup DOMAIN files |-> IF f \in DOMAIN files THEN files[f] ELSE dir[f]]

\* The contents of `names`, in the order of their names, which is their only order.
Listings(dir, names, NamedBefore(_, _)) ==
    {[i \in DOMAIN order |-> dir[order[i]]] :
        order \in {s \in [1 .. Cardinality(names) -> names] :
                     \A i, j \in DOMAIN s : i < j => NamedBefore(s[i], s[j])}}
============================================================================
