------------------------------- MODULE Relay -------------------------------
(***************************************************************************)
(* The audit relay (relay-server/src/main.rs) and its clients              *)
(* (src/relay.rs): vantage points push their snapshots, the relay keeps    *)
(* them in memory and in a directory, and an operator pulls and compares   *)
(* them.  The relay dies and is started again, and its reads and writes    *)
(* may fail.                                                               *)
(*                                                                         *)
(* One mutex covers a whole request.  A file name is its label, after the  *)
(* replacements, and its index.  A request without the token changes       *)
(* nothing and is left out.                                                *)
(***************************************************************************)
EXTENDS Auditor, Directory, Functions

CONSTANTS
    Vantages,       \* labels of the auditors
    SafeLabel,      \* their file labels, after the replacements
    NamedBefore(_, _), \* the order paths.sort() gives two file names, which are strings
    Views,          \* what the origin may serve to each vantage point
    GraphOnly,      \* the vantage points that audit with --graph-only
    TrustRootFile, Today,
    MaxPushes,      \* bound on the snapshots that are pushed
    MaxFailures,    \* bound on the writes that fail
    MaxRestarts,    \* bound on the deaths of the relay
    MaxUnread,      \* bound on the files that a start cannot read
    MaxPulls,       \* bound on the pulls
    Sinces,         \* the values given with --since
    Torn            \* a file that does not parse

VARIABLES
    snapshots,      \* the relay's memory
    disk,           \* its out_dir
    pulled,         \* the operator's out_dir
    pushes,         \* the snapshots pushed so far, which is also their time
    acked,          \* history: the snapshots answered with 201
    unread,         \* history: the files that parse and that a start could not read
    failures, restarts, pulls

vars == <<snapshots, disk, pulled, pushes, acked, unread, failures, restarts, pulls>>

Names == Range(SafeLabel) \X (0 .. MaxPushes)

Audited == [n: 1 .. MaxPushes, label: Vantages, served: UNION Range(Views)]

ASSUME RelayAssumption ==
    /\ DOMAIN SafeLabel = Vantages /\ DOMAIN Views = Vantages
    /\ \A f, g \in Names : f # g => NamedBefore(f, g) # NamedBefore(g, f)
    /\ \A f, g, h \in Names : NamedBefore(f, g) /\ NamedBefore(g, h) => NamedBefore(f, h)
    /\ MaxPushes \in Nat /\ MaxFailures \in Nat /\ MaxRestarts \in Nat
    /\ MaxUnread \in Nat /\ MaxPulls \in Nat /\ Sinces \subseteq Nat
    /\ Torn \notin Audited

Init == /\ snapshots = <<>> /\ disk = <<>> /\ pulled = <<>>
        /\ pushes = 0 /\ acked = {} /\ unread = 0 /\ failures = 0
        /\ restarts = 0 /\ pulls = 0

----------------------------------------------------------------------------
(* The server.  It answers 201 whatever became of the file.                *)

\* Mutant: one file for each label.
FileNameOfLabel(label, idx) == <<SafeLabel[label], 0>>

FileName(label, idx) == <<SafeLabel[label], idx>>

Write(name, content) == Overwrite(disk, [f \in {name} |-> content])

\* Mutant: a file is taken for what it is.
LoadedUnparsed(dir, hidden) == Listings(dir, DOMAIN dir \ hidden, NamedBefore)

\* What main() reads back: the files that parse, but for those it cannot read,
\* which may be all of the directory and which it does not report.
Loaded(dir, hidden) ==
    Listings(dir, {f \in DOMAIN dir : dir[f] # Torn} \ hidden, NamedBefore)

Start(dir) ==
    /\ restarts < MaxRestarts /\ restarts' = restarts + 1
    /\ \E hidden \in SUBSET {f \in DOMAIN dir : dir[f] # Torn} :
         /\ unread + Cardinality(hidden) <= MaxUnread
         /\ unread' = unread + Cardinality(hidden)
         /\ snapshots' \in Loaded(dir, hidden)

Push(v) ==
    /\ pushes < MaxPushes /\ pushes' = pushes + 1
    /\ \E served \in Views[v] :
         LET snap == [n |-> pushes + 1, label |-> v, served |-> served]
             name == FileName(v, Len(snapshots))
         IN  \/ /\ snapshots' = Append(snapshots, snap)
                /\ acked' = acked \cup {snap}
                /\ \/ disk' = Write(name, snap) /\ UNCHANGED failures
                   \/ /\ failures < MaxFailures /\ failures' = failures + 1
                      /\ disk' \in {disk, Write(name, Torn)}
                /\ UNCHANGED <<unread, restarts>>
             \/ /\ disk' = Write(name, Torn)      \* dies over the file
                /\ Start(disk')
                /\ UNCHANGED <<acked, failures>>
    /\ UNCHANGED <<pulled, pulls>>

Restart ==
    /\ Start(disk)
    /\ UNCHANGED <<disk, pulled, pushes, acked, failures, pulls>>

----------------------------------------------------------------------------
(* The operator.  The files of an earlier pull are written over, and only  *)
(* those; the pull may die between two of them, or inside one.             *)

Pull(since) ==
    LET listed   == {j \in DOMAIN snapshots : snapshots[j].n >= since}
        place(j) == Cardinality({k \in listed : k < j})
        name(j)  == <<snapshots[j].label, place(j)>>
    IN  /\ pulls < MaxPulls /\ pulls' = pulls + 1
        /\ \E written \in 1 .. Cardinality(listed), cut \in BOOLEAN :
             LET taken    == {j \in listed : place(j) < written}
                 bytes(j) == IF cut /\ place(j) = written - 1 THEN Torn ELSE snapshots[j]
             IN  pulled' = Overwrite(pulled, [f \in {name(j) : j \in taken} |->
                              bytes(CHOOSE j \in taken : name(j) = f)])
        /\ UNCHANGED <<snapshots, disk, pushes, acked, unread, failures, restarts>>

Next == \/ Restart
        \/ \E v \in Vantages : Push(v)
        \/ \E since \in Sinces : Pull(since)

Spec == Init /\ [][Next]_vars

----------------------------------------------------------------------------
TypeOK ==
    /\ snapshots \in Seq(Audited)
    /\ \A f \in DOMAIN disk : disk[f] \in Audited \cup {Torn}
    /\ \A f \in DOMAIN pulled : pulled[f] \in Audited \cup {Torn}
    /\ pushes \in 0 .. MaxPushes /\ acked \subseteq Audited
    /\ unread \in 0 .. MaxUnread
    /\ failures \in 0 .. MaxFailures /\ restarts \in 0 .. MaxRestarts
    /\ pulls \in 0 .. MaxPulls

Lost == {snap \in acked : \A f \in DOMAIN disk : disk[f] # snap}

\* A relay whose reads and writes all succeed keeps every snapshot it answered with
\* 201, however often it dies.  Each write that fails costs its snapshot, and it and
\* each file that a start skips because it cannot read it cost at most one more for
\* each start, whose index the short count makes the relay use again.
LossIsBounded == Cardinality(Lost) <= (failures + unread) * (1 + restarts)

Snap(s) == Snapshot(s.served, s.label, TrustRootFile, 0, Today,
                    s.label \in GraphOnly)

Bytes(s) ==
    LET manifest == s.served["manifest.json"].body
    IN  <<manifest, [p \in DOMAIN manifest.assets |-> Observed(s.served[p])]>>

\* Two pulled audits that got past the manifest, and that were served different
\* bytes of it or of its assets, never compare as identical: of the state, the
\* findings and the hashes that the snapshots keep, Diff leaves out none that tells
\* them apart.
SelectiveDeliverySurfaces ==
    \A a, b \in Range(pulled) \ {Torn} :
        /\ {Snap(a).state, Snap(b).state} \cap (HardFailures \cup {"UNAVAILABLE"}) = {}
        /\ {a.label, b.label} \cap GraphOnly = {}
        /\ Bytes(a) # Bytes(b)
        => Diff(Snap(a), Snap(b)) # {}
============================================================================
