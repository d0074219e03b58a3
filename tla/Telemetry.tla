----------------------------- MODULE Telemetry -----------------------------
(***************************************************************************)
(* The telemetry server (src/bin/veil-guard-telemetry.rs), with an         *)
(* --out-dir and a --webhook-url: a request holds the mutex while it puts  *)
(* its reports one by one into memory and into files, and starts a task    *)
(* for each that forwards it once.  The process dies and is started again, *)
(* reads, writes and forwards fail, and the clock goes either way.         *)
(*                                                                         *)
(* A report is its number.  A request without the token, or whose body is  *)
(* no JSON, changes nothing and is left out.                               *)
(***************************************************************************)
EXTENDS Directory, Sequences, Functions

CONSTANTS
    MaxReports,     \* bound on the reports
    MaxBatch,       \* bound on the reports of one request
    LastSecond,     \* the clock's range is 0 .. LastSecond
    MaxFailures,    \* bound on the writes that fail, and on the forwards that do
    MaxRestarts,    \* bound on the deaths of the server
    MaxUnread,      \* bound on the files that a start cannot read
    Torn            \* a file that does not parse

VARIABLES
    reports,        \* the server's memory
    disk,           \* its out_dir: from <<second, index>> to a report or Torn
    clock,          \* the system's time in seconds
    request,        \* the request that has the mutex: [now, items, left], or Idle
    outgoing,       \* the forwards under way
    delivered,      \* what the webhook was given
    made,           \* the reports made so far
    accepted,       \* history: the reports answered with 200
    spent,          \* history: the seconds in the names of the files at a start
    repeated,       \* history: a request read one of these seconds again
    unread,         \* history: the files that parse and that a start could not read
    failures, undelivered, restarts

vars == <<reports, disk, clock, request, outgoing, delivered, made, accepted,
          spent, repeated, unread, failures, undelivered, restarts>>

Idle == [now |-> 0, items |-> <<>>, left |-> <<>>]

Init ==
    /\ reports = <<>> /\ disk = <<>> /\ clock = 0 /\ request = Idle
    /\ outgoing = {} /\ delivered = {} /\ made = 0 /\ accepted = {}
    /\ spent = {} /\ repeated = FALSE /\ unread = 0
    /\ failures = 0 /\ undelivered = 0 /\ restarts = 0

----------------------------------------------------------------------------
(* process_report()                                                        *)

Post ==
    /\ request = Idle
    /\ \E k \in 1 .. MaxBatch :
         LET items == [i \in 1 .. k |-> made + i]
         IN  /\ made + k <= MaxReports /\ made' = made + k
             /\ request' = [now |-> clock, items |-> items, left |-> items]
    /\ repeated' = (repeated \/ clock \in spent)
    /\ UNCHANGED <<reports, disk, clock, outgoing, delivered, accepted, spent,
                   unread, failures, undelivered, restarts>>

\* Mutant: the second is left out of the name.
FileNameOfIndex(now, idx) == <<0, idx>>

FileName(now, idx) == <<now, idx>>

Write(content) ==
    Overwrite(disk, [f \in {FileName(request.now, Len(reports))} |-> content])

Stores(r) == /\ disk' = Write(r)
             /\ UNCHANGED failures
StoreFails == /\ failures < MaxFailures /\ failures' = failures + 1
              /\ disk' \in {disk, Write(Torn)}

\* Mutant: a report whose file could not be written is not forwarded.
ItemIfStored ==
    /\ request.left # <<>>
    /\ LET r == Head(request.left)
       IN  /\ reports' = Append(reports, r)
           /\ \/ Stores(r) /\ outgoing' = outgoing \cup {r}
              \/ StoreFails /\ UNCHANGED outgoing
    /\ request' = [request EXCEPT !.left = Tail(@)]
    /\ UNCHANGED <<clock, delivered, made, accepted, spent, repeated,
                   unread, undelivered, restarts>>

Item ==
    /\ request.left # <<>>
    /\ LET r == Head(request.left)
       IN  /\ reports' = Append(reports, r)
           /\ Stores(r) \/ StoreFails
           /\ outgoing' = outgoing \cup {r}
    /\ request' = [request EXCEPT !.left = Tail(@)]
    /\ UNCHANGED <<clock, delivered, made, accepted, spent, repeated,
                   unread, undelivered, restarts>>

Answer ==
    /\ request # Idle /\ request.left = <<>>
    /\ accepted' = accepted \cup Range(request.items)
    /\ request' = Idle
    /\ UNCHANGED <<reports, disk, clock, outgoing, delivered, made, spent,
                   repeated, unread, failures, undelivered, restarts>>

\* The task of one report: whatever becomes of it, it is not tried again.
Forward(r) ==
    /\ outgoing' = outgoing \ {r}
    /\ \/ delivered' = delivered \cup {r} /\ UNCHANGED undelivered
       \/ /\ undelivered < MaxFailures /\ undelivered' = undelivered + 1
          /\ UNCHANGED delivered
    /\ UNCHANGED <<reports, disk, clock, request, made, accepted, spent,
                   repeated, unread, failures, restarts>>

----------------------------------------------------------------------------
(* The process and the clock                                               *)

Before(f, g) == \/ f[1] < g[1]
                \/ f[1] = g[1] /\ f[2] < g[2]

\* Mutant: a file is taken for what it is.
LoadedUnparsed(dir, hidden) == Listings(dir, DOMAIN dir \ hidden, Before)

\* What main() reads back: the files that parse, but for those it cannot read,
\* which may be all of the directory and which it does not report.
Loaded(dir, hidden) ==
    Listings(dir, {f \in DOMAIN dir : dir[f] # Torn} \ hidden, Before)

\* A graceful shutdown waits for the request, and for no task.
Restart ==
    /\ restarts < MaxRestarts /\ restarts' = restarts + 1
    /\ disk' \in {disk} \cup (IF request.left = <<>> THEN {} ELSE {Write(Torn)})
    /\ \E hidden \in SUBSET {f \in DOMAIN disk' : disk'[f] # Torn} :
         /\ unread + Cardinality(hidden) <= MaxUnread
         /\ unread' = unread + Cardinality(hidden)
         /\ reports' \in Loaded(disk', hidden)
    /\ request' = Idle /\ outgoing' = {}
    /\ spent' = spent \cup {f[1] : f \in DOMAIN disk'}
    /\ UNCHANGED <<clock, delivered, made, accepted, repeated, failures,
                   undelivered>>

SetClock ==
    /\ clock' \in {t \in 0 .. LastSecond : t = clock + 1 \/ clock = t + 1}
    /\ UNCHANGED <<reports, disk, request, outgoing, delivered, made, accepted,
                   spent, repeated, unread, failures, undelivered, restarts>>

Next == \/ Post \/ Item \/ Answer \/ Restart \/ SetClock
        \/ \E r \in outgoing : Forward(r)

Spec == Init /\ [][Next]_vars

----------------------------------------------------------------------------
Numbers == 1 .. MaxReports

TypeOK ==
    /\ reports \in Seq(Numbers)
    /\ \A f \in DOMAIN disk : /\ f[1] \in 0 .. LastSecond /\ f[2] \in Nat
                              /\ disk[f] \in Numbers \cup {Torn}
    /\ clock \in 0 .. LastSecond /\ request.now \in 0 .. LastSecond
    /\ {request.items, request.left} \subseteq Seq(Numbers)
    /\ outgoing \cup delivered \cup accepted \subseteq Numbers
    /\ outgoing \cap delivered = {}
    /\ made \in 0 .. MaxReports
    /\ failures \in 0 .. MaxFailures /\ undelivered \in 0 .. MaxFailures
    /\ restarts \in 0 .. MaxRestarts /\ unread \in 0 .. MaxUnread

Lost == accepted \ Range(disk)

\* A server that no second is read by both before and after a start loses the file of
\* a report only to its own failed write.  One that is restarted faster than its clock
\* moves, or whose clock is set back, loses one more for each start and each write
\* that failed or file that a start skipped because it could not read it.
FilesAreKept ==
    Cardinality(Lost) <=
        IF repeated THEN (failures + unread) * (1 + restarts) ELSE failures

\* One fault, whether a read, a write, a forward or the process, loses no report that was
\* answered with 200: it is in a file, at the webhook or on its way there.
OneFaultLosesNothing ==
    failures + unread + undelivered + restarts <= 1
        => Lost \subseteq outgoing \cup delivered
============================================================================
