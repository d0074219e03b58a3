----------------------------- MODULE HasherPool -----------------------------
(***************************************************************************)
(* The streaming SHA-256 hashers of runtime/veilguard-verify.mjs over the  *)
(* Wasm module of wasm-hasher/src/lib.rs.  The module keeps no state: each *)
(* hasher works in a slot of the one linear memory, handed out from a free *)
(* list or from the end of what has been used, growing the memory.         *)
(*                                                                         *)
(* Memory is counted in slots; the state in a slot is the sequence of the  *)
(* chunks it has been fed, and so is a digest.                             *)
(***************************************************************************)
EXTENDS Naturals, Sequences, FiniteSets

CONSTANTS
    Requests,   \* each may have its response hashed while it streams
    Chunks,
    Zeroed,     \* what hasher_finalize leaves behind
    NoHasher

VARIABLES
    next,       \* the first slot never handed out
    free,       \* the released slots; the last one is handed out first
    grown,      \* how many slots the memory has room for
    heap,       \* what each slot holds
    slot,       \* the slot of each request's hasher, until it is done
    fed         \* history: the chunks that hasher was fed

pool == <<next, free, grown, heap, slot, fed>>

Slots(n) == 0 .. n - 1

ASSUME PoolAssumption == NoHasher \notin Nat

PoolInit ==
    /\ next = 0 /\ free = <<>> /\ grown = 0 /\ heap = <<>>
    /\ slot = [h \in Requests |-> NoHasher]
    /\ fed = [h \in Requests |-> <<>>]

Live(h) == slot[h] # NoHasher

\* take(): the slot is chosen before the memory is known to hold it.
Popped == IF free = <<>> THEN free ELSE SubSeq(free, 1, Len(free) - 1)

\* Mutant: every hasher gets the same slot.
TakenShared == 0

Taken == IF free = <<>> THEN next ELSE free[Len(free)]

\* The constructor: take(), then hasher_init on the slot.
New(h) ==
    /\ ~Live(h)
    /\ next' = IF free = <<>> THEN next + 1 ELSE next
    /\ free' = Popped
    /\ grown' = IF Taken < grown THEN grown ELSE Taken + 1
    /\ heap' = [i \in Slots(grown') |->
                  IF i = Taken THEN <<>>
                  ELSE IF i < grown THEN heap[i] ELSE Zeroed]
    /\ slot' = [slot EXCEPT ![h] = Taken]
    /\ fed' = [fed EXCEPT ![h] = <<>>]

\* Mutant: the slot that could not be had is put on the free list.
NewFailsReturning ==
    /\ Taken >= grown
    /\ free' = Append(Popped, Taken)
    /\ UNCHANGED <<next, grown, heap, slot, fed>>

\* memory.grow throws: the slot is spent, and never handed out.
NewFails ==
    /\ Taken >= grown
    /\ next' = IF free = <<>> THEN next + 1 ELSE next
    /\ free' = Popped
    /\ UNCHANGED <<grown, heap, slot, fed>>

\* update(): a chunk is copied piece by piece into the slot's own window.
Update(h, chunk) ==
    /\ Live(h)
    /\ heap' = [heap EXCEPT ![slot[h]] = Append(@, chunk)]
    /\ fed' = [fed EXCEPT ![h] = Append(@, chunk)]
    /\ UNCHANGED <<next, free, grown, slot>>

Release(h) == /\ slot' = [slot EXCEPT ![h] = NoHasher]
              /\ fed' = [fed EXCEPT ![h] = <<>>]
              /\ free' = Append(free, slot[h])
              /\ UNCHANGED <<next, grown>>

\* What finalize() returns.
Digest(h) == heap[slot[h]]

Finalize(h) == /\ Live(h) /\ Release(h)
               /\ heap' = [heap EXCEPT ![slot[h]] = Zeroed]

\* dispose() leaves what is in the slot.
Dispose(h) == /\ Live(h) /\ Release(h)
              /\ UNCHANGED heap

\* The worker, and the memory with it, starts anew.
PoolRestart == /\ next' = 0 /\ free' = <<>> /\ grown' = 0 /\ heap' = <<>>
               /\ slot' = [h \in Requests |-> NoHasher]
               /\ fed' = [h \in Requests |-> <<>>]

PoolNext == \/ NewFails \/ PoolRestart
            \/ \E h \in Requests : \/ New(h) \/ Finalize(h) \/ Dispose(h)
                                  \/ \E chunk \in Chunks : Update(h, chunk)

PoolSpec == PoolInit /\ [][PoolNext]_pool

----------------------------------------------------------------------------
PoolTypeOK ==
    /\ next \in Nat /\ grown \in Nat
    /\ free \in Seq(Slots(next))
    /\ heap \in [Slots(grown) -> Seq(Chunks) \cup {Zeroed}]
    /\ slot \in [Requests -> Slots(next) \cup {NoHasher}]
    /\ fed \in [Requests -> Seq(Chunks)]

\* However many streams are hashed at once, and however they end, the digest a
\* stream would get now is that of the chunks it was fed itself.
DigestsAreOwn == \A h \in Requests : Live(h) => Digest(h) = fed[h]
============================================================================
