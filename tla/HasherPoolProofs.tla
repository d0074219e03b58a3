-------------------------- MODULE HasherPoolProofs --------------------------
(* Proofs about the hasher slots, for any number of streams and chunks.    *)
EXTENDS HasherPool, SequenceTheorems, TLAPS

(* Disjoint: no slot is in use twice, or in use and free, or free twice.   *)
(* Without it a hasher that is fed would disturb another one.              *)
Disjoint ==
    /\ \A h \in Requests : Live(h) => slot[h] \in Slots(grown)
    /\ \A g, h \in Requests : Live(g) /\ Live(h) /\ g # h => slot[g] # slot[h]
    /\ \A h \in Requests, i \in 1 .. Len(free) : Live(h) => free[i] # slot[h]
    /\ \A i, j \in 1 .. Len(free) : i # j => free[i] # free[j]

PoolInv == PoolTypeOK /\ Disjoint /\ DigestsAreOwn

LEMMA PoolInitially == PoolInit => PoolInv
BY PoolAssumption DEF PoolInit, PoolInv, PoolTypeOK, Disjoint, DigestsAreOwn,
   Live, Slots

\* The slot take() hands out is not in use, and not free afterwards.
LEMMA TakenIsFresh ==
    ASSUME PoolInv
    PROVE  LET next_ == IF free = <<>> THEN next + 1 ELSE next
           IN  /\ Taken \in Slots(next_) /\ Slots(next) \subseteq Slots(next_)
               /\ Popped \in Seq(Slots(next))
               /\ Len(Popped) <= Len(free)
               /\ \A i \in 1 .. Len(Popped) : Popped[i] = free[i] /\ Popped[i] # Taken
               /\ \A h \in Requests : Live(h) => slot[h] # Taken
<1>1. CASE free = <<>>
  BY <1>1, PoolAssumption
     DEF PoolInv, PoolTypeOK, Disjoint, Live, Slots, Taken, Popped
<1>2. CASE free # <<>>
  <2>1. Len(free) \in Nat /\ Len(free) > 0 /\ free \in Seq(Slots(next))
    BY <1>2 DEF PoolInv, PoolTypeOK
  <2>2. Taken = free[Len(free)] /\ Taken \in Slots(next)
    BY <1>2, <2>1 DEF Taken
  <2>3. /\ Popped = SubSeq(free, 1, Len(free) - 1)
        /\ Popped \in Seq(Slots(next)) /\ Len(Popped) = Len(free) - 1
        /\ \A i \in 1 .. Len(Popped) : Popped[i] = free[i]
    <3> DEFINE last == Len(free) - 1
               kept == SubSeq(free, 1, last)
    <3>1. Popped = kept
      BY <1>2 DEF Popped
    <3>2. last \in Int /\ \A i \in 1 .. last : free[i] \in Slots(next)
      BY <2>1
    <3>3. /\ kept \in Seq(Slots(next))
          /\ Len(kept) = IF 1 <= last THEN last - 1 + 1 ELSE 0
          /\ \A i \in 1 .. last - 1 + 1 : kept[i] = free[1 + i - 1]
      <4> HIDE DEF last
      <4> QED BY <3>2, SubSeqProperties
    <3>4. last \in Nat
      BY <2>1
    <3>5. Len(kept) = last /\ \A i \in 1 .. last : kept[i] = free[i]
      <4> HIDE DEF last, kept
      <4> QED BY <3>3, <3>4
    <3> QED BY <3>1, <3>3, <3>5
  <2>4. \A i \in 1 .. Len(Popped) : Popped[i] # Taken
    BY <2>1, <2>2, <2>3 DEF PoolInv, Disjoint
  <2>5. \A h \in Requests : Live(h) => slot[h] # Taken
    BY <2>1, <2>2 DEF PoolInv, Disjoint
  <2> QED BY <1>2, <2>1, <2>2, <2>3, <2>4, <2>5 DEF Slots
<1> QED BY <1>1, <1>2

LEMMA NewKeepsPool ==
    ASSUME PoolInv, NEW h \in Requests, New(h)
    PROVE  PoolInv'
<1> DEFINE next_ == IF free = <<>> THEN next + 1 ELSE next
<1>1. /\ Taken \in Slots(next_) /\ Slots(next) \subseteq Slots(next_)
      /\ Popped \in Seq(Slots(next))
      /\ Len(Popped) <= Len(free)
      /\ \A i \in 1 .. Len(Popped) : Popped[i] = free[i] /\ Popped[i] # Taken
      /\ \A g \in Requests : Live(g) => slot[g] # Taken
  BY TakenIsFresh
<1>2. /\ next \in Nat /\ grown \in Nat /\ next' = next_ /\ next' \in Nat
      /\ free' = Popped /\ Taken \in Nat
      /\ grown' = IF Taken < grown THEN grown ELSE Taken + 1
      /\ slot' = [slot EXCEPT ![h] = Taken] /\ fed' = [fed EXCEPT ![h] = <<>>]
      /\ heap' = [i \in Slots(grown') |->
                    IF i = Taken THEN <<>>
                    ELSE IF i < grown THEN heap[i] ELSE Zeroed]
  BY <1>1 DEF PoolInv, PoolTypeOK, New, Slots
<1>3. grown' \in Nat /\ Taken \in Slots(grown') /\ Slots(grown) \subseteq Slots(grown')
  BY <1>2 DEF Slots
<1>4. free' \in Seq(Slots(next'))
  <2>1. Slots(next) \subseteq Slots(next')
    BY <1>1, <1>2
  <2> QED BY <1>1, <1>2, <2>1
<1>5. heap' \in [Slots(grown') -> Seq(Chunks) \cup {Zeroed}]
  BY <1>2, <1>3 DEF PoolInv, PoolTypeOK, Slots
<1>6. /\ slot' \in [Requests -> Slots(next') \cup {NoHasher}]
      /\ fed' \in [Requests -> Seq(Chunks)]
  BY <1>1, <1>2 DEF PoolInv, PoolTypeOK
<1>7. PoolTypeOK'
  BY <1>2, <1>3, <1>4, <1>5, <1>6 DEF PoolTypeOK
<1>8. /\ slot'[h] = Taken /\ fed'[h] = <<>> /\ Taken # NoHasher
      /\ \A g \in Requests \ {h} : /\ slot'[g] = slot[g] /\ fed'[g] = fed[g]
                                   /\ Live(g)' = Live(g)
  BY <1>2, PoolAssumption DEF PoolInv, PoolTypeOK, Live
<1>9. Disjoint'
  <2>1. ASSUME NEW g \in Requests, Live(g)'
        PROVE  /\ slot'[g] \in Slots(grown')
               /\ \A i \in 1 .. Len(free') : free'[i] # slot'[g]
    BY <1>1, <1>2, <1>3, <1>8, <2>1 DEF PoolInv, Disjoint, PoolTypeOK
  <2>2. ASSUME NEW f \in Requests, NEW g \in Requests, f # g, Live(f)', Live(g)'
        PROVE  slot'[f] # slot'[g]
    BY <1>1, <1>8, <2>2 DEF PoolInv, Disjoint
  <2>3. \A i, j \in 1 .. Len(free') : i # j => free'[i] # free'[j]
    BY <1>1, <1>2 DEF PoolInv, Disjoint, PoolTypeOK
  <2> QED BY <2>1, <2>2, <2>3 DEF Disjoint
<1>10. DigestsAreOwn'
  <2> SUFFICES ASSUME NEW g \in Requests, Live(g)' PROVE heap'[slot'[g]] = fed'[g]
    BY DEF DigestsAreOwn, Digest
  <2>1. CASE g = h
    BY <1>2, <1>3, <1>8, <2>1
  <2>2. CASE g # h
    <3>1. slot'[g] = slot[g] /\ fed'[g] = fed[g] /\ Live(g)
      BY <1>8, <2>2
    <3>2. slot[g] \in Slots(grown) /\ heap[slot[g]] = fed[g] /\ slot[g] # Taken
      BY <1>1, <3>1 DEF PoolInv, Disjoint, DigestsAreOwn, Digest
    <3> QED BY <1>2, <1>3, <3>1, <3>2 DEF Slots
  <2> QED BY <2>1, <2>2
<1> QED BY <1>7, <1>9, <1>10 DEF PoolInv

LEMMA NewFailsKeepsPool ==
    ASSUME PoolInv, NewFails
    PROVE  PoolInv'
<1>1. /\ Popped \in Seq(Slots(next)) /\ Len(Popped) <= Len(free)
      /\ \A i \in 1 .. Len(Popped) : Popped[i] = free[i]
  BY TakenIsFresh
<1>2. /\ next \in Nat /\ next' \in Nat /\ Slots(next) \subseteq Slots(next')
      /\ free' = Popped /\ UNCHANGED <<grown, heap, slot, fed>>
  BY DEF NewFails, PoolInv, PoolTypeOK, Slots
<1>3. PoolTypeOK'
  <2>1. free' \in Seq(Slots(next'))
    BY <1>1, <1>2
  <2> QED BY <1>2, <2>1 DEF PoolInv, PoolTypeOK
<1>4. Disjoint'
  <2>1. Len(free') \in Nat /\ Len(free) \in Nat
    BY <1>1, <1>2 DEF PoolInv, PoolTypeOK
  <2>2. \A i \in 1 .. Len(free') : i \in 1 .. Len(free) /\ free'[i] = free[i]
    BY <1>1, <1>2, <2>1
  <2>3. \A h \in Requests : Live(h)' = Live(h) /\ slot'[h] = slot[h]
    BY <1>2 DEF Live
  <2> QED BY <1>2, <2>2, <2>3 DEF PoolInv, Disjoint
<1>5. DigestsAreOwn'
  BY <1>2 DEF PoolInv, DigestsAreOwn, Digest, Live
<1> QED BY <1>3, <1>4, <1>5 DEF PoolInv

LEMMA UpdateKeepsPool ==
    ASSUME PoolInv, NEW h \in Requests, NEW chunk \in Chunks, Update(h, chunk)
    PROVE  PoolInv'
<1>1. /\ slot[h] \in Slots(grown) /\ heap[slot[h]] = fed[h] /\ fed[h] \in Seq(Chunks)
      /\ heap' = [heap EXCEPT ![slot[h]] = Append(fed[h], chunk)]
      /\ fed' = [fed EXCEPT ![h] = Append(fed[h], chunk)]
      /\ UNCHANGED <<next, free, grown, slot>>
  BY DEF PoolInv, PoolTypeOK, Disjoint, DigestsAreOwn, Digest, Update
<1>2. PoolTypeOK'
  <2>1. Append(fed[h], chunk) \in Seq(Chunks)
    BY <1>1
  <2> QED BY <1>1, <2>1 DEF PoolInv, PoolTypeOK
<1>3. Disjoint'
  BY <1>1 DEF PoolInv, Disjoint, Live
<1>4. DigestsAreOwn'
  <2> SUFFICES ASSUME NEW g \in Requests, Live(g) PROVE heap'[slot[g]] = fed'[g]
    BY <1>1 DEF DigestsAreOwn, Digest, Live
  <2>1. slot[g] \in Slots(grown) /\ heap[slot[g]] = fed[g]
    BY DEF PoolInv, Disjoint, DigestsAreOwn, Digest
  <2>2. g # h => slot[g] # slot[h]
    BY DEF PoolInv, Disjoint, Update
  <2> QED BY <1>1, <2>1, <2>2 DEF PoolInv, PoolTypeOK
<1> QED BY <1>2, <1>3, <1>4 DEF PoolInv

\* finalize() and dispose(), which differ in what they leave in the slot.
LEMMA ReleaseKeepsPool ==
    ASSUME PoolInv, NEW h \in Requests, Finalize(h) \/ Dispose(h)
    PROVE  PoolInv'
<1>1. /\ Live(h) /\ next \in Nat /\ slot[h] \in Slots(next) /\ free \in Seq(Slots(next))
      /\ free' = Append(free, slot[h]) /\ UNCHANGED <<next, grown>>
      /\ slot' = [slot EXCEPT ![h] = NoHasher] /\ fed' = [fed EXCEPT ![h] = <<>>]
      /\ heap' = heap \/ heap' = [heap EXCEPT ![slot[h]] = Zeroed]
  BY DEF PoolInv, PoolTypeOK, Finalize, Dispose, Release, Live
<1>2. /\ slot[h] \in Slots(grown)
      /\ heap' \in [Slots(grown) -> Seq(Chunks) \cup {Zeroed}]
      /\ \A i \in Slots(grown) : i # slot[h] => heap'[i] = heap[i]
  BY <1>1 DEF PoolInv, PoolTypeOK, Disjoint
<1>3. /\ Len(free') = Len(free) + 1 /\ Len(free) \in Nat
      /\ free'[Len(free) + 1] = slot[h]
      /\ \A i \in 1 .. Len(free) : free'[i] = free[i]
      /\ free' \in Seq(Slots(next))
  BY <1>1
<1>4. PoolTypeOK'
  BY <1>1, <1>2, <1>3 DEF PoolInv, PoolTypeOK
<1>5. \A g \in Requests : Live(g)' => /\ g # h /\ Live(g)
                                      /\ slot'[g] = slot[g] /\ fed'[g] = fed[g]
                                      /\ slot[g] # slot[h]
  BY <1>1 DEF PoolInv, PoolTypeOK, Disjoint, Live
<1>6. Disjoint'
  <2>1. ASSUME NEW g \in Requests, Live(g)', NEW i \in 1 .. Len(free')
        PROVE  free'[i] # slot'[g]
    BY <1>3, <1>5, <2>1 DEF PoolInv, Disjoint
  <2>2. \A i, j \in 1 .. Len(free') : i # j => free'[i] # free'[j]
    BY <1>1, <1>3 DEF PoolInv, Disjoint
  <2>3. \A f, g \in Requests : Live(f)' /\ Live(g)' /\ f # g => slot'[f] # slot'[g]
    BY <1>5 DEF PoolInv, Disjoint
  <2> QED BY <1>1, <1>5, <2>1, <2>2, <2>3 DEF PoolInv, Disjoint
<1>7. DigestsAreOwn'
  BY <1>2, <1>5 DEF PoolInv, Disjoint, DigestsAreOwn, Digest
<1> QED BY <1>4, <1>6, <1>7 DEF PoolInv

LEMMA PoolInductive == PoolInv /\ [PoolNext]_pool => PoolInv'
<1> SUFFICES ASSUME PoolInv, [PoolNext]_pool PROVE PoolInv'
  OBVIOUS
<1>1. CASE NewFails
  BY <1>1, NewFailsKeepsPool
<1>2. ASSUME NEW h \in Requests, New(h) PROVE PoolInv'
  BY <1>2, NewKeepsPool
<1>3. ASSUME NEW h \in Requests, Finalize(h) \/ Dispose(h) PROVE PoolInv'
  BY <1>3, ReleaseKeepsPool
<1>4. ASSUME NEW h \in Requests, NEW chunk \in Chunks, Update(h, chunk) PROVE PoolInv'
  BY <1>4, UpdateKeepsPool
<1>5. CASE PoolRestart
  <2>1. (PoolInit => PoolInv)'
    BY PoolInitially, PTL
  <2> QED BY <1>5, <2>1 DEF PoolRestart, PoolInit
<1>6. CASE UNCHANGED pool
  BY <1>6 DEF pool, PoolInv, PoolTypeOK, Disjoint, DigestsAreOwn, Digest, Live
<1> QED BY <1>1, <1>2, <1>3, <1>4, <1>5, <1>6 DEF PoolNext

LEMMA PoolInvariant == PoolSpec => []PoolInv
BY PoolInitially, PoolInductive, PTL DEF PoolSpec

\* PoolTypeOK: a slot is always one that was handed out, and the memory holds the
\* state of exactly the slots it has room for.
THEOREM PoolTyping == PoolSpec => []PoolTypeOK
<1>1. PoolInv => PoolTypeOK
  BY DEF PoolInv
<1> QED BY <1>1, PoolInvariant, PTL

\* DigestsAreOwn: take, release, update and the growing of the memory, in whatever
\* order of however many streams, never mix what two of them are fed.
THEOREM StreamsDoNotMix == PoolSpec => []DigestsAreOwn
<1>1. PoolInv => DigestsAreOwn
  BY DEF PoolInv
<1> QED BY <1>1, PoolInvariant, PTL
============================================================================
