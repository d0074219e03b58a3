-------------------------- MODULE CollectorsProofs --------------------------
(***************************************************************************)
(* What the two servers lose, for any number of pushes or reports, failed  *)
(* reads and writes, and deaths, and what comparing two snapshots shows.   *)
(*                                                                         *)
(* Both number their files by the length of their memory, and count anew   *)
(* from the files that parse when they start.  The first part is about     *)
(* such a directory, whoever's it is.                                      *)
(***************************************************************************)
EXTENDS Collectors, FiniteSetTheorems, TLAPS

----------------------------------------------------------------------------
(* Directories.                                                            *)

Numbered(dir) == IsFiniteSet(DOMAIN dir) /\ \A f \in DOMAIN dir : f[2] \in Nat

\* The files that parse; those with an index below k; those with one from k on.
Good(dir)      == {f \in DOMAIN dir : dir[f] # Torn}
Below(dir, k)  == {f \in Good(dir) : f[2] < k}
Beyond(dir, k) == {f \in Good(dir) : f[2] >= k}

\* The answered items that are in no file.
Missing(answered, dir) == {item \in answered : \A f \in DOMAIN dir : dir[f] # item}

LEMMA GoodFinite ==
    ASSUME NEW dir, Numbered(dir), NEW k
    PROVE  /\ IsFiniteSet(Good(dir)) /\ Cardinality(Good(dir)) \in Nat
           /\ IsFiniteSet(Below(dir, k)) /\ Cardinality(Below(dir, k)) \in Nat
           /\ IsFiniteSet(Beyond(dir, k)) /\ Cardinality(Beyond(dir, k)) \in Nat
  <1>1. /\ Good(dir) \in SUBSET DOMAIN dir
        /\ Below(dir, k) \in SUBSET DOMAIN dir /\ Beyond(dir, k) \in SUBSET DOMAIN dir
    BY DEF Good, Below, Beyond
  <1>2. IsFiniteSet(Good(dir)) /\ IsFiniteSet(Below(dir, k)) /\ IsFiniteSet(Beyond(dir, k))
    BY <1>1, FS_Subset DEF Numbered
  <1> QED  BY <1>2, FS_CardinalityType

\* The files that parse are those below an index and those from it on.
LEMMA BelowAndBeyond ==
    ASSUME NEW dir, Numbered(dir), NEW k \in Nat
    PROVE  Cardinality(Good(dir)) =
             Cardinality(Below(dir, k)) + Cardinality(Beyond(dir, k))
  <1>1. /\ Below(dir, k) \cup Beyond(dir, k) = Good(dir)
        /\ Below(dir, k) \cap Beyond(dir, k) = {}
    BY DEF Good, Below, Beyond, Numbered
  <1>2. IsFiniteSet(Below(dir, k)) /\ IsFiniteSet(Beyond(dir, k))
    BY GoodFinite
  <1>3. Cardinality(Below(dir, k) \cup Beyond(dir, k)) =
          Cardinality(Below(dir, k)) + Cardinality(Beyond(dir, k))
            - Cardinality(Below(dir, k) \cap Beyond(dir, k))
    BY <1>2, FS_Union
  <1>4. Cardinality({}) = 0
    BY FS_EmptySet
  <1>5. Cardinality(Below(dir, k)) \in Nat /\ Cardinality(Beyond(dir, k)) \in Nat
    BY GoodFinite
  <1>6. Cardinality(Good(dir)) =
          Cardinality(Below(dir, k)) + Cardinality(Beyond(dir, k)) - 0
    BY <1>1, <1>3, <1>4
  <1> QED  BY <1>5, <1>6

Overwritten(dir, name, content, after) ==
    /\ DOMAIN after = DOMAIN dir \cup {name} /\ after[name] = content
    /\ \A f \in DOMAIN dir \ {name} : after[f] = dir[f]

\* A file that is written or torn.
LEMMA WriteEffect ==
    ASSUME NEW dir, Numbered(dir), NEW name, name[2] \in Nat, NEW content, NEW after,
           Overwritten(dir, name, content, after)
    PROVE  /\ Numbered(after)
           /\ content = Torn => Good(after) = Good(dir) \ {name}
           /\ content # Torn => Good(after) = Good(dir) \cup {name}
           /\ Beyond(after, name[2] + 1) = Beyond(dir, name[2] + 1)
           /\ \A k \in 0 .. name[2] : Below(after, k) = Below(dir, k)
  <1>1. Numbered(after)
    <2>1. IsFiniteSet(DOMAIN after)
      BY FS_AddElement DEF Numbered, Overwritten
    <2> QED  BY <2>1 DEF Numbered, Overwritten
  <1>2. /\ content = Torn => Good(after) = Good(dir) \ {name}
        /\ content # Torn => Good(after) = Good(dir) \cup {name}
    BY DEF Good, Overwritten
  <1>3. \/ Good(after) = Good(dir) \ {name}
        \/ Good(after) = Good(dir) \cup {name}
    BY <1>2
  <1>4. ~(name[2] >= name[2] + 1) /\ \A k \in 0 .. name[2] : ~(name[2] < k)
    OBVIOUS
  <1>5. Beyond(after, name[2] + 1) = Beyond(dir, name[2] + 1)
    BY <1>3, <1>4 DEF Beyond
  <1>6. \A k \in 0 .. name[2] : Below(after, k) = Below(dir, k)
    BY <1>3, <1>4 DEF Below
  <1> QED  BY <1>1, <1>2, <1>5, <1>6

\* A write at an index loses at most the file it takes the place of, and none when it
\* takes the place of none.
LEMMA WriteLoses ==
    ASSUME NEW dir, Numbered(dir), NEW name, name[2] \in Nat, NEW content, NEW after,
           Overwritten(dir, name, content, after),
           NEW answered, IsFiniteSet(answered), Torn \notin answered
    PROVE  LET k == name[2]
           IN  /\ IsFiniteSet(Missing(answered, dir))
               /\ Cardinality(Missing(answered, dir)) \in Nat
               /\ Cardinality(Missing(answered, after)) + Cardinality(Beyond(after, k + 1))
                    <= Cardinality(Missing(answered, dir)) + Cardinality(Beyond(dir, k))
               /\ name \notin DOMAIN dir =>
                    Missing(answered, after) \subseteq Missing(answered, dir)
  <1> DEFINE k == name[2]
             old == Missing(answered, dir)
             new == Missing(answered, after)
  <1>1. /\ Numbered(after) /\ DOMAIN after = DOMAIN dir \cup {name}
        /\ \A f \in DOMAIN dir \ {name} : after[f] = dir[f]
        /\ Beyond(after, k + 1) = Beyond(dir, k + 1)
    BY WriteEffect DEF Overwritten
  <1>2. name \notin DOMAIN dir => new \subseteq old
    BY <1>1 DEF Missing
  <1>3. IsFiniteSet(old) /\ Cardinality(old) \in Nat
    <2>1. old \subseteq answered
      BY DEF Missing
    <2> QED  BY <2>1, FS_Subset, FS_CardinalityType
  <1>4. Beyond(dir, k + 1) \subseteq Beyond(dir, k) \ {name}
    BY DEF Beyond, Good, Numbered
  <1>5. /\ IsFiniteSet(Beyond(dir, k)) /\ Cardinality(Beyond(dir, k)) \in Nat
        /\ IsFiniteSet(Beyond(dir, k + 1)) /\ Cardinality(Beyond(dir, k + 1)) \in Nat
    BY GoodFinite
  <1>6. Cardinality(Beyond(after, k + 1)) = Cardinality(Beyond(dir, k + 1))
    BY <1>1
  <1>7. CASE name \in Good(dir)
    <2>1. new \subseteq old \cup {dir[name]}
      BY <1>1 DEF Missing
    <2>2. IsFiniteSet(old \cup {dir[name]}) /\ Cardinality(old \cup {dir[name]}) \in Nat
          /\ Cardinality(old \cup {dir[name]}) <= Cardinality(old) + 1
      <3> DEFINE lost == dir[name]
      <3> HIDE DEF old, lost
      <3>1. /\ IsFiniteSet(old \cup {lost})
            /\ Cardinality(old \cup {lost}) =
                 IF lost \in old THEN Cardinality(old) ELSE Cardinality(old) + 1
        BY <1>3, FS_AddElement
      <3> QED  BY <1>3, <3>1 DEF lost
    <2>3. Cardinality(new) \in Nat /\ Cardinality(new) <= Cardinality(old) + 1
      BY <1>3, <2>1, <2>2, FS_Subset, FS_CardinalityType
    <2>4. name \in Beyond(dir, k)
      BY <1>7 DEF Beyond
    <2>5. /\ IsFiniteSet(Beyond(dir, k) \ {name})
          /\ Cardinality(Beyond(dir, k) \ {name}) = Cardinality(Beyond(dir, k)) - 1
      BY <1>5, <2>4, FS_RemoveElement
    <2>6. Cardinality(Beyond(dir, k + 1)) <= Cardinality(Beyond(dir, k)) - 1
      BY <1>4, <2>5, FS_Subset
    <2> QED  BY <1>2, <1>3, <1>5, <1>6, <2>3, <2>6
  <1>8. CASE name \notin Good(dir)
    <2>1. new \subseteq old
      BY <1>1, <1>8 DEF Missing, Good
    <2>2. Cardinality(new) \in Nat /\ Cardinality(new) <= Cardinality(old)
      BY <1>3, <2>1, FS_Subset, FS_CardinalityType
    <2>3. Cardinality(Beyond(dir, k + 1)) <= Cardinality(Beyond(dir, k))
      BY <1>4, <1>5, FS_Subset
    <2> QED  BY <1>2, <1>3, <1>5, <1>6, <2>2, <2>3
  <1> QED  BY <1>2, <1>3, <1>7, <1>8

\* One more item is answered.
LEMMA OneMoreAnswered ==
    ASSUME NEW answered, IsFiniteSet(answered), NEW item, NEW dir
    PROVE  /\ Cardinality(Missing(answered, dir)) \in Nat
           /\ Cardinality(Missing(answered \cup {item}, dir)) \in Nat
           /\ Cardinality(Missing(answered \cup {item}, dir))
                <= Cardinality(Missing(answered, dir)) + 1
           /\ (\E f \in DOMAIN dir : dir[f] = item) =>
                Missing(answered \cup {item}, dir) = Missing(answered, dir)
  <1> DEFINE old == Missing(answered, dir)
             new == Missing(answered \cup {item}, dir)
  <1>1. IsFiniteSet(old) /\ Cardinality(old) \in Nat
    <2>1. old \subseteq answered
      BY DEF Missing
    <2> QED  BY <2>1, FS_Subset, FS_CardinalityType
  <1>2. new \subseteq old \cup {item}
    BY DEF Missing
  <1>5. (\E f \in DOMAIN dir : dir[f] = item) => new = old
    BY DEF Missing
  <1> HIDE DEF old, new
  <1>3. /\ IsFiniteSet(old \cup {item}) /\ Cardinality(old \cup {item}) \in Nat
        /\ Cardinality(old \cup {item}) <= Cardinality(old) + 1
    <2>1. /\ IsFiniteSet(old \cup {item})
          /\ Cardinality(old \cup {item}) =
               IF item \in old THEN Cardinality(old) ELSE Cardinality(old) + 1
      BY <1>1, FS_AddElement
    <2> QED  BY <1>1, <2>1
  <1>4. Cardinality(new) \in Nat /\ Cardinality(new) <= Cardinality(old) + 1
    <2>1. IsFiniteSet(new) /\ Cardinality(new) <= Cardinality(old \cup {item})
      BY <1>2, <1>3, FS_Subset
    <2>2. Cardinality(new) \in Nat
      BY <2>1, FS_CardinalityType
    <2> QED  BY <1>1, <1>3, <2>1, <2>2
  <1> QED  BY <1>1, <1>4, <1>5 DEF old, new

LEMMA BeyondNext ==
    ASSUME NEW dir, Numbered(dir), NEW k \in Nat
    PROVE  Cardinality(Beyond(dir, k + 1)) <= Cardinality(Beyond(dir, k))
  <1>1. Beyond(dir, k + 1) \subseteq Beyond(dir, k)
    BY DEF Beyond, Good, Numbered
  <1> QED  BY <1>1, GoodFinite, FS_Subset

LEMMA Budget ==
    ASSUME NEW f \in Nat, NEW r \in Nat
    PROVE  /\ f * (1 + r) \in Nat
           /\ (f + 1) * (1 + r) = f * (1 + r) + 1 + r
           /\ f * (1 + (r + 1)) \in Nat
           /\ \A u \in Nat : f * (1 + r) + f + u <= (f + u) * (1 + (r + 1))
  <1>1. ASSUME NEW u \in Nat
        PROVE  f * (1 + r) + f + u <= (f + u) * (1 + (r + 1))
    <2>1. (f + u) * (1 + (r + 1)) = f * (1 + r) + f + u + u * (1 + r)
      OBVIOUS
    <2>2. u * (1 + r) \in Nat /\ f * (1 + r) \in Nat
      OBVIOUS
    <2> QED  BY <2>1, <2>2
  <1> QED  BY <1>1

\* What a write at an index does to the count of the files below one: a torn one takes
\* at most one away, an item's none.
LEMMA CountsAfterTearing ==
    ASSUME NEW dir, Numbered(dir), NEW name, name[2] \in Nat,
           NEW after, after = dir \/ Overwritten(dir, name, Torn, after)
    PROVE  /\ Numbered(after)
           /\ Cardinality(Good(dir)) \in Nat /\ Cardinality(Good(after)) \in Nat
           /\ Cardinality(Good(after)) <= Cardinality(Good(dir))
           /\ \A k \in 0 .. name[2] : Below(after, k) = Below(dir, k)
           /\ \A k : /\ Cardinality(Below(dir, k)) \in Nat
                     /\ Cardinality(Below(after, k)) \in Nat
                     /\ Cardinality(Below(dir, k)) <= Cardinality(Below(after, k)) + 1
  <1>1. /\ Numbered(after)
        /\ Good(after) = Good(dir) \/ Good(after) = Good(dir) \ {name}
        /\ \A k \in 0 .. name[2] : Below(after, k) = Below(dir, k)
    BY WriteEffect
  <1>2. /\ Cardinality(Good(dir)) \in Nat /\ Cardinality(Good(after)) \in Nat
        /\ Cardinality(Good(after)) <= Cardinality(Good(dir))
    <2>1. Good(after) \subseteq Good(dir)
      BY <1>1
    <2> QED  BY <1>1, <2>1, GoodFinite, FS_Subset
  <1>3. ASSUME NEW k
        PROVE  /\ Cardinality(Below(dir, k)) \in Nat /\ Cardinality(Below(after, k)) \in Nat
               /\ Cardinality(Below(dir, k)) <= Cardinality(Below(after, k)) + 1
    <2>1. IsFiniteSet(Below(after, k)) /\ Cardinality(Below(after, k)) \in Nat
      BY <1>1, GoodFinite
    <2>2. Below(dir, k) \subseteq Below(after, k) \cup {name}
      BY <1>1 DEF Below
    <2>3. /\ IsFiniteSet(Below(after, k) \cup {name})
          /\ Cardinality(Below(after, k) \cup {name}) =
               IF name \in Below(after, k) THEN Cardinality(Below(after, k))
               ELSE Cardinality(Below(after, k)) + 1
      BY <2>1, FS_AddElement
    <2>4. /\ Cardinality(Below(dir, k)) \in Nat
          /\ Cardinality(Below(dir, k)) <= Cardinality(Below(after, k) \cup {name})
      BY <2>2, <2>3, GoodFinite, FS_Subset
    <2> QED  BY <2>1, <2>3, <2>4
  <1> QED  BY <1>1, <1>2, <1>3

LEMMA CountsAfterStoring ==
    ASSUME NEW dir, Numbered(dir), NEW name, name[2] \in Nat, NEW content, content # Torn,
           NEW after, Overwritten(dir, name, content, after)
    PROVE  /\ Numbered(after)
           /\ Cardinality(Good(dir)) \in Nat
           /\ Cardinality(Good(after)) = IF name \in Good(dir) THEN Cardinality(Good(dir))
                                         ELSE Cardinality(Good(dir)) + 1
           /\ \A k : /\ Cardinality(Below(dir, k)) \in Nat
                     /\ Cardinality(Below(after, k)) \in Nat
                     /\ Cardinality(Below(dir, k)) <= Cardinality(Below(after, k))
           /\ \A k \in Nat : name[2] <= k /\ name \notin Below(dir, k) =>
                Cardinality(Below(dir, k)) + 1 <= Cardinality(Below(after, k + 1))
  <1>1. Numbered(after) /\ Good(after) = Good(dir) \cup {name}
    BY WriteEffect
  <1>2. IsFiniteSet(Good(dir)) /\ Cardinality(Good(dir)) \in Nat
    BY GoodFinite
  <1>3. Cardinality(Good(after)) = IF name \in Good(dir) THEN Cardinality(Good(dir))
                                   ELSE Cardinality(Good(dir)) + 1
    BY <1>1, <1>2, FS_AddElement
  <1>4. ASSUME NEW k
        PROVE  /\ Cardinality(Below(dir, k)) \in Nat /\ Cardinality(Below(after, k)) \in Nat
               /\ Cardinality(Below(dir, k)) <= Cardinality(Below(after, k))
    <2>1. Below(dir, k) \subseteq Below(after, k)
      BY <1>1 DEF Below
    <2> QED  BY <1>1, <2>1, GoodFinite, FS_Subset
  <1>5. ASSUME NEW k \in Nat, name[2] <= k, name \notin Below(dir, k)
        PROVE  Cardinality(Below(dir, k)) + 1 <= Cardinality(Below(after, k + 1))
    <2>1. Below(dir, k) \cup {name} \subseteq Below(after, k + 1)
      BY <1>1, <1>5 DEF Below, Numbered, Good
    <2>2. IsFiniteSet(Below(dir, k)) /\ IsFiniteSet(Below(after, k + 1))
      BY <1>1, GoodFinite
    <2>3. Cardinality(Below(dir, k) \cup {name}) = Cardinality(Below(dir, k)) + 1
      BY <1>5, <2>2, FS_AddElement
    <2>4. Cardinality(Below(dir, k) \cup {name}) <= Cardinality(Below(after, k + 1))
      BY <2>1, <2>2, FS_Subset
    <2> QED  BY <2>3, <2>4
  <1> QED  BY <1>1, <1>2, <1>3, <1>4, <1>5

LEMMA FewerMissing ==
    ASSUME NEW answered, IsFiniteSet(answered), NEW fewer, fewer \subseteq answered, NEW dir
    PROVE  /\ IsFiniteSet(fewer) /\ Cardinality(Missing(fewer, dir)) \in Nat
           /\ Cardinality(Missing(answered, dir)) \in Nat
           /\ Cardinality(Missing(fewer, dir)) <= Cardinality(Missing(answered, dir))
  <1>1. IsFiniteSet(Missing(answered, dir))
    <2>1. Missing(answered, dir) \subseteq answered
      BY DEF Missing
    <2> QED  BY <2>1, FS_Subset
  <1>2. Missing(fewer, dir) \subseteq Missing(answered, dir)
    BY DEF Missing
  <1> QED  BY <1>1, <1>2, FS_Subset, FS_CardinalityType

----------------------------------------------------------------------------
(* The bound on what is lost, and what keeps it.                           *)

\* The indices that a memory of length n has reached, or would have if it had read
\* every file that parses.
Reached(n, dir) == {k \in Nat : k <= n \/ k <= Cardinality(Good(dir))}

\* A memory that does not count all the files has a trouble to spare: the torn file
\* of a death may be one of those.
Spare(n, dir) == IF Cardinality(Good(dir)) > n THEN 1 ELSE 0

\* Of the indices below any that the memory has reached, no more are empty than there
\* were troubles, writes that failed and files that a start could not read; and what
\* is lost and what an index that is still to come may write over stay within the
\* bound.
Bound(n, dir, answered, troubles, started) ==
    /\ \A k \in Reached(n, dir) :
         k + Spare(n, dir) <= Cardinality(Below(dir, k)) + troubles
    /\ Cardinality(Missing(answered, dir)) + Cardinality(Beyond(dir, n))
         <= troubles * (1 + started)

\* The item at the end of the memory is written.
LEMMA StoredKeepsBound ==
    ASSUME NEW n \in Nat, NEW dir, Numbered(dir), NEW answered, IsFiniteSet(answered),
           Torn \notin answered, NEW troubles \in Nat, NEW started \in Nat,
           Bound(n, dir, answered, troubles, started),
           NEW name, name[2] = n, NEW item, item # Torn,
           NEW after, Overwritten(dir, name, item, after),
           NEW more, more \subseteq answered \cup {item}
    PROVE  Numbered(after) /\ Bound(n + 1, after, more, troubles, started)
  <1> DEFINE lost == Cardinality(Missing(answered, dir))
             ahead == Cardinality(Beyond(dir, n))
             g == Cardinality(Good(dir))
             h == Cardinality(Good(after))
  <1>1. /\ \A k \in Reached(n, dir) :
             k + Spare(n, dir) <= Cardinality(Below(dir, k)) + troubles
        /\ lost + ahead <= troubles * (1 + started)
    BY DEF Bound
  <1>2. lost \in Nat /\ ahead \in Nat /\ troubles * (1 + started) \in Nat
    BY OneMoreAnswered, GoodFinite, Budget
  <1>3. /\ Numbered(after) /\ g \in Nat
        /\ h = IF name \in Good(dir) THEN g ELSE g + 1
        /\ \A k : /\ Cardinality(Below(dir, k)) \in Nat
                  /\ Cardinality(Below(after, k)) \in Nat
                  /\ Cardinality(Below(dir, k)) <= Cardinality(Below(after, k))
        /\ \A k \in Nat : name[2] <= k /\ name \notin Below(dir, k) =>
             Cardinality(Below(dir, k)) + 1 <= Cardinality(Below(after, k + 1))
    BY CountsAfterStoring
  <1>4. Cardinality(Missing(answered, after)) + Cardinality(Beyond(after, n + 1))
          <= lost + ahead
    BY WriteLoses
  <1>5. /\ Cardinality(Missing(answered, after)) \in Nat
        /\ Cardinality(Missing(more, after)) \in Nat
        /\ Cardinality(Missing(more, after)) <= Cardinality(Missing(answered, after))
    <2>1. \E f \in DOMAIN after : after[f] = item
      BY DEF Overwritten
    <2>2. Missing(answered \cup {item}, after) = Missing(answered, after)
      BY <2>1, OneMoreAnswered
    <2>3. IsFiniteSet(answered \cup {item})
      BY FS_AddElement
    <2> QED  BY <2>2, <2>3, FewerMissing
  <1>6. Cardinality(Beyond(after, n + 1)) \in Nat
    BY <1>3, GoodFinite
  <1>7. /\ Spare(n, dir) \in {0, 1} /\ Spare(n + 1, after) \in {0, 1}
        /\ Spare(n + 1, after) <= Spare(n, dir)
    BY <1>3 DEF Spare
  <1>8. ASSUME NEW k \in Reached(n + 1, after)
        PROVE  k + Spare(n + 1, after) <= Cardinality(Below(after, k)) + troubles
    <2>1. k \in Nat /\ (k <= n + 1 \/ k <= h)
      BY DEF Reached
    <2>2. CASE k \in Reached(n, dir)
      <3>1. k + Spare(n, dir) <= Cardinality(Below(dir, k)) + troubles
        BY <1>1, <2>2
      <3>2. /\ Cardinality(Below(dir, k)) \in Nat /\ Cardinality(Below(after, k)) \in Nat
            /\ Cardinality(Below(dir, k)) <= Cardinality(Below(after, k))
        BY <1>3
      <3> QED  BY <1>7, <2>1, <3>1, <3>2
    <2>3. CASE k \notin Reached(n, dir)
      <3> DEFINE j == k - 1
      <3>1. /\ ~(k <= n) /\ ~(k <= g)
            /\ k = n + 1 \/ (k = g + 1 /\ name \notin Good(dir))
        <4>1. ~(k <= n) /\ ~(k <= g)
          BY <2>1, <2>3 DEF Reached
        <4>2. g \in Nat /\ (name \in Good(dir) => h = g) /\ (name \notin Good(dir) => h = g + 1)
          BY <1>3
        <4> HIDE DEF g, h
        <4>3. CASE k = n + 1
          BY <4>1, <4>3
        <4>4. CASE k # n + 1
          <5>1. k <= h
            BY <2>1, <4>1, <4>4
          <5>2. name \notin Good(dir)
            BY <4>1, <4>2, <5>1
          <5>3. k = g + 1
            BY <2>1, <4>1, <4>2, <5>1, <5>2
          <5> QED  BY <4>1, <5>2, <5>3
        <4> QED  BY <4>3, <4>4
      <3>2. j \in Nat /\ k = j + 1 /\ n <= j /\ (j <= n \/ j <= g)
        <4> HIDE DEF g, h
        <4> QED  BY <1>3, <2>1, <3>1
      <3>3. j \in Reached(n, dir)
        BY <3>2 DEF Reached
      <3> HIDE DEF j
      <3>4. name \notin Below(dir, j)
        BY <2>1, <3>1, <3>2 DEF Below
      <3>5. Cardinality(Below(dir, j)) + 1 <= Cardinality(Below(after, k))
        BY <1>3, <3>2, <3>4
      <3>6. j + Spare(n, dir) <= Cardinality(Below(dir, j)) + troubles
        BY <1>1, <3>3
      <3>7. Cardinality(Below(dir, j)) \in Nat /\ Cardinality(Below(after, k)) \in Nat
        BY <1>3
      <3> QED  BY <1>7, <3>2, <3>5, <3>6, <3>7
    <2> QED  BY <2>2, <2>3
  <1> HIDE DEF lost, ahead, g, h
  <1>9. Cardinality(Missing(more, after)) + Cardinality(Beyond(after, n + 1))
          <= troubles * (1 + started)
    BY <1>1, <1>2, <1>4, <1>5, <1>6
  <1> QED  BY <1>3, <1>8, <1>9 DEF Bound

\* It is not written, or torn.
LEMMA FailureKeepsBound ==
    ASSUME NEW n \in Nat, NEW dir, Numbered(dir), NEW answered, IsFiniteSet(answered),
           Torn \notin answered, NEW troubles \in Nat, NEW started \in Nat,
           Bound(n, dir, answered, troubles, started),
           NEW name, name[2] = n, NEW item,
           NEW after, after = dir \/ Overwritten(dir, name, Torn, after),
           NEW more, more \subseteq answered \cup {item}
    PROVE  Numbered(after) /\ Bound(n + 1, after, more, troubles + 1, started)
  <1> DEFINE lost == Cardinality(Missing(answered, dir))
             ahead == Cardinality(Beyond(dir, n))
  <1>1. /\ \A k \in Reached(n, dir) :
             k + Spare(n, dir) <= Cardinality(Below(dir, k)) + troubles
        /\ lost + ahead <= troubles * (1 + started)
    BY DEF Bound
  <1>2. lost \in Nat /\ ahead \in Nat /\ troubles * (1 + started) \in Nat
    BY OneMoreAnswered, GoodFinite, Budget
  <1>3. /\ Numbered(after)
        /\ Cardinality(Good(dir)) \in Nat /\ Cardinality(Good(after)) \in Nat
        /\ Cardinality(Good(after)) <= Cardinality(Good(dir))
        /\ \A k \in 0 .. n : Below(after, k) = Below(dir, k)
        /\ \A k : /\ Cardinality(Below(dir, k)) \in Nat
                  /\ Cardinality(Below(after, k)) \in Nat
                  /\ Cardinality(Below(dir, k)) <= Cardinality(Below(after, k)) + 1
    BY CountsAfterTearing
  <1>4. Cardinality(Missing(answered, after)) + Cardinality(Beyond(after, n + 1))
          <= lost + ahead
    <2>1. CASE after = dir
      <3>1. /\ Cardinality(Beyond(dir, n + 1)) \in Nat
            /\ Cardinality(Beyond(dir, n + 1)) <= ahead
        BY BeyondNext, GoodFinite
      <3> QED  BY <1>2, <2>1, <3>1
    <2>2. CASE Overwritten(dir, name, Torn, after)
      BY <2>2, WriteLoses
    <2> QED  BY <2>1, <2>2
  <1>5. /\ Cardinality(Missing(answered, after)) \in Nat
        /\ Cardinality(Missing(more, after)) \in Nat
        /\ Cardinality(Missing(more, after)) <= Cardinality(Missing(answered, after)) + 1
    <2>1. /\ Cardinality(Missing(answered, after)) \in Nat
          /\ Cardinality(Missing(answered \cup {item}, after)) \in Nat
          /\ Cardinality(Missing(answered \cup {item}, after))
               <= Cardinality(Missing(answered, after)) + 1
      BY OneMoreAnswered
    <2>2. IsFiniteSet(answered \cup {item})
      BY FS_AddElement
    <2>3. /\ Cardinality(Missing(more, after)) \in Nat
          /\ Cardinality(Missing(more, after)) <= Cardinality(Missing(answered \cup {item}, after))
      BY <2>2, FewerMissing
    <2> QED  BY <2>1, <2>3
  <1>6. Cardinality(Beyond(after, n + 1)) \in Nat
    BY <1>3, GoodFinite
  <1>7. /\ Spare(n, dir) \in {0, 1} /\ Spare(n + 1, after) \in {0, 1}
        /\ Spare(n + 1, after) <= Spare(n, dir)
    BY <1>3 DEF Spare
  <1> HIDE DEF lost, ahead
  <1>8. ASSUME NEW k \in Reached(n + 1, after)
        PROVE  k + Spare(n + 1, after) <= Cardinality(Below(after, k)) + (troubles + 1)
    <2>1. k \in Nat /\ (k <= n + 1 \/ k <= Cardinality(Good(after)))
      BY DEF Reached
    <2>2. CASE k \in Reached(n, dir)
      <3>1. k + Spare(n, dir) <= Cardinality(Below(dir, k)) + troubles
        BY <1>1, <2>2
      <3>2. /\ Cardinality(Below(dir, k)) \in Nat /\ Cardinality(Below(after, k)) \in Nat
            /\ Cardinality(Below(dir, k)) <= Cardinality(Below(after, k)) + 1
        BY <1>3
      <3> QED  BY <1>7, <2>1, <3>1, <3>2
    <2>3. CASE k \notin Reached(n, dir)
      <3>1. k = n + 1
        BY <1>3, <2>1, <2>3 DEF Reached
      <3>2. n + Spare(n, dir) <= Cardinality(Below(after, n)) + troubles
        <4>1. n \in Reached(n, dir) /\ n \in 0 .. n
          BY DEF Reached
        <4> QED  BY <1>1, <1>3, <4>1
      <3>3. Below(after, n) \subseteq Below(after, n + 1)
        BY <1>3 DEF Below, Good, Numbered
      <3>4. /\ Cardinality(Below(after, n)) \in Nat /\ Cardinality(Below(after, n + 1)) \in Nat
            /\ Cardinality(Below(after, n)) <= Cardinality(Below(after, n + 1))
        BY <1>3, <3>3, GoodFinite, FS_Subset
      <3> QED  BY <1>7, <3>1, <3>2, <3>4
    <2> QED  BY <2>2, <2>3
  <1>9. Cardinality(Missing(more, after)) + Cardinality(Beyond(after, n + 1))
          <= (troubles + 1) * (1 + started)
    <2>1. (troubles + 1) * (1 + started) = troubles * (1 + started) + 1 + started
      BY Budget
    <2> QED  BY <1>1, <1>2, <1>4, <1>5, <1>6, <2>1
  <1> QED  BY <1>3, <1>8, <1>9 DEF Bound

\* The server starts again, over the files it finds; it may have died over one, and
\* there are files, `skipped` of them, that it cannot read.
LEMMA StartKeepsBound ==
    ASSUME NEW n \in Nat, NEW dir, Numbered(dir), NEW answered, IsFiniteSet(answered),
           Torn \notin answered, NEW troubles \in Nat, NEW started \in Nat,
           Bound(n, dir, answered, troubles, started),
           NEW name, name[2] = n,
           NEW after, after = dir \/ Overwritten(dir, name, Torn, after),
           NEW fewer, fewer \subseteq answered,
           NEW skipped \in Nat, skipped <= Cardinality(Good(after))
    PROVE  /\ Numbered(after) /\ Cardinality(Good(after)) - skipped \in Nat
           /\ Bound(Cardinality(Good(after)) - skipped, after, fewer,
                    troubles + skipped, started + 1)
  <1> DEFINE g == Cardinality(Good(after))
             m == g - skipped
             lost == Cardinality(Missing(answered, dir))
             ahead == Cardinality(Beyond(dir, n))
  <1>1. /\ \A k \in Reached(n, dir) :
             k + Spare(n, dir) <= Cardinality(Below(dir, k)) + troubles
        /\ lost + ahead <= troubles * (1 + started)
    BY DEF Bound
  <1>2. lost \in Nat /\ ahead \in Nat /\ troubles * (1 + started) \in Nat
    BY OneMoreAnswered, GoodFinite, Budget
  <1>3. /\ Numbered(after) /\ Cardinality(Good(dir)) \in Nat
        /\ g \in Nat /\ g <= Cardinality(Good(dir))
        /\ \A k \in 0 .. n : Below(after, k) = Below(dir, k)
        /\ \A k : /\ Cardinality(Below(dir, k)) \in Nat
                  /\ Cardinality(Below(after, k)) \in Nat
                  /\ Cardinality(Below(dir, k)) <= Cardinality(Below(after, k)) + 1
    BY CountsAfterTearing
  <1>4. m \in Nat /\ m + skipped = g
    BY <1>3
  <1>5. Cardinality(Missing(answered, after)) <= troubles * (1 + started)
    <2>1. CASE after = dir
      BY <1>1, <1>2, <2>1
    <2>2. CASE Overwritten(dir, name, Torn, after)
      <3>1. Cardinality(Missing(answered, after)) + Cardinality(Beyond(after, n + 1))
              <= lost + ahead
        BY <2>2, WriteLoses
      <3>2. Cardinality(Missing(answered, after)) \in Nat
            /\ Cardinality(Beyond(after, n + 1)) \in Nat
        BY <1>3, OneMoreAnswered, GoodFinite
      <3> QED  BY <1>1, <1>2, <3>1, <3>2
    <2> QED  BY <2>1, <2>2
  <1>6. /\ Cardinality(Missing(fewer, after)) \in Nat
        /\ Cardinality(Missing(answered, after)) \in Nat
        /\ Cardinality(Missing(fewer, after)) <= Cardinality(Missing(answered, after))
    BY FewerMissing
  <1>7. ASSUME NEW k \in 0 .. g PROVE k <= Cardinality(Below(after, k)) + troubles
    <2>1. k \in Reached(n, dir) /\ k \in Nat /\ k <= Cardinality(Good(dir))
      <3> HIDE DEF g
      <3>1. k \in Nat /\ k <= Cardinality(Good(dir))
        BY <1>3
      <3> QED  BY <3>1 DEF Reached
    <2>2. k + Spare(n, dir) <= Cardinality(Below(dir, k)) + troubles
      BY <1>1, <2>1
    <2>3. CASE k <= n
      <3>1. Spare(n, dir) \in {0, 1} /\ Below(after, k) = Below(dir, k)
        BY <1>3, <2>1, <2>3 DEF Spare
      <3>2. Cardinality(Below(after, k)) \in Nat
        BY <1>3
      <3> QED  BY <2>1, <2>2, <3>1, <3>2
    <2>4. CASE ~(k <= n)
      <3>1. Spare(n, dir) = 1
        BY <1>3, <2>1, <2>4 DEF Spare
      <3>2. /\ Cardinality(Below(dir, k)) \in Nat /\ Cardinality(Below(after, k)) \in Nat
            /\ Cardinality(Below(dir, k)) <= Cardinality(Below(after, k)) + 1
        BY <1>3
      <3> QED  BY <2>1, <2>2, <3>1, <3>2
    <2> QED  BY <2>3, <2>4
  <1>8. ASSUME NEW k \in Reached(m, after)
        PROVE  k + Spare(m, after) <= Cardinality(Below(after, k)) + (troubles + skipped)
    <2>1. Spare(m, after) \in Nat /\ Spare(m, after) <= skipped
      BY <1>3, <1>4 DEF Spare
    <2>2. k \in Nat /\ k \in 0 .. g
      BY <1>3, <1>4 DEF Reached
    <2>3. k <= Cardinality(Below(after, k)) + troubles /\ Cardinality(Below(after, k)) \in Nat
      BY <1>3, <1>7, <2>2
    <2> HIDE DEF m, g
    <2> QED  BY <2>1, <2>2, <2>3
  <1>9. Cardinality(Beyond(after, m)) \in Nat /\ Cardinality(Beyond(after, m)) <= troubles + skipped
    <2>1. m <= Cardinality(Below(after, m)) + troubles
      BY <1>3, <1>4, <1>7
    <2>2. g = Cardinality(Below(after, m)) + Cardinality(Beyond(after, m))
      BY <1>3, <1>4, BelowAndBeyond
    <2>3. Cardinality(Below(after, m)) \in Nat /\ Cardinality(Beyond(after, m)) \in Nat
      BY <1>3, GoodFinite
    <2> HIDE DEF m, g
    <2> QED  BY <1>4, <2>1, <2>2, <2>3
  <1>10. troubles * (1 + started) + troubles + skipped
           <= (troubles + skipped) * (1 + (started + 1))
    BY Budget
  <1> HIDE DEF g, m, lost, ahead
  <1>11. Cardinality(Missing(fewer, after)) + Cardinality(Beyond(after, m))
           <= (troubles + skipped) * (1 + (started + 1))
    <2>1. (troubles + skipped) * (1 + (started + 1)) \in Nat
      BY Budget
    <2> QED  BY <1>2, <1>5, <1>6, <1>9, <1>10, <2>1
  <1>12. Bound(m, after, fewer, troubles + skipped, started + 1)
    BY <1>8, <1>11 DEF Bound
  <1> QED  BY <1>3, <1>4, <1>12 DEF m, g

LEMMA EmptyKeepsBound ==
    ASSUME NEW dir, DOMAIN dir = {}
    PROVE  Numbered(dir) /\ Bound(0, dir, {}, 0, 0)
  <1>1. IsFiniteSet({}) /\ Cardinality({}) = 0
    BY FS_EmptySet
  <1>2. Good(dir) = {} /\ Beyond(dir, 0) = {} /\ Below(dir, 0) = {} /\ Missing({}, dir) = {}
    BY DEF Good, Beyond, Below, Missing
  <1>3. /\ Cardinality(Good(dir)) = 0 /\ Cardinality(Beyond(dir, 0)) = 0
        /\ Cardinality(Below(dir, 0)) = 0 /\ Cardinality(Missing({}, dir)) = 0
    BY <1>1, <1>2
  <1>4. \A k \in Reached(0, dir) : k + Spare(0, dir) <= Cardinality(Below(dir, k)) + 0
    <2>1. Spare(0, dir) = 0 /\ \A k \in Reached(0, dir) : k = 0
      BY <1>3 DEF Reached, Spare
    <2> QED  BY <1>3, <2>1
  <1>5. Numbered(dir)
    BY <1>1 DEF Numbered
  <1> QED  BY <1>3, <1>4, <1>5 DEF Bound

LEMMA LostWithinBound ==
    ASSUME NEW n \in Nat, NEW dir, Numbered(dir), NEW answered, IsFiniteSet(answered),
           NEW troubles \in Nat, NEW started \in Nat,
           Bound(n, dir, answered, troubles, started)
    PROVE  Cardinality(Missing(answered, dir)) <= troubles * (1 + started)
  <1>1. Cardinality(Missing(answered, dir)) \in Nat /\ Cardinality(Beyond(dir, n)) \in Nat
    BY OneMoreAnswered, GoodFinite
  <1>2. troubles * (1 + started) \in Nat
    BY Budget
  <1> QED  BY <1>1, <1>2 DEF Bound

----------------------------------------------------------------------------
(* The relay.                                                              *)

Types ==
    /\ snapshots \in Seq(Audited) /\ Numbered(disk)
    /\ \A f \in DOMAIN disk : disk[f] \in Audited \cup {Torn}
    /\ \A f \in DOMAIN pulled : pulled[f] \in Audited \cup {Torn}
    /\ pushes \in 0 .. MaxPushes /\ unread \in 0 .. MaxUnread
    /\ acked \subseteq Audited /\ IsFiniteSet(acked)
    /\ failures \in 0 .. MaxFailures /\ restarts \in 0 .. MaxRestarts
    /\ pulls \in 0 .. MaxPulls

LossInv == Bound(Len(snapshots), disk, acked, failures + unread, restarts)

Inv == Types /\ LossInv

LEMMA Sizes ==
    ASSUME Inv
    PROVE  /\ Len(snapshots) \in Nat /\ failures \in Nat /\ restarts \in Nat
           /\ unread \in Nat /\ failures + unread \in Nat /\ Torn \notin acked
  BY RelayAssumption DEF Inv, Types

\* What is left of the files that parse when some of them cannot be read.
LEMMA WhatIsRead ==
    ASSUME NEW dir, Numbered(dir), NEW hidden \in SUBSET Good(dir)
    PROVE  /\ Cardinality(hidden) \in Nat /\ Cardinality(hidden) <= Cardinality(Good(dir))
           /\ Cardinality(Good(dir) \ hidden) = Cardinality(Good(dir)) - Cardinality(hidden)
           /\ Cardinality(Good(dir) \ hidden) \in Nat
  <1>1. IsFiniteSet(Good(dir)) /\ Cardinality(Good(dir)) \in Nat
    BY GoodFinite
  <1>2. IsFiniteSet(hidden) /\ Cardinality(hidden) <= Cardinality(Good(dir))
    BY <1>1, FS_Subset
  <1>3. Good(dir) \cap hidden = hidden
    OBVIOUS
  <1>4. /\ IsFiniteSet(Good(dir) \ hidden)
        /\ Cardinality(Good(dir) \ hidden) =
             Cardinality(Good(dir)) - Cardinality(Good(dir) \cap hidden)
    BY <1>1, FS_Difference
  <1>5. Cardinality(hidden) \in Nat /\ Cardinality(Good(dir) \ hidden) \in Nat
    BY <1>2, <1>4, FS_CardinalityType
  <1> QED  BY <1>2, <1>3, <1>4, <1>5

\* What is read back has as many entries as files parse and are read, and all of them
\* snapshots.
LEMMA ReadBack ==
    ASSUME NEW dir, Numbered(dir), \A f \in DOMAIN dir : dir[f] \in Audited \cup {Torn},
           NEW hidden \in SUBSET Good(dir), NEW memory \in Loaded(dir, hidden)
    PROVE  /\ memory \in Seq(Audited)
           /\ Len(memory) = Cardinality(Good(dir)) - Cardinality(hidden)
  <1> DEFINE names == Good(dir) \ hidden
  <1>1. PICK order \in [1 .. Cardinality(names) -> names] :
          memory = [i \in DOMAIN order |-> dir[order[i]]]
    BY DEF Loaded, Listings, Good
  <1>2. /\ Cardinality(names) \in Nat
        /\ Cardinality(names) = Cardinality(Good(dir)) - Cardinality(hidden)
    BY WhatIsRead
  <1>3. \A f \in names : dir[f] \in Audited
    BY DEF Good
  <1> HIDE DEF names
  <1>4. /\ DOMAIN memory = 1 .. Cardinality(names)
        /\ memory = [i \in 1 .. Cardinality(names) |-> dir[order[i]]]
    BY <1>1
  <1>5. \A i \in 1 .. Cardinality(names) : dir[order[i]] \in Audited
    BY <1>1, <1>3
  <1>6. memory \in Seq(Audited) /\ Len(memory) = Cardinality(names)
    BY <1>2, <1>4, <1>5
  <1> QED  BY <1>2, <1>6

LEMMA WriteOverwrites ==
    ASSUME NEW name, NEW content
    PROVE  Overwritten(disk, name, content, Write(name, content))
  BY DEF Overwritten, Write, Overwrite

LEMMA WriteTyped ==
    ASSUME Types, NEW name, NEW content \in Audited \cup {Torn}, NEW after,
           Overwritten(disk, name, content, after)
    PROVE  \A f \in DOMAIN after : after[f] \in Audited \cup {Torn}
  BY DEF Overwritten, Types

LEMMA Initially == Init => Inv
  <1> SUFFICES ASSUME Init PROVE Inv
    OBVIOUS
  <1>1. /\ DOMAIN disk = {} /\ DOMAIN pulled = {} /\ snapshots = <<>> /\ acked = {}
        /\ pushes = 0 /\ unread = 0 /\ failures = 0 /\ restarts = 0 /\ pulls = 0
    BY DEF Init
  <1>2. IsFiniteSet({}) /\ Len(snapshots) = 0 /\ failures + unread = 0
    BY <1>1, FS_EmptySet
  <1>3. Numbered(disk) /\ Bound(0, disk, {}, 0, 0)
    BY <1>1, EmptyKeepsBound
  <1> QED  BY <1>1, <1>2, <1>3, RelayAssumption DEF Inv, Types, LossInv

\* What a start does, over the files of before or a torn one.
LEMMA StartKeepsLoss ==
    ASSUME Inv, NEW name, name[2] = Len(snapshots),
           disk' = disk \/ Overwritten(disk, name, Torn, disk'),
           Start(disk'), UNCHANGED <<acked, failures>>
    PROVE  /\ snapshots' \in Seq(Audited) /\ Numbered(disk')
           /\ \A f \in DOMAIN disk' : disk'[f] \in Audited \cup {Torn}
           /\ unread' \in 0 .. MaxUnread /\ restarts' \in 0 .. MaxRestarts
           /\ LossInv'
  <1>1. /\ Types /\ LossInv /\ Len(snapshots) \in Nat /\ failures + unread \in Nat
        /\ failures \in Nat /\ unread \in Nat /\ restarts \in Nat /\ Torn \notin acked
        /\ Numbered(disk) /\ IsFiniteSet(acked)
        /\ Bound(Len(snapshots), disk, acked, failures + unread, restarts)
    BY Sizes DEF Inv, Types, LossInv
  <1>2. \A f \in DOMAIN disk' : disk'[f] \in Audited \cup {Torn}
    BY <1>1, WriteTyped DEF Types
  <1>3. Numbered(disk')
    BY <1>1, WriteEffect
  <1>4. PICK hidden \in SUBSET Good(disk') :
          /\ unread + Cardinality(hidden) <= MaxUnread
          /\ unread' = unread + Cardinality(hidden)
          /\ snapshots' \in Loaded(disk', hidden)
    BY DEF Start, Good
  <1>5. restarts < MaxRestarts /\ restarts' = restarts + 1
    BY DEF Start
  <1>6. /\ snapshots' \in Seq(Audited)
        /\ Len(snapshots') = Cardinality(Good(disk')) - Cardinality(hidden)
    BY <1>2, <1>3, <1>4, ReadBack
  <1>7. /\ Cardinality(hidden) \in Nat
        /\ Cardinality(hidden) <= Cardinality(Good(disk'))
    BY <1>3, WhatIsRead
  <1>8. Bound(Cardinality(Good(disk')) - Cardinality(hidden), disk', acked,
              failures + unread + Cardinality(hidden), restarts + 1)
    BY <1>1, <1>7, StartKeepsBound
  <1>9. failures' + unread' = failures + unread + Cardinality(hidden)
    BY <1>1, <1>4, <1>7
  <1>10. LossInv'
    BY <1>5, <1>6, <1>8, <1>9 DEF LossInv
  <1>11. unread' \in 0 .. MaxUnread /\ restarts' \in 0 .. MaxRestarts
    BY <1>1, <1>4, <1>5, <1>7, RelayAssumption
  <1> QED  BY <1>2, <1>3, <1>6, <1>10, <1>11

LEMMA PushStep == ASSUME Inv, NEW v \in Vantages, Push(v) PROVE Inv'
  <1>1. PICK served \in Views[v] : \E snap, name :
          /\ snap = [n |-> pushes + 1, label |-> v, served |-> served]
          /\ name = FileName(v, Len(snapshots))
          /\ \/ /\ snapshots' = Append(snapshots, snap)
                /\ acked' = acked \cup {snap}
                /\ \/ disk' = Write(name, snap) /\ UNCHANGED failures
                   \/ /\ failures < MaxFailures /\ failures' = failures + 1
                      /\ disk' \in {disk, Write(name, Torn)}
                /\ UNCHANGED <<unread, restarts>>
             \/ /\ disk' = Write(name, Torn) /\ Start(disk')
                /\ UNCHANGED <<acked, failures>>
    BY DEF Push
  <1>2. PICK snap, name :
          /\ snap = [n |-> pushes + 1, label |-> v, served |-> served]
          /\ name = FileName(v, Len(snapshots))
          /\ \/ /\ snapshots' = Append(snapshots, snap)
                /\ acked' = acked \cup {snap}
                /\ \/ disk' = Write(name, snap) /\ UNCHANGED failures
                   \/ /\ failures < MaxFailures /\ failures' = failures + 1
                      /\ disk' \in {disk, Write(name, Torn)}
                /\ UNCHANGED <<unread, restarts>>
             \/ /\ disk' = Write(name, Torn) /\ Start(disk')
                /\ UNCHANGED <<acked, failures>>
    BY <1>1
  <1>3. pushes < MaxPushes /\ pushes' = pushes + 1 /\ UNCHANGED <<pulled, pulls>>
    BY DEF Push
  <1>4. snap \in Audited /\ snap # Torn
    <2>1. pushes + 1 \in 1 .. MaxPushes
      BY <1>3, RelayAssumption DEF Inv, Types
    <2>2. served \in UNION Range(Views)
      BY RelayAssumption DEF Range
    <2>3. snap \in Audited
      BY <1>2, <2>1, <2>2 DEF Audited
    <2> QED  BY <2>3, RelayAssumption
  <1>5. name[2] = Len(snapshots)
    BY <1>2 DEF FileName
  <1>6. /\ Types /\ LossInv /\ Len(snapshots) \in Nat /\ failures \in Nat
        /\ unread \in Nat /\ failures + unread \in Nat
        /\ restarts \in Nat /\ Torn \notin acked
        /\ Numbered(disk) /\ IsFiniteSet(acked)
        /\ Bound(Len(snapshots), disk, acked, failures + unread, restarts)
    BY Sizes DEF Inv, Types, LossInv
  <1>7. /\ snapshots' \in Seq(Audited) /\ Numbered(disk')
        /\ \A f \in DOMAIN disk' : disk'[f] \in Audited \cup {Torn}
        /\ acked' \subseteq Audited /\ IsFiniteSet(acked')
        /\ failures' \in 0 .. MaxFailures /\ restarts' \in 0 .. MaxRestarts
        /\ unread' \in 0 .. MaxUnread /\ LossInv'
    <2>1. CASE /\ snapshots' = Append(snapshots, snap)
               /\ acked' = acked \cup {snap}
               /\ disk' = Write(name, snap) /\ UNCHANGED <<failures, unread, restarts>>
      <3>1. Overwritten(disk, name, snap, disk')
        BY <2>1, WriteOverwrites
      <3>2. Numbered(disk') /\ Bound(Len(snapshots) + 1, disk', acked', failures + unread, restarts)
        BY <1>4, <1>5, <1>6, <2>1, <3>1, StoredKeepsBound
      <3>3. /\ snapshots' \in Seq(Audited) /\ Len(snapshots') = Len(snapshots) + 1
            /\ acked' \subseteq Audited
        BY <1>4, <1>6, <2>1 DEF Types
      <3>4. IsFiniteSet(acked')
        BY <1>6, <2>1, FS_AddElement
      <3>5. \A f \in DOMAIN disk' : disk'[f] \in Audited \cup {Torn}
        BY <1>4, <1>6, <3>1, WriteTyped
      <3>6. /\ failures' \in 0 .. MaxFailures /\ restarts' \in 0 .. MaxRestarts
            /\ unread' \in 0 .. MaxUnread
        BY <1>6, <2>1 DEF Types
      <3>7. LossInv'
        BY <2>1, <3>2, <3>3 DEF LossInv
      <3> QED  BY <3>2, <3>3, <3>4, <3>5, <3>6, <3>7
    <2>2. CASE /\ snapshots' = Append(snapshots, snap)
               /\ acked' = acked \cup {snap}
               /\ failures < MaxFailures /\ failures' = failures + 1
               /\ disk' \in {disk, Write(name, Torn)}
               /\ UNCHANGED <<unread, restarts>>
      <3>1. disk' = disk \/ Overwritten(disk, name, Torn, disk')
        BY <2>2, WriteOverwrites
      <3>2. /\ Numbered(disk')
            /\ Bound(Len(snapshots) + 1, disk', acked', (failures + unread) + 1, restarts)
        BY <1>5, <1>6, <2>2, <3>1, FailureKeepsBound
      <3>3. /\ snapshots' \in Seq(Audited) /\ Len(snapshots') = Len(snapshots) + 1
            /\ acked' \subseteq Audited
        BY <1>4, <1>6, <2>2 DEF Types
      <3>4. IsFiniteSet(acked')
        BY <1>6, <2>2, FS_AddElement
      <3>5. \A f \in DOMAIN disk' : disk'[f] \in Audited \cup {Torn}
        BY <1>6, <3>1, WriteTyped DEF Types
      <3>6. /\ failures' \in 0 .. MaxFailures /\ restarts' \in 0 .. MaxRestarts
            /\ unread' \in 0 .. MaxUnread
        BY <1>6, <2>2, RelayAssumption DEF Types
      <3>7. LossInv'
        <4>1. failures' + unread' = (failures + unread) + 1
          BY <1>6, <2>2
        <4> QED  BY <2>2, <3>2, <3>3, <4>1 DEF LossInv
      <3> QED  BY <3>2, <3>3, <3>4, <3>5, <3>6, <3>7
    <2>3. CASE /\ disk' = Write(name, Torn) /\ Start(disk')
               /\ UNCHANGED <<acked, failures>>
      <3>1. Overwritten(disk, name, Torn, disk')
        BY <2>3, WriteOverwrites
      <3>2. /\ snapshots' \in Seq(Audited) /\ Numbered(disk')
            /\ \A f \in DOMAIN disk' : disk'[f] \in Audited \cup {Torn}
            /\ unread' \in 0 .. MaxUnread /\ restarts' \in 0 .. MaxRestarts
            /\ LossInv'
        BY <1>5, <2>3, <3>1, StartKeepsLoss
      <3> QED  BY <1>6, <2>3, <3>2 DEF Types
    <2> QED  BY <1>2, <2>1, <2>2, <2>3
  <1>8. pushes' \in 0 .. MaxPushes
    BY <1>3, RelayAssumption DEF Inv, Types
  <1> QED  BY <1>3, <1>6, <1>7, <1>8 DEF Inv, Types

LEMMA RestartStep == ASSUME Inv, Restart PROVE Inv'
  <1>1. Start(disk) /\ UNCHANGED <<disk, pulled, pushes, acked, failures, pulls>>
    BY DEF Restart
  <1>2. /\ snapshots' \in Seq(Audited) /\ Numbered(disk')
        /\ \A f \in DOMAIN disk' : disk'[f] \in Audited \cup {Torn}
        /\ unread' \in 0 .. MaxUnread /\ restarts' \in 0 .. MaxRestarts
        /\ LossInv'
    <2>1. Start(disk') /\ disk' = disk
      BY <1>1
    <2>2. <<0, Len(snapshots)>>[2] = Len(snapshots)
      OBVIOUS
    <2> QED  BY <1>1, <2>1, <2>2, StartKeepsLoss
  <1> QED  BY <1>1, <1>2 DEF Inv, Types

LEMMA PullStep == ASSUME Inv, NEW since \in Sinces, Pull(since) PROVE Inv'
  <1> DEFINE listed   == {j \in DOMAIN snapshots : snapshots[j].n >= since}
             place(j) == Cardinality({k \in listed : k < j})
             name(j)  == <<snapshots[j].label, place(j)>>
  <1>0. PICK written \in 1 .. Cardinality(listed), cut \in BOOLEAN :
          LET taken    == {j \in listed : place(j) < written}
              bytes(j) == IF cut /\ place(j) = written - 1 THEN Torn ELSE snapshots[j]
          IN  pulled' = Overwrite(pulled, [f \in {name(j) : j \in taken} |->
                          bytes(CHOOSE j \in taken : name(j) = f)])
    BY DEF Pull
  <1> DEFINE bytes(j) == IF cut /\ place(j) = written - 1 THEN Torn ELSE snapshots[j]
  <1>1. PICK taken :
          /\ taken = {j \in listed : place(j) < written}
          /\ pulled' = Overwrite(pulled, [f \in {name(j) : j \in taken} |->
                         bytes(CHOOSE j \in taken : name(j) = f)])
    BY <1>0
  <1>2. taken \subseteq DOMAIN snapshots
    BY <1>1
  <1>3. \A j \in taken : bytes(j) \in Audited \cup {Torn}
    BY <1>2 DEF Inv, Types
  <1> HIDE DEF name, bytes
  <1>4. ASSUME NEW f \in {name(j) : j \in taken}
        PROVE  bytes(CHOOSE j \in taken : name(j) = f) \in Audited \cup {Torn}
    <2>1. (CHOOSE j \in taken : name(j) = f) \in taken
      OBVIOUS
    <2> QED  BY <1>3, <2>1
  <1>5. \A f \in DOMAIN pulled' : pulled'[f] \in Audited \cup {Torn}
    <2>1. PICK fresh : /\ fresh = [f \in {name(j) : j \in taken} |->
                              bytes(CHOOSE j \in taken : name(j) = f)]
                       /\ pulled' = Overwrite(pulled, fresh)
      BY <1>1
    <2>2. \A f \in DOMAIN fresh : fresh[f] \in Audited \cup {Torn}
      BY <1>4, <2>1
    <2> QED  BY <2>1, <2>2 DEF Overwrite, Inv, Types
  <1>6. /\ pulls' \in 0 .. MaxPulls
        /\ UNCHANGED <<snapshots, disk, pushes, acked, unread, failures, restarts>>
    BY RelayAssumption DEF Pull, Inv, Types
  <1> QED  BY <1>5, <1>6 DEF Inv, Types, LossInv

LEMMA Steps == Inv /\ [Next]_vars => Inv'
  <1> SUFFICES ASSUME Inv, [Next]_vars PROVE Inv'
    OBVIOUS
  <1>1. CASE UNCHANGED vars
    BY <1>1 DEF vars, Inv, Types, LossInv
  <1> QED  BY <1>1, PushStep, RestartStep, PullStep DEF Next

LEMMA InvHolds == Spec => []Inv
  BY Initially, Steps, PTL DEF Spec

\* Types: what the relay keeps, and what is pulled from it, are snapshots that were
\* pushed, and a torn file is never taken for one.
THEOREM RelayTyping == Spec => []TypeOK
  <1>1. Inv => TypeOK
    BY DEF Inv, Types, TypeOK
  <1> QED  BY <1>1, InvHolds, PTL

\* LossIsBounded for any number of labels, pushes, failures and deaths: a snapshot
\* answered with 201 is lost only to its own failed write or, for each start, to a
\* gap that one failed write or one file that could not be read left in the count.
THEOREM LossStaysBounded == Spec => []LossIsBounded
  <1>1. ASSUME Inv PROVE LossIsBounded
    <2>1. Cardinality(Missing(acked, disk)) <= (failures + unread) * (1 + restarts)
      BY <1>1, Sizes, LostWithinBound DEF Inv, Types, LossInv
    <2>2. Lost = Missing(acked, disk)
      BY DEF Lost, Missing
    <2> QED  BY <2>1, <2>2 DEF LossIsBounded
  <1> QED  BY <1>1, InvHolds, PTL

----------------------------------------------------------------------------
(* The comparison.                                                         *)

\* An audit that got past the manifest, and that was not --graph-only, keeps the
\* manifest and what it was answered for each asset.
LEMMA WhatIsCompared ==
    ASSUME NEW s, s.label \notin GraphOnly,
           Snap(s).state \notin HardFailures \cup {"UNAVAILABLE"}
    PROVE  /\ Snap(s).manifest = Bytes(s)[1]
           /\ Snap(s).observed = Bytes(s)[2]
           /\ DOMAIN Bytes(s)[2] = DOMAIN Bytes(s)[1].assets
  <1>1. /\ Snap(s).manifest = s.served["manifest.json"].body
        /\ Snap(s).observed =
             ObservedAssets(s.served, s.served["manifest.json"].body)
    BY DEF Snap, Snapshot
  <1> QED  BY <1>1 DEF ObservedAssets, Bytes

\* SelectiveDeliverySurfaces for any views of the origin and any history of the relay:
\* no verdict, pin or finding that two vantage points have in common hides that they
\* were served different bytes.
THEOREM SelectiveDeliveryAlwaysSurfaces == Spec => []SelectiveDeliverySurfaces
  <1>1. SelectiveDeliverySurfaces
    <2> SUFFICES ASSUME NEW a \in Range(pulled) \ {Torn}, NEW b \in Range(pulled) \ {Torn},
                        {Snap(a).state, Snap(b).state}
                          \cap (HardFailures \cup {"UNAVAILABLE"}) = {},
                        {a.label, b.label} \cap GraphOnly = {},
                        Bytes(a) # Bytes(b)
                 PROVE  Diff(Snap(a), Snap(b)) # {}
      BY DEF SelectiveDeliverySurfaces
    <2> DEFINE left == Snap(a)
               right == Snap(b)
    <2>1. /\ left.manifest = Bytes(a)[1] /\ left.observed = Bytes(a)[2]
          /\ DOMAIN Bytes(a)[2] = DOMAIN Bytes(a)[1].assets
      BY WhatIsCompared
    <2>2. /\ right.manifest = Bytes(b)[1] /\ right.observed = Bytes(b)[2]
          /\ DOMAIN Bytes(b)[2] = DOMAIN Bytes(b)[1].assets
      BY WhatIsCompared
    <2>3. CASE Bytes(a)[1] # Bytes(b)[1]
      <3>1. left.manifest # right.manifest
        BY <2>1, <2>2, <2>3
      <3>2. <<"manifest-differs">> \in Diff(left, right)
        BY <3>1 DEF Diff
      <3> QED  BY <3>2
    <2>4. CASE Bytes(a)[1] = Bytes(b)[1]
      <3>1. PICK p \in DOMAIN left.observed \cap DOMAIN right.observed :
              left.observed[p] # right.observed[p]
        <4>1. Bytes(a)[2] # Bytes(b)[2]
          BY <2>4 DEF Bytes
        <4>2. DOMAIN Bytes(a)[2] = DOMAIN Bytes(b)[2]
          BY <2>1, <2>2, <2>4
        <4>3. \E p \in DOMAIN Bytes(a)[2] : Bytes(a)[2][p] # Bytes(b)[2][p]
          BY <4>1, <4>2 DEF Bytes
        <4> QED  BY <2>1, <2>2, <4>2, <4>3
      <3>2. <<"content-differs", p>> \in Diff(left, right)
        BY <3>1 DEF Diff
      <3> QED  BY <3>2
    <2> QED  BY <2>3, <2>4
  <1> QED  BY <1>1, PTL

----------------------------------------------------------------------------
(* The telemetry server.                                                   *)

Numbers == 1 .. MaxReports

\* The reports that were stored, or not, by requests answered or under way.
Processed == accepted \cup (Range(request.items) \ Range(request.left))

TelemetryTypes ==
    /\ reports \in Seq(Numbers) /\ Numbered(files)
    /\ \A f \in DOMAIN files : /\ f[1] \in 0 .. LastSecond
                               /\ files[f] \in Numbers \cup {Torn}
    /\ clock \in 0 .. LastSecond
    /\ request \in [now: 0 .. LastSecond, items: Seq(Numbers), left: Seq(Numbers)]
    /\ accepted \subseteq Numbers /\ made \in 0 .. MaxReports
    /\ unwritten \in 0 .. MaxReportFailures
    /\ undelivered \in 0 .. MaxReportFailures /\ starts \in 0 .. MaxRestarts
    /\ unseen \in 0 .. MaxUnread

\* A report is forwarded by one task, that of the only request that has it.
ForwardedOnce ==
    /\ outgoing \cup delivered \cup Range(request.left) \subseteq 1 .. made
    /\ outgoing \cap delivered = {}
    /\ Range(request.left) \cap (outgoing \cup delivered) = {}
    /\ \A i, j \in DOMAIN request.left : request.left[i] = request.left[j] => i = j

\* A name that is taken has a second of before the start or an index that is passed;
\* the first cannot come again unless a request reads such a second.
NamesArePassed ==
    /\ \A f \in DOMAIN files : f[1] \in spent \/ f[2] < Len(reports)
    /\ ~repeated /\ request.left # <<>> => request.now \notin spent

FilesInv ==
    /\ Bound(Len(reports), files, Processed, unwritten + unseen, starts)
    /\ starts = 0 => unseen = 0
    /\ ~repeated => Cardinality(Missing(Processed, files)) <= unwritten
    /\ undelivered = 0 /\ starts = 0 => Processed \subseteq outgoing \cup delivered

TelemetryInv == TelemetryTypes /\ ForwardedOnce /\ NamesArePassed /\ FilesInv

LEMMA TelemetrySizes ==
    ASSUME TelemetryInv
    PROVE  /\ Processed \subseteq Numbers /\ IsFiniteSet(Processed) /\ Torn \notin Processed
           /\ Len(reports) \in Nat /\ unwritten \in Nat /\ starts \in Nat
           /\ unseen \in Nat /\ unwritten + unseen \in Nat
           /\ Cardinality(Missing(Processed, files)) \in Nat
  <1>1. Processed \subseteq Numbers
    BY DEF TelemetryInv, TelemetryTypes, Processed, Range
  <1>2. IsFiniteSet(Numbers)
    BY TelemetryAssumption, FS_Interval DEF Numbers
  <1>3. IsFiniteSet(Processed)
    BY <1>1, <1>2, FS_Subset
  <1>4. Torn \notin Processed
    BY <1>1, TelemetryAssumption DEF Numbers
  <1>5. /\ Len(reports) \in Nat /\ unwritten \in Nat /\ starts \in Nat
        /\ unseen \in Nat /\ unwritten + unseen \in Nat
    BY TelemetryAssumption, RelayAssumption DEF TelemetryInv, TelemetryTypes
  <1>6. Cardinality(Missing(Processed, files)) \in Nat
    BY <1>3, OneMoreAnswered
  <1> QED  BY <1>1, <1>3, <1>4, <1>5, <1>6

LEMMA SameCardinality == ASSUME NEW S PROVE T!Cardinality(S) = Cardinality(S)
  BY DEF T!Cardinality, Cardinality

LEMMA ReportsReadBack ==
    ASSUME NEW dir, Numbered(dir), \A f \in DOMAIN dir : dir[f] \in Numbers \cup {Torn},
           NEW hidden \in SUBSET Good(dir), NEW memory \in T!Loaded(dir, hidden)
    PROVE  /\ memory \in Seq(Numbers)
           /\ Len(memory) = Cardinality(Good(dir)) - Cardinality(hidden)
  <1> DEFINE names == Good(dir) \ hidden
  <1>1. PICK order \in [1 .. Cardinality(names) -> names] :
          memory = [i \in DOMAIN order |-> dir[order[i]]]
    BY SameCardinality DEF T!Loaded, T!Listings, Good
  <1>2. /\ Cardinality(names) \in Nat
        /\ Cardinality(names) = Cardinality(Good(dir)) - Cardinality(hidden)
    BY WhatIsRead
  <1>3. \A f \in names : dir[f] \in Numbers
    BY DEF Good
  <1> HIDE DEF names
  <1>4. /\ DOMAIN memory = 1 .. Cardinality(names)
        /\ memory = [i \in 1 .. Cardinality(names) |-> dir[order[i]]]
    BY <1>1
  <1>5. \A i \in 1 .. Cardinality(names) : dir[order[i]] \in Numbers
    BY <1>1, <1>3
  <1>6. memory \in Seq(Numbers) /\ Len(memory) = Cardinality(names)
    BY <1>2, <1>4, <1>5
  <1> QED  BY <1>2, <1>6

LEMMA ReportOverwrites ==
    ASSUME NEW content
    PROVE  Overwritten(files, <<request.now, Len(reports)>>, content, T!Write(content))
  BY DEF Overwritten, T!Write, T!Overwrite, T!FileName

LEMMA ReportWriteTyped ==
    ASSUME TelemetryTypes, NEW content \in Numbers \cup {Torn}, NEW after,
           Overwritten(files, <<request.now, Len(reports)>>, content, after)
    PROVE  \A f \in DOMAIN after : /\ f[1] \in 0 .. LastSecond
                                   /\ after[f] \in Numbers \cup {Torn}
  <1> DEFINE name == <<request.now, Len(reports)>>
  <1>1. name[1] \in 0 .. LastSecond
    BY DEF TelemetryTypes
  <1> HIDE DEF name
  <1>2. Overwritten(files, name, content, after)
    BY DEF name
  <1>3. \A f \in DOMAIN files : /\ f[1] \in 0 .. LastSecond
                              /\ files[f] \in Numbers \cup {Torn}
    BY DEF TelemetryTypes
  <1> QED  BY <1>1, <1>2, <1>3 DEF Overwritten

LEMMA TelemetryInitially == T!Init => TelemetryInv
  <1> SUFFICES ASSUME T!Init PROVE TelemetryInv
    OBVIOUS
  <1>1. /\ DOMAIN files = {} /\ reports = <<>> /\ clock = 0 /\ outgoing = {}
        /\ delivered = {} /\ made = 0 /\ accepted = {} /\ spent = {} /\ repeated = FALSE
        /\ unseen = 0 /\ unwritten = 0 /\ undelivered = 0 /\ starts = 0
        /\ request = [now |-> 0, items |-> <<>>, left |-> <<>>]
    BY DEF T!Init, T!Idle
  <1>2. request.left = <<>> /\ request.items = <<>>
    BY <1>1
  <1>3. Range(request.left) = {} /\ Range(request.items) = {} /\ Processed = {}
    BY <1>1, <1>2 DEF Range, Processed
  <1>4. Numbered(files) /\ Bound(0, files, {}, 0, 0)
    BY <1>1, EmptyKeepsBound
  <1>5. TelemetryTypes
    BY <1>1, <1>4, TelemetryAssumption, RelayAssumption DEF TelemetryTypes
  <1>6. ForwardedOnce
    BY <1>1, <1>2, <1>3 DEF ForwardedOnce
  <1>7. NamesArePassed
    BY <1>1, <1>2 DEF NamesArePassed
  <1>8. FilesInv
    <2>1. Len(reports) = 0 /\ unwritten + unseen = 0
      BY <1>1
    <2>2. Cardinality(Missing({}, files)) = 0
      <3>1. Missing({}, files) = {}
        BY DEF Missing
      <3> QED  BY <3>1, FS_EmptySet
    <2> QED  BY <1>1, <1>3, <1>4, <2>1, <2>2 DEF FilesInv
  <1> QED  BY <1>5, <1>6, <1>7, <1>8 DEF TelemetryInv

LEMMA PostStep == ASSUME TelemetryInv, T!Post PROVE TelemetryInv'
  <1>1. PICK k \in 1 .. MaxBatch :
          /\ made + k <= MaxReports /\ made' = made + k
          /\ request' = [now |-> clock, items |-> [i \in 1 .. k |-> made + i],
                         left |-> [i \in 1 .. k |-> made + i]]
    BY DEF T!Post
  <1>2. /\ request = T!Idle /\ repeated' = (repeated \/ clock \in spent)
        /\ UNCHANGED <<reports, files, clock, outgoing, delivered, accepted, spent,
                       unseen, unwritten, undelivered, starts>>
    BY DEF T!Post
  <1>3. made \in Nat /\ k \in Nat /\ MaxReports \in Nat
    BY TelemetryAssumption DEF TelemetryInv, TelemetryTypes
  <1> DEFINE items == [i \in 1 .. k |-> made + i]
  <1>4. /\ items \in Seq(Numbers) /\ DOMAIN items = 1 .. k
        /\ \A i \in DOMAIN items : items[i] = made + i
    BY <1>1, <1>3 DEF Numbers
  <1>5. request'.items = items /\ request'.left = items /\ request'.now = clock
    BY <1>1
  <1> HIDE DEF items
  <1>6. Processed' = accepted /\ Processed = accepted
    <2>1. request.items = <<>> /\ request.left = <<>>
      BY <1>2 DEF T!Idle
    <2> QED  BY <1>2, <1>5, <2>1 DEF Processed, Range
  <1>7. TelemetryTypes'
    <2>1. request' \in [now: 0 .. LastSecond, items: Seq(Numbers), left: Seq(Numbers)]
      BY <1>1, <1>4 DEF TelemetryInv, TelemetryTypes, items
    <2>2. made' \in 0 .. MaxReports
      BY <1>1, <1>3
    <2> QED  BY <1>2, <2>1, <2>2 DEF TelemetryInv, TelemetryTypes
  <1>8. ForwardedOnce'
    <2>1. \A r \in Range(items) : r \in (made + 1) .. (made + k)
      BY <1>3, <1>4 DEF Range
    <2>2. outgoing \cup delivered \subseteq 1 .. made /\ outgoing \cap delivered = {}
      BY DEF TelemetryInv, ForwardedOnce
    <2>3. /\ 1 .. made \subseteq 1 .. (made + k)
          /\ (made + 1) .. (made + k) \subseteq 1 .. (made + k)
          /\ (made + 1) .. (made + k) \cap 1 .. made = {}
      BY <1>3
    <2>4. outgoing \cup delivered \cup Range(items) \subseteq 1 .. (made + k)
      BY <2>1, <2>2, <2>3
    <2>5. Range(items) \cap (outgoing \cup delivered) = {}
      BY <2>1, <2>2, <2>3
    <2>6. \A i, j \in DOMAIN items : items[i] = items[j] => i = j
      BY <1>3, <1>4
    <2>7. Range(request.left)' = Range(items)
      BY <1>5 DEF Range
    <2> QED  BY <1>1, <1>2, <1>5, <2>2, <2>4, <2>5, <2>6, <2>7 DEF ForwardedOnce
  <1>9. NamesArePassed'
    <2>1. ~repeated' => clock \notin spent
      BY <1>2
    <2> QED  BY <1>2, <1>5, <2>1 DEF TelemetryInv, NamesArePassed
  <1>10. FilesInv'
    <2>1. ~repeated' => ~repeated
      BY <1>2
    <2> QED  BY <1>2, <1>6, <2>1 DEF TelemetryInv, FilesInv
  <1> QED  BY <1>7, <1>8, <1>9, <1>10 DEF TelemetryInv

\* What is stored or not at the end of the memory is the first of the reports left.
LEMMA ItemKeepsFiles ==
    ASSUME TelemetryInv, NEW r \in Numbers,
           request.left # <<>>,
           Processed' \subseteq Processed \cup {r},
           reports' = Append(reports, r),
           \/ files' = T!Write(r) /\ UNCHANGED unwritten
           \/ /\ unwritten < MaxReportFailures /\ unwritten' = unwritten + 1
              /\ files' \in {files, T!Write(Torn)},
           outgoing' = outgoing \cup {r},
           UNCHANGED <<delivered, spent, repeated, unseen, undelivered, starts>>
    PROVE  /\ Numbered(files') /\ FilesInv'
           /\ \A f \in DOMAIN files' : /\ f[1] \in 0 .. LastSecond
                                       /\ files'[f] \in Numbers \cup {Torn}
           /\ \A f \in DOMAIN files' : f[1] \in spent \/ f[2] < Len(reports')
           /\ unwritten' \in 0 .. MaxReportFailures
  <1> DEFINE name == <<request.now, Len(reports)>>
  <1>1. /\ TelemetryTypes /\ Numbered(files) /\ NamesArePassed
        /\ Bound(Len(reports), files, Processed, unwritten + unseen, starts)
        /\ starts = 0 => unseen = 0
        /\ ~repeated => Cardinality(Missing(Processed, files)) <= unwritten
        /\ undelivered = 0 /\ starts = 0 => Processed \subseteq outgoing \cup delivered
    BY DEF TelemetryInv, TelemetryTypes, FilesInv
  <1>2. /\ IsFiniteSet(Processed) /\ Torn \notin Processed /\ Len(reports) \in Nat
        /\ unwritten \in Nat /\ unseen \in Nat /\ unwritten + unseen \in Nat
        /\ starts \in Nat /\ MaxReportFailures \in Nat
        /\ Cardinality(Missing(Processed, files)) \in Nat
    BY TelemetrySizes, TelemetryAssumption
  <1>3. name[1] = request.now /\ name[2] = Len(reports) /\ r # Torn
    BY TelemetryAssumption DEF Numbers
  <1>4. Len(reports') = Len(reports) + 1
    BY <1>1 DEF TelemetryTypes
  <1>5. \A content : Overwritten(files, name, content, T!Write(content))
    BY ReportOverwrites
  <1>6. ~repeated => name \notin DOMAIN files
    <2>1. \A f \in DOMAIN files : f[1] \in spent \/ f[2] < Len(reports)
      BY <1>1 DEF NamesArePassed
    <2>2. ~repeated => request.now \notin spent
      BY <1>1 DEF NamesArePassed
    <2> QED  BY <1>2, <1>3, <2>1, <2>2
  <1> HIDE DEF name
  <1>7. undelivered' = 0 /\ starts' = 0 => Processed' \subseteq outgoing' \cup delivered'
    BY <1>1
  <1>8. ASSUME NEW after, DOMAIN after \subseteq DOMAIN files \cup {name}
        PROVE  \A f \in DOMAIN after : f[1] \in spent \/ f[2] < Len(reports')
    <2>1. \A f \in DOMAIN files : f[1] \in spent \/ f[2] < Len(reports)
      BY <1>1 DEF NamesArePassed
    <2>2. \A f \in DOMAIN files : f[2] \in Nat
      BY <1>1 DEF Numbered
    <2>3. name[2] < Len(reports')
      BY <1>2, <1>3, <1>4
    <2>4. \A f \in DOMAIN files : f[1] \in spent \/ f[2] < Len(reports')
      BY <1>2, <1>4, <2>1, <2>2
    <2> QED  BY <1>8, <2>3, <2>4
  <1>9. CASE files' = T!Write(r) /\ UNCHANGED unwritten
    <2>1. Overwritten(files, name, r, files')
      BY <1>5, <1>9
    <2>2. /\ Numbered(files')
          /\ Bound(Len(reports) + 1, files', Processed', unwritten + unseen, starts)
      BY <1>1, <1>2, <1>3, <2>1, StoredKeepsBound
    <2>3. \A f \in DOMAIN files' : /\ f[1] \in 0 .. LastSecond
                                   /\ files'[f] \in Numbers \cup {Torn}
      BY <1>1, <2>1, ReportWriteTyped DEF name
    <2>4. ~repeated => Cardinality(Missing(Processed', files')) <= unwritten
      <3>1. SUFFICES ASSUME ~repeated PROVE Cardinality(Missing(Processed', files')) <= unwritten
        OBVIOUS
      <3>2. Missing(Processed, files') \subseteq Missing(Processed, files)
        BY <1>1, <1>2, <1>3, <1>6, <2>1, <3>1, WriteLoses
      <3>3. r \notin Missing(Processed', files')
        BY <2>1 DEF Missing, Overwritten
      <3>4. Missing(Processed', files') \subseteq Missing(Processed, files)
        BY <3>2, <3>3 DEF Missing
      <3>5. IsFiniteSet(Missing(Processed, files))
        <4>1. Missing(Processed, files) \subseteq Processed
          BY DEF Missing
        <4> QED  BY <1>2, <4>1, FS_Subset
      <3>6. /\ Cardinality(Missing(Processed', files')) \in Nat
            /\ Cardinality(Missing(Processed', files')) <= Cardinality(Missing(Processed, files))
        BY <3>4, <3>5, FS_Subset, FS_CardinalityType
      <3> QED  BY <1>1, <1>2, <3>1, <3>6
    <2>5. FilesInv'
      BY <1>1, <1>4, <1>7, <1>9, <2>2, <2>4 DEF FilesInv
    <2>6. \A f \in DOMAIN files' : f[1] \in spent \/ f[2] < Len(reports')
      BY <1>8, <2>1 DEF Overwritten
    <2> QED  BY <1>1, <1>9, <2>2, <2>3, <2>5, <2>6 DEF TelemetryTypes
  <1>10. CASE /\ unwritten < MaxReportFailures /\ unwritten' = unwritten + 1
              /\ files' \in {files, T!Write(Torn)}
    <2>1. files' = files \/ Overwritten(files, name, Torn, files')
      BY <1>5, <1>10
    <2>2. /\ Numbered(files')
          /\ Bound(Len(reports) + 1, files', Processed', (unwritten + unseen) + 1, starts)
      BY <1>1, <1>2, <1>3, <2>1, FailureKeepsBound
    <2>3. \A f \in DOMAIN files' : /\ f[1] \in 0 .. LastSecond
                                   /\ files'[f] \in Numbers \cup {Torn}
      <3>1. CASE files' = files
        BY <1>1, <3>1 DEF TelemetryTypes
      <3>2. CASE Overwritten(files, name, Torn, files')
        BY <1>1, <3>2, ReportWriteTyped DEF name
      <3> QED  BY <2>1, <3>1, <3>2
    <2>4. ~repeated => Cardinality(Missing(Processed', files')) <= unwritten + 1
      <3>1. SUFFICES ASSUME ~repeated
                     PROVE  Cardinality(Missing(Processed', files')) <= unwritten + 1
        OBVIOUS
      <3>2. Missing(Processed, files') \subseteq Missing(Processed, files)
        <4>1. CASE files' = files
          BY <4>1
        <4>2. CASE Overwritten(files, name, Torn, files')
          BY <1>1, <1>2, <1>3, <1>6, <3>1, <4>2, WriteLoses
        <4> QED  BY <2>1, <4>1, <4>2
      <3>3. Missing(Processed', files') \subseteq Missing(Processed, files) \cup {r}
        BY <3>2 DEF Missing
      <3>4. IsFiniteSet(Missing(Processed, files))
        <4>1. Missing(Processed, files) \subseteq Processed
          BY DEF Missing
        <4> QED  BY <1>2, <4>1, FS_Subset
      <3>5. /\ IsFiniteSet(Missing(Processed, files) \cup {r})
            /\ Cardinality(Missing(Processed, files) \cup {r})
                 <= Cardinality(Missing(Processed, files)) + 1
        <4> DEFINE lost == Missing(Processed, files)
        <4> HIDE DEF lost
        <4>1. /\ IsFiniteSet(lost \cup {r})
              /\ Cardinality(lost \cup {r}) =
                   IF r \in lost THEN Cardinality(lost) ELSE Cardinality(lost) + 1
          BY <3>4, FS_AddElement DEF lost
        <4>2. Cardinality(lost) \in Nat
          BY <1>2 DEF lost
        <4>3. Cardinality(lost \cup {r}) <= Cardinality(lost) + 1
          BY <4>1, <4>2
        <4> QED  BY <4>1, <4>3 DEF lost
      <3>6. /\ Cardinality(Missing(Processed', files')) \in Nat
            /\ Cardinality(Missing(Processed, files) \cup {r}) \in Nat
            /\ Cardinality(Missing(Processed', files'))
                 <= Cardinality(Missing(Processed, files) \cup {r})
        BY <3>3, <3>5, FS_Subset, FS_CardinalityType
      <3> QED  BY <1>1, <1>2, <3>1, <3>5, <3>6
    <2>5. FilesInv'
      <3>1. unwritten' + unseen' = (unwritten + unseen) + 1
        BY <1>2, <1>10
      <3> QED  BY <1>1, <1>4, <1>7, <1>10, <2>2, <2>4, <3>1 DEF FilesInv
    <2>6. \A f \in DOMAIN files' : f[1] \in spent \/ f[2] < Len(reports')
      <3>1. DOMAIN files' \subseteq DOMAIN files \cup {name}
        BY <2>1 DEF Overwritten
      <3> QED  BY <1>8, <3>1
    <2>7. unwritten' \in 0 .. MaxReportFailures
      BY <1>2, <1>10
    <2> QED  BY <2>2, <2>3, <2>5, <2>6, <2>7
  <1> QED  BY <1>9, <1>10

LEMMA ItemStep == ASSUME TelemetryInv, T!Item PROVE TelemetryInv'
  <1> DEFINE r == Head(request.left)
  <1>1. /\ TelemetryTypes /\ ForwardedOnce /\ NamesArePassed
        /\ request \in [now: 0 .. LastSecond, items: Seq(Numbers), left: Seq(Numbers)]
        /\ request.left \in Seq(Numbers)
    BY DEF TelemetryInv, TelemetryTypes
  <1>2. /\ request.left # <<>> /\ reports' = Append(reports, r)
        /\ \/ files' = T!Write(r) /\ UNCHANGED unwritten
           \/ /\ unwritten < MaxReportFailures /\ unwritten' = unwritten + 1
              /\ files' \in {files, T!Write(Torn)}
        /\ outgoing' = outgoing \cup {r}
        /\ UNCHANGED <<clock, delivered, made, accepted, spent, repeated,
                       unseen, undelivered, starts>>
    BY DEF T!Item, T!Stores, T!StoreFails
  <1>3. request' = [request EXCEPT !.left = Tail(@)]
    BY DEF T!Item
  <1>4. /\ request'.items = request.items /\ request'.now = request.now
        /\ request'.left = Tail(request.left)
    BY <1>1, <1>3
  <1>5. /\ r \in Numbers /\ r = request.left[1] /\ 1 \in DOMAIN request.left
        /\ Tail(request.left) \in Seq(Numbers)
    BY <1>1, <1>2
  <1>6. /\ DOMAIN Tail(request.left) = 1 .. (Len(request.left) - 1)
        /\ \A i \in DOMAIN Tail(request.left) :
             /\ i + 1 \in DOMAIN request.left /\ i + 1 # 1
             /\ Tail(request.left)[i] = request.left[i + 1]
    BY <1>1, <1>2
  <1> HIDE DEF r
  <1>7. /\ Range(request.left)' \subseteq Range(request.left)
        /\ Range(request.left) \subseteq Range(request.left)' \cup {r}
    <2>1. Range(request.left)' \subseteq Range(request.left)
      BY <1>4, <1>6 DEF Range
    <2>2. ASSUME NEW i \in DOMAIN request.left, i # 1
          PROVE  request.left[i] \in Range(request.left)'
      <3>1. i - 1 \in DOMAIN Tail(request.left)
        BY <1>1, <1>6, <2>2
      <3>2. Tail(request.left)[i - 1] = request.left[i]
        <4>1. Tail(request.left)[i - 1] = request.left[(i - 1) + 1]
          BY <1>6, <3>1
        <4>2. (i - 1) + 1 = i
          BY <1>1
        <4> QED  BY <4>1, <4>2
      <3> QED  BY <1>4, <3>1, <3>2 DEF Range
    <2>3. Range(request.left) \subseteq Range(request.left)' \cup {r}
      BY <1>5, <2>2 DEF Range
    <2> QED  BY <2>1, <2>3
  <1>8. Processed' \subseteq Processed \cup {r}
    <2>1. Range(request.items)' = Range(request.items)
      BY <1>4 DEF Range
    <2> QED  BY <1>2, <1>7, <2>1 DEF Processed
  <1>9. /\ Numbered(files') /\ FilesInv'
        /\ \A f \in DOMAIN files' : /\ f[1] \in 0 .. LastSecond
                                    /\ files'[f] \in Numbers \cup {Torn}
        /\ \A f \in DOMAIN files' : f[1] \in spent \/ f[2] < Len(reports')
        /\ unwritten' \in 0 .. MaxReportFailures
    BY <1>2, <1>5, <1>8, ItemKeepsFiles
  <1>10. TelemetryTypes'
    <2>1. request' \in [now: 0 .. LastSecond, items: Seq(Numbers), left: Seq(Numbers)]
      BY <1>1, <1>3, <1>5
    <2>2. reports' \in Seq(Numbers)
      BY <1>1, <1>2, <1>5 DEF TelemetryTypes
    <2> QED  BY <1>1, <1>2, <1>9, <2>1, <2>2 DEF TelemetryTypes
  <1>11. ForwardedOnce'
    <2>1. r \in Range(request.left)
      BY <1>5 DEF Range
    <2>2. r \notin Range(request.left)'
      <3>1. ASSUME NEW i \in DOMAIN Tail(request.left), Tail(request.left)[i] = r
            PROVE  FALSE
        <4>1. request.left[i + 1] = request.left[1] /\ i + 1 \in DOMAIN request.left
              /\ i + 1 # 1
          BY <1>5, <1>6, <3>1
        <4> QED  BY <1>1, <1>5, <4>1 DEF ForwardedOnce
      <3> QED  BY <1>4, <3>1 DEF Range
    <2>3. ASSUME NEW i \in DOMAIN Tail(request.left), NEW j \in DOMAIN Tail(request.left),
                 Tail(request.left)[i] = Tail(request.left)[j]
          PROVE  i = j
      <3>1. /\ request.left[i + 1] = request.left[j + 1]
            /\ i + 1 \in DOMAIN request.left /\ j + 1 \in DOMAIN request.left
        BY <1>6, <2>3
      <3>2. i + 1 = j + 1
        BY <1>1, <3>1 DEF ForwardedOnce
      <3>3. i \in Int /\ j \in Int
        BY <1>6
      <3> QED  BY <3>2, <3>3
    <2>4. \A i, j \in DOMAIN request'.left : request'.left[i] = request'.left[j] => i = j
      BY <1>4, <2>3
    <2> QED  BY <1>1, <1>2, <1>7, <2>1, <2>2, <2>4 DEF ForwardedOnce
  <1>12. NamesArePassed'
    BY <1>1, <1>2, <1>4, <1>9 DEF NamesArePassed
  <1> QED  BY <1>9, <1>10, <1>11, <1>12 DEF TelemetryInv

LEMMA AnswerStep == ASSUME TelemetryInv, T!Answer PROVE TelemetryInv'
  <1>1. /\ request.left = <<>> /\ request' = T!Idle
        /\ accepted' = accepted \cup T!Range(request.items)
        /\ UNCHANGED <<reports, files, clock, outgoing, delivered, made, spent,
                       repeated, unseen, unwritten, undelivered, starts>>
    BY DEF T!Answer
  <1>2. /\ request' = [now |-> 0, items |-> <<>>, left |-> <<>>]
        /\ request'.left = <<>> /\ request'.items = <<>>
    BY <1>1 DEF T!Idle
  <1>3. Processed' = Processed
    <2>1. Range(request.left) = {} /\ Range(request.left)' = {} /\ Range(request.items)' = {}
      BY <1>1, <1>2 DEF Range
    <2>2. T!Range(request.items) = Range(request.items)
      BY DEF T!Range, Range
    <2> QED  BY <1>1, <2>1, <2>2 DEF Processed
  <1>4. accepted' \subseteq Numbers
    BY <1>1 DEF TelemetryInv, TelemetryTypes, T!Range
  <1>5. request' \in [now: 0 .. LastSecond, items: Seq(Numbers), left: Seq(Numbers)]
    BY <1>2, TelemetryAssumption
  <1>6. TelemetryTypes'
    BY <1>1, <1>4, <1>5 DEF TelemetryInv, TelemetryTypes
  <1>7. ForwardedOnce'
    BY <1>1, <1>2 DEF TelemetryInv, ForwardedOnce, Range
  <1>8. NamesArePassed'
    BY <1>1, <1>2 DEF TelemetryInv, NamesArePassed
  <1>9. FilesInv'
    BY <1>1, <1>3 DEF TelemetryInv, FilesInv
  <1> QED  BY <1>6, <1>7, <1>8, <1>9 DEF TelemetryInv

LEMMA ForwardStep ==
    ASSUME TelemetryInv, NEW r \in outgoing, T!Forward(r)
    PROVE  TelemetryInv'
  <1>1. /\ outgoing' = outgoing \ {r}
        /\ \/ delivered' = delivered \cup {r} /\ UNCHANGED undelivered
           \/ /\ undelivered < MaxReportFailures /\ undelivered' = undelivered + 1
              /\ UNCHANGED delivered
        /\ UNCHANGED <<reports, files, clock, request, made, accepted, spent,
                       repeated, unseen, unwritten, starts>>
    BY DEF T!Forward
  <1>2. Range(request.left)' = Range(request.left) /\ Processed' = Processed
    BY <1>1 DEF Range, Processed
  <1>3. undelivered \in Nat /\ undelivered' \in 0 .. MaxReportFailures
    BY <1>1, TelemetryAssumption DEF TelemetryInv, TelemetryTypes
  <1>4. TelemetryTypes'
    BY <1>1, <1>3 DEF TelemetryInv, TelemetryTypes
  <1>5. ForwardedOnce'
    BY <1>1, <1>2 DEF TelemetryInv, ForwardedOnce
  <1>6. NamesArePassed'
    BY <1>1 DEF TelemetryInv, NamesArePassed
  <1>7. undelivered' = 0 /\ starts' = 0 => Processed' \subseteq outgoing' \cup delivered'
    BY <1>1, <1>2, <1>3 DEF TelemetryInv, FilesInv
  <1>8. FilesInv'
    BY <1>1, <1>2, <1>7 DEF TelemetryInv, FilesInv
  <1> QED  BY <1>4, <1>5, <1>6, <1>8 DEF TelemetryInv

LEMMA TelemetryRestartStep == ASSUME TelemetryInv, T!Restart PROVE TelemetryInv'
  <1> DEFINE name == <<request.now, Len(reports)>>
  <1>1. /\ starts < MaxRestarts /\ starts' = starts + 1
        /\ files' \in {files} \cup (IF request.left = <<>> THEN {} ELSE {T!Write(Torn)})
        /\ request' = T!Idle /\ outgoing' = {}
        /\ spent' = spent \cup {f[1] : f \in DOMAIN files'}
        /\ UNCHANGED <<clock, delivered, made, accepted, repeated, unwritten,
                       undelivered>>
    BY DEF T!Restart
  <1>0. PICK hidden \in SUBSET Good(files') :
          /\ unseen + Cardinality(hidden) <= MaxUnread
          /\ unseen' = unseen + Cardinality(hidden)
          /\ reports' \in T!Loaded(files', hidden)
    BY SameCardinality DEF T!Restart, Good
  <1>2. /\ TelemetryTypes /\ ForwardedOnce /\ NamesArePassed
        /\ Numbered(files)
        /\ Bound(Len(reports), files, Processed, unwritten + unseen, starts)
        /\ ~repeated => Cardinality(Missing(Processed, files)) <= unwritten
    BY DEF TelemetryInv, TelemetryTypes, FilesInv
  <1>3. /\ IsFiniteSet(Processed) /\ Torn \notin Processed /\ Len(reports) \in Nat
        /\ unwritten \in Nat /\ unseen \in Nat /\ unwritten + unseen \in Nat
        /\ starts \in Nat /\ Cardinality(Missing(Processed, files)) \in Nat
    BY TelemetrySizes
  <1>4. /\ request' = [now |-> 0, items |-> <<>>, left |-> <<>>]
        /\ request'.left = <<>> /\ request'.items = <<>>
    BY <1>1 DEF T!Idle
  <1>5. Processed' = accepted /\ accepted \subseteq Processed
    <2>1. Range(request.items)' = {}
      BY <1>4 DEF Range
    <2> QED  BY <1>1, <2>1 DEF Processed
  <1>6. name[1] = request.now /\ name[2] = Len(reports)
    OBVIOUS
  <1>7. \/ files' = files
        \/ request.left # <<>> /\ Overwritten(files, name, Torn, files')
    BY <1>1, ReportOverwrites
  <1> HIDE DEF name
  <1>8. /\ Numbered(files') /\ Cardinality(hidden) \in Nat
        /\ Bound(Cardinality(Good(files')) - Cardinality(hidden), files', Processed',
                 unwritten + unseen + Cardinality(hidden), starts + 1)
    <2>1. Numbered(files')
      BY <1>2, <1>3, <1>6, <1>7, WriteEffect
    <2>2. /\ Cardinality(hidden) \in Nat
          /\ Cardinality(hidden) <= Cardinality(Good(files'))
      BY <2>1, WhatIsRead
    <2> QED  BY <1>2, <1>3, <1>5, <1>6, <1>7, <2>1, <2>2, StartKeepsBound
  <1>9. \A f \in DOMAIN files' : /\ f[1] \in 0 .. LastSecond
                                 /\ files'[f] \in Numbers \cup {Torn}
    <2>1. CASE files' = files
      BY <1>2, <2>1 DEF TelemetryTypes
    <2>2. CASE Overwritten(files, name, Torn, files')
      BY <1>2, <2>2, ReportWriteTyped DEF name
    <2> QED  BY <1>7, <2>1, <2>2
  <1>10. /\ reports' \in Seq(Numbers)
         /\ Len(reports') = Cardinality(Good(files')) - Cardinality(hidden)
    BY <1>0, <1>8, <1>9, ReportsReadBack
  <1>11. TelemetryTypes'
    <2>1. request' \in [now: 0 .. LastSecond, items: Seq(Numbers), left: Seq(Numbers)]
      BY <1>4, TelemetryAssumption
    <2>2. starts' \in 0 .. MaxRestarts /\ unseen' \in 0 .. MaxUnread
      BY <1>0, <1>1, <1>3, <1>8, RelayAssumption
    <2> QED  BY <1>1, <1>2, <1>8, <1>9, <1>10, <2>1, <2>2 DEF TelemetryTypes
  <1>12. ForwardedOnce'
    BY <1>1, <1>2, <1>4 DEF ForwardedOnce, Range
  <1>13. NamesArePassed'
    BY <1>1, <1>4 DEF NamesArePassed
  <1>14. FilesInv'
    <2>1. ~repeated => Cardinality(Missing(Processed', files')) <= unwritten
      <3>1. SUFFICES ASSUME ~repeated
                     PROVE  Cardinality(Missing(Processed', files')) <= unwritten
        OBVIOUS
      <3>2. Missing(Processed, files') \subseteq Missing(Processed, files)
        <4>1. CASE files' = files
          BY <4>1
        <4>2. CASE request.left # <<>> /\ Overwritten(files, name, Torn, files')
          <5>1. \A f \in DOMAIN files : f[1] \in spent \/ f[2] < Len(reports)
            BY <1>2 DEF NamesArePassed
          <5>2. request.now \notin spent
            BY <1>2, <3>1, <4>2 DEF NamesArePassed
          <5>3. name \notin DOMAIN files
            BY <1>3, <1>6, <5>1, <5>2
          <5> QED  BY <1>2, <1>3, <1>6, <4>2, <5>3, WriteLoses
        <4> QED  BY <1>7, <4>1, <4>2
      <3>3. Missing(Processed', files') \subseteq Missing(Processed, files)
        BY <1>5, <3>2 DEF Missing
      <3>4. IsFiniteSet(Missing(Processed, files))
        <4>1. Missing(Processed, files) \subseteq Processed
          BY DEF Missing
        <4> QED  BY <1>3, <4>1, FS_Subset
      <3>5. /\ Cardinality(Missing(Processed', files')) \in Nat
            /\ Cardinality(Missing(Processed', files')) <= Cardinality(Missing(Processed, files))
        BY <3>3, <3>4, FS_Subset, FS_CardinalityType
      <3> QED  BY <1>2, <1>3, <3>1, <3>5
    <2>2. starts' # 0
      BY <1>1, <1>3
    <2>3. unwritten' + unseen' = unwritten + unseen + Cardinality(hidden)
      BY <1>0, <1>1, <1>3, <1>8
    <2> QED  BY <1>1, <1>8, <1>10, <2>1, <2>2, <2>3 DEF FilesInv
  <1> QED  BY <1>11, <1>12, <1>13, <1>14 DEF TelemetryInv

LEMMA SetClockStep == ASSUME TelemetryInv, T!SetClock PROVE TelemetryInv'
  <1>1. /\ clock' \in 0 .. LastSecond
        /\ UNCHANGED <<reports, files, request, outgoing, delivered, made, accepted,
                       spent, repeated, unseen, unwritten, undelivered, starts>>
    BY DEF T!SetClock
  <1>2. Processed' = Processed /\ Range(request.left)' = Range(request.left)
    BY <1>1 DEF Processed, Range
  <1> QED
    BY <1>1, <1>2 DEF TelemetryInv, TelemetryTypes, ForwardedOnce, NamesArePassed, FilesInv

LEMMA TelemetrySteps == TelemetryInv /\ [T!Next]_(T!vars) => TelemetryInv'
  <1> SUFFICES ASSUME TelemetryInv, [T!Next]_(T!vars) PROVE TelemetryInv'
    OBVIOUS
  <1>1. CASE UNCHANGED T!vars
    <2>1. UNCHANGED <<reports, files, clock, request, outgoing, delivered, made,
                      accepted, spent, repeated, unseen, unwritten, undelivered, starts>>
      BY <1>1 DEF T!vars
    <2>2. Processed' = Processed /\ Range(request.left)' = Range(request.left)
      BY <2>1 DEF Processed, Range
    <2> QED  BY <2>1, <2>2
             DEF TelemetryInv, TelemetryTypes, ForwardedOnce, NamesArePassed, FilesInv
  <1> QED
    BY <1>1, PostStep, ItemStep, AnswerStep, ForwardStep, TelemetryRestartStep, SetClockStep
    DEF T!Next

LEMMA TelemetryInvHolds == T!Spec => []TelemetryInv
  BY TelemetryInitially, TelemetrySteps, PTL DEF T!Spec

LEMMA LostIsMissing ==
    ASSUME TelemetryInv
    PROVE  /\ T!Lost \subseteq Missing(Processed, files)
           /\ T!Cardinality(T!Lost) \in Nat
           /\ T!Cardinality(T!Lost) <= Cardinality(Missing(Processed, files))
  <1>1. T!Lost \subseteq Missing(Processed, files)
    BY DEF T!Lost, T!Range, Missing, Processed
  <1>2. IsFiniteSet(Missing(Processed, files))
    <2>1. Missing(Processed, files) \subseteq Processed
      BY DEF Missing
    <2> QED  BY <2>1, TelemetrySizes, FS_Subset
  <1>3. /\ Cardinality(T!Lost) \in Nat
        /\ Cardinality(T!Lost) <= Cardinality(Missing(Processed, files))
    BY <1>1, <1>2, FS_Subset, FS_CardinalityType
  <1> QED  BY <1>1, <1>3, SameCardinality

\* Types: a report is in memory and in the files as it came, is never on its way to
\* the webhook again after it was delivered, and a torn file is never taken for one.
THEOREM TelemetryTyping == T!Spec => []TelemetryTypeOK
  <1>1. ASSUME TelemetryInv PROVE TelemetryTypeOK
    <2>1. TelemetryTypes /\ ForwardedOnce
      BY <1>1 DEF TelemetryInv
    <2>2. outgoing \cup delivered \subseteq Numbers
      <3>1. 1 .. made \subseteq Numbers
        BY <2>1, TelemetryAssumption DEF TelemetryTypes, Numbers
      <3> QED  BY <2>1, <3>1 DEF ForwardedOnce
    <2>3. /\ request.now \in 0 .. LastSecond
          /\ request.items \in Seq(Numbers) /\ request.left \in Seq(Numbers)
      BY <2>1 DEF TelemetryTypes
    <2> QED  BY <2>1, <2>2, <2>3
             DEF TelemetryTypeOK, T!TypeOK, T!Numbers, TelemetryTypes, ForwardedOnce,
                 Numbers, Numbered
  <1> QED  BY <1>1, TelemetryInvHolds, PTL

\* FilesAreKept for any requests, failures, deaths and any course of the clock: as long
\* as no second comes again, only a report's own failed write loses its file, whatever
\* a start could not read.
THEOREM ReportsStayInFiles == T!Spec => []FilesAreKept
  <1>1. ASSUME TelemetryInv PROVE FilesAreKept
    <2>1. /\ unwritten \in Nat /\ starts \in Nat /\ IsFiniteSet(Processed)
          /\ unseen \in Nat /\ unwritten + unseen \in Nat
          /\ Cardinality(Missing(Processed, files)) \in Nat /\ Len(reports) \in Nat
      BY <1>1, TelemetrySizes
    <2>2. Cardinality(Missing(Processed, files)) <= (unwritten + unseen) * (1 + starts)
      BY <1>1, <2>1, LostWithinBound DEF TelemetryInv, TelemetryTypes, FilesInv
    <2>3. ~repeated => Cardinality(Missing(Processed, files)) <= unwritten
      BY <1>1 DEF TelemetryInv, FilesInv
    <2>4. /\ T!Cardinality(T!Lost) \in Nat
          /\ T!Cardinality(T!Lost) <= Cardinality(Missing(Processed, files))
      BY <1>1, LostIsMissing
    <2>5. (unwritten + unseen) * (1 + starts) \in Nat
      BY <2>1, Budget
    <2>6. CASE repeated
      BY <2>1, <2>2, <2>4, <2>5, <2>6 DEF FilesAreKept, T!FilesAreKept
    <2>7. CASE ~repeated
      BY <2>1, <2>3, <2>4, <2>5, <2>7 DEF FilesAreKept, T!FilesAreKept
    <2> QED  BY <2>6, <2>7
  <1> QED  BY <1>1, TelemetryInvHolds, PTL

\* OneFaultLosesNothing for any requests and any course of the clock: the file and the
\* webhook do not fail a report together as long as only one thing fails.
THEOREM OneFaultIsSurvived == T!Spec => []OneFaultLosesNothing
  <1>1. ASSUME TelemetryInv PROVE OneFaultLosesNothing
    <2>1. /\ unwritten \in Nat /\ starts \in Nat /\ undelivered \in Nat /\ unseen \in Nat
          /\ unwritten + unseen \in Nat
          /\ IsFiniteSet(Processed) /\ Len(reports) \in Nat
          /\ Cardinality(Missing(Processed, files)) \in Nat
      BY <1>1, TelemetrySizes, TelemetryAssumption DEF TelemetryInv, TelemetryTypes
    <2>2. T!Lost \subseteq Missing(Processed, files)
      BY <1>1, LostIsMissing
    <2>3. CASE unwritten = 0 /\ unseen = 0
      <3>1. Cardinality(Missing(Processed, files)) <= (unwritten + unseen) * (1 + starts)
        BY <1>1, <2>1, LostWithinBound DEF TelemetryInv, TelemetryTypes, FilesInv
      <3>2. (unwritten + unseen) * (1 + starts) = 0
        <4>1. unwritten + unseen = 0
          BY <2>3
        <4> QED  BY <2>1, <4>1
      <3>3. Cardinality(Missing(Processed, files)) = 0
        BY <2>1, <3>1, <3>2
      <3>4. IsFiniteSet(Missing(Processed, files))
        <4>1. Missing(Processed, files) \subseteq Processed
          BY DEF Missing
        <4> QED  BY <2>1, <4>1, FS_Subset
      <3>5. Missing(Processed, files) = {}
        BY <3>3, <3>4, FS_EmptySet
      <3> QED  BY <2>2, <3>5 DEF OneFaultLosesNothing, T!OneFaultLosesNothing
    <2>4. CASE /\ unwritten + unseen + undelivered + starts <= 1
               /\ ~(unwritten = 0 /\ unseen = 0)
      <3>1. undelivered = 0 /\ starts = 0
        <4>1. starts = 0 => unseen = 0
          BY <1>1 DEF TelemetryInv, FilesInv
        <4> QED  BY <2>1, <2>4, <4>1
      <3>2. Processed \subseteq outgoing \cup delivered
        BY <1>1, <3>1 DEF TelemetryInv, FilesInv
      <3>3. Missing(Processed, files) \subseteq Processed
        BY DEF Missing
      <3> QED  BY <2>2, <3>2, <3>3 DEF OneFaultLosesNothing, T!OneFaultLosesNothing
    <2>5. CASE ~(unwritten + unseen + undelivered + starts <= 1)
      BY <2>5 DEF OneFaultLosesNothing, T!OneFaultLosesNothing
    <2> QED  BY <2>3, <2>4, <2>5
  <1> QED  BY <1>1, TelemetryInvHolds, PTL
=============================================================================
