------------------------- MODULE CFBasicHashProofs -------------------------
(***************************************************************************)
(* Theorems about the hash table for any number of keys and sizes and any  *)
(* probing orders that visit every bucket: every entry stays findable, the *)
(* counters are exact, a rehash has room for what it moves and adds, and   *)
(* the table implements KeyedBag.                                          *)
(***************************************************************************)
EXTENDS CFBasicHash, FiniteSetTheorems, WellFoundedInduction, TLAPS

Content == Key \cup {Empty, Deleted}

\* The arrays of a rehash are those of some table.
OldTable(t) ==
    [keys : [Buckets(t) -> Content], values : [Buckets(t) -> Value \cup {None}],
     counts : [Buckets(t) -> Nat], at : Int, add : (Key \X Value) \cup {None}]

Shape ==
    /\ bits \in [style : Style, counted : BOOLEAN, fast : BOOLEAN]
    /\ idx \in Index
    /\ keys \in [Buckets(idx) -> Content]
    /\ values \in [Buckets(idx) -> Value \cup {None}]
    /\ counts \in [Buckets(idx) -> Nat]
    /\ width \in Width /\ used \in Nat /\ deleted \in 0..DeletedMod - 1
    /\ \E t \in Index : rehash \in OldTable(t)

\* The counts of some buckets fit their width, and mark the entries of a bag.
CountsFit(bs, ks, cs) ==
    \A b \in bs : /\ cs[b] <= CountMax[width]
                  /\ cs[b] > 0 <=> (bits.counted /\ ks[b] \in Key)

Counted == /\ CountsFit(Buckets(idx), keys, counts)
           /\ CountsFit(DOMAIN rehash.keys, rehash.keys, rehash.counts)

\* The search for the key in bucket b of a table ends there.
Reached(t, ks, b) ==
    \E i \in Buckets(t) : /\ Path(t, ks[b])[i] = b
                          /\ StopsAt(t, ks, ks[b], {Empty, ks[b]}, i)

AllReached == \A b \in Occupied : Reached(idx, keys, b)

\* No key is in twice, counting what a rehash still has to move and to add,
\* and the table that a rehash fills has no tombstones.
Apart ==
    /\ Idle => rehash = NoRehash
    /\ ~Idle => rehash.at \in Nat /\ \A b \in Buckets(idx) : keys[b] # Deleted
    /\ \A b, c \in ToMove : rehash.keys[b] = rehash.keys[c] => b = c
    /\ \A b \in ToMove, c \in Occupied : rehash.keys[b] # keys[c]
    /\ rehash.add # None =>
          /\ \A b \in ToMove : rehash.keys[b] # rehash.add[1]
          /\ \A c \in Occupied : keys[c] # rehash.add[1]

Exact == /\ used = Cardinality(Occupied) + Cardinality(ToMove)
         /\ deleted = Cardinality(Tombstones)

Room == Capacities[idx] >= used + (IF rehash.add # None THEN 1 ELSE 0)

HashInv == Shape /\ Counted /\ AllReached /\ Apart /\ Exact /\ Room

-----------------------------------------------------------------------------
\* A set of naturals that is not empty has a least element.
LEMMA LeastElement ==
  ASSUME NEW S \in SUBSET Nat, S # {}
  PROVE  \E m \in S : \A x \in S : m <= x
<1> DEFINE R == OpToRel(<, Nat)
<1>1. IsWellFoundedOn(R, Nat)
  BY NatLessThanWellFounded
<1>2. \A x, y \in Nat : x < y => <<x, y>> \in R
  BY DEF OpToRel
<1> HIDE DEF R
<1>3. PICK m \in S : \A x \in S : ~(<<x, m>> \in R)
  BY <1>1, WFMin
<1>4. ASSUME NEW x \in S PROVE m <= x
  <2>1. x \in Nat /\ m \in Nat
    OBVIOUS
  <2>2. ~(x < m)
    BY <1>2, <1>3, <2>1
  <2> QED BY <2>1, <2>2
<1> QED BY <1>4

(***************************************************************************)
(* Probing                                                                 *)
(***************************************************************************)
\* A table's buckets, and a key's path through them.
LEMMA Paths ==
  ASSUME NEW t \in Index, bits.style \in Style, NEW k \in Key
  PROVE  /\ Path(t, k) \in [Buckets(t) -> Buckets(t)]
         /\ \A b \in Buckets(t) : \E i \in Buckets(t) : Path(t, k)[i] = b
  BY ProbeAssumption DEF Path

\* The buckets of a table, and its capacity.
LEMMA BucketsOf ==
  ASSUME NEW t \in Index
  PROVE  /\ Sizes[t] \in Nat /\ Capacities[t] \in Nat /\ Capacities[t] <= Sizes[t]
         /\ Buckets(t) \subseteq Nat /\ IsFiniteSet(Buckets(t))
         /\ Cardinality(Buckets(t)) = Sizes[t]
<1>1. Sizes[t] \in Nat /\ Capacities[t] \in Nat /\ Capacities[t] <= Sizes[t]
  BY TableAssumption
<1> DEFINE n == Sizes[t]
<1>2. n \in Nat
  BY <1>1
<1>3. Buckets(t) = 0..n - 1
  BY DEF Buckets
<1> HIDE DEF n
<1>4. IsFiniteSet(0..n - 1) /\ Cardinality(0..n - 1) = n
  BY <1>2, FS_Interval
<1>5. 0..n - 1 \subseteq Nat
  BY <1>2
<1> QED BY <1>1, <1>3, <1>4, <1>5 DEF n

\* There is only one place where a search stops.
LEMMA FirstIs ==
  ASSUME NEW t \in Index, NEW ks, NEW k, NEW S, NEW i \in Buckets(t),
         StopsAt(t, ks, k, S, i)
  PROVE  FirstOf(t, ks, k, S) = Path(t, k)[i]
<1>1. \A j \in Buckets(t) : StopsAt(t, ks, k, S, j) => j = i
  <2> SUFFICES ASSUME NEW j \in Buckets(t), StopsAt(t, ks, k, S, j) PROVE j = i
    OBVIOUS
  <2>1. ~(i < j) /\ ~(j < i)
    BY DEF StopsAt
  <2>2. i \in Nat /\ j \in Nat
    BY BucketsOf
  <2> QED BY <2>1, <2>2
<1>2. i = CHOOSE j \in Buckets(t) : StopsAt(t, ks, k, S, j)
  BY <1>1
<1> QED BY <1>2 DEF FirstOf

\* A search for what is in the table stops.
LEMMA FirstExists ==
  ASSUME NEW t \in Index, bits.style \in Style, NEW k \in Key, NEW ks, NEW S,
         NEW c \in Buckets(t), ks[c] \in S
  PROVE  \E i \in Buckets(t) : /\ StopsAt(t, ks, k, S, i)
                               /\ FirstOf(t, ks, k, S) = Path(t, k)[i]
                               /\ Path(t, k)[i] \in Buckets(t)
<1> DEFINE stops == {i \in Buckets(t) : ks[Path(t, k)[i]] \in S}
<1>1. stops \in SUBSET Nat /\ stops # {}
  BY Paths, BucketsOf
<1>2. PICK i \in stops : \A j \in stops : i <= j
  BY <1>1, LeastElement
<1>3. \A j \in Buckets(t) : j < i => j \notin stops
  BY <1>1, <1>2, BucketsOf
<1>4. i \in Buckets(t) /\ StopsAt(t, ks, k, S, i)
  BY <1>3 DEF StopsAt
<1> QED BY <1>4, FirstIs, Paths

\* A table with fewer entries than buckets has a bucket without one.
LEMMA FreeExists ==
  ASSUME Shape, Cardinality(Occupied) < Sizes[idx]
  PROVE  \E c \in Buckets(idx) : keys[c] \in {Empty, Deleted}
<1>1. Occupied # Buckets(idx)
  BY BucketsOf DEF Shape
<1> QED BY <1>1 DEF Occupied, Shape, Content

\* In a table whose entries are reached, a key is found where it is.
LEMMA Searched ==
  ASSUME Shape, AllReached
  PROVE  /\ \A b \in Occupied : Found(keys[b]) /\ BucketOf(keys[b]) = b
         /\ \A k \in Key : Found(k) => BucketOf(k) \in Occupied /\ keys[BucketOf(k)] = k
         /\ \A b, c \in Occupied : keys[b] = keys[c] => b = c
<1>1. \A b \in Occupied : Found(keys[b]) /\ BucketOf(keys[b]) = b
  <2> SUFFICES ASSUME NEW b \in Occupied
               PROVE  Found(keys[b]) /\ BucketOf(keys[b]) = b
    OBVIOUS
  <2>1. PICK i \in Buckets(idx) :
           Path(idx, keys[b])[i] = b /\ StopsAt(idx, keys, keys[b], {Empty, keys[b]}, i)
    BY DEF AllReached, Reached
  <2>2. idx \in Index
    BY DEF Shape
  <2> QED BY <2>1, <2>2, FirstIs DEF Found, BucketOf
<1>2. \A k \in Key : Found(k) => BucketOf(k) \in Occupied /\ keys[BucketOf(k)] = k
  <2> SUFFICES ASSUME NEW k \in Key, Found(k)
               PROVE  BucketOf(k) \in Occupied /\ keys[BucketOf(k)] = k
    OBVIOUS
  <2>1. PICK i \in Buckets(idx) :
           StopsAt(idx, keys, k, {Empty, k}, i) /\ keys[Path(idx, k)[i]] = k
    BY DEF Found
  <2>2. idx \in Index /\ bits.style \in Style
    BY DEF Shape
  <2>3. BucketOf(k) = Path(idx, k)[i]
    BY <2>1, <2>2, FirstIs DEF BucketOf
  <2>4. Path(idx, k)[i] \in Buckets(idx)
    BY <2>2, Paths
  <2> QED BY <2>1, <2>3, <2>4 DEF Occupied
<1>3. \A b, c \in Occupied : keys[b] = keys[c] => b = c
  BY <1>1
<1> QED BY <1>1, <1>2, <1>3

\* A free bucket on the path of a key that is not in may be filled with it.
LEMMA FillReached ==
  ASSUME Shape, AllReached, NEW k \in Key, \A b \in Occupied : keys[b] # k,
         NEW S \in SUBSET {Empty, Deleted}, Empty \in S,
         NEW i \in Buckets(idx), StopsAt(idx, keys, k, S, i),
         keys' = [keys EXCEPT ![Path(idx, k)[i]] = k], UNCHANGED <<bits, idx>>
  PROVE  AllReached'
<1> DEFINE f == Path(idx, k)[i]
<1>1. idx \in Index /\ bits.style \in Style /\ keys \in [Buckets(idx) -> Content]
  BY DEF Shape
<1>2. f \in Buckets(idx) /\ keys[f] \in S
  BY <1>1, Paths DEF StopsAt
<1>3. /\ keys'[f] = k
      /\ \A c \in Buckets(idx) : c # f => keys'[c] = keys[c]
  BY <1>1, <1>2
<1>4. \A j \in Buckets(idx) : j < i => Path(idx, k)[j] # f /\ keys[Path(idx, k)[j]] \notin S
  BY <1>2 DEF StopsAt
<1>5. SUFFICES ASSUME NEW b \in Occupied' PROVE Reached(idx, keys, b)'
  BY DEF AllReached
<1>6. b \in Buckets(idx) /\ keys'[b] \in Key
  BY DEF Occupied
<1>7. CASE b = f
  <2>1. \A j \in Buckets(idx) : j < i => keys'[Path(idx, k)[j]] \notin {Empty, k}
    <3> SUFFICES ASSUME NEW j \in Buckets(idx), j < i
                 PROVE  keys'[Path(idx, k)[j]] \notin {Empty, k}
      OBVIOUS
    <3> DEFINE c == Path(idx, k)[j]
    <3>1. c \in Buckets(idx)
      BY <1>1, Paths
    <3>2. keys'[c] = keys[c] /\ keys[c] # Empty
      BY <1>3, <1>4, <3>1
    <3>3. keys[c] # k
      BY <3>1 DEF Occupied
    <3> QED BY <3>2, <3>3
  <2>2. Path(idx, k)' = Path(idx, k)
    BY DEF Path
  <2> QED BY <1>3, <1>7, <2>1, <2>2 DEF Reached, StopsAt, Buckets
<1>8. CASE b # f
  <2>1. b \in Occupied /\ keys'[b] = keys[b] /\ keys[b] # k
    BY <1>3, <1>6, <1>8 DEF Occupied
  <2> DEFINE h == keys[b]
  <2>2. PICK l \in Buckets(idx) :
           Path(idx, h)[l] = b /\ StopsAt(idx, keys, h, {Empty, h}, l)
    BY <2>1 DEF AllReached, Reached
  <2>3. h \in Key /\ h # k
    BY <2>1 DEF Occupied
  <2>4. \A j \in Buckets(idx) : j < l => keys'[Path(idx, h)[j]] \notin {Empty, h}
    <3> SUFFICES ASSUME NEW j \in Buckets(idx), j < l
                 PROVE  keys'[Path(idx, h)[j]] \notin {Empty, h}
      OBVIOUS
    <3> DEFINE c == Path(idx, h)[j]
    <3>1. c \in Buckets(idx)
      BY <1>1, <2>3, Paths
    <3>2. keys[c] \notin {Empty, h}
      BY <2>2 DEF StopsAt
    <3>3. keys'[c] = k \/ keys'[c] = keys[c]
      BY <1>3, <3>1
    <3> HIDE DEF c, h
    <3> QED BY <2>3, <3>2, <3>3, NoneAssumption DEF c
  <2>5. Path(idx, h)' = Path(idx, h) /\ keys'[b] = h
    BY <2>1 DEF Path
  <2> HIDE DEF h
  <2> QED BY <2>2, <2>4, <2>5 DEF Reached, StopsAt, Buckets, Path
<1> QED BY <1>7, <1>8

\* A tombstone cuts no path.
LEMMA ClearReached ==
  ASSUME Shape, AllReached, NEW b \in Occupied,
         keys' = [keys EXCEPT ![b] = Deleted], UNCHANGED <<bits, idx>>
  PROVE  AllReached'
<1>1. idx \in Index /\ bits.style \in Style /\ keys \in [Buckets(idx) -> Content]
  BY DEF Shape
<1>2. /\ b \in Buckets(idx) /\ keys'[b] = Deleted
      /\ \A c \in Buckets(idx) : c # b => keys'[c] = keys[c]
  BY <1>1 DEF Occupied
<1>3. SUFFICES ASSUME NEW c \in Occupied' PROVE Reached(idx, keys, c)'
  BY DEF AllReached
<1>4. c \in Buckets(idx) /\ keys'[c] \in Key
  BY DEF Occupied
<1>5. c \in Occupied /\ keys'[c] = keys[c]
  BY <1>2, <1>4, NoneAssumption DEF Occupied
<1> DEFINE h == keys[c]
<1>6. PICK l \in Buckets(idx) :
         Path(idx, h)[l] = c /\ StopsAt(idx, keys, h, {Empty, h}, l)
  BY <1>5 DEF AllReached, Reached
<1>7. h \in Key
  BY <1>5 DEF Occupied
<1>8. \A j \in Buckets(idx) : j < l => keys'[Path(idx, h)[j]] \notin {Empty, h}
  <2> SUFFICES ASSUME NEW j \in Buckets(idx), j < l
               PROVE  keys'[Path(idx, h)[j]] \notin {Empty, h}
    OBVIOUS
  <2> DEFINE d == Path(idx, h)[j]
  <2>1. d \in Buckets(idx)
    BY <1>1, <1>7, Paths
  <2>2. keys[d] \notin {Empty, h}
    BY <1>6 DEF StopsAt
  <2>3. keys'[d] = Deleted \/ keys'[d] = keys[d]
    BY <1>2, <2>1
  <2> HIDE DEF d, h
  <2> QED BY <1>7, <2>2, <2>3, NoneAssumption DEF d
<1>9. Path(idx, h)' = Path(idx, h) /\ keys'[c] = h
  BY <1>5 DEF Path
<1> HIDE DEF h
<1> QED BY <1>6, <1>8, <1>9 DEF Reached, StopsAt, Buckets, Path

-----------------------------------------------------------------------------
(***************************************************************************)
(* Counting                                                                *)
(***************************************************************************)
\* The sets that are counted are finite.
LEMMA Finite ==
  ASSUME Shape
  PROVE  /\ IsFiniteSet(Occupied) /\ Cardinality(Occupied) \in Nat
         /\ IsFiniteSet(Tombstones) /\ Cardinality(Tombstones) \in Nat
         /\ IsFiniteSet(ToMove) /\ Cardinality(ToMove) \in Nat
<1>1. idx \in Index /\ Occupied \subseteq Buckets(idx) /\ Tombstones \subseteq Buckets(idx)
  BY DEF Shape, Occupied, Tombstones
<1>2. IsFiniteSet(Buckets(idx))
  BY <1>1, BucketsOf
<1>3. IsFiniteSet(Occupied) /\ IsFiniteSet(Tombstones)
  BY <1>1, <1>2, FS_Subset
<1>4. PICK t \in Index : rehash \in OldTable(t)
  BY DEF Shape
<1>5. ToMove \subseteq Buckets(t) /\ IsFiniteSet(Buckets(t))
  BY <1>4, BucketsOf DEF ToMove, OldTable
<1>6. IsFiniteSet(ToMove)
  BY <1>5, FS_Subset
<1> QED BY <1>3, <1>6, FS_CardinalityType

\* An entry more, and a tombstone less when it was put on one.
LEMMA FillCount ==
  ASSUME Shape, NEW b \in Buckets(idx), keys[b] \in {Empty, Deleted}, NEW k \in Key,
         keys' = [keys EXCEPT ![b] = k], UNCHANGED idx
  PROVE  /\ Occupied' = Occupied \cup {b} /\ b \notin Occupied
         /\ Cardinality(Occupied') = Cardinality(Occupied) + 1
         /\ Tombstones' = Tombstones \ {b}
         /\ Cardinality(Tombstones') = IF keys[b] = Deleted THEN Cardinality(Tombstones) - 1
                                       ELSE Cardinality(Tombstones)
<1>1. keys \in [Buckets(idx) -> Content]
  BY DEF Shape
<1>2. /\ keys'[b] = k /\ k \notin {Empty, Deleted}
      /\ \A c \in Buckets(idx) : c # b => keys'[c] = keys[c]
  BY <1>1, NoneAssumption
<1>3. Occupied' = Occupied \cup {b} /\ b \notin Occupied
  BY <1>2, NoneAssumption DEF Occupied, Buckets
<1>4. Tombstones' = Tombstones \ {b} /\ (b \in Tombstones <=> keys[b] = Deleted)
  BY <1>2 DEF Tombstones, Buckets
<1> QED BY <1>3, <1>4, Finite, FS_AddElement, FS_RemoveElement

\* An entry less, a tombstone more.
LEMMA ClearCount ==
  ASSUME Shape, NEW b \in Occupied, keys' = [keys EXCEPT ![b] = Deleted], UNCHANGED idx
  PROVE  /\ Occupied' = Occupied \ {b}
         /\ Cardinality(Occupied') = Cardinality(Occupied) - 1
         /\ Tombstones' = Tombstones \cup {b} /\ b \notin Tombstones
         /\ Cardinality(Tombstones') = Cardinality(Tombstones) + 1
<1>1. keys \in [Buckets(idx) -> Content]
  BY DEF Shape
<1>2. /\ keys'[b] = Deleted /\ b \in Buckets(idx) /\ keys[b] # Deleted
      /\ \A c \in Buckets(idx) : c # b => keys'[c] = keys[c]
  BY <1>1, NoneAssumption DEF Occupied
<1>3. Occupied' = Occupied \ {b}
  BY <1>2, NoneAssumption DEF Occupied, Buckets
<1>4. Tombstones' = Tombstones \cup {b} /\ b \notin Tombstones
  BY <1>2 DEF Tombstones, Buckets
<1> QED BY <1>3, <1>4, Finite, FS_AddElement, FS_RemoveElement

\* The index for a capacity that some table has is that of such a table.
LEMMA CapacityIndex ==
  ASSUME NEW c, Fits(c)
  PROVE  IndexForCapacity(c) \in Index /\ c <= Capacities[IndexForCapacity(c)]
<1> DEFINE large == {t \in Index : c <= Capacities[t]}
<1>1. large \in SUBSET Nat
  <2>1. Index \subseteq Nat
    BY TableAssumption DEF Index
  <2> QED BY <2>1
<1>2. large # {}
  BY DEF Fits
<1>3. PICK least \in large : \A u \in large : least <= u
  BY <1>1, <1>2, LeastElement
<1>4. \E t \in Index : /\ c <= Capacities[t]
                       /\ \A u \in Index : c <= Capacities[u] => t <= u
  BY <1>3
<1> QED BY <1>4 DEF IndexForCapacity

\* A new table holds u entries and n more.
LEMMA NewRoom ==
  ASSUME NEW u \in Nat, NEW n \in Int, Fits(u + n), NewIndex(u, n) \in Index,
         idx \in Index, u <= Capacities[idx]
  PROVE  u <= Capacities[NewIndex(u, n)] /\ u + n <= Capacities[NewIndex(u, n)]
<1>1. Fits(u)
  BY DEF Fits
<1>2. CASE n = 0
  BY <1>2 DEF NewIndex
<1>3. CASE n < 0
  <2>1. NewIndex(u, n) = IndexForCapacity(u)
    BY <1>3 DEF NewIndex
  <2>2. u <= Capacities[IndexForCapacity(u)] /\ IndexForCapacity(u) \in Index
    BY <1>1, CapacityIndex
  <2> QED BY <1>3, <2>1, <2>2, BucketsOf
<1>4. CASE n = 1 /\ bits.fast
  <2> DEFINE t == IndexForCapacity(u + 1)
  <2>1. NewIndex(u, n) = t + 1
    BY <1>4 DEF NewIndex
  <2>2. t \in Index /\ u + 1 <= Capacities[t]
    BY <1>4, CapacityIndex
  <2> HIDE DEF t
  <2>3. Capacities[t] <= Capacities[t + 1] /\ Capacities[t] \in Nat /\ Capacities[t + 1] \in Nat
    BY <2>1, <2>2, TableAssumption DEF Index
  <2> QED BY <1>4, <2>1, <2>2, <2>3
<1>5. CASE n > 1 \/ (n = 1 /\ ~bits.fast)
  <2>1. NewIndex(u, n) = IndexForCapacity(u + n)
    BY <1>5 DEF NewIndex
  <2>2. u + n <= Capacities[IndexForCapacity(u + n)] /\ IndexForCapacity(u + n) \in Index
    BY CapacityIndex
  <2> QED BY <1>5, <2>1, <2>2, BucketsOf
<1> QED BY <1>2, <1>3, <1>4, <1>5

-----------------------------------------------------------------------------
(***************************************************************************)
(* The invariant                                                           *)
(***************************************************************************)
\* The widths of a bag's counts.
LEMMA Widths ==
  /\ \A w \in Width : CountMax[w] \in Nat \ {0}
  /\ Width = 0..Cardinality(Width) - 1 /\ Cardinality(Width) \in Nat \ {0}
<1>1. \A w \in Width : CountMax[w] \in Nat \ {0}
  BY CountAssumption
<1>2. Cardinality(Width) \in Nat /\ (Cardinality(Width) = 0 <=> Width = {})
  BY CountAssumption, FS_CardinalityType, FS_EmptySet
<1> QED BY <1>1, <1>2, CountAssumption

\* The old arrays of a table that is not rehashed.
LEMMA NothingOld ==
  /\ Buckets(0) = {} /\ 0 \in Index
  /\ NoRehash \in OldTable(0) /\ DOMAIN NoRehash.keys = {}
  /\ NoRehash.at = -1 /\ NoRehash.add = None
<1>1. Buckets(0) = {} /\ 0 \in Index
  BY TableAssumption DEF Buckets, Index
<1>2. /\ <<>> \in [Buckets(0) -> Content] /\ <<>> \in [Buckets(0) -> Nat]
      /\ <<>> \in [Buckets(0) -> Value \cup {None}]
  BY <1>1
<1>3. NoRehash \in OldTable(0)
  <2> DEFINE e == <<>>
  <2>1. NoRehash = [keys |-> e, values |-> e, counts |-> e, at |-> -1, add |-> None]
    BY DEF NoRehash
  <2>2. -1 \in Int /\ None \in (Key \X Value) \cup {None}
    OBVIOUS
  <2>3. /\ e \in [Buckets(0) -> Content] /\ e \in [Buckets(0) -> Nat]
        /\ e \in [Buckets(0) -> Value \cup {None}]
    BY <1>2
  <2> HIDE DEF e
  <2> QED BY <2>1, <2>2, <2>3 DEF OldTable
<1> QED BY <1>1, <1>3 DEF NoRehash

\* A table that is not rehashed: nothing is left to move.
LEMMA IdleIs ==
  ASSUME HashInv, Idle
  PROVE  /\ rehash = NoRehash /\ ToMove = {} /\ Cardinality(ToMove) = 0
         /\ used = Cardinality(Occupied) /\ used <= Capacities[idx]
         /\ Capacities[idx] \in Nat /\ rehash.add = None /\ used \in Nat
<1>1. rehash = NoRehash /\ rehash.add = None
  BY NothingOld DEF HashInv, Apart
<1>2. ToMove = {} /\ Cardinality(ToMove) = 0
  BY <1>1, NothingOld, FS_EmptySet DEF ToMove
<1>3. used = Cardinality(Occupied) /\ used \in Nat
  BY <1>2, Finite DEF HashInv, Exact
<1>4. Capacities[idx] \in Nat /\ used <= Capacities[idx]
  BY <1>1, <1>3, BucketsOf DEF HashInv, Shape, Room
<1> QED BY <1>1, <1>2, <1>3, <1>4

\* A new table satisfies the invariant.
LEMMA InitInv == Init => HashInv
<1> SUFFICES ASSUME Init PROVE HashInv
  OBVIOUS
<1> USE DEF Init
<1>1. Buckets(idx) = {} /\ idx \in Index /\ rehash \in OldTable(0)
  BY NothingOld
<1>2. Occupied = {} /\ Tombstones = {} /\ ToMove = {}
  BY <1>1, NothingOld DEF Occupied, Tombstones, ToMove
<1>3. Shape
  <2>1. width \in Width
    BY Widths
  <2>2. used \in Nat /\ deleted \in 0..DeletedMod - 1
    BY BoundAssumption
  <2>3. /\ keys \in [Buckets(idx) -> Content] /\ counts \in [Buckets(idx) -> Nat]
        /\ values \in [Buckets(idx) -> Value \cup {None}]
    BY DEF Blank, Content
  <2>4. 0 \in Index
    BY NothingOld
  <2> QED BY <1>1, <2>1, <2>2, <2>3, <2>4 DEF Shape
<1>4. Counted
  BY <1>1, NothingOld DEF Counted, CountsFit
<1>5. AllReached /\ Apart
  BY <1>1, <1>2, NothingOld DEF AllReached, Apart, Idle
<1>6. Exact
  BY <1>2, FS_EmptySet DEF Exact
<1>7. Room
  BY <1>1, NothingOld, BucketsOf DEF Room
<1> QED BY <1>3, <1>4, <1>5, <1>6, <1>7 DEF HashInv

\* A rehash that begins.
LEMMA RehashKeeps ==
  ASSUME HashInv, NEW ks \in [Buckets(idx) -> Content],
         NEW vs \in [Buckets(idx) -> Value \cup {None}],
         NEW cs \in [Buckets(idx) -> Nat], NEW u \in Nat, NEW n \in Int,
         NEW add \in (Key \X Value) \cup {None},
         Rehash(ks, vs, cs, u, n, add), UNCHANGED <<bits, width>>,
         CountsFit(Buckets(idx), ks, cs), u <= Capacities[idx],
         u = Cardinality({b \in Buckets(idx) : ks[b] \in Key}),
         \A b, c \in Buckets(idx) : ks[b] \in Key /\ ks[b] = ks[c] => b = c,
         add # None => n = 1 /\ \A b \in Buckets(idx) : ks[b] # add[1]
  PROVE  HashInv'
<1>1. /\ idx' = NewIndex(u, n) /\ idx' \in Index /\ Fits(u + n)
      /\ keys' = Blank(idx', Empty) /\ values' = Blank(idx', None)
      /\ counts' = Blank(idx', 0) /\ used' = u /\ deleted' = 0
  BY DEF Rehash
<1>2. /\ rehash' = [keys |-> ks, values |-> vs, counts |-> cs, at |-> 0, add |-> add]
      /\ rehash'.keys = ks /\ rehash'.counts = cs /\ rehash'.at = 0 /\ rehash'.add = add
  BY DEF Rehash
<1>3. rehash' \in OldTable(idx) /\ DOMAIN rehash'.keys = Buckets(idx)
  BY <1>2 DEF OldTable
<1>4. idx \in Index /\ bits' = bits /\ width' = width /\ width \in Width
  BY DEF HashInv, Shape
<1>5. Shape'
  <2>1. /\ keys' \in [Buckets(idx') -> Content] /\ counts' \in [Buckets(idx') -> Nat]
        /\ values' \in [Buckets(idx') -> Value \cup {None}]
    BY <1>1 DEF Blank, Content
  <2>2. used' \in Nat /\ deleted' \in 0..DeletedMod - 1
    BY <1>1, BoundAssumption
  <2>3. \E t \in Index : rehash' \in OldTable(t)
    BY <1>3, <1>4
  <2> QED BY <1>1, <1>4, <2>1, <2>2, <2>3 DEF HashInv, Shape, OldTable, Buckets
<1>6. \A b \in Buckets(idx') : keys'[b] = Empty /\ counts'[b] = 0
  BY <1>1 DEF Blank
<1>7. /\ Occupied' = {} /\ Tombstones' = {}
      /\ ToMove' = {b \in Buckets(idx) : ks[b] \in Key}
  <2>1. Occupied' = {} /\ Tombstones' = {}
    BY <1>6, NoneAssumption DEF Occupied, Tombstones, Buckets
  <2>2. \A b \in Buckets(idx) : b >= 0
    BY <1>4, BucketsOf
  <2> QED BY <1>2, <1>3, <2>1, <2>2 DEF ToMove
<1>8. Counted'
  <2>1. CountsFit(Buckets(idx), keys, counts)'
    BY <1>4, <1>6, Widths, NoneAssumption DEF CountsFit, Buckets
  <2>2. CountsFit(DOMAIN rehash.keys, rehash.keys, rehash.counts)'
    BY <1>2, <1>3, <1>4 DEF CountsFit
  <2> QED BY <2>1, <2>2 DEF Counted
<1>9. AllReached'
  BY <1>7 DEF AllReached
<1>10. Apart'
  BY <1>2, <1>6, <1>7, NoneAssumption DEF Apart, Idle, Buckets
<1>11. Exact'
  BY <1>1, <1>7, FS_EmptySet DEF Exact
<1>12. Room'
  <2>1. u <= Capacities[NewIndex(u, n)] /\ u + n <= Capacities[NewIndex(u, n)]
    BY <1>1, <1>4, NewRoom
  <2> QED BY <1>1, <1>2, <2>1, BucketsOf DEF Room
<1> QED BY <1>5, <1>8, <1>9, <1>10, <1>11, <1>12 DEF HashInv

\* A search for a free bucket ends at one.
LEMMA Placed ==
  ASSUME Shape, NEW k \in Key, NEW S, NEW c \in Buckets(idx), keys[c] \in S
  PROVE  \E i \in Buckets(idx) : /\ StopsAt(idx, keys, k, S, i)
                                 /\ FirstOf(idx, keys, k, S) = Path(idx, k)[i]
                                 /\ Path(idx, k)[i] \in Buckets(idx)
                                 /\ keys[Path(idx, k)[i]] \in S
<1>1. idx \in Index /\ bits.style \in Style
  BY DEF Shape
<1> QED BY <1>1, FirstExists DEF StopsAt

\* One bucket of the old table is moved, to a free bucket on its key's path.
LEMMA MoveEffect ==
  ASSUME HashInv, MoveBucket
  PROVE  /\ rehash.at \in Nat /\ ~Idle /\ ~Idle'
         /\ UNCHANGED <<bits, idx, width, used, deleted>>
         /\ rehash'.keys = rehash.keys /\ rehash'.values = rehash.values
         /\ rehash'.counts = rehash.counts
         /\ rehash'.add = rehash.add /\ rehash'.at = rehash.at + 1
         /\ \E t \in Index : /\ rehash \in OldTable(t) /\ rehash' \in OldTable(t)
                             /\ rehash.at \in Buckets(t)
         /\ ToMove' = ToMove \ {rehash.at}
         /\ rehash.keys[rehash.at] \in Key =>
              /\ rehash.at \in ToMove
              /\ Cardinality(ToMove') = Cardinality(ToMove) - 1
              /\ \E i \in Buckets(idx), b \in Buckets(idx) :
                   /\ StopsAt(idx, keys, rehash.keys[rehash.at], {Empty}, i)
                   /\ b = Path(idx, rehash.keys[rehash.at])[i] /\ keys[b] = Empty
                   /\ keys' = [keys EXCEPT ![b] = rehash.keys[rehash.at]]
                   /\ values' = [values EXCEPT ![b] = rehash.values[rehash.at]]
                   /\ counts' = [counts EXCEPT ![b] = rehash.counts[rehash.at]]
         /\ rehash.keys[rehash.at] \notin Key => UNCHANGED <<keys, values, counts>>
<1> USE DEF HashInv
<1>1. PICK t \in Index : rehash \in OldTable(t)
  BY DEF Shape
<1> DEFINE at == rehash.at
           k == rehash.keys[at]
           b == NoCollision(k)
<1>2. /\ DOMAIN rehash.keys = Buckets(t) /\ at \in Buckets(t) /\ ~Idle
      /\ at \in Nat /\ Buckets(t) \subseteq Nat
  <2>1. DOMAIN rehash.keys = Buckets(t) /\ at \in Buckets(t)
    BY <1>1 DEF MoveBucket, OldTable
  <2>2. ~Idle
    BY <2>1, NothingOld DEF Apart
  <2> QED BY <2>1, <2>2, BucketsOf DEF Apart
<1>3. /\ rehash' \in OldTable(t)
      /\ rehash'.keys = rehash.keys /\ rehash'.values = rehash.values
      /\ rehash'.counts = rehash.counts
      /\ rehash'.add = rehash.add /\ rehash'.at = at + 1
  <2>1. rehash' = [rehash EXCEPT !.at = at + 1]
    BY DEF MoveBucket
  <2> HIDE DEF at
  <2> QED BY <1>1, <1>2, <2>1 DEF OldTable
<1>4. UNCHANGED <<bits, idx, width, used, deleted>>
  BY DEF MoveBucket
<1>5. ToMove' = ToMove \ {at} /\ ~Idle'
  <2>1. \A c \in Buckets(t) : c >= at + 1 <=> c >= at /\ c # at
    BY <1>2
  <2> QED BY <1>2, <1>3, <2>1 DEF ToMove, Idle
<1>6. ASSUME k \in Key
      PROVE  /\ at \in ToMove /\ Cardinality(ToMove') = Cardinality(ToMove) - 1
             /\ \E i \in Buckets(idx), c \in Buckets(idx) :
                  /\ StopsAt(idx, keys, k, {Empty}, i)
                  /\ c = Path(idx, k)[i] /\ keys[c] = Empty
                  /\ keys' = [keys EXCEPT ![c] = k]
                  /\ values' = [values EXCEPT ![c] = rehash.values[at]]
                  /\ counts' = [counts EXCEPT ![c] = rehash.counts[at]]
  <2>1. at \in ToMove
    BY <1>2, <1>6 DEF ToMove
  <2>2. Cardinality(ToMove') = Cardinality(ToMove) - 1 /\ Cardinality(ToMove) >= 1
    <3>1. Cardinality(ToMove) # 0
      BY <2>1, Finite, FS_EmptySet
    <3> HIDE DEF at
    <3>2. Cardinality(ToMove \ {at}) = Cardinality(ToMove) - 1
      BY <2>1, Finite, FS_RemoveElement
    <3> QED BY <1>5, <3>1, <3>2, Finite
  <2>3. Cardinality(Occupied) < Sizes[idx]
    <3>1. Capacities[idx] \in Nat /\ Capacities[idx] <= Sizes[idx] /\ Sizes[idx] \in Nat
      BY BucketsOf DEF Shape
    <3>2. used <= Capacities[idx] /\ used \in Nat
      BY <3>1 DEF Room, Shape
    <3> QED BY <2>2, <3>1, <3>2, Finite DEF Exact
  <2>4. PICK c \in Buckets(idx) : keys[c] \in {Empty}
    BY <1>2, <2>3, FreeExists DEF Apart
  <2>5. PICK i \in Buckets(idx) :
           /\ StopsAt(idx, keys, k, {Empty}, i) /\ b = Path(idx, k)[i]
           /\ b \in Buckets(idx) /\ keys[b] \in {Empty}
    BY <1>6, <2>4, Placed DEF NoCollision
  <2>6. /\ keys' = [keys EXCEPT ![b] = k]
        /\ values' = [values EXCEPT ![b] = rehash.values[at]]
        /\ counts' = [counts EXCEPT ![b] = rehash.counts[at]]
    BY <1>6 DEF MoveBucket
  <2> HIDE DEF k, b
  <2>7. keys[b] = Empty
    BY <2>5
  <2> QED BY <2>1, <2>2, <2>5, <2>6, <2>7
<1>7. k \notin Key => UNCHANGED <<keys, values, counts>>
  BY DEF MoveBucket
<1> QED BY <1>1, <1>2, <1>3, <1>4, <1>5, <1>6, <1>7

\* A step of a rehash: the new table gains an entry, reached at its first
\* empty bucket, and the old arrays have one less to move.
LEMMA MoveKeeps ==
  ASSUME HashInv, MoveBucket
  PROVE  HashInv'
<1> USE DEF HashInv
<1> DEFINE at == rehash.at
           k == rehash.keys[at]
<1>1. PICK t \in Index : rehash \in OldTable(t) /\ rehash' \in OldTable(t) /\ at \in Buckets(t)
  BY MoveEffect
<1>2. /\ at \in Nat /\ ~Idle /\ at \in DOMAIN rehash.keys
      /\ rehash.values[at] \in Value \cup {None} /\ rehash.counts[at] \in Nat
  BY <1>1, MoveEffect DEF OldTable
<1>3. /\ rehash'.keys = rehash.keys /\ rehash'.values = rehash.values
      /\ rehash'.counts = rehash.counts
      /\ rehash'.add = rehash.add /\ rehash'.at = at + 1
  BY MoveEffect
<1>4. UNCHANGED <<bits, idx, width, used, deleted>>
  BY DEF MoveBucket
<1>5. ToMove' = ToMove \ {at} /\ ~Idle'
  BY MoveEffect
<1>6. CountsFit(DOMAIN rehash.keys, rehash.keys, rehash.counts)'
  BY <1>3, <1>4 DEF Counted, CountsFit
<1>7. CASE k \notin Key
  <2>1. UNCHANGED <<keys, values, counts>>
    BY <1>7 DEF MoveBucket
  <2>2. ToMove' = ToMove
    BY <1>5, <1>7 DEF ToMove
  <2>3. Occupied' = Occupied /\ Tombstones' = Tombstones
    BY <1>4, <2>1 DEF Occupied, Tombstones, Buckets
  <2>4. Shape'
    BY <1>1, <1>4, <2>1 DEF Shape, OldTable, Buckets
  <2>5. Counted'
    BY <1>4, <1>6, <2>1 DEF Counted, CountsFit, Buckets
  <2>6. AllReached'
    BY <1>4, <2>1, <2>3 DEF AllReached, Reached, StopsAt, Path, Buckets
  <2>7. Apart'
    BY <1>2, <1>3, <1>4, <1>5, <2>1, <2>2, <2>3 DEF Apart, Buckets
  <2>8. Exact' /\ Room'
    BY <1>3, <1>4, <2>2, <2>3 DEF Exact, Room
  <2> QED BY <2>4, <2>5, <2>6, <2>7, <2>8
<1>8. CASE k \in Key
  <2>1. at \in ToMove
    BY <1>8, MoveEffect
  <2>2. Cardinality(ToMove') = Cardinality(ToMove) - 1
    BY <1>8, MoveEffect
  <2>3. PICK i \in Buckets(idx), b \in Buckets(idx) :
           /\ StopsAt(idx, keys, k, {Empty}, i)
           /\ b = Path(idx, k)[i] /\ keys[b] = Empty
           /\ keys' = [keys EXCEPT ![b] = k]
           /\ values' = [values EXCEPT ![b] = rehash.values[at]]
           /\ counts' = [counts EXCEPT ![b] = rehash.counts[at]]
    BY <1>8, MoveEffect
  <2>5. keys[b] \in {Empty} /\ keys[b] \in {Empty, Deleted}
    BY <2>3
  <2>6. /\ keys' = [keys EXCEPT ![b] = k]
        /\ values' = [values EXCEPT ![b] = rehash.values[at]]
        /\ counts' = [counts EXCEPT ![b] = rehash.counts[at]]
    BY <2>3
  <2>7. \A o \in Occupied : keys[o] # k
    BY <2>1 DEF Apart
  <2>8. AllReached'
    <3> HIDE DEF k
    <3> QED BY <1>4, <1>8, <2>3, <2>5, <2>6, <2>7, FillReached
  <2>9. /\ Occupied' = Occupied \cup {b}
        /\ Cardinality(Occupied') = Cardinality(Occupied) + 1
        /\ Cardinality(Tombstones') = Cardinality(Tombstones)
    <3> HIDE DEF k
    <3> QED BY <1>4, <1>8, <2>5, <2>6, FillCount, NoneAssumption
  <2>10. /\ rehash.values[at] \in Value \cup {None} /\ rehash.counts[at] \in Nat
         /\ rehash.counts[at] <= CountMax[width]
         /\ rehash.counts[at] > 0 <=> (bits.counted /\ k \in Key)
    BY <1>1, <1>2 DEF OldTable, Counted, CountsFit
  <2>11. /\ keys \in [Buckets(idx) -> Content] /\ counts \in [Buckets(idx) -> Nat]
         /\ values \in [Buckets(idx) -> Value \cup {None}] /\ k \in Content
    BY <1>8 DEF Shape, Content
  <2> HIDE DEF k
  <2>12. Shape'
    <3>1. /\ keys' \in [Buckets(idx) -> Content] /\ counts' \in [Buckets(idx) -> Nat]
          /\ values' \in [Buckets(idx) -> Value \cup {None}]
      BY <2>6, <2>10, <2>11
    <3> QED BY <1>1, <1>4, <3>1 DEF Shape, OldTable, Buckets
  <2>13. /\ keys'[b] = k /\ counts'[b] = rehash.counts[at]
         /\ \A c1 \in Buckets(idx) : c1 # b => keys'[c1] = keys[c1] /\ counts'[c1] = counts[c1]
    BY <2>5, <2>6, <2>11
  <2>14. Counted'
    <3>1. CountsFit(Buckets(idx), keys, counts)'
      BY <1>4, <2>10, <2>13 DEF Counted, CountsFit, Buckets
    <3> QED BY <1>6, <3>1 DEF Counted
  <2>15. Apart'
    <3>1. \A c1 \in Buckets(idx) : keys'[c1] # Deleted
      BY <1>2, <1>8, <2>13, NoneAssumption DEF Apart
    <3>2. \A o \in Occupied' : keys'[o] = k \/ (o \in Occupied /\ keys'[o] = keys[o])
      BY <2>9, <2>13 DEF Occupied
    <3>3. \A m \in ToMove' : rehash.keys[m] # k /\ m \in ToMove
      BY <1>5, <2>1 DEF Apart, k
    <3>4. rehash.add # None => k # rehash.add[1]
      BY <2>1 DEF Apart, k
    <3>5. rehash'.at \in Nat
      BY <1>2, <1>3
    <3>6. \A m, n \in ToMove' : rehash'.keys[m] = rehash'.keys[n] => m = n
      BY <1>3, <3>3 DEF Apart
    <3>7. \A m \in ToMove', o \in Occupied' : rehash'.keys[m] # keys'[o]
      BY <1>3, <3>2, <3>3 DEF Apart
    <3>8. rehash'.add # None => /\ \A m \in ToMove' : rehash'.keys[m] # rehash'.add[1]
                                /\ \A o \in Occupied' : keys'[o] # rehash'.add[1]
      BY <1>3, <3>2, <3>3, <3>4 DEF Apart
    <3> QED BY <1>4, <1>5, <3>1, <3>5, <3>6, <3>7, <3>8 DEF Apart, Buckets
  <2>16. Exact' /\ Room'
    BY <1>3, <1>4, <2>2, <2>9, Finite DEF Exact, Room
  <2> QED BY <2>8, <2>12, <2>14, <2>15, <2>16
<1> QED BY <1>7, <1>8

\* A key that is not in goes to the bucket b of its path, in a table that is
\* not or no longer rehashed.
Placing(k, v, S, i, b) ==
    /\ S \in SUBSET {Empty, Deleted} /\ Empty \in S /\ StopsAt(idx, keys, k, S, i)
    /\ b = Path(idx, k)[i] /\ keys[b] \in S /\ \A o \in Occupied : keys[o] # k
    /\ ToMove = {} /\ used + 1 <= Capacities[idx]
    /\ Fill(b, k, v) /\ rehash' = NoRehash /\ UNCHANGED <<bits, idx, width>>
    /\ deleted' = IF keys[b] = Deleted THEN deleted - 1 ELSE deleted

\* A new key in a free bucket is reached there and cuts no path.
LEMMA FillKeeps ==
  ASSUME HashInv, NEW k \in Key, NEW v \in Value, NEW S,
         NEW i \in Buckets(idx), NEW b \in Buckets(idx), Placing(k, v, S, i, b)
  PROVE  HashInv'
<1> USE DEF HashInv, Placing
<1>1. /\ keys' = [keys EXCEPT ![b] = k] /\ values' = [values EXCEPT ![b] = v]
      /\ counts' = [counts EXCEPT ![b] = IF bits.counted THEN counts[b] + 1 ELSE counts[b]]
      /\ used' = used + 1
  BY DEF Fill
<1>2. AllReached'
  BY <1>1, FillReached
<1>3. /\ Occupied' = Occupied \cup {b}
      /\ Cardinality(Occupied') = Cardinality(Occupied) + 1
      /\ Cardinality(Tombstones') = IF keys[b] = Deleted THEN Cardinality(Tombstones) - 1
                                    ELSE Cardinality(Tombstones)
  BY <1>1, FillCount
<1>4. /\ keys \in [Buckets(idx) -> Content] /\ counts \in [Buckets(idx) -> Nat]
      /\ values \in [Buckets(idx) -> Value \cup {None}] /\ k \in Content
      /\ used \in Nat /\ deleted \in 0..DeletedMod - 1 /\ width \in Width
  BY DEF Shape, Content
<1>5. deleted' \in 0..DeletedMod - 1
  <2>1. Cardinality(Tombstones') \in Nat
    <3>1. Tombstones' \subseteq Buckets(idx) /\ IsFiniteSet(Buckets(idx))
      BY BucketsOf DEF Tombstones, Shape, Buckets
    <3>2. IsFiniteSet(Tombstones')
      BY <3>1, FS_Subset
    <3> QED BY <3>2, FS_CardinalityType
  <2> QED BY <1>3, <1>4, <2>1, BoundAssumption DEF Exact
<1>6. ToMove' = {} /\ DOMAIN rehash'.keys = {} /\ rehash'.add = None /\ Idle'
  BY NothingOld DEF ToMove, Idle
<1>7. Shape'
  <2>1. /\ keys' \in [Buckets(idx) -> Content] /\ counts' \in [Buckets(idx) -> Nat]
        /\ values' \in [Buckets(idx) -> Value \cup {None}]
    BY <1>1, <1>4
  <2>2. \E t \in Index : rehash' \in OldTable(t)
    BY NothingOld
  <2>3. used' \in Nat
    BY <1>1, <1>4
  <2> QED BY <1>5, <2>1, <2>2, <2>3 DEF Shape, OldTable, Buckets
<1>8. Counted'
  <2>1. counts[b] = 0 /\ keys[b] \notin Key
    BY <1>4, NoneAssumption DEF Counted, CountsFit
  <2>2. /\ keys'[b] = k /\ counts'[b] = IF bits.counted THEN 1 ELSE 0
        /\ \A c \in Buckets(idx) : c # b => keys'[c] = keys[c] /\ counts'[c] = counts[c]
    BY <1>1, <1>4, <2>1
  <2>3. CountMax[width] \in Nat \ {0}
    BY <1>4, Widths
  <2>4. CountsFit(Buckets(idx), keys, counts)'
    BY <2>2, <2>3 DEF Counted, CountsFit, Buckets
  <2>5. CountsFit(DOMAIN rehash.keys, rehash.keys, rehash.counts)'
    BY <1>6 DEF CountsFit
  <2> QED BY <2>4, <2>5 DEF Counted
<1>9. Apart'
  BY <1>6 DEF Apart
<1>10. Exact'
  <2>1. Cardinality(ToMove) = 0 /\ Cardinality(ToMove') = 0
    BY <1>6, FS_EmptySet
  <2>2. Cardinality(Occupied) \in Nat
    BY Finite
  <2>3. used = Cardinality(Occupied) /\ deleted = Cardinality(Tombstones)
    BY <2>1, <2>2 DEF Exact
  <2>4. used' = Cardinality(Occupied') + Cardinality(ToMove')
    BY <1>1, <1>3, <2>1, <2>2, <2>3
  <2>5. deleted' = Cardinality(Tombstones')
    BY <1>3, <2>3
  <2> QED BY <2>4, <2>5 DEF Exact
<1>11. Room'
  BY <1>1, <1>4, <1>6 DEF Room
<1> QED BY <1>2, <1>7, <1>8, <1>9, <1>10, <1>11

\* The rehash is over.
LEMMA FinishEffect ==
  ASSUME HashInv, FinishRehash
  PROVE  /\ ToMove = {} /\ rehash' = NoRehash /\ UNCHANGED <<bits, idx, width, deleted>>
         /\ rehash.add # None =>
               \E k \in Key, v \in Value, i \in Buckets(idx), b \in Buckets(idx) :
                  Placing(k, v, {Empty}, i, b)
         /\ rehash.add = None => UNCHANGED <<keys, values, counts, used>>
<1> USE DEF HashInv
<1>1. PICK t \in Index : rehash \in OldTable(t)
  BY DEF Shape
<1>2. /\ ~Idle /\ rehash' = NoRehash /\ UNCHANGED <<bits, idx, width, deleted>>
      /\ rehash.at \notin DOMAIN rehash.keys
  BY DEF FinishRehash
<1>3. ToMove = {}
  <2>1. DOMAIN rehash.keys = 0..Sizes[t] - 1 /\ Sizes[t] \in Nat /\ rehash.at \in Nat
    BY <1>1, <1>2, BucketsOf DEF OldTable, Apart, Buckets
  <2>2. \A c \in DOMAIN rehash.keys : c < rehash.at
    BY <1>2, <2>1
  <2>3. \A c \in DOMAIN rehash.keys : ~(c >= rehash.at)
    BY <2>1, <2>2
  <2> QED BY <2>3 DEF ToMove
<1>4. used = Cardinality(Occupied) /\ used \in Nat
  <2>1. Cardinality(ToMove) = 0 /\ Cardinality(Occupied) \in Nat
    BY <1>3, Finite, FS_EmptySet
  <2> QED BY <2>1 DEF Exact
<1>5. ASSUME rehash.add # None
      PROVE  \E k \in Key, v \in Value, i \in Buckets(idx), b \in Buckets(idx) :
                Placing(k, v, {Empty}, i, b)
  <2> DEFINE k == rehash.add[1]
             v == rehash.add[2]
             b == NoCollision(k)
  <2>1. k \in Key /\ v \in Value
    BY <1>1, <1>5 DEF OldTable
  <2>2. /\ used + 1 <= Capacities[idx] /\ Capacities[idx] <= Sizes[idx]
        /\ Capacities[idx] \in Nat /\ Sizes[idx] \in Nat
    BY <1>4, <1>5, BucketsOf DEF Room, Shape
  <2>3. PICK c \in Buckets(idx) : keys[c] \in {Empty, Deleted}
    BY <1>4, <2>2, FreeExists
  <2>4. keys[c] \in {Empty}
    BY <1>2, <2>3 DEF Apart
  <2>5. PICK i \in Buckets(idx) :
           /\ StopsAt(idx, keys, k, {Empty}, i) /\ b = Path(idx, k)[i]
           /\ b \in Buckets(idx) /\ keys[b] \in {Empty}
    BY <2>1, <2>4, Placed DEF NoCollision
  <2>6. \A o \in Occupied : keys[o] # k
    BY <1>5 DEF Apart
  <2>7. Fill(b, k, v)
    BY <1>5 DEF FinishRehash
  <2>8. keys[b] # Deleted
    BY <2>5, NoneAssumption
  <2> HIDE DEF k, v, b
  <2>9. Placing(k, v, {Empty}, i, b)
    BY <1>2, <1>3, <2>2, <2>5, <2>6, <2>7, <2>8 DEF Placing
  <2> QED BY <2>1, <2>5, <2>9
<1>6. rehash.add = None => UNCHANGED <<keys, values, counts, used>>
  BY DEF FinishRehash
<1> QED BY <1>2, <1>3, <1>5, <1>6

\* The end of a rehash, with and without a key to add.
LEMMA FinishKeeps ==
  ASSUME HashInv, FinishRehash
  PROVE  HashInv'
<1> USE DEF HashInv
<1>1. /\ ToMove = {} /\ rehash' = NoRehash /\ UNCHANGED <<bits, idx, width, deleted>>
  BY FinishEffect
<1>2. CASE rehash.add # None
  BY <1>2, FinishEffect, FillKeeps
<1>3. CASE rehash.add = None
  <2>1. UNCHANGED <<keys, values, counts, used>>
    BY <1>3, FinishEffect
  <2>2. ToMove' = {} /\ DOMAIN rehash'.keys = {} /\ rehash'.add = None /\ Idle'
    BY <1>1, NothingOld DEF ToMove, Idle
  <2>3. Occupied' = Occupied /\ Tombstones' = Tombstones
    BY <1>1, <2>1 DEF Occupied, Tombstones, Buckets
  <2>4. Shape'
    <3>1. \E s \in Index : rehash' \in OldTable(s)
      BY <1>1, NothingOld
    <3> QED BY <1>1, <2>1, <3>1 DEF Shape, OldTable, Buckets
  <2>5. Counted'
    BY <1>1, <2>1, <2>2 DEF Counted, CountsFit, Buckets
  <2>6. AllReached'
    BY <1>1, <2>1, <2>3 DEF AllReached, Reached, StopsAt, Path, Buckets
  <2>7. Apart' /\ Exact'
    BY <1>1, <2>1, <2>2, <2>3 DEF Apart, Exact
  <2>8. Room'
    BY <1>1, <1>3, <2>1, <2>2 DEF Room
  <2> QED BY <2>4, <2>5, <2>6, <2>7, <2>8
<1> QED BY <1>2, <1>3

\* The keys stay, counts and values change.
LEMMA SameKeys ==
  ASSUME HashInv, UNCHANGED <<bits, idx, keys, used, deleted, rehash>>,
         values' \in [Buckets(idx) -> Value \cup {None}],
         counts' \in [Buckets(idx) -> Nat], width' \in Width,
         CountMax[width] <= CountMax[width'], CountsFit(Buckets(idx), keys, counts)'
  PROVE  HashInv'
<1> USE DEF HashInv
<1>1. Occupied' = Occupied /\ Tombstones' = Tombstones /\ ToMove' = ToMove
  BY DEF Occupied, Tombstones, ToMove, Buckets
<1>2. Shape'
  BY DEF Shape, Buckets, OldTable
<1>3. PICK t \in Index : rehash \in OldTable(t)
  BY DEF Shape
<1>4. CountsFit(DOMAIN rehash.keys, rehash.keys, rehash.counts)'
  <2>1. \A b \in DOMAIN rehash.keys : rehash.counts[b] \in Nat
    BY <1>3 DEF OldTable
  <2>2. CountMax[width] \in Nat /\ CountMax[width'] \in Nat
    BY Widths DEF Shape
  <2> QED BY <2>1, <2>2 DEF Counted, CountsFit
<1>5. Counted'
  BY <1>4 DEF Counted
<1>6. AllReached'
  BY <1>1 DEF AllReached, Reached, StopsAt, Path, Buckets
<1>7. Apart' /\ Exact' /\ Room'
  BY <1>1 DEF Apart, Exact, Room, Idle, Buckets
<1> QED BY <1>2, <1>5, <1>6, <1>7

\* A table that is full is rehashed with the new key to add, another one is
\* filled.
LEMMA AddNewEffect ==
  ASSUME HashInv, Idle, NEW k \in Key, NEW v \in Value, AddNew(k, v)
  PROVE  \/ HashInv' /\ UNCHANGED bits /\ Rehash(keys, values, counts, used, 1, <<k, v>>)
         \/ \E i \in Buckets(idx), b \in Buckets(idx) :
               Placing(k, v, {Empty, Deleted}, i, b)
<1> USE DEF HashInv
<1>1. \A b \in Buckets(idx) : keys[b] # k
  BY Searched DEF AddNew, Occupied
<1>2. CASE Capacities[idx] < used + 1
  <2>1. Rehash(keys, values, counts, used, 1, <<k, v>>) /\ UNCHANGED <<bits, width>>
    BY <1>2, IdleIs DEF AddNew
  <2>2. /\ keys \in [Buckets(idx) -> Content] /\ counts \in [Buckets(idx) -> Nat]
        /\ values \in [Buckets(idx) -> Value \cup {None}]
        /\ <<k, v>> \in (Key \X Value) \cup {None}
    BY DEF Shape
  <2>3. \A b, c \in Buckets(idx) : keys[b] \in Key /\ keys[b] = keys[c] => b = c
    BY Searched DEF Occupied
  <2>4. CountsFit(Buckets(idx), keys, counts)
    BY DEF Counted
  <2>5. used = Cardinality({b \in Buckets(idx) : keys[b] \in Key})
    BY IdleIs DEF Occupied
  <2>6. used <= Capacities[idx] /\ used \in Nat
    BY IdleIs
  <2>7. \A b \in Buckets(idx) : keys[b] # <<k, v>>[1]
    BY <1>1
  <2> DEFINE add == <<k, v>>
  <2> HIDE DEF add, HashInv
  <2>8. add \in (Key \X Value) \cup {None} /\ Rehash(keys, values, counts, used, 1, add)
        /\ \A b \in Buckets(idx) : keys[b] # add[1]
    BY <2>1, <2>2, <2>7 DEF add
  <2>9. 1 \in Int /\ UNCHANGED <<bits, width>>
    BY <2>1
  <2>10. HashInv'
    BY <2>2, <2>3, <2>4, <2>5, <2>6, <2>8, <2>9, RehashKeeps
  <2> QED BY <2>1, <2>10
<1>3. CASE Capacities[idx] >= used + 1
  <2> DEFINE b == FreeBucket(k)
  <2>1. used = Cardinality(Occupied) /\ used \in Nat /\ rehash = NoRehash /\ ToMove = {}
    BY IdleIs
  <2>2. /\ Fill(b, k, v) /\ UNCHANGED <<bits, idx, width, rehash>>
        /\ deleted' = IF keys[b] = Deleted THEN deleted - 1 ELSE deleted
    BY <1>3, IdleIs DEF AddNew
  <2>3. PICK c \in Buckets(idx) : keys[c] \in {Empty, Deleted}
    <3>1. Capacities[idx] \in Nat /\ Capacities[idx] <= Sizes[idx] /\ Sizes[idx] \in Nat
      BY BucketsOf DEF Shape
    <3>2. Cardinality(Occupied) < Sizes[idx]
      BY <1>3, <2>1, <3>1
    <3> QED BY <3>2, FreeExists
  <2>4. PICK i \in Buckets(idx) :
           /\ StopsAt(idx, keys, k, {Empty, Deleted}, i) /\ b = Path(idx, k)[i]
           /\ b \in Buckets(idx) /\ keys[b] \in {Empty, Deleted}
    BY <2>3, Placed DEF FreeBucket
  <2>5. \A o \in Occupied : keys[o] # k
    BY <1>1 DEF Occupied
  <2>6. used + 1 <= Capacities[idx]
    BY <1>3, IdleIs
  <2> HIDE DEF b, HashInv
  <2> QED BY <2>1, <2>2, <2>4, <2>5, <2>6 DEF Placing
<1>4. Capacities[idx] < used + 1 \/ Capacities[idx] >= used + 1
  <2>1. Capacities[idx] \in Nat /\ used \in Nat
    BY IdleIs
  <2> QED BY <2>1
<1> HIDE DEF HashInv
<1> QED BY <1>2, <1>3, <1>4

\* Adding a key that is not in.
LEMMA AddNewKeeps ==
  ASSUME HashInv, Idle, NEW k \in Key, NEW v \in Value, AddNew(k, v)
  PROVE  HashInv'
  BY AddNewEffect, FillKeeps

\* The widest counts hold the most.
LEMMA Widest ==
  /\ WidestWidth \in Width /\ WidestWidth = Cardinality(Width) - 1 /\ Limit \in Nat
<1> DEFINE n == Cardinality(Width)
           top == n - 1
<1>1. n \in Nat \ {0} /\ Width = 0..top
  BY Widths
<1>2. \A x \in Width : CountMax[x] \in Nat
  BY Widths
<1> HIDE DEF n
<1>3. top \in Width /\ \A x \in Width : x < top \/ x = top
  BY <1>1
<1> HIDE DEF top
<1>4. \A x \in Width : x # top => CountMax[x] < CountMax[top]
  BY <1>3, CountAssumption
<1>5. \A x \in Width : CountMax[x] <= CountMax[top]
  BY <1>2, <1>3, <1>4
<1>6. \A w \in Width : (\A x \in Width : CountMax[x] <= CountMax[w]) => w = top
  BY <1>2, <1>3, <1>4
<1>7. WidestWidth = top
  BY <1>3, <1>5, <1>6 DEF WidestWidth
<1> QED BY <1>2, <1>3, <1>7 DEF Limit, top, n

\* A count that its width cannot hold finds a wider one.
LEMMA WiderWidth ==
  ASSUME NEW w \in Width, CountMax[w] < Limit
  PROVE  w + 1 \in Width /\ CountMax[w] < CountMax[w + 1]
<1>1. w # WidestWidth
  <2>1. CountMax[w] \in Nat
    BY Widths
  <2> QED BY <2>1 DEF Limit
<1>2. w + 1 \in Width /\ w < w + 1
  BY <1>1, Widest, Widths
<1> QED BY <1>2, CountAssumption

\* Counting a key again: a count that is at its width's limit widens the array.
LEMMA CountAgainKeeps ==
  ASSUME HashInv, Idle, NEW k \in Key, CountAgain(k)
  PROVE  HashInv'
<1> DEFINE b == BucketOf(k)
<1>1. b \in Occupied
  BY Searched DEF HashInv, CountAgain
<1>2. /\ bits.counted /\ counts[b] < Limit
      /\ counts' = [counts EXCEPT ![b] = counts[b] + 1]
      /\ width' = IF counts[b] < CountMax[width] THEN width ELSE width + 1
      /\ UNCHANGED <<bits, idx, keys, values, used, deleted, rehash>>
  BY DEF CountAgain, Count
<1> HIDE DEF b
<1>3. /\ counts \in [Buckets(idx) -> Nat] /\ width \in Width
      /\ values \in [Buckets(idx) -> Value \cup {None}]
      /\ b \in Buckets(idx) /\ keys[b] \in Key
  BY <1>1 DEF HashInv, Shape, Occupied
<1>4. \A c \in Buckets(idx) : /\ counts[c] <= CountMax[width]
                              /\ counts[c] > 0 <=> (bits.counted /\ keys[c] \in Key)
  BY DEF HashInv, Counted, CountsFit
<1>5. \A w \in Width : CountMax[w] \in Nat
  BY Widths
<1>6. /\ width' \in Width /\ CountMax[width] <= CountMax[width']
      /\ counts[b] + 1 <= CountMax[width']
  <2>1. CASE counts[b] < CountMax[width]
    BY <1>2, <1>3, <1>5, <2>1
  <2>2. CASE ~(counts[b] < CountMax[width])
    <3>1. counts[b] = CountMax[width]
      BY <1>3, <1>4, <1>5, <2>2
    <3>2. width + 1 \in Width /\ CountMax[width] < CountMax[width + 1]
      BY <1>2, <1>3, <3>1, WiderWidth
    <3> QED BY <1>2, <1>3, <1>5, <2>2, <3>1, <3>2
  <2> QED BY <2>1, <2>2
<1>7. counts' \in [Buckets(idx) -> Nat]
  BY <1>2, <1>3
<1>8. \A c \in Buckets(idx) : counts'[c] = IF c = b THEN counts[b] + 1 ELSE counts[c]
  BY <1>2, <1>3
<1>9. CountsFit(Buckets(idx), keys, counts)'
  <2> SUFFICES ASSUME NEW c \in Buckets(idx)
               PROVE  /\ counts'[c] <= CountMax[width']
                      /\ counts'[c] > 0 <=> (bits.counted /\ keys[c] \in Key)
    BY <1>2 DEF CountsFit, Buckets
  <2>1. counts[c] \in Nat /\ CountMax[width] \in Nat /\ CountMax[width'] \in Nat
    BY <1>3, <1>5, <1>6
  <2> QED BY <1>2, <1>3, <1>4, <1>6, <1>8, <2>1
<1> QED BY <1>2, <1>3, <1>6, <1>7, <1>9, SameKeys

\* Replacing a value touches no key.
LEMMA OverwriteKeeps ==
  ASSUME HashInv, NEW k \in Key, NEW v \in Value, Overwrite(k, v)
  PROVE  HashInv'
<1>1. /\ UNCHANGED <<bits, idx, keys, counts, width, used, deleted, rehash>>
      /\ values' = [values EXCEPT ![BucketOf(k)] = v]
  BY DEF Overwrite
<1>2. /\ values \in [Buckets(idx) -> Value \cup {None}] /\ counts \in [Buckets(idx) -> Nat]
      /\ width \in Width /\ CountMax[width] <= CountMax[width]
  BY Widths DEF HashInv, Shape
<1>3. values' \in [Buckets(idx) -> Value \cup {None}]
  BY <1>1, <1>2
<1>4. CountsFit(Buckets(idx), keys, counts)'
  BY <1>1 DEF HashInv, Counted, CountsFit, Buckets
<1> QED BY <1>1, <1>2, <1>3, <1>4, SameKeys

\* `deleted' plus one, unless it wraps to zero.
LEMMA OneMore ==
  ASSUME NEW m \in Nat \ {0}, NEW d \in 0..m - 1, (d + 1) % m # 0
  PROVE  (d + 1) % m = d + 1
<1>1. CASE d + 1 < m
  BY <1>1
<1>2. CASE d + 1 = m
  <2>1. m % m = 0
    OBVIOUS
  <2> QED BY <1>2, <2>1
<1> QED BY <1>1, <1>2

\* A tombstone keeps the paths that go on past it; a rehash drops them all.
LEMMA RemoveAtKeeps ==
  ASSUME HashInv, Idle, NEW b \in Occupied, Count(b) = 1, RemoveAt(b)
  PROVE  HashInv'
<1> DEFINE ks == [keys EXCEPT ![b] = Deleted]
           vs == [values EXCEPT ![b] = None]
           cs == [counts EXCEPT ![b] = IF bits.counted THEN counts[b] - 1 ELSE counts[b]]
           gone == (deleted + 1) % DeletedMod
           u == used - 1
<1>1. PICK n \in {-1, 0} :
         \/ Rehash(ks, vs, cs, u, n, None)
         \/ /\ gone # 0
            /\ keys' = ks /\ values' = vs /\ counts' = cs /\ used' = u
            /\ deleted' = gone /\ UNCHANGED <<idx, rehash>>
  BY DEF RemoveAt
<1>2. UNCHANGED <<bits, width>>
  BY DEF RemoveAt
<1>3. /\ keys \in [Buckets(idx) -> Content] /\ counts \in [Buckets(idx) -> Nat]
      /\ values \in [Buckets(idx) -> Value \cup {None}] /\ width \in Width
      /\ idx \in Index /\ deleted \in 0..DeletedMod - 1
      /\ b \in Buckets(idx) /\ keys[b] \in Key
  BY DEF HashInv, Shape, Occupied
<1>4. \A c \in Buckets(idx) : /\ counts[c] <= CountMax[width]
                              /\ counts[c] > 0 <=> (bits.counted /\ keys[c] \in Key)
  BY DEF HashInv, Counted, CountsFit
<1>5. ks \in [Buckets(idx) -> Content] /\ vs \in [Buckets(idx) -> Value \cup {None}]
  BY <1>3 DEF Content
<1>6. \A c \in Buckets(idx) : ks[c] = IF c = b THEN Deleted ELSE keys[c]
  BY <1>3
<1>7. /\ cs \in [Buckets(idx) -> Nat]
      /\ \A c \in Buckets(idx) : cs[c] = IF c = b THEN 0 ELSE counts[c]
  <2>1. (IF bits.counted THEN counts[b] - 1 ELSE counts[b]) = 0
    <3>1. CASE bits.counted
      BY <1>3, <3>1 DEF Count
    <3>2. CASE ~bits.counted
      BY <1>3, <1>4, <3>2
    <3> QED BY <3>1, <3>2
  <2>2. cs = [counts EXCEPT ![b] = 0]
    BY <2>1
  <2> HIDE DEF cs
  <2> QED BY <1>3, <2>2
<1>8. /\ used = Cardinality(Occupied) /\ used <= Capacities[idx] /\ used \in Nat
      /\ Capacities[idx] \in Nat /\ rehash = NoRehash /\ ToMove = {} /\ rehash.add = None
  BY IdleIs
<1>9. {c \in Buckets(idx) : ks[c] \in Key} = Occupied \ {b}
  BY <1>6, NoneAssumption DEF Occupied
<1>10. Cardinality(Occupied \ {b}) = u /\ u \in Nat
  <2>1. /\ IsFiniteSet(Occupied \ {b}) /\ Cardinality(Occupied \ {b}) = Cardinality(Occupied) - 1
        /\ Cardinality(Occupied \ {b}) \in Nat
    BY Finite, FS_RemoveElement, FS_CardinalityType DEF HashInv
  <2> QED BY <1>8, <2>1
<1>11. CountsFit(Buckets(idx), ks, cs)
  <2>1. CountMax[width] \in Nat
    BY <1>3, Widths
  <2> HIDE DEF ks, cs
  <2> QED BY <1>4, <1>6, <1>7, <2>1, NoneAssumption DEF CountsFit
<1> HIDE DEF ks, vs, cs, u, gone
<1>12. CASE Rehash(ks, vs, cs, u, n, None)
  <2>1. \A c, d \in Buckets(idx) : ks[c] \in Key /\ ks[c] = ks[d] => c = d
    BY <1>6, NoneAssumption, Searched DEF HashInv, Occupied
  <2>2. u <= Capacities[idx]
    BY <1>8 DEF u
  <2>3. n \in Int /\ None \in (Key \X Value) \cup {None}
    OBVIOUS
  <2> QED BY <1>2, <1>5, <1>7, <1>9, <1>10, <1>11, <1>12, <2>1, <2>2, <2>3, RehashKeeps
<1>13. CASE /\ gone # 0
            /\ keys' = ks /\ values' = vs /\ counts' = cs /\ used' = u
            /\ deleted' = gone /\ UNCHANGED <<idx, rehash>>
  <2>1. keys' = [keys EXCEPT ![b] = Deleted]
    BY <1>13 DEF ks
  <2>2. AllReached'
    BY <1>2, <1>13, <2>1, ClearReached DEF HashInv
  <2>3. /\ Occupied' = Occupied \ {b} /\ Cardinality(Occupied') = u
        /\ Cardinality(Tombstones') = Cardinality(Tombstones) + 1
    BY <1>10, <1>13, <2>1, ClearCount DEF HashInv
  <2>4. gone = deleted + 1 /\ gone \in 0..DeletedMod - 1
    <3>1. gone = deleted + 1
      BY <1>3, <1>13, BoundAssumption, OneMore DEF gone
    <3>2. (deleted + 1) % DeletedMod \in 0..DeletedMod - 1
      BY <1>3, BoundAssumption
    <3> QED BY <3>1, <3>2 DEF gone
  <2>5. Shape'
    BY <1>2, <1>5, <1>7, <1>10, <1>13, <2>4 DEF HashInv, Shape, OldTable, Buckets
  <2>6. Counted'
    <3>1. CountsFit(Buckets(idx), keys, counts)'
      BY <1>2, <1>11, <1>13 DEF CountsFit, Buckets
    <3>2. CountsFit(DOMAIN rehash.keys, rehash.keys, rehash.counts)'
      BY <1>2, <1>13 DEF HashInv, Counted, CountsFit
    <3> QED BY <3>1, <3>2 DEF Counted
  <2>7. ToMove' = {} /\ Idle'
    BY <1>8, <1>13, NothingOld DEF ToMove, Idle
  <2>8. Apart'
    BY <1>8, <1>13, <2>7 DEF Apart
  <2>9. Exact'
    <3>1. Cardinality(ToMove') = 0
      BY <2>7, FS_EmptySet
    <3>2. deleted' = Cardinality(Tombstones')
      BY <1>13, <2>3, <2>4 DEF HashInv, Exact
    <3> QED BY <1>10, <1>13, <2>3, <3>1, <3>2 DEF Exact
  <2>10. Room'
    BY <1>8, <1>13 DEF Room, u
  <2> QED BY <2>2, <2>5, <2>6, <2>8, <2>9, <2>10 DEF HashInv
<1> QED BY <1>1, <1>12, <1>13

\* Removing one of a key: a count less, or the bucket.
LEMMA RemoveOneKeeps ==
  ASSUME HashInv, Idle, NEW b \in Occupied, RemoveOne(b)
  PROVE  HashInv'
<1>1. CASE Count(b) = 1 /\ RemoveAt(b)
  BY <1>1, RemoveAtKeeps
<1>2. CASE /\ Count(b) \in 2..Limit - 1
           /\ counts' = [counts EXCEPT ![b] = counts[b] - 1]
           /\ UNCHANGED <<bits, idx, keys, values, width, used, deleted, rehash>>
  <2>1. /\ counts \in [Buckets(idx) -> Nat] /\ width \in Width
        /\ values \in [Buckets(idx) -> Value \cup {None}]
        /\ b \in Buckets(idx) /\ keys[b] \in Key
    BY DEF HashInv, Shape, Occupied
  <2>2. \A c \in Buckets(idx) : /\ counts[c] <= CountMax[width]
                                /\ counts[c] > 0 <=> (bits.counted /\ keys[c] \in Key)
    BY DEF HashInv, Counted, CountsFit
  <2>3. CountMax[width] \in Nat /\ CountMax[width] <= CountMax[width]
    BY <2>1, Widths
  <2>4. Limit \in Nat
    BY Widest
  <2>5. Count(b) >= 2 /\ bits.counted /\ Count(b) = counts[b]
    BY <1>2, <2>4 DEF Count
  <2>6. \A c \in Buckets(idx) : counts'[c] = IF c = b THEN counts[b] - 1 ELSE counts[c]
    BY <1>2, <2>1
  <2>7. counts' \in [Buckets(idx) -> Nat]
    BY <1>2, <2>1, <2>5
  <2>8. CountsFit(Buckets(idx), keys, counts)'
    BY <1>2, <2>1, <2>2, <2>3, <2>5, <2>6 DEF CountsFit, Buckets
  <2> QED BY <1>2, <2>1, <2>3, <2>7, <2>8, SameKeys
<1> QED BY <1>1, <1>2 DEF RemoveOne

\* The drained table is the empty one.
LEMMA RemoveAllKeeps ==
  ASSUME HashInv, RemoveAllValues
  PROVE  HashInv'
<1>1. /\ idx' = 0 /\ keys' = Blank(0, Empty) /\ values' = Blank(0, None)
      /\ counts' = Blank(0, 0) /\ used' = 0 /\ deleted' = 0 /\ Idle
      /\ UNCHANGED <<bits, width, rehash>>
  BY DEF RemoveAllValues
<1>2. Buckets(0) = {} /\ 0 \in Index /\ rehash' = NoRehash
  BY <1>1, NothingOld, IdleIs
<1>3. Buckets(idx)' = {}
  BY <1>1, <1>2 DEF Buckets
<1>4. /\ Occupied' = {} /\ Tombstones' = {} /\ ToMove' = {} /\ Idle'
      /\ DOMAIN rehash'.keys = {} /\ rehash'.add = None
  BY <1>2, <1>3, NothingOld DEF Occupied, Tombstones, ToMove, Idle
<1>5. Shape'
  <2>1. 0 \in Nat /\ 0 \in 0..DeletedMod - 1
    BY BoundAssumption
  <2>2. /\ Blank(0, Empty) \in [Buckets(0) -> Content] /\ Blank(0, 0) \in [Buckets(0) -> Nat]
        /\ Blank(0, None) \in [Buckets(0) -> Value \cup {None}]
    BY DEF Blank, Content
  <2>3. \E t \in Index : rehash' \in OldTable(t)
    BY <1>2, NothingOld
  <2> QED BY <1>1, <1>2, <2>1, <2>2, <2>3 DEF HashInv, Shape, OldTable, Buckets
<1>6. Counted'
  BY <1>3, <1>4 DEF Counted, CountsFit
<1>7. AllReached' /\ Apart'
  BY <1>2, <1>4 DEF AllReached, Apart
<1>8. Exact'
  BY <1>1, <1>4, FS_EmptySet DEF Exact
<1>9. Room'
  BY <1>1, <1>2, <1>4, BucketsOf DEF Room
<1> QED BY <1>5, <1>6, <1>7, <1>8, <1>9 DEF HashInv

\* A rehash for a larger capacity.
LEMMA SetCapacityKeeps ==
  ASSUME HashInv, NEW c \in 1..Capacities[Last], SetCapacity(c)
  PROVE  HashInv'
<1> DEFINE n == c - used
<1>1. /\ Idle /\ Rehash(keys, values, counts, used, n, None) /\ UNCHANGED <<bits, width>>
  BY DEF SetCapacity
<1>2. n \in Int
  BY DEF HashInv, Shape
<1>3. /\ keys \in [Buckets(idx) -> Content] /\ counts \in [Buckets(idx) -> Nat]
      /\ values \in [Buckets(idx) -> Value \cup {None}]
  BY DEF HashInv, Shape
<1>4. \A b, d \in Buckets(idx) : keys[b] \in Key /\ keys[b] = keys[d] => b = d
  BY Searched DEF HashInv, Occupied
<1>5. CountsFit(Buckets(idx), keys, counts)
  BY DEF HashInv, Counted
<1>6. /\ used = Cardinality({b \in Buckets(idx) : keys[b] \in Key})
      /\ used <= Capacities[idx] /\ used \in Nat
  BY <1>1, IdleIs DEF Occupied
<1>7. None \in (Key \X Value) \cup {None}
  OBVIOUS
<1> HIDE DEF n
<1> QED BY <1>1, <1>2, <1>3, <1>4, <1>5, <1>6, <1>7, RehashKeeps

\* Every step keeps the invariant.
LEMMA NextInv ==
  ASSUME HashInv, [Next]_vars
  PROVE  HashInv'
<1>1. CASE UNCHANGED vars
  <2>1. /\ Occupied' = Occupied /\ Tombstones' = Tombstones /\ ToMove' = ToMove
    BY <1>1 DEF vars, Occupied, Tombstones, ToMove, Buckets
  <2>2. Shape' /\ Counted'
    BY <1>1 DEF vars, HashInv, Shape, Counted, CountsFit, Buckets, OldTable
  <2>3. AllReached'
    BY <1>1, <2>1 DEF vars, HashInv, AllReached, Reached, StopsAt, Path, Buckets
  <2>4. Apart' /\ Exact' /\ Room'
    BY <1>1, <2>1 DEF vars, HashInv, Apart, Exact, Room, Idle, Buckets
  <2> QED BY <2>2, <2>3, <2>4 DEF HashInv
<1>2. ASSUME NEW k \in Key, NEW v \in Value,
             AddValue(k, v) \/ ReplaceValue(k, v) \/ SetValue(k, v)
      PROVE  HashInv'
  <2>1. Idle /\ (AddNew(k, v) \/ CountAgain(k) \/ Overwrite(k, v))
    BY <1>2 DEF AddValue, ReplaceValue, SetValue
  <2> QED BY <2>1, AddNewKeeps, CountAgainKeeps, OverwriteKeeps
<1>3. ASSUME NEW k \in Key, RemoveValue(k)
      PROVE  HashInv'
  <2>1. Idle /\ Found(k) /\ RemoveOne(BucketOf(k))
    BY <1>3 DEF RemoveValue
  <2>2. BucketOf(k) \in Occupied
    BY <2>1, Searched DEF HashInv
  <2> QED BY <2>1, <2>2, RemoveOneKeeps
<1>4. ASSUME NEW b \in Buckets(idx), RemoveValueAtIndex(b)
      PROVE  HashInv'
  <2>1. Idle /\ RemoveOne(b) /\ b \in Occupied
    BY <1>4 DEF RemoveValueAtIndex, Occupied
  <2> QED BY <2>1, RemoveOneKeeps
<1>5. CASE RemoveAllValues
  BY <1>5, RemoveAllKeeps
<1>6. ASSUME NEW c \in 1..Capacities[Last], SetCapacity(c)
      PROVE  HashInv'
  BY <1>6, SetCapacityKeeps
<1>7. CASE MoveBucket
  BY <1>7, MoveKeeps
<1>8. CASE FinishRehash
  BY <1>8, FinishKeeps
<1> QED BY <1>1, <1>2, <1>3, <1>4, <1>5, <1>6, <1>7, <1>8 DEF Next

-----------------------------------------------------------------------------
(***************************************************************************)
(* Theorems                                                                *)
(***************************************************************************)
\* The invariant holds in every reachable state.
THEOREM InductiveInvariant == Spec => []HashInv
<1>1. Init => HashInv
  BY InitInv
<1>2. HashInv /\ [Next]_vars => HashInv'
  BY NextInv
<1> QED BY <1>1, <1>2, PTL DEF Spec

\* Every reachable state of the table is well typed: the counts fit the width
\* of their array and `deleted' does not run past its 16 bits.
THEOREM Typed == Spec => []TypeOK
<1>1. HashInv => TypeOK
  <2> SUFFICES ASSUME HashInv PROVE TypeOK
    OBVIOUS
  <2>1. \A b \in Buckets(idx) : counts[b] <= CountMax[width]
    BY DEF HashInv, Counted, CountsFit
  <2>2. rehash.at \in Int
    BY DEF HashInv, Shape, OldTable
  <2> QED BY <2>1, <2>2 DEF HashInv, Shape, TypeOK, Content
<1> QED BY <1>1, InductiveInvariant, PTL

\* __CFBasicHashFindBucket ends at the entry for every key that is in, however
\* many tombstones removals have left on its way.
THEOREM EntriesAreFound == Spec => []EveryEntryIsFound
<1>1. HashInv => EveryEntryIsFound
  BY Searched DEF HashInv, EveryEntryIsFound
<1> QED BY <1>1, InductiveInvariant, PTL

\* used_buckets and `deleted' are exact, in the middle of a rehash as well.
THEOREM CountersStayExact == Spec => []CountersAreExact
<1>1. HashInv => CountersAreExact
  BY DEF HashInv, Exact, Counted, CountsFit, CountersAreExact
<1> QED BY <1>1, InductiveInvariant, PTL

\* __CFBasicHashRehash never runs out of buckets: what it has to move and what
\* made the table grow fit the new table, for every style of growth.
THEOREM RehashSucceeds == Spec => []RehashHasRoom
<1>1. HashInv => RehashHasRoom
  BY DEF HashInv, Room, RehashHasRoom
<1> QED BY <1>1, InductiveInvariant, PTL

-----------------------------------------------------------------------------
(***************************************************************************)
(* The table implements KeyedBag                                           *)
(***************************************************************************)
HoldsIn(S, ks, vs, cs, k, v, c) == \E b \in S : ks[b] = k /\ vs[b] = v /\ cs[b] = c

\* The table, or what a rehash still has to move, holds k with v and c.
Holds(k, v, c) == \/ HoldsIn(Occupied, keys, values, counts, k, v, c)
                  \/ HoldsIn(ToMove, rehash.keys, rehash.values, rehash.counts, k, v, c)

ContentsAreHeld ==
    /\ Contents = [k \in DOMAIN Contents |-> Contents[k]]
    /\ DOMAIN Contents \subseteq Key
    /\ \A k \in Key : k \in DOMAIN Contents <=> \E v, c : Holds(k, v, c)
    /\ \A k \in Key : \A v, c : Holds(k, v, c) => Contents[k] = Entry(v, c)

\* The contents are what the table and the old arrays hold: no key is in both,
\* and none is in twice.
LEMMA ContentsHeld == HashInv => ContentsAreHeld
<1> SUFFICES ASSUME HashInv PROVE ContentsAreHeld
  OBVIOUS
<1> DEFINE D == {keys[b] : b \in Occupied} \cup {rehash.keys[b] : b \in ToMove}
           E(k) == IF In(k, keys, Occupied)
                   THEN Entry(values[At(k, keys, Occupied)], counts[At(k, keys, Occupied)])
                   ELSE Entry(rehash.values[At(k, rehash.keys, ToMove)],
                              rehash.counts[At(k, rehash.keys, ToMove)])
<1>1. Contents = [k \in D |-> E(k)]
  BY DEF Contents
<1>2. \A b \in Occupied : At(keys[b], keys, Occupied) = b
  BY Searched DEF HashInv, At
<1>3. \A b \in ToMove : At(rehash.keys[b], rehash.keys, ToMove) = b
  BY DEF HashInv, Apart, At
<1>4. \A b \in ToMove : ~In(rehash.keys[b], keys, Occupied)
  BY DEF HashInv, Apart, In
<1>5. \A b \in Occupied : In(keys[b], keys, Occupied)
  BY DEF In
<1>6. \A b \in Occupied : keys[b] \in D /\ E(keys[b]) = Entry(values[b], counts[b])
  BY <1>2, <1>5
<1>7. \A b \in ToMove : /\ rehash.keys[b] \in D
                        /\ E(rehash.keys[b]) = Entry(rehash.values[b], rehash.counts[b])
  BY <1>3, <1>4
<1>8. \A k \in D : \/ \E b \in Occupied : keys[b] = k
                   \/ \E b \in ToMove : rehash.keys[b] = k
  OBVIOUS
<1>9. D \subseteq Key
  BY DEF Occupied, ToMove
<1> HIDE DEF D, E
<1>10. DOMAIN Contents = D /\ \A k \in D : Contents[k] = E(k)
  BY <1>1
<1>11. \A k \in Key : k \in D <=> \E v, c : Holds(k, v, c)
  BY <1>6, <1>7, <1>8 DEF Holds, HoldsIn
<1>12. \A k \in Key : \A v, c : Holds(k, v, c) => Contents[k] = Entry(v, c)
  BY <1>6, <1>7, <1>10 DEF Holds, HoldsIn
<1> QED BY <1>1, <1>9, <1>10, <1>11, <1>12 DEF ContentsAreHeld

\* The same after a step.
LEMMA ContentsHeldNext == HashInv' => ContentsAreHeld'
  BY ContentsHeld, PTL

\* What is held decides what the contents are.
LEMMA SameContents ==
  ASSUME HashInv, HashInv', bits' = bits,
         \A k \in Key : \A v, c : Holds(k, v, c)' <=> Holds(k, v, c)
  PROVE  Contents' = Contents
<1>1. ContentsAreHeld /\ ContentsAreHeld'
  BY ContentsHeld, ContentsHeldNext
<1>2. \A v, c : Entry(v, c)' = Entry(v, c)
  BY DEF Entry
<1>3. DOMAIN Contents' = DOMAIN Contents
  BY <1>1 DEF ContentsAreHeld
<1>4. \A k \in DOMAIN Contents : Contents'[k] = Contents[k]
  <2> SUFFICES ASSUME NEW k \in DOMAIN Contents PROVE Contents'[k] = Contents[k]
    OBVIOUS
  <2>1. PICK v, c : k \in Key /\ Holds(k, v, c)
    BY <1>1 DEF ContentsAreHeld
  <2> QED BY <1>1, <1>2, <2>1 DEF ContentsAreHeld
<1> QED BY <1>1, <1>3, <1>4 DEF ContentsAreHeld

\* The contents get the value v and the count c for k.
PutTo(k, v, c) == Contents' = [j \in DOMAIN Contents \cup {k} |->
                                 IF j = k THEN Entry(v, c) ELSE Contents[j]]

\* When only what is held of k changes, only k's entry does.
LEMMA PutContents ==
  ASSUME HashInv, HashInv', bits' = bits, NEW k \in Key, NEW v, NEW c, Holds(k, v, c)',
         \A j \in Key : \A w, d : j # k => (Holds(j, w, d)' <=> Holds(j, w, d))
  PROVE  PutTo(k, v, c)
<1>1. ContentsAreHeld /\ ContentsAreHeld'
  BY ContentsHeld, ContentsHeldNext
<1>2. \A w, d : Entry(w, d)' = Entry(w, d)
  BY DEF Entry
<1>3. k \in DOMAIN Contents' /\ Contents'[k] = Entry(v, c)
  BY <1>1, <1>2 DEF ContentsAreHeld
<1>4. \A j \in Key : j # k => (j \in DOMAIN Contents' <=> j \in DOMAIN Contents)
  BY <1>1 DEF ContentsAreHeld
<1>5. \A j \in DOMAIN Contents : j # k => Contents'[j] = Contents[j]
  <2> SUFFICES ASSUME NEW j \in DOMAIN Contents, j # k PROVE Contents'[j] = Contents[j]
    OBVIOUS
  <2>1. PICK w, d : j \in Key /\ Holds(j, w, d)
    BY <1>1 DEF ContentsAreHeld
  <2> QED BY <1>1, <1>2, <2>1 DEF ContentsAreHeld
<1>6. DOMAIN Contents' = DOMAIN Contents \cup {k}
  BY <1>1, <1>3, <1>4 DEF ContentsAreHeld
<1> QED BY <1>1, <1>3, <1>5, <1>6 DEF ContentsAreHeld, PutTo

\* The contents lose k.
DropFrom(k) == Contents' = [j \in DOMAIN Contents \ {k} |-> Contents[j]]

\* When nothing of k is held any more, k is out and the others stay.
LEMMA DropContents ==
  ASSUME HashInv, HashInv', bits' = bits, NEW k \in Key,
         \A v, c : ~Holds(k, v, c)',
         \A j \in Key : \A w, d : j # k => (Holds(j, w, d)' <=> Holds(j, w, d))
  PROVE  DropFrom(k)
<1>1. ContentsAreHeld /\ ContentsAreHeld'
  BY ContentsHeld, ContentsHeldNext
<1>2. \A w, d : Entry(w, d)' = Entry(w, d)
  BY DEF Entry
<1>3. k \notin DOMAIN Contents'
  BY <1>1 DEF ContentsAreHeld
<1>4. \A j \in Key : j # k => (j \in DOMAIN Contents' <=> j \in DOMAIN Contents)
  BY <1>1 DEF ContentsAreHeld
<1>5. \A j \in DOMAIN Contents : j # k => Contents'[j] = Contents[j]
  <2> SUFFICES ASSUME NEW j \in DOMAIN Contents, j # k PROVE Contents'[j] = Contents[j]
    OBVIOUS
  <2>1. PICK w, d : j \in Key /\ Holds(j, w, d)
    BY <1>1 DEF ContentsAreHeld
  <2> QED BY <1>1, <1>2, <2>1 DEF ContentsAreHeld
<1>6. DOMAIN Contents' = DOMAIN Contents \ {k}
  BY <1>1, <1>3, <1>4 DEF ContentsAreHeld
<1> QED BY <1>1, <1>5, <1>6 DEF ContentsAreHeld, DropFrom

\* An idle table holds what its buckets hold.
LEMMA IdleHolds ==
  ASSUME HashInv, Idle
  PROVE  \A k, v, c : Holds(k, v, c) <=> HoldsIn(Occupied, keys, values, counts, k, v, c)
  BY IdleIs DEF Holds, HoldsIn

\* The same after a step.
LEMMA IdleHoldsNext ==
  ASSUME HashInv', Idle'
  PROVE  \A k, v, c : Holds(k, v, c)' <=> HoldsIn(Occupied', keys', values', counts', k, v, c)
<1>1. (HashInv /\ Idle =>
         \A k, v, c : Holds(k, v, c) <=> HoldsIn(Occupied, keys, values, counts, k, v, c))'
  BY IdleHolds, PTL
<1> QED BY <1>1 DEF HoldsIn

\* A rehash that begins holds what it was given.
LEMMA RehashHolds ==
  ASSUME HashInv, NEW ks \in [Buckets(idx) -> Content], NEW vs, NEW cs, NEW u, NEW n,
         NEW add, Rehash(ks, vs, cs, u, n, add)
  PROVE  \A k, v, c : Holds(k, v, c)' <=>
            HoldsIn({b \in Buckets(idx) : ks[b] \in Key}, ks, vs, cs, k, v, c)
<1>1. keys' = Blank(idx', Empty)
  BY DEF Rehash
<1>2. /\ rehash' = [keys |-> ks, values |-> vs, counts |-> cs, at |-> 0, add |-> add]
      /\ rehash'.keys = ks /\ rehash'.values = vs /\ rehash'.counts = cs /\ rehash'.at = 0
  BY DEF Rehash
<1>3. Occupied' = {}
  <2>1. \A b \in Buckets(idx') : keys'[b] = Empty
    BY <1>1 DEF Blank
  <2> QED BY <2>1, NoneAssumption DEF Occupied, Buckets
<1>4. ToMove' = {b \in Buckets(idx) : ks[b] \in Key}
  <2>1. \A b \in Buckets(idx) : b >= 0
    BY BucketsOf DEF HashInv, Shape
  <2> QED BY <1>2, <2>1 DEF ToMove
<1> QED BY <1>2, <1>3, <1>4 DEF Holds, HoldsIn

\* A rehash of the table's own arrays changes nothing.
LEMMA RehashRefines ==
  ASSUME HashInv, HashInv', Idle, NEW u, NEW n, NEW add, bits' = bits,
         Rehash(keys, values, counts, u, n, add)
  PROVE  Contents' = Contents
<1>1. keys \in [Buckets(idx) -> Content]
  BY DEF HashInv, Shape
<1>2. \A k, v, c : Holds(k, v, c)' <=> HoldsIn(Occupied, keys, values, counts, k, v, c)
  BY <1>1, RehashHolds DEF Occupied
<1> QED BY <1>2, IdleHolds, SameContents

\* Moving a bucket changes nothing: its entry leaves the old arrays as it
\* enters the new ones.
LEMMA MoveRefines ==
  ASSUME HashInv, HashInv', MoveBucket
  PROVE  Contents' = Contents
<1>0. PICK at, k, w, n : /\ at = rehash.at /\ k = rehash.keys[at]
                         /\ w = rehash.values[at] /\ n = rehash.counts[at]
  OBVIOUS
<1>1. /\ bits' = bits /\ idx' = idx /\ ToMove' = ToMove \ {at}
      /\ rehash'.keys = rehash.keys /\ rehash'.values = rehash.values
      /\ rehash'.counts = rehash.counts
  BY <1>0, MoveEffect
<1>2. CASE k \notin Key
  <2>1. UNCHANGED <<keys, values, counts>>
    BY <1>0, <1>2, MoveEffect
  <2>2. Occupied' = Occupied
    BY <1>1, <2>1 DEF Occupied, Buckets
  <2>3. at \notin ToMove
    BY <1>0, <1>2 DEF ToMove
  <2>4. ToMove' = ToMove
    BY <1>1, <2>3
  <2>5. \A j, v, c : Holds(j, v, c)' <=> Holds(j, v, c)
    BY <1>1, <2>1, <2>2, <2>4 DEF Holds, HoldsIn
  <2> QED BY <1>1, <2>5, SameContents
<1>3. CASE k \in Key
  <2>1. PICK i \in Buckets(idx), b \in Buckets(idx) :
           /\ at \in ToMove /\ keys[b] = Empty
           /\ keys' = [keys EXCEPT ![b] = k]
           /\ values' = [values EXCEPT ![b] = w]
           /\ counts' = [counts EXCEPT ![b] = n]
    BY <1>0, <1>3, MoveEffect
  <2>2. /\ keys \in [Buckets(idx) -> Content] /\ counts \in [Buckets(idx) -> Nat]
        /\ values \in [Buckets(idx) -> Value \cup {None}]
    BY DEF HashInv, Shape
  <2>3. keys[b] \in {Empty, Deleted}
    BY <2>1
  <2>4. Occupied' = Occupied \cup {b} /\ b \notin Occupied
    BY <1>1, <1>3, <2>1, <2>3, FillCount DEF HashInv
  <2>5. /\ keys'[b] = k /\ values'[b] = w /\ counts'[b] = n
        /\ \A c \in Occupied : /\ keys'[c] = keys[c] /\ values'[c] = values[c]
                               /\ counts'[c] = counts[c]
    BY <2>1, <2>2, <2>4 DEF Occupied
  <2>6. \A j, v, c : HoldsIn(Occupied', keys', values', counts', j, v, c) <=>
           \/ HoldsIn(Occupied, keys, values, counts, j, v, c)
           \/ j = k /\ v = w /\ c = n
    BY <2>4, <2>5 DEF HoldsIn
  <2>7. \A j, v, c :
           HoldsIn(ToMove, rehash.keys, rehash.values, rehash.counts, j, v, c) <=>
           \/ HoldsIn(ToMove', rehash'.keys, rehash'.values, rehash'.counts, j, v, c)
           \/ j = k /\ v = w /\ c = n
    BY <1>0, <1>1, <2>1 DEF HoldsIn
  <2>8. \A j, v, c : Holds(j, v, c)' <=>
           \/ HoldsIn(Occupied', keys', values', counts', j, v, c)
           \/ HoldsIn(ToMove', rehash'.keys, rehash'.values, rehash'.counts, j, v, c)
    BY DEF Holds, HoldsIn
  <2>9. \A j, v, c : Holds(j, v, c) <=>
           \/ HoldsIn(Occupied, keys, values, counts, j, v, c)
           \/ HoldsIn(ToMove, rehash.keys, rehash.values, rehash.counts, j, v, c)
    BY DEF Holds
  <2>10. \A j, v, c : Holds(j, v, c)' <=> Holds(j, v, c)
    BY <2>6, <2>7, <2>8, <2>9
  <2> QED BY <1>1, <2>10, SameContents
<1> QED BY <1>2, <1>3

\* Filling a bucket adds the key.
LEMMA FillRefines ==
  ASSUME HashInv, HashInv', NEW k \in Key, NEW v \in Value, NEW S,
         NEW i \in Buckets(idx), NEW b \in Buckets(idx), Placing(k, v, S, i, b)
  PROVE  Bag!Add(k, v) /\ UNCHANGED bits.counted
<1>1. /\ keys' = [keys EXCEPT ![b] = k] /\ values' = [values EXCEPT ![b] = v]
      /\ counts' = [counts EXCEPT ![b] = IF bits.counted THEN counts[b] + 1 ELSE counts[b]]
      /\ ToMove = {} /\ bits' = bits /\ idx' = idx /\ keys[b] \in {Empty, Deleted}
      /\ rehash' = NoRehash
  BY DEF Placing, Fill
<1>2. /\ keys \in [Buckets(idx) -> Content] /\ counts \in [Buckets(idx) -> Nat]
      /\ values \in [Buckets(idx) -> Value \cup {None}]
  BY DEF HashInv, Shape
<1>3. ToMove' = {}
  BY <1>1, NothingOld DEF ToMove
<1>4. Occupied' = Occupied \cup {b} /\ b \notin Occupied
  BY <1>1, FillCount DEF HashInv
<1>5. bits.counted => counts[b] = 0
  BY <1>1, <1>2, NoneAssumption DEF HashInv, Counted, CountsFit
<1> PICK c : c = counts'[b]
  OBVIOUS
<1>6. /\ keys'[b] = k /\ values'[b] = v /\ counts'[b] = c /\ (bits.counted => c = 1)
      /\ \A o \in Occupied : /\ keys'[o] = keys[o] /\ values'[o] = values[o]
                             /\ counts'[o] = counts[o]
  BY <1>1, <1>2, <1>4, <1>5 DEF Occupied
<1>7. \A j, w, d : HoldsIn(Occupied', keys', values', counts', j, w, d) <=>
         \/ HoldsIn(Occupied, keys, values, counts, j, w, d)
         \/ j = k /\ w = v /\ d = c
  BY <1>4, <1>6 DEF HoldsIn
<1>8. \A j, w, d : Holds(j, w, d) <=> HoldsIn(Occupied, keys, values, counts, j, w, d)
  BY <1>1 DEF Holds, HoldsIn
<1>9. \A j, w, d : Holds(j, w, d)' <=> \/ Holds(j, w, d)
                                       \/ j = k /\ w = v /\ d = c
  <2>1. \A j, w, d : Holds(j, w, d)' <=>
           \/ HoldsIn(Occupied', keys', values', counts', j, w, d)
           \/ HoldsIn(ToMove', rehash'.keys, rehash'.values, rehash'.counts, j, w, d)
    BY DEF Holds, HoldsIn
  <2>2. \A j, w, d :
           ~HoldsIn(ToMove', rehash'.keys, rehash'.values, rehash'.counts, j, w, d)
    BY <1>3 DEF HoldsIn
  <2> QED BY <1>7, <1>8, <2>1, <2>2
<1>10. PutTo(k, v, c)
  <2>1. Holds(k, v, c)'
    BY <1>9
  <2>2. \A j \in Key : \A w, d : j # k => (Holds(j, w, d)' <=> Holds(j, w, d))
    BY <1>9
  <2> QED BY <1>1, <2>1, <2>2, PutContents
<1>11. k \notin DOMAIN Contents
  <2>1. \A w, d : ~Holds(k, w, d)
    BY <1>8 DEF Placing, HoldsIn
  <2> QED BY <2>1, ContentsHeld DEF ContentsAreHeld
<1>12. Entry(v, c) = [value |-> v, count |-> 1]
  BY <1>6 DEF Entry
<1> QED BY <1>1, <1>10, <1>11, <1>12 DEF Bag!Add, Bag!Put, PutTo

\* The value and the count of an entry change.
LEMMA EditPuts ==
  ASSUME HashInv, HashInv', Idle, NEW b \in Occupied, NEW v, NEW c,
         UNCHANGED <<bits, idx, keys, rehash>>,
         values' = [values EXCEPT ![b] = v], counts' = [counts EXCEPT ![b] = c]
  PROVE  /\ keys[b] \in Key /\ keys[b] \in DOMAIN Contents
         /\ Contents[keys[b]] = Entry(values[b], counts[b])
         /\ PutTo(keys[b], v, c)
<1>0. PICK k : k = keys[b]
  OBVIOUS
<1>1. k \in Key /\ b \in Buckets(idx)
  BY <1>0 DEF Occupied
<1>2. /\ counts \in [Buckets(idx) -> Nat] /\ values \in [Buckets(idx) -> Value \cup {None}]
  BY DEF HashInv, Shape
<1>3. /\ \A o \in Occupied : o # b => /\ values'[o] = values[o] /\ counts'[o] = counts[o]
                                      /\ keys[o] # k
      /\ values'[b] = v /\ counts'[b] = c
  BY <1>0, <1>1, <1>2, Searched DEF HashInv, Occupied
<1>4. Occupied' = Occupied /\ Idle' /\ keys' = keys /\ bits' = bits
  BY DEF Occupied, Idle, Buckets
<1>5. \A j, w, d : Holds(j, w, d) <=> HoldsIn(Occupied, keys, values, counts, j, w, d)
  BY IdleHolds
<1>6. \A j, w, d : Holds(j, w, d)' <=> HoldsIn(Occupied, keys, values', counts', j, w, d)
  <2>1. ToMove = {} /\ ToMove' = ToMove
    BY IdleIs DEF ToMove
  <2> QED BY <1>4, <2>1 DEF Holds, HoldsIn
<1>7. Holds(k, v, c)' /\ Holds(k, values[b], counts[b])
  BY <1>0, <1>3, <1>5, <1>6 DEF HoldsIn
<1>8. \A j \in Key : \A w, d : j # k => (Holds(j, w, d)' <=> Holds(j, w, d))
  <2>1. \A o \in Occupied : keys[o] # k =>
           /\ o # b /\ values'[o] = values[o] /\ counts'[o] = counts[o]
    BY <1>0, <1>3
  <2> QED BY <1>5, <1>6, <2>1 DEF HoldsIn
<1>9. PutTo(k, v, c)
  BY <1>1, <1>4, <1>7, <1>8, PutContents
<1>10. k \in DOMAIN Contents /\ Contents[k] = Entry(values[b], counts[b])
  BY <1>1, <1>7, ContentsHeld DEF ContentsAreHeld
<1> QED BY <1>0, <1>1, <1>9, <1>10

\* Removing the last of a key takes it out, with and without a rehash.
LEMMA RemoveRefines ==
  ASSUME HashInv, HashInv', Idle, NEW b \in Occupied, Count(b) = 1, RemoveAt(b)
  PROVE  Bag!Remove(keys[b]) /\ UNCHANGED bits.counted
<1>0. PICK k : k = keys[b]
  OBVIOUS
<1>1. PICK ks, vs, cs, u : /\ ks = [keys EXCEPT ![b] = Deleted]
                           /\ vs = [values EXCEPT ![b] = None]
                           /\ cs = [counts EXCEPT ![b] = IF bits.counted THEN counts[b] - 1
                                                         ELSE counts[b]]
                           /\ u = used - 1
  OBVIOUS
<1>2. /\ bits' = bits
      /\ \/ \E n \in {-1, 0} : Rehash(ks, vs, cs, u, n, None)
         \/ keys' = ks /\ values' = vs /\ counts' = cs /\ UNCHANGED <<idx, rehash>>
  BY <1>1 DEF RemoveAt
<1>3. /\ k \in Key /\ b \in Buckets(idx)
      /\ \A o \in Occupied : o # b => keys[o] # k
  BY <1>0, Searched DEF HashInv, Occupied
<1>4. /\ keys \in [Buckets(idx) -> Content] /\ counts \in [Buckets(idx) -> Nat]
      /\ values \in [Buckets(idx) -> Value \cup {None}]
  BY DEF HashInv, Shape
<1>5. ks \in [Buckets(idx) -> Content]
  BY <1>1, <1>4 DEF Content
<1>6. /\ \A o \in Buckets(idx) : o # b => ks[o] = keys[o] /\ vs[o] = values[o] /\ cs[o] = counts[o]
      /\ ks[b] = Deleted
  BY <1>1, <1>3, <1>4
<1>7. {o \in Buckets(idx) : ks[o] \in Key} = Occupied \ {b}
  BY <1>6, NoneAssumption DEF Occupied
<1>8. \A j, v, c : HoldsIn({o \in Buckets(idx) : ks[o] \in Key}, ks, vs, cs, j, v, c) <=>
                   HoldsIn(Occupied \ {b}, keys, values, counts, j, v, c)
  <2>1. \A o \in Occupied \ {b} : ks[o] = keys[o] /\ vs[o] = values[o] /\ cs[o] = counts[o]
    BY <1>6 DEF Occupied
  <2> QED BY <1>7, <2>1 DEF HoldsIn
<1>9. \A j, v, c : Holds(j, v, c)' <=> HoldsIn(Occupied \ {b}, keys, values, counts, j, v, c)
  <2>1. CASE \E n \in {-1, 0} : Rehash(ks, vs, cs, u, n, None)
    <3>1. PICK n \in {-1, 0} : Rehash(ks, vs, cs, u, n, None)
      BY <2>1
    <3>2. \A j, v, c : Holds(j, v, c)' <=>
             HoldsIn({o \in Buckets(idx) : ks[o] \in Key}, ks, vs, cs, j, v, c)
      BY <1>5, <3>1, RehashHolds
    <3> QED BY <1>8, <3>2
  <2>2. CASE keys' = ks /\ values' = vs /\ counts' = cs /\ UNCHANGED <<idx, rehash>>
    <3>1. Occupied' = {o \in Buckets(idx) : ks[o] \in Key}
      BY <2>2 DEF Occupied, Buckets
    <3>2. Idle'
      BY <2>2 DEF Idle
    <3>3. \A j, v, c : Holds(j, v, c)' <=> HoldsIn(Occupied', keys', values', counts', j, v, c)
      BY <3>2, IdleHoldsNext
    <3> QED BY <1>8, <2>2, <3>1, <3>3
  <2> QED BY <1>2, <2>1, <2>2
<1>10. \A j, v, c : Holds(j, v, c) <=> HoldsIn(Occupied, keys, values, counts, j, v, c)
  BY IdleHolds
<1>11. \A v, c : ~Holds(k, v, c)'
  BY <1>3, <1>9 DEF HoldsIn
<1>12. \A j \in Key : \A w, d : j # k => (Holds(j, w, d)' <=> Holds(j, w, d))
  BY <1>0, <1>9, <1>10 DEF HoldsIn
<1>13. DropFrom(k)
  BY <1>2, <1>3, <1>11, <1>12, DropContents
<1>14. k \in DOMAIN Contents /\ Contents[k] = Entry(values[b], counts[b])
  <2>1. Holds(k, values[b], counts[b])
    BY <1>0, <1>10 DEF HoldsIn
  <2> QED BY <1>3, <2>1, ContentsHeld DEF ContentsAreHeld
<1>15. Contents[k].count = 1
  BY <1>14 DEF Entry, Count
<1> QED BY <1>0, <1>2, <1>13, <1>14, <1>15 DEF Bag!Remove, DropFrom

\* Removing one of a key is the bag's Remove, by index as well.
LEMMA RemoveOneRefines ==
  ASSUME HashInv, HashInv', Idle, NEW b \in Occupied, RemoveOne(b)
  PROVE  /\ \E k \in Key : Bag!Remove(k)
         /\ UNCHANGED bits.counted
<1>0. PICK k, v, c : k = keys[b] /\ v = values[b] /\ c = counts[b] - 1
  OBVIOUS
<1>1. k \in Key /\ b \in Buckets(idx)
  BY <1>0 DEF Occupied
<1>2. CASE Count(b) = 1 /\ RemoveAt(b)
  BY <1>0, <1>1, <1>2, RemoveRefines
<1>3. CASE /\ Count(b) \in 2..Limit - 1
           /\ counts' = [counts EXCEPT ![b] = counts[b] - 1]
           /\ UNCHANGED <<bits, idx, keys, values, width, used, deleted, rehash>>
  <2>1. /\ counts \in [Buckets(idx) -> Nat] /\ values \in [Buckets(idx) -> Value \cup {None}]
        /\ Limit \in Nat
    BY Widest DEF HashInv, Shape
  <2>2. values' = [values EXCEPT ![b] = v] /\ counts' = [counts EXCEPT ![b] = c]
    BY <1>0, <1>1, <1>3, <2>1
  <2>3. bits.counted /\ counts[b] \in 2..Limit - 1
    BY <1>3, <2>1 DEF Count
  <2>4. UNCHANGED <<bits, idx, keys, rehash>>
    BY <1>3
  <2>5. /\ k \in DOMAIN Contents /\ Contents[k] = Entry(values[b], counts[b])
        /\ PutTo(k, v, c)
    BY <1>0, <2>2, <2>4, EditPuts
  <2>6. /\ Contents[k].value = v /\ Contents[k].count = counts[b]
        /\ Entry(v, c) = [value |-> Contents[k].value, count |-> Contents[k].count - 1]
    BY <1>0, <2>3, <2>5 DEF Entry
  <2>7. Contents[k].count \in 2..Limit - 1
    BY <2>3, <2>6
  <2>8. Bag!Put(k, Contents[k].value, Contents[k].count - 1)
    BY <2>5, <2>6 DEF Bag!Put, PutTo
  <2>9. Bag!Remove(k)
    BY <2>5, <2>7, <2>8 DEF Bag!Remove
  <2> QED BY <1>1, <2>4, <2>9
<1> QED BY <1>2, <1>3 DEF RemoveOne

\* Adding a key that counts is the bag's Again.
LEMMA CountAgainRefines ==
  ASSUME HashInv, HashInv', Idle, NEW k \in Key, CountAgain(k)
  PROVE  Bag!Again(k) /\ UNCHANGED bits.counted
<1>0. PICK b, v, c : b = BucketOf(k) /\ v = values[b] /\ c = counts[b] + 1
  OBVIOUS
<1>1. b \in Occupied /\ keys[b] = k /\ b \in Buckets(idx)
  BY <1>0, Searched DEF HashInv, CountAgain, Occupied
<1>2. /\ bits.counted /\ counts[b] < Limit
      /\ counts' = [counts EXCEPT ![b] = c]
      /\ UNCHANGED <<bits, idx, keys, values, rehash>>
  BY <1>0 DEF CountAgain, Count
<1>3. /\ counts \in [Buckets(idx) -> Nat] /\ values \in [Buckets(idx) -> Value \cup {None}]
  BY DEF HashInv, Shape
<1>4. values' = [values EXCEPT ![b] = v]
  BY <1>0, <1>1, <1>2, <1>3
<1>5. /\ k \in DOMAIN Contents /\ Contents[k] = Entry(values[b], counts[b])
      /\ PutTo(k, v, c)
  BY <1>1, <1>2, <1>4, EditPuts
<1>6. /\ Contents[k].value = v /\ Contents[k].count = counts[b]
      /\ Entry(v, c) = [value |-> Contents[k].value, count |-> Contents[k].count + 1]
  BY <1>0, <1>2, <1>5 DEF Entry
<1>7. Bag!Put(k, Contents[k].value, Contents[k].count + 1)
  BY <1>5, <1>6 DEF Bag!Put, PutTo
<1> QED BY <1>2, <1>5, <1>6, <1>7 DEF Bag!Again

\* Replacing a value is the bag's Replace.
LEMMA OverwriteRefines ==
  ASSUME HashInv, HashInv', Idle, NEW k \in Key, NEW v \in Value, Overwrite(k, v)
  PROVE  Bag!Replace(k, v) /\ UNCHANGED bits.counted
<1>0. PICK b, c : b = BucketOf(k) /\ c = counts[b]
  OBVIOUS
<1>1. b \in Occupied /\ keys[b] = k /\ b \in Buckets(idx)
  BY <1>0, Searched DEF HashInv, Overwrite, Occupied
<1>2. /\ values' = [values EXCEPT ![b] = v]
      /\ UNCHANGED <<bits, idx, keys, counts, rehash>>
  BY <1>0 DEF Overwrite
<1>3. counts \in [Buckets(idx) -> Nat]
  BY DEF HashInv, Shape
<1>4. counts' = [counts EXCEPT ![b] = c]
  BY <1>0, <1>1, <1>2, <1>3
<1>5. /\ k \in DOMAIN Contents /\ Contents[k] = Entry(values[b], counts[b])
      /\ PutTo(k, v, c)
  BY <1>1, <1>2, <1>4, EditPuts
<1>6. Entry(v, c) = [value |-> v, count |-> Contents[k].count]
  BY <1>0, <1>5 DEF Entry
<1>7. Bag!Put(k, v, Contents[k].count)
  BY <1>5, <1>6 DEF Bag!Put, PutTo
<1> QED BY <1>2, <1>5, <1>7 DEF Bag!Replace

\* A new key is added at once, or when the rehash it started is over.
LEMMA AddNewRefines ==
  ASSUME HashInv, HashInv', Idle, NEW k \in Key, NEW v \in Value, AddNew(k, v)
  PROVE  (Bag!Add(k, v) \/ UNCHANGED Contents) /\ UNCHANGED bits.counted
<1>1. CASE UNCHANGED bits /\ Rehash(keys, values, counts, used, 1, <<k, v>>)
  BY <1>1, RehashRefines
<1>2. CASE \E i \in Buckets(idx), b \in Buckets(idx) : Placing(k, v, {Empty, Deleted}, i, b)
  BY <1>2, FillRefines
<1> QED BY <1>1, <1>2, AddNewEffect

\* The end of a rehash adds the key that started it.
LEMMA FinishRefines ==
  ASSUME HashInv, HashInv', FinishRehash
  PROVE  /\ \/ \E k \in Key, v \in Value : Bag!Add(k, v)
            \/ UNCHANGED Contents
         /\ UNCHANGED bits.counted
<1>1. /\ ToMove = {} /\ rehash' = NoRehash /\ UNCHANGED <<bits, idx>>
  BY FinishEffect
<1>2. CASE rehash.add # None
  <2>1. PICK k \in Key, v \in Value, i \in Buckets(idx), b \in Buckets(idx) :
           Placing(k, v, {Empty}, i, b)
    BY <1>2, FinishEffect
  <2> QED BY <1>1, <2>1, FillRefines
<1>3. CASE rehash.add = None
  <2>1. UNCHANGED <<keys, values, counts>>
    BY <1>3, FinishEffect
  <2>2. Occupied' = Occupied /\ ToMove' = {}
    BY <1>1, <2>1, NothingOld DEF Occupied, ToMove, Buckets
  <2>3. \A k, v, c : Holds(k, v, c)' <=>
           \/ HoldsIn(Occupied', keys', values', counts', k, v, c)
           \/ HoldsIn(ToMove', rehash'.keys, rehash'.values, rehash'.counts, k, v, c)
    BY DEF Holds, HoldsIn
  <2>4. \A k, v, c : Holds(k, v, c)' <=> Holds(k, v, c)
    BY <1>1, <2>1, <2>2, <2>3 DEF Holds, HoldsIn
  <2>5. UNCHANGED Contents
    BY <1>1, <2>4, SameContents
  <2> QED BY <1>1, <2>5
<1> QED BY <1>2, <1>3

\* Draining the table is the bag's RemoveAll.
LEMMA RemoveAllRefines ==
  ASSUME HashInv, HashInv', RemoveAllValues
  PROVE  Bag!RemoveAll /\ UNCHANGED bits.counted
<1>1. /\ idx' = 0 /\ rehash' = rehash /\ bits' = bits /\ Idle
  BY DEF RemoveAllValues
<1>2. Occupied' = {} /\ ToMove' = {}
  BY <1>1, IdleIs, NothingOld DEF Occupied, ToMove
<1>3. Contents' = [k \in {} |-> [value |-> k, count |-> 1]]
  BY <1>2 DEF Contents
<1> QED BY <1>1, <1>3 DEF Bag!RemoveAll

-----------------------------------------------------------------------------
\* Every step of the table is a step of the bag, or changes nothing in it.
LEMMA NextRefines ==
  ASSUME HashInv, HashInv', [Next]_vars
  PROVE  [Bag!Next]_<<Contents, bits.counted>>
<1>1. CASE UNCHANGED vars
  <2>1. /\ Occupied' = Occupied /\ ToMove' = ToMove
    BY <1>1 DEF vars, Occupied, ToMove, Buckets
  <2>2. Contents' = Contents
    BY <1>1, <2>1 DEF vars, Contents, In, At, Entry
  <2> QED BY <1>1, <2>2 DEF vars
<1>2. ASSUME NEW k \in Key, NEW v \in Value,
             AddValue(k, v) \/ ReplaceValue(k, v) \/ SetValue(k, v)
      PROVE  [Bag!Next]_<<Contents, bits.counted>>
  <2>1. Idle /\ (AddNew(k, v) \/ CountAgain(k) \/ Overwrite(k, v))
    BY <1>2 DEF AddValue, ReplaceValue, SetValue
  <2>2. CASE AddNew(k, v)
    BY <2>1, <2>2, AddNewRefines DEF Bag!Next
  <2>3. CASE CountAgain(k)
    BY <2>1, <2>3, CountAgainRefines DEF Bag!Next
  <2>4. CASE Overwrite(k, v)
    BY <2>1, <2>4, OverwriteRefines DEF Bag!Next
  <2> QED BY <2>1, <2>2, <2>3, <2>4
<1>3. ASSUME NEW k \in Key, RemoveValue(k)
      PROVE  [Bag!Next]_<<Contents, bits.counted>>
  <2>1. Idle /\ BucketOf(k) \in Occupied /\ RemoveOne(BucketOf(k))
    BY <1>3, Searched DEF RemoveValue, HashInv
  <2> QED BY <2>1, RemoveOneRefines DEF Bag!Next
<1>4. ASSUME NEW b \in Buckets(idx), RemoveValueAtIndex(b)
      PROVE  [Bag!Next]_<<Contents, bits.counted>>
  <2>1. Idle /\ b \in Occupied /\ RemoveOne(b)
    BY <1>4 DEF RemoveValueAtIndex, Occupied
  <2> QED BY <2>1, RemoveOneRefines DEF Bag!Next
<1>5. CASE RemoveAllValues
  BY <1>5, RemoveAllRefines DEF Bag!Next
<1>6. ASSUME NEW c \in 1..Capacities[Last], SetCapacity(c)
      PROVE  [Bag!Next]_<<Contents, bits.counted>>
  <2>1. Idle /\ bits' = bits /\ Rehash(keys, values, counts, used, c - used, None)
    BY <1>6 DEF SetCapacity
  <2>2. Contents' = Contents
    BY <2>1, RehashRefines
  <2> QED BY <2>1, <2>2
<1>7. CASE MoveBucket
  BY <1>7, MoveRefines, MoveEffect
<1>8. CASE FinishRehash
  BY <1>8, FinishRefines DEF Bag!Next
<1> QED BY <1>1, <1>2, <1>3, <1>4, <1>5, <1>6, <1>7, <1>8 DEF Next

\* The sets, dictionaries and bags built on the table may think of it as a bag
\* of their keys: adding, counting, replacing and removing one key leaves every
\* other as it was, and growing, shrinking and rehashing cannot be seen.
THEOREM TableRefines == Spec => ImplementsKeyedBag
<1>1. Init => Bag!Init
  <2> SUFFICES ASSUME Init PROVE Bag!Init
    OBVIOUS
  <2>1. Occupied = {} /\ ToMove = {}
    BY NothingOld DEF Init, Occupied, ToMove
  <2>2. Contents = [k \in {} |-> [value |-> k, count |-> 1]]
    BY <2>1 DEF Contents
  <2>3. bits.counted \in BOOLEAN
    BY DEF Init
  <2> QED BY <2>2, <2>3 DEF Bag!Init
<1>2. HashInv /\ HashInv' /\ [Next]_vars => [Bag!Next]_<<Contents, bits.counted>>
  BY NextRefines
<1> QED BY <1>1, <1>2, InductiveInvariant, PTL DEF Spec, ImplementsKeyedBag, Bag!Spec

=============================================================================
