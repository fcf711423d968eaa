----------------------------- MODULE CFBasicHash -----------------------------
(***************************************************************************)
(* The open-addressing hash table under CFSet, CFDictionary and CFBag, with *)
(* tombstones, growth, shrinking and rehashing, and a count for each key    *)
(* of a bag.                                                               *)
(*                                                                         *)
(* A key's hash code is abstracted to the order in which its buckets are   *)
(* probed, which the constant Probe gives for every table size and style.  *)
(* A rehash moves one bucket in each step.                                 *)
(***************************************************************************)
EXTENDS Integers, FiniteSets

CONSTANTS
    Key, Value,
    Style,       \* the hashing styles: linear, double, exponential
    Last,        \* the index of the largest table
    Sizes,       \* __CFBasicHashTableSizes
    Capacities,  \* __CFBasicHashTableCapacities
    Probe,       \* Probe[style][idx][key]: the buckets in probing order
    Shrink,      \* how many sizes down (2) a table must fit to be shrunk
    SlowShrink,  \* the same (5) for a table that grows fast
    ScanFloor,   \* tombstones count in tables this large (20)
    ScanShare,   \* and from this share of the buckets (4: a quarter)
    DeletedMod,  \* `deleted' wraps here (2^16)
    CountMax,    \* CountMax[width]: the largest count of that width
    None, Empty, Deleted

Index == 0..Last
Buckets(t) == 0..Sizes[t] - 1

ASSUME TableAssumption ==
    /\ Last \in Nat
    /\ Sizes \in [Index -> Nat] /\ Capacities \in [Index -> Nat]
    /\ Sizes[0] = 0
    /\ \A t \in Index : Capacities[t] <= Sizes[t]
    /\ \A t, u \in Index : t <= u => Capacities[t] <= Capacities[u]
ASSUME ProbeAssumption ==
    \A s \in Style, t \in Index, k \in Key :
        /\ Probe[s][t][k] \in [Buckets(t) -> Buckets(t)]
        /\ \A b \in Buckets(t) : \E i \in Buckets(t) : Probe[s][t][k][i] = b
ASSUME NoneAssumption == /\ None \notin Value /\ None \notin Key \X Value
                         /\ Empty \notin Key /\ Deleted \notin Key
                         /\ Empty # Deleted
ASSUME BoundAssumption ==
    /\ Shrink \in Nat /\ SlowShrink \in Nat /\ ScanFloor \in Nat
    /\ ScanShare \in Nat \ {0} /\ DeletedMod \in Nat \ {0}

Width == DOMAIN CountMax
ASSUME CountAssumption ==
    /\ Width # {} /\ IsFiniteSet(Width) /\ Width = 0..Cardinality(Width) - 1
    /\ CountMax \in [Width -> Nat \ {0}]
    /\ \A v, w \in Width : v < w => CountMax[v] < CountMax[w]

WidestWidth == CHOOSE w \in Width : \A x \in Width : CountMax[x] <= CountMax[w]
Limit == CountMax[WidestWidth]  \* LONG_MAX

VARIABLES
    bits,      \* style, counted (counts_offset) and fast (fast_grow)
    idx,       \* num_buckets_idx
    keys, values, counts,
    width,     \* counts_width
    used,      \* used_buckets
    deleted,
    rehash     \* the rehash under way: the old arrays, the next bucket of
               \* them to move and what is to be added afterwards
vars == <<bits, idx, keys, values, counts, width, used, deleted, rehash>>

NoRehash == [keys |-> <<>>, values |-> <<>>, counts |-> <<>>,
             at |-> -1, add |-> None]
Idle == rehash.at = -1

Blank(t, x) == [b \in Buckets(t) |-> x]

Init ==
    /\ bits \in [style : Style, counted : BOOLEAN, fast : BOOLEAN]
    /\ idx = 0
    /\ keys = Blank(0, Empty)
    /\ values = Blank(0, None)
    /\ counts = Blank(0, 0)
    /\ width = 0
    /\ used = 0
    /\ deleted = 0
    /\ rehash = NoRehash

-----------------------------------------------------------------------------
(***************************************************************************)
(* Probing                                                                 *)
(***************************************************************************)
Path(t, k) == Probe[bits.style][t][k]

\* The i-th bucket on k's path is the first whose content is in S.
StopsAt(t, ks, k, S, i) ==
    /\ ks[Path(t, k)[i]] \in S
    /\ \A j \in Buckets(t) : j < i => ks[Path(t, k)[j]] \notin S

FirstOf(t, ks, k, S) ==
    Path(t, k)[CHOOSE i \in Buckets(t) : StopsAt(t, ks, k, S, i)]

\* __CFBasicHashFindBucket: is the count of the bucket it returns positive?
Found(k) == \E i \in Buckets(idx) : /\ StopsAt(idx, keys, k, {Empty, k}, i)
                                    /\ keys[Path(idx, k)[i]] = k
BucketOf(k) == FirstOf(idx, keys, k, {Empty, k})

\* The bucket to fill: the first tombstone, if one came before the end.
FreeBucket(k) == FirstOf(idx, keys, k, {Empty, Deleted})

\* Mutant of NoCollision: the test for an entry in the bucket is left out.
NoCollisionHome(k) == Path(idx, k)[0]

\* __CFBasicHashFindBucket_NoCollision: after a rehash there are none.
NoCollision(k) == FirstOf(idx, keys, k, {Empty})

Count(b) == IF bits.counted THEN counts[b] ELSE 1

-----------------------------------------------------------------------------
(***************************************************************************)
(* __CFBasicHashRehash                                                     *)
(***************************************************************************)
IndexForCapacity(c) ==
    CHOOSE t \in Index : /\ c <= Capacities[t]
                         /\ \A u \in Index : c <= Capacities[u] => t <= u

Fits(c) == \E t \in Index : c <= Capacities[t]

\* Mutant of NewIndex: room for what is there, not for what is to come.
NewIndexUsed(u, n) == IF n = 0 THEN idx ELSE IndexForCapacity(u)

NewIndex(u, n) ==
    CASE n = 0 -> idx
      [] n = 1 /\ bits.fast -> IndexForCapacity(u + 1) + 1
      [] n > 1 \/ (n = 1 /\ ~bits.fast) -> IndexForCapacity(u + n)
      [] n < 0 -> IndexForCapacity(u)

\* Mutant of Rehash: `deleted' is not reset.
RehashKeepsDeleted(ks, vs, cs, u, n, add) ==
    /\ Fits(u + n)
    /\ NewIndex(u, n) \in Index
    /\ idx' = NewIndex(u, n)
    /\ keys' = Blank(idx', Empty)
    /\ values' = Blank(idx', None)
    /\ counts' = Blank(idx', 0)
    /\ used' = u
    /\ UNCHANGED deleted
    /\ rehash' = [keys |-> ks, values |-> vs, counts |-> cs,
                  at |-> 0, add |-> add]

\* A rehash of the arrays ks, vs and cs with u entries for n more.  A table
\* larger than the last one is out of the model (the code halts there).
Rehash(ks, vs, cs, u, n, add) ==
    /\ Fits(u + n)
    /\ NewIndex(u, n) \in Index
    /\ idx' = NewIndex(u, n)
    /\ keys' = Blank(idx', Empty)
    /\ values' = Blank(idx', None)
    /\ counts' = Blank(idx', 0)
    /\ used' = u
    /\ deleted' = 0
    /\ rehash' = [keys |-> ks, values |-> vs, counts |-> cs,
                  at |-> 0, add |-> add]

MoveBucket ==
    /\ rehash.at \in DOMAIN rehash.keys
    /\ rehash' = [rehash EXCEPT !.at = @ + 1]
    /\ LET k == rehash.keys[rehash.at]
           b == NoCollision(k)
       IN  \/ /\ k \in Key
              /\ keys' = [keys EXCEPT ![b] = k]
              /\ values' = [values EXCEPT ![b] = rehash.values[rehash.at]]
              /\ counts' = [counts EXCEPT ![b] = rehash.counts[rehash.at]]
           \/ k \notin Key /\ UNCHANGED <<keys, values, counts>>
    /\ UNCHANGED <<bits, idx, width, used, deleted>>

-----------------------------------------------------------------------------
(***************************************************************************)
(* __CFBasicHashAddValue                                                   *)
(***************************************************************************)
\* Fill bucket b; its count goes up from what the bucket holds.
Fill(b, k, v) ==
    /\ keys' = [keys EXCEPT ![b] = k]
    /\ values' = [values EXCEPT ![b] = v]
    /\ counts' = [counts EXCEPT ![b] = IF bits.counted THEN @ + 1 ELSE @]
    /\ used' = used + 1

\* The rehash is over, and what made the table grow is added.
FinishRehash ==
    /\ ~Idle
    /\ rehash.at \notin DOMAIN rehash.keys
    /\ rehash' = NoRehash
    /\ \/ /\ rehash.add # None
          /\ Fill(NoCollision(rehash.add[1]), rehash.add[1], rehash.add[2])
       \/ rehash.add = None /\ UNCHANGED <<keys, values, counts, used>>
    /\ UNCHANGED <<bits, idx, width, deleted>>

AddNew(k, v) ==
    /\ ~Found(k)
    /\ \/ /\ Capacities[idx] < used + 1
          /\ Rehash(keys, values, counts, used, 1, <<k, v>>)
          /\ UNCHANGED <<bits, width>>
       \/ /\ Capacities[idx] >= used + 1
          /\ Fill(FreeBucket(k), k, v)
          /\ deleted' = IF keys[FreeBucket(k)] = Deleted
                        THEN deleted - 1 ELSE deleted
          /\ UNCHANGED <<bits, idx, width, rehash>>

\* Mutant of CountAgain: the count goes past what its width holds.
CountAgainUnbumped(k) ==
    /\ Found(k) /\ bits.counted /\ Count(BucketOf(k)) < Limit
    /\ counts' = [counts EXCEPT ![BucketOf(k)] = @ + 1]
    /\ UNCHANGED <<bits, idx, keys, values, width, used, deleted, rehash>>

\* A key of a bag that is in is counted, in a wider array if need be.
CountAgain(k) ==
    /\ Found(k) /\ bits.counted /\ Count(BucketOf(k)) < Limit
    /\ counts' = [counts EXCEPT ![BucketOf(k)] = @ + 1]
    /\ width' = IF counts[BucketOf(k)] < CountMax[width]
                THEN width ELSE width + 1
    /\ UNCHANGED <<bits, idx, keys, values, used, deleted, rehash>>

Overwrite(k, v) ==
    /\ Found(k)
    /\ values' = [values EXCEPT ![BucketOf(k)] = v]
    /\ UNCHANGED <<bits, idx, keys, counts, width, used, deleted, rehash>>

AddValue(k, v) == Idle /\ (AddNew(k, v) \/ CountAgain(k))
ReplaceValue(k, v) == Idle /\ Overwrite(k, v)
SetValue(k, v) == Idle /\ (AddNew(k, v) \/ Overwrite(k, v))

-----------------------------------------------------------------------------
(***************************************************************************)
(* __CFBasicHashRemoveValue                                                *)
(***************************************************************************)
Levels == IF bits.fast THEN SlowShrink ELSE Shrink

\* Mutant of RemoveAt: the bucket is emptied, and ends paths that go on.
RemoveAtEmpties(b) ==
    /\ keys' = [keys EXCEPT ![b] = Empty]
    /\ values' = [values EXCEPT ![b] = None]
    /\ counts' = [counts EXCEPT ![b] = IF bits.counted THEN @ - 1 ELSE @]
    /\ used' = used - 1
    /\ UNCHANGED <<bits, idx, width, deleted, rehash>>

RemoveAt(b) ==
    LET ks == [keys EXCEPT ![b] = Deleted]
        vs == [values EXCEPT ![b] = None]
        cs == [counts EXCEPT ![b] = IF bits.counted THEN @ - 1 ELSE @]
        gone == (deleted + 1) % DeletedMod
        sparse == Levels < idx /\ used - 1 < Capacities[idx - Levels]
        worn == \/ gone = 0
                \/ /\ ScanFloor <= Sizes[idx]
                   /\ Sizes[idx] \div ScanShare <= gone
    IN  /\ \/ sparse /\ Rehash(ks, vs, cs, used - 1, -1, None)
           \/ ~sparse /\ worn /\ Rehash(ks, vs, cs, used - 1, 0, None)
           \/ /\ ~sparse /\ ~worn
              /\ keys' = ks /\ values' = vs /\ counts' = cs
              /\ used' = used - 1
              /\ deleted' = gone
              /\ UNCHANGED <<idx, rehash>>
        /\ UNCHANGED <<bits, width>>

\* A count goes down to one, then the key goes; at the limit it is stuck.
RemoveOne(b) ==
    \/ Count(b) = 1 /\ RemoveAt(b)
    \/ /\ Count(b) \in 2..Limit - 1
       /\ counts' = [counts EXCEPT ![b] = @ - 1]
       /\ UNCHANGED <<bits, idx, keys, values, width, used, deleted, rehash>>

RemoveValue(k) == Idle /\ Found(k) /\ RemoveOne(BucketOf(k))
RemoveValueAtIndex(b) == Idle /\ keys[b] \in Key /\ RemoveOne(b)

\* __CFBasicHashDrain, of a table that lives on.
RemoveAllValues ==
    /\ Idle /\ idx # 0
    /\ idx' = 0
    /\ keys' = Blank(0, Empty) /\ values' = Blank(0, None)
    /\ counts' = Blank(0, 0)
    /\ used' = 0 /\ deleted' = 0
    /\ UNCHANGED <<bits, width, rehash>>

SetCapacity(c) ==
    /\ Idle /\ used < c
    /\ Rehash(keys, values, counts, used, c - used, None)
    /\ UNCHANGED <<bits, width>>

-----------------------------------------------------------------------------
Next ==
    \/ \E k \in Key, v \in Value :
          AddValue(k, v) \/ ReplaceValue(k, v) \/ SetValue(k, v)
    \/ \E k \in Key : RemoveValue(k)
    \/ \E b \in Buckets(idx) : RemoveValueAtIndex(b)
    \/ RemoveAllValues
    \/ \E c \in 1..Capacities[Last] : SetCapacity(c)
    \/ MoveBucket
    \/ FinishRehash

Spec == Init /\ [][Next]_vars

-----------------------------------------------------------------------------
TypeOK ==
    /\ bits \in [style : Style, counted : BOOLEAN, fast : BOOLEAN]
    /\ idx \in Index
    /\ keys \in [Buckets(idx) -> Key \cup {Empty, Deleted}]
    /\ values \in [Buckets(idx) -> Value \cup {None}]
    /\ counts \in [Buckets(idx) -> Nat]
    /\ \A b \in Buckets(idx) : counts[b] <= CountMax[width]
    /\ width \in Width
    /\ used \in Nat /\ deleted \in 0..DeletedMod - 1
    /\ rehash.at \in Int

Occupied == {b \in Buckets(idx) : keys[b] \in Key}
Tombstones == {b \in Buckets(idx) : keys[b] = Deleted}
\* The buckets of the old table that are still to be moved.
ToMove == {b \in DOMAIN rehash.keys : b >= rehash.at /\ rehash.keys[b] \in Key}

(***************************************************************************)
(* Every entry is the one that a search for its key ends at: no removal,   *)
(* add or rehash cuts a path, and no key is in twice.                      *)
(***************************************************************************)
EveryEntryIsFound ==
    \A b \in Occupied : Found(keys[b]) /\ BucketOf(keys[b]) = b

(***************************************************************************)
(* The two bucket counters are exact, the wrap of `deleted' included, and  *)
(* the counts of a bag, which CFBasicHashGetCount adds up over all the     *)
(* buckets, are positive for entries and zero elsewhere.                   *)
(***************************************************************************)
CountersAreExact ==
    /\ used = Cardinality(Occupied) + Cardinality(ToMove)
    /\ deleted = Cardinality(Tombstones)
    /\ \A b \in Buckets(idx) :
          counts[b] > 0 <=> bits.counted /\ keys[b] \in Key

(***************************************************************************)
(* While a rehash runs, the new table has room for everything that is      *)
(* still to be moved or added, so that no search without collisions comes  *)
(* back empty-handed.                                                      *)
(***************************************************************************)
RehashHasRoom ==
    ~Idle => Capacities[idx] >= used + (IF rehash.add # None THEN 1 ELSE 0)

-----------------------------------------------------------------------------
(***************************************************************************)
(* The table is a bag, a dictionary or a set of the keys in both arrays:   *)
(* no operation and no step of a rehash adds, loses or changes another     *)
(* key.                                                                    *)
(***************************************************************************)
In(k, ks, S) == \E b \in S : ks[b] = k
At(k, ks, S) == CHOOSE b \in S : ks[b] = k
Entry(v, c) == [value |-> v, count |-> IF bits.counted THEN c ELSE 1]

Contents ==
    [k \in {keys[b] : b \in Occupied} \cup {rehash.keys[b] : b \in ToMove} |->
       IF In(k, keys, Occupied)
       THEN LET b == At(k, keys, Occupied) IN Entry(values[b], counts[b])
       ELSE LET b == At(k, rehash.keys, ToMove)
            IN  Entry(rehash.values[b], rehash.counts[b])]

Bag == INSTANCE KeyedBag WITH bag <- Contents, counted <- bits.counted

ImplementsKeyedBag == Bag!Spec
=============================================================================
