------------------------------- MODULE RHMap --------------------------------
(***************************************************************************)
(* The Robin-Hood open-addressing table of internal/cache (type Map,       *)
(* src/internal/cache/types.go, operations in src/unnamed/part_003).       *)
(*                                                                         *)
(* A bucket holds an entry (abstracted to its key) and its probe distance  *)
(* from the key's home bucket.  The cached 64-bit hash of a bucket always  *)
(* equals Hash[entry], so it is not kept separately.  Every map operation  *)
(* runs under the shard's exclusive lock, so each is one atomic step; the  *)
(* probe loops are RECURSIVE operators.  An insert of a key that is        *)
(* already present only rewrites the entry's fields (value, expiry, flags, *)
(* cas) and leaves the table as it is, so it is not a step at this level.  *)
(***************************************************************************)
EXTENDS Integers, FiniteSets

CONSTANTS
    Keys,        \* keys that clients insert and delete
    Hash,        \* Hash[k]: the key's hash (xxhash64 in the code), a Nat
    MinBuckets,  \* the smallest table: 16 in NewMap and delete
    NoEntry      \* an empty bucket (entry == nil)

ASSUME MinBuckets \in {2^i : i \in 1..8}
ASSUME Hash \in [Keys -> Nat]
ASSUME NoEntry \notin Keys

VARIABLES
    buckets,     \* buckets[i] for i \in 0..len-1: [entry, dist]
    numItems     \* the map's live-item counter

vars == <<buckets, numItems>>

Bucket == [entry : Keys \cup {NoEntry}, dist : Nat]

NumBuckets(b) == Cardinality(DOMAIN b)

\* growAt = int(size * 0.75), shrinkAt = int(size * 0.10), set by NewMap and resize.
GrowAt(n) == (n * 3) \div 4
ShrinkAt(n) == n \div 10

\* hash & mask, and the wrap-around step (idx + 1) & mask, for a power-of-two n.
Home(k, n) == Hash[k] % n
NextIdx(i, n) == (i + 1) % n

EmptyBuckets(n) == [i \in 0 .. n - 1 |-> [entry |-> NoEntry, dist |-> 0]]

Live(b) == Cardinality({i \in DOMAIN b : b[i].entry # NoEntry})

Contents == {buckets[i].entry : i \in {j \in DOMAIN buckets : buckets[j].entry # NoEntry}}

(***************************************************************************)
(* insertInternal: carry (k, d) forward from idx; a resident that is       *)
(* closer to its home than the carried key (dist < d) gives up its slot    *)
(* and is carried on instead; the first empty bucket takes the carried     *)
(* key.                                                                    *)
(***************************************************************************)
RECURSIVE InsertInternal(_, _, _, _)
InsertInternal(b, idx, k, d) ==
    LET n == NumBuckets(b) IN
    IF b[idx].entry = NoEntry
    THEN [b EXCEPT ![idx] = [entry |-> k, dist |-> d]]
    ELSE IF b[idx].dist < d
         THEN InsertInternal([b EXCEPT ![idx] = [entry |-> k, dist |-> d]],
                             NextIdx(idx, n), b[idx].entry, b[idx].dist + 1)
         ELSE InsertInternal(b, NextIdx(idx, n), k, d + 1)

Place(b, k) == InsertInternal(b, Home(k, NumBuckets(b)), k, 0)

\* Mutation: the lookup gives up one slot too early (<= for <).
RECURSIVE ProbeGivesUpEarly(_, _, _, _)
ProbeGivesUpEarly(b, k, idx, d) ==
    IF b[idx].entry = NoEntry \/ b[idx].dist <= d THEN -1
    ELSE IF b[idx].entry = k THEN idx
    ELSE ProbeGivesUpEarly(b, k, NextIdx(idx, NumBuckets(b)), d + 1)

(***************************************************************************)
(* lookup: walk from the home bucket; an empty bucket, or a resident       *)
(* closer to its home than the searcher is to k's, proves k absent.        *)
(***************************************************************************)
RECURSIVE Probe(_, _, _, _)
Probe(b, k, idx, d) ==
    IF b[idx].entry = NoEntry \/ b[idx].dist < d THEN -1
    ELSE IF b[idx].entry = k THEN idx
    ELSE Probe(b, k, NextIdx(idx, NumBuckets(b)), d + 1)

Lookup(b, k) == Probe(b, k, Home(k, NumBuckets(b)), 0)

(***************************************************************************)
(* resize: a fresh array of n buckets, the live entries of the old one     *)
(* reinserted in index order; numItems is reset and counts them again.     *)
(***************************************************************************)
RECURSIVE Rehash(_, _, _)
Rehash(old, i, nb) ==
    IF i = NumBuckets(old) THEN nb
    ELSE Rehash(old, i + 1,
                IF old[i].entry = NoEntry THEN nb ELSE Place(nb, old[i].entry))

Resize(b, n) == Rehash(b, 0, EmptyBuckets(n))

\* Mutation: resize that does not reset numItems before reinserting.
ResizedCountNoReset(b) == numItems + Live(b)

ResizedCount(b) == Live(b)

\* Mutation: the backward shift clears the next bucket before copying it.
RECURSIVE ShiftClearsFirst(_, _)
ShiftClearsFirst(b, idx) ==
    LET nx == NextIdx(idx, NumBuckets(b))
        c  == [b EXCEPT ![nx].entry = NoEntry]
    IN  IF b[nx].entry # NoEntry /\ b[nx].dist > 0
        THEN ShiftClearsFirst([c EXCEPT ![idx] = [entry |-> c[nx].entry,
                                                  dist |-> c[nx].dist - 1]], nx)
        ELSE b

\* Mutation: the backward shift forgets to decrement the moved distance.
RECURSIVE ShiftKeepsDistance(_, _)
ShiftKeepsDistance(b, idx) ==
    LET nx == NextIdx(idx, NumBuckets(b)) IN
    IF b[nx].entry # NoEntry /\ b[nx].dist > 0
    THEN ShiftKeepsDistance([b EXCEPT ![idx] = b[nx], ![nx].entry = NoEntry], nx)
    ELSE b

(***************************************************************************)
(* delete's backward shift: while the next bucket is occupied and away     *)
(* from its home, move it one slot back with its distance decremented.     *)
(* The vacated bucket keeps its stale distance, as in the code.            *)
(***************************************************************************)
RECURSIVE Shift(_, _)
Shift(b, idx) ==
    LET nx == NextIdx(idx, NumBuckets(b)) IN
    IF b[nx].entry # NoEntry /\ b[nx].dist > 0
    THEN Shift([b EXCEPT ![idx] = [entry |-> b[nx].entry, dist |-> b[nx].dist - 1],
                         ![nx].entry = NoEntry], nx)
    ELSE b

\* Mutation: grow only once the table is past its threshold (> for >=).
GrowDueLate(items, n) == items > GrowAt(n)

GrowDue(items, n) == items >= GrowAt(n)

ShrinkDue(items, n) == items < ShrinkAt(n) /\ n > MinBuckets

Init ==
    /\ buckets = EmptyBuckets(MinBuckets)
    /\ numItems = 0

(***************************************************************************)
(* insert of an absent key: grow first when numItems >= growAt, then       *)
(* insertInternal, which counts the new item.                              *)
(***************************************************************************)
Insert(k) ==
    LET n    == NumBuckets(buckets)
        grow == GrowDue(numItems, n)
        b1   == IF grow THEN Resize(buckets, 2 * n) ELSE buckets
        c1   == IF grow THEN ResizedCount(buckets) ELSE numItems
    IN  /\ Lookup(buckets, k) = -1
        /\ buckets' = Place(b1, k)
        /\ numItems' = c1 + 1

(***************************************************************************)
(* delete of a present key: clear its bucket, shift the run behind it      *)
(* back, then halve the table when it has become sparse.  Deleting an      *)
(* absent key returns nil and changes nothing.                             *)
(***************************************************************************)
Delete(k) ==
    LET n       == NumBuckets(buckets)
        idx     == Lookup(buckets, k)
        shifted == Shift([buckets EXCEPT ![idx].entry = NoEntry], idx)
        items   == numItems - 1
    IN  /\ idx # -1
        /\ IF ShrinkDue(items, n)
           THEN /\ buckets' = Resize(shifted, n \div 2)
                /\ numItems' = ResizedCount(shifted)
           ELSE /\ buckets' = shifted
                /\ numItems' = items

Next == \E k \in Keys : Insert(k) \/ Delete(k)

Spec == Init /\ [][Next]_vars

-----------------------------------------------------------------------------
(* Every occupied bucket's distance equals (i - (hash & mask)) mod         *)
(* capacity, the invariant spec section 3 states and that insertInternal,  *)
(* the backward shift of delete and resize must each preserve.             *)
DistanceIsProbeLength ==
    LET n == NumBuckets(buckets) IN
    \A i \in DOMAIN buckets :
        buckets[i].entry # NoEntry =>
            buckets[i].dist = (i - Home(buckets[i].entry, n)) % n

(* lookup finds exactly the keys that are in the table: every stored key   *)
(* is reached before the early exit of lookup fires, and no absent key is  *)
(* reported.  Insert relies on it to avoid storing a key twice and delete  *)
(* to find its victim.                                                     *)
LookupAgrees ==
    \A k \in Keys : (Lookup(buckets, k) # -1) <=> (k \in Contents)

(* numItems counts the occupied buckets, and no key occupies two buckets;  *)
(* insert, delete and the reset-and-recount of resize must agree.         *)
NumItemsCounts ==
    /\ numItems = Live(buckets)
    /\ Live(buckets) = Cardinality(Contents)

(* The table is never full, so the probe loops of insertInternal and       *)
(* lookup always reach an empty bucket: the grow threshold fires in time.  *)
NeverFull == numItems < NumBuckets(buckets)

(* Each insert adds exactly its key and each delete removes exactly its    *)
(* key: no entry is lost or duplicated by displacement, backward shift or  *)
(* resize.                                                                 *)
KS == INSTANCE KeySet WITH present <- Contents

RefinesKeySet == KS!Spec
=============================================================================
