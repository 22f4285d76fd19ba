------------------------------- MODULE MCCache ------------------------------
(***************************************************************************)
(* Model-checking instance of Cache.  Sizes: a key is 1 byte, v1 1 byte    *)
(* and v2 3 bytes, so entries are 26 or 28 bytes and a counter 33 bytes.   *)
(***************************************************************************)
EXTENDS Cache, TLC

CONSTANTS p1, p2, k1, k2, k3, v1, v2

MCValLen == v1 :> 1 @@ v2 :> 3

\* Only v1 is stored.
OneValLen == v1 :> 1

\* One shard holding every key.
OneShard == [k \in {k1, k2, k3} |-> 1]

\* One shard holding k1 and k2 (Keys = {k1, k2}).
PairShard == k1 :> 1 @@ k2 :> 1

\* Two shards with one key each (Keys = {k1, k2}).
SplitShards == k1 :> 1 @@ k2 :> 2

ProcSymmetry == Permutations({p1, p2})
=============================================================================
