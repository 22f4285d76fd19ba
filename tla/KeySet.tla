------------------------------- MODULE KeySet -------------------------------
(***************************************************************************)
(* What the Robin-Hood map of internal/cache promises its shard: a set of  *)
(* keys that an insert of a key extends by exactly that key and a delete   *)
(* of a key shrinks by exactly that key.  Layout, probe distances and      *)
(* resizing are invisible at this level.                                   *)
(***************************************************************************)
CONSTANT Keys

VARIABLE present

Init == present = {}

Add(k) ==
    /\ k \notin present
    /\ present' = present \cup {k}

Remove(k) ==
    /\ k \in present
    /\ present' = present \ {k}

Next == \E k \in Keys : Add(k) \/ Remove(k)

Spec == Init /\ [][Next]_present
=============================================================================
