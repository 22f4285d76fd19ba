------------------------------ MODULE MCRHMap -------------------------------
(***************************************************************************)
(* Model-checking instance of RHMap.  Hashes are chosen so that homes      *)
(* collide and wrap around the end of the table at every size the runs    *)
(* reach, which is where displacement and backward shift do their work.   *)
(***************************************************************************)
EXTENDS RHMap, TLC

CONSTANTS k1, k2, k3, k4, k5, k6, k7

\* Seven keys over a table that starts at 4 buckets: it grows to 8 at the
\* third insert and to 16 at the sixth, and shrinks back when emptied.
\* Homes at size 4 / 8 / 16: k1 3/3/3, k2 3/3/3, k3 3/7/7, k4 2/2/2,
\* k5 3/7/15, k6 3/3/11, k7 0/0/0.
HashGrowing ==
    k1 :> 3 @@ k2 :> 3 @@ k3 :> 7 @@ k4 :> 2 @@ k5 :> 15 @@ k6 :> 11 @@ k7 :> 0
=============================================================================
