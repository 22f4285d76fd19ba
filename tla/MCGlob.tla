------------------------------- MODULE MCGlob -------------------------------
(***************************************************************************)
(* matchPattern against the reference glob: a state is one pattern and one *)
(* key, every pair up to MaxLen bytes an initial state.                    *)
(***************************************************************************)
EXTENDS Glob

VARIABLES pattern, key

Init ==
    /\ pattern \in Strings(PatChars, MaxLen)
    /\ key \in Strings(KeyChars, MaxLen)

\* KEYS holds no state between calls: the pair stays as it is.
Next == UNCHANGED <<pattern, key>>

Spec == Init /\ [][Next]_<<pattern, key>>

(* KEYS answers with exactly the keys the glob matches: matchPattern       *)
(* agrees with the reference on the pattern and key, the nested '*'       *)
(* recursion over every suffix and the trailing-'*' loop included.        *)
GlobAgrees == MatchPattern(pattern, key) = GlobRef(pattern, key)
=============================================================================
