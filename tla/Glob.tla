-------------------------------- MODULE Glob --------------------------------
(***************************************************************************)
(* matchPattern of src/internal/protocol/redis.go, the glob KEYS applies   *)
(* to every key: '*' matches any run, '?' any one byte, any other byte     *)
(* itself, over the whole key (spec 4.5).  Strings are sequences of        *)
(* one-character strings; Go's 0-based pattern[i] is p[i+1] here.          *)
(***************************************************************************)
EXTENDS Integers, Sequences

CONSTANTS
    PatChars,    \* bytes patterns are made of, "*" and "?" among them
    KeyChars,    \* bytes keys are made of
    MaxLen       \* bound: the longest pattern and key compared

\* All strings over alphabet A of length at most n.
Strings(A, n) == UNION {[1..m -> A] : m \in 0..n}

\* s[j-1:] in Go: the suffix from 1-based position j.
Suffix(s, j) == SubSeq(s, j, Len(s))

\* The loop after the main one: i skips the pattern's trailing '*'s.
RECURSIVE SkipStars(_, _)
SkipStars(p, i) == IF i <= Len(p) /\ p[i] = "*" THEN SkipStars(p, i + 1) ELSE i

RECURSIVE MatchPattern(_, _), MatchFrom(_, _, _, _), MatchFromNoSkip(_, _, _, _)

\* Mutation: the trailing '*'s are not skipped when the key runs out.
MatchFromNoSkip(p, s, i, j) ==
    IF i <= Len(p) /\ j <= Len(s)
    THEN IF p[i] = "*"
         THEN \/ i = Len(p)
              \/ \E jj \in j..Len(s) : MatchPattern(Suffix(p, i + 1), Suffix(s, jj))
         ELSE (p[i] = "?" \/ p[i] = s[j]) /\ MatchFromNoSkip(p, s, i + 1, j + 1)
    ELSE i = Len(p) + 1 /\ j = Len(s) + 1

(* The main loop from pattern[i], key[j].  A '*' that ends the pattern     *)
(* matches the rest; another '*' tries the rest of the pattern on every    *)
(* non-empty suffix key[j:] ... key[len-1:]; '?' or an equal byte steps    *)
(* both; anything else fails.  When either runs out, trailing '*'s are     *)
(* skipped and both must be used up.                                       *)
MatchFrom(p, s, i, j) ==
    IF i <= Len(p) /\ j <= Len(s)
    THEN IF p[i] = "*"
         THEN \/ i = Len(p)
              \/ \E jj \in j..Len(s) : MatchPattern(Suffix(p, i + 1), Suffix(s, jj))
         ELSE (p[i] = "?" \/ p[i] = s[j]) /\ MatchFrom(p, s, i + 1, j + 1)
    ELSE SkipStars(p, i) = Len(p) + 1 /\ j = Len(s) + 1

\* matchPattern(pattern, key): "*" alone matches at once.
MatchPattern(p, s) == p = <<"*">> \/ MatchFrom(p, s, 1, 1)

(* The reference definition of a whole-string glob: a '*' takes any        *)
(* prefix of the key, '?' one byte, a literal an equal byte.               *)
RECURSIVE GlobRef(_, _)
GlobRef(p, s) ==
    CASE p = <<>>       -> s = <<>>
      [] Head(p) = "*"  -> \E m \in 0..Len(s) : GlobRef(Tail(p), Suffix(s, m + 1))
      [] OTHER          -> /\ s # <<>>
                           /\ Head(p) \in {"?", Head(s)}
                           /\ GlobRef(Tail(p), Tail(s))

=============================================================================
