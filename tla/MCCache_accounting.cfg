\* Memory accounting and the limit, on one shard of two keys whose limit of
\* 52 bytes holds two 26-byte entries but not an entry beside a 33-byte
\* counter.  CompareAndSwap is left out (no tokens): its zero memory delta
\* breaks MemAccounting when a swap changes the value's length.
CONSTANTS
    p1 = p1
    p2 = p2
    k1 = k1
    k2 = k2
    k3 = k3
    v1 = v1
    v2 = v2
    NoProc = NoProc
    Procs = {p1, p2}
    Keys = {k1, k2}
    Vals = {v1}
    ValLen <- OneValLen
    KeyLen = 1
    NumShards = 1
    ShardOf <- PairShard
    MaxMemory = 52
    TTLs = {0, 1}
    Tokens = {}
    Deltas = {1}
    IntWidth = 2
    MaxCas = 1
    MaxTime = 3
SYMMETRY ProcSymmetry
SPECIFICATION Spec
INVARIANTS
    TypeOK
    MemAccounting
PROPERTIES
VIEW View
