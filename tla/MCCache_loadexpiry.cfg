\* Load of an expired entry racing a Store of the same key.
CONSTANTS
    p1 = p1
    p2 = p2
    k1 = k1
    k2 = k2
    k3 = k3
    v1 = v1
    v2 = v2
    NoProc = NoProc
    Procs = {p1, p2}
    Keys = {k1, k2, k3}
    Vals = {v1}
    ValLen <- OneValLen
    KeyLen = 1
    NumShards = 1
    ShardOf <- OneShard
    MaxMemory = 200
    TTLs = {0, 1}
    Tokens = {}
    Deltas = {}
    IntWidth = 2
    MaxCas = 1
    MaxTime = 3
SYMMETRY ProcSymmetry
SPECIFICATION Spec
PROPERTIES
    LoadExpiryRemovesOnlyExpired
VIEW View
