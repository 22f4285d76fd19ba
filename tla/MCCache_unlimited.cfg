\* maxMemory 0, the default of the server's --maxmemory flag.
CONSTANTS
    p1 = p1
    p2 = p2
    k1 = k1
    k2 = k2
    k3 = k3
    v1 = v1
    v2 = v2
    NoProc = NoProc
    Procs = {p1, p2}
    Keys = {k1, k2, k3}
    Vals = {v1}
    ValLen <- OneValLen
    KeyLen = 1
    NumShards = 1
    ShardOf <- OneShard
    MaxMemory = 0
    TTLs = {0}
    Tokens = {}
    Deltas = {}
    IntWidth = 2
    MaxCas = 1
    MaxTime = 1
SYMMETRY ProcSymmetry
SPECIFICATION Spec
PROPERTIES
    NoEvictionWhenUnlimited
VIEW View
