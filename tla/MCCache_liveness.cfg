\* Every operation returns, with CompareAndSwap enabled, on two shards so
\* that a goroutine on one shard never waits for the other.  Values all
\* have one size and Increment is left out, so CompareAndSwap's zero
\* memory delta is exact here and memUsed stays bounded.
CONSTANTS
    p1 = p1
    p2 = p2
    k1 = k1
    k2 = k2
    k3 = k3
    v1 = v1
    v2 = v2
    NoProc = NoProc
    Procs = {p1, p2}
    Keys = {k1, k2}
    Vals = {v1}
    ValLen <- OneValLen
    KeyLen = 1
    NumShards = 2
    ShardOf <- SplitShards
    MaxMemory = 60
    TTLs = {0, 1}
    Tokens = {0}
    Deltas = {}
    IntWidth = 2
    MaxCas = 1
    MaxTime = 2
SPECIFICATION Spec
PROPERTIES
    OpsComplete
VIEW View
