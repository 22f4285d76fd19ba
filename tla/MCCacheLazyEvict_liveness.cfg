\* Every operation returns, with a limit that holds one entry per shard, so
\* that eviction rounds run over maps holding marked entries, and two shards
\* (k1 on the first) so that Sweep, SweepEvicted and Clear walk on.
CONSTANTS
    p1 = p1
    p2 = p2
    k1 = k1
    k2 = k2
    k3 = k3
    v1 = v1
    v2 = v2
    NoProc = NoProc
    Procs = {p1, p2}
    Keys = {k1}
    Vals = {v1}
    ValLen <- OneValLen
    KeyLen = 1
    NumShards = 2
    ShardOf <- OneShard
    MaxMemory = 60
    TTLs = {0, 1}
    Tokens = {0}
    Deltas = {1}
    IntWidth = 2
    MaxCas = 1
    MaxTime = 3
SPECIFICATION Spec
INVARIANTS
    TypeOK
PROPERTIES
    OpsComplete
VIEW View
