\* Every command of the four handlers, c1 on memcache and HTTP connections,
\* c2 on Redis and Postgres, on one cache with the default maxMemory 0: one
\* key, on the second of two shards, so that a walk passes an empty shard
\* before it reaches the key.
CONSTANTS
    c1 = c1
    c2 = c2
    k1 = k1
    k2 = k2
    NoKey = NoKey
    Text = Text
    Clients = {c1, c2}
    Proto <- MixedProto
    Keys = {k1}
    NumShards = 2
    ShardOf <- KeyOnFirst
    Unlimited = TRUE
    TTLs = {1}
    Deltas = {1}
    IntWidth = 2
    MaxCas = 2
    MaxTime = 3
SPECIFICATION Spec
INVARIANTS
    TypeOK
PROPERTY IterateSeesStable
VIEW View
