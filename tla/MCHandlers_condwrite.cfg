\* Two memcache connections on one key: conditional stores and cas at once.
CONSTANTS
    c1 = c1
    c2 = c2
    k1 = k1
    k2 = k2
    NoKey = NoKey
    Text = Text
    Clients = {c1, c2}
    Proto <- MemcacheOnly
    Keys = {k1}
    NumShards = 1
    ShardOf <- OneKey
    Unlimited = FALSE
    TTLs = {0}
    Deltas = {1}
    IntWidth = 2
    MaxCas = 2
    MaxTime = 1
SPECIFICATION Spec
PROPERTY ReadThenWriteAtomic
VIEW View
