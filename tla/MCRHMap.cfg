CONSTANTS
    k1 = k1
    k2 = k2
    k3 = k3
    k4 = k4
    k5 = k5
    k6 = k6
    k7 = k7
    NoEntry = NoEntry
    Keys = {k1, k2, k3, k4, k5, k6, k7}
    Hash <- HashGrowing
    MinBuckets = 4
SPECIFICATION Spec
INVARIANTS
    DistanceIsProbeLength
    LookupAgrees
    NumItemsCounts
    NeverFull
PROPERTIES
    RefinesKeySet
