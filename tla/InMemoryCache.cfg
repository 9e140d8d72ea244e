CONSTANTS
    g1 = g1
    g2 = g2
    k1 = k1
    k2 = k2
    v1 = v1
    v2 = v2
    Absent = Absent
    Clients <- MCClients
    Keys <- MCKeys
    Values <- MCValues
    TTL = 1
    MaxTime = 2
SYMMETRY Symmetry
SPECIFICATION Spec
INVARIANT
    SnapshotInv
PROPERTIES
    NothingStale
    FreshLostOnlyToStaleGet
    ImplementsCache
