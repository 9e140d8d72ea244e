CONSTANTS
    c1 = c1
    c2 = c2
    k1 = k1
    k2 = k2
    v1 = v1
    v2 = v2
    Clients <- MCClients
    Keys <- MCKeys
    Values <- MCValues
    Absent = Absent
    TTL = 1
    MaxTime = 2
SYMMETRY Symmetry
SPECIFICATION RedisSpec
INVARIANT ExpiresInTime
PROPERTY ImplementsRemoteMap
