SPECIFICATION Spec
CONSTANTS
    k1 = k1
    k2 = k2
    k3 = k3
    m1 = m1
    m2 = m2
    m3 = m3
    s1 = s1
    s2 = s2
    None = None
    Shards = {k1}
    Nodes = {m1, s1, s2}
    ShardOf <- ShardOf1
    InitOwner <- InitOwner1
    InitEpoch <- InitEpoch1
    StartEpoch = 1
    MaxEpoch = 4
    MaxCrashes = 0
    InitFailed = {}
    InitManual = {}
    Suspicions <- S1OfM1
    Admin = {s1}
    PingLinks = {}
INVARIANT VoteInv

