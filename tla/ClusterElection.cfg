SPECIFICATION Spec
CONSTANTS
    k1 = k1
    k2 = k2
    k3 = k3
    m1 = m1
    m2 = m2
    m3 = m3
    s1 = s1
    s2 = s2
    None = None
    Shards = {k1, k2, k3}
    Nodes = {m1, m2, m3, s1, s2}
    ShardOf <- ShardOf3
    InitOwner <- InitOwner3
    InitEpoch <- InitEpoch3
    StartEpoch = 3
    MaxEpoch = 4
    MaxCrashes = 0
    InitFailed = {m1}
    InitManual = {}
    Suspicions = {}
    Admin = {}
    PingLinks = {}
INVARIANT ElectionSafety

