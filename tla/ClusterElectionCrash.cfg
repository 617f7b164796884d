SPECIFICATION Spec
CONSTANTS
    k1 = k1
    k2 = k2
    k3 = k3
    m1 = m1
    m2 = m2
    m3 = m3
    s1 = s1
    s2 = s2
    None = None
    Shards = {k1, k2}
    Nodes = {m1, m2, s1, s2}
    ShardOf <- ShardOf2
    InitOwner <- InitOwner2
    InitEpoch <- InitEpoch2
    StartEpoch = 2
    MaxEpoch = 3
    MaxCrashes = 1
    InitFailed = {m1}
    InitManual = {}
    Suspicions = {}
    Admin = {}
    PingLinks <- LinkM2S1
INVARIANTS TypeOK OneVotePerEpoch
PROPERTY NodesConfEpochsGrow

