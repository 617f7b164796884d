CONSTANTS
    Dbs = {0, 1}
    Nil = Nil
    WrongType = WrongType
    MustBlock = MustBlock
    MaxLL = 15
    SecondMs = 2
    MaxStringLen = 3
    MaxIntset = 2
    MaxListpack = 2
    NodeMaxEntries = 2
    HllRegisters = 4
    HllSparseMaxBytes = 4
    ItemsPerCmd = 2
    MaxClock = 3
    Limit = 3
    Workloads <- MCWorkloads
    Queries <- MCQueries
SPECIFICATION Spec
INVARIANTS NoEmptyContainer EncodingsFit StreamConsistent ReplicaInSync RewriteRestores  KeySpecsHonest ResultsCorrect
CHECK_DEADLOCK FALSE
