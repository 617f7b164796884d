SPECIFICATION Spec
CONSTANTS
  Dbs = {0, 1}
  Nil = Nil
  WrongType = WrongType
  MustBlock = MustBlock
  MaxLL = 15
  SecondMs = 2
  MaxStringLen = 3
  MaxIntset = 2
  MaxListpack = 2
  NodeMaxEntries = 2
  HllRegisters = 4
  HllSparseMaxBytes = 4
  ClientIds = {1, 2, 3}
  Begins <- MCBegins
  AclCats <- MCAclCats
  AclSubs <- MCAclSubs
  AclCmds <- MCAclCmds
  BufTokens = 2
  BlockTokens = 2
  ObufHard <- MCObufHard
  ObufSoft <- MCObufSoft
  ObufSoftTime = 0
  MemBuckets = 3
  TrackingMaxKeys = 1
  AclLogMax = 2
  Forever = 99
  EvpoolSize = 2
  MaxmemorySamples = 2
  EvictBatch = 1
  ScriptText <- MCScriptText
  LibCode <- MCLibCode
  Scenarios <- MCBusyScenario
CHECK_DEADLOCK FALSE
INVARIANT AssertionsHold
