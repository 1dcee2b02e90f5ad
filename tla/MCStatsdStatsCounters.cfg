CONSTANTS
  k1 = k1
  k2 = k2
  Keys = {}
  NoConfig = NoConfig
  IceBoxCap = 2
  TsCap = 2
  DropSizes = {1}
  AtomIds <- MCAtomIds
  MaxPushedAtomId = 2
  NonPlatformCap = 1
  Deltas = {1}
  BatchSizes <- MCBatchSizes
  AtomCounts <- MCAtomCounts
  LargeBatchThreshold = 2000
  LargeAtomThreshold = 2
  LargeBatchCap = 1
  ConfigCounters = {}
  ConfigLists = {}
  DimSizes = {}
  IdStats = {}
  MetricIds = {}
  RestrictedErrors = {}
  LatencyCap = 1
  DbSizes = {}
  DbSizeCap = 1
  SubIds = {1, 2, 3}
  MaxSubscriptions = 2
  MaxSteps = 6
SPECIFICATION Spec
INVARIANTS
  AtomStatsFaithful
  ActiveSubscriptionsTracked
  HistogramMatchesReads
  LargeBatchReadsRecorded
  DumpAtomStatsSinceReset
