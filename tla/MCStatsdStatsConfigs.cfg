CONSTANTS
  k1 = k1
  k2 = k2
  Keys <- MCKeys
  NoConfig = NoConfig
  IceBoxCap = 2
  TsCap = 2
  DropSizes = {1, 2}
  AtomIds = {}
  MaxPushedAtomId = 0
  NonPlatformCap = 1
  Deltas = {}
  BatchSizes = {}
  AtomCounts = {}
  LargeBatchThreshold = 3000
  LargeAtomThreshold = 1
  LargeBatchCap = 1
  ConfigCounters = {"dbCorrupted"}
  ConfigLists = {"activation"}
  DimSizes = {1, 2}
  IdStats = {"matcher"}
  MetricIds = {1}
  RestrictedErrors = {"insertError"}
  LatencyCap = 1
  DbSizes = {1}
  DbSizeCap = 1
  SubIds = {}
  MaxSubscriptions = 1
  MaxSteps = 7
SPECIFICATION Spec
SYMMETRY MCSymmetry
INVARIANTS
  TypeOK
  IceBoxHoldsNewestDeleted
  NoConfigLost
  TimestampListsHoldNewest
  ConfigStatsSinceReset
