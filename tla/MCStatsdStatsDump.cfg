CONSTANTS
  k1 = k1
  k2 = k2
  Keys = {k1}
  NoConfig = NoConfig
  IceBoxCap = 2
  TsCap = 2
  DropSizes = {1}
  AtomIds = {}
  MaxPushedAtomId = 0
  NonPlatformCap = 1
  Deltas = {1}
  BatchSizes = {}
  AtomCounts = {}
  LargeBatchThreshold = 3000
  LargeAtomThreshold = 1
  LargeBatchCap = 1
  ConfigCounters = {"dbStatFailed"}
  ConfigLists = {}
  DimSizes = {}
  IdStats = {}
  MetricIds = {}
  RestrictedErrors = {}
  LatencyCap = 1
  DbSizes = {}
  DbSizeCap = 1
  SubIds = {}
  MaxSubscriptions = 2
  MaxSteps = 4
SPECIFICATION Spec
INVARIANT DumpReportsNotedCounts
