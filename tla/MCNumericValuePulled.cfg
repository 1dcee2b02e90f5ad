CONSTANTS
  d1 = d1
  d2 = d2

  Dims <- MCDims
  NumFields = 1
  AggType <- MCAggType
  IsPulled = TRUE
  UseDiff = TRUE
  ValueDirection = "INCREASING"
  UseAbsoluteValueOnReset = FALSE
  UseZeroDefaultBase = FALSE
  SkipZeroDiffOutput = FALSE
  Threshold = NoThreshold
  NoThreshold = NoThreshold
  HardLimit = 2
  SoftLimit = 2
  BucketSize = 2
  Unset = Unset
  MaxCount = 2
  PushValues = {0}
  MaxTime = 5
  Lag = 1
  Jump = 2
  MaxEvents = 5
SPECIFICATION Spec
CONSTRAINT WithinBudget
SYMMETRY MCSymmetry
INVARIANTS
  TypeOK
  DiffIsTrueGrowth
  IncompleteBucketNeverReported
  AnomalyChecksWholeBucket
  TrackerGetsFullBuckets
PROPERTY
  ContractSpec
