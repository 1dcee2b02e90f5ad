CONSTANTS
  d1 = d1
  d2 = d2

  Dims <- MCDims
  NumFields = 2
  AggType <- MCAggType
  IsPulled = FALSE
  UseDiff = FALSE
  ValueDirection = "INCREASING"
  UseAbsoluteValueOnReset = FALSE
  UseZeroDefaultBase = FALSE
  SkipZeroDiffOutput = FALSE
  Threshold <- MCThresholdLtFloat
  NoThreshold = NoThreshold
  HardLimit = 1
  SoftLimit = 1
  BucketSize = 1
  Unset = Unset
  MaxCount = 0
  PushValues = {0, 2}
  MaxTime = 4
  Lag = 1
  Jump = 2
  MaxEvents = 5
SPECIFICATION Spec
CONSTRAINT WithinBudget
SYMMETRY MCSymmetry
INVARIANT
  ReportMatchesSamples
