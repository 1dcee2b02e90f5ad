CONSTANTS
  u1 = u1
  u2 = u2
  Uids <- MCUids
  OverflowCounts = {0, 1}
  LoggerCap = 2
  SocketLossCap = 1
  RestartCap = 2
  QueryCap = 2
  TsCap = 2
  QueueSizes = {1, 2}
  StoreCounters = {"anomalyAlarmRegistered"}
  UidMapSettings = {"changes"}
  UidMapValues = {1}
  MaxSteps = 7
SPECIFICATION Spec
SYMMETRY MCSymmetry
INVARIANTS
  TypeOK
  HistoriesHoldNewest
  SocketLossOverflowFaithful
  QueueMaxIsFirstLargest
