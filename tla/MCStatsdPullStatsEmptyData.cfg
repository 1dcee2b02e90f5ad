CONSTANTS
  p1 = p1
  m1 = m1
  PullAtoms = {p1}
  PullFailures = {"emptyData"}
  Durations = {0, 2}
  Intervals = {1, 2}
  LongMax = 3
  TsCap = 2
  Metrics = {m1}
  ErrorAtoms = {1, 2}
  ErrorTableCap = 1
  MaxSteps = 6
SPECIFICATION Spec
INVARIANT PullStatsSinceReset
