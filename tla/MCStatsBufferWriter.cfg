CONSTANTS
  w1 = w1
  w2 = w2
  w0 = w0
  Writers <- MCWriters
  Worker = w0
  NoOwner = NoOwner
  UseQueue = TRUE
  HasClose = TRUE
  QueueCap = 1
  MaxAtoms = 3
  MaxCloses = 1
SPECIFICATION Spec
INVARIANTS
  TypeOK
  ExactlyOnceAccounting
  ClosedSocketOnlyAfterRace
  DaemonOnlyWhenOpen
PROPERTIES
  EveryCallReturns
  ContractSpec
