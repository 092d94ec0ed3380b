SPECIFICATION FairSpec
CONSTANTS
  Workers = {w1}
  Jobs = {1, 2, 3}
  AuthOf <- TwoRowsOfOne
  TxIds = {1, 2, 3, 4}
  NoTx = NoTx
  NoJob = NoJob
  BatchSize = 2
  HardFailAt = 2
  Foreign = {}
  Volatile = {1}
  Refundable = {}
  MaxFaults = 1
PROPERTIES
  SubmittedIsFollowedUp
  PayableIsExecuted
CHECK_DEADLOCK FALSE
