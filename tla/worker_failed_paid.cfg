SPECIFICATION Spec
CONSTANTS
  Workers = {w1}
  Jobs = {1}
  AuthOf <- OneRowEach
  TxIds = {1, 2}
  NoTx = NoTx
  NoJob = NoJob
  BatchSize = 1
  HardFailAt = 5
  Foreign = {}
  Volatile = {}
  Refundable = {}
  MaxFaults = 1
INVARIANT FailedMeansUnpaid
CHECK_DEADLOCK FALSE
