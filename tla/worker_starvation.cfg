SPECIFICATION FairSpec
CONSTANTS
  Workers = {w1}
  Jobs = {1, 2}
  AuthOf <- OneRowEach
  TxIds = {1, 2}
  NoTx = NoTx
  NoJob = NoJob
  BatchSize = 1
  HardFailAt = 5
  Foreign = {}
  Volatile = {1}
  Refundable = {}
  MaxFaults = 0
PROPERTY EveryPaidCallConcludes
CHECK_DEADLOCK FALSE
