SPECIFICATION Spec
CONSTANTS
  Workers = {w1, w2}
  Jobs = {1, 2}
  AuthOf <- OneRowEach
  TxIds = {1, 2, 3}
  NoTx = NoTx
  NoJob = NoJob
  BatchSize = 2
  HardFailAt = 2
  Foreign = {2}
  Volatile = {1}
  Refundable = {1}
  MaxFaults = 1
SYMMETRY Symmetry
INVARIANTS
  ReceiptBehindEveryClaim
  HardFailOnlyAfterBudget
PROPERTIES
  SettledHashIsFinal
  BookSpec
CHECK_DEADLOCK FALSE
