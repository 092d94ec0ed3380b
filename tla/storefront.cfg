SPECIFICATION Spec
CONSTANTS
  Friend = Friend
  Nothing = Nothing
  Deployments <- MCDeployments
  Requests <- MCOneRequest
  Splits <- MCSplits
  QuoteIds = {1, 2}
  Validity = 1
  MaxKept = 1
  MaxTime = 3
  Wallets = {w1}
  RateLimit = 2
  RateWindow = 2
  MaxCalls = 1
  Runs <- MCRuns
  Claims = {c1, c2}
  Accounts = {a1, a2}
  Insurance = a2
  Nobody = Nobody
  Amounts = {0, 1, 3}
  Funds = 3
  Window = 1
  MaxBlockTime = 2
  ClaimIds = {c1, c2}
  Runners = {r1, r2}
  NoClaim = NoClaim
INVARIANTS
  ErrorsMeanUnpaid
  SharesAddUp
  NeverBelowFloor
  RateOverrunIsBounded
  LeftoversAreSwept
  VaultIsSolvent
  ReputationCountsBonds
PROPERTIES
  KeysComeBack
  VaultKeepsBook
  MeshKeepsBook
CHECK_DEADLOCK FALSE
