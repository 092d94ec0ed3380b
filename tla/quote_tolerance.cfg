SPECIFICATION MarketSpec
CONSTANTS
  Friend = Friend
  Nothing = Nothing
  Deployments <- MCDeployments
  Requests <- MCRequests
  Splits <- MCSplits
  QuoteIds = {1}
  Validity = 1
  MaxKept = 1
  MaxTime = 1
  Wallets = {w1}
  RateLimit = 2
  RateWindow = 2
  MaxCalls = 0
INVARIANT AcceptsWithinTenPercent
CHECK_DEADLOCK FALSE
