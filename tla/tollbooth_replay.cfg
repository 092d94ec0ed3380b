SPECIFICATION Spec
CONSTANTS
  Requests = {r1, r2}
  Lower = Lower
  Upper = Upper
  Bad = Bad
  Headers = {Lower}
  NoHeader = NoHeader
  NonceOf <- OneNonce
  AuthOf <- OneAuth
  Valid = {Lower}
  MaxFaults = 0
INVARIANT NonceServedOnce
CHECK_DEADLOCK FALSE
