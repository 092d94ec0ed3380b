SPECIFICATION Spec
CONSTANTS
  Requests = {r1, r2}
  Lower = Lower
  Upper = Upper
  Bad = Bad
  Headers = {Lower, Upper}
  NoHeader = NoHeader
  NonceOf <- TwoNonces
  AuthOf <- TwoAuths
  Valid = {Lower, Upper}
  MaxFaults = 0
INVARIANT BookedOnce
CHECK_DEADLOCK FALSE
