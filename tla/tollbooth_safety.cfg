SPECIFICATION Spec
CONSTANTS
  Requests = {r1, r2, r3}
  Lower = Lower
  Upper = Upper
  Bad = Bad
  Headers = {Lower, Upper, Bad}
  NoHeader = NoHeader
  NonceOf <- MCNonceOf
  AuthOf <- MCAuthOf
  Valid = {Lower, Upper}
  MaxFaults = 2
SYMMETRY Symmetry
INVARIANTS
  ReplayIsRefused
  BooksBehindQueue
  UncontestedIsBooked
PROPERTY FeedSpec
CHECK_DEADLOCK FALSE
