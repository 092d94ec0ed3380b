SPECIFICATION Spec
CONSTANTS
  Orgs = {o1, o2}
  NoOrg = NoOrg
  Emails = {e1}
  Keys = {1, 2}
  Clients = {c1, c2}
  NoKey = NoKey
  NoOne = NoOne
  Metered = {o1}
  Limit = 2
  ListLimit = 1
  NoCount = NoCount
  MaxEdits = 4
SYMMETRY Symmetry
INVARIANTS
  RevokedKeyOpensNothing
  QuotaOverrunIsBounded
  OrgsHaveOwners
PROPERTY UsedUpStaysOut
CHECK_DEADLOCK FALSE
