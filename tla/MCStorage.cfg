SPECIFICATION Spec
CONSTANTS
  u1 = u1
  u2 = u2
  w1 = w1
  w2 = w2
  d1 = d1
  d2 = d2
  a = a
  b = b
  bad = bad
  None = None
  NotFound = NotFound
  Failed = Failed
  Users <- TwoUsers
  Workspaces <- TwoWorkspaces
  Docs <- TwoDocs
  WorkspaceOf <- AllInFirst
  Watched <- NoKeys
  MaxChecks = 0
  Objects <- TwoDocs
  Data = {a, b, bad}
  Undecodable = {bad}
  RoleIn <- OwnerAndMember
  Stored <- FirstStored
  Creator = u1
  Batches <- BothOrders
  Slots = {1, 2}
  MAX_ATTEMPTS = 2
  MaxRequests = 2
  MaxFailures = 2
INVARIANT TypeOK
INVARIANT CacheFresh
PROPERTY ImplementsStore
CHECK_DEADLOCK FALSE
