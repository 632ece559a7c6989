SPECIFICATION FairSpec
CONSTANTS
  u1 = u1
  u2 = u2
  w1 = w1
  w2 = w2
  None = None
  Users <- TwoUsers
  Workspaces <- TwoWorkspaces
  Docs <- NoDocs
  WorkspaceOf <- Folders
  Founder <- OneFounder
  Invited <- OneInvited
  Watched <- OneKey
  MaxChecks = 1
  Slots = {1, 2}
  Levels = {"ReadOnly"}
  MaxRequests = 2
  MaxRestarts = 1
INVARIANT MembersAdmitted
INVARIANT OwnerStays
INVARIANT CacheIsPermitted
PROPERTY EventuallyAdmitted
CHECK_DEADLOCK FALSE
