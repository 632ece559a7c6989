SPECIFICATION HttpFairSpec
CONSTANTS
  NoToken = NoToken
  Callers = {c1, c2}
  Users = {u1, u2}
  Buffer = 1
  Lifetime = 1
  Retries = 1
  MaxTime = 2
  MaxTokens = 3
  MaxDrops = 1
INVARIANT SentFresh
PROPERTY WaitersLeave
CHECK_DEADLOCK FALSE
