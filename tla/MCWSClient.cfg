SPECIFICATION FairSpec
CONSTANTS
  None = None
  MaxConns = 2
  Infos = {i1}
  Messages = {1}
  InitSyncs = {1}
  maximum_init_sync = 0
  maximum_payload_size = 1
  retry_connect_per_pings = 1
  MaxDisconnects = 1
  MaxFaults = 1
INVARIANT OneOfEach
PROPERTY PingNotices
PROPERTY MessagesAreSent
CHECK_DEADLOCK FALSE
