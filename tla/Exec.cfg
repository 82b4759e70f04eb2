SPECIFICATION Spec
CONSTANTS
  Parts = {"fork", "pool", "session", "api", "tiers", "assembly"}
  FsExecs = 3
  FsServers = 3
  PoolSize = 2
  PoolExecs = 3
  PoolPids = 5
  SesPolicies = {"none", "reconnect", "restart"}
  SesFramings = {"reply", "none"}
  SesRuns = 2
  SesMessages = 2
  SesGens = 3
  ApRequests = 3
  ApLinks <- Links
  TiRuns = 3
  CfPairKeys = {"coverage", "guide"}
  CfKinds = {"process", "session", "api", "driver", "web"}
  CfLayerKeys = {"network", "trials", "checkpoint", "input", "loopback", "objectives"}
INVARIANT ForkIsSound
INVARIANT BlameIsRight
INVARIANT ExecutionIsOwn
INVARIANT FileIsHonoured
PROPERTY PoolIsReclaimed
CHECK_DEADLOCK FALSE
