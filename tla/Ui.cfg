SPECIFICATION UiSpec
CONSTANTS
  Parts = {"cdp", "driver", "terminal"}
  CdCalls = {"c1", "c2"}
  CdInbox = 3
  CdPings = 1
  CdNobody = CdNobody
  UiKinds = {"tui", "gui", "web"}
  UiSeqs = 3
  UiEvents = 2
  UiLaunches = 4
  VtSizes <- TermSizes
  VtFirst <- TermFirst
  VtWrites <- TermWrites
  VtParams = 2
  VtString = 2
  VtOps = 4
  SpParties = {"waiter", "closer", "watcher"}
  PlFeedbacks = {"f1", "f2"}
  PlOthers = {"m1"}
  PlJudgements = 2
  ScBits = 3
  ScPublic = {1, 4, 5}
  ScLoopback = {7}
  ScPorts = {80, 443}
  ScNames = {{2}, {2, 3}, {4}}
  ScRules = 1
  RcConns = {"c1", "c2"}
  RcRequests = 3
INVARIANT ReplyIsOwn
INVARIANT SequenceIsOwn
PROPERTY StopEnds
PROPERTY TerminalIsSound
CHECK_DEADLOCK FALSE
