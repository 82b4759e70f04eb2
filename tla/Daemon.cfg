SPECIFICATION Spec
CONSTANTS
  Parts = {"registry", "sync", "metrics", "guidance"}
  Requests = {"q1", "q2", "q3"}
  Names = {"n1", "n2"}
  Dirs = {"d1"}
  Nobody = Nobody
  MaxCampaigns = 1
  Procs = {"p1", "p2"}
  Found = {"e1", "e2"}
  OutboxDepth = 1
  MaxCrashes = 1
  MaxSaveFails = 1
  Sources = {"w1", "w2"}
  Intervals <- MCIntervals
  PerLevel = 2
  Retention = 5
  ExecBudget = 2
  MaxTime = 6
  MaxExecs = 2
  MaxResets = 1
  SgTarget <- Server
  SgMessages = {"a", "b"}
  SgLength = 3
  SgLabels <- Labels
  SgTraces = 1
  SgRare = 8
  SgDeclared <- Legal
  SgAppends = 2
  SgSetups <- Setups
INVARIANT RegistryIsSound
INVARIANT ReportedIsKept
INVARIANT CountersAreTrue
INVARIANT GuidanceIsSound
PROPERTY Spreads
CHECK_DEADLOCK FALSE
