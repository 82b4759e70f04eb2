SPECIFICATION FairSpec
CONSTANTS
  Callers = {"a", "b"}
  Workers = {"w1"}
  Ops = {"Start", "Stop", "Pause", "Resume", "Forget", "Close"}
  MaxStarts = 1
  MaxPauses = 1
  MaxFindings = 1
  MaxRestarts = 1
INVARIANT FinishIsClean
PROPERTY StoppingFinishes
PROPERTY ShutdownReturns
CHECK_DEADLOCK FALSE
