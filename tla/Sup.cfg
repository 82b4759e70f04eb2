SPECIFICATION FairSpec
CONSTANTS
  Workers = {"w1"}
  MaxRestarts = 1
  OutboxDepth = 2
  PipeCap = 1
  StatusCap = 2
  IncomingCap = 1
  MaxSends = 2
  MaxLongRuns = 1
INVARIANT StopLeavesNothing
INVARIANT WriterWithinRun
PROPERTY StopReturns
PROPERTY ImplementsContract
CHECK_DEADLOCK FALSE
