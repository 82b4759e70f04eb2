SPECIFICATION FairSpec
CONSTANTS
  Workers = {"w1"}
  MaxRestarts = 1
  OutboxDepth = 2
  PipeCap = 1
  StatusCap = 1
  IncomingCap = 1
  MaxSends = 2
  MaxLongRuns = 0
PROPERTY JoinReturns
CHECK_DEADLOCK FALSE
