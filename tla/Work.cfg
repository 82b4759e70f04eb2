SPECIFICATION Spec
CONSTANTS
  Inputs = {1, 2, 3, 4, 5}
  Unreadable = {5}
  Hits <- MCHits
  StatesOf <- MCStatesOf
  Bug <- MCBug
  NoBug = NoBug
  Size <- MCSize
  Shrinks <- MCShrinks
  NoTrace = NoTrace
  TraceMax = 2
  Modes = {TRUE, FALSE}
  Stored <- MCStored
  Learnable = {3}
  SliceExecs = 1
  QueueCap = 1
  MaxCmds = 2
  BothFaults = FALSE
  Siblings = {4}
INVARIANT DiscoveriesAreKept
PROPERTY NoEcho
PROPERTY StopIsAnswered
CHECK_DEADLOCK FALSE
