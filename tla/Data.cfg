SPECIFICATION Spec
CONSTANTS
  Parts = {"blobs", "findings", "audit", "triage", "sandbox", "pcap", "capture", "learner", "fixup", "arena"}
  TrBytes = 4
  TrTrials = 2
  TrBudget = 6
  TrLinks = {"marker"}
  Digests = {d1, d2}
  Writers = {w1, w2}
  Readers = {"r1"}
  MaxKept = 1
  MaxSaves = 2
  MaxFaults = 1
  Pumps = {p1, p2}
  Handlers = {"h1"}
  Signatures = {s1, s2}
  NoID = NoID
  NoRow = NoRow
  QueueCap = 1
  MaxReports = 3
  MaxCalls = 1
  Texts = {"x", "y"}
  MaxEntries = 3
  MaxEdits = 2
  PcSpace = 16
  PcSyn = {3, 13}
  PcBytes = 5
  PcLongest = 3
  PcCapacity = 6
  PcSegments = 4
  CpFields <- Fields
  CpValues <- Values
  CpScheme = 5
  CpMin = 2
  CpTracked = 2
  CpExchanges = 2
  CpTotal = 3
  LnAlphabet <- Alphabet
  LnTargets <- Targets
  LnQueries = 24
  LnStates = 4
  LnWords = 2
  LnLength = 3
  LnPatience = {3, 99}
  FxByte = 4
  FxTrees <- Trees
  FxSuppress <- Suppressed
  FxEdits = 2
  ArNodes = 2
  ArKids = 3
  ArBytes = 2
  ArSeeds <- Seeds
  ArEdits = 2
  ArLoops = 2
SYMMETRY Symmetry
INVARIANT StoreIsSound
INVARIANT FindingsAreAccounted
INVARIANT ReproducerIsKept
INVARIANT LevelIsHonest
INVARIANT SessionsAreUsable
INVARIANT TreesAreTrue
PROPERTY JudgementIsKept
CHECK_DEADLOCK FALSE
