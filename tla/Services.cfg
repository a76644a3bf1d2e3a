CONSTANTS
  NUM_RX_DESC = 3
  NUM_TX_DESC = 2
  MaxRx = 5
  MaxTx = 5
  Local = {gw}
  Remote = {r}
  Gateway = gw
  Seqs = {1, 2}
  MAX_ENTRIES = 1
  MAX_REPLIES = 1
  ArpTries = 2
  MaxArrivals = 3
  MaxPings = 2
  Names = {n1, n2}
  Servers = {s1, s2}
  None = None
  MAX_QUEUED = 1
  DhcpTries = 2
  DnsTries = 2
  MaxTick = 2
  MaxCalls = 3
  MaxFragments = 3
  MaxPieces = 3
  MaxData = 1
  MaxExtras = 1
  Sites = {a, b}
  MAX_REDIRECTS = 3
  MaxFetches = 2
  FileNames = {x, y}
  Dirs = {d}
  LastCluster = 5
  SLOTS = 2
  MaxLen = 2
  MaxFatCalls = 6
  N = 2
  MaxTag = 4
  Root = data
  Parts = {p}
  Sizes = {1, 2}
  MAX_RAM_BYTES = 3
  DownloadNames = 2
  MaxSaves = 3
  Glyphs = {"x"}
  MaxTyped = 2
  MaxEvents = 1
  Keys = {k1, k2}
  HAS_WHEEL = TRUE
  MaxQueue = 2
  MAX_DEVICES = 2
  MaxFaults = 1
  MaxUnplugs = 1
SPECIFICATION Spec
CHECK_DEADLOCK FALSE
INVARIANTS
  TypeOK
  FramesGoThrough
  AnswersAreToTheQuestion
  
  FetchLeavesNothingOpen
  
  OkMeansDone
  DisksHoldWhatWasAsked
  ClockIsTheChips
  ScreenShowsTheScene
  AttachedListenAlone
  LoopKnowsWhatIsHeld
