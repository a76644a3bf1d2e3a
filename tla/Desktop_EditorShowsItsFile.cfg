CONSTANTS
  Pids = {1}
  MAX_PENDING_EVENTS = 1
  MAX_WINDOWS_PER_PROCESS = 2
  MaxWindowId = 3
  MaxPresses = 2
  TextPaths = {t1}
  SourcePaths = {c1}
  UntitledC = c1
  Unsaved = unsaved
  MaxVersion = 1
  MaxOpen = 3
  Urls = {home, a}
  HOME = home
  None = None
  MAX_SCRIPT_NAV = 2
  MaxHistory = 2
  MaxOffset = 1
  MAX_DETACHED = 2
  MaxId = 3
  MAX_NAMES = 2
  FM_ROWS = 3
  FM_LG_VISIBLE = 2
  MaxDepth = 2
  Letters = {"a"}
  Newline = "nl"
  Space = " "
  TAB = 1
  max_chars = 2
  CAP = 3
SPECIFICATION Spec
CHECK_DEADLOCK FALSE
INVARIANT EditorShowsItsFile
