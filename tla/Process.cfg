SPECIFICATION FairSpec
CONSTANTS
  Frames = {1, 2, 3, 4, 5, 6, 7, 8, 9, 10, 11}
  NoFrame = 0
  MaxPid = 3
  MaxWindow = 2
  MAX_WINDOWS_PER_PROCESS = 2
  ImagePages = 1
  StackPages = 1
  PageUnits = 2
  USER_HEAP_MAX = 4
  Images <- MCImages
  Increments <- MCIncrements
  AppFaults = {"page fault", "bad pointer", "exception"}
INVARIANTS
  TypeOK
  NoFrameUsedTwice
  FramesAccounted
  OnePlacePerProcess
  RunsInOwnSpace
  HeapBackedBelowBreak
PROPERTIES
  EveryProcessRuns
CHECK_DEADLOCK FALSE
