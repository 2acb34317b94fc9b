SPECIFICATION MCSpec
CONSTANTS
  Keys <- MCKeys
  Vals = {a, b}
  Hash <- MCHash
  InitialSize = 1
  EmptyVisits = 2
  ForceRatio = 1
  None = None
  FairEntries = 15
  MaxSize = 8
  MaxTimers = 2
  Delays = {0, 3}
  MsPerSec = 2
  MaxTime = 4
  MaxDepth = 2
  MaxBack = 1
INVARIANTS
  TablesAgree
  FramesLive
  SleepsInTime
PROPERTIES
  MapSpec
  RehashAdvances
  CallsRight
  TimersServed
