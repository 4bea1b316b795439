SPECIFICATION MCFairSpec
CONSTANTS
  MaxPid = 6
  DestroyPids = {1, 3, 5, 43}
  SleepTicks = {0, 1, 3}
  MaxBusyTicks = 3
  Shown <- FewTimes
  Modes <- AllModes
  Gap = 21
  TicksPerSecond = 3
  MaxTicks = 8
  Chars = {"x", "tab"}
  Tab = "tab"
  NoChar = "none"
  MaxKeys = 2
  Walks = {"tasks", "clock", "figures"}
INVARIANTS
  TypeOK
  ListInv
  CountIsExact
  ReadIsShown
  FiguresAreNear
PROPERTIES
  CallsReturn
  ReadEnds
