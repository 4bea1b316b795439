SPECIFICATION MCSpec
CONSTANTS
  Memmaps <- BootMaps
  KernelEnd = 3
  Align = 4
  PageSize = 8
  Word = 64
  Sizes = {0, 1, 4, 6, 9}
  Values = {"x", "y"}
  Junk = "junk"
  MemTop = 40
  MaxBlocks = 3
  Buses = 2
  Devs = 2
  Fns = 3
  MaxArray = 3
  Numbers = {0, 7, 10, 99, 100, 1000}
  Strings <- FewStrings
  BootOrder <- FewApps
  Name <- FewNames
  Title <- FewTitles
  Suffixes <- FewSuffixes
  Terminal = "terminal"
  Editor = "yano"
  MAX_APPS = 3
  MAX_WINDOWS = 3
  BaseTasks = 3
  ExitPid = 6
  MaxPid = 8
INVARIANTS
  BlocksApart
  ContentsKept
  BlocksInRam
  ListsInventory
  WritesColumns
  AppsAreReached
PROPERTY
  OverreadInHeap
CHECK_DEADLOCK FALSE
