SPECIFICATION Spec
VIEW LiveState
CONSTANTS
  Keys = {"alt", "super"}
  KbdMax = 2
  MouseMax = 4
INVARIANTS
  PortHasReader
  ModifiersFollowKeys
PROPERTY
  SyncIsKept
