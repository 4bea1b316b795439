SPECIFICATION Spec
CONSTANT MAX_WINDOWS = 3
INVARIANTS
  NoWindowLost
  FocusInv
  AltTabReachesAll
PROPERTY
  FocusGoesToOpen
