SPECIFICATION ScreenSpec
CONSTANTS
  Width = 3
  Height = 2
  Stride = 3
  Backup = 2
  Arrow <- SmallArrow
  Tail <- SmallTail
  TailReach <- SmallReach
  Scenes <- SmallScenes
  Papers = {"blue", "teal"}
  BootScreens = {"black"}
  MaxMove = 1
  Black = "black"
  Grey = "grey"
  Clear = "clear"
  Junk = "junk"
  Sides = {"screen"}
INVARIANT
  ImagesAreFrames
PROPERTY
  MovedCursorIsDrawn
