SPECIFICATION Spec
VIEW LiveState
CONSTANTS
  MAX_FILES = 3
  MAX_FILE_SIZE = 2
  Names <- MCNames
  Trunc <- MCTrunc
  Byte <- MCByte
  InitialFiles <- MCInitialFiles
  YANO_BUF_SIZE = 2
  Texts <- MCTexts
  Typed = {1}
  Images = {"sunset.bmp"}
  NewTxt = "new.txt"
  Welcome <- MCWelcome
PROPERTIES
  DiskIsStore
  SavedIsReadable
