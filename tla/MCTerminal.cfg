SPECIFICATION MCSpec
CONSTANTS
  Chars = {"x", " "}
  Nul = "nul"
  Space = " "
  Texts = {"one", "two"}
  MaxCmd = 4
  DirSize = 3
  PromptLen = 1
  EchoSize = 4
  EchoRoom = 7
  MaxHistory = 3
  Height = 89
  MaxDelta = 1
  MaxOwed = 2
  MaxTail = 2
  MaxLog = 4
  LineBlank = 1
  Slash = 2
  LineLetters = {3}
  LineMaxCmd = 6
  NameSize = 3
  NewTxt <- DefaultName
  AppNameMax = 2
  MsgSize = 6
  ShortMsgSize = 4
  MsgRoom = 10
  Created = 1
  Launched = 2
  LaunchedAlone = 1
  Unrecognized = 2
  NewLine = "nl"
  FileBlank = "blank"
  FileLetters = {"x"}
  MaxSize = 6
  CatMax = 5
  LineMax = 3
  BufSize = 5
INVARIANTS
  InputIsString
  HistoryIsTail
  WindowOnHistory
  ArgumentsArrive
  FilesAreRead
