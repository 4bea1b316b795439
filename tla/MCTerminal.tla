----------------------------- MODULE MCTerminal -----------------------------
(***************************************************************************)
(* The three parts of the terminal, each on its own instance: the screen   *)
(* and the input line (Terminal), the taking apart of a line (CommandLine) *)
(* and the commands that read a file byte by byte (FileCommands).  They    *)
(* share no variable, so a behaviour is one of one part.                   *)
(***************************************************************************)
EXTENDS Terminal

CONSTANTS LineBlank, Slash, LineLetters, LineMaxCmd, NameSize,                \* of CommandLine
          NewTxt, AppNameMax, MsgSize, ShortMsgSize,
          MsgRoom, Created, Launched, LaunchedAlone, Unrecognized,
          NewLine, FileBlank, FileLetters, MaxSize, CatMax, LineMax, BufSize  \* of FileCommands

VARIABLES
  part,
  temp, last_strtok, current_dir, current_filename, line_pc, line, argv,
  cd_arg, name_arg, said,
  data, file_pc, i, line_buf, printed, wc_lines, words, in_word

lineVars == <<temp, last_strtok, current_dir, current_filename, line_pc, line, argv,
              cd_arg, name_arg, said>>
fileVars == <<data, file_pc, i, line_buf, printed, wc_lines, words, in_word>>
mcVars == <<part, vars, lineVars, fileVars>>

Line == INSTANCE CommandLine WITH
  BLANK <- LineBlank, SLASH <- Slash, Letters <- LineLetters, MAX_CMD <- LineMaxCmd,
  pc <- line_pc
File == INSTANCE FileCommands WITH
  NL <- NewLine, BLANK <- FileBlank, Letters <- FileLetters,
  pc <- file_pc, lines <- wc_lines

(* The name that is not typed, in the letters of the instance.             *)
DefaultName == <<3, 3>>

ASSUME LineAssumption == Line!SizesOK /\ Line!Distinct /\ Line!NameOK
ASSUME FileAssumption == File!SizesOK /\ File!Distinct

MCInit ==
  /\ part \in {"screen", "line", "file"}
  /\ part # "file" => data = <<>>
  /\ part # "screen" => term_history = [s \in Slots |-> CHOOSE t \in Texts : TRUE]
  /\ Init /\ Line!Init /\ File!Init

MCNext ==
  \/ part = "screen" /\ Next /\ UNCHANGED <<part, lineVars, fileVars>>
  \/ part = "line" /\ Line!Next /\ UNCHANGED <<part, vars, fileVars>>
  \/ part = "file" /\ File!Next /\ UNCHANGED <<part, vars, lineVars>>

MCSpec == MCInit /\ [][MCNext]_mcVars
-----------------------------------------------------------------------------
(* A command gets the words and the rest of the line typed last, nothing   *)
(* of an earlier one, although strtok's pointer outlives its buffer; the   *)
(* directory and the name that arguments are copied into stay terminated   *)
(* strings and hold the last argument, cut to their size; and no message   *)
(* with an argument in it, however long, reaches what is still used.       *)
ArgumentsArrive == Line!TypeOK /\ Line!ArgumentsAreWords /\ Line!FieldsAreStrings

(* Up to its limits cat prints the file line by line, none lost, merged or *)
(* split, without leaving its buffer; wc has at every byte counted the     *)
(* words and lines of the text before it.                                  *)
FilesAreRead == File!TypeOK /\ File!CatPrintsLines /\ File!WcCounts
=============================================================================
