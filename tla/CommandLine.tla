---------------------------- MODULE CommandLine -----------------------------
(***************************************************************************)
(* How exec_command of apps/terminal/terminal.c takes a line apart, with   *)
(* the one static pointer of strtok carried from call to call and from     *)
(* command to command, and the fixed buffers that arguments are copied     *)
(* into: current_dir, the name yano keeps (imageviewer_launch copies its   *)
(* own with the same lines), and the arrays on the stack that messages are *)
(* put together in.  Commands run in the desktop loop, one after the       *)
(* other: taking the first word off a line is one step, the command it     *)
(* names the next.                                                         *)
(*                                                                         *)
(* No length is tested against the size of a message.  Every such array is *)
(* at the same place of the frame of apps/terminal/terminal.o, MsgRoom     *)
(* bytes before the registers the function has saved, and what is between  *)
(* is not in use by then; a message is known by its length.                *)
(***************************************************************************)
EXTENDS CString

CONSTANTS BLANK, SLASH,   \* ' ' and '/'
          Letters,        \* other characters that are typed
          MAX_CMD,        \* 128
          DirSize,        \* bytes of current_dir: 64
          NameSize,       \* bytes of current_filename and of a file's name: 32
          NewTxt,         \* "new.txt"
          AppNameMax,     \* characters of the longest name of an application: 11
          MsgSize, ShortMsgSize,        \* char msg[128] and char msg[64]
          MsgRoom,        \* bytes from msg to what is still used behind it: 328
          Created,        \* characters of "Created " and of "Removed ": 8
          Launched,       \* of "Launched " and " with args: ": 21
          LaunchedAlone,  \* of "Launched " and ".": 10
          Unrecognized    \* of "'' is not recognized. Type 'help'.": 34

SizesOK ==
  /\ {MAX_CMD, DirSize, NameSize} \subseteq Nat \ {0, 1}
  /\ {AppNameMax, MsgSize, ShortMsgSize, MsgRoom, Created, Launched, LaunchedAlone, Unrecognized}
       \subseteq Nat
  /\ Created + MAX_CMD <= MsgRoom /\ Unrecognized + MAX_CMD <= MsgRoom
  /\ Launched + AppNameMax + MAX_CMD <= MsgRoom /\ LaunchedAlone + AppNameMax + 1 <= MsgRoom
NameOK == NewTxt \in Seq(Letters)
Distinct == NUL \notin Letters \cup {BLANK, SLASH} /\ BLANK \notin Letters \cup {SLASH}

VARIABLES
  temp,              \* the copy that is taken apart, on the stack of exec_command
  last_strtok,
  current_dir, current_filename,
  pc,                \* "idle", "exec" between the first strtok and the command, or
                     \* "overrun" once a message has reached what is still used
  line,              \* history: the line of the last command
  argv,              \* history: what its arguments were found to be
  cd_arg, name_arg,  \* history: what cd and yano were last given
  said               \* history: the bytes of the command's message and of the array it is in

fields == <<current_dir, current_filename, cd_arg, name_arg>>
vars == <<temp, last_strtok, fields, pc, line, argv, said>>

Char == Letters \cup {BLANK, SLASH}
Buffer(n) == [0 .. n - 1 -> Char \cup {NUL}]
Zeroed(n) == [i \in 0 .. n - 1 |-> NUL]
Lines == UNION {[1 .. n -> Letters \cup {BLANK}] : n \in 0 .. MAX_CMD - 1}
Root == <<SLASH>>
Nothing == [bytes |-> 0, size |-> 0]

Init ==
  /\ temp = Zeroed(MAX_CMD)
  /\ last_strtok = NULL
  /\ current_dir = strncpy(Zeroed(DirSize), Root, DirSize)
  /\ current_filename = strncpy(Zeroed(NameSize), NewTxt, NameSize - 1)
  /\ pc = "idle" /\ line = <<>> /\ argv = <<>> /\ said = Nothing
  /\ cd_arg = Root /\ name_arg = NewTxt
-----------------------------------------------------------------------------
(* An argument as the handler uses it: the string at an address, or none;  *)
(* a word, or from some word on the rest of the line.                      *)
Arg(kind, m, p) ==
  [kind |-> kind, given |-> p # NULL, text |-> IF p = NULL THEN <<>> ELSE Text(m, p)]

(* The loop that steps over the blanks at the start of a text.             *)
SkipBlanks(m, p) == IF p = NULL THEN NULL ELSE Skip(m, p, {BLANK})

exec_command(l) ==
  LET t == strtok([strncpy(temp, l, MAX_CMD - 1) EXCEPT ![MAX_CMD - 1] = NUL], last_strtok, 0, {BLANK})
  IN /\ pc = "idle"
     /\ temp' = t.mem
     /\ last_strtok' = t.last
     /\ line' = l
     /\ argv' = <<Arg("word", t.mem, t.ret)>>
     /\ pc' = IF t.ret = NULL THEN "idle" ELSE "exec"
     /\ said' = Nothing
     /\ UNCHANGED fields

(* The calls of strtok that follow: up to a blank or, with no delimiter,   *)
(* up to the end of the line.                                              *)
Word(m, last) == strtok(m, last, NULL, {BLANK})
Rest(m, last) == strtok(m, last, NULL, {})

(* What the last call of strtok leaves behind when the command returns.    *)
Return(t, args) ==
  /\ pc = "exec"
  /\ temp' = t.mem
  /\ last_strtok' = t.last
  /\ argv' = argv \o args
  /\ UNCHANGED line

(* The command prints constant text and contents of files only, or a       *)
(* message put together from what was typed.                               *)
Silent == pc' = "idle" /\ UNCHANGED said

Say(bytes, size) ==
  /\ said' = [bytes |-> bytes, size |-> size]
  /\ pc' = IF bytes <= MsgRoom THEN "idle" ELSE "overrun"

(* What yano_launch keeps of its arguments, or of the name it takes        *)
(* without any.                                                            *)
yano_launch(args) ==
  /\ current_filename' =
       IF args.given
       THEN [strncpy(current_filename, args.text, NameSize - 1) EXCEPT ![NameSize - 1] = NUL]
       ELSE strncpy(current_filename, NewTxt, NameSize - 1)
  /\ name_arg' = IF args.given THEN args.text ELSE NewTxt

(* argv0 is the name of an application, yano or another.                   *)
launch(yano) ==
  LET t == Rest(temp, last_strtok)
      p == SkipBlanks(t.mem, t.ret)
      args == Arg("args", t.mem, IF p # NULL /\ strlen(t.mem, p) = 0 THEN NULL ELSE p)
      name == Len(argv[1].text)
  IN /\ Return(t, <<args>>)
     /\ name <= AppNameMax
     /\ Say(IF args.given THEN Launched + name + Len(args.text) + 1 ELSE LaunchedAlone + name + 1, MsgSize)
     /\ IF yano THEN yano_launch(args) ELSE UNCHANGED <<current_filename, name_arg>>
     /\ UNCHANGED <<current_dir, cd_arg>>

(* help, ls, pci, date, mem, fetch, ver, clear, exit.                      *)
no_words ==
  /\ Return(Tok(NULL, last_strtok, temp), <<>>)
  /\ Silent
  /\ UNCHANGED fields

(* Any other word.                                                         *)
unknown ==
  /\ Return(Tok(NULL, last_strtok, temp), <<>>)
  /\ Say(Unrecognized + Len(argv[1].text) + 1, MsgSize)
  /\ UNCHANGED fields

(* cat, hexdump, wc, stat.                                                 *)
one_word ==
  LET t == Word(temp, last_strtok)
  IN /\ Return(t, <<Arg("word", t.mem, t.ret)>>)
     /\ Silent
     /\ UNCHANGED fields

(* vfs_create cuts the name to the size of a file's name, the message does *)
(* not.                                                                    *)
touch(created) ==
  LET t == Word(temp, last_strtok)
      name == Arg("word", t.mem, t.ret)
  IN /\ Return(t, <<name>>)
     /\ IF name.given /\ created THEN Say(Created + Len(name.text) + 1, ShortMsgSize) ELSE Silent
     /\ UNCHANGED fields

(* vfs_remove compares whole names: one that is longer than any file's is  *)
(* not found.                                                              *)
rm(found) ==
  LET t == Word(temp, last_strtok)
      name == Arg("word", t.mem, t.ret)
  IN /\ Return(t, <<name>>)
     /\ IF name.given /\ found /\ Len(name.text) < NameSize
        THEN Say(Created + Len(name.text) + 1, ShortMsgSize)
        ELSE Silent
     /\ UNCHANGED fields

cd ==
  LET t == Word(temp, last_strtok)
      dir == IF t.ret = NULL THEN Root ELSE Text(t.mem, t.ret)
  IN /\ Return(t, <<Arg("word", t.mem, t.ret)>>)
     /\ Silent
     /\ current_dir' = strncpy(current_dir, dir, DirSize - 1)
     /\ cd_arg' = dir
     /\ UNCHANGED <<current_filename, name_arg>>

echo ==
  LET t == Rest(temp, last_strtok)
  IN /\ Return(t, <<Arg("rest", t.mem, SkipBlanks(t.mem, t.ret))>>)
     /\ Silent
     /\ UNCHANGED fields

write ==
  LET t == Word(temp, last_strtok)
      u == Rest(t.mem, t.last)
  IN /\ Return(u, <<Arg("word", u.mem, t.ret), Arg("rest", u.mem, SkipBlanks(u.mem, u.ret))>>)
     /\ Silent
     /\ UNCHANGED fields

cp ==
  LET t == Word(temp, last_strtok)
      u == Word(t.mem, t.last)
  IN /\ Return(u, <<Arg("word", u.mem, t.ret), Arg("word", u.mem, u.ret)>>)
     /\ Silent
     /\ UNCHANGED fields

Next ==
  \/ \E l \in Lines : exec_command(l)
  \/ \E yano \in BOOLEAN : launch(yano)
  \/ no_words \/ unknown \/ one_word
  \/ \E created \in BOOLEAN : touch(created)
  \/ \E found \in BOOLEAN : rm(found)
  \/ cd \/ echo \/ write \/ cp
Spec == Init /\ [][Next]_vars
-----------------------------------------------------------------------------
(* Every buffer keeps its size, last_strtok is null or an address of temp, *)
(* and no message has reached what is still used, whatever the lines were. *)
TypeOK ==
  /\ pc \in {"idle", "exec"}
  /\ temp \in Buffer(MAX_CMD)
  /\ last_strtok \in {NULL} \cup (1 .. MAX_CMD - 1)
  /\ current_dir \in Buffer(DirSize)
  /\ current_filename \in Buffer(NameSize)

(* What the words of a line are, without strtok: the positions a word      *)
(* starts at, the word there, and the line from there on.                  *)
Starts(l) == {i \in 1 .. Len(l) : l[i] # BLANK /\ (i = 1 \/ l[i - 1] = BLANK)}
WordAt(l, i) ==
  SubSeq(l, i, Min({Len(l)} \cup {k - 1 : k \in {j \in i .. Len(l) : l[j] = BLANK}}))
Start(l, k) == CHOOSE i \in Starts(l) : Quantify(Starts(l), LAMBDA j : j <= i) = k
Has(l, k) == Quantify(Starts(l), LAMBDA j : TRUE) >= k
WordText(l, k) == IF Has(l, k) THEN WordAt(l, Start(l, k)) ELSE <<>>
RestText(l, k) == IF Has(l, k) THEN SubSeq(l, Start(l, k), Len(l)) ELSE <<>>

(* The handlers get the words of the line that was typed last, or from     *)
(* word k on the rest of it as it was typed, and null for a word that is   *)
(* not there: nothing of an earlier line, although strtok's pointer        *)
(* outlives the buffer it points into.  Only of echo and write a rest of   *)
(* nothing but blanks may be an empty text.                                *)
ArgumentsAreWords ==
  \A k \in DOMAIN argv :
    /\ argv[k].text = IF argv[k].kind = "word" THEN WordText(line, k) ELSE RestText(line, k)
    /\ Has(line, k) => argv[k].given
    /\ argv[k].given /\ argv[k].kind # "rest" => Has(line, k)

(* The fields are strings, and hold the last argument, or the name that is *)
(* taken without one, cut to their size: neither the end of a longer,      *)
(* earlier value nor an unterminated buffer shows.  current_dir, and the   *)
(* name when there is no argument, get no store of their own for the zero: *)
(* nothing else is ever written to the last byte.                          *)
Cut(s, n) == SubSeq(s, 1, IF Len(s) < n THEN Len(s) ELSE n)
FieldsAreStrings ==
  /\ current_dir[DirSize - 1] = NUL
  /\ Text(current_dir, 0) = Cut(cd_arg, DirSize - 1)
  /\ Text(current_filename, 0) = Cut(name_arg, NameSize - 1)

(* "char msg[64]" and "char msg[128]": a message fits the array it is put  *)
(* together in.                                                            *)
(* Does not hold: README, section 5.                                       *)
MessagesFit == said.bytes <= said.size
=============================================================================
