------------------------------ MODULE FileApps ------------------------------
(***************************************************************************)
(* The applications that use the RAM disk: the terminal's file commands    *)
(* (apps/terminal/terminal.c), the editor yano (apps/yano/yano.c) and the  *)
(* click handler of the File Explorer (shell/shell.c).  All run in the     *)
(* desktop loop, so every handler is one step.  The editor has a single    *)
(* buffer, however many windows it has.                                    *)
(***************************************************************************)
EXTENDS Vfs, FiniteSets

CONSTANTS YANO_BUF_SIZE,  \* bytes of yano_buf, the terminating zero included
          Texts,          \* what the write command is given
          Typed,          \* characters typed into yano
          Images,         \* names that end in ".bmp"
          NewTxt,         \* "new.txt"
          Welcome         \* the text of a yano launched without a name

ASSUME YanoBufAssumption == YANO_BUF_SIZE \in Nat \ {0}
ASSUME TextsAssumption == Texts \subseteq Seq(Byte) /\ Typed \subseteq Byte
ASSUME NewTxtAssumption == NewTxt \in Names /\ Trunc[NewTxt] = NewTxt
ASSUME WelcomeAssumption == Welcome \in Seq(Byte) /\ Len(Welcome) < YANO_BUF_SIZE

VARIABLES
  yano_buf,          \* its first yano_len characters
  current_filename,
  yano_open,         \* some yano window is open and can get keys
  current_image      \* what the image viewer shows

editor == <<yano_buf, current_filename, yano_open>>
vars == <<files, editor, current_image>>

Init ==
  /\ vfs_init
  /\ yano_buf = <<>>
  /\ current_filename = NewTxt
  /\ yano_open = FALSE
  /\ current_image = NewTxt
-----------------------------------------------------------------------------
(* Terminal commands.                                                      *)
touch(name) ==
  /\ \E i \in Index : First(Free(files), i) /\ files' = vfs_create(files, name, i)
  /\ UNCHANGED <<editor, current_image>>

rm(name) ==
  /\ \E i \in Index : vfs_open(files, name, i) /\ files' = vfs_remove(files, i)
  /\ UNCHANGED <<editor, current_image>>

(* "if (!vfs_open(name)) vfs_create(name); vfs_write(name, ...)", as the   *)
(* write command and yano's ^S do it; neither looks at what is returned.   *)
Save(name, d) ==
  \E free, i \in Index :
    /\ First(Free(files), free)
    /\ LET created == vfs_create(files, name, free)
       IN  vfs_open(created, name, i) /\ files' = vfs_write(created, i, d)

write(name, text) == Save(name, text) /\ UNCHANGED <<editor, current_image>>

cp(src, dst) ==
  /\ \E s \in Slots : vfs_open(files, src, s) /\ Save(dst, files[s].data)
  /\ UNCHANGED <<editor, current_image>>
-----------------------------------------------------------------------------
(* yano.  A window is added unless the window manager has no slot left.    *)
Loaded(d) == IF Len(d) > YANO_BUF_SIZE - 1 THEN SubSeq(d, 1, YANO_BUF_SIZE - 1) ELSE d

yano_launch_KeepsName(name) ==
  /\ current_filename' = name
  /\ \E free, i \in Index :
       /\ First(Free(files), free)
       /\ vfs_open(files, name, i)
       /\ files' = IF i = NULL THEN vfs_create(files, name, free) ELSE files
       /\ yano_buf' = IF i = NULL THEN <<>> ELSE Loaded(files[i].data)
  /\ yano_open' \in {yano_open, TRUE}
  /\ UNCHANGED current_image

yano_launch(name) ==
  /\ current_filename' = Trunc[name]
  /\ \E free, i \in Index :
       /\ First(Free(files), free)
       /\ vfs_open(files, Trunc[name], i)
       /\ files' = IF i = NULL THEN vfs_create(files, Trunc[name], free) ELSE files
       /\ yano_buf' = IF i = NULL THEN <<>> ELSE Loaded(files[i].data)
  /\ yano_open' \in {yano_open, TRUE}
  /\ UNCHANGED current_image

yano_launch_new ==
  /\ current_filename' = NewTxt
  /\ yano_buf' = Welcome
  /\ yano_open' \in {yano_open, TRUE}
  /\ UNCHANGED <<files, current_image>>

yano_save ==
  /\ yano_open
  /\ Save(current_filename, yano_buf)
  /\ UNCHANGED <<editor, current_image>>

yano_type(c) ==
  /\ yano_open
  /\ Len(yano_buf) < YANO_BUF_SIZE - 1
  /\ yano_buf' = Append(yano_buf, c)
  /\ UNCHANGED <<files, current_filename, yano_open, current_image>>

yano_backspace ==
  /\ yano_open
  /\ Len(yano_buf) > 0
  /\ yano_buf' = SubSeq(yano_buf, 1, Len(yano_buf) - 1)
  /\ UNCHANGED <<files, current_filename, yano_open, current_image>>

(* ^X or the close box; other yano windows may stay open.                  *)
yano_exit ==
  /\ yano_open
  /\ yano_open' \in BOOLEAN
  /\ UNCHANGED <<files, yano_buf, current_filename, current_image>>

(* A click on a row of the File Explorer: the row number is taken as a     *)
(* slot number.                                                            *)
explorer_click(row) ==
  /\ vfs_get_by_index(row)
  /\ LET name == files[row].name
     IN  IF name \in Images
         THEN current_image' = name /\ UNCHANGED <<files, editor>>
         ELSE yano_launch(name)

Terminal ==
  \/ \E n \in Names : touch(n) \/ rm(n) \/ \E text \in Texts : write(n, text)
  \/ \E src, dst \in Names : cp(src, dst)

Yano ==
  \/ \E n \in Names : yano_launch(n)
  \/ yano_launch_new \/ yano_save \/ yano_backspace \/ yano_exit
  \/ \E c \in Typed : yano_type(c)

Next == Terminal \/ Yano \/ \E row \in Slots : explorer_click(row)

Spec == Init /\ [][Next]_vars
-----------------------------------------------------------------------------
(* Properties.                                                             *)

(* Type correctness: no content outgrows its slot, and the editor's text   *)
(* leaves room for its terminating zero.                                   *)
TypeOK ==
  /\ Sized(files)
  /\ yano_buf \in Seq(Byte)
  /\ Len(yano_buf) < YANO_BUF_SIZE
  /\ current_filename \in Names
  /\ yano_open \in BOOLEAN
  /\ current_image \in Names

(* For the plain names the RAM disk is a store: whatever command, save or  *)
(* click, at most one name's content changes.                              *)
Disk == INSTANCE NameStore WITH Names <- Plain, Data <- Seq(Byte), store <- StoreOf(files)
DiskIsStore == Disk!Spec

(* What yano saves can be read back: unless the disk is full, opening the  *)
(* name in its title bar after ^S finds the text of the editor.            *)
SavedIsReadable ==
  [][yano_save => \/ Free(files) = {} /\ Match(files, current_filename) = {}
                  \/ \E i \in Slots : /\ First(Match(files', current_filename), i)
                                      /\ files'[i].data = Clip(yano_buf)]_vars

(* "Double-click files in Explorer to open!": a click on a row opens the   *)
(* file files_draw lists in that row, the row-th slot in use.              *)
ListedIn(row, i) ==
  vfs_get_by_index(i) /\ Cardinality({j \in Slots : j < i /\ vfs_get_by_index(j)}) = row
OpensWhatIsListed ==
  [][\A row, i \in Slots : explorer_click(row) /\ ListedIn(row, i)
       => files[i].name \in {current_filename', current_image'}]_vars
=============================================================================
