------------------------------ MODULE Terminal ------------------------------
(***************************************************************************)
(* apps/terminal/terminal.c: the input line, the history of printed lines  *)
(* and scrolling.  A key and a redraw are handled by the desktop loop, one *)
(* after the other; the mouse's interrupt handler writes the wheel's       *)
(* movement into mouse_scroll_delta at any time, also while it is drawn.   *)
(*                                                                         *)
(* What a command prints is arbitrary: any number of lines, one step each; *)
(* what commands do to the disk and to tasks is in FileApps and Scheduler, *)
(* how the line is taken apart in CommandLine.                             *)
(*                                                                         *)
(* The line is echoed through full_cmd, an array on the stack that no      *)
(* length is tested against.  What a longer text is written over is known  *)
(* from apps/terminal/terminal.o: behind full_cmd are arrays that are only *)
(* filled later, and then something that is still used, EchoRoom bytes     *)
(* from its start where that is nearest (the matches of a completion).     *)
(***************************************************************************)
EXTENDS Integers, Sequences

CONSTANTS Chars,       \* characters that are typed, the space among them
          Nul,         \* '\0'
          Space,
          Texts,       \* lines that are printed
          MaxCmd,      \* MAX_CMD: 128
          DirSize,     \* bytes of current_dir: 64
          PromptLen,   \* characters of the prompt without the directory: 13
          EchoSize,    \* bytes of full_cmd: 128
          EchoRoom,    \* bytes from full_cmd to what is still used behind it: 280
          MaxHistory,  \* MAX_HISTORY: 40
          Height,      \* height of the window in pixels
          MaxDelta,    \* bound: notches in one mouse packet
          MaxOwed,     \* bound: notches that are counted as not applied
          MaxTail,     \* bound: characters a completion adds
          MaxLog       \* bound: lines printed since the history was cleared

ASSUME SizeAssumption ==
  /\ MaxCmd \in Nat /\ MaxCmd > 1
  /\ MaxHistory \in Nat /\ MaxHistory > 0
  /\ Height \in Nat /\ Height >= 60
ASSUME EchoAssumption ==
  /\ {DirSize, PromptLen, EchoSize, EchoRoom} \subseteq Nat /\ DirSize > 1
  /\ PromptLen + (DirSize - 1) + (MaxCmd - 1) + 1 <= EchoRoom
ASSUME CharAssumption == Space \in Chars /\ Nul \notin Chars
ASSUME BoundAssumption == MaxDelta \in Nat /\ MaxOwed \in Nat /\ MaxTail \in Nat /\ MaxLog \in Nat

VARIABLES
  cmd_buf, cmd_len,
  dir_len,  \* strlen(current_dir)
  term_history, history_count,
  term_scroll_offset, mouse_scroll_delta,
  pc,       \* "keys", "exec" and "tab" inside terminal_handle_key, "fetch" inside
            \* terminal_launch, "add", "reset" and "lines" inside terminal_draw;
            \* "overrun" once an echo has reached what is still used
  log,      \* history: the lines printed since the history was last cleared
  drawn,    \* history: what terminal_draw saw and printed last
  owed      \* history: notches of the wheel that terminal_draw has not applied

input == <<cmd_buf, cmd_len, dir_len>>
lines == <<term_history, history_count, log>>
scroll == <<term_scroll_offset, mouse_scroll_delta, owed>>
vars == <<input, lines, scroll, pc, drawn>>

Cells == 0 .. MaxCmd - 1
Slots == 0 .. MaxHistory - 1
Blank == [i \in Cells |-> Nul]

Init ==
  /\ cmd_buf = Blank /\ cmd_len = 0 /\ dir_len = 1
  /\ term_history \in [Slots -> Texts] /\ history_count = 0
  /\ term_scroll_offset = 0 /\ mouse_scroll_delta = 0
  /\ pc = "keys"
  /\ log = <<>>
  /\ drawn = [count |-> 0, offset |-> 0, shown |-> {}]
  /\ owed = 0
-----------------------------------------------------------------------------
(* handle_mouse, in the interrupt handler: every packet of a mouse with a  *)
(* wheel overwrites the movement, also a packet without any.               *)
Saturate(n) == IF n > MaxOwed THEN MaxOwed ELSE IF n < -MaxOwed THEN -MaxOwed ELSE n

mouse_packet(dz) ==
  /\ mouse_scroll_delta' = dz
  /\ owed' = Saturate(owed + dz)
  /\ UNCHANGED <<input, lines, term_scroll_offset, pc, drawn>>
-----------------------------------------------------------------------------
term_history_add_KeepsFirst(text) ==
  /\ Len(log) < MaxLog
  /\ log' = Append(log, text)
  /\ IF history_count < MaxHistory
     THEN /\ term_history' = [term_history EXCEPT ![history_count] = text]
          /\ history_count' = history_count + 1
     ELSE /\ term_history' = [term_history EXCEPT ![MaxHistory - 1] = text]
          /\ UNCHANGED history_count
  /\ term_scroll_offset' = 0
  /\ UNCHANGED <<mouse_scroll_delta, owed>>

term_history_add(text) ==
  /\ Len(log) < MaxLog
  /\ log' = Append(log, text)
  /\ IF history_count < MaxHistory
     THEN /\ term_history' = [term_history EXCEPT ![history_count] = text]
          /\ history_count' = history_count + 1
     ELSE /\ term_history' = [i \in Slots |-> IF i < MaxHistory - 1 THEN term_history[i + 1] ELSE text]
          /\ UNCHANGED history_count
  /\ term_scroll_offset' = 0
  /\ UNCHANGED <<mouse_scroll_delta, owed>>

(* One line of what a command, a completion or show_fastfetch prints.      *)
print_to_shell(text) ==
  /\ pc \in {"exec", "tab", "fetch"}
  /\ term_history_add(text)
  /\ UNCHANGED <<input, pc, drawn>>

terminal_launch ==
  /\ pc = "keys"
  /\ history_count' = 0 /\ log' = <<>>
  /\ cmd_len' = 0 /\ cmd_buf' = Blank
  /\ pc' = "fetch"
  /\ UNCHANGED <<dir_len, term_history, scroll, drawn>>

fetched ==
  /\ pc = "fetch"
  /\ pc' = "keys"
  /\ UNCHANGED <<input, lines, scroll, drawn>>

(* The bytes xsprintf writes into full_cmd: "root@onken:", current_dir,    *)
(* "$ ", the line and the terminating zero.                                *)
Echo == PromptLen + dir_len + cmd_len + 1
Echoed(then) == IF Echo <= EchoRoom THEN then ELSE "overrun"

(* Enter: the line is terminated and echoed, then the command runs.        *)
enter(text) ==
  /\ pc = "keys"
  /\ cmd_buf' = [cmd_buf EXCEPT ![cmd_len] = Nul]
  /\ term_history_add(text)
  /\ pc' = Echoed("exec")
  /\ UNCHANGED <<cmd_len, dir_len, drawn>>

(* cd, by the length of the directory it leaves (CommandLine).             *)
cd(n) ==
  /\ pc = "exec"
  /\ dir_len' = n
  /\ UNCHANGED <<cmd_buf, cmd_len, lines, scroll, pc, drawn>>

clear ==
  /\ pc = "exec"
  /\ history_count' = 0 /\ log' = <<>>
  /\ UNCHANGED <<input, term_history, scroll, pc, drawn>>

executed_NoMemset ==
  /\ pc = "exec"
  /\ cmd_len' = 0
  /\ pc' = "keys"
  /\ UNCHANGED <<cmd_buf, dir_len, lines, scroll, drawn>>

executed ==
  /\ pc = "exec"
  /\ cmd_len' = 0 /\ cmd_buf' = Blank
  /\ pc' = "keys"
  /\ UNCHANGED <<dir_len, lines, scroll, drawn>>

backspace ==
  /\ pc = "keys"
  /\ cmd_len > 0
  /\ cmd_len' = cmd_len - 1
  /\ cmd_buf' = [cmd_buf EXCEPT ![cmd_len - 1] = Nul]
  /\ UNCHANGED <<dir_len, lines, scroll, pc, drawn>>

type(c) ==
  /\ pc = "keys"
  /\ cmd_len < MaxCmd - 1
  /\ cmd_buf' = [cmd_buf EXCEPT ![cmd_len] = c]
  /\ cmd_len' = cmd_len + 1
  /\ UNCHANGED <<dir_len, lines, scroll, pc, drawn>>

Smaller(x, y) == IF x < y THEN x ELSE y

(* Tab with one match: the rest of the name as far as it fits, and a space *)
(* if there is room.  With less than two cells left nothing of the name is *)
(* taken.                                                                  *)
complete(tail) ==
  LET room == Smaller(Len(tail), IF cmd_len < MaxCmd - 2 THEN MaxCmd - 2 - cmd_len ELSE 0)
      end == cmd_len + room
      spaced == end < MaxCmd - 1
  IN  /\ pc = "keys" /\ cmd_len > 0
      /\ cmd_buf' = [i \in Cells |-> IF i >= cmd_len /\ i < end THEN tail[i - cmd_len + 1]
                                    ELSE IF i = end THEN (IF spaced THEN Space ELSE Nul)
                                    ELSE cmd_buf[i]]
      /\ cmd_len' = IF spaced THEN end + 1 ELSE end
      /\ UNCHANGED <<dir_len, lines, scroll, pc, drawn>>

(* Tab with several matches: the line is echoed and the matches printed.   *)
list_matches(text) ==
  /\ pc = "keys" /\ cmd_len > 0
  /\ cmd_buf' = [cmd_buf EXCEPT ![cmd_len] = Nul]
  /\ term_history_add(text)
  /\ pc' = Echoed("tab")
  /\ UNCHANGED <<cmd_len, dir_len, drawn>>

listed ==
  /\ pc = "tab"
  /\ pc' = "keys"
  /\ UNCHANGED <<input, lines, scroll, drawn>>
-----------------------------------------------------------------------------
(* terminal_draw: the test of the wheel's movement and the two uses of it  *)
(* are three accesses of a volatile variable.                              *)
draw_test(active) ==
  /\ pc = "keys"
  /\ pc' = IF active /\ mouse_scroll_delta # 0 THEN "add" ELSE "lines"
  /\ UNCHANGED <<input, lines, scroll, drawn>>

draw_add ==
  /\ pc = "add"
  /\ term_scroll_offset' = term_scroll_offset + mouse_scroll_delta * 3
  /\ owed' = Saturate(owed - mouse_scroll_delta)
  /\ pc' = "reset"
  /\ UNCHANGED <<input, lines, mouse_scroll_delta, drawn>>

draw_reset ==
  /\ pc = "reset"
  /\ mouse_scroll_delta' = 0
  /\ pc' = "lines"
  /\ UNCHANGED <<input, lines, term_scroll_offset, owed, drawn>>

MaxVisible == (Height - 60) \div 12
MaxScroll == IF history_count > MaxVisible THEN history_count - MaxVisible ELSE 0

draw_lines_NoUpperClamp ==
  LET offset == IF term_scroll_offset < 0 THEN 0 ELSE term_scroll_offset
      start == IF MaxScroll - offset < 0 THEN 0 ELSE MaxScroll - offset
  IN  /\ pc = "lines"
      /\ term_scroll_offset' = offset
      /\ drawn' = [count |-> history_count, offset |-> offset,
                   shown |-> {i \in start .. history_count - 1 : 30 + 12 * (i - start) + 12 <= Height - 30}]
      /\ pc' = "keys"
      /\ UNCHANGED <<input, lines, mouse_scroll_delta, owed>>

(* The offset is clamped and the lines are printed until the next one      *)
(* would reach the last 30 pixels of the window.                           *)
draw_lines ==
  LET offset == IF term_scroll_offset < 0 THEN 0 ELSE Smaller(term_scroll_offset, MaxScroll)
      start == MaxScroll - offset
  IN  /\ pc = "lines"
      /\ term_scroll_offset' = offset
      /\ drawn' = [count |-> history_count, offset |-> offset,
                   shown |-> {i \in start .. history_count - 1 : 30 + 12 * (i - start) + 12 <= Height - 30}]
      /\ pc' = "keys"
      /\ UNCHANGED <<input, lines, mouse_scroll_delta, owed>>

Tails == UNION {[1 .. n -> Chars] : n \in 0 .. MaxTail}

Key ==
  \/ \E text \in Texts : enter(text) \/ list_matches(text)
  \/ backspace
  \/ \E c \in Chars : type(c)
  \/ \E tail \in Tails : complete(tail)

Next ==
  \/ \E dz \in -MaxDelta .. MaxDelta : mouse_packet(dz)
  \/ Key
  \/ \E text \in Texts : print_to_shell(text)
  \/ terminal_launch \/ fetched \/ clear \/ executed \/ listed
  \/ \E n \in 1 .. DirSize - 1 : cd(n)
  \/ \E active \in BOOLEAN : draw_test(active)
  \/ draw_add \/ draw_reset \/ draw_lines

Spec == Init /\ [][Next]_vars
-----------------------------------------------------------------------------
(* Properties.                                                             *)

(* Type correctness.                                                       *)
TypeOK ==
  /\ cmd_buf \in [Cells -> Chars \cup {Nul}]
  /\ cmd_len \in Nat /\ dir_len \in 1 .. DirSize - 1
  /\ term_history \in [Slots -> Texts]
  /\ history_count \in Nat
  /\ term_scroll_offset \in Int /\ mouse_scroll_delta \in Int /\ owed \in Int
  /\ pc \in {"keys", "exec", "tab", "fetch", "add", "reset", "lines", "overrun"}
  /\ log \in Seq(Texts)

TextInCells ==
  /\ cmd_len <= MaxCmd - 1
  /\ \A i \in Cells : cmd_buf[i] = Nul <=> i >= cmd_len

(* The input line is a string whatever keys were pressed: it ends inside   *)
(* cmd_buf, no character is missing before its end and none is left behind *)
(* it, where the next key would uncover it; and its echo, which may be     *)
(* longer than full_cmd, has ended before anything that is still used.     *)
InputIsString == TextInCells /\ pc # "overrun"

(* The history holds the lines printed last, in order, up to MAX_HISTORY   *)
(* of them, also after it was full and after it was cleared.               *)
HistoryIsTail ==
  /\ history_count = Smaller(Len(log), MaxHistory)
  /\ \A i \in 0 .. history_count - 1 : term_history[i] = log[Len(log) - history_count + i + 1]

(* What terminal_draw prints fits the scroll offset: as many lines as the  *)
(* window holds, and exactly offset lines of the history are below them;   *)
(* so without scrolling the newest line is on the screen.                  *)
WindowOnHistory ==
  /\ drawn.offset >= 0
  /\ \A i \in 0 .. drawn.count - 1 :
       i \in drawn.shown <=> /\ i < drawn.count - drawn.offset
                             /\ i >= drawn.count - drawn.offset - MaxVisible

(* "char full_cmd[128]": the echo of the line fits the array it is built   *)
(* in.                                                                     *)
(* Does not hold: README, section 5.                                       *)
EchoFits == pc = "keys" => Echo <= EchoSize

(* "Scroll 3 lines per notch": a notch is applied or waits in              *)
(* mouse_scroll_delta for the next redraw.                                 *)
(* Does not hold: README, section 5.                                       *)
EveryNotchCounts == mouse_scroll_delta = owed
=============================================================================
