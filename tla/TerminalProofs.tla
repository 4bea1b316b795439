--------------------------- MODULE TerminalProofs ---------------------------
(***************************************************************************)
(* Proofs about the three parts of the terminal.                           *)
(*                                                                         *)
(* The screen, for every size of the input line, the history and the       *)
(* window: Inv joins what the input line and the history need; the two do  *)
(* not depend on each other, and nothing is assumed of the wheel, which    *)
(* the interrupt handler moves between any two steps.                      *)
(*                                                                         *)
(* cat and wc, for every file and every limit: FileInv says what has been  *)
(* printed and counted of the part of the file that was read.              *)
(*                                                                         *)
(* strtok and the command line, for every line, alphabet and buffer size:  *)
(* CallInv says how many words of the line are behind last_strtok, and     *)
(* that the rest of the buffer is as it was typed.                         *)
(***************************************************************************)
EXTENDS MCTerminal, FiniteSetTheorems, WellFoundedInduction, TLAPS

Inv == TypeOK /\ InputIsString /\ HistoryIsTail

(* The cells of the line and the slots of the history as sets of numbers.  *)
LEMMA SizeFacts ==
  /\ MaxCmd \in Nat /\ MaxCmd > 1
  /\ MaxHistory \in Nat /\ MaxHistory > 0
  /\ \A x : x \in Cells <=> x \in Nat /\ x < MaxCmd
  /\ \A x : x \in Slots <=> x \in Nat /\ x < MaxHistory
BY SizeAssumption DEF Cells, Slots

(* The first states: an empty line and an empty history.                   *)
LEMMA InitInv == Init => Inv
<1> SUFFICES ASSUME Init PROVE Inv
  OBVIOUS
<1>1. TypeOK
  BY SizeFacts, EchoAssumption, CharAssumption DEF Init, TypeOK, Blank
<1>2. InputIsString
  BY SizeFacts DEF Init, InputIsString, TextInCells, Blank
<1>3. HistoryIsTail
  BY SizeFacts DEF Init, HistoryIsTail, Smaller
<1> QED
  BY <1>1, <1>2, <1>3 DEF Inv

(* An emptied line is a string (terminal_launch, the end of a command).    *)
LEMMA BlankLine ==
  ASSUME cmd_len' = 0, cmd_buf' = Blank
  PROVE  /\ cmd_buf' \in [Cells -> Chars \cup {Nul}]
         /\ cmd_len' \in Nat
         /\ TextInCells'
BY SizeFacts, CharAssumption DEF TextInCells, Blank

(* Terminating the line at cmd_len, as Enter and Tab do before they echo   *)
(* it, changes nothing.                                                    *)
LEMMA TerminatedLine ==
  ASSUME Inv, cmd_buf' = [cmd_buf EXCEPT ![cmd_len] = Nul], cmd_len' = cmd_len
  PROVE  /\ cmd_buf' \in [Cells -> Chars \cup {Nul}]
         /\ cmd_len' \in Nat
         /\ TextInCells'
<1>1. cmd_buf' = cmd_buf
  BY SizeFacts DEF Inv, TypeOK, InputIsString, TextInCells
<1> QED
  BY <1>1 DEF Inv, TypeOK, InputIsString, TextInCells

(* term_history_add: the history is the newest lines before and after it,  *)
(* whether the lines were shifted or not.                                  *)
LEMMA HistoryAdd ==
  ASSUME Inv, NEW text \in Texts, term_history_add(text)
  PROVE  /\ term_history' \in [Slots -> Texts]
         /\ history_count' \in Nat
         /\ log' \in Seq(Texts)
         /\ HistoryIsTail'
<1>1. /\ log \in Seq(Texts) /\ Len(log) \in Nat /\ history_count \in Nat
      /\ term_history \in [Slots -> Texts]
  BY DEF Inv, TypeOK
<1>2. /\ log' = Append(log, text) /\ log' \in Seq(Texts)
      /\ Len(log') = Len(log) + 1
      /\ log'[Len(log) + 1] = text
      /\ \A j \in 1 .. Len(log) : log'[j] = log[j]
  BY <1>1 DEF term_history_add
<1>3. CASE history_count < MaxHistory
  <2>1. /\ term_history' = [term_history EXCEPT ![history_count] = text]
        /\ history_count' = history_count + 1
    BY <1>3 DEF term_history_add
  <2>2. history_count = Len(log)
    BY <1>1, <1>3, SizeFacts DEF Inv, HistoryIsTail, Smaller
  <2>3. term_history' \in [Slots -> Texts]
    BY <1>1, <2>1
  <2>4. history_count' = Smaller(Len(log'), MaxHistory)
    BY <1>1, <1>2, <1>3, <2>1, <2>2, SizeFacts DEF Smaller
  <2>5. ASSUME NEW x \in 0 .. history_count' - 1
        PROVE  term_history'[x] = log'[Len(log') - history_count' + x + 1]
    <3>1. x \in Slots /\ x \in Nat /\ x <= history_count /\ Len(log') - history_count' + x + 1 = x + 1
      BY <1>1, <1>2, <1>3, <2>1, <2>2, SizeFacts
    <3>2. CASE x = history_count
      BY <1>1, <1>2, <2>1, <2>2, <3>1, <3>2
    <3>3. CASE x < history_count
      <4>1. term_history'[x] = term_history[x]
        BY <1>1, <2>1, <3>1, <3>3
      <4>2. term_history[x] = log[x + 1]
        <5>1. x \in 0 .. history_count - 1 /\ Len(log) - history_count + x + 1 = x + 1
          BY <1>1, <2>2, <3>1, <3>3
        <5> QED
          BY <5>1 DEF Inv, HistoryIsTail
      <4>3. log'[x + 1] = log[x + 1]
        BY <1>1, <1>2, <2>2, <3>1, <3>3
      <4> QED
        BY <3>1, <4>1, <4>2, <4>3
    <3> QED
      BY <1>1, <3>1, <3>2, <3>3
  <2>6. history_count' \in Nat
    BY <1>1, <2>1
  <2>7. HistoryIsTail'
    BY <2>4, <2>5 DEF HistoryIsTail
  <2> QED
    BY <1>2, <2>3, <2>6, <2>7
<1>4. CASE ~(history_count < MaxHistory)
  <2>1. /\ term_history' = [x \in Slots |-> IF x < MaxHistory - 1 THEN term_history[x + 1] ELSE text]
        /\ history_count' = history_count
    BY <1>4 DEF term_history_add
  <2>2. history_count = MaxHistory /\ Len(log) >= MaxHistory
    BY <1>1, <1>4, SizeFacts DEF Inv, HistoryIsTail, Smaller
  <2>3. term_history' \in [Slots -> Texts]
    <3>1. ASSUME NEW x \in Slots, x < MaxHistory - 1 PROVE term_history[x + 1] \in Texts
      BY <1>1, <3>1, SizeFacts
    <3> QED
      BY <2>1, <3>1
  <2>4. history_count' = Smaller(Len(log'), MaxHistory)
    BY <1>1, <1>2, <2>1, <2>2, SizeFacts DEF Smaller
  <2>5. ASSUME NEW x \in 0 .. history_count' - 1
        PROVE  term_history'[x] = log'[Len(log') - history_count' + x + 1]
    <3> DEFINE at == Len(log) - MaxHistory + (x + 1) + 1
    <3>1. /\ x \in Slots /\ x \in Nat /\ x <= MaxHistory - 1
          /\ Len(log') - history_count' + x + 1 = at
      BY <1>1, <1>2, <2>1, <2>2, SizeFacts
    <3>2. CASE x = MaxHistory - 1
      <4>1. term_history'[x] = text /\ at = Len(log) + 1
        BY <1>1, <2>1, <3>1, <3>2, SizeFacts
      <4> QED
        BY <1>2, <3>1, <4>1
    <3>3. CASE x < MaxHistory - 1
      <4>1. term_history'[x] = term_history[x + 1]
        BY <2>1, <3>1, <3>3
      <4>2. term_history[x + 1] = log[at]
        <5>1. x + 1 \in 0 .. history_count - 1 /\ at = Len(log) - history_count + (x + 1) + 1
          BY <1>1, <2>2, <3>1, <3>3, SizeFacts
        <5> QED
          BY <5>1 DEF Inv, HistoryIsTail
      <4>3. log'[at] = log[at]
        BY <1>1, <1>2, <2>2, <3>1, <3>3, SizeFacts
      <4> QED
        BY <3>1, <4>1, <4>2, <4>3
    <3> QED
      BY <3>1, <3>2, <3>3, SizeFacts
  <2>6. history_count' \in Nat
    BY <1>1, <2>1
  <2>7. HistoryIsTail'
    BY <2>4, <2>5 DEF HistoryIsTail
  <2> QED
    BY <1>2, <2>3, <2>6, <2>7
<1> QED
  BY <1>3, <1>4

(* Emptying the history (clear, terminal_launch).                          *)
LEMMA HistoryCleared ==
  ASSUME Inv, history_count' = 0, log' = <<>>, term_history' = term_history
  PROVE  /\ term_history' \in [Slots -> Texts]
         /\ history_count' \in Nat
         /\ log' \in Seq(Texts)
         /\ HistoryIsTail'
BY SizeFacts DEF Inv, TypeOK, HistoryIsTail, Smaller

(* Typing at the end of the line and deleting there keep it a string.      *)
LEMMA Typed ==
  ASSUME Inv, NEW c \in Chars, type(c)
  PROVE  /\ cmd_buf' \in [Cells -> Chars \cup {Nul}]
         /\ cmd_len' \in Nat
         /\ TextInCells'
BY SizeFacts, CharAssumption DEF Inv, TypeOK, InputIsString, TextInCells, type

LEMMA Deleted ==
  ASSUME Inv, backspace
  PROVE  /\ cmd_buf' \in [Cells -> Chars \cup {Nul}]
         /\ cmd_len' \in Nat
         /\ TextInCells'
BY SizeFacts, CharAssumption DEF Inv, TypeOK, InputIsString, TextInCells, backspace

(* A completion writes the part of the name there is room for and either a *)
(* space or the terminator behind it.                                      *)
LEMMA Completed ==
  ASSUME Inv, NEW tail \in Tails, complete(tail)
  PROVE  /\ cmd_buf' \in [Cells -> Chars \cup {Nul}]
         /\ cmd_len' \in Nat
         /\ TextInCells'
<1> DEFINE space == IF cmd_len < MaxCmd - 2 THEN MaxCmd - 2 - cmd_len ELSE 0
           room == Smaller(Len(tail), space)
           end == cmd_len + room
           spaced == end < MaxCmd - 1
<1>1. PICK n \in 0 .. MaxTail : tail \in [1 .. n -> Chars]
  BY DEF Tails
<1>2. n \in Nat /\ Len(tail) = n /\ \A j \in 1 .. n : tail[j] \in Chars
  BY <1>1, BoundAssumption
<1>3. cmd_len \in Nat /\ cmd_len <= MaxCmd - 1 /\ cmd_buf \in [Cells -> Chars \cup {Nul}]
  BY DEF Inv, TypeOK, InputIsString, TextInCells
<1>4. /\ room \in Nat /\ room <= n
      /\ end \in Nat /\ end >= cmd_len /\ end <= MaxCmd - 1
  BY <1>2, <1>3, SizeFacts DEF Smaller
<1>5. /\ cmd_buf' = [x \in Cells |-> IF x >= cmd_len /\ x < end THEN tail[x - cmd_len + 1]
                                    ELSE IF x = end THEN (IF spaced THEN Space ELSE Nul)
                                    ELSE cmd_buf[x]]
      /\ cmd_len' = IF spaced THEN end + 1 ELSE end
  BY DEF complete
<1>6. end = cmd_len + room
  OBVIOUS
<1>7. spaced <=> end < MaxCmd - 1
  OBVIOUS
<1> HIDE DEF room, end, spaced
<1>8. ASSUME NEW x \in Cells, x >= cmd_len, x < end PROVE tail[x - cmd_len + 1] \in Chars
  BY <1>2, <1>3, <1>4, <1>6, <1>8, SizeFacts
<1>9. cmd_len' \in Nat /\ cmd_len' <= MaxCmd - 1
  BY <1>4, <1>5, <1>7, SizeFacts
<1>10. cmd_buf' \in [Cells -> Chars \cup {Nul}]
  BY <1>3, <1>5, <1>8, CharAssumption
<1>11. ASSUME NEW x \in Cells PROVE cmd_buf'[x] = Nul <=> x >= cmd_len'
  <2>1. x \in Nat /\ x < MaxCmd
    BY SizeFacts
  <2>2. CASE x >= cmd_len /\ x < end
    BY <1>3, <1>4, <1>5, <1>7, <1>8, <2>1, <2>2, CharAssumption
  <2>3. CASE x = end
    BY <1>3, <1>4, <1>5, <1>7, <2>1, <2>3, CharAssumption, SizeFacts
  <2>4. CASE x < cmd_len
    <3>1. cmd_buf'[x] = cmd_buf[x] /\ cmd_buf[x] # Nul
      BY <1>3, <1>4, <1>5, <2>1, <2>4 DEF Inv, InputIsString, TextInCells
    <3> QED
      BY <1>3, <1>4, <1>5, <2>1, <2>4, <3>1
  <2>5. CASE x > end
    <3>1. cmd_buf'[x] = cmd_buf[x] /\ cmd_buf[x] = Nul
      BY <1>3, <1>4, <1>5, <2>1, <2>5 DEF Inv, InputIsString, TextInCells
    <3> QED
      BY <1>3, <1>4, <1>5, <2>1, <2>5, <3>1
  <2> QED
    BY <1>3, <1>4, <2>1, <2>2, <2>3, <2>4, <2>5
<1> QED
  BY <1>9, <1>10, <1>11 DEF TextInCells

(* The longest echo, of the longest directory and the longest line, ends   *)
(* before what terminal_handle_key still uses of its frame.                *)
LEMMA EchoInFrame ==
  ASSUME Inv
  PROVE  Echo <= EchoRoom
<1>1. /\ dir_len \in 1 .. DirSize - 1
      /\ cmd_len \in Nat /\ cmd_len <= MaxCmd - 1
  BY DEF Inv, TypeOK, InputIsString, TextInCells
<1>2. /\ DirSize \in Nat /\ PromptLen \in Nat /\ EchoRoom \in Nat
      /\ PromptLen + (DirSize - 1) + (MaxCmd - 1) + 1 <= EchoRoom
  BY EchoAssumption
<1> QED
  BY <1>1, <1>2, SizeFacts DEF Echo

(* Every step keeps the invariant.                                         *)
LEMMA NextInv == Inv /\ [Next]_vars => Inv'
<1> SUFFICES ASSUME Inv, [Next]_vars PROVE Inv'
  OBVIOUS
<1> USE DEF lines, input, scroll
<1>1. ASSUME NEW dz \in -MaxDelta .. MaxDelta, mouse_packet(dz) PROVE Inv'
  <2>1. dz \in Int /\ owed' \in Int
    BY <1>1, BoundAssumption DEF Inv, TypeOK, mouse_packet, Saturate
  <2> QED
    BY <1>1, <2>1 DEF Inv, TypeOK, InputIsString, TextInCells, HistoryIsTail, mouse_packet
<1>2. ASSUME NEW text \in Texts, enter(text) \/ list_matches(text) PROVE Inv'
  <2>1. term_history_add(text) /\ pc' \in {"exec", "tab"} /\ dir_len' = dir_len
        /\ cmd_buf' = [cmd_buf EXCEPT ![cmd_len] = Nul] /\ cmd_len' = cmd_len
    BY <1>2, EchoInFrame DEF enter, list_matches, Echoed
  <2>2. term_scroll_offset' = 0 /\ UNCHANGED <<mouse_scroll_delta, owed>>
    BY <2>1 DEF term_history_add
  <2>3. TypeOK'
    BY <2>1, <2>2, TerminatedLine, HistoryAdd DEF Inv, TypeOK
  <2> QED
    BY <2>1, <2>3, TerminatedLine, HistoryAdd DEF Inv, InputIsString
<1>3. CASE backspace
  <2>1. TypeOK'
    BY <1>3, Deleted DEF Inv, TypeOK, backspace
  <2>2. HistoryIsTail'
    BY <1>3 DEF Inv, HistoryIsTail, backspace
  <2> QED
    BY <1>3, <2>1, <2>2, Deleted DEF Inv, InputIsString, backspace
<1>4. ASSUME NEW c \in Chars, type(c) PROVE Inv'
  <2>1. TypeOK'
    BY <1>4, Typed DEF Inv, TypeOK, type
  <2>2. HistoryIsTail'
    BY <1>4 DEF Inv, HistoryIsTail, type
  <2> QED
    BY <1>4, <2>1, <2>2, Typed DEF Inv, InputIsString, type
<1>5. ASSUME NEW tail \in Tails, complete(tail) PROVE Inv'
  <2>1. UNCHANGED <<dir_len, lines, scroll, pc, drawn>>
    BY <1>5 DEF complete
  <2>2. TypeOK'
    BY <1>5, <2>1, Completed DEF Inv, TypeOK
  <2>3. HistoryIsTail'
    BY <2>1 DEF Inv, HistoryIsTail
  <2> QED
    BY <1>5, <2>1, <2>2, <2>3, Completed DEF Inv, InputIsString
<1>6. ASSUME NEW text \in Texts, print_to_shell(text) PROVE Inv'
  <2>1. term_history_add(text) /\ UNCHANGED <<input, pc, drawn>>
    BY <1>6 DEF print_to_shell
  <2>2. term_scroll_offset' = 0 /\ UNCHANGED <<mouse_scroll_delta, owed>>
    BY <2>1 DEF term_history_add
  <2>3. TypeOK'
    BY <2>1, <2>2, HistoryAdd DEF Inv, TypeOK
  <2>4. InputIsString'
    BY <2>1 DEF Inv, InputIsString, TextInCells
  <2> QED
    BY <2>1, <2>3, <2>4, HistoryAdd DEF Inv
<1>7. CASE terminal_launch
  <2>1. TypeOK'
    BY <1>7, BlankLine, HistoryCleared DEF Inv, TypeOK, terminal_launch
  <2> QED
    BY <1>7, <2>1, BlankLine, HistoryCleared DEF Inv, InputIsString, terminal_launch
<1>8. CASE clear
  <2>1. TypeOK'
    BY <1>8, HistoryCleared DEF Inv, TypeOK, clear
  <2>2. InputIsString'
    BY <1>8 DEF Inv, InputIsString, TextInCells, clear
  <2> QED
    BY <1>8, <2>1, <2>2, HistoryCleared DEF Inv, clear
<1>9. CASE executed
  <2>1. TypeOK'
    BY <1>9, BlankLine DEF Inv, TypeOK, executed
  <2>2. HistoryIsTail'
    BY <1>9 DEF Inv, HistoryIsTail, executed
  <2> QED
    BY <1>9, <2>1, <2>2, BlankLine DEF Inv, InputIsString, executed
<1>10. CASE fetched \/ listed \/ \E active \in BOOLEAN : draw_test(active)
  <2>1. UNCHANGED <<input, lines, scroll, drawn>>
        /\ pc' \in {"keys", "add", "lines"}
    BY <1>10 DEF fetched, listed, draw_test
  <2> QED
    BY <2>1 DEF Inv, TypeOK, InputIsString, TextInCells, HistoryIsTail
<1>11. CASE draw_add
  <2>1. term_scroll_offset' \in Int /\ owed' \in Int
    BY <1>11, BoundAssumption DEF Inv, TypeOK, draw_add, Saturate
  <2> QED
    BY <1>11, <2>1 DEF Inv, TypeOK, InputIsString, TextInCells, HistoryIsTail, draw_add
<1>12. CASE draw_reset
  BY <1>12 DEF Inv, TypeOK, InputIsString, TextInCells, HistoryIsTail, draw_reset
<1>13. CASE draw_lines
  <2>1. MaxVisible \in Int /\ MaxScroll \in Int
    BY SizeAssumption DEF MaxVisible, MaxScroll, Inv, TypeOK
  <2>2. term_scroll_offset' \in Int
    BY <1>13, <2>1 DEF draw_lines, Smaller, Inv, TypeOK
  <2> QED
    BY <1>13, <2>2 DEF Inv, TypeOK, InputIsString, TextInCells, HistoryIsTail, draw_lines
<1>14. ASSUME NEW n \in 1 .. DirSize - 1, cd(n) PROVE Inv'
  BY <1>14 DEF Inv, TypeOK, InputIsString, TextInCells, HistoryIsTail, cd
<1>15. CASE UNCHANGED vars
  BY <1>15 DEF vars, Inv, TypeOK, InputIsString, TextInCells, HistoryIsTail
<1> QED
  BY <1>1, <1>2, <1>3, <1>4, <1>5, <1>6, <1>7, <1>8, <1>9, <1>10, <1>11, <1>12, <1>13, <1>14, <1>15
  DEF Next, Key

LEMMA Invariance == Spec => []Inv
BY InitInv, NextInv, PTL DEF Spec

(* The variables keep their types; every index terminal_handle_key and     *)
(* term_history_add use is inside its array.                               *)
THEOREM TypeCorrect == Spec => []TypeOK
<1>1. Inv => TypeOK
  BY DEF Inv
<1> QED
  BY <1>1, Invariance, PTL

(* The input line is always a string inside cmd_buf, whatever is typed,    *)
(* deleted, completed and executed, for every MAX_CMD, and its echo never  *)
(* reaches what is still used of the frame full_cmd is in.                 *)
THEOREM InputStaysString == Spec => []InputIsString
<1>1. Inv => InputIsString
  BY DEF Inv
<1> QED
  BY <1>1, Invariance, PTL

(* The history is always the lines printed last, in order, for every       *)
(* MAX_HISTORY.                                                            *)
THEOREM HistoryStaysTail == Spec => []HistoryIsTail
<1>1. Inv => HistoryIsTail
  BY DEF Inv
<1> QED
  BY <1>1, Invariance, PTL
-----------------------------------------------------------------------------
(* draw_lines prints the window of the history its clamped offset selects. *)
LEMMA DrawnLines ==
  ASSUME Inv, draw_lines
  PROVE  WindowOnHistory'
<1> DEFINE v == MaxVisible
           top == MaxScroll
           count == history_count
           offset == IF term_scroll_offset < 0 THEN 0 ELSE Smaller(term_scroll_offset, top)
           start == top - offset
<1>1. count \in Nat /\ term_scroll_offset \in Int
  BY DEF Inv, TypeOK
<1>2. v \in Nat /\ 12 * v <= Height - 60 /\ Height - 60 < 12 * v + 12
  BY SizeAssumption DEF MaxVisible
<1>3. top = (IF count > v THEN count - v ELSE 0) /\ top \in Nat
  BY <1>1, <1>2 DEF MaxScroll
<1>4. drawn' = [count |-> count, offset |-> offset,
                shown |-> {x \in start .. count - 1 : 30 + 12 * (x - start) + 12 <= Height - 30}]
  BY DEF draw_lines
<1>5. offset \in Nat /\ offset <= top
  BY <1>1, <1>3 DEF Smaller
<1>6. start = top - offset
  OBVIOUS
<1> HIDE DEF v, top, offset, start, count
<1>7. drawn'.count = count /\ drawn'.offset = offset
      /\ drawn'.shown = {x \in start .. count - 1 : 30 + 12 * (x - start) + 12 <= Height - 30}
  BY <1>4
<1>8. ASSUME NEW x \in 0 .. count - 1
      PROVE  x \in drawn'.shown <=> x < count - offset /\ x >= count - offset - v
  <2>1. x \in Int /\ start \in Int /\ x >= 0 /\ x <= count - 1
    BY <1>1, <1>3, <1>5, <1>6
  <2>2. 30 + 12 * (x - start) + 12 <= Height - 30 <=> 12 * (x - start + 1) <= Height - 60
    BY <2>1, SizeAssumption
  <2>3. 12 * (x - start + 1) <= Height - 60 <=> x - start + 1 <= v
    BY <1>2, <2>1, SizeAssumption
  <2>4. x \in drawn'.shown <=> x >= start /\ x - start + 1 <= v
    BY <1>1, <1>7, <2>1, <2>2, <2>3
  <2> QED
    BY <1>1, <1>2, <1>3, <1>5, <1>6, <2>1, <2>4
<1>9. MaxVisible' = v
  BY DEF MaxVisible, v
<1> QED
  BY <1>5, <1>7, <1>8, <1>9 DEF WindowOnHistory

(* What terminal_draw prints is the window of the history its offset       *)
(* selects, for every height of the window and whatever the wheel did      *)
(* between the loads of its movement.                                      *)
THEOREM WindowStaysOnHistory == Spec => []WindowOnHistory
<1>1. Init => WindowOnHistory
  BY DEF Init, WindowOnHistory
<1>2. Inv /\ WindowOnHistory /\ [Next]_vars => WindowOnHistory'
  <2> SUFFICES ASSUME Inv, WindowOnHistory, [Next]_vars PROVE WindowOnHistory'
    OBVIOUS
  <2>1. CASE draw_lines
    BY <2>1, DrawnLines
  <2>2. CASE UNCHANGED drawn
    BY <2>2 DEF WindowOnHistory, MaxVisible
  <2>3. draw_lines \/ UNCHANGED drawn
    BY DEF Next, Key, vars, mouse_packet, enter, list_matches, backspace, type, complete,
           print_to_shell, terminal_launch, fetched, clear, executed, listed, draw_test,
           draw_add, draw_reset, cd
  <2> QED
    BY <2>1, <2>2, <2>3
<1> QED
  BY <1>1, <1>2, Invariance, PTL DEF Spec
-----------------------------------------------------------------------------
(* Each behaviour of the three parts is one of each of them.               *)
LEMMA PartSteps ==
  MCSpec => /\ Line!Init /\ [][Line!Next]_(Line!vars)
            /\ File!Init /\ [][File!Next]_(File!vars)
<1>1. MCInit => Line!Init /\ File!Init  BY DEF MCInit
<1>2. [MCNext]_mcVars => [Line!Next]_(Line!vars) /\ [File!Next]_(File!vars)
  <2>1. SUFFICES ASSUME [MCNext]_mcVars  PROVE [Line!Next]_(Line!vars) /\ [File!Next]_(File!vars)
    OBVIOUS
  <2>2. lineVars' = lineVars => UNCHANGED Line!vars
    BY DEF lineVars, Line!vars, Line!fields
  <2>3. fileVars' = fileVars => UNCHANGED File!vars
    BY DEF fileVars, File!vars, File!catVars, File!wcVars
  <2>4. \/ lineVars' = lineVars /\ fileVars' = fileVars
        \/ Line!Next /\ fileVars' = fileVars
        \/ File!Next /\ lineVars' = lineVars
    BY <2>1, Zenon DEF MCNext, mcVars
  <2>5. QED  BY <2>2, <2>3, <2>4
<1>3. QED  BY <1>1, <1>2, PTL DEF MCSpec

(* A set of naturals that is not empty has a least element.                *)
LEMMA LeastNat ==
  ASSUME NEW T, T \subseteq Nat, T # {}
  PROVE  \E x \in T : \A y \in T : x <= y
<1> DEFINE Down == {1 .. n : n \in T}
<1>1. \A n \in Nat : IsFiniteSet(1 .. n) /\ (1 .. n) \in SUBSET Nat
  BY FS_Interval
<1>2. \A n \in Nat : (1 .. n) \in FiniteSubsetsOf(Nat)
  BY <1>1 DEF FiniteSubsetsOf
<1>3. Down \subseteq FiniteSubsetsOf(Nat) /\ Down # {}
  BY <1>2
<1>4. PICK D \in Down : \A E \in Down : ~ (<<E, D>> \in StrictSubsetOrdering(Nat))
  BY <1>3, WFMin, FS_StrictSubsetOrderingWellFounded
<1>5. PICK x \in T : D = 1 .. x
  OBVIOUS
<1>6. ASSUME NEW y \in T, y < x  PROVE FALSE
  <2>1. x \in 1 .. x /\ x \notin 1 .. y /\ 1 .. y \subseteq 1 .. x
    BY <1>6
  <2>2. <<1 .. y, 1 .. x>> \in StrictSubsetOrdering(Nat)
    BY <1>1, <2>1 DEF StrictSubsetOrdering
  <2>3. QED  BY <1>4, <1>5, <2>2
<1>7. QED  BY <1>6

LEMMA SetInduction ==
  ASSUME NEW S \in SUBSET Nat, 0 \in S, \A n \in S : n + 1 \in S
  PROVE  S = Nat
<1> SUFFICES ASSUME S # Nat  PROVE FALSE
  OBVIOUS
<1>1. PICK x \in Nat \ S : \A y \in Nat \ S : x <= y
  <2>1. Nat \ S # {} /\ Nat \ S \subseteq Nat
    OBVIOUS
  <2>2. QED  BY <2>1, LeastNat
<1>2. x - 1 \in S
  BY <1>1
<1>3. QED  BY <1>1, <1>2
-----------------------------------------------------------------------------
(***************************************************************************)
(* cat and wc (FileCommands).  First FlattenSeq, whose definition is a     *)
(* recursive function: it exists, there is only one, and so flattening one *)
(* sequence more appends that sequence.                                    *)
(***************************************************************************)
Flattens(f, n, s) == f = [k \in 1 .. n |-> IF k = 1 THEN s[k] ELSE f[k - 1] \o s[k]]

LEMMA FlattenAt ==
  ASSUME NEW f, NEW n, NEW s, Flattens(f, n, s)
  PROVE  \A k \in 1 .. n : f[k] = IF k = 1 THEN s[k] ELSE f[k - 1] \o s[k]
BY DEF Flattens

LEMMA FlattenLast ==
  ASSUME NEW f, NEW n \in Nat, NEW s, Flattens(f, n + 1, s)
  PROVE  f[n + 1] = IF n = 0 THEN s[1] ELSE f[n] \o s[n + 1]
<1>1. n + 1 \in 1 .. n + 1 /\ n + 1 - 1 = n /\ (n + 1 = 1 <=> n = 0)
  OBVIOUS
<1>2. f[n + 1] = IF n + 1 = 1 THEN s[n + 1] ELSE f[n + 1 - 1] \o s[n + 1]
  BY <1>1, FlattenAt
<1>3. QED  BY <1>1, <1>2

LEMMA FlattenExists ==
  ASSUME NEW M \in Nat, NEW s
  PROVE  \E f : Flattens(f, M, s)
<1> DEFINE P(n) == \E f : Flattens(f, n, s)
           S == {n \in Nat : P(n)}
<1>1. P(0)
  <2> DEFINE f == [k \in 1 .. 0 |-> s[k]]
  <2>1. f = [k \in 1 .. 0 |-> IF k = 1 THEN s[k] ELSE f[k - 1] \o s[k]]
    OBVIOUS
  <2>2. QED  BY <2>1 DEF Flattens
<1>2. ASSUME NEW n \in Nat, P(n)  PROVE P(n + 1)
  <2>1. PICK g : g = [k \in 1 .. n |-> IF k = 1 THEN s[k] ELSE g[k - 1] \o s[k]]
    BY <1>2 DEF Flattens
  <2> DEFINE f == [k \in 1 .. n + 1 |-> IF k = 1 THEN s[k] ELSE g[k - 1] \o s[k]]
  <2>2. ASSUME NEW k \in 1 .. n  PROVE f[k] = g[k]
    <3>1. k \in 1 .. n + 1
      OBVIOUS
    <3>2. f[k] = IF k = 1 THEN s[k] ELSE g[k - 1] \o s[k]
      BY <3>1
    <3>3. QED  BY <2>1, <3>2
  <2>3. ASSUME NEW k \in 1 .. n + 1
        PROVE  f[k] = IF k = 1 THEN s[k] ELSE f[k - 1] \o s[k]
    <3>1. f[k] = IF k = 1 THEN s[k] ELSE g[k - 1] \o s[k]
      OBVIOUS
    <3>2. k # 1 => k - 1 \in 1 .. n
      OBVIOUS
    <3>3. k # 1 => f[k - 1] = g[k - 1]
      BY <2>2, <3>2
    <3>4. QED  BY <3>1, <3>3
  <2>4. f = [k \in 1 .. n + 1 |-> f[k]]
    OBVIOUS
  <2> HIDE DEF f
  <2>5. f = [k \in 1 .. n + 1 |-> IF k = 1 THEN s[k] ELSE f[k - 1] \o s[k]]
    BY <2>3, <2>4
  <2>6. QED  BY <2>5 DEF Flattens
<1> HIDE DEF P
<1>3. 0 \in S /\ \A n \in S : n + 1 \in S
  BY <1>1, <1>2
<1>4. S = Nat
  BY <1>3, SetInduction
<1>5. P(M)
  BY <1>4
<1>6. QED  BY <1>5 DEF P

(* Two flattenings agree as far as their sequences do.                     *)
LEMMA FlattenUnique ==
  ASSUME NEW M \in Nat, NEW s, NEW t, NEW f, NEW g, NEW L \in Nat, M <= L,
         Flattens(f, M, s), Flattens(g, L, t), \A k \in 1 .. M : s[k] = t[k]
  PROVE  \A k \in 1 .. M : f[k] = g[k]
<1> DEFINE P(n) == n \in 1 .. M => f[n] = g[n]
           S == {n \in Nat : P(n)}
<1>1. /\ \A k \in 1 .. M : f[k] = IF k = 1 THEN s[k] ELSE f[k - 1] \o s[k]
      /\ \A k \in 1 .. L : g[k] = IF k = 1 THEN t[k] ELSE g[k - 1] \o t[k]
  BY DEF Flattens
<1>2. \A k \in 1 .. M : k \in 1 .. L
  OBVIOUS
<1>3. P(0)
  OBVIOUS
<1>4. ASSUME NEW n \in Nat, P(n)  PROVE P(n + 1)
  <2>1. SUFFICES ASSUME n + 1 \in 1 .. M  PROVE f[n + 1] = g[n + 1]
    OBVIOUS
  <2>2. f[n + 1] = IF n + 1 = 1 THEN s[n + 1] ELSE f[n + 1 - 1] \o s[n + 1]
    BY <1>1, <2>1
  <2>3. g[n + 1] = IF n + 1 = 1 THEN t[n + 1] ELSE g[n + 1 - 1] \o t[n + 1]
    BY <1>1, <1>2, <2>1
  <2>4. s[n + 1] = t[n + 1] /\ n + 1 - 1 = n
    BY <2>1
  <2>5. n + 1 # 1 => n \in 1 .. M
    BY <2>1
  <2>6. QED  BY <1>4, <2>2, <2>3, <2>4, <2>5
<1> HIDE DEF P
<1>5. 0 \in S /\ \A n \in S : n + 1 \in S
  BY <1>3, <1>4
<1>6. S = Nat
  BY <1>5, SetInduction
<1>7. QED  BY <1>6 DEF P

LEMMA FlattenIs ==
  ASSUME NEW s, Len(s) \in Nat, Len(s) > 0
  PROVE  \E f : Flattens(f, Len(s), s) /\ File!FlattenSeq(s) = f[Len(s)]
<1> DEFINE c == CHOOSE f : f = [k \in 1 .. Len(s) |-> IF k = 1 THEN s[k] ELSE f[k - 1] \o s[k]]
<1>1. \E f : Flattens(f, Len(s), s)
  BY FlattenExists
<1>2. Flattens(c, Len(s), s)
  BY <1>1, Zenon DEF Flattens
<1>3. File!FlattenSeq(s) = c[Len(s)]
  BY DEF File!FlattenSeq
<1> HIDE DEF c
<1>4. QED  BY <1>2, <1>3

LEMMA FlattenAppend ==
  ASSUME NEW B, NEW s \in Seq(Seq(B)), NEW x \in Seq(B)
  PROVE  File!FlattenSeq(Append(s, x)) = File!FlattenSeq(s) \o x
<1> DEFINE t == Append(s, x)
           n == Len(s)
<1>1. n \in Nat /\ Len(t) = n + 1 /\ t[n + 1] = x /\ \A k \in 1 .. n : s[k] = t[k]
  OBVIOUS
<1>2. PICK g : Flattens(g, n + 1, t) /\ File!FlattenSeq(t) = g[n + 1]
  <2>1. Len(t) \in Nat /\ Len(t) > 0
    BY <1>1
  <2> HIDE DEF t
  <2>2. QED  BY <1>1, <2>1, FlattenIs
<1>3. g[n + 1] = IF n = 0 THEN t[1] ELSE g[n] \o t[n + 1]
  BY <1>1, <1>2, FlattenLast
<1>4. CASE n = 0
  <2>1. s = << >> /\ File!FlattenSeq(s) = << >>
    BY <1>4 DEF File!FlattenSeq
  <2>2. File!FlattenSeq(s) \o x = x
    BY <2>1
  <2> HIDE DEF t, n
  <2>3. QED  BY <1>1, <1>2, <1>3, <1>4, <2>2 DEF t
<1>5. CASE n # 0
  <2>1. PICK f : Flattens(f, n, s) /\ File!FlattenSeq(s) = f[n]
    <3>1. Len(s) \in Nat /\ Len(s) > 0
      BY <1>1, <1>5
    <3>2. QED  BY <3>1, FlattenIs
  <2> HIDE DEF t, n
  <2>2. n \in Nat /\ n + 1 \in Nat /\ n <= n + 1 /\ n \in 1 .. n /\ n + 1 - 1 = n /\ n + 1 # 1
    BY <1>1, <1>5
  <2>3. f[n] = g[n]
    BY <1>1, <1>2, <2>1, <2>2, FlattenUnique
  <2>4. QED  BY <1>1, <1>2, <1>3, <2>1, <2>2, <2>3 DEF t
<1>6. QED  BY <1>4, <1>5

(* The flattening of sequences over B is one.                              *)
LEMMA FlattenType ==
  ASSUME NEW B, NEW s \in Seq(Seq(B))
  PROVE  File!FlattenSeq(s) \in Seq(B)
<1> DEFINE n == Len(s)
<1>1. n \in Nat /\ \A k \in 1 .. n : s[k] \in Seq(B)
  OBVIOUS
<1>2. CASE n = 0
  <2>1. s = << >> /\ File!FlattenSeq(s) = << >>
    BY <1>2 DEF File!FlattenSeq
  <2>2. << >> \in Seq(B)
    OBVIOUS
  <2>3. QED  BY <2>1, <2>2, Zenon
<1>3. CASE n # 0
  <2>1. PICK f : Flattens(f, n, s) /\ File!FlattenSeq(s) = f[n]
    BY <1>1, <1>3, FlattenIs
  <2> HIDE DEF n
  <2> DEFINE P(k) == k \in 1 .. n => f[k] \in Seq(B)
             S == {k \in Nat : P(k)}
  <2>2. P(0)
    OBVIOUS
  <2>3. ASSUME NEW k \in Nat, P(k)  PROVE P(k + 1)
    <3>1. SUFFICES ASSUME k + 1 \in 1 .. n  PROVE f[k + 1] \in Seq(B)
      OBVIOUS
    <3>2. f[k + 1] = IF k + 1 = 1 THEN s[k + 1] ELSE f[k + 1 - 1] \o s[k + 1]
      <4>1. Flattens(f, n, s)
        BY <2>1
      <4>2. QED  BY <3>1, <4>1, FlattenAt
    <3>3. k + 1 - 1 = k /\ (k + 1 # 1 => k \in 1 .. n)
      BY <3>1, <1>1
    <3>4. CASE k + 1 = 1  BY <3>1, <3>2, <3>4, <1>1
    <3>5. CASE k + 1 # 1
      <4>1. f[k] \in Seq(B) /\ s[k + 1] \in Seq(B)  BY <1>1, <2>3, <3>1, <3>3, <3>5
      <4>2. f[k + 1] = f[k] \o s[k + 1]  BY <3>2, <3>3, <3>5
      <4>3. QED  BY <4>1, <4>2
    <3>6. QED  BY <3>4, <3>5
  <2> HIDE DEF P
  <2>4. 0 \in S /\ \A k \in S : k + 1 \in S
    BY <2>2, <2>3
  <2>5. S = Nat
    BY <2>4, SetInduction
  <2>6. P(n) /\ n \in 1 .. n
    BY <1>1, <1>3, <2>5
  <2>7. QED  BY <2>1, <2>6 DEF P
<1>4. QED  BY <1>2, <1>3

(* What the constants and the file are.                                    *)
LEMMA FileSizes ==
  /\ MaxSize \in Nat /\ CatMax \in Nat /\ LineMax \in Nat /\ BufSize \in Nat /\ LineMax < BufSize
  /\ NewLine # FileBlank /\ NewLine \notin FileLetters /\ FileBlank \notin FileLetters
  /\ NewLine \in File!Byte
  /\ \A c \in File!Byte : c \in FileLetters \/ c = NewLine \/ c = FileBlank
BY FileAssumption DEF File!SizesOK, File!Distinct, File!Byte

LEMMA FilesAreSeqs ==
  ASSUME NEW d \in File!Files
  PROVE  d \in Seq(File!Byte) /\ Len(d) \in Nat /\ Len(d) <= MaxSize
<1>1. PICK n \in 0 .. MaxSize : d \in [1 .. n -> File!Byte]
  BY DEF File!Files
<1>2. n \in Nat /\ n <= MaxSize
  BY FileSizes
<1>3. d \in Seq(File!Byte) /\ Len(d) = n
  BY <1>1, <1>2
<1>4. QED  BY <1>2, <1>3

LEMMA FunctionIsSeq ==
  ASSUME NEW X, NEW n \in Nat, NEW f \in [1 .. n -> X]
  PROVE  f \in Seq(X) /\ Len(f) = n
OBVIOUS

LEMMA AppendIs ==
  ASSUME NEW X, NEW u \in Seq(X), NEW v \in X
  PROVE  /\ Append(u, v) = [k \in 1 .. Len(u) + 1 |-> Append(u, v)[k]]
         /\ Append(u, v)[Len(u) + 1] = v
         /\ \A k \in 1 .. Len(u) : Append(u, v)[k] = u[k]
<1>1. Append(u, v) \in Seq(X) /\ Len(Append(u, v)) = Len(u) + 1 /\ Len(u) \in Nat
  OBVIOUS
<1>2. \A w \in Seq(X) : w = [k \in 1 .. Len(w) |-> w[k]]
  OBVIOUS
<1>3. Append(u, v) = [k \in 1 .. Len(u) + 1 |-> Append(u, v)[k]]
  <2>1. Append(u, v) = [k \in 1 .. Len(Append(u, v)) |-> Append(u, v)[k]]
    BY <1>1, <1>2, Zenon
  <2>2. QED  BY <1>1, <2>1, Zenon
<1>4. Append(u, v)[Len(u) + 1] = v /\ \A k \in 1 .. Len(u) : Append(u, v)[k] = u[k]
  OBVIOUS
<1>5. QED  BY <1>3, <1>4

Ended(pr) == [k \in DOMAIN pr |-> Append(pr[k], NewLine)]

LEMMA EndedAppend ==
  ASSUME NEW B, NewLine \in B, NEW pr \in Seq(Seq(B)), NEW l \in Seq(B)
  PROVE  /\ Ended(pr) \in Seq(Seq(B))
         /\ Ended(Append(pr, l)) = Append(Ended(pr), Append(l, NewLine))
         /\ File!FlattenSeq(Ended(pr)) \in Seq(B)
         /\ File!FlattenSeq(Ended(Append(pr, l))) = File!FlattenSeq(Ended(pr)) \o Append(l, NewLine)
<1>1. Ended(pr) \in Seq(Seq(B)) /\ Len(Ended(pr)) = Len(pr)
  <2>1. \A k \in 1 .. Len(pr) : Append(pr[k], NewLine) \in Seq(B)
    OBVIOUS
  <2>2. DOMAIN pr = 1 .. Len(pr) /\ Len(pr) \in Nat
    OBVIOUS
  <2>3. Ended(pr) \in [1 .. Len(pr) -> Seq(B)]
    BY <2>1, <2>2 DEF Ended
  <2>4. QED  BY <2>2, <2>3, FunctionIsSeq
<1>2. Append(l, NewLine) \in Seq(B)
  OBVIOUS
<1>3. Ended(Append(pr, l)) = Append(Ended(pr), Append(l, NewLine))
  <2> DEFINE n == Len(pr)
             p2 == Append(pr, l)
             L == Ended(p2)
             R == Append(Ended(pr), Append(l, NewLine))
  <2>1. n \in Nat /\ DOMAIN p2 = 1 .. n + 1 /\ p2[n + 1] = l /\ (\A k \in 1 .. n : p2[k] = pr[k])
    OBVIOUS
  <2>2. L = [k \in 1 .. n + 1 |-> L[k]] /\ \A k \in 1 .. n + 1 : L[k] = Append(p2[k], NewLine)
    BY <2>1 DEF Ended
  <2>3. R = [k \in 1 .. n + 1 |-> R[k]] /\ R[n + 1] = Append(l, NewLine)
        /\ \A k \in 1 .. n : R[k] = Ended(pr)[k]
    <3>1. ASSUME NEW u \in Seq(Seq(B)), NEW v \in Seq(B), Len(u) = n
          PROVE  /\ Append(u, v) = [k \in 1 .. n + 1 |-> Append(u, v)[k]]
                 /\ Append(u, v)[n + 1] = v
                 /\ \A k \in 1 .. n : Append(u, v)[k] = u[k]
      BY <3>1, AppendIs
    <3>2. QED  BY <1>1, <1>2, <3>1
  <2>4. \A k \in 1 .. n : Ended(pr)[k] = Append(pr[k], NewLine)
    BY DEF Ended
  <2> HIDE DEF L, R, p2, n
  <2>5. ASSUME NEW k \in 1 .. n + 1  PROVE L[k] = R[k]
    <3>1. CASE k = n + 1  BY <2>1, <2>2, <2>3, <3>1
    <3>2. CASE k # n + 1
      <4>1. k \in 1 .. n  BY <2>1, <3>2
      <4>2. L[k] = Append(pr[k], NewLine)  BY <2>1, <2>2, <4>1
      <4>3. QED  BY <2>3, <2>4, <4>1, <4>2
    <3>3. QED  BY <3>1, <3>2
  <2>6. L = R  BY <2>2, <2>3, <2>5
  <2>7. QED  BY <2>6 DEF L, R, p2
<1>4. File!FlattenSeq(Ended(pr)) \in Seq(B)
  BY <1>1, FlattenType
<1>5. File!FlattenSeq(Append(Ended(pr), Append(l, NewLine))) = File!FlattenSeq(Ended(pr)) \o Append(l, NewLine)
  BY <1>1, <1>2, FlattenAppend
<1>6. QED  BY <1>1, <1>3, <1>4, <1>5

(* One byte more has been read.                                            *)
LEMMA ReadMore ==
  ASSUME NEW B, NEW d \in Seq(B), NEW n \in Nat, n < Len(d)
  PROVE  /\ SubSeq(d, 1, n) \in Seq(B) /\ Len(SubSeq(d, 1, n)) = n
         /\ \A k \in 1 .. n : SubSeq(d, 1, n)[k] = d[k]
         /\ d[n + 1] \in B
         /\ SubSeq(d, 1, n + 1) = Append(SubSeq(d, 1, n), d[n + 1])
OBVIOUS

LEMMA ReadFacts ==
  ASSUME NEW B, NEW d \in Seq(B), NEW n \in Nat, n <= Len(d)
  PROVE  /\ SubSeq(d, 1, n) \in Seq(B) /\ Len(SubSeq(d, 1, n)) = n
         /\ \A k \in 1 .. n : SubSeq(d, 1, n)[k] = d[k]
OBVIOUS

(* No long line so far: the lines printed, each with its newline, and what *)
(* is collected are the text read, and the line collected has no newline.  *)
CatInv ==
  /\ line_buf \in Seq(File!Byte) /\ Len(line_buf) <= LineMax
  /\ printed \in Seq(Seq(File!Byte))
  /\ \A k \in DOMAIN printed : Len(printed[k]) <= LineMax
  /\ file_pc = "cat" /\ ~File!HasLongLine(File!Read) =>
       /\ File!FlattenSeq(Ended(printed)) \o line_buf = File!Read
       /\ \A k \in DOMAIN line_buf : line_buf[k] # NewLine
  /\ file_pc = "cat_done" /\ ~File!HasLongLine(File!Read) =>
       File!FlattenSeq(Ended(printed)) \in {File!Read, Append(File!Read, NewLine)}

(* A word is being read when the last byte was a letter.                   *)
WordStarts(n) == {k \in 1 .. n : data[k] \in FileLetters /\ (k = 1 \/ data[k - 1] \notin FileLetters)}
LineEnds(n) == {k \in 1 .. n : data[k] = NewLine}
WcInv ==
  /\ in_word \in BOOLEAN
  /\ file_pc = "wc" =>
       /\ words = Cardinality(WordStarts(i)) /\ wc_lines = Cardinality(LineEnds(i))
       /\ in_word <=> i > 0 /\ data[i] \in FileLetters

FileInv ==
  /\ data \in File!Files
  /\ file_pc \in File!AtPrompt \cup {"cat", "wc"}
  /\ i \in Nat /\ i <= Len(data)
  /\ CatInv /\ WcInv

LEMMA FileInit == File!Init => FileInv
<1> SUFFICES ASSUME File!Init  PROVE FileInv
  OBVIOUS
<1> USE DEF File!Init
<1>1. data \in File!Files /\ file_pc = "prompt" /\ i = 0 /\ Len(data) \in Nat
  BY FilesAreSeqs
<1>2. line_buf = << >> /\ printed = << >> /\ in_word = FALSE
  OBVIOUS
<1>3. \A X : << >> \in Seq(X) /\ Len(<< >>) = 0 /\ DOMAIN << >> = {}
  OBVIOUS
<1>4. CatInv
  <2>1. line_buf \in Seq(File!Byte) /\ printed \in Seq(Seq(File!Byte)) /\ DOMAIN printed = {}
    BY <1>2, <1>3, Zenon
  <2>2. Len(line_buf) <= LineMax
    BY <1>2, <1>3, FileSizes
  <2>3. QED  BY <1>1, <2>1, <2>2 DEF CatInv
<1>5. WcInv
  <2>1. in_word \in BOOLEAN  BY <1>2, Zenon
  <2>2. QED  BY <1>1, <2>1 DEF WcInv
<1>6. QED  BY <1>1, <1>4, <1>5 DEF FileInv, File!AtPrompt

LEMMA EmptySeq == \A X : << >> \in Seq(X) /\ Len(<< >>) = 0 /\ DOMAIN << >> = {}
OBVIOUS

(* cat begins with nothing.                                                *)
LEMMA CatStep == FileInv /\ File!cat => FileInv'
<1> SUFFICES ASSUME FileInv, File!cat  PROVE FileInv'
  OBVIOUS
<1>1. /\ file_pc' = "cat" /\ i' = 0 /\ line_buf' = << >> /\ printed' = << >>
      /\ data' = data /\ in_word' = in_word
  BY DEF File!cat, File!wcVars
<1>2. data' \in File!Files /\ Len(data') \in Nat
  BY <1>1, FilesAreSeqs DEF FileInv
<1>3. line_buf' \in Seq(File!Byte) /\ printed' \in Seq(Seq(File!Byte)) /\ DOMAIN printed' = {}
      /\ DOMAIN line_buf' = {} /\ Len(line_buf') = 0
  BY <1>1, EmptySeq, Zenon
<1>4. File!Read' = << >>
  <2>1. SubSeq(data, 1, 0) = << >>
    OBVIOUS
  <2>2. QED  BY <1>1, <2>1 DEF File!Read
<1>5. File!FlattenSeq(Ended(printed')) \o line_buf' = << >>
  <2>1. Ended(<< >>) = << >>
    BY DEF Ended
  <2>2. File!FlattenSeq(<< >>) = << >>
    BY EmptySeq DEF File!FlattenSeq
  <2>3. << >> \o << >> = << >>
    OBVIOUS
  <2>4. QED  BY <1>1, <2>1, <2>2, <2>3, Zenon
<1>6. CatInv'
  <2>1. Len(line_buf') <= LineMax  BY <1>3, FileSizes
  <2>2. QED  BY <1>1, <1>3, <1>4, <1>5, <2>1 DEF CatInv
<1>7. WcInv'  BY <1>1 DEF FileInv, WcInv
<1>8. QED  BY <1>1, <1>2, <1>6, <1>7 DEF FileInv

(* A line that gets longer than cat's limit is one of the text's.          *)
LEMMA LongLine ==
  ASSUME NEW B, NEW t \in Seq(B), NEW l \in Seq(B), NEW c \in B,
         Len(l) = LineMax, \A k \in DOMAIN l : l[k] # NewLine, c # NewLine
  PROVE  File!HasLongLine(Append(t \o l, c))
<1> DEFINE text == Append(t \o l, c)
           n == Len(t)
<1>1. n \in Nat /\ LineMax \in Nat /\ t \o l \in Seq(B) /\ Len(t \o l) = n + LineMax
  BY FileSizes
<1>2. /\ Len(text) = n + LineMax + 1
      /\ text[n + LineMax + 1] = c
      /\ \A k \in 1 .. n + LineMax : text[k] = (t \o l)[k]
  <2>1. \A u \in Seq(B) : /\ Len(Append(u, c)) = Len(u) + 1
                          /\ Append(u, c)[Len(u) + 1] = c
                          /\ \A k \in 1 .. Len(u) : Append(u, c)[k] = u[k]
    BY AppendIs
  <2> HIDE DEF n
  <2>2. /\ Len(text) = Len(t \o l) + 1
        /\ text[Len(t \o l) + 1] = c
        /\ \A k \in 1 .. Len(t \o l) : text[k] = (t \o l)[k]
    BY <1>1, <2>1, Zenon
  <2>3. QED  BY <1>1, <2>2
<1>3. \A k \in 1 .. LineMax : (t \o l)[n + k] = l[k]
  OBVIOUS
<1> HIDE DEF text
<1>4. ASSUME NEW k \in n + 1 .. n + LineMax + 1  PROVE text[k] # NewLine
  <2>1. CASE k = n + LineMax + 1  BY <1>2, <2>1
  <2>2. CASE k # n + LineMax + 1
    <3>1. k - n \in 1 .. LineMax /\ k \in 1 .. n + LineMax /\ n + (k - n) = k
      BY <1>1, <2>2
    <3>2. text[k] = l[k - n]
      BY <1>2, <1>3, <3>1
    <3>3. k - n \in DOMAIN l
      BY <3>1
    <3>4. QED  BY <3>2, <3>3
  <2>3. QED  BY <2>1, <2>2
<1>5. /\ n + 1 \in 1 .. Len(text) /\ n + LineMax + 1 \in 1 .. Len(text)
      /\ (n + LineMax + 1) - (n + 1) = LineMax
  BY <1>1, <1>2
<1>6. File!HasLongLine(text)
  BY <1>4, <1>5 DEF File!HasLongLine
<1>7. QED  BY <1>6 DEF text

(* A long line stays one when more is read.                                *)
LEMMA LongLineStays ==
  ASSUME NEW B, NEW t \in Seq(B), NEW c \in B, File!HasLongLine(t)
  PROVE  File!HasLongLine(Append(t, c))
<1>1. PICK from \in 1 .. Len(t), to \in 1 .. Len(t) :
        to - from = LineMax /\ \A k \in from .. to : t[k] # NewLine
  BY DEF File!HasLongLine
<1> DEFINE u == Append(t, c)
<1>2. Len(t) \in Nat /\ Len(u) = Len(t) + 1 /\ \A k \in 1 .. Len(t) : u[k] = t[k]
  BY AppendIs
<1> HIDE DEF u
<1>3. \A k \in from .. to : k \in 1 .. Len(t)
  BY <1>2
<1>4. from \in 1 .. Len(u) /\ to \in 1 .. Len(u) /\ \A k \in from .. to : u[k] # NewLine
  BY <1>1, <1>2, <1>3
<1>5. QED  BY <1>1, <1>4 DEF File!HasLongLine, u

LEMMA CatByteStep == FileInv /\ File!cat_byte => FileInv'
<1> SUFFICES ASSUME FileInv, File!cat_byte  PROVE FileInv'
  OBVIOUS
<1> DEFINE c == data[i + 1]
           flat == File!FlattenSeq(Ended(printed))
<1>1. /\ file_pc = "cat" /\ file_pc' = "cat" /\ i < File!Shown /\ i' = i + 1
      /\ data' = data /\ in_word' = in_word
  BY DEF File!cat_byte, File!wcVars
<1>2. /\ data \in File!Files /\ data \in Seq(File!Byte) /\ Len(data) \in Nat
      /\ i \in Nat /\ i < Len(data)
  BY <1>1, FilesAreSeqs, FileSizes DEF FileInv, File!Shown
<1>3. /\ File!Read \in Seq(File!Byte) /\ c \in File!Byte
      /\ File!Read' = Append(File!Read, c)
  <2>1. SubSeq(data, 1, i) \in Seq(File!Byte) /\ c \in File!Byte
        /\ SubSeq(data, 1, i + 1) = Append(SubSeq(data, 1, i), c)
    BY <1>2, ReadMore
  <2>2. QED  BY <1>1, <2>1 DEF File!Read
<1>4. /\ line_buf \in Seq(File!Byte) /\ Len(line_buf) <= LineMax /\ Len(line_buf) \in Nat
      /\ printed \in Seq(Seq(File!Byte))
      /\ \A k \in DOMAIN printed : Len(printed[k]) <= LineMax
  BY DEF FileInv, CatInv
<1>5. IF c = NewLine \/ Len(line_buf) >= LineMax
      THEN printed' = Append(printed, line_buf) /\ line_buf' = << >>
      ELSE line_buf' = Append(line_buf, c) /\ printed' = printed
  BY DEF File!cat_byte
<1> HIDE DEF c
<1>6. flat \in Seq(File!Byte)
  BY <1>4, FileSizes, EndedAppend
<1>7. ~File!HasLongLine(File!Read') =>
        /\ ~File!HasLongLine(File!Read)
        /\ flat \o line_buf = File!Read
        /\ \A k \in DOMAIN line_buf : line_buf[k] # NewLine
  <2>1. ~File!HasLongLine(File!Read') => ~File!HasLongLine(File!Read)
    BY <1>3, LongLineStays
  <2>2. QED  BY <1>1, <2>1 DEF FileInv, CatInv
<1> HIDE DEF flat
<1>8. CASE c = NewLine \/ Len(line_buf) >= LineMax
  <2>1. printed' = Append(printed, line_buf) /\ line_buf' = << >>
    BY <1>5, <1>8
  <2>2. line_buf' \in Seq(File!Byte) /\ Len(line_buf') = 0 /\ DOMAIN line_buf' = {}
    BY <2>1, EmptySeq, Zenon
  <2>3. printed' \in Seq(Seq(File!Byte)) /\ \A k \in DOMAIN printed' : Len(printed'[k]) <= LineMax
    <3>1. printed' \in Seq(Seq(File!Byte)) /\ Len(printed') = Len(printed) + 1 /\ Len(printed) \in Nat
          /\ printed'[Len(printed) + 1] = line_buf
          /\ \A k \in 1 .. Len(printed) : printed'[k] = printed[k]
      BY <1>4, <2>1
    <3>2. DOMAIN printed' = 1 .. Len(printed) + 1 /\ DOMAIN printed = 1 .. Len(printed)
      BY <1>4, <3>1
    <3>3. \A k \in 1 .. Len(printed) + 1 : k = Len(printed) + 1 \/ k \in 1 .. Len(printed)
      BY <3>1
    <3>4. QED  BY <1>4, <3>1, <3>2, <3>3
  <2>4. ~File!HasLongLine(File!Read') => File!FlattenSeq(Ended(printed')) \o line_buf' = File!Read'
    <3>1. SUFFICES ASSUME ~File!HasLongLine(File!Read')
                   PROVE  File!FlattenSeq(Ended(printed')) \o line_buf' = File!Read'
      OBVIOUS
    <3>2. c = NewLine
      <4>1. SUFFICES ASSUME c # NewLine  PROVE FALSE
        OBVIOUS
      <4>2. Len(line_buf) = LineMax
        BY <1>4, <1>8, <4>1, FileSizes
      <4>3. File!HasLongLine(Append(flat \o line_buf, c))
        BY <1>3, <1>4, <1>6, <1>7, <3>1, <4>1, <4>2, LongLine
      <4>4. QED  BY <1>3, <1>7, <3>1, <4>3
    <3>3. File!FlattenSeq(Ended(printed')) = flat \o Append(line_buf, NewLine)
      BY <1>4, <2>1, FileSizes, EndedAppend DEF flat
    <3>4. flat \o Append(line_buf, NewLine) = Append(flat \o line_buf, NewLine)
      <4>1. NewLine \in File!Byte  BY FileSizes
      <4>2. QED  BY <1>4, <1>6, <4>1
    <3>5. File!FlattenSeq(Ended(printed')) = File!Read'
      BY <1>3, <1>7, <3>1, <3>2, <3>3, <3>4
    <3>6. File!Read' \in Seq(File!Byte)
      BY <1>3
    <3>7. \A t \in Seq(File!Byte) : t \o << >> = t
      OBVIOUS
    <3>8. QED  BY <2>1, <3>5, <3>6, <3>7, Zenon
  <2>5. Len(line_buf') <= LineMax
    BY <2>2, FileSizes
  <2>6. CatInv'
    BY <1>1, <2>2, <2>3, <2>4, <2>5 DEF CatInv
  <2>7. WcInv'  BY <1>1 DEF FileInv, WcInv
  <2>8. QED  BY <1>1, <1>2, <2>6, <2>7 DEF FileInv
<1>9. CASE ~(c = NewLine \/ Len(line_buf) >= LineMax)
  <2>1. line_buf' = Append(line_buf, c) /\ printed' = printed /\ c # NewLine /\ ~(Len(line_buf) >= LineMax)
    BY <1>5, <1>9
  <2>2. /\ line_buf' \in Seq(File!Byte) /\ Len(line_buf') = Len(line_buf) + 1
        /\ line_buf'[Len(line_buf) + 1] = c
        /\ \A k \in 1 .. Len(line_buf) : line_buf'[k] = line_buf[k]
    BY <1>3, <1>4, <2>1
  <2>3. Len(line_buf') <= LineMax
    BY <1>4, <2>1, <2>2, FileSizes
  <2>4. ~File!HasLongLine(File!Read') =>
          /\ flat \o line_buf' = File!Read'
          /\ \A k \in DOMAIN line_buf' : line_buf'[k] # NewLine
    <3>1. SUFFICES ASSUME ~File!HasLongLine(File!Read')
                   PROVE  /\ flat \o line_buf' = File!Read'
                          /\ \A k \in DOMAIN line_buf' : line_buf'[k] # NewLine
      OBVIOUS
    <3>2. flat \o Append(line_buf, c) = Append(flat \o line_buf, c)
      BY <1>3, <1>4, <1>6
    <3>3. flat \o line_buf' = File!Read'
      BY <1>3, <1>7, <2>1, <3>1, <3>2
    <3>4. DOMAIN line_buf' = 1 .. Len(line_buf) + 1 /\ DOMAIN line_buf = 1 .. Len(line_buf)
      BY <1>4, <2>2
    <3>5. \A k \in 1 .. Len(line_buf) + 1 : k = Len(line_buf) + 1 \/ k \in 1 .. Len(line_buf)
      BY <1>4
    <3>6. \A k \in DOMAIN line_buf' : line_buf'[k] # NewLine
      BY <1>7, <2>1, <2>2, <3>1, <3>4, <3>5
    <3>7. QED  BY <3>3, <3>6
  <2>5. CatInv'
    BY <1>1, <1>4, <2>1, <2>2, <2>3, <2>4 DEF CatInv, flat
  <2>6. WcInv'  BY <1>1 DEF FileInv, WcInv
  <2>7. QED  BY <1>1, <1>2, <2>5, <2>6 DEF FileInv
<1>10. QED  BY <1>8, <1>9

(* cat ends: a last line without a newline is printed too.                 *)
LEMMA CatEndStep == FileInv /\ File!cat_end => FileInv'
<1> SUFFICES ASSUME FileInv, File!cat_end  PROVE FileInv'
  OBVIOUS
<1> DEFINE flat == File!FlattenSeq(Ended(printed))
<1>1. /\ file_pc = "cat" /\ file_pc' = "cat_done" /\ i' = i
      /\ data' = data /\ in_word' = in_word /\ line_buf' = line_buf
      /\ printed' = IF line_buf # << >> THEN Append(printed, line_buf) ELSE printed
  BY DEF File!cat_end, File!wcVars
<1>2. /\ data \in File!Files /\ data \in Seq(File!Byte) /\ i \in Nat /\ i <= Len(data)
  BY FilesAreSeqs DEF FileInv
<1>3. File!Read \in Seq(File!Byte) /\ File!Read' = File!Read
  <2>1. SubSeq(data, 1, i) \in Seq(File!Byte)
    BY <1>2, ReadFacts
  <2>2. QED  BY <1>1, <2>1 DEF File!Read
<1>4. /\ line_buf \in Seq(File!Byte) /\ Len(line_buf) <= LineMax
      /\ printed \in Seq(Seq(File!Byte))
      /\ \A k \in DOMAIN printed : Len(printed[k]) <= LineMax
  BY DEF FileInv, CatInv
<1>5. flat \in Seq(File!Byte)
  BY <1>4, FileSizes, EndedAppend
<1>6. ~File!HasLongLine(File!Read) => flat \o line_buf = File!Read
  BY <1>1 DEF FileInv, CatInv
<1>7. WcInv'
  BY <1>1 DEF FileInv, WcInv
<1>8. CASE line_buf = << >>
  <2>1. printed' = printed
    BY <1>1, <1>8
  <2>2. \A t \in Seq(File!Byte) : t \o << >> = t
    OBVIOUS
  <2> HIDE DEF flat
  <2>3. ~File!HasLongLine(File!Read) => flat = File!Read
    BY <1>5, <1>6, <1>8, <2>2, Zenon
  <2>4. CatInv'
    BY <1>1, <1>3, <1>4, <2>1, <2>3 DEF CatInv, flat
  <2>5. QED  BY <1>1, <1>2, <1>7, <2>4 DEF FileInv, File!AtPrompt
<1>9. CASE line_buf # << >>
  <2>1. printed' = Append(printed, line_buf)
    BY <1>1, <1>9
  <2>2. File!FlattenSeq(Ended(printed')) = flat \o Append(line_buf, NewLine)
    BY <1>4, <2>1, FileSizes, EndedAppend
  <2> HIDE DEF flat
  <2>3. flat \o Append(line_buf, NewLine) = Append(flat \o line_buf, NewLine)
    <3>1. NewLine \in File!Byte  BY FileSizes
    <3>2. QED  BY <1>4, <1>5, <3>1
  <2>4. printed' \in Seq(Seq(File!Byte)) /\ \A k \in DOMAIN printed' : Len(printed'[k]) <= LineMax
    <3>1. printed' \in Seq(Seq(File!Byte)) /\ Len(printed') = Len(printed) + 1 /\ Len(printed) \in Nat
          /\ printed'[Len(printed) + 1] = line_buf
          /\ \A k \in 1 .. Len(printed) : printed'[k] = printed[k]
      BY <1>4, <2>1
    <3>2. DOMAIN printed' = 1 .. Len(printed) + 1 /\ DOMAIN printed = 1 .. Len(printed)
      BY <1>4, <3>1
    <3>3. \A k \in 1 .. Len(printed) + 1 : k = Len(printed) + 1 \/ k \in 1 .. Len(printed)
      BY <3>1
    <3>4. QED  BY <1>4, <3>1, <3>2, <3>3
  <2>5. ~File!HasLongLine(File!Read') => File!FlattenSeq(Ended(printed')) = Append(File!Read', NewLine)
    BY <1>3, <1>6, <2>2, <2>3
  <2>6. CatInv'
    BY <1>1, <1>4, <2>4, <2>5 DEF CatInv
  <2>7. QED  BY <1>1, <1>2, <1>7, <2>6 DEF FileInv, File!AtPrompt
<1>10. QED  BY <1>8, <1>9

(* Counting: one byte more is an element of each set, or of none.          *)
LEMMA OneMore ==
  ASSUME NEW S, NEW n \in Nat, S \subseteq 1 .. n
  PROVE  /\ Cardinality(S) \in Nat
         /\ Cardinality(S \cup {n + 1}) = Cardinality(S) + 1
<1>1. IsFiniteSet(1 .. n)
  BY FS_Interval
<1>2. IsFiniteSet(S) /\ n + 1 \notin S
  <2>1. n + 1 \notin 1 .. n
    OBVIOUS
  <2>2. QED  BY <1>1, <2>1, FS_Subset, Zenon
<1>3. QED  BY <1>2, FS_AddElement, FS_CardinalityType

LEMMA CatUnchanged ==
  ASSUME CatInv, file_pc' \notin {"cat", "cat_done"}, UNCHANGED <<line_buf, printed>>
  PROVE  CatInv'
BY DEF CatInv

LEMMA WcStep == FileInv /\ File!wc => FileInv'
<1> SUFFICES ASSUME FileInv, File!wc  PROVE FileInv'
  OBVIOUS
<1>1. /\ file_pc' = "wc" /\ i' = 0 /\ data' = data /\ line_buf' = line_buf /\ printed' = printed
      /\ wc_lines' = 0 /\ words' = 0
  BY DEF File!wc, File!catVars
<1>2. in_word' = FALSE
  BY Zenon DEF File!wc
<1>3. data \in File!Files /\ Len(data) \in Nat
  BY FilesAreSeqs DEF FileInv
<1>4. CatInv'
  BY <1>1, CatUnchanged DEF FileInv
<1>5. WcInv'
  <2>1. WordStarts(0)' = {} /\ LineEnds(0)' = {}
    BY DEF WordStarts, LineEnds
  <2>2. WordStarts(i)' = {} /\ LineEnds(i)' = {}
    BY <1>1 DEF WordStarts, LineEnds
  <2>3. Cardinality({}) = 0
    BY FS_EmptySet
  <2>4. words' = Cardinality(WordStarts(i)') /\ wc_lines' = Cardinality(LineEnds(i)')
    BY <1>1, <2>2, <2>3
  <2>5. in_word' \in BOOLEAN /\ ~in_word' /\ ~(i' > 0)
    <3>1. ~(i' > 0)  BY <1>1
    <3>2. QED  BY <1>2, <3>1, Zenon
  <2>6. QED  BY <2>4, <2>5 DEF WcInv
<1>6. QED  BY <1>1, <1>3, <1>4, <1>5 DEF FileInv

LEMMA WcByteStep == FileInv /\ File!wc_byte => FileInv'
<1> SUFFICES ASSUME FileInv, File!wc_byte  PROVE FileInv'
  OBVIOUS
<1> DEFINE c == data[i + 1]
<1>1. /\ file_pc = "wc" /\ file_pc' = "wc" /\ i < Len(data) /\ i' = i + 1
      /\ data' = data /\ line_buf' = line_buf /\ printed' = printed
      /\ wc_lines' = (IF c = NewLine THEN wc_lines + 1 ELSE wc_lines)
      /\ words' = (IF c \notin {FileBlank, NewLine} /\ ~in_word THEN words + 1 ELSE words)
  <2>1. /\ file_pc = "wc" /\ i < Len(data) /\ i' = i + 1
        /\ wc_lines' = (IF c = NewLine THEN wc_lines + 1 ELSE wc_lines)
        /\ words' = (IF c \notin {FileBlank, NewLine} /\ ~in_word THEN words + 1 ELSE words)
    BY Zenon DEF File!wc_byte
  <2>2. file_pc' = file_pc /\ data' = data /\ line_buf' = line_buf /\ printed' = printed
    BY DEF File!wc_byte, File!catVars
  <2>3. QED  BY <2>1, <2>2, Zenon
<1>2. in_word' = (c \notin {FileBlank, NewLine})
  BY Zenon DEF File!wc_byte
<1>3. /\ data \in File!Files /\ data \in Seq(File!Byte) /\ Len(data) \in Nat
      /\ i \in Nat /\ c \in File!Byte
  BY <1>1, FilesAreSeqs DEF FileInv
<1>4. c \notin {FileBlank, NewLine} <=> c \in FileLetters
  BY <1>3, FileSizes
<1>5. /\ words = Cardinality(WordStarts(i)) /\ wc_lines = Cardinality(LineEnds(i))
      /\ (in_word <=> i > 0 /\ data[i] \in FileLetters)
  BY <1>1 DEF FileInv, WcInv
<1>6. WordStarts(i) \subseteq 1 .. i /\ LineEnds(i) \subseteq 1 .. i
  BY DEF WordStarts, LineEnds
<1>7. LineEnds(i)' = IF c = NewLine THEN LineEnds(i) \cup {i + 1} ELSE LineEnds(i)
  <2>1. 1 .. i + 1 = (1 .. i) \cup {i + 1} /\ i + 1 \notin 1 .. i
    BY <1>3
  <2>2. LineEnds(i)' = {k \in 1 .. i + 1 : data[k] = NewLine}
    BY <1>1 DEF LineEnds
  <2>3. QED  BY <2>1, <2>2 DEF LineEnds
<1>8. WordStarts(i)' = IF c \in FileLetters /\ ~in_word THEN WordStarts(i) \cup {i + 1} ELSE WordStarts(i)
  <2>1. 1 .. i + 1 = (1 .. i) \cup {i + 1} /\ i + 1 \notin 1 .. i
    BY <1>3
  <2>2. WordStarts(i)' = {k \in 1 .. i + 1 : data[k] \in FileLetters /\ (k = 1 \/ data[k - 1] \notin FileLetters)}
    BY <1>1 DEF WordStarts
  <2>3. ~in_word <=> (i + 1 = 1 \/ data[(i + 1) - 1] \notin FileLetters)
    <3>1. (i > 0 <=> i + 1 # 1) /\ (i + 1) - 1 = i
      BY <1>3
    <3>2. QED  BY <1>5, <3>1, Zenon
  <2> DEFINE New == c \in FileLetters /\ (i + 1 = 1 \/ data[(i + 1) - 1] \notin FileLetters)
  <2>4. WordStarts(i)' = IF New THEN WordStarts(i) \cup {i + 1} ELSE WordStarts(i)
    <3> DEFINE W(k) == data[k] \in FileLetters /\ (k = 1 \/ data[k - 1] \notin FileLetters)
    <3>1. WordStarts(i) = {k \in 1 .. i : W(k)} /\ WordStarts(i)' = {k \in 1 .. i + 1 : W(k)}
      BY <2>2 DEF WordStarts
    <3>2. New <=> W(i + 1)
      BY Zenon
    <3> HIDE DEF W, New
    <3>3. CASE New
      <4>1. {k \in 1 .. i + 1 : W(k)} = {k \in 1 .. i : W(k)} \cup {i + 1}
        BY <2>1, <3>2, <3>3
      <4>2. QED  BY <3>1, <3>3, <4>1
    <3>4. CASE ~New
      <4>1. {k \in 1 .. i + 1 : W(k)} = {k \in 1 .. i : W(k)}
        BY <2>1, <3>2, <3>4
      <4>2. QED  BY <3>1, <3>4, <4>1
    <3>5. QED  BY <3>3, <3>4
  <2>5. New <=> c \in FileLetters /\ ~in_word
    BY <2>3, Zenon
  <2> HIDE DEF New, c
  <2>6. QED  BY <2>4, <2>5, Zenon
<1>9. words' = Cardinality(WordStarts(i)')
  BY <1>1, <1>3, <1>4, <1>5, <1>6, <1>8, OneMore
<1>10. wc_lines' = Cardinality(LineEnds(i)')
  BY <1>1, <1>3, <1>5, <1>6, <1>7, OneMore
<1>11. in_word' \in BOOLEAN /\ (in_word' <=> i' > 0 /\ data'[i'] \in FileLetters)
  <2>1. i' > 0 /\ data'[i'] = c
    BY <1>1, <1>3
  <2> HIDE DEF c
  <2>2. QED  BY <1>2, <1>4, <2>1, Zenon
<1>12. WcInv'
  BY <1>9, <1>10, <1>11 DEF WcInv
<1>13. CatInv'
  BY <1>1, CatUnchanged DEF FileInv
<1>14. QED  BY <1>1, <1>3, <1>12, <1>13 DEF FileInv

LEMMA WcEndStep == FileInv /\ File!wc_end => FileInv'
<1> SUFFICES ASSUME FileInv, File!wc_end  PROVE FileInv'
  OBVIOUS
<1>1. /\ file_pc' = "wc_done" /\ i' = i /\ data' = data /\ line_buf' = line_buf /\ printed' = printed
      /\ in_word' = in_word
  BY DEF File!wc_end, File!catVars, File!wcVars
<1>2. CatInv'
  BY <1>1, CatUnchanged DEF FileInv
<1>3. WcInv'
  BY <1>1 DEF FileInv, WcInv
<1>4. QED  BY <1>1, <1>2, <1>3 DEF FileInv, File!AtPrompt

LEMMA FileNext == FileInv /\ [File!Next]_(File!vars) => FileInv'
<1> SUFFICES ASSUME FileInv, [File!Next]_(File!vars)  PROVE FileInv'
  OBVIOUS
<1>1. CASE UNCHANGED File!vars
  <2>1. UNCHANGED <<data, file_pc, i, line_buf, printed, wc_lines, words, in_word>>
    BY <1>1 DEF File!vars, File!catVars, File!wcVars
  <2>2. File!Read' = File!Read /\ WordStarts(i)' = WordStarts(i) /\ LineEnds(i)' = LineEnds(i)
    BY <2>1 DEF File!Read, WordStarts, LineEnds
  <2>3. QED  BY <2>1, <2>2 DEF FileInv, CatInv, WcInv
<1>2. QED
  BY <1>1, CatStep, CatByteStep, CatEndStep, WcStep, WcByteStep, WcEndStep DEF File!Next

LEMMA SameCardinality == \A S : File!Cardinality(S) = Cardinality(S)
BY DEF File!Cardinality, Cardinality

(* For a file of any length and any limits of cat: what cat prints is the  *)
(* file line by line as long as no line exceeds its limit, and never       *)
(* leaves its buffer; at every byte wc has counted the words and lines of  *)
(* the text before it.                                                     *)
THEOREM FilesAlwaysRead == MCSpec => []FilesAreRead
<1>1. FileInv => FilesAreRead
  <2>1. SUFFICES ASSUME FileInv  PROVE FilesAreRead
    OBVIOUS
  <2>2. File!TypeOK
    <3>1. i \in 0 .. MaxSize /\ data \in File!Files
      BY <2>1, FilesAreSeqs, FileSizes DEF FileInv
    <3>2. ASSUME NEW l \in {line_buf} \cup File!ToSet(printed)
          PROVE  l \in Seq(File!Byte) /\ Len(l) < BufSize
      <4>1. l = line_buf \/ \E k \in DOMAIN printed : l = printed[k]
        BY DEF File!ToSet
      <4>2. line_buf \in Seq(File!Byte) /\ Len(line_buf) <= LineMax
        BY <2>1 DEF FileInv, CatInv
      <4>3. \A k \in DOMAIN printed : printed[k] \in Seq(File!Byte) /\ Len(printed[k]) <= LineMax
        <5>1. printed \in Seq(Seq(File!Byte)) /\ \A k \in DOMAIN printed : Len(printed[k]) <= LineMax
          BY <2>1 DEF FileInv, CatInv
        <5>2. \A w \in Seq(Seq(File!Byte)) : \A k \in DOMAIN w : w[k] \in Seq(File!Byte)
          OBVIOUS
        <5>3. QED  BY <5>1, <5>2, Zenon
      <4>4. l \in Seq(File!Byte) /\ Len(l) <= LineMax
        BY <4>1, <4>2, <4>3, Zenon
      <4>5. QED  BY <4>4, FileSizes
    <3>3. QED  BY <2>1, <3>1, <3>2 DEF FileInv, WcInv, File!TypeOK
  <2>3. File!CatPrintsLines
    BY <2>1, Zenon DEF FileInv, CatInv, File!CatPrintsLines, Ended
  <2>4. File!WcCounts
    BY <2>1, SameCardinality DEF FileInv, WcInv, File!WcCounts, WordStarts, LineEnds
  <2>5. QED  BY <2>2, <2>3, <2>4 DEF FilesAreRead
<1>2. QED  BY <1>1, FileInit, FileNext, PartSteps, PTL
-----------------------------------------------------------------------------
(***************************************************************************)
(* Taking a line apart (CommandLine).  The two searches of CString first:  *)
(* they end at the address that satisfies the test when none before does.  *)
(***************************************************************************)
LEMMA LineSizes ==
  /\ LineMaxCmd \in Nat /\ LineMaxCmd > 1 /\ DirSize \in Nat /\ DirSize > 1
  /\ NameSize \in Nat /\ NameSize > 1
  /\ Line!NUL # LineBlank /\ Line!NUL # Slash /\ Line!NUL \notin LineLetters
  /\ LineBlank \notin LineLetters /\ LineBlank # Slash
  /\ \A c \in Line!Char : c # Line!NUL
<1>1. DirSize \in Nat /\ DirSize > 1
  BY EchoAssumption
<1>2. QED  BY <1>1, LineAssumption DEF Line!SizesOK, Line!Distinct, Line!Char

(* The longest messages end before what is still used behind them.         *)
LEMMA MessageSizes ==
  /\ MsgRoom \in Nat /\ AppNameMax \in Nat
  /\ Created \in Nat /\ Launched \in Nat /\ LaunchedAlone \in Nat /\ Unrecognized \in Nat
  /\ Created + LineMaxCmd <= MsgRoom /\ Unrecognized + LineMaxCmd <= MsgRoom
  /\ Launched + AppNameMax + LineMaxCmd <= MsgRoom /\ LaunchedAlone + AppNameMax + 1 <= MsgRoom
BY LineAssumption DEF Line!SizesOK

LEMMA MinIs ==
  ASSUME NEW T, T \subseteq Int, NEW x \in T, \A y \in T : x <= y
  PROVE  Line!Min(T) = x
<1>1. \E z \in T : \A y \in T : z <= y
  OBVIOUS
<1>2. Line!Min(T) \in T /\ \A y \in T : Line!Min(T) <= y
  BY <1>1, Zenon DEF Line!Min
<1>3. Line!Min(T) <= x /\ x <= Line!Min(T) /\ Line!Min(T) \in Int /\ x \in Int
  BY <1>2
<1> HIDE DEF Line!Min
<1>4. QED  BY <1>3

LEMMA FindIs ==
  ASSUME NEW n \in Nat, NEW m, DOMAIN m = 0 .. n - 1, NEW p \in Nat, NEW stops,
         NEW f \in p .. n - 1, m[f] \in stops, \A j \in p .. f - 1 : m[j] \notin stops
  PROVE  Line!Find(m, p, stops) = f
<1> DEFINE T == {j \in DOMAIN m : j >= p /\ m[j] \in stops}
<1>1. T \subseteq Int /\ f \in T
  OBVIOUS
<1>2. \A y \in T : f <= y
  OBVIOUS
<1> HIDE DEF T
<1>3. Line!Min(T) = f
  BY <1>1, <1>2, MinIs
<1>4. QED  BY <1>3 DEF Line!Find, T

LEMMA SkipIs ==
  ASSUME NEW n \in Nat, NEW m, DOMAIN m = 0 .. n - 1, NEW p \in Nat, NEW skipped,
         NEW f \in p .. n - 1, m[f] \notin skipped, \A j \in p .. f - 1 : m[j] \in skipped
  PROVE  Line!Skip(m, p, skipped) = f
<1> DEFINE T == {j \in DOMAIN m : j >= p /\ m[j] \notin skipped}
<1>1. T \subseteq Int /\ f \in T
  OBVIOUS
<1>2. \A y \in T : f <= y
  OBVIOUS
<1> HIDE DEF T
<1>3. Line!Min(T) = f
  BY <1>1, <1>2, MinIs
<1>4. QED  BY <1>3 DEF Line!Skip, T

(* The first address from p on that is in T.                               *)
LEMMA FirstIn ==
  ASSUME NEW p \in Nat, NEW q \in Nat, p <= q, NEW T, q \in T
  PROVE  \E f \in p .. q : f \in T /\ \A j \in p .. f - 1 : j \notin T
<1> DEFINE U == {j \in p .. q : j \in T}
<1>1. U \subseteq Nat /\ q \in U
  OBVIOUS
<1>2. PICK f \in U : \A y \in U : f <= y
  BY <1>1, LeastNat
<1>3. \A j \in p .. f - 1 : j \in p .. q /\ ~(f <= j)
  BY <1>1
<1>4. QED  BY <1>2, <1>3

(* The string at address p that ends with the zero at e.                   *)
LEMMA TextIs ==
  ASSUME NEW n \in Nat, NEW m, DOMAIN m = 0 .. n - 1, NEW p \in Nat,
         NEW e \in p .. n - 1, m[e] = Line!NUL, \A j \in p .. e - 1 : m[j] # Line!NUL
  PROVE  /\ Line!strlen(m, p) = e - p
         /\ Line!Text(m, p) = [q \in 1 .. e - p |-> m[p + q - 1]]
<1>1. Line!Find(m, p, {Line!NUL}) = e
  BY FindIs
<1>2. Line!strlen(m, p) = e - p
  BY <1>1 DEF Line!strlen
<1>3. QED  BY <1>2 DEF Line!Text
-----------------------------------------------------------------------------
(* The words of a line.                                                    *)
LEMMA LineIsSeq ==
  ASSUME NEW l \in Line!Lines
  PROVE  /\ l \in Seq(LineLetters \cup {LineBlank}) /\ Len(l) \in Nat /\ Len(l) < LineMaxCmd
         /\ \A j \in 1 .. Len(l) : l[j] \in Line!Char /\ l[j] # Line!NUL
         /\ DOMAIN l = 1 .. Len(l)
<1>1. PICK n \in 0 .. LineMaxCmd - 1 : l \in [1 .. n -> LineLetters \cup {LineBlank}]
  BY DEF Line!Lines
<1>2. n \in Nat /\ n < LineMaxCmd
  BY LineSizes
<1>3. l \in Seq(LineLetters \cup {LineBlank}) /\ Len(l) = n
  BY <1>1, <1>2, FunctionIsSeq
<1>4. \A c \in LineLetters \cup {LineBlank} : c \in Line!Char /\ c # Line!NUL
  BY LineSizes DEF Line!Char
<1>5. QED  BY <1>1, <1>2, <1>3, <1>4

Before(l, p) == {j \in Line!Starts(l) : j <= p}
Total(l) == Cardinality(Line!Starts(l))

LEMMA StartsFinite ==
  ASSUME NEW l, Len(l) \in Nat
  PROVE  /\ Line!Starts(l) \subseteq 1 .. Len(l)
         /\ IsFiniteSet(Line!Starts(l)) /\ Total(l) \in Nat
         /\ \A p : /\ Before(l, p) \subseteq Line!Starts(l)
                   /\ IsFiniteSet(Before(l, p)) /\ Cardinality(Before(l, p)) \in Nat
                   /\ Cardinality(Before(l, p)) <= Total(l)
<1>1. Line!Starts(l) \subseteq 1 .. Len(l)
  BY DEF Line!Starts
<1>2. IsFiniteSet(1 .. Len(l))
  BY FS_Interval
<1>3. IsFiniteSet(Line!Starts(l))
  BY <1>1, <1>2, FS_Subset, Zenon
<1>4. Total(l) \in Nat
  BY <1>3, FS_CardinalityType DEF Total
<1>5. ASSUME NEW p
      PROVE  /\ Before(l, p) \subseteq Line!Starts(l)
             /\ IsFiniteSet(Before(l, p)) /\ Cardinality(Before(l, p)) \in Nat
             /\ Cardinality(Before(l, p)) <= Total(l)
  <2>1. Before(l, p) \subseteq Line!Starts(l)
    BY DEF Before
  <2>2. IsFiniteSet(Before(l, p)) /\ Cardinality(Before(l, p)) <= Cardinality(Line!Starts(l))
    BY <1>3, <2>1, FS_Subset
  <2>3. QED  BY <2>1, <2>2, FS_CardinalityType DEF Total
<1>6. QED  BY <1>1, <1>3, <1>4, <1>5

LEMMA LineCardinality == \A S : Line!Cardinality(S) = Cardinality(S)
BY DEF Line!Cardinality, Cardinality

LEMMA HasIs ==
  ASSUME NEW l, NEW k
  PROVE  Line!Has(l, k) <=> Total(l) >= k
<1>1. {s \in Line!Starts(l) : TRUE} = Line!Starts(l)
  OBVIOUS
<1>2. QED  BY <1>1, LineCardinality DEF Line!Has, Line!Quantify, Total

(* The k-th word begins where k words begin up to there.                   *)
LEMMA StartIs ==
  ASSUME NEW l, Len(l) \in Nat, NEW k, NEW a \in Line!Starts(l), Cardinality(Before(l, a)) = k
  PROVE  Line!Start(l, k) = a
<1>1. ASSUME NEW x \in Line!Starts(l), NEW y \in Line!Starts(l), x < y
      PROVE  Cardinality(Before(l, x)) # Cardinality(Before(l, y))
  <2>1. x \in Int /\ y \in Int
    BY StartsFinite
  <2>2. Before(l, x) \subseteq Before(l, y) /\ y \in Before(l, y) /\ y \notin Before(l, x)
        /\ x \in Int
    <3>1. \A j \in Line!Starts(l) : j \in Int
      BY StartsFinite
    <3>2. \A j \in Line!Starts(l) : j <= x => j <= y
      BY <1>1, <2>1, <3>1
    <3>3. Before(l, x) \subseteq Before(l, y)
      BY <3>2, Zenon DEF Before
    <3>4. y <= y /\ ~(y <= x)
      BY <1>1, <2>1
    <3>5. y \in Before(l, y) /\ y \notin Before(l, x)
      BY <3>4, Zenon DEF Before
    <3>6. QED  BY <2>1, <3>3, <3>5
  <2>3. IsFiniteSet(Before(l, y))
    BY StartsFinite
  <2>4. ASSUME NEW S, NEW T \in SUBSET S, IsFiniteSet(S), NEW z \in S, z \notin T
        PROVE  Cardinality(T) # Cardinality(S)
    BY <2>4, FS_Subset
  <2>5. QED  BY <2>2, <2>3, <2>4
<1>2. \A x \in Line!Starts(l) : Cardinality(Before(l, x)) = k => x = a
  <2>1. SUFFICES ASSUME NEW x \in Line!Starts(l), Cardinality(Before(l, x)) = k  PROVE x = a
    OBVIOUS
  <2>2. x \in Int /\ a \in Int
    BY StartsFinite
  <2>3. ~(x < a) /\ ~(a < x)
    BY <1>1, <2>1
  <2>4. QED  BY <2>2, <2>3
<1>3. Line!Start(l, k) = CHOOSE x \in Line!Starts(l) : Cardinality(Before(l, x)) = k
  BY LineCardinality, Zenon DEF Line!Start, Line!Quantify, Before
<1>4. QED  BY <1>2, <1>3, Zenon

(* From a place p where a word may begin: the blanks up to s hide no word, *)
(* and what follows them begins the next one.                              *)
LEMMA NextWord ==
  ASSUME NEW l \in Line!Lines, NEW p \in 0 .. Len(l), p = 0 \/ l[p] = LineBlank,
         NEW s \in p .. Len(l), \A j \in p .. s - 1 : l[j + 1] = LineBlank
  PROVE  /\ s = Len(l) => Line!Starts(l) = Before(l, p)
         /\ s < Len(l) /\ l[s + 1] # LineBlank =>
              /\ s + 1 \in Line!Starts(l)
              /\ Before(l, s + 1) = Before(l, p) \cup {s + 1}
              /\ s + 1 \notin Before(l, p)
<1>1. Len(l) \in Nat /\ p \in Nat /\ s \in Nat /\ p <= s /\ s <= Len(l)
  BY LineIsSeq
<1>2. \A j \in Line!Starts(l) : j \in Nat /\ 1 <= j /\ j <= Len(l) /\ l[j] # LineBlank
  BY <1>1 DEF Line!Starts
<1>3. ASSUME NEW j \in Line!Starts(l), j <= s  PROVE j <= p
  <2>1. SUFFICES ASSUME p < j  PROVE FALSE
    BY <1>1, <1>2
  <2>2. j - 1 \in p .. s - 1 /\ (j - 1) + 1 = j
    BY <1>1, <1>2, <1>3, <2>1
  <2>3. l[j] = LineBlank
    BY <2>2
  <2>4. QED  BY <1>2, <2>3
<1>4. s = Len(l) => Line!Starts(l) = Before(l, p)
  BY <1>2, <1>3 DEF Before
<1>5. ASSUME s < Len(l), l[s + 1] # LineBlank
      PROVE  /\ s + 1 \in Line!Starts(l)
             /\ Before(l, s + 1) = Before(l, p) \cup {s + 1}
             /\ s + 1 \notin Before(l, p)
  <2>1. s + 1 \in 1 .. Len(l) /\ ~(s + 1 <= p) /\ s + 1 <= s + 1
    BY <1>1, <1>5
  <2>2. s + 1 = 1 \/ l[(s + 1) - 1] = LineBlank
    <3>1. (s + 1) - 1 = s
      BY <1>1
    <3>2. CASE s = p
      <4>1. p = 0 => s + 1 = 1  BY <3>2
      <4>2. QED  BY <3>1, <3>2, <4>1
    <3>3. CASE s # p
      <4>1. s - 1 \in p .. s - 1 /\ (s - 1) + 1 = s
        BY <1>1, <3>3
      <4>2. l[s] = LineBlank
        BY <4>1
      <4>3. QED  BY <3>1, <4>2
    <3>4. QED  BY <3>2, <3>3
  <2>3. s + 1 \in Line!Starts(l)
    BY <1>5, <2>1, <2>2, Zenon DEF Line!Starts
  <2>4. \A j \in Line!Starts(l) : j <= s + 1 <=> j <= p \/ j = s + 1
    BY <1>1, <1>2, <1>3
  <2>5. Before(l, s + 1) = Before(l, p) \cup {s + 1}
    BY <2>3, <2>4 DEF Before
  <2>6. QED  BY <2>1, <2>3, <2>5 DEF Before
<1>6. QED  BY <1>4, <1>5

(* The word that begins at s + 1 and its end.                              *)
LEMMA WordEnds ==
  ASSUME NEW l \in Line!Lines, NEW s \in Nat, s < Len(l),
         NEW e \in s + 1 .. Len(l), \A j \in s .. e - 1 : l[j + 1] # LineBlank,
         e = Len(l) \/ l[e + 1] = LineBlank
  PROVE  /\ Line!WordAt(l, s + 1) = SubSeq(l, s + 1, e)
         /\ e = Len(l) => Line!Starts(l) = Before(l, s + 1)
         /\ e < Len(l) => Before(l, e + 1) = Before(l, s + 1)
<1>1. Len(l) \in Nat /\ e \in Nat /\ s < e /\ e <= Len(l)
  BY LineIsSeq
<1>2. \A j \in Line!Starts(l) :
        j \in Nat /\ 1 <= j /\ j <= Len(l) /\ l[j] # LineBlank /\ (j = 1 \/ l[j - 1] = LineBlank)
  BY <1>1 DEF Line!Starts
<1> DEFINE ends == {Len(l)} \cup {k - 1 : k \in {j \in s + 1 .. Len(l) : l[j] = LineBlank}}
<1>3. \A j \in s + 1 .. e : l[j] # LineBlank
  <2>1. SUFFICES ASSUME NEW j \in s + 1 .. e  PROVE l[j] # LineBlank
    OBVIOUS
  <2>2. j - 1 \in s .. e - 1 /\ (j - 1) + 1 = j
    BY <1>1
  <2>3. QED  BY <2>2
<1>4. Line!Min(ends) = e
  <2>1. ends \subseteq Int
    BY <1>1
  <2>2. e \in ends
    <3>1. CASE e = Len(l)  BY <3>1
    <3>2. CASE e # Len(l)
      <4>1. e + 1 \in s + 1 .. Len(l) /\ l[e + 1] = LineBlank /\ e = (e + 1) - 1
        BY <1>1, <3>2
      <4>2. QED  BY <4>1
    <3>3. QED  BY <3>1, <3>2
  <2>3. ASSUME NEW y \in ends  PROVE e <= y
    <3>1. CASE y = Len(l)  BY <1>1, <3>1
    <3>2. CASE y # Len(l)
      <4>1. PICK k \in s + 1 .. Len(l) : l[k] = LineBlank /\ y = k - 1
        BY <2>3, <3>2
      <4>2. k \notin s + 1 .. e
        BY <1>3, <4>1
      <4>3. QED  BY <1>1, <4>1, <4>2
    <3>3. QED  BY <3>1, <3>2
  <2> HIDE DEF ends
  <2>4. QED  BY <2>1, <2>2, <2>3, MinIs
<1>5. Line!WordAt(l, s + 1) = SubSeq(l, s + 1, e)
  BY <1>4 DEF Line!WordAt
<1>6. ASSUME NEW j \in Line!Starts(l), j <= e + 1, e < Len(l) \/ j <= e  PROVE j <= s + 1
  <2>1. SUFFICES ASSUME s + 1 < j  PROVE FALSE
    BY <1>1, <1>2
  <2>2. j - 1 \in s + 1 .. e /\ j # 1
    BY <1>1, <1>2, <1>6, <2>1
  <2>3. QED  BY <1>2, <1>3, <2>2
<1>7. e = Len(l) => Line!Starts(l) = Before(l, s + 1)
  <2>1. SUFFICES ASSUME e = Len(l)  PROVE Line!Starts(l) = Before(l, s + 1)
    OBVIOUS
  <2>2. \A j \in Line!Starts(l) : j <= e + 1 /\ j <= e
    BY <1>1, <1>2, <2>1
  <2>3. \A j \in Line!Starts(l) : j <= s + 1
    BY <1>6, <2>2
  <2>4. QED  BY <2>3, Zenon DEF Before
<1>8. e < Len(l) => Before(l, e + 1) = Before(l, s + 1)
  <2>1. SUFFICES ASSUME e < Len(l)  PROVE Before(l, e + 1) = Before(l, s + 1)
    OBVIOUS
  <2>2. \A j \in Line!Starts(l) : j <= s + 1 => j <= e + 1
    BY <1>1, <1>2
  <2>3. \A j \in Line!Starts(l) : j <= e + 1 => j <= s + 1
    BY <1>6, <2>1
  <2>4. QED  BY <2>2, <2>3, Zenon DEF Before
<1>9. QED  BY <1>5, <1>7, <1>8

(* Neither a word nor a rest is longer than the line it is of.             *)
Short(s) == Len(s) \in Nat /\ Len(s) < LineMaxCmd

LEMMA SliceShort ==
  ASSUME NEW l \in Line!Lines, NEW a \in 1 .. Len(l), NEW e \in Nat, e <= Len(l)
  PROVE  Short(SubSeq(l, a, e))
<1>1. l \in Seq(LineLetters \cup {LineBlank}) /\ Len(l) \in Nat /\ Len(l) < LineMaxCmd /\ LineMaxCmd \in Nat
  BY LineIsSeq, LineSizes
<1>2. Len(SubSeq(l, a, e)) = IF a <= e THEN e - a + 1 ELSE 0
  BY <1>1
<1>3. QED  BY <1>1, <1>2 DEF Short

LEMMA WordShort ==
  ASSUME NEW l \in Line!Lines, NEW a \in 1 .. Len(l)
  PROVE  Short(Line!WordAt(l, a))
<1> DEFINE ends == {Len(l)} \cup {k - 1 : k \in {j \in a .. Len(l) : l[j] = LineBlank}}
<1>1. Len(l) \in Nat /\ a \in Nat /\ a >= 1
  BY LineIsSeq
<1>2. ends \subseteq Nat /\ Len(l) \in ends
  BY <1>1
<1> HIDE DEF ends
<1>3. PICK x \in ends : \A y \in ends : x <= y
  BY <1>2, LeastNat
<1>4. Line!Min(ends) = x
  <2>1. ends \subseteq Int
    BY <1>2
  <2>2. QED  BY <1>3, <2>1, MinIs
<1>5. x \in Nat /\ x <= Len(l)
  BY <1>2, <1>3
<1>6. Line!WordAt(l, a) = SubSeq(l, a, x)
  BY <1>4 DEF Line!WordAt, ends
<1>7. QED  BY <1>5, <1>6, SliceShort

(* k words of the line are behind p, and the memory from p on is still     *)
(* what was typed.                                                         *)
Scanned(l, m, p, k) ==
  /\ p \in 0 .. Len(l)
  /\ \A j \in p .. Len(l) - 1 : m[j] = l[j + 1]
  /\ m[Len(l)] = Line!NUL
  /\ p = 0 \/ l[p] = LineBlank
  /\ Cardinality(Before(l, p)) = k

(* The state of strtok between two calls: k words taken, or no more left.  *)
Taken(l, m, last, k) ==
  /\ m \in Line!Buffer(LineMaxCmd)
  /\ \/ last = Line!NULL /\ Total(l) <= k
     \/ last # Line!NULL /\ Scanned(l, m, last, k)

LEMMA ScannedFacts ==
  ASSUME NEW l \in Line!Lines, NEW m \in Line!Buffer(LineMaxCmd), NEW p, NEW k, Scanned(l, m, p, k)
  PROVE  /\ DOMAIN m = 0 .. LineMaxCmd - 1 /\ LineMaxCmd \in Nat
         /\ Len(l) \in Nat /\ Len(l) \in p .. LineMaxCmd - 1
         /\ p \in Nat /\ p <= Len(l) /\ p # Line!NULL
         /\ \A j \in p .. Len(l) - 1 : m[j] = l[j + 1] /\ m[j] # Line!NUL
         /\ k \in Nat /\ k <= Total(l)
<1>1. Len(l) \in Nat /\ Len(l) < LineMaxCmd /\ p \in 0 .. Len(l) /\ LineMaxCmd \in Nat
  BY LineIsSeq, LineSizes DEF Scanned
<1>2. DOMAIN m = 0 .. LineMaxCmd - 1
  BY DEF Line!Buffer
<1>3. p \in Nat /\ p <= Len(l) /\ p # Line!NULL /\ Len(l) \in p .. LineMaxCmd - 1
  BY <1>1 DEF Line!NULL
<1>4. \A j \in p .. Len(l) - 1 : j + 1 \in 1 .. Len(l)
  BY <1>1
<1>5. \A j \in p .. Len(l) - 1 : m[j] = l[j + 1] /\ m[j] # Line!NUL
  BY <1>4, LineIsSeq DEF Scanned
<1>6. k \in Nat /\ k <= Total(l)
  BY <1>1, StartsFinite DEF Scanned
<1>7. QED  BY <1>1, <1>2, <1>3, <1>5, <1>6

LEMMA SliceIs ==
  ASSUME NEW X, NEW l \in Seq(X), NEW s \in Nat, NEW e \in s .. Len(l), NEW m,
         \A j \in s .. e - 1 : m[j] = l[j + 1]
  PROVE  /\ [q \in 1 .. e - s |-> m[s + q - 1]] = SubSeq(l, s + 1, e)
         /\ SubSeq(l, s + 1, e) \in Seq(X)
<1>1. Len(l) \in Nat /\ e \in Nat /\ s <= e /\ e <= Len(l)
  OBVIOUS
<1>2. ASSUME NEW k \in 1 .. e - s  PROVE m[s + k - 1] = l[s + k]
  <2>1. s + k - 1 \in s .. e - 1 /\ (s + k - 1) + 1 = s + k
    BY <1>1
  <2>2. QED  BY <2>1
<1>3. SubSeq(l, s + 1, e) \in Seq(X) /\ Len(SubSeq(l, s + 1, e)) = e - s
      /\ \A k \in 1 .. e - s : SubSeq(l, s + 1, e)[k] = l[s + k]
  BY <1>1
<1>4. SubSeq(l, s + 1, e) = [k \in 1 .. e - s |-> SubSeq(l, s + 1, e)[k]]
  <2>1. \A w \in Seq(X) : w = [k \in 1 .. Len(w) |-> w[k]]
    OBVIOUS
  <2> DEFINE w == SubSeq(l, s + 1, e)
  <2> HIDE DEF w
  <2>2. w \in Seq(X) /\ Len(w) = e - s
    BY <1>3 DEF w
  <2>3. w = [k \in 1 .. Len(w) |-> w[k]]
    BY <2>1, <2>2, Zenon
  <2>4. QED  BY <2>2, <2>3 DEF w
<1>5. QED  BY <1>2, <1>3, <1>4

LEMMA LineSlice ==
  ASSUME NEW l \in Line!Lines, NEW s \in Nat, NEW e \in Nat, s <= e, e <= Len(l), NEW m,
         \A j \in s .. e - 1 : m[j] = l[j + 1]
  PROVE  /\ [q \in 1 .. e - s |-> m[s + q - 1]] = SubSeq(l, s + 1, e)
         /\ SubSeq(l, s + 1, e) \in Seq(LineLetters \cup {LineBlank})
<1>1. l \in Seq(LineLetters \cup {LineBlank}) /\ e \in s .. Len(l)
  BY LineIsSeq
<1>2. QED  BY <1>1, SliceIs

LEMMA BufText ==
  ASSUME NEW m \in Line!Buffer(LineMaxCmd), NEW p \in Nat, NEW e \in p .. LineMaxCmd - 1,
         m[e] = Line!NUL, \A j \in p .. e - 1 : m[j] # Line!NUL
  PROVE  /\ Line!strlen(m, p) = e - p
         /\ Line!Text(m, p) = [q \in 1 .. e - p |-> m[p + q - 1]]
<1>1. DOMAIN m = 0 .. LineMaxCmd - 1 /\ LineMaxCmd \in Nat
  BY LineSizes DEF Line!Buffer
<1>2. QED  BY <1>1, TextIs

(* What a call of strtok for the next word has to give.                    *)
NextIs(l, m, p, k, t) ==
  \/ /\ t.ret = Line!NULL /\ t.last = Line!NULL /\ t.mem = m
     /\ Total(l) = k
  \/ /\ t.ret \in Nat /\ t.mem \in Line!Buffer(LineMaxCmd)
     /\ Total(l) >= k + 1 /\ Line!Start(l, k + 1) = t.ret + 1 /\ t.ret < Len(l)
     /\ Line!Text(t.mem, t.ret) = Line!WordAt(l, t.ret + 1)
     /\ Line!Text(t.mem, t.ret) \in Seq(LineLetters \cup {LineBlank})
     /\ \/ t.last = Line!NULL /\ Total(l) = k + 1 /\ t.mem = m
        \/ /\ t.last \in 1 .. LineMaxCmd - 1 /\ Scanned(l, t.mem, t.last, k + 1)
           /\ \A j \in 0 .. p - 1 : t.mem[j] = m[j]
           /\ \E e \in t.ret .. t.last - 1 : t.mem[e] = Line!NUL

LEMMA TokFields ==
  ASSUME NEW a, NEW b, NEW c
  PROVE  Line!Tok(a, b, c).ret = a /\ Line!Tok(a, b, c).last = b /\ Line!Tok(a, b, c).mem = c
BY DEF Line!Tok

LEMMA TokWord ==
  ASSUME NEW l \in Line!Lines, NEW m \in Line!Buffer(LineMaxCmd), NEW p, NEW k, Scanned(l, m, p, k),
         NEW last, NEW from, p = IF from = Line!NULL THEN last ELSE from
  PROVE  NextIs(l, m, p, k, Line!strtok(m, last, from, {LineBlank}))
<1> DEFINE n == Len(l)
           t == Line!strtok(m, last, from, {LineBlank})
<1>1. /\ DOMAIN m = 0 .. LineMaxCmd - 1 /\ LineMaxCmd \in Nat /\ n \in Nat /\ n \in p .. LineMaxCmd - 1
      /\ p \in Nat /\ p <= n /\ p # Line!NULL
      /\ \A j \in p .. n - 1 : m[j] = l[j + 1] /\ m[j] # Line!NUL
      /\ k \in Nat /\ k <= Total(l) /\ m[n] = Line!NUL
  BY ScannedFacts DEF Scanned
<1>2. PICK s \in p .. n : m[s] # LineBlank /\ \A j \in p .. s - 1 : m[j] = LineBlank
  <2> DEFINE T == {j \in p .. n : m[j] # LineBlank}
  <2>1. n \in T
    BY <1>1, LineSizes
  <2>2. PICK f \in p .. n : f \in T /\ \A j \in p .. f - 1 : j \notin T
    <3> HIDE DEF T, n
    <3>1. QED  BY <1>1, <2>1, FirstIn
  <2>3. \A j \in p .. f - 1 : j \in p .. n
    BY <1>1
  <2>4. QED  BY <2>2, <2>3
<1>3. s \in Nat /\ p <= s /\ s <= n /\ s \in p .. LineMaxCmd - 1
  BY <1>1
<1> HIDE DEF n
<1>4. Line!Skip(m, p, {LineBlank}) = s
  <2>1. m[s] \notin {LineBlank} /\ \A j \in p .. s - 1 : m[j] \in {LineBlank}
    BY <1>2
  <2>2. QED  BY <1>1, <1>3, <2>1, SkipIs, Zenon
<1>5. \A j \in p .. s - 1 : l[j + 1] = LineBlank
  <2>1. \A j \in p .. s - 1 : j \in p .. n - 1
    BY <1>1, <1>3
  <2>2. QED  BY <1>1, <1>2, <2>1
<1>6. p \in 0 .. Len(l) /\ (p = 0 \/ l[p] = LineBlank) /\ s \in p .. Len(l)
      /\ Cardinality(Before(l, p)) = k /\ Len(l) = n
  BY <1>1, <1>2 DEF Scanned, n
<1>7. CASE s = n
  <2>1. m[s] = Line!NUL
    BY <1>1, <1>7
  <2>2. t = Line!Tok(Line!NULL, Line!NULL, m)
    BY <1>1, <1>4, <2>1 DEF Line!strtok
  <2>3. Line!Starts(l) = Before(l, p)
    BY <1>5, <1>6, <1>7, NextWord
  <2>4. Total(l) = k
    BY <1>6, <2>3 DEF Total
  <2>5. t.ret = Line!NULL /\ t.last = Line!NULL /\ t.mem = m
    BY <2>2 DEF Line!Tok
  <2>6. QED  BY <2>4, <2>5 DEF NextIs
<1>8. CASE s # n
  <2>1. s < n /\ s \in p .. n - 1 /\ m[s] = l[s + 1] /\ m[s] # Line!NUL /\ l[s + 1] # LineBlank
    <3>1. s < n /\ s \in p .. n - 1
      BY <1>1, <1>3, <1>8
    <3>2. QED  BY <1>1, <1>2, <3>1
  <2>2. /\ s + 1 \in Line!Starts(l)
        /\ Before(l, s + 1) = Before(l, p) \cup {s + 1}
        /\ s + 1 \notin Before(l, p)
    BY <1>5, <1>6, <2>1, NextWord
  <2>3. Cardinality(Before(l, s + 1)) = k + 1
    <3>1. IsFiniteSet(Before(l, p))
      BY <1>1, <1>6, StartsFinite
    <3>2. QED  BY <1>6, <2>2, <3>1, FS_AddElement
  <2>4. Line!Start(l, k + 1) = s + 1
    BY <1>1, <1>6, <2>2, <2>3, StartIs
  <2>5. Total(l) >= k + 1
    <3>1. Total(l) \in Nat /\ Cardinality(Before(l, s + 1)) <= Total(l)
      BY <1>1, <1>6, StartsFinite
    <3>2. QED  BY <1>1, <2>3, <3>1
  <2>6. PICK e \in s .. n : /\ m[e] \in {Line!NUL, LineBlank}
                            /\ \A j \in s .. e - 1 : m[j] \notin {Line!NUL, LineBlank}
    <3> DEFINE T == {j \in s .. n : m[j] \in {Line!NUL, LineBlank}}
    <3>1. n \in T
      BY <1>1, <1>3
    <3>2. PICK f \in s .. n : f \in T /\ \A j \in s .. f - 1 : j \notin T
      <4> HIDE DEF T
      <4>1. QED  BY <1>1, <1>3, <3>1, FirstIn
    <3>3. \A j \in s .. f - 1 : j \in s .. n
      BY <1>1, <1>3
    <3>4. QED  BY <3>2, <3>3
  <2>7. e # s
    BY <1>2, <2>1, <2>6
  <2>8. e \in Nat /\ s < e /\ e <= n /\ e \in s + 1 .. n /\ e \in s .. LineMaxCmd - 1
    BY <1>1, <1>3, <2>6, <2>7
  <2>9. Line!Find(m, s, {Line!NUL} \cup {LineBlank}) = e
    <3>1. {Line!NUL} \cup {LineBlank} = {Line!NUL, LineBlank}
      OBVIOUS
    <3>2. Line!Find(m, s, {Line!NUL, LineBlank}) = e
      BY <1>1, <1>3, <2>6, <2>8, FindIs
    <3>3. QED  BY <3>1, <3>2
  <2>10. \A j \in s .. e - 1 : j \in p .. n - 1 /\ m[j] = l[j + 1] /\ l[j + 1] # LineBlank /\ m[j] # Line!NUL
    <3>1. \A j \in s .. e - 1 : j \in p .. n - 1
      BY <1>1, <1>3, <2>8
    <3>2. QED  BY <1>1, <2>6, <3>1
  <2>11. e = n \/ (e < n /\ e \in p .. n - 1 /\ l[e + 1] = LineBlank /\ m[e] = LineBlank)
    <3>1. SUFFICES ASSUME e # n  PROVE e < n /\ e \in p .. n - 1 /\ l[e + 1] = LineBlank /\ m[e] = LineBlank
      OBVIOUS
    <3>2. e < n /\ e \in p .. n - 1
      BY <1>1, <1>3, <2>8, <3>1
    <3>3. QED  BY <1>1, <2>6, <3>2
  <2>12. /\ Line!WordAt(l, s + 1) = SubSeq(l, s + 1, e)
         /\ e = n => Line!Starts(l) = Before(l, s + 1)
         /\ e < n => Before(l, e + 1) = Before(l, s + 1)
    BY <1>3, <1>6, <2>1, <2>8, <2>10, <2>11, WordEnds
  <2>13. /\ SubSeq(l, s + 1, e) \in Seq(LineLetters \cup {LineBlank})
         /\ \A v : (\A j \in s .. e - 1 : v[j] = l[j + 1]) => [q \in 1 .. e - s |-> v[s + q - 1]] = SubSeq(l, s + 1, e)
    <3>1. l \in Seq(LineLetters \cup {LineBlank}) /\ e \in s .. Len(l)
      BY <1>6, <2>8, LineIsSeq
    <3>2. \A j \in s .. e - 1 : m[j] = l[j + 1]
      BY <2>10
    <3>3. SubSeq(l, s + 1, e) \in Seq(LineLetters \cup {LineBlank})
      <4>1. Len(l) \in Nat /\ e \in Nat /\ s < e /\ e <= Len(l)
        BY <1>1, <1>6, <2>8
      <4>2. QED  BY <1>3, <3>1, <4>1
    <3>4. ASSUME NEW v, \A j \in s .. e - 1 : v[j] = l[j + 1]
          PROVE  [q \in 1 .. e - s |-> v[s + q - 1]] = SubSeq(l, s + 1, e)
      BY <1>3, <1>6, <2>8, <3>4, LineSlice
    <3>5. QED  BY <3>3, <3>4, Zenon
  <2>14. CASE e = n
    <3>1. m[e] = Line!NUL
      BY <1>1, <2>14
    <3>2. t = Line!Tok(s, Line!NULL, m)
      BY <1>1, <1>4, <2>1, <2>9, <3>1 DEF Line!strtok
    <3>4. Line!Text(m, s) = [q \in 1 .. e - s |-> m[s + q - 1]]
      <4>1. \A j \in s .. e - 1 : m[j] # Line!NUL
        BY <2>10
      <4>2. QED  BY <1>3, <2>8, <3>1, <4>1, BufText
    <3>5. Line!Text(m, s) = SubSeq(l, s + 1, e)
      BY <2>10, <2>13, <3>4
    <3>6. Total(l) = k + 1
      BY <2>3, <2>12, <2>14 DEF Total
    <3>7. NextIs(l, m, p, k, Line!Tok(s, Line!NULL, m))
      <4> DEFINE r == Line!Tok(s, Line!NULL, m)
      <4>1. r.ret = s /\ r.last = Line!NULL /\ r.mem = m
        BY TokFields
      <4> HIDE DEF r
      <4>2. /\ r.ret \in Nat /\ r.mem \in Line!Buffer(LineMaxCmd)
            /\ Line!Start(l, k + 1) = r.ret + 1 /\ r.ret < Len(l)
        BY <1>3, <1>6, <2>1, <2>4, <4>1
      <4>3. /\ Line!Text(r.mem, r.ret) = Line!WordAt(l, r.ret + 1)
            /\ Line!Text(r.mem, r.ret) \in Seq(LineLetters \cup {LineBlank})
        BY <2>12, <2>13, <3>5, <4>1, Zenon
      <4>4. NextIs(l, m, p, k, r)
        BY <2>5, <3>6, <4>1, <4>2, <4>3, Zenon DEF NextIs
      <4>5. QED  BY <4>4 DEF r
    <3>8. QED  BY <3>2, <3>7
  <2>15. CASE e # n
    <3>1. e < n /\ l[e + 1] = LineBlank /\ m[e] = LineBlank /\ m[e] # Line!NUL
      BY <2>11, <2>15, LineSizes
    <3> DEFINE m2 == [m EXCEPT ![e] = Line!NUL]
    <3>2. t = Line!Tok(s, e + 1, m2)
      BY <1>1, <1>4, <2>1, <2>9, <3>1 DEF Line!strtok
    <3>4. e \in 0 .. LineMaxCmd - 1
      BY <1>1, <2>8
    <3>5. /\ m2 \in Line!Buffer(LineMaxCmd) /\ DOMAIN m2 = 0 .. LineMaxCmd - 1
          /\ m2[e] = Line!NUL
          /\ \A j \in 0 .. LineMaxCmd - 1 : j # e => m2[j] = m[j]
      BY <1>1, <3>4 DEF Line!Buffer
    <3> HIDE DEF m2, t
    <3>6. \A j \in s .. e - 1 : m2[j] = l[j + 1] /\ m2[j] # Line!NUL
      <4>1. \A j \in s .. e - 1 : j \in 0 .. LineMaxCmd - 1 /\ j # e
        BY <1>1, <1>3, <2>8
      <4>2. QED  BY <2>10, <3>5, <4>1
    <3>7. Line!Text(m2, s) = [q \in 1 .. e - s |-> m2[s + q - 1]]
      <4>1. \A j \in s .. e - 1 : m2[j] # Line!NUL
        BY <3>6
      <4>2. QED  BY <1>3, <2>8, <3>5, <4>1, BufText
    <3>8. Line!Text(m2, s) = SubSeq(l, s + 1, e)
      BY <2>13, <3>6, <3>7
    <3>9. Scanned(l, m2, e + 1, k + 1)
      <4>1. e + 1 \in 0 .. Len(l)
        BY <1>1, <1>6, <2>8, <3>1
      <4>2. \A j \in e + 1 .. Len(l) - 1 : j \in p .. n - 1 /\ j \in 0 .. LineMaxCmd - 1 /\ j # e
        BY <1>1, <1>3, <1>6, <2>8
      <4>3. \A j \in e + 1 .. Len(l) - 1 : m2[j] = l[j + 1]
        BY <1>1, <3>5, <4>2
      <4>4. m2[Len(l)] = Line!NUL
        <5>1. n \in 0 .. LineMaxCmd - 1
          BY <1>1
        <5>2. QED  BY <1>1, <1>6, <2>15, <3>5, <5>1
      <4>5. Cardinality(Before(l, e + 1)) = k + 1
        BY <2>3, <2>12, <3>1
      <4>6. QED  BY <3>1, <4>1, <4>3, <4>4, <4>5 DEF Scanned
    <3>10. \A j \in 0 .. p - 1 : m2[j] = m[j]
      <4>1. \A j \in 0 .. p - 1 : j \in 0 .. LineMaxCmd - 1 /\ j # e
        BY <1>1, <1>3, <2>8
      <4>2. QED  BY <3>5, <4>1
    <3>11. e + 1 \in 1 .. LineMaxCmd - 1 /\ e \in s .. (e + 1) - 1
      BY <1>1, <2>8, <3>1
    <3>12. NextIs(l, m, p, k, Line!Tok(s, e + 1, m2))
      <4> DEFINE r == Line!Tok(s, e + 1, m2)
      <4>1. r.ret = s /\ r.last = e + 1 /\ r.mem = m2
        BY TokFields
      <4> HIDE DEF r
      <4>2. /\ r.ret \in Nat /\ r.mem \in Line!Buffer(LineMaxCmd)
            /\ Line!Start(l, k + 1) = r.ret + 1 /\ r.ret < Len(l)
        BY <1>3, <1>6, <2>1, <2>4, <3>5, <4>1
      <4>3. /\ Line!Text(r.mem, r.ret) = Line!WordAt(l, r.ret + 1)
            /\ Line!Text(r.mem, r.ret) \in Seq(LineLetters \cup {LineBlank})
        BY <2>12, <2>13, <3>8, <4>1, Zenon
      <4>4. r.last \in 1 .. LineMaxCmd - 1 /\ Scanned(l, r.mem, r.last, k + 1)
        BY <3>9, <3>11, <4>1, Zenon
      <4>5. /\ \A j \in 0 .. p - 1 : r.mem[j] = m[j]
            /\ \E x \in r.ret .. r.last - 1 : r.mem[x] = Line!NUL
        BY <3>5, <3>10, <3>11, <4>1, Zenon
      <4>6. NextIs(l, m, p, k, r)
        BY <2>5, <4>2, <4>3, <4>4, <4>5, Zenon DEF NextIs
      <4>7. QED  BY <4>6 DEF r
    <3>13. QED  BY <3>2, <3>12 DEF t
  <2>16. QED  BY <2>14, <2>15
<1>9. QED  BY <1>7, <1>8

(* Over the blanks before the next word, to the word or to the end.        *)
FirstIs(l, m, p, k, s) ==
  /\ s \in p .. Len(l) /\ Line!Skip(m, p, {LineBlank}) = s
  /\ \/ s = Len(l) /\ Total(l) = k
     \/ s < Len(l) /\ Total(l) >= k + 1 /\ Line!Start(l, k + 1) = s + 1
LEMMA FirstWord ==
  ASSUME NEW l \in Line!Lines, NEW m \in Line!Buffer(LineMaxCmd), NEW p, NEW k, Scanned(l, m, p, k)
  PROVE  \E s : FirstIs(l, m, p, k, s)
<1> DEFINE t == Line!strtok(m, Line!NULL, p, {LineBlank})
           n == Len(l)
<1>1. /\ DOMAIN m = 0 .. LineMaxCmd - 1 /\ LineMaxCmd \in Nat /\ n \in Nat /\ n \in p .. LineMaxCmd - 1
      /\ p \in Nat /\ p <= n /\ p # Line!NULL
      /\ k \in Nat /\ k <= Total(l) /\ m[n] = Line!NUL
  BY ScannedFacts DEF Scanned
<1>2. PICK s \in p .. n : m[s] # LineBlank /\ \A j \in p .. s - 1 : m[j] = LineBlank
  <2> DEFINE T == {j \in p .. n : m[j] # LineBlank}
  <2>1. n \in T
    BY <1>1, LineSizes
  <2>2. PICK f \in p .. n : f \in T /\ \A j \in p .. f - 1 : j \notin T
    <3> HIDE DEF T, n
    <3>1. QED  BY <1>1, <2>1, FirstIn
  <2>3. \A j \in p .. f - 1 : j \in p .. n
    BY <1>1
  <2>4. QED  BY <2>2, <2>3
<1> HIDE DEF n
<1>3. s \in Nat /\ p <= s /\ s <= n /\ s \in p .. LineMaxCmd - 1
  BY <1>1
<1>4. Line!Skip(m, p, {LineBlank}) = s
  <2>1. m[s] \notin {LineBlank} /\ \A j \in p .. s - 1 : m[j] \in {LineBlank}
    BY <1>2
  <2>2. QED  BY <1>1, <1>3, <2>1, SkipIs, Zenon
<1>5. NextIs(l, m, p, k, t)
  <2>1. p = IF p = Line!NULL THEN Line!NULL ELSE p
    BY <1>1
  <2>2. QED  BY <2>1, TokWord
<1>6. CASE s = n
  <2>1. t = Line!Tok(Line!NULL, Line!NULL, m)
    BY <1>1, <1>4, <1>6 DEF Line!strtok
  <2>2. t.ret = Line!NULL
    BY <2>1, TokFields
  <2>3. t.ret \notin Nat
    BY <2>2 DEF Line!NULL
  <2>4. Total(l) = k
    <3> HIDE DEF t
    <3>1. QED  BY <1>5, <2>3 DEF NextIs
  <2>5. FirstIs(l, m, p, k, s)
    BY <1>2, <1>4, <1>6, <2>4 DEF n, FirstIs
  <2>6. QED  BY <2>5
<1>7. CASE s # n
  <2>1. s < n /\ s \in p .. n - 1
    BY <1>1, <1>3, <1>7
  <2>2. m[s] # Line!NUL
    <3> USE DEF n
    <3>1. QED  BY <2>1, ScannedFacts
  <2>3. t.ret = s
    <3>1. \E last, m2 : t = Line!Tok(s, last, m2)
      BY <1>1, <1>4, <2>2 DEF Line!strtok
    <3> HIDE DEF t
    <3>2. QED  BY <3>1, TokFields
  <2>4. s # Line!NULL
    BY <1>3 DEF Line!NULL
  <2>5. Total(l) >= k + 1 /\ Line!Start(l, k + 1) = s + 1
    <3> HIDE DEF t
    <3>1. QED  BY <1>5, <2>3, <2>4, Zenon DEF NextIs
  <2>6. FirstIs(l, m, p, k, s)
    BY <1>2, <1>4, <2>1, <2>5 DEF n, FirstIs
  <2>7. QED  BY <2>6
<1>8. QED  BY <1>6, <1>7

(* The text from a place that was not cut is the rest of the line.         *)
LEMMA RestIs ==
  ASSUME NEW l \in Line!Lines, NEW m \in Line!Buffer(LineMaxCmd), NEW p, NEW k, Scanned(l, m, p, k),
         NEW s \in p .. Len(l)
  PROVE  /\ Line!Text(m, s) = SubSeq(l, s + 1, Len(l)) /\ Line!strlen(m, s) = Len(l) - s
         /\ SubSeq(l, s + 1, Len(l)) \in Seq(LineLetters \cup {LineBlank})
<1> DEFINE n == Len(l)
<1>1. /\ n \in Nat /\ n \in p .. LineMaxCmd - 1 /\ LineMaxCmd \in Nat /\ p \in Nat /\ p <= n
      /\ \A j \in p .. n - 1 : m[j] = l[j + 1] /\ m[j] # Line!NUL
      /\ m[n] = Line!NUL
  BY ScannedFacts DEF Scanned
<1>2. s \in Nat /\ p <= s /\ s <= n /\ n \in s .. LineMaxCmd - 1
  BY <1>1
<1>3. \A j \in s .. n - 1 : j \in p .. n - 1
  BY <1>1, <1>2
<1>4. \A j \in s .. n - 1 : m[j] = l[j + 1]
  BY <1>1, <1>3
<1>5. \A j \in s .. n - 1 : m[j] # Line!NUL
  BY <1>1, <1>3
<1> HIDE DEF n
<1>6. Line!strlen(m, s) = n - s /\ Line!Text(m, s) = [q \in 1 .. n - s |-> m[s + q - 1]]
  BY <1>1, <1>2, <1>5, BufText
<1>7. n <= Len(l)
  BY <1>1 DEF n
<1>8. /\ [q \in 1 .. n - s |-> m[s + q - 1]] = SubSeq(l, s + 1, n)
      /\ SubSeq(l, s + 1, n) \in Seq(LineLetters \cup {LineBlank})
  BY <1>1, <1>2, <1>4, <1>7, LineSlice
<1>9. QED  BY <1>6, <1>8 DEF n

(* What a handler is handed for word k of the line, and for the rest of    *)
(* the line from word k on; q is the address.                              *)
WordArg(l, k, m, q) ==
  \/ q = Line!NULL /\ ~ Line!Has(l, k)
  \/ /\ q \in Nat /\ Line!Has(l, k)
     /\ Line!Text(m, q) = Line!WordText(l, k) /\ Line!Text(m, q) \in Seq(Line!Char)
     /\ Short(Line!Text(m, q))

RestArg(l, k, m, q) ==
  \/ q = Line!NULL /\ ~ Line!Has(l, k)
  \/ q \in Nat /\ ~ Line!Has(l, k) /\ Line!Text(m, q) = <<>> /\ Line!strlen(m, q) = 0
  \/ /\ q \in Nat /\ Line!Has(l, k) /\ Line!strlen(m, q) # 0
     /\ Line!Text(m, q) = Line!RestText(l, k) /\ Line!Text(m, q) \in Seq(Line!Char)
     /\ Short(Line!Text(m, q))

LEMMA TypedIsChar == Seq(LineLetters \cup {LineBlank}) \subseteq Seq(Line!Char)
BY DEF Line!Char

(* A string stays what it is while the memory up to its end does.          *)
LEMMA TextKept ==
  ASSUME NEW m \in Line!Buffer(LineMaxCmd), NEW w \in Line!Buffer(LineMaxCmd),
         NEW q \in Nat, NEW p \in 1 .. LineMaxCmd - 1, \E e \in q .. p - 1 : m[e] = Line!NUL,
         \A j \in 0 .. p - 1 : w[j] = m[j]
  PROVE  Line!Text(w, q) = Line!Text(m, q)
<1>1. PICK x \in q .. p - 1 : m[x] = Line!NUL
  OBVIOUS
<1>2. x \in Nat /\ q <= x /\ p \in Nat /\ LineMaxCmd \in Nat /\ p < LineMaxCmd
  BY LineSizes
<1> DEFINE T == {j \in q .. x : m[j] = Line!NUL}
<1>3. x \in T
  BY <1>1, <1>2
<1>4. PICK f \in q .. x : f \in T /\ \A j \in q .. f - 1 : j \notin T
  <2> HIDE DEF T
  <2>1. QED  BY <1>2, <1>3, FirstIn
<1>5. f \in Nat /\ f \in q .. LineMaxCmd - 1 /\ f \in 0 .. p - 1
      /\ \A j \in q .. f - 1 : j \in q .. x /\ j \in 0 .. p - 1
  BY <1>2
<1>6. m[f] = Line!NUL /\ \A j \in q .. f - 1 : m[j] # Line!NUL
  BY <1>4, <1>5
<1>7. w[f] = Line!NUL /\ \A j \in q .. f - 1 : w[j] # Line!NUL
  BY <1>5, <1>6
<1>8. /\ Line!Text(m, q) = [y \in 1 .. f - q |-> m[q + y - 1]]
      /\ Line!Text(w, q) = [y \in 1 .. f - q |-> w[q + y - 1]]
  BY <1>5, <1>6, <1>7, BufText
<1>9. \A y \in 1 .. f - q : w[q + y - 1] = m[q + y - 1]
  <2>1. \A y \in 1 .. f - q : q + y - 1 \in q .. f - 1
    BY <1>5
  <2>2. QED  BY <1>5, <2>1
<1>10. QED  BY <1>8, <1>9

(* What NextIs says of a call, for the handler and for the next call.      *)
LEMMA NextGives ==
  ASSUME NEW l \in Line!Lines, NEW m \in Line!Buffer(LineMaxCmd), NEW p, NEW k \in Nat, NEW t,
         NextIs(l, m, p, k, t)
  PROVE  /\ WordArg(l, k + 1, t.mem, t.ret)
         /\ Taken(l, t.mem, t.last, k + 1)
         /\ t.last \in {Line!NULL} \cup (1 .. LineMaxCmd - 1)
<1>1. Total(l) \in Nat
  BY LineIsSeq, StartsFinite
<1>2. Line!Has(l, k + 1) <=> Total(l) >= k + 1
  BY HasIs
<1>3. CASE t.ret = Line!NULL /\ t.last = Line!NULL /\ t.mem = m /\ Total(l) = k
  <2>1. ~ Line!Has(l, k + 1) /\ Total(l) <= k + 1
    BY <1>1, <1>2, <1>3
  <2>2. QED  BY <1>3, <2>1, Zenon DEF WordArg, Taken
<1>4. CASE ~(t.ret = Line!NULL /\ t.last = Line!NULL /\ t.mem = m /\ Total(l) = k)
  <2>1. /\ t.ret \in Nat /\ t.mem \in Line!Buffer(LineMaxCmd)
        /\ Total(l) >= k + 1 /\ Line!Start(l, k + 1) = t.ret + 1 /\ t.ret < Len(l)
        /\ Line!Text(t.mem, t.ret) = Line!WordAt(l, t.ret + 1)
        /\ Line!Text(t.mem, t.ret) \in Seq(LineLetters \cup {LineBlank})
        /\ \/ t.last = Line!NULL /\ Total(l) = k + 1
           \/ t.last \in 1 .. LineMaxCmd - 1 /\ Scanned(l, t.mem, t.last, k + 1)
    BY <1>4, Zenon DEF NextIs
  <2>2. Line!Has(l, k + 1)
    BY <1>2, <2>1
  <2>3. Line!Text(t.mem, t.ret) = Line!WordText(l, k + 1)
    BY <2>1, <2>2, Zenon DEF Line!WordText
  <2>4. Line!Text(t.mem, t.ret) \in Seq(Line!Char) /\ Short(Line!Text(t.mem, t.ret))
    <3>1. t.ret + 1 \in 1 .. Len(l)
      BY <2>1, LineIsSeq
    <3>2. Short(Line!WordAt(l, t.ret + 1))
      BY <3>1, WordShort
    <3>3. QED  BY <2>1, <3>2, TypedIsChar, Zenon
  <2>5. WordArg(l, k + 1, t.mem, t.ret)
    BY <2>1, <2>2, <2>3, <2>4, Zenon DEF WordArg
  <2>6. CASE t.last = Line!NULL /\ Total(l) = k + 1
    <3>1. Total(l) <= k + 1
      BY <1>1, <2>6
    <3>2. QED  BY <2>1, <2>5, <2>6, <3>1, Zenon DEF Taken
  <2>7. CASE t.last \in 1 .. LineMaxCmd - 1 /\ Scanned(l, t.mem, t.last, k + 1)
    <3>1. t.last # Line!NULL
      BY <2>7, LineSizes DEF Line!NULL
    <3>2. QED  BY <2>1, <2>5, <2>7, <3>1, Zenon DEF Taken
  <2>8. QED  BY <2>1, <2>6, <2>7
<1>5. QED  BY <1>3, <1>4

(* A call for the next word; a string already handed out stays.            *)
LEMMA WordCall ==
  ASSUME NEW l \in Line!Lines, NEW m, NEW last, NEW k \in Nat, Taken(l, m, last, k)
  PROVE  LET t == Line!Word(m, last) IN
         /\ WordArg(l, k + 1, t.mem, t.ret)
         /\ Taken(l, t.mem, t.last, k + 1)
         /\ t.last \in {Line!NULL} \cup (1 .. LineMaxCmd - 1)
         /\ last = Line!NULL => t.mem = m /\ t.ret = Line!NULL /\ t.last = Line!NULL
         /\ last # Line!NULL => NextIs(l, m, last, k, t)
<1> DEFINE t == Line!strtok(m, last, Line!NULL, {LineBlank})
<1>1. Line!Word(m, last) = t
  BY DEF Line!Word
<1>2. m \in Line!Buffer(LineMaxCmd)
  BY DEF Taken
<1>3. CASE last = Line!NULL
  <2>1. t = Line!Tok(Line!NULL, Line!NULL, m)
    BY <1>3 DEF Line!strtok
  <2> HIDE DEF t
  <2>2. t.ret = Line!NULL /\ t.last = Line!NULL /\ t.mem = m
    BY <2>1, TokFields
  <2>3. Total(l) <= k /\ Total(l) \in Nat
    BY <1>3, LineIsSeq, StartsFinite DEF Taken
  <2>4. Total(l) <= k + 1 /\ ~ Line!Has(l, k + 1)
    BY <2>3, HasIs
  <2>5. WordArg(l, k + 1, t.mem, t.ret) /\ Taken(l, t.mem, t.last, k + 1)
    BY <1>2, <2>2, <2>4, Zenon DEF WordArg, Taken
  <2>6. QED  BY <1>1, <1>3, <2>2, <2>5
<1>4. CASE last # Line!NULL
  <2>1. Scanned(l, m, last, k)
    BY <1>4 DEF Taken
  <2>2. last = IF Line!NULL = Line!NULL THEN last ELSE Line!NULL
    OBVIOUS
  <2>3. NextIs(l, m, last, k, t)
    BY <1>2, <2>1, <2>2, TokWord
  <2> HIDE DEF t
  <2>4. /\ WordArg(l, k + 1, t.mem, t.ret) /\ Taken(l, t.mem, t.last, k + 1)
        /\ t.last \in {Line!NULL} \cup (1 .. LineMaxCmd - 1)
    BY <1>2, <2>3, NextGives
  <2>5. QED  BY <1>1, <1>4, <2>3, <2>4
<1>5. QED  BY <1>3, <1>4

(* A call for the rest of the line, and the blanks before it skipped.      *)
LEMMA RestCall ==
  ASSUME NEW l \in Line!Lines, NEW m, NEW last, NEW k \in Nat, Taken(l, m, last, k)
  PROVE  LET t == Line!Rest(m, last) IN
         /\ t.mem = m /\ t.last = Line!NULL
         /\ RestArg(l, k + 1, m, Line!SkipBlanks(m, t.ret))
<1> DEFINE t == Line!strtok(m, last, Line!NULL, {})
<1>1. Line!Rest(m, last) = t
  BY DEF Line!Rest
<1>2. m \in Line!Buffer(LineMaxCmd) /\ Total(l) \in Nat
  BY LineIsSeq, StartsFinite DEF Taken
<1>3. CASE last = Line!NULL
  <2>1. t = Line!Tok(Line!NULL, Line!NULL, m)
    BY <1>3 DEF Line!strtok
  <2> HIDE DEF t
  <2>2. t.ret = Line!NULL /\ t.last = Line!NULL /\ t.mem = m
    BY <2>1, TokFields
  <2>3. ~ Line!Has(l, k + 1)
    BY <1>2, <1>3, HasIs DEF Taken
  <2>4. Line!SkipBlanks(m, t.ret) = Line!NULL
    BY <2>2 DEF Line!SkipBlanks
  <2>5. QED  BY <1>1, <2>2, <2>3, <2>4 DEF RestArg
<1>4. CASE last # Line!NULL
  <2>1. Scanned(l, m, last, k)
    BY <1>4 DEF Taken
  <2> DEFINE n == Len(l)
  <2>2. /\ DOMAIN m = 0 .. LineMaxCmd - 1 /\ LineMaxCmd \in Nat
        /\ n \in Nat /\ n \in last .. LineMaxCmd - 1
        /\ last \in Nat /\ last <= n
        /\ \A j \in last .. n - 1 : m[j] = l[j + 1] /\ m[j] # Line!NUL
        /\ m[n] = Line!NUL
    BY <1>2, <2>1, ScannedFacts DEF Scanned
  <2>3. PICK s \in last .. n :
          /\ Line!Skip(m, last, {LineBlank}) = s
          /\ \/ s = n /\ Total(l) = k
             \/ s < n /\ Total(l) >= k + 1 /\ Line!Start(l, k + 1) = s + 1
    <3>1. PICK s : FirstIs(l, m, last, k, s)
      BY <1>2, <2>1, FirstWord, Zenon
    <3>2. QED  BY <3>1 DEF FirstIs
  <2>4. /\ Line!Text(m, s) = SubSeq(l, s + 1, n) /\ Line!strlen(m, s) = n - s
        /\ SubSeq(l, s + 1, n) \in Seq(LineLetters \cup {LineBlank})
    BY <1>2, <2>1, RestIs
  <2>5. s \in Nat /\ s # Line!NULL
    BY <2>2 DEF Line!NULL
  <2>6. Line!Skip(m, last, {}) = last
    <3>1. last \in last .. LineMaxCmd - 1 /\ m[last] \notin {} /\ \A j \in last .. last - 1 : m[j] \in {}
      BY <2>2
    <3>2. QED  BY <2>2, <3>1, SkipIs, Zenon
  <2>7. Line!Find(m, last, {Line!NUL} \cup {}) = n
    <3>1. {Line!NUL} \cup {} = {Line!NUL}
      OBVIOUS
    <3>2. m[n] \in {Line!NUL} /\ \A j \in last .. n - 1 : m[j] \notin {Line!NUL}
      BY <2>2
    <3> HIDE DEF n
    <3>3. Line!Find(m, last, {Line!NUL}) = n
      BY <2>2, <3>2, FindIs, Zenon
    <3>4. QED  BY <3>1, <3>3
  <2>8. CASE last = n
    <3>1. t = Line!Tok(Line!NULL, Line!NULL, m)
      BY <1>4, <2>2, <2>6, <2>8 DEF Line!strtok
    <3> HIDE DEF t
    <3>2. t.ret = Line!NULL /\ t.last = Line!NULL /\ t.mem = m
      BY <3>1, TokFields
    <3>3. ~(s < n)
      BY <2>2, <2>8
    <3>4. ~ Line!Has(l, k + 1)
      BY <1>2, <2>3, <3>3, HasIs
    <3>5. Line!SkipBlanks(m, t.ret) = Line!NULL
      BY <3>2 DEF Line!SkipBlanks
    <3>6. QED  BY <1>1, <3>2, <3>4, <3>5 DEF RestArg
  <2>9. CASE last # n
    <3>1. m[last] # Line!NUL
      BY <2>2, <2>9
    <3>2. t = Line!Tok(last, Line!NULL, m)
      BY <1>4, <2>2, <2>6, <2>7, <3>1 DEF Line!strtok
    <3> HIDE DEF t
    <3>3. t.ret = last /\ t.last = Line!NULL /\ t.mem = m
      BY <3>2, TokFields
    <3>4. Line!SkipBlanks(m, t.ret) = s
      BY <1>4, <2>3, <3>3 DEF Line!SkipBlanks
    <3>5. CASE s = n /\ Total(l) = k
      <4>1. ~ Line!Has(l, k + 1)
        BY <1>2, <3>5, HasIs
      <4>2. SubSeq(l, s + 1, n) = <<>> /\ n - s = 0
        BY <2>2, <3>5, LineIsSeq
      <4>3. RestArg(l, k + 1, m, s)
        BY <2>4, <2>5, <4>1, <4>2 DEF RestArg
      <4>4. QED  BY <1>1, <3>3, <3>4, <4>3
    <3>6. CASE s < n /\ Total(l) >= k + 1 /\ Line!Start(l, k + 1) = s + 1
      <4>1. Line!Has(l, k + 1) /\ n - s # 0
        BY <2>2, <2>5, <3>6, HasIs
      <4>2. /\ Line!Text(m, s) = Line!RestText(l, k + 1) /\ Line!Text(m, s) \in Seq(Line!Char)
            /\ Short(Line!Text(m, s))
        <5>1. s + 1 \in 1 .. Len(l) /\ n \in Nat /\ n <= Len(l)
          BY <2>2, <2>5, <3>6
        <5>2. Short(SubSeq(l, s + 1, n))
          BY <5>1, SliceShort
        <5>3. QED  BY <2>4, <3>6, <4>1, <5>2, TypedIsChar, Zenon DEF Line!RestText, n
      <4>3. RestArg(l, k + 1, m, s)
        BY <2>4, <2>5, <4>1, <4>2, Zenon DEF RestArg
      <4>4. QED  BY <1>1, <3>3, <3>4, <4>3
    <3>7. QED  BY <2>3, <3>5, <3>6
  <2>10. QED  BY <2>8, <2>9
<1>5. QED  BY <1>3, <1>4

(* strncpy into a buffer whose last byte is zero leaves the source, cut to *)
(* the size of the buffer.                                                 *)
LEMMA CopyText ==
  ASSUME NEW n \in Nat, n > 1, NEW src \in Seq(Line!Char), NEW b \in Line!Buffer(n), b[n - 1] = Line!NUL,
         \A j \in 0 .. n - 2 : b[j] = Line!At(src, j)
  PROVE  Line!Text(b, 0) = Line!Cut(src, n - 1)
<1> DEFINE e == IF Len(src) < n - 1 THEN Len(src) ELSE n - 1
<1>1. Len(src) \in Nat /\ e \in Nat /\ e \in 0 .. n - 1 /\ e <= Len(src) /\ e \in 0 .. Len(src)
  OBVIOUS
<1>2. b[e] = Line!NUL
  <2>1. CASE Len(src) < n - 1
    <3>1. e = Len(src) /\ e \in 0 .. n - 2
      BY <1>1, <2>1
    <3>2. Line!At(src, e) = Line!NUL
      BY <1>1, <3>1 DEF Line!At
    <3>3. QED  BY <3>1, <3>2
  <2>2. CASE ~(Len(src) < n - 1)
    BY <2>2
  <2>3. QED  BY <2>1, <2>2
<1>3. \A j \in 0 .. e - 1 : b[j] = src[j + 1] /\ b[j] # Line!NUL
  <2>1. SUFFICES ASSUME NEW j \in 0 .. e - 1  PROVE b[j] = src[j + 1] /\ b[j] # Line!NUL
    OBVIOUS
  <2>2. j \in 0 .. n - 2 /\ j < Len(src) /\ j + 1 \in 1 .. Len(src)
    BY <1>1
  <2>3. Line!At(src, j) = src[j + 1]
    BY <2>2 DEF Line!At
  <2>4. src[j + 1] \in Line!Char
    BY <2>2
  <2>5. QED  BY <2>2, <2>3, <2>4, LineSizes
<1>4. Line!Cut(src, n - 1) = SubSeq(src, 1, e)
  BY DEF Line!Cut
<1> HIDE DEF e
<1>5. ASSUME NEW s \in Nat, s = 0  PROVE Line!Text(b, s) = SubSeq(src, s + 1, e)
  <2>1. DOMAIN b = 0 .. n - 1
    BY DEF Line!Buffer
  <2>2. \A j \in s .. e - 1 : b[j] # Line!NUL
    BY <1>3, <1>5
  <2>3. e \in s .. n - 1 /\ e \in s .. Len(src)
    BY <1>1, <1>5
  <2>4. Line!Text(b, s) = [q \in 1 .. e - s |-> b[s + q - 1]]
    BY <1>1, <1>2, <2>1, <2>2, <2>3, TextIs
  <2>5. \A j \in s .. e - 1 : b[j] = src[j + 1]
    BY <1>3, <1>5
  <2>6. [q \in 1 .. e - s |-> b[s + q - 1]] = SubSeq(src, s + 1, e)
    BY <2>3, <2>5, SliceIs
  <2>7. QED  BY <2>4, <2>6
<1>6. Line!Text(b, 0) = SubSeq(src, 0 + 1, e)
  BY <1>5
<1>7. 0 + 1 = 1
  OBVIOUS
<1>8. QED  BY <1>4, <1>6, <1>7, Zenon

(* strncpy with room for the zero, the last byte zero before or after.     *)
LEMMA CopyIs ==
  ASSUME NEW n \in Nat, n > 1, NEW src \in Seq(Line!Char), NEW d \in Line!Buffer(n),
         NEW c, c = Line!strncpy(d, src, n - 1), NEW z, z = [c EXCEPT ![n - 1] = Line!NUL]
  PROVE  /\ c \in Line!Buffer(n) /\ z \in Line!Buffer(n)
         /\ c[n - 1] = d[n - 1] /\ z[n - 1] = Line!NUL
         /\ \A j \in 0 .. n - 2 : c[j] = Line!At(src, j) /\ z[j] = Line!At(src, j)
<1>1. ASSUME NEW j \in 0 .. n - 1  PROVE Line!At(src, j) \in Line!Char \cup {Line!NUL}
  <2>1. CASE j < Len(src)
    <3>1. j + 1 \in 1 .. Len(src)
      BY <2>1
    <3>2. QED  BY <2>1, <3>1 DEF Line!At
  <2>2. CASE ~(j < Len(src))
    BY <2>2 DEF Line!At
  <2>3. QED  BY <2>1, <2>2
<1>2. DOMAIN d = 0 .. n - 1 /\ \A j \in 0 .. n - 1 : d[j] \in Line!Char \cup {Line!NUL}
  BY DEF Line!Buffer
<1>3. c = [j \in 0 .. n - 1 |-> IF j < n - 1 THEN Line!At(src, j) ELSE d[j]]
  BY <1>2 DEF Line!strncpy
<1>4. c \in Line!Buffer(n) /\ DOMAIN c = 0 .. n - 1
  BY <1>1, <1>2, <1>3 DEF Line!Buffer
<1>5. c[n - 1] = d[n - 1]
  BY <1>3
<1>6. \A j \in 0 .. n - 2 : c[j] = Line!At(src, j)
  BY <1>3
<1>7. z \in Line!Buffer(n) /\ z[n - 1] = Line!NUL /\ \A j \in 0 .. n - 2 : z[j] = c[j]
  BY <1>4 DEF Line!Buffer
<1>8. QED  BY <1>4, <1>5, <1>6, <1>7

(* A line just copied: no word is behind its beginning.                    *)
LEMMA CopiedLine ==
  ASSUME NEW l \in Line!Lines, NEW d \in Line!Buffer(LineMaxCmd)
  PROVE  LET z == [Line!strncpy(d, l, LineMaxCmd - 1) EXCEPT ![LineMaxCmd - 1] = Line!NUL]
         IN z \in Line!Buffer(LineMaxCmd) /\ Scanned(l, z, 0, 0)
<1> DEFINE c == Line!strncpy(d, l, LineMaxCmd - 1)
           z == [c EXCEPT ![LineMaxCmd - 1] = Line!NUL]
<1>1. l \in Seq(Line!Char) /\ Len(l) \in Nat /\ Len(l) < LineMaxCmd
  BY LineIsSeq, TypedIsChar
<1>2. /\ z \in Line!Buffer(LineMaxCmd) /\ z[LineMaxCmd - 1] = Line!NUL
      /\ \A j \in 0 .. LineMaxCmd - 2 : z[j] = Line!At(l, j)
  <2>1. LineMaxCmd \in Nat /\ LineMaxCmd > 1
    BY LineSizes
  <2>2. c = Line!strncpy(d, l, LineMaxCmd - 1) /\ z = [c EXCEPT ![LineMaxCmd - 1] = Line!NUL]
    OBVIOUS
  <2> HIDE DEF c, z
  <2>3. \A j \in 0 .. LineMaxCmd - 2 : c[j] = Line!At(l, j) /\ z[j] = Line!At(l, j)
    BY <1>1, <2>1, <2>2, CopyIs
  <2>4. z \in Line!Buffer(LineMaxCmd) /\ z[LineMaxCmd - 1] = Line!NUL
    <3>1. DOMAIN c = 0 .. LineMaxCmd - 1
      BY <2>2, LineSizes DEF Line!strncpy, Line!Buffer
    <3>2. z[LineMaxCmd - 1] = Line!NUL
      BY <2>1, <2>2, <3>1
    <3>3. z \in Line!Buffer(LineMaxCmd)
      BY <1>1, <2>1, <2>2, CopyIs
    <3>4. QED  BY <3>2, <3>3
  <2>5. QED  BY <2>3, <2>4
<1> HIDE DEF z
<1>3. \A j \in 0 .. Len(l) - 1 : z[j] = l[j + 1]
  <2>1. \A j \in 0 .. Len(l) - 1 : j \in 0 .. LineMaxCmd - 2 /\ j < Len(l)
    BY <1>1, LineSizes
  <2>2. QED  BY <1>2, <2>1 DEF Line!At
<1>4. z[Len(l)] = Line!NUL
  <2>1. CASE Len(l) = LineMaxCmd - 1
    BY <1>2, <2>1
  <2>2. CASE Len(l) # LineMaxCmd - 1
    <3>1. Len(l) \in 0 .. LineMaxCmd - 2 /\ ~(Len(l) < Len(l))
      BY <1>1, <2>2, LineSizes
    <3>2. QED  BY <1>2, <3>1 DEF Line!At
  <2>3. QED  BY <2>1, <2>2
<1>5. Cardinality(Before(l, 0)) = 0
  <2>1. \A j \in Line!Starts(l) : ~(j <= 0)
    BY <1>1 DEF Line!Starts
  <2>2. Before(l, 0) = {}
    BY <2>1, Zenon DEF Before
  <2>3. QED  BY <2>2, FS_EmptySet
<1>6. 0 \in 0 .. Len(l)
  BY <1>1
<1>7. QED  BY <1>2, <1>3, <1>4, <1>5, <1>6 DEF Scanned, z
-----------------------------------------------------------------------------
(* ArgumentsArrive.  What the calls of strtok carry from one to the next   *)
(* is Taken: between the first call for a line and the handler, temp and   *)
(* last_strtok stand behind the first word of that line.  When no command  *)
(* is under way last_strtok may point anywhere: the next call passes temp. *)
ArgOK(l, k, a) ==
  /\ a.text = IF a.kind = "word" THEN Line!WordText(l, k) ELSE Line!RestText(l, k)
  /\ Line!Has(l, k) => a.given
  /\ a.given /\ a.kind # "rest" => Line!Has(l, k)

CallInv ==
  /\ line_pc \in {"idle", "exec"}
  /\ temp \in Line!Buffer(LineMaxCmd)
  /\ last_strtok \in {Line!NULL} \cup (1 .. LineMaxCmd - 1)
  /\ line \in Line!Lines
  /\ line_pc = "exec" => Taken(line, temp, last_strtok, 1)
  /\ line_pc = "exec" => \E a : argv = <<a>> /\ Short(a.text)
  /\ Line!ArgumentsAreWords

FieldInv ==
  /\ current_dir \in Line!Buffer(DirSize)
  /\ current_filename \in Line!Buffer(NameSize)
  /\ cd_arg \in Seq(Line!Char) /\ name_arg \in Seq(Line!Char)
  /\ current_filename[NameSize - 1] = Line!NUL
  /\ Line!FieldsAreStrings

LEMMA EmptyShort == Short(<<>>)
BY LineSizes DEF Short

LEMMA WordArgOK ==
  ASSUME NEW l, NEW k, NEW m, NEW q, WordArg(l, k, m, q)
  PROVE  /\ ArgOK(l, k, Line!Arg("word", m, q))
         /\ Short(Line!Arg("word", m, q).text)
<1> DEFINE a == Line!Arg("word", m, q)
<1>1. a.kind = "word" /\ (a.given <=> q # Line!NULL)
      /\ a.text = IF q = Line!NULL THEN <<>> ELSE Line!Text(m, q)
  BY DEF Line!Arg
<1> HIDE DEF a
<1>2. CASE q = Line!NULL /\ ~ Line!Has(l, k)
  BY <1>1, <1>2, EmptyShort DEF ArgOK, Line!WordText, a
<1>3. CASE q \in Nat /\ Line!Has(l, k) /\ Line!Text(m, q) = Line!WordText(l, k) /\ Short(Line!Text(m, q))
  <2>1. q # Line!NULL
    BY <1>3 DEF Line!NULL
  <2>2. QED  BY <1>1, <1>3, <2>1 DEF ArgOK, a
<1>4. QED  BY <1>2, <1>3 DEF WordArg

LEMMA RestArgOK ==
  ASSUME NEW l, NEW k, NEW m, NEW q, RestArg(l, k, m, q)
  PROVE  /\ ArgOK(l, k, Line!Arg("rest", m, q))
         /\ LET args == IF q # Line!NULL /\ Line!strlen(m, q) = 0 THEN Line!NULL ELSE q
            IN /\ ArgOK(l, k, Line!Arg("args", m, args))
               /\ Line!Arg("args", m, args).text \in Seq(Line!Char)
               /\ Short(Line!Arg("args", m, args).text)
<1> DEFINE args == IF q # Line!NULL /\ Line!strlen(m, q) = 0 THEN Line!NULL ELSE q
           a == Line!Arg("rest", m, q)
           b == Line!Arg("args", m, args)
<1>1. a.kind = "rest" /\ (a.given <=> q # Line!NULL)
      /\ a.text = IF q = Line!NULL THEN <<>> ELSE Line!Text(m, q)
  BY DEF Line!Arg
<1>2. b.kind = "args" /\ (b.given <=> args # Line!NULL)
      /\ b.text = IF args = Line!NULL THEN <<>> ELSE Line!Text(m, args)
  BY DEF Line!Arg
<1>3. Line!NULL \notin Nat
  BY DEF Line!NULL
<1> HIDE DEF a, b
<1>0. <<>> \in Seq(Line!Char)
  OBVIOUS
<1>4. CASE q = Line!NULL /\ ~ Line!Has(l, k)
  BY <1>0, <1>1, <1>2, <1>4, EmptyShort DEF ArgOK, Line!RestText, a, b
<1>5. CASE q \in Nat /\ ~ Line!Has(l, k) /\ Line!Text(m, q) = <<>> /\ Line!strlen(m, q) = 0
  BY <1>0, <1>1, <1>2, <1>3, <1>5, EmptyShort DEF ArgOK, Line!RestText, a, b
<1>6. CASE /\ q \in Nat /\ Line!Has(l, k) /\ Line!strlen(m, q) # 0
           /\ Line!Text(m, q) = Line!RestText(l, k) /\ Line!Text(m, q) \in Seq(Line!Char)
           /\ Short(Line!Text(m, q))
  <2>1. args = q /\ q # Line!NULL
    BY <1>3, <1>6
  <2>2. ArgOK(l, k, a)
    BY <1>1, <1>6, <2>1 DEF ArgOK
  <2>3. ArgOK(l, k, b)
    BY <1>2, <1>6, <2>1 DEF ArgOK
  <2>4. b.text = Line!Text(m, q)
    BY <1>2, <2>1
  <2>5. QED  BY <1>6, <2>2, <2>3, <2>4 DEF a, b
<1>7. QED  BY <1>4, <1>5, <1>6 DEF RestArg

(* A field after strncpy: a string again, and the text that was copied.    *)
CopyInto(n, src, new) ==
  /\ new \in Line!Buffer(n) /\ new[n - 1] = Line!NUL
  /\ Line!Text(new, 0) = Line!Cut(src, n - 1)

LEMMA CopyIsInto ==
  ASSUME NEW n \in Nat, n > 1, NEW d \in Line!Buffer(n), NEW src \in Seq(Line!Char), NEW c,
         \/ c = Line!strncpy(d, src, n - 1) /\ d[n - 1] = Line!NUL
         \/ c = [Line!strncpy(d, src, n - 1) EXCEPT ![n - 1] = Line!NUL]
  PROVE  CopyInto(n, src, c)
<1>1. c \in Line!Buffer(n) /\ c[n - 1] = Line!NUL /\ \A j \in 0 .. n - 2 : c[j] = Line!At(src, j)
  <2> DEFINE u == Line!strncpy(d, src, n - 1)
             z == [u EXCEPT ![n - 1] = Line!NUL]
  <2>1. u = Line!strncpy(d, src, n - 1) /\ z = [u EXCEPT ![n - 1] = Line!NUL]
    OBVIOUS
  <2>2. (c = u /\ d[n - 1] = Line!NUL) \/ c = z
    OBVIOUS
  <2> HIDE DEF u, z
  <2>3. /\ u \in Line!Buffer(n) /\ z \in Line!Buffer(n)
        /\ u[n - 1] = d[n - 1] /\ z[n - 1] = Line!NUL
        /\ \A j \in 0 .. n - 2 : u[j] = Line!At(src, j) /\ z[j] = Line!At(src, j)
    <3>1. u \in Line!Buffer(n) /\ z \in Line!Buffer(n)
      BY <2>1, CopyIs
    <3>2. \A j \in 0 .. n - 2 : u[j] = Line!At(src, j) /\ z[j] = Line!At(src, j)
      BY <2>1, CopyIs
    <3>3. u[n - 1] = d[n - 1]
      BY <2>1 DEF Line!strncpy, Line!Buffer
    <3>4. z[n - 1] = Line!NUL
      BY <2>1, <3>1 DEF Line!Buffer
    <3>5. QED  BY <3>1, <3>2, <3>3, <3>4
  <2>4. QED  BY <2>2, <2>3
<1>2. Line!Text(c, 0) = Line!Cut(src, n - 1)
  BY <1>1, CopyText
<1>3. QED  BY <1>1, <1>2 DEF CopyInto

LEMMA NameIsText == NewTxt \in Seq(Line!Char)
BY LineAssumption DEF Line!NameOK, Line!Char

LEMMA LineInit == MCInit => CallInv /\ FieldInv
<1> SUFFICES ASSUME MCInit  PROVE CallInv /\ FieldInv
  OBVIOUS
<1>1. /\ temp = Line!Zeroed(LineMaxCmd) /\ last_strtok = Line!NULL
      /\ current_dir = Line!strncpy(Line!Zeroed(DirSize), Line!Root, DirSize)
      /\ current_filename = Line!strncpy(Line!Zeroed(NameSize), NewTxt, NameSize - 1)
      /\ line_pc = "idle" /\ line = <<>> /\ argv = <<>>
      /\ cd_arg = Line!Root /\ name_arg = NewTxt
  BY DEF MCInit, Line!Init
<1>2. \A n \in Nat : Line!Zeroed(n) \in Line!Buffer(n)
  BY DEF Line!Zeroed, Line!Buffer
<1>3. CallInv
  <2>1. <<>> \in Line!Lines
    <3>1. 0 \in 0 .. LineMaxCmd - 1
      BY LineSizes
    <3>2. <<>> \in [1 .. 0 -> LineLetters \cup {LineBlank}]
      OBVIOUS
    <3>3. QED  BY <3>1, <3>2, Zenon DEF Line!Lines
  <2>2. Line!ArgumentsAreWords
    BY <1>1 DEF Line!ArgumentsAreWords
  <2>3. temp \in Line!Buffer(LineMaxCmd)
    BY <1>1, <1>2, LineSizes
  <2>4. QED  BY <1>1, <2>1, <2>2, <2>3 DEF CallInv
<1>4. Line!Root \in Seq(Line!Char) /\ Len(Line!Root) = 1 /\ Line!Root[1] = Slash
  BY DEF Line!Root, Line!Char
<1>5. NewTxt \in Seq(Line!Char)
  BY NameIsText
<1>6. /\ current_dir \in Line!Buffer(DirSize) /\ current_dir[DirSize - 1] = Line!NUL
      /\ \A j \in 0 .. DirSize - 2 : current_dir[j] = Line!At(Line!Root, j)
  <2>1. \A j \in 0 .. DirSize - 1 : Line!At(Line!Root, j) = IF j = 0 THEN Slash ELSE Line!NUL
    BY <1>4, LineSizes DEF Line!At
  <2>2. current_dir = [j \in 0 .. DirSize - 1 |-> Line!At(Line!Root, j)]
    <3>1. DOMAIN Line!Zeroed(DirSize) = 0 .. DirSize - 1
      BY DEF Line!Zeroed
    <3>2. \A j \in 0 .. DirSize - 1 : j < DirSize
      BY LineSizes
    <3>3. QED  BY <1>1, <3>1, <3>2 DEF Line!strncpy
  <2>3. current_dir \in Line!Buffer(DirSize)
    BY <2>1, <2>2 DEF Line!Buffer, Line!Char
  <2>4. current_dir[DirSize - 1] = Line!NUL
    BY <2>1, <2>2, LineSizes
  <2>5. QED  BY <2>2, <2>3, <2>4, LineSizes
<1>7. CopyInto(NameSize, NewTxt, current_filename)
  <2>1. Line!Zeroed(NameSize) \in Line!Buffer(NameSize) /\ Line!Zeroed(NameSize)[NameSize - 1] = Line!NUL
    BY <1>2, LineSizes DEF Line!Zeroed
  <2>2. QED  BY <1>1, <1>5, <2>1, LineSizes, CopyIsInto
<1>8. Line!Text(current_dir, 0) = Line!Cut(Line!Root, DirSize - 1)
  BY <1>4, <1>6, LineSizes, CopyText
<1>9. QED  BY <1>1, <1>3, <1>4, <1>5, <1>6, <1>7, <1>8 DEF FieldInv, Line!FieldsAreStrings, CopyInto

LEMMA FieldsKept ==
  ASSUME FieldInv, UNCHANGED Line!fields
  PROVE  FieldInv'
BY DEF FieldInv, Line!fields, Line!FieldsAreStrings, Line!Text, Line!strlen, Line!Find, Line!Cut

(* The words found so far with the arguments of a handler behind them.     *)
LEMMA ArgsFound ==
  ASSUME NEW l, NEW a, NEW b, NEW v, ArgOK(l, 1, a), ArgOK(l, 2, b),
         \/ v = <<a>> \o <<b>>
         \/ \E c : ArgOK(l, 3, c) /\ v = <<a>> \o <<b, c>>
  PROVE  \A k \in DOMAIN v : ArgOK(l, k, v[k])
<1>1. CASE v = <<a>> \o <<b>>
  <2>1. <<a>> \in Seq({a, b}) /\ <<b>> \in Seq({a, b}) /\ Len(<<a>>) = 1 /\ Len(<<b>>) = 1
    OBVIOUS
  <2>2. DOMAIN v = {1, 2} /\ v[1] = a /\ v[2] = b
    BY <1>1, <2>1
  <2>3. QED  BY <2>2, Zenon
<1>2. CASE \E c : ArgOK(l, 3, c) /\ v = <<a>> \o <<b, c>>
  <2>1. PICK c : ArgOK(l, 3, c) /\ v = <<a>> \o <<b, c>>
    BY <1>2
  <2>2. <<a>> \in Seq({a, b, c}) /\ <<b, c>> \in Seq({a, b, c}) /\ Len(<<a>>) = 1 /\ Len(<<b, c>>) = 2
    OBVIOUS
  <2>3. DOMAIN v = {1, 2, 3} /\ v[1] = a /\ v[2] = b /\ v[3] = c
    BY <2>1, <2>2
  <2>4. QED  BY <2>1, <2>3, Zenon
<1>3. QED  BY <1>1, <1>2

LEMMA HandlerReturns ==
  ASSUME CallInv, NEW t, NEW args, Line!Return(t, args), line_pc' = "idle", t.mem \in Line!Buffer(LineMaxCmd),
         t.last \in {Line!NULL} \cup (1 .. LineMaxCmd - 1),
         \/ args = <<>>
         \/ \E b : ArgOK(line, 2, b) /\ args = <<b>>
         \/ \E b, c : ArgOK(line, 2, b) /\ ArgOK(line, 3, c) /\ args = <<b, c>>
  PROVE  CallInv'
<1>1. /\ line_pc = "exec" /\ line_pc' = "idle" /\ temp' = t.mem /\ last_strtok' = t.last
      /\ argv' = argv \o args /\ line' = line
  BY DEF Line!Return
<1>2. PICK a : argv = <<a>>
  BY <1>1 DEF CallInv
<1>3. ArgOK(line, 1, a)
  <2>1. 1 \in DOMAIN argv /\ argv[1] = a
    BY <1>2
  <2>2. QED  BY <2>1 DEF CallInv, Line!ArgumentsAreWords, ArgOK
<1>4. \A k \in DOMAIN argv' : ArgOK(line, k, argv'[k])
  <2>1. CASE args = <<>>
    <3>1. argv' = argv
      BY <1>1, <1>2, <2>1
    <3>2. QED  BY <3>1 DEF CallInv, Line!ArgumentsAreWords, ArgOK
  <2>2. CASE \E b : ArgOK(line, 2, b) /\ args = <<b>>
    BY <1>1, <1>2, <1>3, <2>2, ArgsFound
  <2>3. CASE \E b, c : ArgOK(line, 2, b) /\ ArgOK(line, 3, c) /\ args = <<b, c>>
    <3>1. PICK b, c : ArgOK(line, 2, b) /\ ArgOK(line, 3, c) /\ args = <<b, c>>
      BY <2>3, Zenon
    <3>2. argv' = <<a>> \o <<b, c>>
      BY <1>1, <1>2, <3>1, Zenon
    <3>3. QED  BY <1>3, <3>1, <3>2, ArgsFound
  <2>4. QED  BY <2>1, <2>2, <2>3
<1>5. Line!ArgumentsAreWords'
  BY <1>1, <1>4 DEF Line!ArgumentsAreWords, ArgOK
<1>6. line \in Line!Lines
  BY DEF CallInv
<1>7. QED  BY <1>1, <1>5, <1>6 DEF CallInv

LEMMA ExecStep ==
  ASSUME CallInv, FieldInv, NEW l \in Line!Lines, Line!exec_command(l)
  PROVE  CallInv' /\ FieldInv'
<1> DEFINE z == [Line!strncpy(temp, l, LineMaxCmd - 1) EXCEPT ![LineMaxCmd - 1] = Line!NUL]
           t == Line!strtok(z, last_strtok, 0, {LineBlank})
<1>1. /\ temp' = t.mem /\ last_strtok' = t.last /\ line' = l
      /\ argv' = <<Line!Arg("word", t.mem, t.ret)>>
      /\ line_pc' = IF t.ret = Line!NULL THEN "idle" ELSE "exec"
      /\ UNCHANGED Line!fields
  BY DEF Line!exec_command
<1>2. z \in Line!Buffer(LineMaxCmd) /\ Scanned(l, z, 0, 0)
  BY CopiedLine DEF CallInv
<1>3. 0 = IF 0 = Line!NULL THEN last_strtok ELSE 0
  BY DEF Line!NULL
<1> HIDE DEF z
<1>4. NextIs(l, z, 0, 0, t)
  BY <1>2, <1>3, TokWord
<1> HIDE DEF t
<1>5. /\ WordArg(l, 0 + 1, t.mem, t.ret) /\ Taken(l, t.mem, t.last, 0 + 1)
      /\ t.last \in {Line!NULL} \cup (1 .. LineMaxCmd - 1)
  BY <1>2, <1>4, NextGives
<1>6. 0 + 1 = 1
  OBVIOUS
<1>7. WordArg(l, 1, t.mem, t.ret) /\ Taken(l, t.mem, t.last, 1)
  BY <1>5, <1>6, Zenon
<1>8. ArgOK(l, 1, Line!Arg("word", t.mem, t.ret)) /\ Short(Line!Arg("word", t.mem, t.ret).text)
  BY <1>7, WordArgOK
<1>9. Line!ArgumentsAreWords'
  <2>1. DOMAIN argv' = {1} /\ argv'[1] = Line!Arg("word", t.mem, t.ret)
    BY <1>1
  <2>2. \A k \in DOMAIN argv' : ArgOK(line', k, argv'[k])
    BY <1>1, <1>8, <2>1, Zenon
  <2>3. QED  BY <2>2 DEF Line!ArgumentsAreWords, ArgOK
<1>10. temp' \in Line!Buffer(LineMaxCmd)
  BY <1>1, <1>7 DEF Taken
<1>11. CallInv'
  <2>1. line_pc' \in {"idle", "exec"}
    BY <1>1
  <2>2. \E a : argv' = <<a>> /\ Short(a.text)
    BY <1>1, <1>8, Zenon
  <2>3. Taken(line', temp', last_strtok', 1)
    BY <1>1, <1>7, Zenon
  <2>4. QED  BY <1>1, <1>5, <1>9, <1>10, <2>1, <2>2, <2>3 DEF CallInv
<1>12. QED  BY <1>1, <1>11, FieldsKept

(* The call of strtok every handler starts with, from the invariant.       *)
LEMMA SecondWord ==
  ASSUME CallInv, line_pc = "exec"
  PROVE  LET t == Line!Word(temp, last_strtok) IN
         /\ WordArg(line, 2, t.mem, t.ret) /\ Taken(line, t.mem, t.last, 2)
         /\ t.mem \in Line!Buffer(LineMaxCmd)
         /\ t.last \in {Line!NULL} \cup (1 .. LineMaxCmd - 1)
         /\ last_strtok = Line!NULL => t.mem = temp /\ t.ret = Line!NULL /\ t.last = Line!NULL
         /\ last_strtok # Line!NULL => NextIs(line, temp, last_strtok, 1, t)
<1> DEFINE t == Line!Word(temp, last_strtok)
<1>1. line \in Line!Lines /\ Taken(line, temp, last_strtok, 1)
  BY DEF CallInv
<1>2. /\ WordArg(line, 1 + 1, t.mem, t.ret) /\ Taken(line, t.mem, t.last, 1 + 1)
      /\ t.last \in {Line!NULL} \cup (1 .. LineMaxCmd - 1)
      /\ last_strtok = Line!NULL => t.mem = temp /\ t.ret = Line!NULL /\ t.last = Line!NULL
      /\ last_strtok # Line!NULL => NextIs(line, temp, last_strtok, 1, t)
  BY <1>1, WordCall
<1>3. 1 + 1 = 2
  OBVIOUS
<1> HIDE DEF t
<1>4. WordArg(line, 2, t.mem, t.ret) /\ Taken(line, t.mem, t.last, 2)
  BY <1>2, <1>3, Zenon
<1>5. t.mem \in Line!Buffer(LineMaxCmd)
  BY <1>4 DEF Taken
<1>6. QED  BY <1>2, <1>4, <1>5 DEF t

(* A message that is not longer than its room ends the command.            *)
LEMMA SaysInRoom ==
  ASSUME NEW bytes \in Nat, bytes <= MsgRoom, NEW size, Line!Say(bytes, size)
  PROVE  line_pc' = "idle"
BY DEF Line!Say

LEMMA NameShort ==
  ASSUME CallInv, line_pc = "exec"
  PROVE  Short(argv[1].text)
<1>1. PICK a : argv = <<a>> /\ Short(a.text)
  BY Zenon DEF CallInv
<1>2. QED  BY <1>1

(* A handler that takes one word, whatever it says.                        *)
LEMMA WordHandler ==
  ASSUME CallInv, FieldInv,
         LET t == Line!Word(temp, last_strtok)
             b == Line!Arg("word", t.mem, t.ret)
         IN /\ Line!Return(t, <<b>>)
            /\ Short(b.text) => line_pc' = "idle"
  PROVE  CallInv'
<1> DEFINE t == Line!Word(temp, last_strtok)
           b == Line!Arg("word", t.mem, t.ret)
<1>1. Line!Return(t, <<b>>) /\ (Short(b.text) => line_pc' = "idle")
  OBVIOUS
<1>2. line_pc = "exec"
  BY <1>1 DEF Line!Return
<1>3. /\ WordArg(line, 2, t.mem, t.ret) /\ t.mem \in Line!Buffer(LineMaxCmd)
      /\ t.last \in {Line!NULL} \cup (1 .. LineMaxCmd - 1)
  BY <1>2, SecondWord
<1> HIDE DEF t
<1>4. ArgOK(line, 2, b) /\ Short(b.text)
  BY <1>3, WordArgOK
<1> HIDE DEF b
<1>5. QED  BY <1>1, <1>3, <1>4, HandlerReturns

LEMMA OneWordStep ==
  ASSUME CallInv, FieldInv, Line!one_word
  PROVE  CallInv' /\ FieldInv'
<1>1. CallInv'
  BY WordHandler DEF Line!one_word, Line!Silent
<1>2. QED  BY <1>1, FieldsKept DEF Line!one_word

(* touch and rm: what they say is as long as the word, or they say nothing.*)
LEMMA FileNameStep ==
  ASSUME CallInv, FieldInv, NEW done \in BOOLEAN, Line!touch(done) \/ Line!rm(done)
  PROVE  CallInv' /\ FieldInv'
<1> DEFINE t == Line!Word(temp, last_strtok)
           b == Line!Arg("word", t.mem, t.ret)
<1>1. /\ Line!Return(t, <<b>>) /\ UNCHANGED Line!fields
      /\ Line!Say(Created + Len(b.text) + 1, ShortMsgSize) \/ Line!Silent
  BY DEF Line!touch, Line!rm
<1>2. ASSUME Short(b.text)  PROVE line_pc' = "idle"
  <2> HIDE DEF b
  <2>1. Created + Len(b.text) + 1 \in Nat /\ Created + Len(b.text) + 1 <= MsgRoom
    BY <1>2, LineSizes, MessageSizes DEF Short
  <2>2. QED  BY <1>1, <2>1, SaysInRoom DEF Line!Silent
<1>3. CallInv'
  BY <1>1, <1>2, WordHandler
<1>4. QED  BY <1>1, <1>3, FieldsKept

(* No call of strtok: commands without arguments, and unknown ones.        *)
LEMMA NoWordStep ==
  ASSUME CallInv, FieldInv, Line!no_words \/ Line!unknown
  PROVE  CallInv' /\ FieldInv'
<1> DEFINE t == Line!Tok(Line!NULL, last_strtok, temp)
           name == Len(argv[1].text)
<1>1. /\ Line!Return(t, <<>>) /\ UNCHANGED Line!fields
      /\ Line!Say(Unrecognized + name + 1, MsgSize) \/ Line!Silent
  BY DEF Line!no_words, Line!unknown
<1>2. line_pc = "exec"
  BY <1>1 DEF Line!Return
<1>3. name \in Nat /\ name < LineMaxCmd
  BY <1>2, NameShort DEF Short
<1> HIDE DEF name
<1>4. Unrecognized + name + 1 \in Nat /\ Unrecognized + name + 1 <= MsgRoom
  BY <1>3, LineSizes, MessageSizes
<1>5. line_pc' = "idle"
  BY <1>1, <1>4, SaysInRoom DEF Line!Silent
<1>6. t.mem = temp /\ t.last = last_strtok
  BY TokFields
<1> HIDE DEF t
<1>7. t.mem \in Line!Buffer(LineMaxCmd) /\ t.last \in {Line!NULL} \cup (1 .. LineMaxCmd - 1)
  BY <1>6 DEF CallInv
<1>8. CallInv'
  BY <1>1, <1>5, <1>7, HandlerReturns
<1>9. QED  BY <1>1, <1>8, FieldsKept

LEMMA CdStep ==
  ASSUME CallInv, FieldInv, Line!cd
  PROVE  CallInv' /\ FieldInv'
<1> DEFINE t == Line!Word(temp, last_strtok)
           b == Line!Arg("word", t.mem, t.ret)
           dir == IF t.ret = Line!NULL THEN Line!Root ELSE Line!Text(t.mem, t.ret)
<1>1. /\ Line!Return(t, <<b>>) /\ line_pc' = "idle"
      /\ current_dir' = Line!strncpy(current_dir, dir, DirSize - 1) /\ cd_arg' = dir
      /\ UNCHANGED <<current_filename, name_arg>>
  BY DEF Line!cd, Line!Silent
<1>2. line_pc = "exec"
  BY <1>1 DEF Line!Return
<1>3. /\ WordArg(line, 2, t.mem, t.ret) /\ t.mem \in Line!Buffer(LineMaxCmd)
      /\ t.last \in {Line!NULL} \cup (1 .. LineMaxCmd - 1)
  BY <1>2, SecondWord
<1> HIDE DEF t
<1>4. ArgOK(line, 2, b)
  BY <1>3, WordArgOK
<1> HIDE DEF b
<1>5. CallInv'
  BY <1>1, <1>3, <1>4, HandlerReturns
<1>6. dir \in Seq(Line!Char)
  <2>1. Line!Root \in Seq(Line!Char)
    BY DEF Line!Root, Line!Char
  <2>2. QED  BY <1>3, <2>1 DEF WordArg
<1> HIDE DEF dir
<1>7. CopyInto(DirSize, dir, current_dir')
  BY <1>1, <1>6, LineSizes, CopyIsInto DEF FieldInv, Line!FieldsAreStrings
<1>8. FieldInv'
  <2>1. current_filename' = current_filename /\ name_arg' = name_arg
    BY <1>1
  <2>2. /\ Line!Text(current_filename', 0) = Line!Cut(name_arg', NameSize - 1)
        /\ current_filename'[NameSize - 1] = Line!NUL
    BY <2>1 DEF FieldInv, Line!FieldsAreStrings
  <2>3. Line!FieldsAreStrings'
    BY <1>1, <1>7, <2>2 DEF Line!FieldsAreStrings, CopyInto
  <2>4. QED  BY <1>1, <1>6, <1>7, <2>1, <2>2, <2>3 DEF FieldInv, CopyInto
<1>9. QED  BY <1>5, <1>8

LEMMA RestOfLine ==
  ASSUME NEW l \in Line!Lines, NEW m, NEW last, NEW k \in Nat, NEW kk, kk = k + 1, Taken(l, m, last, k)
  PROVE  /\ Line!Rest(m, last).mem = m /\ Line!Rest(m, last).last = Line!NULL
         /\ RestArg(l, kk, m, Line!SkipBlanks(m, Line!Rest(m, last).ret))
         /\ m \in Line!Buffer(LineMaxCmd)
<1>1. m \in Line!Buffer(LineMaxCmd)
  BY DEF Taken
<1>2. QED  BY <1>1, RestCall

LEMMA EchoStep ==
  ASSUME CallInv, FieldInv, Line!echo
  PROVE  CallInv' /\ FieldInv'
<1> DEFINE t == Line!Rest(temp, last_strtok)
           b == Line!Arg("rest", t.mem, Line!SkipBlanks(t.mem, t.ret))
<1>1. Line!Return(t, <<b>>) /\ line_pc' = "idle" /\ UNCHANGED Line!fields
  BY DEF Line!echo, Line!Silent
<1>2. line \in Line!Lines /\ Taken(line, temp, last_strtok, 1)
  BY <1>1 DEF Line!Return, CallInv
<1>3. 1 \in Nat /\ 2 = 1 + 1
  OBVIOUS
<1>4. /\ t.mem = temp /\ t.last = Line!NULL /\ t.mem \in Line!Buffer(LineMaxCmd)
      /\ RestArg(line, 2, temp, Line!SkipBlanks(temp, t.ret))
  BY <1>2, <1>3, RestOfLine
<1> HIDE DEF t
<1>5. ArgOK(line, 2, b)
  BY <1>4, RestArgOK
<1> HIDE DEF b
<1>6. t.last \in {Line!NULL} \cup (1 .. LineMaxCmd - 1)
  BY <1>4
<1>7. CallInv'
  BY <1>1, <1>4, <1>5, <1>6, HandlerReturns
<1>8. QED  BY <1>1, <1>7, FieldsKept

LEMMA LaunchStep ==
  ASSUME CallInv, FieldInv, NEW yano \in BOOLEAN, Line!launch(yano)
  PROVE  CallInv' /\ FieldInv'
<1> DEFINE t == Line!Rest(temp, last_strtok)
           p == Line!SkipBlanks(t.mem, t.ret)
           q == IF p # Line!NULL /\ Line!strlen(t.mem, p) = 0 THEN Line!NULL ELSE p
           b == Line!Arg("args", t.mem, q)
           name == Len(argv[1].text)
<1>1. /\ Line!Return(t, <<b>>) /\ name <= AppNameMax
      /\ \/ Line!Say(Launched + name + Len(b.text) + 1, MsgSize)
         \/ Line!Say(LaunchedAlone + name + 1, MsgSize)
      /\ IF yano THEN Line!yano_launch(b) ELSE UNCHANGED <<current_filename, name_arg>>
      /\ UNCHANGED <<current_dir, cd_arg>>
  BY DEF Line!launch
<1>2. line \in Line!Lines /\ Taken(line, temp, last_strtok, 1) /\ line_pc = "exec"
  BY <1>1 DEF Line!Return, CallInv
<1>3. 1 \in Nat /\ 2 = 1 + 1
  OBVIOUS
<1>4. /\ t.mem = temp /\ t.last = Line!NULL /\ t.mem \in Line!Buffer(LineMaxCmd)
      /\ RestArg(line, 2, temp, Line!SkipBlanks(temp, t.ret))
  BY <1>2, <1>3, RestOfLine
<1> HIDE DEF t
<1>5. RestArg(line, 2, t.mem, p)
  BY <1>4
<1> HIDE DEF p
<1>6. ArgOK(line, 2, b) /\ b.text \in Seq(Line!Char) /\ Short(b.text)
  BY <1>5, RestArgOK
<1> HIDE DEF q, b
<1>7. t.last \in {Line!NULL} \cup (1 .. LineMaxCmd - 1)
  BY <1>4
<1>8. line_pc' = "idle"
  <2>1. name \in Nat /\ name <= AppNameMax
    BY <1>1, <1>2, NameShort DEF Short
  <2> DEFINE n == Len(b.text)
  <2>2. n \in Nat /\ n < LineMaxCmd
    BY <1>6 DEF Short
  <2> HIDE DEF name, n
  <2>3. /\ Launched + name + n + 1 \in Nat /\ Launched + name + n + 1 <= MsgRoom
        /\ LaunchedAlone + name + 1 \in Nat /\ LaunchedAlone + name + 1 <= MsgRoom
    BY <2>1, <2>2, LineSizes, MessageSizes
  <2>4. /\ Launched + name + Len(b.text) + 1 \in Nat /\ Launched + name + Len(b.text) + 1 <= MsgRoom
        /\ LaunchedAlone + name + 1 \in Nat /\ LaunchedAlone + name + 1 <= MsgRoom
    BY <2>3 DEF n
  <2>5. QED  BY <1>1, <2>4, SaysInRoom
<1>9. CallInv'
  BY <1>1, <1>4, <1>6, <1>7, <1>8, HandlerReturns
<1>10. CASE ~yano
  <2>1. UNCHANGED Line!fields
    BY <1>1, <1>10 DEF Line!fields
  <2>2. QED  BY <1>9, <2>1, FieldsKept
<1>11. CASE yano
  <2> DEFINE src == IF b.given THEN b.text ELSE NewTxt
  <2>1. /\ src \in Seq(Line!Char) /\ name_arg' = src
        /\ \/ current_filename' = Line!strncpy(current_filename, src, NameSize - 1)
           \/ current_filename' =
                [Line!strncpy(current_filename, src, NameSize - 1) EXCEPT ![NameSize - 1] = Line!NUL]
        /\ current_dir' = current_dir /\ cd_arg' = cd_arg
    BY <1>1, <1>6, <1>11, NameIsText DEF Line!yano_launch
  <2> HIDE DEF src
  <2>2. CopyInto(NameSize, src, current_filename')
    BY <2>1, LineSizes, CopyIsInto DEF FieldInv
  <2>3. Line!Text(current_dir', 0) = Line!Cut(cd_arg', DirSize - 1) /\ current_dir'[DirSize - 1] = Line!NUL
    BY <2>1 DEF FieldInv, Line!FieldsAreStrings
  <2>4. Line!FieldsAreStrings'
    BY <2>1, <2>2, <2>3 DEF Line!FieldsAreStrings, CopyInto
  <2>5. FieldInv'
    BY <2>1, <2>2, <2>4 DEF FieldInv, CopyInto
  <2>6. QED  BY <1>9, <2>5
<1>12. QED  BY <1>10, <1>11

LEMMA WriteStep ==
  ASSUME CallInv, FieldInv, Line!write
  PROVE  CallInv' /\ FieldInv'
<1> DEFINE t == Line!Word(temp, last_strtok)
           u == Line!Rest(t.mem, t.last)
           b == Line!Arg("word", u.mem, t.ret)
           c == Line!Arg("rest", u.mem, Line!SkipBlanks(u.mem, u.ret))
<1>1. Line!Return(u, <<b, c>>) /\ line_pc' = "idle" /\ UNCHANGED Line!fields
  BY DEF Line!write, Line!Silent
<1>2. line \in Line!Lines /\ line_pc = "exec"
  BY <1>1 DEF Line!Return, CallInv
<1>3. WordArg(line, 2, t.mem, t.ret) /\ Taken(line, t.mem, t.last, 2)
  BY <1>2, SecondWord
<1> HIDE DEF t
<1>4. 2 \in Nat /\ 3 = 2 + 1
  OBVIOUS
<1>5. /\ u.mem = t.mem /\ u.last = Line!NULL /\ u.mem \in Line!Buffer(LineMaxCmd)
      /\ RestArg(line, 3, t.mem, Line!SkipBlanks(t.mem, u.ret))
  BY <1>2, <1>3, <1>4, RestOfLine
<1> HIDE DEF u
<1>6. ArgOK(line, 2, b)
  BY <1>3, <1>5, WordArgOK
<1>7. ArgOK(line, 3, c)
  BY <1>5, RestArgOK
<1> HIDE DEF b, c
<1>8. u.last \in {Line!NULL} \cup (1 .. LineMaxCmd - 1)
  BY <1>5
<1>9. CallInv'
  BY <1>1, <1>5, <1>6, <1>7, <1>8, HandlerReturns
<1>10. QED  BY <1>1, <1>9, FieldsKept

LEMMA CpStep ==
  ASSUME CallInv, FieldInv, Line!cp
  PROVE  CallInv' /\ FieldInv'
<1> DEFINE t == Line!Word(temp, last_strtok)
           u == Line!Word(t.mem, t.last)
           b == Line!Arg("word", u.mem, t.ret)
           c == Line!Arg("word", u.mem, u.ret)
<1>1. Line!Return(u, <<b, c>>) /\ line_pc' = "idle" /\ UNCHANGED Line!fields
  BY DEF Line!cp, Line!Silent
<1>2. line \in Line!Lines /\ line_pc = "exec"
  BY <1>1 DEF Line!Return, CallInv
<1>3. /\ WordArg(line, 2, t.mem, t.ret) /\ Taken(line, t.mem, t.last, 2)
      /\ t.mem \in Line!Buffer(LineMaxCmd)
      /\ last_strtok = Line!NULL => t.mem = temp /\ t.ret = Line!NULL /\ t.last = Line!NULL
      /\ last_strtok # Line!NULL => NextIs(line, temp, last_strtok, 1, t)
  BY <1>2, SecondWord
<1> HIDE DEF t
<1>4. /\ WordArg(line, 2 + 1, u.mem, u.ret) /\ Taken(line, u.mem, u.last, 2 + 1)
      /\ u.last \in {Line!NULL} \cup (1 .. LineMaxCmd - 1)
      /\ t.last = Line!NULL => u.mem = t.mem
      /\ t.last # Line!NULL => NextIs(line, t.mem, t.last, 2, u)
  BY <1>2, <1>3, WordCall
<1> HIDE DEF u
<1>5. 2 + 1 = 3
  OBVIOUS
<1>6. WordArg(line, 3, u.mem, u.ret) /\ u.mem \in Line!Buffer(LineMaxCmd)
  BY <1>4, <1>5, Zenon DEF Taken
<1>7. t.ret = Line!NULL \/ Line!Text(u.mem, t.ret) = Line!Text(t.mem, t.ret)
  <2>1. SUFFICES ASSUME t.ret # Line!NULL, u.mem # t.mem
                 PROVE  Line!Text(u.mem, t.ret) = Line!Text(t.mem, t.ret)
    OBVIOUS
  <2>2. t.last # Line!NULL /\ NextIs(line, t.mem, t.last, 2, u)
    BY <1>4, <2>1
  <2>3. \A j \in 0 .. t.last - 1 : u.mem[j] = t.mem[j]
    BY <2>1, <2>2, Zenon DEF NextIs
  <2>4. NextIs(line, temp, last_strtok, 1, t)
    BY <1>3, <2>1
  <2>5. /\ t.ret \in Nat /\ t.last \in 1 .. LineMaxCmd - 1
        /\ \E e \in t.ret .. t.last - 1 : t.mem[e] = Line!NUL
    BY <2>1, <2>2, <2>4, Zenon DEF NextIs
  <2>6. QED  BY <1>3, <1>6, <2>3, <2>5, TextKept
<1>8. ArgOK(line, 2, b)
  <2>1. WordArg(line, 2, u.mem, t.ret)
    <3>1. CASE t.ret = Line!NULL
      <4>1. t.ret \notin Nat
        BY <3>1 DEF Line!NULL
      <4>2. QED  BY <1>3, <3>1, <4>1, Zenon DEF WordArg
    <3>2. CASE t.ret # Line!NULL
      BY <1>3, <1>7, <3>2 DEF WordArg
    <3>3. QED  BY <3>1, <3>2
  <2>2. QED  BY <2>1, WordArgOK
<1>9. ArgOK(line, 3, c)
  BY <1>6, WordArgOK
<1> HIDE DEF b, c
<1>10. CallInv'
  BY <1>1, <1>4, <1>6, <1>8, <1>9, HandlerReturns
<1>11. QED  BY <1>1, <1>10, FieldsKept

(* A command gets the words and the rest of the line typed last, nothing   *)
(* of an earlier one, although strtok's pointer outlives its buffer; the   *)
(* directory and the name that arguments are copied into stay terminated   *)
(* strings and hold the last argument, cut to their size; and no message   *)
(* with an argument in it, however long, reaches what is still used.       *)
THEOREM ArgumentsAlwaysArrive == MCSpec => []ArgumentsArrive
<1>1. MCInit => CallInv /\ FieldInv
  BY LineInit
<1>2. CallInv /\ FieldInv /\ [Line!Next]_(Line!vars) => CallInv' /\ FieldInv'
  <2>1. SUFFICES ASSUME CallInv, FieldInv, [Line!Next]_(Line!vars)  PROVE CallInv' /\ FieldInv'
    OBVIOUS
  <2>2. CASE UNCHANGED Line!vars
    <3>1. UNCHANGED Line!fields
      BY <2>2 DEF Line!vars
    <3>2. /\ temp' = temp /\ last_strtok' = last_strtok /\ line_pc' = line_pc
          /\ line' = line /\ argv' = argv
      BY <2>2 DEF Line!vars
    <3>3. CallInv'
      BY <2>1, <3>2 DEF CallInv, Line!ArgumentsAreWords
    <3>4. QED  BY <2>1, <3>1, <3>3, FieldsKept
  <2>3. CASE \E l \in Line!Lines : Line!exec_command(l)
    BY <2>1, <2>3, ExecStep
  <2>4. CASE \E yano \in BOOLEAN : Line!launch(yano)
    BY <2>1, <2>4, LaunchStep
  <2>5. CASE Line!one_word   BY <2>1, <2>5, OneWordStep
  <2>6. CASE Line!cd         BY <2>1, <2>6, CdStep
  <2>7. CASE Line!echo       BY <2>1, <2>7, EchoStep
  <2>8. CASE Line!write      BY <2>1, <2>8, WriteStep
  <2>9. CASE Line!cp         BY <2>1, <2>9, CpStep
  <2>10. CASE \E done \in BOOLEAN : Line!touch(done) \/ Line!rm(done)
    BY <2>1, <2>10, FileNameStep
  <2>11. CASE Line!no_words \/ Line!unknown
    BY <2>1, <2>11, NoWordStep
  <2>12. QED
    BY <2>1, <2>2, <2>3, <2>4, <2>5, <2>6, <2>7, <2>8, <2>9, <2>10, <2>11 DEF Line!Next
<1>3. CallInv /\ FieldInv => ArgumentsArrive
  BY DEF CallInv, FieldInv, ArgumentsArrive, Line!TypeOK
<1>4. QED  BY <1>1, <1>2, <1>3, PartSteps, PTL DEF MCSpec
=============================================================================
