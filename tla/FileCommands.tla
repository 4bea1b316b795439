---------------------------- MODULE FileCommands ----------------------------
(***************************************************************************)
(* The two commands of apps/terminal/terminal.c that read a file byte by   *)
(* byte: cat, which cuts it into lines for the history, and wc, which      *)
(* counts its lines and words.  One iteration of a loop is one step.       *)
(***************************************************************************)
EXTENDS Integers, SequencesExt

CONSTANTS NL, BLANK,   \* '\n', and the other characters between words
          Letters,
          MaxSize,     \* bound: bytes of a file
          CatMax,      \* bytes that cat shows: 2048
          LineMax,     \* characters of a line that cat collects: 120
          BufSize      \* bytes of line_buf: 128

SizesOK == {MaxSize, CatMax, LineMax, BufSize} \subseteq Nat /\ LineMax < BufSize
Distinct == NL # BLANK /\ {NL, BLANK} \cap Letters = {}

VARIABLES
  data,        \* the file, which no command changes meanwhile
  pc,          \* the command that runs, or at the prompt the one that ran last
  i,           \* bytes read
  line_buf,    \* its first li characters
  printed,     \* the lines printed by the last cat
  lines, words, in_word

catVars == <<line_buf, printed>>
wcVars == <<lines, words, in_word>>
vars == <<data, pc, i, catVars, wcVars>>

Byte == Letters \cup {NL, BLANK}
Files == UNION {[1 .. n -> Byte] : n \in 0 .. MaxSize}

AtPrompt == {"prompt", "cat_done", "wc_done"}

Init ==
  /\ data \in Files
  /\ pc = "prompt" /\ i = 0
  /\ line_buf = <<>> /\ printed = <<>>
  /\ lines = 0 /\ words = 0 /\ in_word = FALSE
-----------------------------------------------------------------------------
cat ==
  /\ pc \in AtPrompt
  /\ pc' = "cat" /\ i' = 0
  /\ line_buf' = <<>> /\ printed' = <<>>
  /\ UNCHANGED <<data, wcVars>>

Shown == IF Len(data) < CatMax THEN Len(data) ELSE CatMax

cat_byte ==
  /\ pc = "cat" /\ i < Shown
  /\ i' = i + 1
  /\ IF data[i + 1] = NL \/ Len(line_buf) >= LineMax
     THEN printed' = Append(printed, line_buf) /\ line_buf' = <<>>
     ELSE line_buf' = Append(line_buf, data[i + 1]) /\ UNCHANGED printed
  /\ UNCHANGED <<data, pc, wcVars>>

cat_end_DropsLast ==
  /\ pc = "cat" /\ i = Shown
  /\ pc' = "cat_done"
  /\ UNCHANGED <<data, i, catVars, wcVars>>

cat_end ==
  /\ pc = "cat" /\ i = Shown
  /\ pc' = "cat_done"
  /\ printed' = IF line_buf # <<>> THEN Append(printed, line_buf) ELSE printed
  /\ UNCHANGED <<data, i, line_buf, wcVars>>

wc ==
  /\ pc \in AtPrompt
  /\ pc' = "wc" /\ i' = 0
  /\ lines' = 0 /\ words' = 0 /\ in_word' = FALSE
  /\ UNCHANGED <<data, catVars>>

wc_byte ==
  /\ pc = "wc" /\ i < Len(data)
  /\ i' = i + 1
  /\ LET c == data[i + 1]
     IN /\ lines' = IF c = NL THEN lines + 1 ELSE lines
        /\ in_word' = (c \notin {BLANK, NL})
        /\ words' = IF c \notin {BLANK, NL} /\ ~in_word THEN words + 1 ELSE words
  /\ UNCHANGED <<data, pc, catVars>>

wc_end ==
  /\ pc = "wc" /\ i = Len(data)
  /\ pc' = "wc_done"
  /\ UNCHANGED <<data, i, catVars, wcVars>>

Next == cat \/ cat_byte \/ cat_end \/ wc \/ wc_byte \/ wc_end
Spec == Init /\ [][Next]_vars
-----------------------------------------------------------------------------
(* What is collected of a line, and the zero behind it, fit line_buf, and  *)
(* so does every line handed to the history.                               *)
TypeOK ==
  /\ data \in Files
  /\ pc \in AtPrompt \cup {"cat", "wc"}
  /\ i \in 0 .. MaxSize
  /\ in_word \in BOOLEAN
  /\ \A l \in {line_buf} \cup ToSet(printed) : l \in Seq(Byte) /\ Len(l) < BufSize

(* The part of the file that cat has gone through.                         *)
Read == SubSeq(data, 1, i)

(* While no line is longer than cat's limit, the printed lines and what is *)
(* collected are the text read so far, line by line: no line is lost or    *)
(* merged, empty lines and a last line without newline included.  What is *)
(* left out behind CatMax is left out at the end.                          *)
HasLongLine(text) == \E from, to \in 1 .. Len(text) :
  to - from = LineMax /\ \A k \in from .. to : text[k] # NL
CatPrintsLines ==
  LET Ended == FlattenSeq([k \in DOMAIN printed |-> Append(printed[k], NL)])
  IN ~HasLongLine(Read) =>
       /\ pc = "cat" => Ended \o line_buf = Read
       /\ pc = "cat_done" => Ended \in {Read, Append(Read, NL)}

(* wc counts a word where a letter follows a blank, a newline or nothing,  *)
(* and a line for each newline, at every point of its loop.                *)
WcCounts ==
  pc = "wc" =>
    /\ words = Cardinality({k \in 1 .. i : data[k] \in Letters /\ (k = 1 \/ data[k - 1] \notin Letters)})
    /\ lines = Cardinality({k \in 1 .. i : data[k] = NL})

(* The characters of the lines cat prints are those of the file.           *)
(* Does not hold: README, section 5.                                       *)
CatShowsContents ==
  pc = "cat" => FlattenSeq(printed) \o line_buf = SelectSeq(Read, LAMBDA c : c # NL)
=============================================================================
