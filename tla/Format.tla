------------------------------- MODULE Format -------------------------------
(***************************************************************************)
(* xsprintf of kernel/string.c, which builds every line the system prints. *)
(* A format is a sequence of items: an ordinary character, or a conversion *)
(* with its flags '-' and '0', its width and its letter; one item is one   *)
(* step.  A number is below 2^31, as the sizes and counts are that the     *)
(* callers print; numbers are printed digit by digit, the digit 0 to 9     *)
(* standing for its own character.                                         *)
(***************************************************************************)
EXTENDS Integers, Sequences, FiniteSets

CONSTANTS Numbers, Strings   \* values that are printed

INT_MAX == 2147483647

Char == 0 .. 30
ValuesOK == Numbers \subseteq 0 .. INT_MAX /\ Strings \subseteq Seq(Char)

BLANK == 10
PERCENT == 11
Letter == [s |-> 12, d |-> 13, c |-> 14, x |-> 15, percent |-> PERCENT]

(* The calls: the formats of the callers, with narrower columns.           *)
Conv(letter, left, zero, w) ==
  [conv |-> letter, align_left |-> left, pad_zero |-> zero, width |-> w, char |-> 0]
Plain == [conv |-> "none", align_left |-> FALSE, pad_zero |-> FALSE, width |-> 0, char |-> BLANK]
ps == Conv("s", FALSE, FALSE, 0)
pd == Conv("d", FALSE, FALSE, 0)
TaskRow == <<Plain, Conv("d", FALSE, FALSE, 2), Conv("s", TRUE, FALSE, 2),
             Conv("c", FALSE, FALSE, 0), Conv("d", FALSE, FALSE, 3), ps>>
Uptime == <<pd, Plain, Conv("d", FALSE, TRUE, 3)>>
Usage == <<pd, Conv("percent", FALSE, FALSE, 0)>>
PciRow == <<pd, Plain, Conv("x", FALSE, FALSE, 0)>>
Offset == <<Conv("x", FALSE, TRUE, 3), Plain>>

Calls ==
  [format : {TaskRow}, args : Numbers \X Strings \X {Letter.c} \X Numbers \X Strings]
  \cup [format : {Uptime, PciRow}, args : Numbers \X Numbers]
  \cup [format : {Usage, Offset}, args : {<<n>> : n \in Numbers}]

VARIABLES
  call,      \* the call that runs
  format,    \* what is left of its format
  args,      \* what is left of its arguments
  str        \* what is written so far

vars == <<call, format, args, str>>

Init ==
  /\ call \in Calls
  /\ format = call.format /\ args = call.args
  /\ str = <<>>
-----------------------------------------------------------------------------
Times(n, c) == [k \in 1 .. n |-> c]    \* while (pad--), nothing for a negative pad
Item == Head(format)

(* num_buf, filled from the last digit and copied backwards.               *)
Digits[val \in 0 .. INT_MAX] ==
  IF val < 10 THEN <<val>> ELSE Append(Digits[val \div 10], val % 10)

Digits_NoZero(val) == IF val = 0 THEN <<>> ELSE Digits[val]

Converts(letter) == format # <<>> /\ Item.conv = letter

(* va_arg: the conversion takes its argument.                              *)
Puts(text) ==
  /\ str' = str \o text
  /\ args' = Tail(args)
  /\ format' = Tail(format)
  /\ UNCHANGED call

ordinary ==
  /\ Converts("none")
  /\ str' = Append(str, Item.char)
  /\ format' = Tail(format)
  /\ UNCHANGED <<call, args>>

percent_s ==
  /\ Converts("s")
  /\ LET s == Head(args)
         pad == Times(Item.width - Len(s), BLANK)
     IN Puts(IF Item.align_left THEN s \o pad ELSE pad \o s)

percent_d_NoZero ==
  /\ Converts("d")
  /\ LET num_buf == Digits_NoZero(Head(args))
     IN Puts(Times(Item.width - Len(num_buf), IF Item.pad_zero THEN 0 ELSE BLANK) \o num_buf)

percent_d ==
  /\ Converts("d")
  /\ LET num_buf == Digits[Head(args)]
     IN Puts(Times(Item.width - Len(num_buf), IF Item.pad_zero THEN 0 ELSE BLANK) \o num_buf)

percent_c ==
  /\ Converts("c")
  /\ Puts(<<Head(args)>>)

(* Any other letter is copied behind a '%', and no argument is taken.      *)
percent_other ==
  /\ format # <<>> /\ Item.conv \notin {"none", "s", "d", "c"}
  /\ str' = str \o <<PERCENT, Letter[Item.conv]>>
  /\ format' = Tail(format)
  /\ UNCHANGED <<call, args>>

(* The next call of a program that goes on printing.                       *)
return ==
  /\ format = <<>>
  /\ call' \in Calls
  /\ format' = call'.format /\ args' = call'.args
  /\ str' = <<>>

Next == ordinary \/ percent_s \/ percent_d \/ percent_c \/ percent_other \/ return
Spec == Init /\ [][Next]_vars
-----------------------------------------------------------------------------
(* What the C standard says of the same items: x prints in base 16 and     *)
(* takes an argument, %% prints one '%'.                                   *)
HexDigit(n) == IF n < 10 THEN n ELSE Letter.x + n
HexDigits[val \in 0 .. INT_MAX] ==
  IF val < 16 THEN <<HexDigit(val)>> ELSE Append(HexDigits[val \div 16], HexDigit(val % 16))
Field(item, text) ==
  LET pad == Times(item.width - Len(text), IF item.pad_zero /\ ~item.align_left THEN 0 ELSE BLANK)
  IN IF item.align_left THEN text \o pad ELSE pad \o text
Takes(item) == item.conv \in {"s", "d", "c", "x"}
Standard(item, arg) ==
  CASE item.conv = "none" -> <<item.char>>
    [] item.conv = "percent" -> <<PERCENT>>
    [] item.conv = "s" -> Field(item, arg)
    [] item.conv = "d" -> Field(item, Digits[arg])
    [] item.conv = "x" -> Field(item, HexDigits[arg])
    [] item.conv = "c" -> Field(item, <<arg>>)

(* Item k takes the argument behind those of the items before it.         *)
ArgOf(c, k) ==
  IF Takes(c.format[k]) THEN c.args[Cardinality({j \in 1 .. k : Takes(c.format[j])})] ELSE 0
Written(c) ==
  LET Text[k \in 0 .. Len(c.format)] ==
        IF k = 0 THEN <<>> ELSE Text[k - 1] \o Standard(c.format[k], ArgOf(c, k))
  IN  Text
SprintfOf(c) == Written(c)[Len(c.format)]

(* Every conversion finds an argument, and only characters are written.    *)
TypeOK ==
  /\ call \in Calls
  /\ format # <<>> /\ Item.conv \in {"s", "d", "c"} => args # <<>>
  /\ \A k \in DOMAIN str : str[k] \in Char

(* Columns: a call whose conversions are s, d and c writes what C's        *)
(* sprintf writes, for values narrower than, as wide as and wider than     *)
(* their column, zero included.                                            *)
Supported(c) == \A k \in DOMAIN c.format : c.format[k].conv \in {"none", "s", "d", "c"}
WritesColumns ==
  format = <<>> /\ Supported(call) => str = SprintfOf(call)

(* Every call in the system writes what C does.                            *)
(* Does not hold: README, section 5.                                       *)
WritesAsC ==
  format = <<>> => str = SprintfOf(call)
=============================================================================
