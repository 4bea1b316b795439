------------------------------ MODULE KeyInput ------------------------------
(***************************************************************************)
(* A key on its way to an application: irq1_handler leaves it in last_key, *)
(* a mailbox for one character, and each pass of the desktop loop empties  *)
(* that up to twice, first for the task switcher while Alt is down, later  *)
(* for the active application.  Modifiers are not stored with the key: the *)
(* loop samples Alt at the start of its pass, the editor reads Ctrl when   *)
(* it handles the key.                                                     *)
(*                                                                         *)
(* A key is known by its number in the order of pressing, 0 is the empty   *)
(* mailbox; a key that has no character, such as F1 or NumLock, leaves the *)
(* mailbox empty.  ps2_get_last_key is a load and a store, two             *)
(* instructions in drivers/ps2.o.  The keyboard's bytes are in Ps2, the    *)
(* windows in WindowManager, what the editor does in FileApps.             *)
(***************************************************************************)
EXTENDS Integers, Sequences

CONSTANTS Chars,     \* characters that are typed, Tab among them
          Tab,
          NoChar,    \* what the table has for a key without a character: 0
          MaxKeys    \* bound: keys that are pressed

SizesOK == Tab \in Chars /\ NoChar \notin Chars /\ MaxKeys \in Nat

VARIABLES
  last_key, alt_pressed, ctrl_pressed,
  pc,        \* where the pass is: "alt", "alt_read", "alt_clear", "read", "clear", "handle", "draw"
  key,       \* what ps2_get_last_key has loaded
  task_switcher_visible,
  typed,     \* history: the keys pressed, in order, with the modifiers of that moment
  taken      \* history: the keys the loop took, in order, for whom, with Ctrl as it was then
             \* and whether the switcher was shown and Alt down

modifiers == <<alt_pressed, ctrl_pressed>>
vars == <<last_key, modifiers, pc, key, task_switcher_visible, typed, taken>>

Init ==
  /\ last_key = 0 /\ alt_pressed = FALSE /\ ctrl_pressed = FALSE
  /\ pc = "alt"
  /\ key = 0
  /\ task_switcher_visible = FALSE
  /\ typed = <<>> /\ taken = <<>>
-----------------------------------------------------------------------------
(* handle_kbd, in the interrupt handler: what the table has for the key is *)
(* stored whatever it is.                                                  *)
Pressed == Chars \cup {NoChar}

key_typed(c) ==
  /\ Len(typed) < MaxKeys
  /\ typed' = Append(typed, [char |-> c, alt |-> alt_pressed, ctrl |-> ctrl_pressed])
  /\ last_key' = IF c = NoChar THEN 0 ELSE Len(typed) + 1
  /\ UNCHANGED <<modifiers, pc, key, task_switcher_visible, taken>>

alt_key ==
  /\ alt_pressed' = ~alt_pressed
  /\ UNCHANGED <<last_key, ctrl_pressed, pc, key, task_switcher_visible, typed, taken>>

ctrl_key ==
  /\ ctrl_pressed' = ~ctrl_pressed
  /\ UNCHANGED <<last_key, alt_pressed, pc, key, task_switcher_visible, typed, taken>>
-----------------------------------------------------------------------------
(* One pass of shell_loop.  Between the switcher and the dispatcher it     *)
(* handles clicks (Desktop), which leave the mailbox alone.                *)
sample_alt ==
  /\ pc = "alt"
  /\ task_switcher_visible' = alt_pressed
  /\ pc' = IF alt_pressed THEN "alt_read" ELSE "read"
  /\ UNCHANGED <<last_key, modifiers, key, typed, taken>>

ps2_get_last_key_read ==
  /\ pc \in {"alt_read", "read"}
  /\ key' = last_key
  /\ pc' = IF pc = "read" THEN "clear" ELSE "alt_clear"
  /\ UNCHANGED <<last_key, modifiers, task_switcher_visible, typed, taken>>

Took(whom) ==
  IF key = 0 THEN taken
  ELSE Append(taken, [key |-> key, by |-> whom, ctrl |-> ctrl_pressed,
                      switching |-> alt_pressed /\ task_switcher_visible])

switcher_NoClear ==
  /\ pc = "alt_clear"
  /\ taken' = Took(IF key # 0 /\ typed[key].char = Tab THEN "switcher" ELSE "nobody")
  /\ pc' = "read"
  /\ UNCHANGED <<last_key, modifiers, key, task_switcher_visible, typed>>

(* The mailbox is emptied; Tab cycles the windows, other keys are dropped. *)
switcher ==
  /\ pc = "alt_clear"
  /\ last_key' = 0
  /\ taken' = Took(IF key # 0 /\ typed[key].char = Tab THEN "switcher" ELSE "nobody")
  /\ pc' = "read"
  /\ UNCHANGED <<modifiers, key, task_switcher_visible, typed>>

ps2_get_last_key_clear ==
  /\ pc = "clear"
  /\ last_key' = 0
  /\ pc' = "handle"
  /\ UNCHANGED <<modifiers, key, task_switcher_visible, typed, taken>>

(* The active window's application, if there is one, handles the key.      *)
dispatch(open) ==
  /\ pc = "handle"
  /\ taken' = Took(IF open THEN "app" ELSE "nobody")
  /\ pc' = "draw"
  /\ UNCHANGED <<last_key, modifiers, key, task_switcher_visible, typed>>

draw_Flushes ==
  /\ pc = "draw"
  /\ pc' = "alt"
  /\ last_key' = 0
  /\ UNCHANGED <<modifiers, key, task_switcher_visible, typed, taken>>

draw ==
  /\ pc = "draw"
  /\ pc' = "alt"
  /\ UNCHANGED <<last_key, modifiers, key, task_switcher_visible, typed, taken>>

Interrupts == alt_key \/ ctrl_key \/ \E c \in Pressed : key_typed(c)

Pass ==
  \/ sample_alt \/ ps2_get_last_key_read \/ switcher \/ ps2_get_last_key_clear
  \/ \E open \in BOOLEAN : dispatch(open)
  \/ draw

Next == Interrupts \/ Pass

Spec == Init /\ [][Next]_vars

(* The loop is the only thread and every handler returns to it.            *)
FairSpec == Spec /\ WF_vars(Pass)
-----------------------------------------------------------------------------
(* Properties.                                                             *)

(* Type correctness: the mailbox and the register hold keys that were      *)
(* typed, or none.                                                         *)
TypeOK ==
  /\ last_key \in 0 .. Len(typed) /\ key \in 0 .. Len(typed)
  /\ alt_pressed \in BOOLEAN /\ ctrl_pressed \in BOOLEAN /\ task_switcher_visible \in BOOLEAN
  /\ pc \in {"alt", "alt_read", "alt_clear", "read", "clear", "handle", "draw"}
  /\ typed \in Seq([char : Pressed, alt : BOOLEAN, ctrl : BOOLEAN])
  /\ taken \in Seq([key : 1 .. Len(typed), by : {"app", "switcher", "nobody"},
                    ctrl : BOOLEAN, switching : BOOLEAN])

(* No key acts twice and none overtakes another: what the switcher and the *)
(* applications take are the typed keys in order, some left out.           *)
TakenOnceInOrder ==
  \A i \in 1 .. Len(taken) : \A j \in 1 .. Len(taken) : i < j => taken[i].key < taken[j].key

(* A key that is in the mailbox while the loop is not just emptying it is  *)
(* taken in the end, or another key was pressed after it, which takes its  *)
(* place or, without a character, empties the mailbox.                     *)
IsTaken(n) == \E i \in 1 .. Len(taken) : taken[i].key = n
KeyReachesLoop ==
  \A n \in 1 .. MaxKeys :
    last_key = n /\ pc \notin {"alt_clear", "clear"} ~> IsTaken(n) \/ Len(typed) > n

(* "last_key = 0; // Clear it after reading": only ps2_get_last_key        *)
(* empties the mailbox.                                                    *)
(* Does not hold: README, section 5.                                       *)
OnlyReadersEmpty == [][last_key # 0 /\ last_key' = 0 => pc \in {"alt_clear", "clear"}]_vars

(* "Clear it after reading": what ps2_get_last_key clears is the key it    *)
(* has read.                                                               *)
(* Does not hold: README, section 5.                                       *)
ClearsWhatItRead == pc \in {"alt_clear", "clear"} => last_key = key

(* "wm_cycle_depth works well for Alt+Tab": a Tab typed with Alt down does *)
(* not go to the application while the switcher is shown and Alt is down.  *)
(* Does not hold: README, section 5.                                       *)
AltTabSwitches ==
  \A i \in 1 .. Len(taken) :
    taken[i].by = "app" /\ taken[i].switching =>
      ~(typed[taken[i].key].char = Tab /\ typed[taken[i].key].alt)

(* "Ctrl+S to Save, Ctrl+X to Exit.": the application sees Ctrl as it was  *)
(* when the key was typed.                                                 *)
(* Does not hold: README, section 5.                                       *)
CtrlAsTyped ==
  \A i \in 1 .. Len(taken) : taken[i].by = "app" => taken[i].ctrl = typed[taken[i].key].ctrl
=============================================================================
