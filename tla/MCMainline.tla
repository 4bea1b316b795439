----------------------------- MODULE MCMainline -----------------------------
(***************************************************************************)
(* Four walks of the mainline over state that changes under it: the task   *)
(* list and sleep() with the timer's ticks (Scheduler), the date and the   *)
(* running clock (Rtc), the figures of htop and System Info and the        *)
(* timer's handler (Monitor), the keys and the keyboard's handler          *)
(* (KeyInput).  They share no variable, so a behaviour is one of one walk. *)
(***************************************************************************)
EXTENDS Scheduler, Sequences

CONSTANTS Shown, Modes, Gap,             \* of Rtc
          TicksPerSecond, MaxTicks,      \* of Monitor
          Chars, Tab, NoChar, MaxKeys,   \* of KeyInput
          Walks                          \* the walks of this instance

VARIABLES
  walk,
  mode, now, updating, quiet, rtc_pc, field, last, cur, result, seen,
  kernel_ticks, idle_ticks, scheduled, htop_pc, total, idle, cpu_usage, s, ms, began, shown,
  last_key, alt_pressed, ctrl_pressed, loop_pc, key, task_switcher_visible, typed, taken

clockVars == <<mode, now, updating, quiet, rtc_pc, field, last, cur, result, seen>>
figureVars == <<kernel_ticks, idle_ticks, scheduled, htop_pc, total, idle, cpu_usage, s, ms, began, shown>>
keyVars == <<last_key, alt_pressed, ctrl_pressed, loop_pc, key, task_switcher_visible, typed, taken>>
mcVars == <<walk, vars, clockVars, figureVars, keyVars>>

(* A clock with few values per field: single and double digits, both ends  *)
(* of the day and both sides of noon, and carries into the next day.       *)
FewTimes == <<<<9, 59>>, <<10>>, <<0, 12, 23>>, <<1, 31>>, <<12>>, <<26>>>>
AllModes == [binary : BOOLEAN, h24 : BOOLEAN]

Clock == INSTANCE Rtc WITH pc <- rtc_pc
Figures == INSTANCE Monitor WITH Second <- TicksPerSecond, pc <- htop_pc
Keys == INSTANCE KeyInput WITH pc <- loop_pc

ASSUME WalksAssumption == Walks \subseteq {"tasks", "clock", "figures", "keys"}
ASSUME ClockAssumption == Clock!FieldsShown /\ Clock!RegisterModes /\ Clock!SecondIsLong
ASSUME FiguresAssumption == Figures!SizesOK
ASSUME KeysAssumption == Keys!SizesOK

MCInit ==
  /\ walk \in Walks
  /\ walk # "clock" => mode = CHOOSE m \in Modes : TRUE
  /\ Init /\ Clock!Init /\ Figures!Init /\ Keys!Init

RestOfTasks == walk = "tasks" /\ UNCHANGED <<walk, clockVars, figureVars, keyVars>>
RestOfClock == walk = "clock" /\ UNCHANGED <<walk, vars, figureVars, keyVars>>
RestOfFigures == walk = "figures" /\ UNCHANGED <<walk, vars, clockVars, keyVars>>
RestOfKeys == walk = "keys" /\ UNCHANGED <<walk, vars, clockVars, figureVars>>

MCNext ==
  \/ RestOfTasks /\ Next
  \/ RestOfClock /\ Clock!Next
  \/ RestOfFigures /\ Figures!Next
  \/ RestOfKeys /\ Keys!Next

MCSpec == MCInit /\ [][MCNext]_mcVars

(* The mainline goes on, since it is the only thread and every handler     *)
(* returns to it; the PIT ticks as long as the machine is up; an update of *)
(* the clock ends by itself.                                               *)
MCFairSpec ==
  /\ MCSpec
  /\ WF_mcVars(RestOfTasks /\ (Walk \/ Wait))
  /\ WF_mcVars(RestOfTasks /\ irq0_handler)
  /\ WF_mcVars(RestOfClock /\ Clock!end_update)
  /\ WF_mcVars(RestOfClock /\ Clock!Reader)
  /\ WF_mcVars(RestOfKeys /\ Keys!Pass)
-----------------------------------------------------------------------------
(* "Read twice to ensure stable values": rtc_get_datetime returns a time   *)
(* the clock showed during the call, in every mode; the hour of noon and   *)
(* midnight on a 12-hour clock is left out.                                *)
ReadIsShown == Clock!TypeOK /\ Clock!ReadIsShown

(* rtc_get_datetime returns: neither the wait for the update bit nor the   *)
(* comparison of passes goes on for ever.                                  *)
ReadEnds == Clock!ReadEnds

(* A tick between the two counters htop reads never makes the usage it     *)
(* shows larger than it is, and the uptime that htop and System Info show  *)
(* is less than a second off the moments it was read at.                   *)
FiguresAreNear == Figures!TypeOK /\ Figures!UsageNotOverstated /\ Figures!UptimeWithinSecond

(* No key acts twice and none overtakes another on its way through the     *)
(* mailbox and its two readers.                                            *)
TakenOnceInOrder == Keys!TypeOK /\ Keys!TakenOnceInOrder

(* A key in the mailbox while the loop is not just emptying it is taken in *)
(* the end, or another key was pressed after it, which takes its place or, *)
(* without a character, empties the mailbox.                               *)
KeyReachesLoop == Keys!KeyReachesLoop
=============================================================================
