--------------------------- MODULE WindowManager ----------------------------
(***************************************************************************)
(* gui/window.c: the window manager, with the calls shell/shell.c and the  *)
(* applications make into it.  windows[] is an array that is reordered in  *)
(* place, while active_window (a pointer into the array) and               *)
(* dragging_window_idx (an index) name slots of it.  Everything runs in    *)
(* the desktop loop, so each operation is atomic.                          *)
(*                                                                         *)
(* Coordinates are abstracted to the zone of a window the pointer is in:   *)
(* a gadget of its title strip, the rest of the strip, its body, or        *)
(* outside.  Windows can be dragged anywhere, so any combination occurs;   *)
(* a minimized window is only its strip.                                   *)
(***************************************************************************)
EXTENDS Integers

CONSTANT MAX_WINDOWS
ASSUME MaxWindowsAssumption == MAX_WINDOWS \in Nat \ {0}

VARIABLES
  windows,              \* the array; id is history: the order of creation
  window_count,         \* slots in use; closed windows keep theirs
  active_window,        \* the slot the pointer is into, or NULL
  dragging_window_idx,  \* the slot being dragged, or -1
  button,               \* the left button: up, just pressed, or held
  grabbed               \* history: id of the window the drag began on, or 0

vars == <<windows, window_count, active_window, dragging_window_idx, button, grabbed>>
drag == <<dragging_window_idx, grabbed>>

NULL == -1
Slots == 0 .. MAX_WINDOWS - 1
Strip == {"close", "depth", "minimize", "title"}
Zone == Strip \cup {"body", "outside"}
Window == [id : Nat, active : BOOLEAN, closed : BOOLEAN, minimized : BOOLEAN]
NoWindow == [id |-> 0, active |-> FALSE, closed |-> FALSE, minimized |-> FALSE]

Init ==
  /\ windows = [i \in Slots |-> NoWindow]
  /\ window_count = 0
  /\ active_window = NULL
  /\ dragging_window_idx = -1
  /\ button = "up"
  /\ grabbed = 0
-----------------------------------------------------------------------------
Used == 0 .. window_count - 1
Open(i) == i \in Used /\ ~windows[i].closed

(* "if (active_window) active_window->active = 0"                          *)
Deactivated == IF active_window = NULL THEN windows
               ELSE [windows EXCEPT ![active_window].active = FALSE]

ToFront_LosesOne(ws, k) ==
  [i \in Slots |-> IF i = 0 THEN ws[k] ELSE IF i < k THEN ws[i - 1] ELSE ws[i]]

ToFront_Swaps(ws, k) == [ws EXCEPT ![0] = ws[k], ![k] = ws[0]]

(* windows[k] moves to slot 0 and the slots before it shift up by one.     *)
ToFront(ws, k) ==
  [i \in Slots |-> IF i = 0 THEN ws[k] ELSE IF i <= k THEN ws[i - 1] ELSE ws[i]]

IsTopOpen_SkipsSlot0(ws, t) ==
  \/ /\ t \in Used \ {0} /\ ~ws[t].closed
     /\ \A j \in Used : j > t => ws[j].closed
  \/ /\ t = NULL
     /\ \A j \in Used \ {0} : ws[j].closed

(* t is what the scan from window_count - 1 down to 0 for a window that is *)
(* not closed ends with.                                                   *)
IsTopOpen(ws, t) ==
  \/ /\ t \in Used /\ ~ws[t].closed
     /\ \A j \in Used : j > t => ws[j].closed
  \/ /\ t = NULL
     /\ \A j \in Used : ws[j].closed

Activate(ws, t) ==
  /\ active_window' = t
  /\ windows' = IF t = NULL THEN ws ELSE [ws EXCEPT ![t].active = TRUE]
-----------------------------------------------------------------------------

(* An application is launched.  With no slot left wm_add_window returns    *)
(* without a word, a stuttering step.                                      *)
wm_add_window ==
  /\ window_count < MAX_WINDOWS
  /\ windows' = [Deactivated EXCEPT ![window_count] =
       [id |-> window_count + 1, active |-> TRUE, closed |-> FALSE, minimized |-> FALSE]]
  /\ active_window' = window_count
  /\ window_count' = window_count + 1
  /\ UNCHANGED <<button, drag>>

taskbar_click_NoClosedTest(i) ==
  /\ button = "edge"
  /\ i \in Used
  /\ LET shown == [Deactivated EXCEPT ![i].minimized = FALSE]
     IN  windows' = [ToFront(shown, i) EXCEPT ![0].active = TRUE]
  /\ active_window' = 0
  /\ button' = "held"
  /\ UNCHANGED <<window_count, drag>>

(* A taskbar button: un-minimize the window, then wm_focus_window.  Only   *)
(* the pass that first sees the button down gets here, and it has already  *)
(* been through wm_handle_mouse.                                           *)
taskbar_click(i) ==
  /\ button = "edge"
  /\ Open(i)
  /\ LET shown == [Deactivated EXCEPT ![i].minimized = FALSE]
     IN  windows' = [ToFront(shown, i) EXCEPT ![0].active = TRUE]
  /\ active_window' = 0
  /\ button' = "held"
  /\ UNCHANGED <<window_count, drag>>

(* Alt+Tab and the depth gadget.  The flag is cleared after the shift,     *)
(* through the pointer, which by then points to another window.            *)
wm_cycle_depth ==
  IF active_window = NULL \/ window_count <= 1 THEN UNCHANGED <<windows, active_window>>
  ELSE LET shifted == ToFront(windows, active_window)
           cleared == [shifted EXCEPT ![active_window].active = FALSE]
       IN  \E t \in Used \cup {NULL} : IsTopOpen(cleared, t) /\ Activate(cleared, t)

alt_tab == wm_cycle_depth /\ UNCHANGED <<window_count, button, drag>>

(* An application closes its own window from its key handler (yano's ^X,   *)
(* the terminal's exit): only the flag is set, focus does not move.        *)
app_close ==
  /\ active_window # NULL
  /\ ~windows[active_window].closed
  /\ windows' = [windows EXCEPT ![active_window].closed = TRUE]
  /\ UNCHANGED <<window_count, active_window, button, drag>>
-----------------------------------------------------------------------------
(* wm_handle_mouse, called in every pass of the desktop loop with the      *)
(* level of the left button; hit[i] is the zone of window i the pointer is *)
(* in.                                                                     *)
mouse_released ==
  /\ dragging_window_idx' = -1
  /\ grabbed' = 0
  /\ button' = "up"
  /\ UNCHANGED <<windows, window_count, active_window>>

StartDrag(i) == dragging_window_idx' = i /\ grabbed' = windows[i].id

(* 1. The title strip of the active window, if that is open.               *)
ActiveStripHit(hit) ==
  /\ active_window # NULL
  /\ ~windows[active_window].closed
  /\ hit[active_window] \in Strip

close_box ==
  LET closed == [windows EXCEPT ![active_window].closed = TRUE]
  IN  \E t \in Used \cup {NULL} : IsTopOpen(closed, t) /\ Activate(closed, t)

minimize_box ==
  /\ windows' = [windows EXCEPT ![active_window].minimized = ~@]
  /\ UNCHANGED active_window

ActiveStripClick(zone) ==
  \/ zone = "close" /\ close_box /\ UNCHANGED drag
  \/ zone = "depth" /\ wm_cycle_depth /\ UNCHANGED drag
  \/ zone = "minimize" /\ minimize_box /\ UNCHANGED drag
  \/ zone = "title" /\ StartDrag(active_window) /\ UNCHANGED <<windows, active_window>>

(* 2. The other windows, from the last slot down.                          *)
Hit(hit, i) ==
  /\ Open(i)
  /\ i # active_window
  /\ hit[i] # "outside"
  /\ windows[i].minimized => hit[i] # "body"

OtherWindowClick(hit, i) ==
  /\ Hit(hit, i)
  /\ \A j \in Used : j > i => ~Hit(hit, j)
  /\ windows' = [Deactivated EXCEPT ![i].active = TRUE]
  /\ active_window' = i
  /\ IF hit[i] \in Strip THEN StartDrag(i) ELSE UNCHANGED drag

(* A pass with the button down.  During a drag it moves the dragged window *)
(* and returns; positions are what hit abstracts from.                     *)
mouse_pressed(hit) ==
  /\ button' = IF button = "up" THEN "edge" ELSE "held"
  /\ UNCHANGED window_count
  /\ IF dragging_window_idx # -1 THEN UNCHANGED <<windows, active_window, drag>>
     ELSE IF ActiveStripHit(hit) THEN ActiveStripClick(hit[active_window])
     ELSE \/ \E i \in Used : OtherWindowClick(hit, i)
          \/ /\ \A i \in Used : ~Hit(hit, i)
             /\ UNCHANGED <<windows, active_window, drag>>

Next ==
  \/ wm_add_window
  \/ \E i \in Slots : taskbar_click(i)
  \/ alt_tab
  \/ app_close
  \/ mouse_released
  \/ \E hit \in [Slots -> Zone] : mouse_pressed(hit)

Spec == Init /\ [][Next]_vars
-----------------------------------------------------------------------------
(* Properties.                                                             *)

(* Type correctness: the active pointer and the drag index never leave the *)
(* slots of the array.                                                     *)
TypeOK ==
  /\ windows \in [Slots -> Window]
  /\ window_count \in 0 .. MAX_WINDOWS
  /\ active_window \in Slots \cup {NULL}
  /\ dragging_window_idx \in Slots \cup {-1}
  /\ button \in {"up", "edge", "held"}
  /\ grabbed \in Nat

(* Reordering the array in place neither loses nor duplicates a window:    *)
(* the slots in use hold as many different windows as were ever added.     *)
NoWindowLost ==
  /\ \A i \in Used : windows[i].id \in 1 .. window_count
  /\ \A i, j \in Used : windows[i].id = windows[j].id => i = j

(* The pointer and the flags agree as far as the code keeps them together: *)
(* the active window is a window in use and carries the flag, and there is *)
(* no active window only when every window is closed.                      *)
FocusInv ==
  /\ active_window # NULL => active_window \in Used /\ windows[active_window].active
  /\ active_window = NULL => \A i \in Used : windows[i].closed

(* A drag moves a slot that is in use.                                     *)
DragInUse == dragging_window_idx # -1 => dragging_window_idx \in Used

ActiveId == IF active_window = NULL THEN 0 ELSE windows[active_window].id

(* A closed window is never brought back: whenever focus moves to another  *)
(* window, that window is open.                                            *)
FocusGoesToOpen ==
  [][ActiveId' # ActiveId /\ active_window' # NULL => ~windows'[active_window'].closed]_vars

(* The window a drag moves is the window whose title bar was grabbed, for  *)
(* as long as the button is held.                                          *)
(* Does not hold: README, section 5.                                       *)
DragFollowsGrabbed ==
  dragging_window_idx # -1 => windows[dragging_window_idx].id = grabbed
=============================================================================
