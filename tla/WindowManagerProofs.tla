------------------------ MODULE WindowManagerProofs -------------------------
(* Proofs about gui/window.c for any number of window slots.               *)
EXTENDS MCWindowManager, FiniteSetTheorems, WellFoundedInduction, TLAPS

(* The inductive invariant.  Focus is part of it because every reordering  *)
(* goes through active_window: a pointer outside the slots in use would    *)
(* shift an unused slot into them.                                         *)
WmInv == TypeOK /\ NoWindowLost /\ FocusInv /\ DragInUse

(* An array ws keeps the windows of the current array, in another order.   *)
Reorders(ws) ==
  /\ ws \in [Slots -> Window]
  /\ \A i \in Used : ws[i].id \in 1 .. window_count
  /\ \A i, j \in Used : ws[i].id = ws[j].id => i = j

LEMMA UsedSlots ==
  ASSUME TypeOK
  PROVE  Used \subseteq Slots /\ NULL \notin Slots
  BY MaxWindowsAssumption DEF TypeOK, Used, Slots, NULL

(* Setting flags leaves the order alone.                                   *)
LEMMA FlagsKeepOrder ==
  ASSUME TypeOK, NEW ws, Reorders(ws), NEW i \in Slots, NEW b \in BOOLEAN
  PROVE  /\ Reorders([ws EXCEPT ![i].active = b])
         /\ Reorders([ws EXCEPT ![i].closed = b])
         /\ Reorders([ws EXCEPT ![i].minimized = b])
  BY UsedSlots DEF Reorders, Window

LEMMA DeactivatedKeepsOrder ==
  ASSUME TypeOK, NoWindowLost
  PROVE  Reorders(windows) /\ Reorders(Deactivated)
  <1>1. Reorders(windows)  BY DEF Reorders, TypeOK, NoWindowLost
  <1>2. CASE active_window = NULL  BY <1>1, <1>2 DEF Deactivated
  <1>3. CASE active_window # NULL
    BY <1>1, <1>3, FlagsKeepOrder DEF Deactivated, TypeOK
  <1> QED  BY <1>1, <1>2, <1>3

(* Moving a window in use to slot 0 is a permutation of the slots in use.  *)
LEMMA ToFrontReorders ==
  ASSUME TypeOK, NEW ws, Reorders(ws), NEW k \in Used
  PROVE  Reorders(ToFront(ws, k))
  <1>1. Used \subseteq Slots  BY UsedSlots
  <1>2. ToFront(ws, k) \in [Slots -> Window]
    BY <1>1, MaxWindowsAssumption DEF ToFront, Reorders, Slots, Used, TypeOK
  <1>3. ASSUME NEW i \in Used
        PROVE  ToFront(ws, k)[i] = IF i = 0 THEN ws[k] ELSE IF i <= k THEN ws[i - 1] ELSE ws[i]
    BY <1>1, <1>3 DEF ToFront
  <1>4. ASSUME NEW i \in Used
        PROVE  (IF i = 0 THEN k ELSE IF i <= k THEN i - 1 ELSE i) \in Used
    BY <1>4 DEF Used, TypeOK
  <1>5. ASSUME NEW i \in Used PROVE ToFront(ws, k)[i].id \in 1 .. window_count
    BY <1>3, <1>4 DEF Reorders
  <1>6. ASSUME NEW i \in Used, NEW j \in Used, ToFront(ws, k)[i].id = ToFront(ws, k)[j].id
        PROVE  i = j
    <2> DEFINE src(n) == IF n = 0 THEN k ELSE IF n <= k THEN n - 1 ELSE n
    <2>1. src(i) \in Used /\ src(j) \in Used  BY <1>4
    <2>2. ToFront(ws, k)[i] = ws[src(i)] /\ ToFront(ws, k)[j] = ws[src(j)]  BY <1>3
    <2>3. src(i) = src(j)  BY <1>6, <2>1, <2>2 DEF Reorders
    <2> QED  BY <2>3 DEF Used, TypeOK
  <1> QED  BY <1>2, <1>5, <1>6 DEF Reorders

(* What every step that keeps window_count has to show.                    *)
LEMMA ReordersSuffices ==
  ASSUME TypeOK, Reorders(windows'), window_count' = window_count
  PROVE  NoWindowLost' /\ windows' \in [Slots -> Window]
  BY DEF Reorders, NoWindowLost, Used

(* The scan for the next active window, and the switch to it.              *)
LEMMA ActivateStep ==
  ASSUME TypeOK, NEW ws, Reorders(ws), NEW t \in Used \cup {NULL},
         IsTopOpen(ws, t), Activate(ws, t), window_count' = window_count
  PROVE  Reorders(windows') /\ FocusInv' /\ active_window' \in Slots \cup {NULL}
  <1>1. Used \subseteq Slots /\ NULL \notin Slots  BY UsedSlots
  <1>2. CASE t = NULL
    BY <1>1, <1>2 DEF IsTopOpen, Activate, FocusInv, Used
  <1>3. CASE t # NULL
    <2>1. t \in Used /\ t \in Slots  BY <1>1, <1>3
    <2>2. Reorders(windows')  BY <1>3, <2>1, FlagsKeepOrder DEF Activate
    <2>3. windows'[t].active  BY <1>3, <2>1 DEF Activate, Reorders, Window
    <2> QED  BY <1>3, <2>1, <2>2, <2>3 DEF Activate, FocusInv, Used
  <1> QED  BY <1>2, <1>3

LEMMA CycleStep ==
  ASSUME WmInv, wm_cycle_depth, window_count' = window_count
  PROVE  Reorders(windows') /\ FocusInv' /\ active_window' \in Slots \cup {NULL}
  <1> USE DEF WmInv
  <1>0. Reorders(windows)  BY DeactivatedKeepsOrder
  <1>1. CASE active_window = NULL \/ window_count <= 1
    BY <1>0, <1>1 DEF wm_cycle_depth, FocusInv, TypeOK, Used, Reorders
  <1>2. CASE ~(active_window = NULL \/ window_count <= 1)
    <2> DEFINE shifted == ToFront(windows, active_window)
               cleared == [shifted EXCEPT ![active_window].active = FALSE]
    <2>1. active_window \in Used /\ active_window \in Slots
      BY <1>2, UsedSlots DEF FocusInv
    <2>2. Reorders(shifted)  BY <1>0, <2>1, ToFrontReorders
    <2>3. Reorders(cleared)  BY <2>1, <2>2, FlagsKeepOrder
    <2>4. PICK t \in Used \cup {NULL} : IsTopOpen(cleared, t) /\ Activate(cleared, t)
      BY <1>2 DEF wm_cycle_depth
    <2> HIDE DEF cleared
    <2> QED  BY <2>3, <2>4, ActivateStep
  <1> QED  BY <1>1, <1>2

LEMMA AddStep ==
  ASSUME WmInv, wm_add_window
  PROVE  WmInv'
  <1> DEFINE new == [id |-> window_count + 1, active |-> TRUE, closed |-> FALSE,
                     minimized |-> FALSE]
  <1> USE DEF WmInv
  <1>1. window_count \in Slots /\ new \in Window
    BY MaxWindowsAssumption DEF wm_add_window, TypeOK, Slots, Window
  <1>2. Reorders(Deactivated)  BY DeactivatedKeepsOrder
  <1>3. windows' = [Deactivated EXCEPT ![window_count] = new]  BY DEF wm_add_window
  <1> HIDE DEF new
  <1>4. windows' \in [Slots -> Window]  BY <1>1, <1>2, <1>3 DEF Reorders
  <1>5. /\ windows'[window_count] = new
        /\ \A i \in Used : windows'[i] = Deactivated[i]
    BY <1>1, <1>2, <1>3, UsedSlots DEF Reorders, Used
  <1>6. new.id = window_count + 1 /\ new.active  BY DEF new
  <1>7. Used' = Used \cup {window_count}  BY DEF wm_add_window, Used, TypeOK
  <1>8. NoWindowLost'
    <2>1. \A i \in Used : windows'[i].id \in 1 .. window_count
      BY <1>2, <1>5 DEF Reorders
    <2>2. \A i, j \in Used : windows'[i].id = windows'[j].id => i = j
      BY <1>2, <1>5 DEF Reorders
    <2> QED  BY <1>5, <1>6, <1>7, <2>1, <2>2 DEF NoWindowLost, wm_add_window, TypeOK
  <1>9. TypeOK'
    <2>1. window_count' \in 0 .. MAX_WINDOWS
      BY MaxWindowsAssumption DEF TypeOK, wm_add_window
    <2> QED  BY <1>1, <1>4, <2>1 DEF TypeOK, wm_add_window, drag
  <1>10. FocusInv'
    BY <1>1, <1>5, <1>6, <1>7, UsedSlots DEF FocusInv, wm_add_window
  <1>11. DragInUse'  BY <1>7 DEF DragInUse, wm_add_window, drag
  <1> QED  BY <1>8, <1>9, <1>10, <1>11

LEMMA MousePressedStep ==
  ASSUME WmInv, NEW hit \in [Slots -> Zone], mouse_pressed(hit)
  PROVE  WmInv'
  <1> USE DEF WmInv
  <1>0. /\ Reorders(windows) /\ Reorders(Deactivated)
        /\ Used \subseteq Slots /\ NULL \notin Slots
    BY DeactivatedKeepsOrder, UsedSlots
  <1>1. button' \in {"up", "edge", "held"} /\ window_count' = window_count /\ Used' = Used
    BY DEF mouse_pressed, Used
  <1>2. SUFFICES /\ Reorders(windows') /\ FocusInv' /\ active_window' \in Slots \cup {NULL}
                 /\ dragging_window_idx' \in Used \cup {-1} /\ grabbed' \in Nat
    BY <1>0, <1>1, <1>2, ReordersSuffices DEF TypeOK, DragInUse
  <1>3. CASE UNCHANGED <<windows, active_window, drag>>
    BY <1>0, <1>1, <1>3 DEF TypeOK, FocusInv, DragInUse, drag, Reorders
  <1>4. CASE ActiveStripHit(hit) /\ ActiveStripClick(hit[active_window])
    <2>1. active_window \in Used /\ active_window \in Slots
      BY <1>0, <1>4 DEF ActiveStripHit, FocusInv
    <2>2. UNCHANGED drag => dragging_window_idx' \in Used \cup {-1} /\ grabbed' \in Nat
      BY DEF drag, TypeOK, DragInUse
    <2>3. CASE close_box /\ UNCHANGED drag
      <3> DEFINE closed == [windows EXCEPT ![active_window].closed = TRUE]
      <3>1. Reorders(closed)  BY <1>0, <2>1, FlagsKeepOrder
      <3>2. PICK t \in Used \cup {NULL} : IsTopOpen(closed, t) /\ Activate(closed, t)
        BY <2>3 DEF close_box
      <3> HIDE DEF closed
      <3> QED  BY <1>1, <2>2, <2>3, <3>1, <3>2, ActivateStep
    <2>4. CASE wm_cycle_depth /\ UNCHANGED drag
      BY <1>1, <2>2, <2>4, CycleStep
    <2>5. CASE minimize_box /\ UNCHANGED drag
      <3>1. windows' = [windows EXCEPT ![active_window].minimized =
                          ~windows[active_window].minimized]
        BY <2>5 DEF minimize_box
      <3>2. (~windows[active_window].minimized) \in BOOLEAN  OBVIOUS
      <3>3. Reorders(windows')  BY <1>0, <2>1, <3>1, <3>2, FlagsKeepOrder
      <3>4. windows'[active_window].active = windows[active_window].active
        BY <2>1, <3>1 DEF TypeOK, Window
      <3> QED
        BY <1>1, <2>1, <2>2, <2>5, <3>3, <3>4 DEF minimize_box, FocusInv
    <2>6. CASE StartDrag(active_window) /\ UNCHANGED <<windows, active_window>>
      BY <1>0, <1>1, <2>1, <2>6 DEF StartDrag, FocusInv, TypeOK, Window, Reorders
    <2> QED  BY <1>4, <2>3, <2>4, <2>5, <2>6 DEF ActiveStripClick
  <1>5. ASSUME NEW i \in Used, OtherWindowClick(hit, i)
        PROVE  /\ Reorders(windows') /\ FocusInv' /\ active_window' \in Slots \cup {NULL}
               /\ dragging_window_idx' \in Used \cup {-1} /\ grabbed' \in Nat
    <2>1. i \in Slots /\ i # NULL  BY <1>0
    <2>2. windows' = [Deactivated EXCEPT ![i].active = TRUE] /\ active_window' = i
      BY <1>5 DEF OtherWindowClick
    <2>3. Reorders(windows')  BY <1>0, <2>1, <2>2, FlagsKeepOrder
    <2>4. windows'[i].active  BY <1>0, <2>1, <2>2 DEF Reorders, Window
    <2>5. dragging_window_idx' \in Used \cup {-1} /\ grabbed' \in Nat
      BY <1>5, <2>1 DEF OtherWindowClick, StartDrag, drag, TypeOK, Window, DragInUse
    <2> QED  BY <1>1, <2>1, <2>2, <2>3, <2>4, <2>5 DEF FocusInv
  <1> QED  BY <1>3, <1>4, <1>5 DEF mouse_pressed

LEMMA TaskbarStep ==
  ASSUME WmInv, NEW i \in Slots, taskbar_click(i)
  PROVE  WmInv'
  <1> DEFINE shown == [Deactivated EXCEPT ![i].minimized = FALSE]
             front == ToFront(shown, i)
  <1> USE DEF WmInv
  <1>0. /\ i \in Used /\ 0 \in Used /\ 0 \in Slots /\ 0 # NULL
        /\ window_count' = window_count /\ Used' = Used
    BY UsedSlots DEF taskbar_click, Open, Used, TypeOK, NULL
  <1>1. Reorders(shown)  BY DeactivatedKeepsOrder, FlagsKeepOrder
  <1>2. Reorders(front)  BY <1>0, <1>1, ToFrontReorders
  <1>3. windows' = [front EXCEPT ![0].active = TRUE] /\ active_window' = 0
    BY DEF taskbar_click
  <1> HIDE DEF front
  <1>4. Reorders(windows')  BY <1>0, <1>2, <1>3, FlagsKeepOrder
  <1>5. windows'[0].active  BY <1>0, <1>2, <1>3 DEF Reorders, Window
  <1>6. FocusInv'  BY <1>0, <1>3, <1>5 DEF FocusInv
  <1>7. DragInUse'  BY <1>0 DEF DragInUse, taskbar_click, drag
  <1>8. NoWindowLost' /\ windows' \in [Slots -> Window]
    BY <1>0, <1>4, ReordersSuffices
  <1> QED  BY <1>0, <1>3, <1>6, <1>7, <1>8 DEF TypeOK, taskbar_click, drag

LEMMA AppCloseStep ==
  ASSUME WmInv, app_close
  PROVE  WmInv'
  <1> USE DEF WmInv
  <1>1. /\ active_window \in Slots /\ active_window \in Used
        /\ windows' = [windows EXCEPT ![active_window].closed = TRUE]
        /\ UNCHANGED <<window_count, active_window, button, drag>>
        /\ Used' = Used
    BY UsedSlots DEF app_close, FocusInv, Used
  <1>2. Reorders(windows')  BY <1>1, DeactivatedKeepsOrder, FlagsKeepOrder
  <1>3. NoWindowLost' /\ windows' \in [Slots -> Window]
    BY <1>1, <1>2, ReordersSuffices
  <1>4. FocusInv'
    BY <1>1 DEF FocusInv, TypeOK, Window, app_close
  <1> QED  BY <1>1, <1>3, <1>4 DEF TypeOK, DragInUse, drag

LEMMA WmInvInvariant == Spec => []WmInv
  <1>1. Init => WmInv
    BY MaxWindowsAssumption
    DEF Init, WmInv, TypeOK, NoWindowLost, FocusInv, DragInUse, Used, Slots, NULL,
        Window, NoWindow
  <1>2. WmInv /\ [Next]_vars => WmInv'
    <2> SUFFICES ASSUME WmInv, [Next]_vars PROVE WmInv'  OBVIOUS
    <2>1. CASE wm_add_window  BY <2>1, AddStep
    <2>2. ASSUME NEW i \in Slots, taskbar_click(i) PROVE WmInv'
      BY <2>2, TaskbarStep
    <2>3. CASE alt_tab
      <3>1. wm_cycle_depth /\ UNCHANGED <<window_count, button, drag>>  BY <2>3 DEF alt_tab
      <3>2. Reorders(windows') /\ FocusInv' /\ active_window' \in Slots \cup {NULL}
        BY <3>1, CycleStep
      <3>3. NoWindowLost' /\ windows' \in [Slots -> Window]
        BY <3>1, <3>2, ReordersSuffices DEF WmInv
      <3>4. TypeOK' /\ DragInUse'
        BY <3>1, <3>2, <3>3 DEF WmInv, TypeOK, DragInUse, Used, drag
      <3> QED  BY <3>2, <3>3, <3>4 DEF WmInv
    <2>4. CASE app_close  BY <2>4, AppCloseStep
    <2>5. CASE mouse_released
      BY <2>5 DEF mouse_released, WmInv, TypeOK, NoWindowLost, FocusInv, DragInUse, Used
    <2>6. ASSUME NEW hit \in [Slots -> Zone], mouse_pressed(hit) PROVE WmInv'
      BY <2>6, MousePressedStep
    <2>7. CASE UNCHANGED vars
      BY <2>7 DEF vars, WmInv, TypeOK, NoWindowLost, FocusInv, DragInUse, Used
    <2> QED  BY <2>1, <2>2, <2>3, <2>4, <2>5, <2>6, <2>7 DEF Next
  <1> QED  BY <1>1, <1>2, PTL DEF Spec

(* The pointer and the drag index stay inside windows[] (window.c:5-8),    *)
(* through every sequence of launches, clicks, drags, Alt+Tabs and closes. *)
THEOREM TypeCorrect == Spec => []TypeOK
  <1>1. WmInv => TypeOK  BY DEF WmInv
  <1> QED  BY <1>1, WmInvInvariant, PTL

(* The in-place shifts of wm_focus_window and wm_cycle_depth never lose or *)
(* duplicate a window (window.c:38-44, 169-174).                           *)
THEOREM WindowsPreserved == Spec => []NoWindowLost
  <1>1. WmInv => NoWindowLost  BY DEF WmInv
  <1> QED  BY <1>1, WmInvInvariant, PTL

(* The active window is a window in use and carries the flag; there is     *)
(* none only when all windows are closed (window.c:176-185, 215-224).      *)
THEOREM FocusConsistent == Spec => []FocusInv
  <1>1. WmInv => FocusInv  BY DEF WmInv
  <1> QED  BY <1>1, WmInvInvariant, PTL

(* The window that is dragged is one in use, also when the array was       *)
(* reordered or windows were closed while the button was held.             *)
THEOREM DragStaysInUse == Spec => []DragInUse
  <1>1. WmInv => DragInUse  BY DEF WmInv
  <1> QED  BY <1>1, WmInvInvariant, PTL
-----------------------------------------------------------------------------
FocusStep ==
  ActiveId' # ActiveId /\ active_window' # NULL => ~windows'[active_window'].closed

(* The scan for the next window ends on an open one.                       *)
LEMMA ActivateFocus ==
  ASSUME TypeOK, NEW ws, Reorders(ws), NEW t \in Used \cup {NULL},
         IsTopOpen(ws, t), Activate(ws, t)
  PROVE  FocusStep
  <1>1. CASE t = NULL  BY <1>1 DEF FocusStep, Activate
  <1>2. CASE t # NULL
    <2>1. t \in Slots /\ ~ws[t].closed  BY <1>2, UsedSlots DEF IsTopOpen
    <2>2. windows' = [ws EXCEPT ![t].active = TRUE] /\ active_window' = t
      BY <1>2 DEF Activate
    <2>3. windows'[t].closed = ws[t].closed  BY <2>1, <2>2 DEF Reorders, Window
    <2> QED  BY <2>1, <2>2, <2>3 DEF FocusStep
  <1> QED  BY <1>1, <1>2

LEMMA CycleFocus ==
  ASSUME WmInv, wm_cycle_depth
  PROVE  FocusStep
  <1> USE DEF WmInv
  <1>1. CASE active_window = NULL \/ window_count <= 1
    BY <1>1 DEF wm_cycle_depth, FocusStep, ActiveId
  <1>2. CASE ~(active_window = NULL \/ window_count <= 1)
    <2> DEFINE shifted == ToFront(windows, active_window)
               cleared == [shifted EXCEPT ![active_window].active = FALSE]
    <2>1. active_window \in Used /\ active_window \in Slots
      BY <1>2, UsedSlots DEF FocusInv
    <2>2. Reorders(shifted)  BY <2>1, DeactivatedKeepsOrder, ToFrontReorders
    <2>3. Reorders(cleared)  BY <2>1, <2>2, FlagsKeepOrder
    <2>4. PICK t \in Used \cup {NULL} : IsTopOpen(cleared, t) /\ Activate(cleared, t)
      BY <1>2 DEF wm_cycle_depth
    <2> HIDE DEF cleared
    <2> QED  BY <2>3, <2>4, ActivateFocus
  <1> QED  BY <1>1, <1>2

LEMMA DeactivatedKeepsClosed ==
  ASSUME TypeOK, NEW i \in Slots
  PROVE  Deactivated[i].closed = windows[i].closed
  BY DEF Deactivated, TypeOK, Window

LEMMA PressedFocus ==
  ASSUME WmInv, NEW hit \in [Slots -> Zone], mouse_pressed(hit)
  PROVE  FocusStep
  <1> USE DEF WmInv
  <1>1. CASE UNCHANGED <<windows, active_window>>  BY <1>1 DEF FocusStep, ActiveId
  <1>2. CASE ActiveStripHit(hit) /\ close_box
    <2> DEFINE closed == [windows EXCEPT ![active_window].closed = TRUE]
    <2>1. active_window \in Slots  BY <1>2 DEF ActiveStripHit, TypeOK
    <2>2. Reorders(closed)  BY <2>1, DeactivatedKeepsOrder, FlagsKeepOrder
    <2>3. PICK t \in Used \cup {NULL} : IsTopOpen(closed, t) /\ Activate(closed, t)
      BY <1>2 DEF close_box
    <2> HIDE DEF closed
    <2> QED  BY <2>2, <2>3, ActivateFocus
  <1>3. CASE wm_cycle_depth  BY <1>3, CycleFocus
  <1>4. CASE ActiveStripHit(hit) /\ minimize_box
    BY <1>4 DEF ActiveStripHit, minimize_box, FocusStep, ActiveId, TypeOK, Window
  <1>5. ASSUME NEW i \in Used, OtherWindowClick(hit, i) PROVE FocusStep
    <2>1. i \in Slots /\ ~windows[i].closed
      BY <1>5, UsedSlots DEF OtherWindowClick, Hit, Open
    <2>2. windows' = [Deactivated EXCEPT ![i].active = TRUE] /\ active_window' = i
      BY <1>5 DEF OtherWindowClick
    <2>3. windows'[i].closed = Deactivated[i].closed
      BY <2>1, <2>2, DeactivatedKeepsOrder DEF Reorders, Window
    <2> QED  BY <2>1, <2>2, <2>3, DeactivatedKeepsClosed DEF FocusStep
  <1> QED
    BY <1>1, <1>2, <1>3, <1>4, <1>5 DEF mouse_pressed, ActiveStripClick

(* No step gives the focus to a closed window: wm_focus_window, the depth  *)
(* cycle, the close box and a click all land on an open one (window.c).    *)
THEOREM FocusOnlyOnOpen == Spec => FocusGoesToOpen
  <1>1. WmInv /\ [Next]_vars => [FocusStep]_vars
    <2> SUFFICES ASSUME WmInv, Next PROVE FocusStep  OBVIOUS
    <2> USE DEF WmInv
    <2>1. CASE wm_add_window
      BY <2>1, DeactivatedKeepsOrder, MaxWindowsAssumption
      DEF wm_add_window, FocusStep, Reorders, TypeOK, Slots
    <2>2. ASSUME NEW i \in Slots, taskbar_click(i) PROVE FocusStep
      <3> DEFINE shown == [Deactivated EXCEPT ![i].minimized = FALSE]
                 front == ToFront(shown, i)
      <3>1. i \in Used /\ 0 \in Slots /\ ~windows[i].closed
        BY <2>2, MaxWindowsAssumption DEF taskbar_click, Open, Slots
      <3>2. Reorders(Deactivated) /\ Reorders(shown)
        BY DeactivatedKeepsOrder, FlagsKeepOrder
      <3>3. shown[i].closed = windows[i].closed
        BY <3>2, DeactivatedKeepsClosed DEF Reorders, Window
      <3>4. front[0] = shown[i]  BY <3>1 DEF ToFront
      <3>5. Reorders(front)  BY <3>1, <3>2, ToFrontReorders
      <3>6. windows' = [front EXCEPT ![0].active = TRUE] /\ active_window' = 0
        BY <2>2 DEF taskbar_click
      <3> HIDE DEF front, shown
      <3>7. windows'[0].closed = front[0].closed
        BY <3>1, <3>5, <3>6 DEF Reorders, Window
      <3> QED  BY <3>1, <3>4, <3>6, <3>7, <3>3 DEF FocusStep
    <2>3. CASE alt_tab  BY <2>3, CycleFocus DEF alt_tab
    <2>4. CASE app_close
      BY <2>4 DEF app_close, FocusStep, ActiveId, TypeOK, Window
    <2>5. CASE mouse_released  BY <2>5 DEF mouse_released, FocusStep, ActiveId
    <2>6. ASSUME NEW hit \in [Slots -> Zone], mouse_pressed(hit) PROVE FocusStep
      BY <2>6, PressedFocus
    <2> QED  BY <2>1, <2>2, <2>3, <2>4, <2>5, <2>6 DEF Next
  <1>2. FocusGoesToOpen <=> [][FocusStep]_vars  BY DEF FocusGoesToOpen, FocusStep
  <1> QED  BY <1>1, <1>2, WmInvInvariant, PTL DEF Spec
-----------------------------------------------------------------------------
(* Alt+Tab.  An open window that is not active moves one slot up with each *)
(* press, because every press takes a window from above it to slot 0.  At  *)
(* the latest in the last slot it is the one the scan finds.               *)

(* A set of naturals that is not empty has a least element.                *)
LEMMA LeastNat ==
  ASSUME NEW T, T \subseteq Nat, T # {}
  PROVE  \E x \in T : \A y \in T : x <= y
<1> DEFINE Down == {1 .. n : n \in T}
<1>1. \A n \in Nat : IsFiniteSet(1 .. n) /\ (1 .. n) \in SUBSET Nat
  BY FS_Interval
<1>2. \A n \in Nat : (1 .. n) \in FiniteSubsetsOf(Nat)
  BY <1>1 DEF FiniteSubsetsOf
<1>3. Down \subseteq FiniteSubsetsOf(Nat) /\ Down # {}
  BY <1>2
<1>4. PICK D \in Down : \A E \in Down : ~ (<<E, D>> \in StrictSubsetOrdering(Nat))
  BY <1>3, WFMin, FS_StrictSubsetOrderingWellFounded
<1>5. PICK x \in T : D = 1 .. x
  OBVIOUS
<1>6. ASSUME NEW y \in T, y < x  PROVE FALSE
  <2>1. x \in 1 .. x /\ x \notin 1 .. y /\ 1 .. y \subseteq 1 .. x
    BY <1>6
  <2>2. <<1 .. y, 1 .. x>> \in StrictSubsetOrdering(Nat)
    BY <1>1, <2>1 DEF StrictSubsetOrdering
  <2>3. QED  BY <1>4, <1>5, <2>2
<1>7. QED  BY <1>6

LEMMA SetInduction ==
  ASSUME NEW S \in SUBSET Nat, 0 \in S, \A n \in S : n + 1 \in S
  PROVE  S = Nat
<1> SUFFICES ASSUME S # Nat  PROVE FALSE
  OBVIOUS
<1>1. PICK x \in Nat \ S : \A y \in Nat \ S : x <= y
  <2>1. Nat \ S # {} /\ Nat \ S \subseteq Nat
    OBVIOUS
  <2>2. QED  BY <2>1, LeastNat
<1>2. x - 1 \in S
  BY <1>1
<1>3. QED  BY <1>1, <1>2

(* The iteration exists, so that AfterCycles is what its equation says.    *)
LEMMA IterationExists ==
  \A M \in Nat : \A s :
    \E f : f = [k \in 0 .. M |-> IF k = 0 THEN s ELSE AfterCycle(f[k - 1])]
<1> TAKE M \in Nat
<1> TAKE s
<1> DEFINE P(n) == \E f : f = [k \in 0 .. n |-> IF k = 0 THEN s ELSE AfterCycle(f[k - 1])]
           S == {n \in Nat : P(n)}
<1>1. P(0)
  <2> DEFINE f == [k \in 0 .. 0 |-> s]
  <2>1. f = [k \in 0 .. 0 |-> IF k = 0 THEN s ELSE AfterCycle(f[k - 1])]
    OBVIOUS
  <2>2. QED  BY <2>1
<1>2. ASSUME NEW n \in Nat, P(n)  PROVE P(n + 1)
  <2>1. PICK g : g = [k \in 0 .. n |-> IF k = 0 THEN s ELSE AfterCycle(g[k - 1])]
    BY <1>2
  <2> DEFINE f == [k \in 0 .. n + 1 |-> IF k = n + 1 THEN AfterCycle(g[n]) ELSE g[k]]
  <2>2. ASSUME NEW k \in 0 .. n + 1
        PROVE  f[k] = IF k = 0 THEN s ELSE AfterCycle(f[k - 1])
    <3>1. CASE k = n + 1
      <4>1. k # 0 /\ k - 1 = n /\ n \in 0 .. n + 1 /\ n # n + 1
        BY <3>1
      <4>2. f[k] = AfterCycle(g[n]) /\ f[n] = g[n]
        BY <3>1, <4>1
      <4>3. QED  BY <4>1, <4>2
    <3>2. CASE k # n + 1
      <4>1. k \in 0 .. n /\ f[k] = g[k]
        BY <3>2
      <4>2. g[k] = IF k = 0 THEN s ELSE AfterCycle(g[k - 1])
        BY <2>1, <4>1
      <4>3. k # 0 => k - 1 \in 0 .. n + 1 /\ k - 1 # n + 1 /\ f[k - 1] = g[k - 1]
        BY <4>1
      <4>4. QED  BY <4>1, <4>2, <4>3
    <3>3. QED  BY <3>1, <3>2
  <2>3. f = [k \in 0 .. n + 1 |-> f[k]]
    OBVIOUS
  <2> HIDE DEF f
  <2>4. f = [k \in 0 .. n + 1 |-> IF k = 0 THEN s ELSE AfterCycle(f[k - 1])]
    BY <2>2, <2>3
  <2>5. QED  BY <2>4
<1> HIDE DEF P
<1>3. 0 \in S /\ \A n \in S : n + 1 \in S
  BY <1>1, <1>2
<1>4. S = Nat
  BY <1>3, SetInduction
<1>5. P(M)
  BY <1>4
<1>6. QED  BY <1>5 DEF P

LEMMA CyclesEquation ==
  ASSUME window_count \in Nat
  PROVE  /\ AfterCycles[0] = [windows |-> windows, active |-> active_window]
         /\ \A k \in 1 .. window_count : AfterCycles[k] = AfterCycle(AfterCycles[k - 1])
<1> DEFINE s == [windows |-> windows, active |-> active_window]
           Is(f) == f = [k \in 0 .. window_count |-> IF k = 0 THEN s ELSE AfterCycle(f[k - 1])]
<1>1. \E f : Is(f)
  <2>1. \A u : \E f : f = [k \in 0 .. window_count |-> IF k = 0 THEN u ELSE AfterCycle(f[k - 1])]
    BY IterationExists, Zenon
  <2>2. QED  BY <2>1, Zenon
<1>2. Is(AfterCycles)
  BY <1>1, Zenon DEF AfterCycles
<1>3. 0 \in 0 .. window_count /\ \A k \in 1 .. window_count : k \in 0 .. window_count /\ k # 0
  OBVIOUS
<1>4. QED  BY <1>2, <1>3

(* The scan finds a window when there is an open one.                      *)
LEMMA TopFound ==
  ASSUME window_count \in Nat, NEW ws, NEW q \in Used, ~ws[q].closed
  PROVE  /\ TopOpen(ws) \in Used /\ ~ws[TopOpen(ws)].closed
         /\ \A j \in Used : j > TopOpen(ws) => ws[j].closed
<1> DEFINE T == {n \in Nat : n < window_count /\ ~ws[window_count - 1 - n].closed}
<1>1. T \subseteq Nat /\ window_count - 1 - q \in T
  BY DEF Used
<1>2. PICK n \in T : \A m \in T : n <= m
  BY <1>1, LeastNat
<1> DEFINE t == window_count - 1 - n
<1>3. t \in Used /\ ~ws[t].closed
  BY <1>2 DEF Used
<1>4. ASSUME NEW j \in Used, j > t  PROVE ws[j].closed
  <2>1. j \in Nat /\ j < window_count /\ window_count - 1 - (window_count - 1 - j) = j
    BY DEF Used
  <2>2. window_count - 1 - j \in Nat /\ window_count - 1 - j < n
    BY <1>2, <1>4, <2>1
  <2>3. window_count - 1 - j \notin T
    BY <1>2, <2>2
  <2>4. QED  BY <2>1, <2>2, <2>3
<1> HIDE DEF t, T
<1>5. \E u \in Used \cup {NULL} : IsTopOpen(ws, u)
  BY <1>3, <1>4 DEF IsTopOpen
<1>6. IsTopOpen(ws, TopOpen(ws))
  BY <1>5, Zenon DEF TopOpen
<1>7. NULL \notin Used
  BY DEF NULL, Used
<1>8. QED  BY <1>6, <1>7 DEF IsTopOpen

(* The window w is open in slot q after k presses, and the scan ended at   *)
(* the active slot.                                                        *)
Climbed(w, k, q) ==
  LET st == AfterCycles[k]
  IN  /\ q \in Used /\ q >= k - 1
      /\ st.windows[q] = w
      /\ st.active \in Used
      /\ \A j \in Used : j > st.active => st.windows[j].closed

(* One press: the window above which the active one was taken moves up.    *)
LEMMA PressMoves ==
  ASSUME TypeOK, window_count > 1, NEW ws, NEW a \in Used, NEW q \in Used, q # a, ~ws[q].closed
  PROVE  LET st == AfterCycle([windows |-> ws, active |-> a])
         IN  /\ st.active \in Used
             /\ \A j \in Used : j > st.active => st.windows[j].closed
             /\ st.windows[IF q < a THEN q + 1 ELSE q] = ws[q]
<1> DEFINE p == IF q < a THEN q + 1 ELSE q
           shifted == ToFront(ws, a)
<1>1. p \in Used /\ p \in Slots /\ p # 0 /\ (q < a => p <= a /\ p - 1 = q) /\ (~(q < a) => ~(p <= a) /\ p = q)
  BY UsedSlots DEF TypeOK, Used
<1>2. shifted[p] = ws[q]
  BY <1>1 DEF ToFront
<1>3. AfterCycle([windows |-> ws, active |-> a]) = [windows |-> shifted, active |-> TopOpen(shifted)]
  <2>1. a # NULL /\ ~(window_count <= 1)
    BY DEF TypeOK, NULL, Used
  <2>2. QED  BY <2>1 DEF AfterCycle
<1>4. window_count \in Nat
  BY DEF TypeOK
<1> HIDE DEF shifted, p
<1>5. /\ TopOpen(shifted) \in Used
      /\ \A j \in Used : j > TopOpen(shifted) => shifted[j].closed
  BY <1>1, <1>2, <1>4, TopFound
<1>6. QED  BY <1>2, <1>3, <1>5 DEF p

LEMMA SameCycle ==
  ASSUME NEW s, NEW u, s.windows = u.windows, s.active = u.active,
         u.active # NULL, ~(window_count <= 1)
  PROVE  AfterCycle(s) = AfterCycle(u)
BY Zenon DEF AfterCycle

(* As long as w is not active, it climbs a slot with each press.           *)
LEMMA Climbs ==
  ASSUME WmInv, NEW i \in Used, ~windows[i].closed, window_count > 1,
         \A k \in 0 .. window_count :
           LET st == AfterCycles[k]
           IN  ~(st.active # NULL /\ st.windows[st.active].id = windows[i].id)
  PROVE  \A k \in 1 .. window_count : \E q \in Used : Climbed(windows[i], k, q)
<1> DEFINE w == windows[i]
           P(k) == k \in 1 .. window_count => \E q \in Used : Climbed(w, k, q)
           S == {k \in Nat : P(k)}
<1>1. window_count \in Nat /\ TypeOK
  BY DEF WmInv, TypeOK
<1>2. P(0)
  OBVIOUS
<1>3. P(1)
  <2>1. AfterCycles[0] = [windows |-> windows, active |-> active_window]
        /\ AfterCycles[1] = AfterCycle(AfterCycles[0])
    <3>1. 1 \in 1 .. window_count /\ 1 - 1 = 0
      BY <1>1
    <3>2. QED  BY <1>1, <3>1, CyclesEquation
  <2>2. active_window \in Used
    BY DEF WmInv, FocusInv
  <2>3. i # active_window
    <3>1. 0 \in 0 .. window_count
      BY <1>1
    <3>2. ~(AfterCycles[0].active # NULL /\ AfterCycles[0].windows[AfterCycles[0].active].id = w.id)
      BY <3>1
    <3>3. AfterCycles[0].active = active_window /\ AfterCycles[0].windows = windows
      BY <2>1
    <3>4. active_window # NULL
      BY <2>2 DEF Used, NULL
    <3>5. QED  BY <3>2, <3>3, <3>4
  <2> DEFINE q == IF i < active_window THEN i + 1 ELSE i
  <2>4. LET st == AfterCycle([windows |-> windows, active |-> active_window])
        IN  /\ st.active \in Used
            /\ \A j \in Used : j > st.active => st.windows[j].closed
            /\ st.windows[q] = windows[i]
    BY <1>1, <2>2, <2>3, PressMoves
  <2>5. q \in Used /\ q >= 1 - 1
    BY <1>1, <2>2 DEF Used
  <2> HIDE DEF q
  <2>6. Climbed(w, 1, q)
    BY <2>1, <2>4, <2>5 DEF Climbed
  <2>7. QED  BY <2>5, <2>6
<1>4. ASSUME NEW k \in Nat, P(k), k >= 1  PROVE P(k + 1)
  <2>1. SUFFICES ASSUME k + 1 \in 1 .. window_count
                 PROVE  \E q \in Used : Climbed(w, k + 1, q)
    OBVIOUS
  <2>2. k \in 1 .. window_count /\ k \in 0 .. window_count /\ k + 1 - 1 = k
    BY <1>1, <1>4, <2>1
  <2>3. PICK q \in Used : Climbed(w, k, q)
    BY <1>4, <2>2
  <2> DEFINE ws == AfterCycles[k].windows
             a == AfterCycles[k].active
  <2>4. /\ q >= k - 1 /\ ws[q] = w /\ a \in Used
        /\ \A j \in Used : j > a => ws[j].closed
    BY <2>3 DEF Climbed
  <2>5. AfterCycles[k + 1] = AfterCycle(AfterCycles[k])
    BY <1>1, <2>1, <2>2, CyclesEquation
  <2>6. AfterCycle(AfterCycles[k]) = AfterCycle([windows |-> ws, active |-> a])
    <3> DEFINE r == [windows |-> ws, active |-> a]
    <3>1. r.windows = AfterCycles[k].windows /\ r.active = AfterCycles[k].active
      OBVIOUS
    <3> HIDE DEF r
    <3>2. AfterCycle(r) = AfterCycle(AfterCycles[k])
      <4>1. AfterCycles[k].active # NULL /\ ~(window_count <= 1)
        BY <1>1, <2>4 DEF Used, NULL
      <4>2. QED  BY <3>1, <4>1, SameCycle
    <3>3. QED  BY <3>2 DEF r
  <2>7. q # a
    <3>1. ~(a # NULL /\ ws[a].id = w.id)
      BY <2>2
    <3>2. a # NULL
      BY <2>4 DEF Used, NULL
    <3> HIDE DEF a, ws
    <3>3. QED  BY <2>4, <3>1, <3>2
  <2> HIDE DEF a, ws
  <2>8. ~(q > a)
    BY <2>4
  <2>9. q \in Int /\ a \in Int /\ q < a
    BY <1>1, <2>4, <2>7, <2>8 DEF Used
  <2>10. LET st == AfterCycle([windows |-> ws, active |-> a])
         IN  /\ st.active \in Used
             /\ \A j \in Used : j > st.active => st.windows[j].closed
             /\ st.windows[q + 1] = w
    BY <1>1, <2>4, <2>7, <2>9, PressMoves
  <2>11. q + 1 \in Used /\ q + 1 >= (k + 1) - 1
    BY <1>1, <2>4, <2>9 DEF Used
  <2>12. Climbed(w, k + 1, q + 1)
    BY <2>5, <2>6, <2>10, <2>11 DEF Climbed
  <2>13. QED  BY <2>11, <2>12
<1> HIDE DEF P
<1>5. 0 \in S /\ \A n \in S : n + 1 \in S
  <2>1. 0 + 1 = 1 /\ \A n \in Nat : n = 0 \/ n >= 1
    OBVIOUS
  <2>2. ASSUME NEW n \in S  PROVE n + 1 \in S
    <3>1. n \in Nat /\ P(n)  OBVIOUS
    <3>2. CASE n = 0  BY <1>3, <3>2, <2>1
    <3>3. CASE n >= 1
      <4>1. P(n + 1)  BY <1>4, <3>1, <3>3
      <4>2. QED  BY <3>1, <4>1
    <3>4. QED  BY <2>1, <3>1, <3>2, <3>3
  <2>3. QED  BY <1>2, <2>2
<1>6. S = Nat
  BY <1>5, SetInduction
<1>7. QED  BY <1>6 DEF P

(* In whatever order the windows are, closed ones between them, pressing   *)
(* Alt+Tab (wm_cycle_depth) at most window_count times in a row gives the  *)
(* focus to each open window.                                              *)
THEOREM AltTabAlwaysReaches == Spec => []AltTabReachesAll
<1>1. WmInv => AltTabReachesAll
  <2>1. SUFFICES ASSUME WmInv, NEW i \in Used, ~windows[i].closed,
                        \A k \in 0 .. window_count :
                          LET st == AfterCycles[k]
                          IN  ~(st.active # NULL /\ st.windows[st.active].id = windows[i].id)
                 PROVE  FALSE
    BY Zenon DEF AltTabReachesAll, Open
  <2>2. TypeOK /\ window_count \in Nat /\ window_count > 0
    BY <2>1 DEF WmInv, TypeOK, Used
  <2>3. active_window \in Used
    BY <2>1 DEF WmInv, FocusInv
  <2>4. AfterCycles[0].active = active_window /\ AfterCycles[0].windows = windows
    BY <2>2, CyclesEquation
  <2>5. i # active_window
    <3>1. 0 \in 0 .. window_count
      BY <2>2
    <3>2. ~(AfterCycles[0].active # NULL /\ AfterCycles[0].windows[AfterCycles[0].active].id = windows[i].id)
      BY <2>1, <3>1
    <3>3. active_window # NULL
      BY <2>3 DEF Used, NULL
    <3>4. QED  BY <2>4, <3>2, <3>3
  <2>6. window_count > 1
    BY <2>2, <2>3, <2>5 DEF Used
  <2>7. PICK q \in Used : Climbed(windows[i], window_count, q)
    <3>1. window_count \in 1 .. window_count
      BY <2>2
    <3>2. QED  BY <2>1, <2>6, <3>1, Climbs
  <2> DEFINE ws == AfterCycles[window_count].windows
             a == AfterCycles[window_count].active
  <2>8. q >= window_count - 1 /\ ws[q] = windows[i] /\ a \in Used
        /\ \A j \in Used : j > a => ws[j].closed
    BY <2>7 DEF Climbed
  <2>9. ~(a # NULL /\ ws[a].id = windows[i].id)
    <3>1. window_count \in 0 .. window_count
      BY <2>2
    <3>2. QED  BY <2>1, <3>1
  <2> HIDE DEF a, ws
  <2>10. q = a
    <3>1. ~(q > a)  BY <2>1, <2>8
    <3>2. QED  BY <2>2, <2>8, <3>1 DEF Used
  <2>11. a # NULL
    BY <2>8 DEF Used, NULL
  <2>12. QED  BY <2>8, <2>9, <2>10, <2>11
<1>2. QED  BY <1>1, WmInvInvariant, PTL
=============================================================================
