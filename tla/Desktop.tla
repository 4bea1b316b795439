------------------------------ MODULE Desktop -------------------------------
(***************************************************************************)
(* shell/shell.c: one pass of the desktop loop after another.  The pass    *)
(* samples the buttons and the modifier keys again and again, and the      *)
(* interrupt handlers of drivers/ps2.c change them between two samples:    *)
(* every read of mouse_b_left that may see a new value is a step.  It is   *)
(* not volatile, and the two uses of it in one test are one load           *)
(* (shell/shell.o); a call between two uses makes them two loads.          *)
(*                                                                         *)
(* The pointer may move between two tests of its position, so what it is   *)
(* over is chosen anew by each step.  Of the window manager this module    *)
(* keeps whether there is an open active window and whether one is being   *)
(* dragged (module WindowManager has the rest), of the windows' contents   *)
(* that a click there may launch an application.                           *)
(***************************************************************************)
VARIABLES
  mouse_b_left, mouse_b_right,  \* written by handle_mouse
  super_pressed, alt_pressed,   \* written by handle_kbd
  last_mbl, last_mbr, last_super,
  pc,                           \* where the pass is
  dragging_icon,                \* dragging_icon_idx is not -1
  dragging_window,              \* dragging_window_idx is not -1
  has_active,                   \* wm_get_active() is a window that is not closed
  start_menu_visible, menu_visible, task_switcher_visible,
  full_redraw,
  shown,                        \* history: the menus as they were drawn last
  fresh                         \* history: a press since the loop last acted on one

input == <<mouse_b_left, mouse_b_right, super_pressed, alt_pressed>>
last == <<last_mbl, last_mbr, last_super>>
drags == <<dragging_icon, dragging_window>>
menus == <<start_menu_visible, menu_visible, task_switcher_visible>>
vars == <<input, last, pc, drags, has_active, menus, full_redraw, shown, fresh>>

Init ==
  /\ mouse_b_left = FALSE /\ mouse_b_right = FALSE
  /\ super_pressed = FALSE /\ alt_pressed = FALSE
  /\ last_mbl = FALSE /\ last_mbr = FALSE /\ last_super = FALSE
  /\ pc = "keys"
  /\ dragging_icon = FALSE /\ dragging_window = FALSE
  /\ has_active = TRUE          \* the terminal is launched first
  /\ start_menu_visible = FALSE /\ menu_visible = FALSE /\ task_switcher_visible = FALSE
  /\ full_redraw = TRUE
  /\ shown = <<FALSE, FALSE, FALSE>>
  /\ fresh = FALSE
-----------------------------------------------------------------------------
(* The interrupt handlers: a mouse packet sets both buttons.               *)
mouse_packet(left, right) ==
  /\ mouse_b_left' = left
  /\ mouse_b_right' = right
  /\ fresh' = (fresh \/ (left /\ ~mouse_b_left))
  /\ UNCHANGED <<super_pressed, alt_pressed, last, pc, drags, has_active, menus, full_redraw, shown>>

super_key ==
  /\ super_pressed' = ~super_pressed
  /\ UNCHANGED <<mouse_b_left, mouse_b_right, alt_pressed, last, pc, drags, has_active, menus, full_redraw, shown, fresh>>

alt_key ==
  /\ alt_pressed' = ~alt_pressed
  /\ UNCHANGED <<mouse_b_left, mouse_b_right, super_pressed, last, pc, drags, has_active, menus, full_redraw, shown, fresh>>
-----------------------------------------------------------------------------
(* Super opens and closes the start menu, Alt shows the task switcher, and *)
(* Tab with it cycles the windows.                                         *)
keys(tab) ==
  LET toggled == super_pressed /\ ~last_super
  IN  /\ pc = "keys"
      /\ tab => alt_pressed
      /\ start_menu_visible' = (start_menu_visible # toggled)
      /\ last_super' = super_pressed
      /\ task_switcher_visible' = alt_pressed
      /\ has_active' \in IF tab THEN BOOLEAN ELSE {has_active}
      /\ full_redraw' = (full_redraw \/ toggled \/ tab \/ (alt_pressed # task_switcher_visible))
      /\ pc' = "track"
      /\ UNCHANGED <<input, last_mbl, last_mbr, drags, menu_visible, shown, fresh>>

(* "Change tracking"                                                       *)
track ==
  /\ pc = "track"
  /\ full_redraw' = (full_redraw \/ mouse_b_left \/ mouse_b_right \/ last_mbl \/ last_mbr)
  /\ pc' = "icons"
  /\ UNCHANGED <<input, last, drags, has_active, menus, shown, fresh>>

icons_NoReset ==
  /\ pc = "icons"
  /\ full_redraw' = (full_redraw \/ (mouse_b_left /\ dragging_icon))
  /\ pc' = IF mouse_b_left /\ ~dragging_icon THEN "icon_edge" ELSE "wm"
  /\ UNCHANGED <<input, last, drags, has_active, menus, shown, fresh>>

(* Icons: the one being dragged follows the pointer, a release drops it.   *)
icons ==
  /\ pc = "icons"
  /\ dragging_icon' = (dragging_icon /\ mouse_b_left)
  /\ full_redraw' = (full_redraw \/ dragging_icon')
  /\ pc' = IF mouse_b_left /\ ~dragging_icon THEN "icon_edge" ELSE "wm"
  /\ UNCHANGED <<input, last, dragging_window, has_active, menus, shown, fresh>>

(* The button is read again for the edge that may start a drag.            *)
icon_edge(on_active, on_icon) ==
  /\ pc = "icon_edge"
  /\ on_active => has_active
  /\ dragging_icon' = (on_icon /\ ~on_active /\ mouse_b_left # last_mbl)
  /\ pc' = "wm"
  /\ UNCHANGED <<input, last, dragging_window, has_active, menus, full_redraw, shown, fresh>>

wm_handle_mouse(left) ==
  IF ~left THEN dragging_window' = FALSE /\ UNCHANGED has_active
  ELSE IF dragging_window THEN UNCHANGED <<dragging_window, has_active>>
  ELSE dragging_window' \in BOOLEAN /\ has_active' \in BOOLEAN

(* The window manager sees the button unless an icon is being dragged; a   *)
(* pointer that moves over the start menu has it redrawn.                  *)
wm(hover) ==
  /\ pc = "wm"
  /\ hover => start_menu_visible
  /\ IF dragging_icon THEN UNCHANGED <<dragging_window, has_active>>
     ELSE wm_handle_mouse(mouse_b_left)
  /\ full_redraw' = (full_redraw \/ hover)
  /\ pc' = "click"
  /\ UNCHANGED <<input, last, dragging_icon, menus, shown, fresh>>
-----------------------------------------------------------------------------
(* A click.  app->launch adds a window, unless there is no slot left.      *)
Launch == has_active' \in {has_active, TRUE}

(* "Check context menu clicks first if visible": refresh, wallpaper,       *)
(* settings, or nothing; the menu is gone afterwards.                      *)
ContextMenuClick ==
  /\ menu_visible
  /\ menu_visible' = FALSE
  /\ Launch
  /\ full_redraw' = TRUE
  /\ UNCHANGED start_menu_visible

IconClick ==
  /\ Launch
  /\ start_menu_visible' = FALSE
  /\ full_redraw' = TRUE

StartButtonClick ==
  /\ start_menu_visible' = ~start_menu_visible
  /\ full_redraw' = TRUE
  /\ UNCHANGED has_active

StartMenuClick ==
  /\ start_menu_visible
  /\ start_menu_visible' = FALSE
  /\ Launch
  /\ full_redraw' = TRUE

(* A taskbar button, the content of the active window (settings, player,   *)
(* File Explorer), or neither; right of the start menu it closes that.     *)
ElsewhereClick_NoRedraw ==
  \E hit, right_of_menu \in BOOLEAN :
    /\ IF hit THEN Launch ELSE UNCHANGED has_active
    /\ start_menu_visible' = (start_menu_visible /\ ~right_of_menu)
    /\ full_redraw' = (full_redraw \/ hit)

ElsewhereClick ==
  \E hit, right_of_menu \in BOOLEAN :
    /\ IF hit THEN Launch ELSE UNCHANGED has_active
    /\ start_menu_visible' = (start_menu_visible /\ ~right_of_menu)
    /\ full_redraw' = (full_redraw \/ hit \/ (start_menu_visible /\ right_of_menu))

ClickEdge_NotOnDrag == mouse_b_left /\ ~last_mbl /\ ~dragging_icon

ClickEdge == mouse_b_left /\ ~last_mbl

click ==
  /\ pc = "click"
  /\ IF ClickEdge
     THEN /\ fresh' = FALSE
          /\ \/ ContextMenuClick
             \/ /\ ~menu_visible
                /\ IconClick \/ StartButtonClick \/ StartMenuClick \/ ElsewhereClick
                /\ UNCHANGED menu_visible
     ELSE UNCHANGED <<fresh, has_active, start_menu_visible, menu_visible, full_redraw>>
  /\ pc' = "right"
  /\ UNCHANGED <<input, last, drags, task_switcher_visible, shown>>

right ==
  /\ pc = "right"
  /\ LET edge == mouse_b_right /\ ~last_mbr
     IN  /\ menu_visible' = (menu_visible \/ edge)
         /\ full_redraw' = (full_redraw \/ edge)
  /\ pc' = "dispatch"
  /\ UNCHANGED <<input, last, drags, has_active, start_menu_visible, task_switcher_visible, shown, fresh>>

(* A key goes to the active window's application, which may launch another *)
(* one or close its own window.                                            *)
dispatch(key) ==
  /\ pc = "dispatch"
  /\ full_redraw' = (full_redraw \/ key)
  /\ has_active' \in IF key /\ has_active THEN BOOLEAN ELSE {has_active}
  /\ pc' = "draw"
  /\ UNCHANGED <<input, last, drags, menus, shown, fresh>>

(* The compositing pass; without full_redraw only the pointer is drawn.    *)
draw ==
  /\ pc = "draw"
  /\ shown' = IF full_redraw THEN menus ELSE shown
  /\ full_redraw' = FALSE
  /\ pc' = "save"
  /\ UNCHANGED <<input, last, drags, has_active, menus, fresh>>

save_OnlyRight ==
  /\ pc = "save"
  /\ last_mbr' = mouse_b_right
  /\ pc' = "keys"
  /\ UNCHANGED <<input, last_mbl, last_super, drags, has_active, menus, full_redraw, shown, fresh>>

(* The buttons are read once more, then the loop sleeps.                   *)
save ==
  /\ pc = "save"
  /\ last_mbl' = mouse_b_left
  /\ last_mbr' = mouse_b_right
  /\ pc' = "keys"
  /\ UNCHANGED <<input, last_super, drags, has_active, menus, full_redraw, shown, fresh>>

Interrupts == super_key \/ alt_key \/ \E l, r \in BOOLEAN : mouse_packet(l, r)

Pass ==
  \/ \E tab \in BOOLEAN : keys(tab)
  \/ track \/ icons
  \/ \E a, i \in BOOLEAN : icon_edge(a, i)
  \/ \E hover \in BOOLEAN : wm(hover)
  \/ click \/ right
  \/ \E key \in BOOLEAN : dispatch(key)
  \/ draw \/ save

Next == Interrupts \/ Pass

Spec == Init /\ [][Next]_vars

(* The loop is the only thread, and every sleep() returns.                 *)
FairSpec == Spec /\ WF_vars(Pass)
-----------------------------------------------------------------------------
(* Properties.                                                             *)

Pcs == {"keys", "track", "icons", "icon_edge", "wm", "click", "right", "dispatch", "draw", "save"}

(* Type correctness.  A pass ends with nothing left to be redrawn.         *)
TypeOK ==
  /\ mouse_b_left \in BOOLEAN /\ mouse_b_right \in BOOLEAN
  /\ super_pressed \in BOOLEAN /\ alt_pressed \in BOOLEAN
  /\ last_mbl \in BOOLEAN /\ last_mbr \in BOOLEAN /\ last_super \in BOOLEAN
  /\ pc \in Pcs
  /\ dragging_icon \in BOOLEAN /\ dragging_window \in BOOLEAN
  /\ has_active \in BOOLEAN
  /\ start_menu_visible \in BOOLEAN /\ menu_visible \in BOOLEAN
  /\ task_switcher_visible \in BOOLEAN
  /\ full_redraw \in BOOLEAN
  /\ fresh \in BOOLEAN
  /\ pc = "save" => ~full_redraw

(* One press is at most one click: whenever the loop acts on the button,   *)
(* it was pressed since the loop acted on it last, although every sample   *)
(* of it may give another value.                                           *)
OneActPerPress == [][click /\ ClickEdge => fresh]_vars

(* The menus on the screen when a pass begins are those its clicks are     *)
(* tested against: whatever opens or closes one also has it redrawn.       *)
MenusAreShown == pc = "keys" => shown = menus

(* With the button released no drag goes on.                               *)
DragsEnd == (dragging_icon \/ dragging_window) /\ ~mouse_b_left
              ~> (~dragging_icon /\ ~dragging_window) \/ mouse_b_left

(* "reliable under QEMU": the loop acts on a press that is there when its  *)
(* pass begins, unless the button is released again, whatever menu, drag   *)
(* or window is under the pointer.  A press that comes later in the pass   *)
(* than the test of the button is stored by save as seen, and lost.        *)
PressAtPassIsSeen ==
  pc = "keys" /\ fresh /\ mouse_b_left /\ ~last_mbl ~> ~fresh \/ ~mouse_b_left
=============================================================================
