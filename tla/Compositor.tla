----------------------------- MODULE Compositor -----------------------------
(***************************************************************************)
(* gui/fb.c and the drawing part of the desktop loop (shell/shell.c): the  *)
(* frame is composed in a back buffer, kept as the desktop, the cursor is  *)
(* drawn over it, and only rows that differ from a copy of the screen are  *)
(* copied to the screen.  When only the mouse moved, the cursor is erased  *)
(* from the back buffer with the pixels saved under it and drawn anew.     *)
(*                                                                         *)
(* fb_alloc_buffers takes four blocks of Width * Height pixels, one behind *)
(* the other; drawing uses rows of Stride (fb_pitch / 4) pixels.  ram is   *)
(* that memory with the pixels a padded last buffer reaches.  The contents *)
(* of the frame are a scene: the pixels that icons, windows, bars and      *)
(* menus cover.  mouse_x and mouse_y are loaded one by one while the       *)
(* interrupt handler changes them; the loads are those of shell/shell.o.   *)
(***************************************************************************)
EXTENDS Integers, Functions

CONSTANTS Width, Height, Stride,
          Backup,       \* side of the square saved under the cursor: 32
          Arrow, Tail,  \* the cursor: offset to colour
          TailReach,    \* <<10, 15>>: the tail is drawn if this offset is on the screen
          Scenes,       \* what is drawn over the wallpaper: pixel to colour or Clear
          Papers,       \* colours of the wallpapers
          BootScreens,  \* colours the boot loader may leave on the screen
          MaxMove,      \* bound: how far one packet moves the mouse
          Black, Grey,  \* 0x000000, 0x111111
          Clear, Junk

Pixels == (0 .. Width - 1) \X (0 .. Height - 1)
Coords == {1, 2}

SizesOK ==
  /\ Width \in Nat \ {0} /\ Height \in Nat \ {0}
  /\ Stride \in Width .. 2 * Width
  /\ Backup \in Nat /\ MaxMove \in Nat
CursorFits ==     \* into what is saved
  \A o \in DOMAIN Arrow \cup DOMAIN Tail : o[1] \in 0 .. Backup - 1 /\ o[2] \in 0 .. Backup - 1

VARIABLES
  ram, vga,
  backup,                 \* pixel to colour saved under the cursor; none if backup_x is -1
  mouse,                  \* <<mouse_x, mouse_y>>
  last,                   \* <<last_mx, last_my>>
  pc, full_redraw,
  drawing,                \* this pass has composed a frame
  loaded,                 \* coordinates loaded so far
  paper,                  \* colour of the wallpaper
  frame, at               \* history: the frame composed last and where the cursor was drawn

vars == <<ram, vga, backup, mouse, last, pc, full_redraw, drawing, loaded, paper, frame, at>>

BufferSize == Width * Height
BackBuffer == 0
WallpaperCache == BufferSize
DesktopBuffer == 2 * BufferSize
FrontBufferCopy == 3 * BufferSize
Ram == 0 .. 4 * BufferSize + (Stride - Width) * Height - 1

Address(buffer, p) == buffer + p[2] * Stride + p[1]
None == [p \in {} |-> Black]
Nowhere == <<-1, -1>>

(* fb_plot, fb_rect, fb_clear: colours at some pixels of a buffer.         *)
Plot(r, buffer, colours) ==
  [a \in Ram |->
     IF \E p \in DOMAIN colours : a = Address(buffer, p)
     THEN colours[CHOOSE p \in DOMAIN colours : a = Address(buffer, p)]
     ELSE r[a]]

(* memcpy32 of a whole buffer.                                             *)
Copy(r, from, to) ==
  [a \in Ram |-> IF a \in to .. to + BufferSize - 1 THEN r[from + (a - to)] ELSE r[a]]

Solid(colour) == [p \in Pixels |-> colour]

(* fb_alloc_buffers, fb_clear and fb_render_wallpaper of kernel_main.      *)
BootRam ==
  LET allocated == [a \in Ram |-> IF a - FrontBufferCopy \in 0 .. BufferSize - 1 THEN Black ELSE Junk]
  IN  Plot(Plot(allocated, BackBuffer, Solid(Grey)), WallpaperCache, Solid(paper))

Init ==
  /\ paper \in Papers
  /\ ram = BootRam
  /\ \E c \in BootScreens : vga = Solid(c)
  /\ backup = None
  /\ mouse \in Pixels
  /\ last = Nowhere
  /\ pc = "pass" /\ full_redraw = TRUE /\ drawing = FALSE
  /\ loaded = None
  /\ frame = None /\ at = Nowhere
-----------------------------------------------------------------------------
(* handle_mouse, in the interrupt handler.                                 *)
Clamp(v, max) == IF v < 0 THEN 0 ELSE IF v > max THEN max ELSE v

mouse_moves(dx, dy) ==
  /\ mouse' = <<Clamp(mouse[1] + dx, Width - 1), Clamp(mouse[2] + dy, Height - 1)>>
  /\ UNCHANGED <<ram, vga, backup, last, pc, full_redraw, drawing, loaded, paper, frame, at>>
-----------------------------------------------------------------------------
(* Clicks and keys ask for a redraw; some change the wallpaper first.      *)
request_redraw ==
  /\ pc = "pass"
  /\ full_redraw' = TRUE
  /\ UNCHANGED <<ram, vga, backup, mouse, last, pc, drawing, loaded, paper, frame, at>>

fb_render_wallpaper(colour) ==
  /\ pc = "pass"
  /\ paper' = colour
  /\ ram' = Plot(ram, WallpaperCache, Solid(colour))
  /\ full_redraw' = TRUE
  /\ UNCHANGED <<vga, backup, mouse, last, pc, drawing, loaded, frame, at>>

Covered(scene) == {p \in Pixels : scene[p] # Clear}

compose_KeepsBackup(scene) ==
  LET painted == Plot(Copy(ram, WallpaperCache, BackBuffer), BackBuffer, Restrict(scene, Covered(scene)))
  IN  /\ pc = "pass" /\ full_redraw
      /\ ram' = Copy(painted, BackBuffer, DesktopBuffer)
      /\ frame' = [p \in Pixels |-> IF p \in Covered(scene) THEN scene[p] ELSE paper]
      /\ drawing' = TRUE
      /\ pc' = "load"
      /\ UNCHANGED <<vga, backup, mouse, last, full_redraw, loaded, paper, at>>

(* fb_reset_cursor_backup, fb_clear_to_wallpaper, the drawing of all       *)
(* parts, fb_commit_desktop.                                               *)
compose(scene) ==
  LET painted == Plot(Copy(ram, WallpaperCache, BackBuffer), BackBuffer, Restrict(scene, Covered(scene)))
  IN  /\ pc = "pass" /\ full_redraw
      /\ backup' = None
      /\ ram' = Copy(painted, BackBuffer, DesktopBuffer)
      /\ frame' = [p \in Pixels |-> IF p \in Covered(scene) THEN scene[p] ELSE paper]
      /\ drawing' = TRUE
      /\ pc' = "load"
      /\ UNCHANGED <<vga, mouse, last, full_redraw, loaded, paper, at>>

no_redraw ==
  /\ pc = "pass" /\ ~full_redraw
  /\ drawing' = FALSE
  /\ pc' = "load"
  /\ UNCHANGED <<ram, vga, backup, mouse, last, full_redraw, loaded, paper, frame, at>>

load(c) ==
  /\ pc \in {"load", "save"}
  /\ c \notin DOMAIN loaded
  /\ loaded' = [i \in DOMAIN loaded \cup {c} |-> IF i = c THEN mouse[c] ELSE loaded[i]]
  /\ UNCHANGED <<ram, vga, backup, mouse, last, pc, full_redraw, drawing, paper, frame, at>>

Loaded == <<loaded[1], loaded[2]>>

Saved(x, y) == {p \in Pixels : p[1] \in x .. x + Backup - 1 /\ p[2] \in y .. y + Backup - 1}

Cursor(x, y) ==
  LET tail == <<x + TailReach[1], y + TailReach[2]>> \in Pixels
      Colour(o) == IF o \in DOMAIN Arrow THEN Arrow[o] ELSE Tail[o]
      offsets == {o \in DOMAIN Arrow \cup DOMAIN Tail : o \in DOMAIN Arrow \/ tail}
  IN  [p \in {q \in Pixels : <<q[1] - x, q[2] - y>> \in offsets} |-> Colour(<<p[1] - x, p[2] - y>>)]

(* fb_show_cursor hides the cursor, saves what will be under it, draws it. *)
fb_hide_cursor == Plot(ram, BackBuffer, backup)

Moved_OnlyAcross == loaded[1] # last[1]
Moved == Loaded # last

fb_show_cursor ==
  LET x == loaded[1]  y == loaded[2]
      hidden == fb_hide_cursor
  IN  /\ pc = "load" /\ DOMAIN loaded = Coords
      /\ drawing \/ Moved
      /\ backup' = [p \in Saved(x, y) |-> hidden[Address(BackBuffer, p)]]
      /\ ram' = Plot(hidden, BackBuffer, Cursor(x, y))
      /\ at' = <<x, y>>
      /\ pc' = "swap"
      /\ UNCHANGED <<vga, mouse, last, full_redraw, drawing, loaded, paper, frame>>

not_moved ==
  /\ pc = "load" /\ DOMAIN loaded = Coords
  /\ ~drawing /\ ~Moved
  /\ loaded' = None
  /\ pc' = "pass"
  /\ UNCHANGED <<ram, vga, backup, mouse, last, full_redraw, drawing, paper, frame, at>>

(* In each row everything between the first and the last pixel that differ *)
(* from the copy of the screen is copied.                                  *)
Differs(p) == ram[Address(BackBuffer, p)] # ram[Address(FrontBufferCopy, p)]
Dirty ==
  {p \in Pixels : \E q, r \in Pixels :
     /\ q[2] = p[2] /\ r[2] = p[2] /\ q[1] <= p[1] /\ p[1] <= r[1]
     /\ Differs(q) /\ Differs(r)}

fb_swap ==
  LET changed == [p \in Dirty |-> ram[Address(BackBuffer, p)]]
  IN  /\ pc = "swap"
      /\ vga' = [p \in Pixels |-> IF p \in Dirty THEN changed[p] ELSE vga[p]]
      /\ ram' = Plot(ram, FrontBufferCopy, changed)
      /\ full_redraw' = (full_redraw /\ ~drawing)
      /\ loaded' = None
      /\ pc' = "save"
      /\ UNCHANGED <<backup, mouse, last, drawing, paper, frame, at>>

save ==
  /\ pc = "save" /\ DOMAIN loaded = Coords
  /\ last' = Loaded
  /\ loaded' = None
  /\ pc' = "pass"
  /\ UNCHANGED <<ram, vga, backup, mouse, full_redraw, drawing, paper, frame, at>>

Pass ==
  \/ \E scene \in Scenes : compose(scene)
  \/ no_redraw
  \/ \E c \in Coords : load(c)
  \/ fb_show_cursor \/ not_moved \/ fb_swap \/ save

Next ==
  \/ \E dx, dy \in -MaxMove .. MaxMove : mouse_moves(dx, dy)
  \/ request_redraw
  \/ \E colour \in Papers : fb_render_wallpaper(colour)
  \/ Pass

Spec == Init /\ [][Next]_vars

(* The desktop loop never stops.  Some step of Pass is always enabled and  *)
(* each one changes pc or loaded, which no other action does, so this is   *)
(* WF_vars(Pass) in a form that is cheap to evaluate.                      *)
FairSpec == Spec /\ []<><<pc' # pc \/ loaded' # loaded>>_vars
-----------------------------------------------------------------------------
(* Properties.                                                             *)

(* Type correctness; the mouse stays on the screen.                        *)
TypeOK ==
  /\ mouse \in Pixels
  /\ last \in Pixels \cup {Nowhere} /\ at \in Pixels \cup {Nowhere}
  /\ pc \in {"pass", "load", "swap", "save"}
  /\ full_redraw \in BOOLEAN /\ drawing \in BOOLEAN
  /\ DOMAIN loaded \subseteq Coords
  /\ DOMAIN backup \subseteq Pixels

(* "mathematically erasing cursors/menus in memory": after every swap the  *)
(* screen shows the frame composed last and one whole cursor, nothing of   *)
(* an earlier frame and nothing of the cursor where it was before.         *)
Picture == [p \in Pixels |-> IF p \in DOMAIN Cursor(at[1], at[2]) THEN Cursor(at[1], at[2])[p] ELSE frame[p]]
ScreenIsFrame ==
  frame # None /\ pc \in {"pass", "save"} => vga = Picture

(* "Cache desktop surface before cursor": the desktop buffer holds the     *)
(* frame composed last, without any cursor.                                *)
DesktopIsFrame ==
  frame # None => \A p \in Pixels : ram[Address(DesktopBuffer, p)] = frame[p]

(* "zero-latency desktop compositing": a mouse that is somewhere else than *)
(* saved when a pass begins, and stays there, gets the cursor.  A packet   *)
(* that arrives between the drawing of the cursor and save is saved as     *)
(* drawn: the cursor then waits for the next packet.                       *)
MovedCursorIsDrawn ==
  \A p \in Pixels : pc = "pass" /\ mouse = p /\ last # p ~> at = p \/ mouse # p
=============================================================================
