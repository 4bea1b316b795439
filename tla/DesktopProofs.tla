--------------------------- MODULE DesktopProofs ----------------------------
(***************************************************************************)
(* Proofs about the desktop loop and the screen it draws.                  *)
(*                                                                         *)
(* The loop.  A press that it has not acted on is told from one it has by  *)
(* last_mbl alone, so the argument follows the pass: up to the test of the *)
(* click, a button that is down and was up when it was saved is a button   *)
(* pressed since.                                                          *)
(*                                                                         *)
(* The screen.  ScreenInv says what each of the four buffers holds between *)
(* the steps of a pass: above all that what the back buffer lacks of the   *)
(* frame lies beneath the cursor and is in its backup.                     *)
(***************************************************************************)
EXTENDS MCDesktop, TLAPS

BeforeClick == {"keys", "track", "icons", "icon_edge", "wm", "click"}

PressInv == pc \in BeforeClick /\ ClickEdge => fresh

(* Until it is drawn, a change of a menu is remembered by full_redraw.     *)
RedrawInv ==
  /\ full_redraw \/ shown = menus
  /\ pc \in {"keys", "save"} => shown = menus

Inv == TypeOK /\ PressInv /\ RedrawInv

LEMMA InitInv == Init => Inv
BY DEF Init, Inv, TypeOK, PressInv, RedrawInv, BeforeClick, ClickEdge, Pcs,
       input, last, drags, menus

(* The interrupt handlers: only a press makes the button go down.          *)
LEMMA InterruptStep == Inv /\ Interrupts => Inv'
<1>1. ASSUME Inv, NEW l \in BOOLEAN, NEW r \in BOOLEAN, mouse_packet(l, r)  PROVE Inv'
  BY <1>1 DEF Inv, TypeOK, PressInv, RedrawInv, BeforeClick, ClickEdge, Pcs, mouse_packet,
              input, last, drags, menus
<1>2. ASSUME Inv, super_key  PROVE Inv'
  <2>1. super_pressed' \in BOOLEAN  BY <1>2, Zenon DEF super_key
  <2>2. QED
    BY <1>2, <2>1 DEF Inv, TypeOK, PressInv, RedrawInv, BeforeClick, ClickEdge, Pcs, super_key,
              input, last, drags, menus
<1>3. ASSUME Inv, alt_key  PROVE Inv'
  <2>1. alt_pressed' \in BOOLEAN  BY <1>3, Zenon DEF alt_key
  <2>2. QED
    BY <1>3, <2>1 DEF Inv, TypeOK, PressInv, RedrawInv, BeforeClick, ClickEdge, Pcs, alt_key,
              input, last, drags, menus
<1>4. QED  BY <1>1, <1>2, <1>3 DEF Interrupts

(* The first half of a pass, up to the window manager.                     *)
LEMMA SampleStep ==
  ASSUME Inv,
         \/ \E tab \in BOOLEAN : keys(tab)
         \/ track \/ icons
         \/ \E a, i \in BOOLEAN : icon_edge(a, i)
         \/ \E hover \in BOOLEAN : wm(hover)
  PROVE  Inv'
<1> USE DEF Inv, TypeOK, PressInv, RedrawInv, BeforeClick, ClickEdge, Pcs, input, last, drags, menus
<1>1. ASSUME NEW tab \in BOOLEAN, keys(tab)  PROVE Inv'
  BY <1>1 DEF keys
<1>2. CASE track  BY <1>2 DEF track
<1>3. CASE icons  BY <1>3 DEF icons
<1>4. ASSUME NEW a \in BOOLEAN, NEW i \in BOOLEAN, icon_edge(a, i)  PROVE Inv'
  BY <1>4 DEF icon_edge
<1>5. ASSUME NEW hover \in BOOLEAN, wm(hover)  PROVE Inv'
  <2>1. dragging_window' \in BOOLEAN /\ has_active' \in BOOLEAN
    BY <1>5 DEF wm, wm_handle_mouse
  <2>2. QED  BY <1>5, <2>1 DEF wm
<1>6. QED  BY <1>1, <1>2, <1>3, <1>4, <1>5

(* A click: whatever it does to a menu, it asks for a redraw.              *)
LEMMA ClickStep == Inv /\ click => Inv'
<1> SUFFICES ASSUME Inv, click  PROVE Inv'
  OBVIOUS
<1> USE DEF Inv, TypeOK, PressInv, RedrawInv, BeforeClick, ClickEdge, Pcs, input, last, drags, menus
<1>1. CASE ~ClickEdge  BY <1>1 DEF click
<1>2. CASE ClickEdge
  <2>1. /\ has_active' \in BOOLEAN
        /\ start_menu_visible' \in BOOLEAN
        /\ menu_visible' \in BOOLEAN
        /\ full_redraw' \in BOOLEAN
        /\ full_redraw' \/ (full_redraw' = full_redraw /\ menus' = menus)
    <3>1. CASE ContextMenuClick  BY <3>1, <1>2 DEF click, ContextMenuClick, Launch
    <3>2. CASE IconClick /\ UNCHANGED menu_visible  BY <3>2, <1>2 DEF click, IconClick, Launch
    <3>3. CASE StartButtonClick /\ UNCHANGED menu_visible
      <4>1. start_menu_visible' \in BOOLEAN  BY <3>3, Zenon DEF StartButtonClick
      <4>2. QED  BY <3>3, <4>1, <1>2 DEF click, StartButtonClick
    <3>4. CASE StartMenuClick /\ UNCHANGED menu_visible
      BY <3>4, <1>2 DEF click, StartMenuClick, Launch
    <3>5. CASE ElsewhereClick /\ UNCHANGED menu_visible
      BY <3>5, <1>2 DEF click, ElsewhereClick, Launch
    <3>6. QED  BY <1>2, <3>1, <3>2, <3>3, <3>4, <3>5 DEF click
  <2>2. /\ fresh' = FALSE
        /\ pc' = "right"
        /\ UNCHANGED <<input, last, drags, task_switcher_visible, shown>>
    BY <1>2 DEF click
  <2>3. TypeOK' /\ PressInv'  BY <2>1, <2>2
  <2>4. RedrawInv'  BY <2>1, <2>2
  <2>5. QED  BY <2>3, <2>4
<1>3. QED  BY <1>1, <1>2

(* After the compositing pass the menus on the screen are current.         *)
LEMMA DrawShows == Inv /\ draw => shown' = menus'
BY Zenon DEF Inv, RedrawInv, draw

(* The second half: the right button, keys, drawing, and the samples the   *)
(* next pass compares with.                                                *)
LEMMA RestStep ==
  ASSUME Inv, right \/ (\E key \in BOOLEAN : dispatch(key)) \/ draw \/ save
  PROVE  Inv'
<1> USE DEF Inv, TypeOK, PressInv, RedrawInv, BeforeClick, ClickEdge, Pcs, input, last, drags, menus
<1>1. CASE right  BY <1>1 DEF right
<1>2. ASSUME NEW key \in BOOLEAN, dispatch(key)  PROVE Inv'
  BY <1>2 DEF dispatch
<1>3. CASE draw
  <2>1. shown' = menus'  BY <1>3, DrawShows
  <2>2. full_redraw' = FALSE /\ pc' = "save" /\ UNCHANGED <<input, last, drags, has_active, menus, fresh>>
    BY <1>3 DEF draw
  <2>3. TypeOK'
    <3>1. full_redraw' \in BOOLEAN /\ ~full_redraw'  BY <2>2, Zenon
    <3>2. pc' = "save" /\ UNCHANGED <<input, last, drags, has_active, menus, fresh>>  BY <2>2
    <3>3. QED  BY <3>1, <3>2
  <2>4. PressInv'  BY <2>2
  <2>5. RedrawInv'  BY <2>1, <2>2
  <2>6. QED  BY <2>3, <2>4, <2>5
<1>4. CASE save  BY <1>4 DEF save
<1>5. QED  BY <1>1, <1>2, <1>3, <1>4

LEMMA NextInv == Inv /\ [Next]_vars => Inv'
<1>1. Inv /\ Pass => Inv'
  BY SampleStep, ClickStep, RestStep DEF Pass
<1>2. Inv /\ UNCHANGED vars => Inv'
  BY DEF vars, Inv, TypeOK, PressInv, RedrawInv, BeforeClick, ClickEdge, input, last, drags, menus
<1>3. QED  BY <1>1, <1>2, InterruptStep DEF Next

(* Inv holds in every state of the desktop loop.                           *)
LEMMA InvHolds == Spec => []Inv
BY InitInv, NextInv, PTL DEF Spec

(* Type correctness of the desktop loop's state, and no redraw is left     *)
(* over when a pass of shell_loop ends.                                    *)
THEOREM TypeCorrect == Spec => []TypeOK
<1>1. Inv => TypeOK  BY DEF Inv
<1>2. QED  BY <1>1, InvHolds, PTL

(* The menus a pass tests its clicks against are the ones on the screen,   *)
(* for every sequence of interrupts between its reads.                     *)
THEOREM MenusCurrent == Spec => []MenusAreShown
<1>1. Inv => MenusAreShown  BY DEF Inv, RedrawInv, MenusAreShown
<1>2. QED  BY <1>1, InvHolds, PTL

(* shell_loop never takes one press for two clicks, whatever the samples   *)
(* of mouse_b_left in between give.                                        *)
THEOREM NoDoubleClicks == Spec => OneActPerPress
<1>1. Inv => [click /\ ClickEdge => fresh]_vars
  BY DEF Inv, PressInv, BeforeClick, click
<1>2. QED  BY <1>1, InvHolds, PTL DEF OneActPerPress
-----------------------------------------------------------------------------
(***************************************************************************)
(* The screen (Compositor).  On a screen without padding the four buffers  *)
(* do not meet, so an action that writes one of them leaves the others.    *)
(***************************************************************************)
Plain == Stride = Width /\ BootScreens \subseteq {Black}

Off(p) == p[2] * Width + p[1]
N == Screen!BufferSize
At(buffer, p) == Screen!Address(buffer, p)
Back == Screen!BackBuffer
Wall == Screen!WallpaperCache
Desk == Screen!DesktopBuffer
Front == Screen!FrontBufferCopy
Buffers == {Back, Wall, Desk, Front}

LEMMA PixelFacts ==
  /\ Width \in Nat /\ Width > 0 /\ Height \in Nat /\ Height > 0
  /\ Backup \in Nat /\ MaxMove \in Nat
  /\ \A p \in Screen!Pixels :
       /\ p[1] \in Nat /\ p[1] < Width
       /\ p[2] \in Nat /\ p[2] < Height
       /\ p = <<p[1], p[2]>>
  /\ \A x, y : x \in 0 .. Width - 1 /\ y \in 0 .. Height - 1 => <<x, y>> \in Screen!Pixels
BY ScreenAssumption DEF Screen!SizesOK, Screen!Pixels

LEMMA Rows ==
  ASSUME NEW a \in Nat, NEW b \in Nat, NEW w \in Nat, a < b
  PROVE  a * w + w <= b * w
<1>1. PICK d \in Nat : b = a + 1 + d
  <2>1. b - a - 1 \in Nat /\ b = a + 1 + (b - a - 1)  OBVIOUS
  <2>2. QED  BY <2>1
<1>2. b * w = a * w + w + d * w  BY <1>1
<1>3. a * w \in Nat /\ b * w \in Nat /\ d * w \in Nat  BY <1>1
<1>4. QED  BY <1>2, <1>3

(* A pixel has one place in a buffer, and no other pixel has it.           *)
LEMMA OffFacts ==
  /\ N \in Nat
  /\ \A p \in Screen!Pixels : Off(p) \in Nat /\ Off(p) < N
  /\ \A p, q \in Screen!Pixels : Off(p) = Off(q) => p = q
<1>1. N \in Nat /\ N = Height * Width
  BY PixelFacts DEF N, Screen!BufferSize
<1>2. ASSUME NEW p \in Screen!Pixels  PROVE Off(p) \in Nat /\ Off(p) < N
  <2>1. p[2] * Width + Width <= Height * Width  BY PixelFacts, Rows
  <2>2. p[2] * Width \in Nat /\ p[1] \in Nat /\ p[1] < Width /\ Width \in Nat  BY PixelFacts
  <2>3. QED  BY <1>1, <2>1, <2>2 DEF Off
<1>3. ASSUME NEW p \in Screen!Pixels, NEW q \in Screen!Pixels, Off(p) = Off(q), p[2] < q[2]
      PROVE  FALSE
  <2>1. p[2] * Width + Width <= q[2] * Width  BY <1>3, PixelFacts, Rows
  <2>2. p[2] * Width \in Nat /\ q[2] * Width \in Nat /\ p[1] \in Nat /\ p[1] < Width
        /\ Width \in Nat /\ q[1] \in Nat
    BY PixelFacts
  <2>3. QED  BY <1>3, <2>1, <2>2 DEF Off
<1>4. ASSUME NEW p \in Screen!Pixels, NEW q \in Screen!Pixels, Off(p) = Off(q)  PROVE p = q
  <2>1. p[2] = q[2]  BY <1>3, <1>4, PixelFacts
  <2>2. p[1] = q[1]
    <3>1. q[2] * Width \in Nat /\ p[1] \in Nat /\ q[1] \in Nat  BY PixelFacts
    <3>2. QED  BY <1>4, <2>1, <3>1 DEF Off
  <2>3. QED  BY <2>1, <2>2, PixelFacts, Zenon
<1>5. QED  BY <1>1, <1>2, <1>4

LEMMA Places ==
  ASSUME Plain
  PROVE  /\ Screen!Ram = 0 .. 4 * N - 1
         /\ Back = 0 /\ Wall = N /\ Desk = 2 * N /\ Front = 3 * N
         /\ \A b \in Buffers, p \in Screen!Pixels : At(b, p) = b + Off(p)
<1>1. Screen!Ram = 0 .. 4 * N - 1
  <2>1. (Stride - Width) * Height = 0  BY PixelFacts DEF Plain
  <2>2. N \in Nat  BY OffFacts
  <2>3. QED  BY <2>1, <2>2 DEF Screen!Ram, N
<1>2. Back = 0 /\ Wall = N /\ Desk = 2 * N /\ Front = 3 * N
  BY DEF Back, Wall, Desk, Front, N, Screen!BackBuffer, Screen!WallpaperCache,
         Screen!DesktopBuffer, Screen!FrontBufferCopy
<1>3. ASSUME NEW b \in Buffers, NEW p \in Screen!Pixels  PROVE At(b, p) = b + Off(p)
  <2>1. At(b, p) = b + p[2] * Width + p[1]  BY DEF At, Screen!Address, Plain
  <2>2. b \in Nat  BY <1>2, OffFacts DEF Buffers
  <2>3. p[2] * Width \in Nat /\ p[1] \in Nat  BY PixelFacts
  <2>4. QED  BY <2>1, <2>2, <2>3 DEF Off
<1>4. QED  BY <1>1, <1>2, <1>3

(* The places of the pixels: all in memory, all different.                 *)
LEMMA Apart ==
  ASSUME Plain
  PROVE  /\ \A b \in Buffers : b \in Nat
         /\ \A b \in Buffers, p \in Screen!Pixels :
              At(b, p) \in Screen!Ram /\ At(b, p) \in b .. b + N - 1
         /\ \A b, c \in Buffers, p, q \in Screen!Pixels : At(b, p) = At(c, q) => b = c /\ p = q
         /\ \A b, c \in Buffers, p \in Screen!Pixels : At(b, p) \in c .. c + N - 1 => b = c
<1> DEFINE Here(b, o) == b + o
<1>1. N \in Nat /\ Screen!Ram = 0 .. 4 * N - 1 /\ Buffers = {0, N, 2 * N, 3 * N}
  BY Places, OffFacts DEF Buffers
<1>2. \A b \in Buffers : b \in Nat  BY <1>1
<1>3. \A b \in Buffers, p \in Screen!Pixels : At(b, p) = b + Off(p) /\ Off(p) \in Nat /\ Off(p) < N
  BY Places, OffFacts
<1>4. \A b, c \in Buffers : \A o, s \in Nat : o < N /\ s < N /\ b + o = c + s => b = c /\ o = s
  <2>1. SUFFICES ASSUME NEW b \in Buffers, NEW c \in Buffers, NEW o \in Nat, NEW s \in Nat,
                        o < N, s < N, b + o = c + s
                 PROVE  b = c
    BY <1>2
  <2>2. QED  BY <2>1, <1>1
<1>5. \A b \in Buffers, p \in Screen!Pixels : At(b, p) \in Screen!Ram /\ At(b, p) \in b .. b + N - 1
  <2>1. SUFFICES ASSUME NEW b \in Buffers, NEW p \in Screen!Pixels
                 PROVE  At(b, p) \in Screen!Ram /\ At(b, p) \in b .. b + N - 1
    OBVIOUS
  <2>2. \A o \in Nat : o < N => b + o \in 0 .. 4 * N - 1 /\ b + o \in b .. b + N - 1  BY <1>1
  <2>3. QED  BY <1>1, <1>3, <2>2
<1>6. \A b, c \in Buffers, p, q \in Screen!Pixels : At(b, p) = At(c, q) => b = c /\ p = q
  <2>1. SUFFICES ASSUME NEW b \in Buffers, NEW c \in Buffers, NEW p \in Screen!Pixels,
                        NEW q \in Screen!Pixels, At(b, p) = At(c, q)
                 PROVE  b = c /\ p = q
    OBVIOUS
  <2>2. b + Off(p) = c + Off(q) /\ Off(p) \in Nat /\ Off(q) \in Nat /\ Off(p) < N /\ Off(q) < N
    BY <1>3, <2>1
  <2>3. b = c /\ Off(p) = Off(q)  BY <1>4, <2>2, Zenon
  <2>4. QED  BY <2>3, OffFacts, Zenon
<1>7. \A b, c \in Buffers, p \in Screen!Pixels : At(b, p) \in c .. c + N - 1 => b = c
  <2>1. SUFFICES ASSUME NEW b \in Buffers, NEW c \in Buffers, NEW p \in Screen!Pixels,
                        At(b, p) \in c .. c + N - 1
                 PROVE  b = c
    OBVIOUS
  <2>2. Off(p) \in Nat /\ Off(p) < N /\ At(b, p) = b + Off(p)  BY <1>3
  <2>3. b \in Nat /\ c \in Nat  BY <1>2
  <2>4. PICK s \in Nat : s < N /\ b + Off(p) = c + s
    <3>1. At(b, p) - c \in Nat /\ At(b, p) - c < N /\ b + Off(p) = c + (At(b, p) - c)
      BY <2>1, <2>2, <2>3, <1>1
    <3>2. QED  BY <3>1
  <2>5. QED  BY <1>4, <2>2, <2>4, Zenon
<1>8. QED  BY <1>2, <1>5, <1>6, <1>7, Zenon

(* What a drawing operation leaves in each buffer.                         *)
LEMMA PlotFacts ==
  ASSUME Plain, NEW r, NEW b \in Buffers, NEW colours, DOMAIN colours \subseteq Screen!Pixels
  PROVE  \A c \in Buffers, p \in Screen!Pixels :
           Screen!Plot(r, b, colours)[At(c, p)]
             = IF c = b /\ p \in DOMAIN colours THEN colours[p] ELSE r[At(c, p)]
<1> SUFFICES ASSUME NEW c \in Buffers, NEW p \in Screen!Pixels
             PROVE  Screen!Plot(r, b, colours)[At(c, p)]
                      = IF c = b /\ p \in DOMAIN colours THEN colours[p] ELSE r[At(c, p)]
  OBVIOUS
<1> DEFINE a == At(c, p)
<1>1. a \in Screen!Ram  BY Apart
<1>2. Screen!Plot(r, b, colours)[a]
        = IF \E q \in DOMAIN colours : a = At(b, q)
          THEN colours[CHOOSE q \in DOMAIN colours : a = At(b, q)]
          ELSE r[a]
  BY <1>1 DEF Screen!Plot, At
<1>3. \A q \in DOMAIN colours : a = At(b, q) <=> (c = b /\ q = p)
  BY Apart, Zenon
<1>4. CASE c = b /\ p \in DOMAIN colours
  <2>1. a = At(b, p)  BY <1>4
  <2>2. (CHOOSE q \in DOMAIN colours : a = At(b, q)) = p  BY <1>3, <1>4, <2>1, Zenon
  <2>3. QED  BY <1>2, <1>4, <2>1, <2>2, Zenon
<1>5. CASE ~(c = b /\ p \in DOMAIN colours)
  <2>1. ~\E q \in DOMAIN colours : a = At(b, q)  BY <1>3, <1>5, Zenon
  <2>2. QED  BY <1>2, <1>5, <2>1, Zenon
<1>6. QED  BY <1>4, <1>5, Zenon

LEMMA CopyFacts ==
  ASSUME Plain, NEW r, NEW from \in Buffers, NEW to \in Buffers
  PROVE  \A c \in Buffers, p \in Screen!Pixels :
           Screen!Copy(r, from, to)[At(c, p)] = IF c = to THEN r[At(from, p)] ELSE r[At(c, p)]
<1> SUFFICES ASSUME NEW c \in Buffers, NEW p \in Screen!Pixels
             PROVE  Screen!Copy(r, from, to)[At(c, p)]
                      = IF c = to THEN r[At(from, p)] ELSE r[At(c, p)]
  OBVIOUS
<1> DEFINE a == At(c, p)
<1>1. a \in Screen!Ram /\ a \in c .. c + N - 1  BY Apart
<1>2. Screen!Copy(r, from, to)[a] = IF a \in to .. to + N - 1 THEN r[from + (a - to)] ELSE r[a]
  BY <1>1 DEF Screen!Copy, N
<1>3. a \in to .. to + N - 1 <=> c = to  BY <1>1, Apart, Zenon
<1>4. CASE c = to
  <2>1. a = to + Off(p) /\ At(from, p) = from + Off(p)  BY <1>4, Places
  <2>2. to \in Nat /\ from \in Nat /\ Off(p) \in Nat  BY Apart, OffFacts
  <2>3. from + (a - to) = At(from, p)
    <3> HIDE DEF a
    <3>1. QED  BY <2>1, <2>2
  <2>4. QED  BY <1>2, <1>3, <1>4, <2>3
<1>5. CASE c # to  BY <1>2, <1>3, <1>5, Zenon
<1>6. QED  BY <1>4, <1>5, Zenon

(* The cursor is drawn where its backup was saved.                         *)
LEMMA CursorInSaved ==
  ASSUME NEW x \in Int, NEW y \in Int
  PROVE  /\ DOMAIN Screen!Cursor(x, y) \subseteq Screen!Saved(x, y)
         /\ Screen!Saved(x, y) \subseteq Screen!Pixels
<1>1. Screen!Saved(x, y) \subseteq Screen!Pixels  BY DEF Screen!Saved
<1>2. ASSUME NEW p \in DOMAIN Screen!Cursor(x, y)  PROVE p \in Screen!Saved(x, y)
  <2>1. /\ p \in Screen!Pixels
        /\ <<p[1] - x, p[2] - y>> \in DOMAIN Arrow \cup DOMAIN Tail
    BY <1>2 DEF Screen!Cursor
  <2>2. p[1] - x \in 0 .. Backup - 1 /\ p[2] - y \in 0 .. Backup - 1
    <3>1. \A o \in DOMAIN Arrow \cup DOMAIN Tail : o[1] \in 0 .. Backup - 1 /\ o[2] \in 0 .. Backup - 1
      BY ScreenAssumption DEF Screen!CursorFits
    <3>2. QED  BY <2>1, <3>1
  <2>3. p[1] \in x .. x + Backup - 1 /\ p[2] \in y .. y + Backup - 1
    BY <2>1, <2>2, PixelFacts
  <2>4. QED  BY <2>1, <2>3 DEF Screen!Saved
<1>3. QED  BY <1>1, <1>2

(* The copy of the screen is the screen, the wallpaper is cached, and from *)
(* the first frame on the desktop is cached and what the back buffer lacks *)
(* of it is in the backup.  When a frame has been drawn that the screen    *)
(* does not show yet, the pass cannot skip drawing the cursor and the swap.*)
Copies ==
  /\ vga = [p \in Screen!Pixels |-> vga[p]]
  /\ \A p \in Screen!Pixels : ram[At(Front, p)] = vga[p]
  /\ \A p \in Screen!Pixels : ram[At(Wall, p)] = paper
Beneath ==
  /\ \A p \in Screen!Pixels : ram[At(Desk, p)] = frame[p]
  /\ \A p \in Screen!Pixels :
       frame[p] = IF p \in DOMAIN backup THEN backup[p] ELSE ram[At(Back, p)]
Drawn ==
  /\ fb_pc = "swap" => \A p \in Screen!Pixels : ram[At(Back, p)] = Screen!Picture[p]
  /\ fb_pc \in {"pass", "save"} \/ (fb_pc = "load" /\ ~drawing) => vga = Screen!Picture
Loads ==
  /\ 1 \in DOMAIN loaded => loaded[1] \in 0 .. Width - 1
  /\ 2 \in DOMAIN loaded => loaded[2] \in 0 .. Height - 1

ScreenInv ==
  /\ Screen!TypeOK /\ Loads
  /\ Copies
  /\ IF frame = Screen!None THEN fb_pc = "pass" /\ fb_redraw ELSE Beneath /\ Drawn

LEMMA NoneFacts == DOMAIN Screen!None = {}
BY DEF Screen!None

LEMMA ScreenInit == Plain /\ Screen!Init => ScreenInv
<1> SUFFICES ASSUME Plain, Screen!Init  PROVE ScreenInv
  OBVIOUS
<1> USE DEF Screen!Init
<1>1. Screen!TypeOK
  BY NoneFacts DEF Screen!TypeOK, Screen!Nowhere
<1>2. Loads  BY NoneFacts, Zenon DEF Loads
<1>3. vga = Screen!Solid(Black)  BY DEF Plain
<1>4. \A p \in Screen!Pixels : ram[At(Front, p)] = Black /\ ram[At(Wall, p)] = paper
  <2> DEFINE allocated == [a \in Screen!Ram |-> IF a - Screen!FrontBufferCopy \in 0 .. Screen!BufferSize - 1 THEN Black ELSE Junk]
             cleared == Screen!Plot(allocated, Back, Screen!Solid(Grey))
  <2>1. ram = Screen!Plot(cleared, Wall, Screen!Solid(paper))
    BY DEF Screen!BootRam, Back, Wall
  <2>2. Back \in Buffers /\ Wall \in Buffers /\ Front \in Buffers  BY DEF Buffers
  <2>3. \A c : DOMAIN Screen!Solid(c) = Screen!Pixels /\ \A p \in Screen!Pixels : Screen!Solid(c)[p] = c
    BY DEF Screen!Solid
  <2>4. Front # Back /\ Front # Wall
    <3>1. Back = 0 /\ Wall = N /\ Front = 3 * N  BY Places
    <3>2. <<0, 0>> \in Screen!Pixels  BY PixelFacts
    <3>3. N \in Nat /\ 0 < N  BY <3>2, OffFacts
    <3>4. QED  BY <3>1, <3>3
  <2> SUFFICES ASSUME NEW p \in Screen!Pixels
               PROVE  ram[At(Front, p)] = Black /\ ram[At(Wall, p)] = paper
    OBVIOUS
  <2>5. allocated[At(Front, p)] = Black
    <3>1. At(Front, p) \in Screen!Ram /\ At(Front, p) \in Front .. Front + N - 1 /\ Front \in Nat
      BY <2>2, Apart
    <3>2. N \in Nat  BY OffFacts
    <3>3. At(Front, p) - Front \in 0 .. N - 1  BY <3>1, <3>2
    <3>4. QED  BY <3>1, <3>3 DEF Front, N
  <2> HIDE DEF allocated
  <2>6. cleared[At(Front, p)] = Black
    BY <2>2, <2>3, <2>4, <2>5, PlotFacts
  <2> HIDE DEF cleared
  <2>7. ram[At(Front, p)] = cleared[At(Front, p)] /\ ram[At(Wall, p)] = Screen!Solid(paper)[p]
    BY <2>1, <2>2, <2>3, <2>4, PlotFacts
  <2>8. QED  BY <2>3, <2>6, <2>7
<1>5. Copies  BY <1>3, <1>4 DEF Copies, Screen!Solid
<1>6. QED  BY <1>1, <1>2, <1>5, Zenon DEF ScreenInv

LEMMA BufferFacts ==
  ASSUME Plain
  PROVE  /\ Back \in Buffers /\ Wall \in Buffers /\ Desk \in Buffers /\ Front \in Buffers
         /\ Back # Wall /\ Back # Desk /\ Back # Front
         /\ Wall # Desk /\ Wall # Front /\ Desk # Front
<1>1. Back = 0 /\ Wall = N /\ Desk = 2 * N /\ Front = 3 * N  BY Places
<1>2. <<0, 0>> \in Screen!Pixels  BY PixelFacts
<1>3. N \in Nat /\ 0 < N  BY <1>2, OffFacts
<1>4. QED  BY <1>1, <1>3 DEF Buffers

(* The mouse handler and the steps that only read.                         *)
LEMMA MouseStep ==
  ASSUME ScreenInv, NEW dx \in Int, NEW dy \in Int, Screen!mouse_moves(dx, dy)
  PROVE  ScreenInv'
<1>1. UNCHANGED <<ram, vga, backup, last_m, fb_pc, fb_redraw, drawing, loaded, paper, frame, at>>
  BY DEF Screen!mouse_moves
<1>2. mouse' \in Screen!Pixels
  <2>1. \A v \in Int, max \in Nat : Screen!Clamp(v, max) \in 0 .. max  BY DEF Screen!Clamp
  <2>2. mouse[1] \in Int /\ mouse[2] \in Int /\ Width - 1 \in Nat /\ Height - 1 \in Nat
    BY PixelFacts DEF ScreenInv, Screen!TypeOK
  <2>3. /\ Screen!Clamp(mouse[1] + dx, Width - 1) \in 0 .. Width - 1
        /\ Screen!Clamp(mouse[2] + dy, Height - 1) \in 0 .. Height - 1
    <3>1. mouse[1] + dx \in Int /\ mouse[2] + dy \in Int  BY <2>2
    <3>2. QED  BY <2>1, <2>2, <3>1, Zenon
  <2>4. QED  BY <2>3, PixelFacts DEF Screen!mouse_moves
<1>3. Screen!TypeOK'  BY <1>1, <1>2 DEF ScreenInv, Screen!TypeOK
<1>4. Screen!Picture' = Screen!Picture  BY <1>1 DEF Screen!Picture
<1>5. QED  BY <1>1, <1>3, <1>4 DEF ScreenInv, Loads, Copies, Beneath, Drawn

LEMMA RequestStep == ScreenInv /\ Screen!request_redraw => ScreenInv'
<1> SUFFICES ASSUME ScreenInv, Screen!request_redraw  PROVE ScreenInv'
  OBVIOUS
<1>1. /\ UNCHANGED <<ram, vga, backup, mouse, last_m, fb_pc, drawing, loaded, paper, frame, at>>
      /\ fb_redraw' \in BOOLEAN /\ fb_redraw'
  BY Zenon DEF Screen!request_redraw
<1>2. Screen!Picture' = Screen!Picture  BY <1>1 DEF Screen!Picture
<1>3. QED  BY <1>1, <1>2 DEF ScreenInv, Screen!TypeOK, Loads, Copies, Beneath, Drawn

LEMMA WallpaperStep ==
  ASSUME Plain, ScreenInv, NEW colour, Screen!fb_render_wallpaper(colour)
  PROVE  ScreenInv'
<1>1. /\ UNCHANGED <<vga, backup, mouse, last_m, fb_pc, drawing, loaded, frame, at>>
      /\ fb_redraw' \in BOOLEAN /\ fb_redraw'
      /\ paper' = colour /\ fb_pc = "pass"
      /\ ram' = Screen!Plot(ram, Wall, Screen!Solid(colour))
  BY Zenon DEF Screen!fb_render_wallpaper, Wall
<1>2. DOMAIN Screen!Solid(colour) = Screen!Pixels /\ \A p \in Screen!Pixels : Screen!Solid(colour)[p] = colour
  BY DEF Screen!Solid
<1>3. \A c \in Buffers, p \in Screen!Pixels : ram'[At(c, p)] = IF c = Wall THEN colour ELSE ram[At(c, p)]
  BY <1>1, <1>2, BufferFacts, PlotFacts
<1>4. /\ \A p \in Screen!Pixels : ram'[At(Wall, p)] = colour
      /\ \A c \in Buffers, p \in Screen!Pixels : c # Wall => ram'[At(c, p)] = ram[At(c, p)]
  BY <1>3, BufferFacts, Zenon
<1>5. Screen!Picture' = Screen!Picture  BY <1>1 DEF Screen!Picture
<1>6. Screen!TypeOK' /\ Loads'  BY <1>1 DEF ScreenInv, Screen!TypeOK, Loads
<1>7. Copies'
  <2>1. /\ vga' = vga /\ vga = [p \in Screen!Pixels |-> vga[p]]
        /\ \A p \in Screen!Pixels : ram[At(Front, p)] = vga[p]
    BY <1>1 DEF ScreenInv, Copies
  <2>2. \A p \in Screen!Pixels : ram'[At(Front, p)] = vga'[p]
    BY <1>1, <1>4, <2>1, BufferFacts, Zenon
  <2>3. \A p \in Screen!Pixels : ram'[At(Wall, p)] = paper'  BY <1>1, <1>4
  <2>4. QED  BY <2>1, <2>2, <2>3 DEF Copies
<1>8. frame # Screen!None => Beneath' /\ Drawn'
  <2>1. SUFFICES ASSUME frame # Screen!None  PROVE Beneath' /\ Drawn'
    OBVIOUS
  <2>2. Beneath /\ Drawn  BY <2>1 DEF ScreenInv
  <2>3. \A p \in Screen!Pixels : ram'[At(Desk, p)] = ram[At(Desk, p)] /\ ram'[At(Back, p)] = ram[At(Back, p)]
    BY <1>4, BufferFacts, Zenon
  <2>4. Beneath'  BY <1>1, <2>2, <2>3 DEF Beneath
  <2>5. Drawn'  BY <1>1, <1>5, <2>2 DEF Drawn
  <2>6. QED  BY <2>4, <2>5
<1>9. QED  BY <1>1, <1>6, <1>7, <1>8 DEF ScreenInv

(* A frame is composed: the back buffer becomes the wallpaper with the     *)
(* scene over it, and the desktop buffer a copy of that.                   *)
LEMMA ComposeStep ==
  ASSUME Plain, ScreenInv, NEW scene, Screen!compose(scene)
  PROVE  ScreenInv'
<1> DEFINE shown_ == Screen!Restrict(scene, Screen!Covered(scene))
           cleared == Screen!Copy(ram, Wall, Back)
           painted == Screen!Plot(cleared, Back, shown_)
<1>1. /\ UNCHANGED <<vga, mouse, last_m, fb_redraw, loaded, paper, at>>
      /\ backup' = Screen!None /\ fb_redraw
      /\ ram' = Screen!Copy(painted, Back, Desk)
      /\ frame' = [p \in Screen!Pixels |-> IF p \in Screen!Covered(scene) THEN scene[p] ELSE paper]
      /\ drawing' \in BOOLEAN /\ drawing' /\ fb_pc' = "load"
  BY Zenon DEF Screen!compose, Wall, Back, Desk
<1>2. /\ DOMAIN shown_ = Screen!Covered(scene)
      /\ Screen!Covered(scene) \subseteq Screen!Pixels
      /\ \A p \in Screen!Covered(scene) : shown_[p] = scene[p]
  BY DEF Screen!Restrict, Screen!Covered
<1>3. \A c \in Buffers, p \in Screen!Pixels : cleared[At(c, p)] = IF c = Back THEN ram[At(Wall, p)] ELSE ram[At(c, p)]
  <2>1. Wall \in Buffers /\ Back \in Buffers  BY BufferFacts
  <2>2. QED  BY <2>1, CopyFacts, Zenon
<1> HIDE DEF cleared, shown_
<1>4. \A c \in Buffers, p \in Screen!Pixels : painted[At(c, p)]
        = IF c = Back /\ p \in Screen!Covered(scene) THEN scene[p] ELSE cleared[At(c, p)]
  <2>1. \A c \in Buffers, p \in Screen!Pixels : painted[At(c, p)]
          = IF c = Back /\ p \in DOMAIN shown_ THEN shown_[p] ELSE cleared[At(c, p)]
    BY <1>2, BufferFacts, PlotFacts
  <2> HIDE DEF painted
  <2>2. QED  BY <1>2, <2>1, Zenon
<1> HIDE DEF painted
<1>5. \A c \in Buffers, p \in Screen!Pixels : ram'[At(c, p)] = IF c = Desk THEN painted[At(Back, p)] ELSE painted[At(c, p)]
  <2>1. Back \in Buffers /\ Desk \in Buffers  BY BufferFacts
  <2>2. \A c \in Buffers, p \in Screen!Pixels :
          Screen!Copy(painted, Back, Desk)[At(c, p)] = IF c = Desk THEN painted[At(Back, p)] ELSE painted[At(c, p)]
    BY <2>1, CopyFacts, Zenon
  <2>3. QED  BY <1>1, <2>2
<1>6. \A p \in Screen!Pixels : ram[At(Wall, p)] = paper /\ ram[At(Front, p)] = vga[p]
  BY DEF ScreenInv, Copies
<1>7. \A p \in Screen!Pixels : /\ ram'[At(Front, p)] = vga[p]
                               /\ ram'[At(Wall, p)] = paper
                               /\ ram'[At(Back, p)] = frame'[p]
                               /\ ram'[At(Desk, p)] = frame'[p]
  <2> SUFFICES ASSUME NEW p \in Screen!Pixels
               PROVE  /\ ram'[At(Front, p)] = vga[p]
                      /\ ram'[At(Wall, p)] = paper
                      /\ ram'[At(Back, p)] = frame'[p]
                      /\ ram'[At(Desk, p)] = frame'[p]
    OBVIOUS
  <2>1. frame'[p] = IF p \in Screen!Covered(scene) THEN scene[p] ELSE paper  BY <1>1
  <2>2. painted[At(Back, p)] = frame'[p]  BY <1>3, <1>4, <1>6, <2>1, BufferFacts
  <2>3. painted[At(Front, p)] = vga[p] /\ painted[At(Wall, p)] = paper
    BY <1>3, <1>4, <1>6, BufferFacts
  <2>4. QED  BY <1>5, <2>2, <2>3, BufferFacts
<1>8. frame' # Screen!None
  <2>1. DOMAIN frame' = Screen!Pixels  BY <1>1
  <2>2. <<0, 0>> \in Screen!Pixels  BY PixelFacts
  <2>3. QED  BY <2>1, <2>2, NoneFacts
<1>9. Screen!TypeOK' /\ Loads'  BY <1>1, NoneFacts DEF ScreenInv, Screen!TypeOK, Loads
<1>10. Copies'  BY <1>1, <1>7 DEF ScreenInv, Copies
<1>11. Beneath'  BY <1>1, <1>7, NoneFacts DEF Beneath
<1>12. Drawn'  BY <1>1 DEF Drawn
<1>13. QED  BY <1>8, <1>9, <1>10, <1>11, <1>12 DEF ScreenInv

LEMMA SkipStep == ScreenInv /\ Screen!no_redraw => ScreenInv'
<1> SUFFICES ASSUME ScreenInv, Screen!no_redraw  PROVE ScreenInv'
  OBVIOUS
<1>1. /\ UNCHANGED <<ram, vga, backup, mouse, last_m, fb_redraw, loaded, paper, frame, at>>
      /\ drawing' \in BOOLEAN /\ ~drawing' /\ fb_pc = "pass" /\ ~fb_redraw /\ fb_pc' = "load"
  BY Zenon DEF Screen!no_redraw
<1>2. Screen!Picture' = Screen!Picture  BY <1>1 DEF Screen!Picture
<1>3. frame # Screen!None  BY <1>1 DEF ScreenInv
<1>4. QED  BY <1>1, <1>2, <1>3 DEF ScreenInv, Screen!TypeOK, Loads, Copies, Beneath, Drawn

LEMMA LoadStep ==
  ASSUME ScreenInv, NEW c \in Screen!Coords, Screen!load(c)
  PROVE  ScreenInv'
<1>1. /\ UNCHANGED <<ram, vga, backup, mouse, last_m, fb_pc, fb_redraw, drawing, paper, frame, at>>
      /\ loaded' = [i \in DOMAIN loaded \cup {c} |-> IF i = c THEN mouse[c] ELSE loaded[i]]
  BY DEF Screen!load
<1>2. Screen!Picture' = Screen!Picture  BY <1>1 DEF Screen!Picture
<1>3. mouse[1] \in 0 .. Width - 1 /\ mouse[2] \in 0 .. Height - 1
  BY PixelFacts DEF ScreenInv, Screen!TypeOK
<1>4. Loads'  BY <1>1, <1>3 DEF ScreenInv, Loads, Screen!Coords
<1>5. Screen!TypeOK'  BY <1>1 DEF ScreenInv, Screen!TypeOK, Screen!Coords
<1>6. QED  BY <1>1, <1>2, <1>4, <1>5 DEF ScreenInv, Copies, Beneath, Drawn

(* The cursor is hidden, what will be under it saved, and drawn: hiding it *)
(* restores the frame.                                                     *)
LEMMA ShowStep == Plain /\ ScreenInv /\ Screen!fb_show_cursor => ScreenInv'
<1> SUFFICES ASSUME Plain, ScreenInv, Screen!fb_show_cursor  PROVE ScreenInv'
  OBVIOUS
<1> DEFINE x == loaded[1]
           y == loaded[2]
           hidden == Screen!fb_hide_cursor
           cursor == Screen!Cursor(x, y)
<1>1. /\ UNCHANGED <<vga, mouse, last_m, fb_redraw, drawing, loaded, paper, frame>>
      /\ fb_pc = "load" /\ DOMAIN loaded = Screen!Coords
      /\ backup' = [p \in Screen!Saved(x, y) |-> hidden[At(Back, p)]]
      /\ ram' = Screen!Plot(hidden, Back, cursor)
      /\ at' = <<x, y>>
      /\ fb_pc' = "swap"
  BY DEF Screen!fb_show_cursor, At, Back
<1>2. frame # Screen!None /\ Beneath  BY <1>1 DEF ScreenInv
<1>3. x \in 0 .. Width - 1 /\ y \in 0 .. Height - 1 /\ <<x, y>> \in Screen!Pixels
  <2>1. 1 \in DOMAIN loaded /\ 2 \in DOMAIN loaded  BY <1>1 DEF Screen!Coords
  <2>2. QED  BY <2>1, PixelFacts DEF ScreenInv, Loads
<1>4. DOMAIN cursor \subseteq Screen!Saved(x, y) /\ Screen!Saved(x, y) \subseteq Screen!Pixels
  <2>1. x \in Int /\ y \in Int  BY <1>3
  <2> HIDE DEF x, y
  <2>2. QED  BY <2>1, CursorInSaved
<1>5. \A c \in Buffers, p \in Screen!Pixels : hidden[At(c, p)]
        = IF c = Back /\ p \in DOMAIN backup THEN backup[p] ELSE ram[At(c, p)]
  <2>1. DOMAIN backup \subseteq Screen!Pixels  BY DEF ScreenInv, Screen!TypeOK
  <2>2. Back \in Buffers  BY BufferFacts
  <2>3. hidden = Screen!Plot(ram, Back, backup)  BY DEF Screen!fb_hide_cursor, Back
  <2> HIDE DEF hidden
  <2>4. QED  BY <2>1, <2>2, <2>3, PlotFacts
<1> HIDE DEF hidden, cursor
<1>6. \A c \in Buffers, p \in Screen!Pixels : ram'[At(c, p)]
        = IF c = Back /\ p \in DOMAIN cursor THEN cursor[p] ELSE hidden[At(c, p)]
  <2>1. DOMAIN cursor \subseteq Screen!Pixels  BY <1>4
  <2>2. Back \in Buffers  BY BufferFacts
  <2>3. QED  BY <1>1, <2>1, <2>2, PlotFacts
<1>7. \A p \in Screen!Pixels : hidden[At(Back, p)] = frame[p]
  BY <1>2, <1>5, BufferFacts DEF Beneath
<1>8. \A c \in Buffers, p \in Screen!Pixels : c # Back => ram'[At(c, p)] = ram[At(c, p)]
  BY <1>5, <1>6, Zenon
<1>9. \A p \in Screen!Pixels : ram'[At(Back, p)] = IF p \in DOMAIN cursor THEN cursor[p] ELSE frame[p]
  BY <1>6, <1>7, BufferFacts
<1>10. Screen!TypeOK' /\ Loads'
  <2>1. DOMAIN backup' \subseteq Screen!Pixels  BY <1>1, <1>4
  <2>2. at' \in Screen!Pixels \cup {Screen!Nowhere}  BY <1>1, <1>3
  <2> HIDE DEF x, y
  <2>3. QED  BY <1>1, <2>1, <2>2 DEF ScreenInv, Screen!TypeOK, Loads
<1>11. Copies'
  <2>1. \A p \in Screen!Pixels : ram'[At(Front, p)] = ram[At(Front, p)] /\ ram'[At(Wall, p)] = ram[At(Wall, p)]
    BY <1>8, BufferFacts, Zenon
  <2>2. QED  BY <1>1, <2>1 DEF ScreenInv, Copies
<1>12. Beneath'
  <2>1. \A p \in Screen!Pixels : ram'[At(Desk, p)] = frame[p]
    BY <1>2, <1>8, BufferFacts DEF Beneath
  <2>2. ASSUME NEW p \in Screen!Pixels
        PROVE  frame[p] = IF p \in DOMAIN backup' THEN backup'[p] ELSE ram'[At(Back, p)]
    <3> HIDE DEF x, y
    <3>1. CASE p \in Screen!Saved(x, y)  BY <1>1, <1>7, <3>1
    <3>2. CASE p \notin Screen!Saved(x, y)  BY <1>1, <1>4, <1>9, <3>2
    <3>3. QED  BY <3>1, <3>2
  <2>3. QED  BY <1>1, <2>1, <2>2 DEF Beneath
<1>13. Drawn'
  <2>1. Screen!Picture' = [p \in Screen!Pixels |-> IF p \in DOMAIN cursor THEN cursor[p] ELSE frame[p]]
    <3>1. at'[1] = x /\ at'[2] = y  BY <1>1
    <3>2. QED  BY <1>1, <3>1 DEF Screen!Picture, cursor
  <2>2. \A p \in Screen!Pixels : ram'[At(Back, p)] = Screen!Picture'[p]
    <3>1. \A p \in Screen!Pixels : Screen!Picture'[p] = IF p \in DOMAIN cursor THEN cursor[p] ELSE frame[p]
      BY <2>1
    <3>2. QED  BY <3>1, <1>9
  <2>3. QED  BY <1>1, <2>2 DEF Drawn
<1>14. frame' # Screen!None'  BY <1>1, <1>2 DEF Screen!None
<1>15. QED  BY <1>10, <1>11, <1>12, <1>13, <1>14 DEF ScreenInv

LEMMA NotMovedStep == ScreenInv /\ Screen!not_moved => ScreenInv'
<1> SUFFICES ASSUME ScreenInv, Screen!not_moved  PROVE ScreenInv'
  OBVIOUS
<1>1. /\ UNCHANGED <<ram, vga, backup, mouse, last_m, fb_redraw, drawing, paper, frame, at>>
      /\ fb_pc = "load" /\ ~drawing /\ fb_pc' = "pass" /\ loaded' = Screen!None
  BY Zenon DEF Screen!not_moved
<1>2. Screen!Picture' = Screen!Picture  BY <1>1 DEF Screen!Picture
<1>3. frame # Screen!None /\ Beneath /\ Drawn  BY <1>1 DEF ScreenInv
<1>4. Screen!TypeOK' /\ Loads'  BY <1>1, NoneFacts DEF ScreenInv, Screen!TypeOK, Loads
<1>5. Copies' /\ Beneath' /\ Drawn'
  BY <1>1, <1>2, <1>3 DEF ScreenInv, Copies, Beneath, Drawn
<1>6. QED  BY <1>1, <1>3, <1>4, <1>5 DEF ScreenInv

(* The swap copies every pixel that differs from the copy of the screen.   *)
LEMMA SwapStep == Plain /\ ScreenInv /\ Screen!fb_swap => ScreenInv'
<1> SUFFICES ASSUME Plain, ScreenInv, Screen!fb_swap  PROVE ScreenInv'
  OBVIOUS
<1> DEFINE changed == [p \in Screen!Dirty |-> ram[At(Back, p)]]
<1>1. /\ UNCHANGED <<backup, mouse, last_m, drawing, paper, frame, at>>
      /\ fb_pc = "swap" /\ fb_pc' = "save" /\ loaded' = Screen!None
      /\ vga' = [p \in Screen!Pixels |-> IF p \in Screen!Dirty THEN changed[p] ELSE vga[p]]
      /\ ram' = Screen!Plot(ram, Front, changed)
  BY DEF Screen!fb_swap, At, Back, Front
<1>2. fb_redraw' \in BOOLEAN  BY Zenon DEF Screen!fb_swap
<1>3. frame # Screen!None /\ Beneath /\ Drawn  BY <1>1 DEF ScreenInv
<1>4. /\ DOMAIN changed = Screen!Dirty /\ Screen!Dirty \subseteq Screen!Pixels
      /\ \A p \in Screen!Dirty : changed[p] = ram[At(Back, p)]
  BY DEF Screen!Dirty
<1>5. \A p \in Screen!Pixels : p \notin Screen!Dirty => ram[At(Back, p)] = ram[At(Front, p)]
  <2>1. SUFFICES ASSUME NEW p \in Screen!Pixels, Screen!Differs(p)  PROVE p \in Screen!Dirty
    BY Zenon DEF Screen!Differs, At, Back, Front
  <2>2. p[1] \in Nat /\ p[1] <= p[1]  BY PixelFacts
  <2>3. QED  BY <2>1, <2>2 DEF Screen!Dirty
<1> HIDE DEF changed
<1>6. \A c \in Buffers, p \in Screen!Pixels : ram'[At(c, p)]
        = IF c = Front /\ p \in Screen!Dirty THEN ram[At(Back, p)] ELSE ram[At(c, p)]
  <2>1. DOMAIN changed \subseteq Screen!Pixels /\ Front \in Buffers  BY <1>4, BufferFacts
  <2>2. \A c \in Buffers, p \in Screen!Pixels : Screen!Plot(ram, Front, changed)[At(c, p)]
          = IF c = Front /\ p \in DOMAIN changed THEN changed[p] ELSE ram[At(c, p)]
    <3>1. ASSUME NEW colours, DOMAIN colours \subseteq Screen!Pixels
          PROVE  \A c \in Buffers, p \in Screen!Pixels : Screen!Plot(ram, Front, colours)[At(c, p)]
                   = IF c = Front /\ p \in DOMAIN colours THEN colours[p] ELSE ram[At(c, p)]
      BY <2>1, <3>1, PlotFacts
    <3>2. DOMAIN changed \subseteq Screen!Pixels  BY <2>1
    <3>3. QED  BY <3>1, <3>2
  <2>3. ram' = Screen!Plot(ram, Front, changed)  BY <1>1
  <2>4. QED  BY <1>4, <2>2, <2>3, Zenon
<1>7. \A p \in Screen!Pixels : vga'[p] = ram[At(Back, p)]
  <2>1. SUFFICES ASSUME NEW p \in Screen!Pixels  PROVE vga'[p] = ram[At(Back, p)]
    OBVIOUS
  <2>2. ram[At(Front, p)] = vga[p]  BY DEF ScreenInv, Copies
  <2>3. QED  BY <1>1, <1>4, <1>5, <2>2
<1>8. \A p \in Screen!Pixels : ram'[At(Front, p)] = vga'[p]
  BY <1>5, <1>6, <1>7, BufferFacts
<1>9. \A c \in Buffers, p \in Screen!Pixels : c # Front => ram'[At(c, p)] = ram[At(c, p)]
  BY <1>6, Zenon
<1>10. \A p \in Screen!Pixels : /\ ram'[At(Wall, p)] = ram[At(Wall, p)]
                                /\ ram'[At(Desk, p)] = ram[At(Desk, p)]
                                /\ ram'[At(Back, p)] = ram[At(Back, p)]
  BY <1>9, BufferFacts, Zenon
<1>11. vga' = [p \in Screen!Pixels |-> vga'[p]]  BY <1>1
<1>12. Screen!TypeOK' /\ Loads'  BY <1>1, <1>2, NoneFacts DEF ScreenInv, Screen!TypeOK, Loads
<1>13. Copies'
  <2>1. \A p \in Screen!Pixels : ram'[At(Wall, p)] = paper'  BY <1>1, <1>10 DEF ScreenInv, Copies
  <2>2. QED  BY <1>8, <1>11, <2>1 DEF Copies
<1>14. Beneath'  BY <1>1, <1>3, <1>10 DEF Beneath
<1>15. Drawn'
  <2>1. Screen!Picture' = Screen!Picture  BY <1>1 DEF Screen!Picture
  <2>2. \A p \in Screen!Pixels : vga'[p] = Screen!Picture[p]  BY <1>1, <1>3, <1>7 DEF Drawn
  <2>3. Screen!Picture = [p \in Screen!Pixels |-> Screen!Picture[p]]  BY DEF Screen!Picture
  <2>4. vga' = Screen!Picture  BY <1>11, <2>2, <2>3
  <2>5. QED  BY <1>1, <2>1, <2>4 DEF Drawn
<1>16. QED  BY <1>1, <1>3, <1>12, <1>13, <1>14, <1>15 DEF ScreenInv

LEMMA SaveStep == ScreenInv /\ Screen!save => ScreenInv'
<1> SUFFICES ASSUME ScreenInv, Screen!save  PROVE ScreenInv'
  OBVIOUS
<1>1. /\ UNCHANGED <<ram, vga, backup, mouse, fb_redraw, drawing, paper, frame, at>>
      /\ fb_pc = "save" /\ fb_pc' = "pass" /\ loaded' = Screen!None
      /\ last_m' = <<loaded[1], loaded[2]>> /\ DOMAIN loaded = Screen!Coords
  BY DEF Screen!save, Screen!Loaded
<1>2. Screen!Picture' = Screen!Picture  BY <1>1 DEF Screen!Picture
<1>3. frame # Screen!None /\ Beneath /\ Drawn  BY <1>1 DEF ScreenInv
<1>4. last_m' \in Screen!Pixels
  <2>1. 1 \in DOMAIN loaded /\ 2 \in DOMAIN loaded  BY <1>1 DEF Screen!Coords
  <2>2. QED  BY <1>1, <2>1, PixelFacts DEF ScreenInv, Loads
<1>5. Screen!TypeOK' /\ Loads'  BY <1>1, <1>4, NoneFacts DEF ScreenInv, Screen!TypeOK, Loads
<1>6. Copies' /\ Beneath' /\ Drawn'
  BY <1>1, <1>2, <1>3 DEF ScreenInv, Copies, Beneath, Drawn
<1>7. QED  BY <1>1, <1>3, <1>5, <1>6 DEF ScreenInv

LEMMA ScreenStep == Plain /\ ScreenInv /\ [Screen!Next]_(Screen!vars) => ScreenInv'
<1> SUFFICES ASSUME Plain, ScreenInv, [Screen!Next]_(Screen!vars)  PROVE ScreenInv'
  OBVIOUS
<1>1. CASE \E dx, dy \in -MaxMove .. MaxMove : Screen!mouse_moves(dx, dy)
  <2>1. PICK dx \in -MaxMove .. MaxMove, dy \in -MaxMove .. MaxMove : Screen!mouse_moves(dx, dy)
    BY <1>1
  <2>2. dx \in Int /\ dy \in Int  BY PixelFacts
  <2>3. QED  BY <2>1, <2>2, MouseStep
<1>2. CASE Screen!request_redraw  BY <1>2, RequestStep
<1>3. CASE \E colour \in Papers : Screen!fb_render_wallpaper(colour)  BY <1>3, WallpaperStep, Zenon
<1>4. CASE Screen!Pass
  <2>1. CASE \E scene \in Scenes : Screen!compose(scene)  BY <2>1, ComposeStep, Zenon
  <2>2. CASE \E c \in Screen!Coords : Screen!load(c)  BY <2>2, LoadStep, Zenon
  <2>3. QED
    BY <1>4, <2>1, <2>2, SkipStep, ShowStep, NotMovedStep, SwapStep, SaveStep DEF Screen!Pass
<1>5. CASE UNCHANGED Screen!vars
  <2>1. UNCHANGED <<ram, vga, backup, mouse, last_m, fb_pc, fb_redraw, drawing, loaded, paper, frame, at>>
    BY <1>5 DEF Screen!vars
  <2>2. Screen!Picture' = Screen!Picture  BY <2>1 DEF Screen!Picture
  <2>3. QED  BY <2>1, <2>2 DEF ScreenInv, Screen!TypeOK, Loads, Copies, Beneath, Drawn
<1>6. QED  BY <1>1, <1>2, <1>3, <1>4, <1>5 DEF Screen!Next

(* Each behaviour of the run is one of the screen while the loop stands.   *)
LEMMA ScreenSteps == MCSpec => Screen!Init /\ [][Screen!Next]_(Screen!vars)
<1>1. MCInit => Screen!Init  BY DEF MCInit
<1>2. [MCNext]_mcVars => [Screen!Next]_(Screen!vars)
  BY DEF MCNext, mcVars, RestOfLoop, RestOfScreen, screenVars, Screen!vars
<1>3. QED  BY <1>1, <1>2, PTL DEF MCSpec

(* Whatever is composed, wherever the mouse goes between two loads of its  *)
(* coordinates: after every fb_swap the screen is the last frame with one  *)
(* whole cursor, the desktop cache is that frame and the pointer is on the *)
(* screen.  For a screen without padding that the boot loader leaves black *)
(* (README, section 5, has what happens to others).                        *)
THEOREM ImagesAlwaysFrames ==
  Stride = Width /\ BootScreens \subseteq {Black} => (MCSpec => []ImagesAreFrames)
<1> SUFFICES ASSUME Plain  PROVE MCSpec => []ImagesAreFrames
  BY DEF Plain
<1>1. Screen!Init => ScreenInv  BY ScreenInit
<1>2. ScreenInv /\ [Screen!Next]_(Screen!vars) => ScreenInv'  BY ScreenStep
<1>3. ScreenInv => ImagesAreFrames
  <2>1. SUFFICES ASSUME ScreenInv  PROVE ImagesAreFrames
    OBVIOUS
  <2>2. Screen!TypeOK  BY <2>1 DEF ScreenInv
  <2>3. Screen!ScreenIsFrame  BY <2>1 DEF ScreenInv, Drawn, Screen!ScreenIsFrame
  <2>4. Screen!DesktopIsFrame
    BY <2>1, Zenon DEF ScreenInv, Beneath, Screen!DesktopIsFrame, At, Desk
  <2>5. QED  BY <2>2, <2>3, <2>4 DEF ImagesAreFrames
<1>4. QED  BY <1>1, <1>2, <1>3, ScreenSteps, PTL
=============================================================================
