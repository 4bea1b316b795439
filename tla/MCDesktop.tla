----------------------------- MODULE MCDesktop ------------------------------
(***************************************************************************)
(* The two sides of a pass of the desktop loop: what it does with the      *)
(* buttons and the keys it samples (Desktop), and how it puts a frame and  *)
(* the cursor on the screen (Compositor).  Of the first the second needs   *)
(* only whether to redraw, which it takes as any choice, so a behaviour is *)
(* one of one side.                                                        *)
(***************************************************************************)
EXTENDS Desktop, Integers

CONSTANTS Width, Height, Stride, Backup, Arrow, Tail, TailReach, Scenes, Papers,
          BootScreens, MaxMove, Black, Grey, Clear, Junk,  \* of Compositor
          Sides                                            \* the sides of this instance

VARIABLES
  side,
  ram, vga, backup, mouse, last_m, fb_pc, fb_redraw, drawing, loaded, paper, frame, at

screenVars == <<ram, vga, backup, mouse, last_m, fb_pc, fb_redraw, drawing, loaded, paper, frame, at>>
mcVars == <<side, vars, screenVars>>

Screen == INSTANCE Compositor WITH last <- last_m, pc <- fb_pc, full_redraw <- fb_redraw

(* A cursor of two pixels, whose second is left out near the right and the *)
(* lower edge, and saves 2 x 2 pixels.                                     *)
SmallArrow == [o \in {<<0, 0>>} |-> "black"]
SmallTail == [o \in {<<1, 1>>} |-> "white"]
SmallReach == <<1, 1>>

(* An empty desktop, and one with something black in a corner.             *)
SmallScreen == (0 .. Width - 1) \X (0 .. Height - 1)
SmallScenes ==
  {[p \in SmallScreen |-> "clear"],
   [p \in SmallScreen |-> IF p = <<1, 0>> THEN "black" ELSE IF p[1] = 0 THEN "white" ELSE "clear"]}

ASSUME SidesAssumption == Sides \subseteq {"loop", "screen"}
ASSUME ScreenAssumption == Screen!SizesOK /\ Screen!CursorFits

MCInit ==
  /\ side \in Sides
  /\ side # "screen" => mouse = <<0, 0>> /\ paper = CHOOSE c \in Papers : TRUE
  /\ Init /\ Screen!Init

RestOfLoop == side = "loop" /\ UNCHANGED <<side, screenVars>>
RestOfScreen == side = "screen" /\ UNCHANGED <<side, vars>>

MCNext ==
  \/ RestOfLoop /\ Next
  \/ RestOfScreen /\ Screen!Next

MCSpec == MCInit /\ [][MCNext]_mcVars

(* The loop is the only thread, and every sleep() returns.  On the screen  *)
(* some step of Pass is always enabled and each one changes fb_pc or       *)
(* loaded, which no other action does, so the second formula is            *)
(* WF(Screen!Pass) in a form that is cheap to evaluate.                    *)
LoopSpec == MCSpec /\ WF_mcVars(RestOfLoop /\ Pass)
ScreenSpec == MCSpec /\ []<><<fb_pc' # fb_pc \/ loaded' # loaded>>_mcVars
-----------------------------------------------------------------------------
(* After every swap the screen shows the frame composed last and one whole *)
(* cursor, nothing of an earlier frame and nothing of the cursor where it  *)
(* was before; the cached desktop is that frame without a cursor, and the  *)
(* pointer has not left the screen.                                        *)
ImagesAreFrames == Screen!TypeOK /\ Screen!ScreenIsFrame /\ Screen!DesktopIsFrame

(* A mouse that is somewhere else than saved when a pass begins, and stays *)
(* there, gets the cursor.                                                 *)
MovedCursorIsDrawn == Screen!MovedCursorIsDrawn
=============================================================================
