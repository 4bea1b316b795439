--------------------------------- MODULE Ps2 --------------------------------
(***************************************************************************)
(* drivers/ps2.c: the keyboard and mouse driver.  ps2_init talks to the    *)
(* mouse by polling the controller; it runs after idt_init has enabled     *)
(* interrupts and unmasked IRQ 1 and IRQ 12, so the two interrupt handlers *)
(* read the same one-byte port while it polls.                             *)
(*                                                                         *)
(* The controller, its two devices and the interrupt controller are        *)
(* external: one output byte with its source, a queue of bytes in each     *)
(* device, and the set of latched interrupt requests.  The handlers run    *)
(* with interrupts disabled and are atomic.                                *)
(*                                                                         *)
(* A keyboard byte is the prefix E0 or a key with its direction.  Of a     *)
(* mouse byte the model keeps what the driver can tell apart, bit 3, and   *)
(* its place in the packet; coordinates are left out.                      *)
(***************************************************************************)
EXTENDS Integers, Sequences

CONSTANTS Keys,      \* the keys that are pressed
          KbdMax,    \* bound: bytes waiting in the keyboard
          MouseMax   \* bound: bytes waiting in the mouse

AllKeys == {"alt", "ralt", "ctrl", "lshift", "rshift", "super", "caps", "a"}
Extended == {"ralt", "super"}
Modifiers == {"alt", "ctrl", "shift"}

ASSUME KeysAssumption == Keys \subseteq AllKeys
ASSUME QueueAssumption == KbdMax \in Nat /\ MouseMax \in Nat

VARIABLES
  port,             \* output buffer: full, source and value of the last byte
  kbd_q, mouse_q,   \* bytes the devices have yet to deliver
  irr,              \* latched interrupt requests
  irq1_on,          \* bit 0 of the controller's configuration byte
  mouse_dev,        \* the mouse: has it a wheel, knock so far, 4-byte mode, reporting
  held,             \* keys that are down
  pc,               \* the step of Script ps2_init is at, or beyond it the desktop loop
  key_reg,          \* k of ps2_get_last_key, while it is being called
  mouse_cycle, mouse_has_wheel,
  mods, super_pressed, capslock_active, e0_mode, last_key,
  clean             \* history: every keyboard byte so far went to handle_kbd

devices == <<port, kbd_q, mouse_q, irr>>
kbd == <<mods, super_pressed, capslock_active, e0_mode, last_key>>
vars == <<devices, irq1_on, mouse_dev, held, pc, key_reg, mouse_cycle, mouse_has_wheel, kbd, clean>>

None == "none"
Code(k) == IF k = "ralt" THEN "alt" ELSE IF k \in {"lshift", "rshift"} THEN "shift" ELSE k
Scan(c, make) == [src |-> "kbd", code |-> c, make |-> make, bit3 |-> FALSE, pos |-> 0]
MouseByte(c, bit3, pos) == [src |-> "mouse", code |-> c, make |-> FALSE, bit3 |-> bit3, pos |-> pos]
E0 == Scan("e0", TRUE)
Config == Scan("config", TRUE)
Ack == MouseByte("ack", TRUE, 0)           \* 0xFA has bit 3 set
DeviceId == MouseByte(IF mouse_dev.wheel THEN "id3" ELSE "id0", FALSE, 0)
PacketLength == IF mouse_dev.wheel THEN 4 ELSE 3

(* What ps2_init does to the ports, in order: the configuration byte, then *)
(* each command for the mouse followed by a read of its answer.            *)
Script == <<"read_config", "write_config",
  "F6", "read", "F3", "read", "200", "read", "F3", "read", "100", "read",
  "F3", "read", "80", "read", "F2", "read", "read_id", "F4", "read">>
Knock == <<"200", "100", "80">>
InLoop == pc > Len(Script)
Step == Script[pc]

Init ==
  /\ port = [full |-> TRUE, byte |-> Config]    \* 0x20 was just written to port 0x64
  /\ kbd_q = <<>> /\ mouse_q = <<>>
  /\ irr = {1}
  /\ irq1_on = TRUE
  /\ \E has \in BOOLEAN :
       mouse_dev = [has |-> has, knock |-> 0, wheel |-> FALSE, reporting |-> FALSE]
  /\ held = {}
  /\ pc = 1
  /\ key_reg = "idle"
  /\ mouse_cycle = 0 /\ mouse_has_wheel = FALSE
  /\ mods = {} /\ super_pressed = FALSE /\ capslock_active = FALSE
  /\ e0_mode = FALSE /\ last_key = None
  /\ clean = TRUE
-----------------------------------------------------------------------------
(* External: the keyboard, the mouse and the controller.                   *)
KeyBytes(k, make) ==
  IF k \in Extended THEN <<E0, Scan(Code(k), make)>> ELSE <<Scan(Code(k), make)>>

key_event(k) ==
  /\ Len(kbd_q) + Len(KeyBytes(k, TRUE)) <= KbdMax
  /\ held' = IF k \in held THEN held \ {k} ELSE held \cup {k}
  /\ kbd_q' = kbd_q \o KeyBytes(k, k \notin held)
  /\ UNCHANGED <<port, mouse_q, irr, irq1_on, mouse_dev, pc, key_reg, mouse_cycle, mouse_has_wheel, kbd, clean>>

mouse_moves(high) ==
  /\ mouse_dev.reporting
  /\ Len(mouse_q) + PacketLength <= MouseMax
  /\ mouse_q' = mouse_q \o [p \in 1 .. PacketLength |-> MouseByte("data", p = 1 \/ high, p)]
  /\ UNCHANGED <<port, kbd_q, irr, irq1_on, mouse_dev, held, pc, key_reg, mouse_cycle, mouse_has_wheel, kbd, clean>>

deliver_kbd ==
  /\ ~port.full /\ kbd_q # <<>>
  /\ port' = [full |-> TRUE, byte |-> Head(kbd_q)]
  /\ kbd_q' = Tail(kbd_q)
  /\ irr' = IF irq1_on THEN irr \cup {1} ELSE irr
  /\ UNCHANGED <<mouse_q, irq1_on, mouse_dev, held, pc, key_reg, mouse_cycle, mouse_has_wheel, kbd, clean>>

deliver_mouse ==
  /\ ~port.full /\ mouse_q # <<>>
  /\ port' = [full |-> TRUE, byte |-> Head(mouse_q)]
  /\ mouse_q' = Tail(mouse_q)
  /\ irr' = irr \cup {12}
  /\ UNCHANGED <<kbd_q, irq1_on, mouse_dev, held, pc, key_reg, mouse_cycle, mouse_has_wheel, kbd, clean>>
-----------------------------------------------------------------------------
(* ps2_init.  A read of port 0x60 takes whatever byte is there, and an     *)
(* empty port gives the last one again.                                    *)
Taken == [port EXCEPT !.full = FALSE]
Stolen == port.full /\ port.byte.src = "kbd" /\ port.byte # Config

read_config ==
  /\ ~InLoop /\ Step = "read_config"
  /\ port' = Taken
  /\ irq1_on' \in IF port.byte = Config THEN {TRUE} ELSE BOOLEAN
  /\ clean' = (clean /\ ~Stolen)
  /\ pc' = pc + 1
  /\ UNCHANGED <<kbd_q, mouse_q, irr, mouse_dev, held, key_reg, mouse_cycle, mouse_has_wheel, kbd>>

(* From here on mouse bytes raise IRQ 12: bit 1 is set and stays set.      *)
write_config ==
  /\ ~InLoop /\ Step = "write_config"
  /\ pc' = pc + 1
  /\ UNCHANGED <<devices, irq1_on, mouse_dev, held, key_reg, mouse_cycle, mouse_has_wheel, kbd, clean>>

Answer == IF Step = "F2" THEN <<Ack, DeviceId>> ELSE <<Ack>>

Knocked ==
  IF Step = "F3" THEN mouse_dev
  ELSE LET k == IF Step = Knock[mouse_dev.knock + 1] THEN mouse_dev.knock + 1 ELSE 0
       IN  [mouse_dev EXCEPT !.knock = k % 3, !.wheel = @ \/ (k = 3 /\ mouse_dev.has)]

mouse_write ==
  /\ ~InLoop
  /\ Step \in {"F6", "F3", "200", "100", "80", "F2", "F4"}
  /\ mouse_q' = mouse_q \o Answer
  /\ mouse_dev' = IF Step = "F4" THEN [mouse_dev EXCEPT !.reporting = TRUE] ELSE Knocked
  /\ pc' = pc + 1
  /\ UNCHANGED <<port, kbd_q, irr, irq1_on, held, key_reg, mouse_cycle, mouse_has_wheel, kbd, clean>>

(* The answer to "read_id" decides the packet length the driver expects.   *)
mouse_read ==
  /\ ~InLoop /\ Step \in {"read", "read_id"}
  /\ port.full
  /\ port' = Taken
  /\ mouse_has_wheel' = IF Step = "read_id" THEN port.byte.code = "id3" ELSE mouse_has_wheel
  /\ clean' = (clean /\ ~Stolen)
  /\ pc' = pc + 1
  /\ UNCHANGED <<kbd_q, mouse_q, irr, irq1_on, mouse_dev, held, key_reg, mouse_cycle, kbd>>

(* ps2_wait_read gives up after 100000 polls: only with no byte on its way. *)
mouse_read_timeout ==
  /\ ~InLoop /\ Step \in {"read", "read_id"}
  /\ ~port.full /\ mouse_q = <<>>
  /\ pc' = pc + 1
  /\ UNCHANGED <<devices, irq1_on, mouse_dev, held, key_reg, mouse_cycle, mouse_has_wheel, kbd, clean>>

(* ps2_get_last_key, called by the desktop loop: two steps.                *)
key_read ==
  /\ InLoop /\ key_reg = "idle"
  /\ key_reg' = last_key
  /\ UNCHANGED <<devices, irq1_on, mouse_dev, held, pc, mouse_cycle, mouse_has_wheel, kbd, clean>>

key_clear ==
  /\ key_reg # "idle"
  /\ last_key' = None
  /\ key_reg' = "idle"
  /\ UNCHANGED <<devices, irq1_on, mouse_dev, held, pc, mouse_cycle, mouse_has_wheel,
                 mods, super_pressed, capslock_active, e0_mode, clean>>
-----------------------------------------------------------------------------
Letter == IF ("shift" \in mods) # capslock_active THEN "A" ELSE "a"

handle_kbd_E0Sticks(b) ==
  IF b = E0 THEN /\ e0_mode' = TRUE
                 /\ UNCHANGED <<mods, super_pressed, capslock_active, last_key>>
  ELSE IF e0_mode THEN /\ super_pressed' = IF b.code = "super" THEN b.make ELSE super_pressed
                       /\ UNCHANGED <<e0_mode, mods, capslock_active, last_key>>
  ELSE /\ mods' = IF b.code \notin Modifiers THEN mods
                  ELSE IF b.make THEN mods \cup {b.code} ELSE mods \ {b.code}
       /\ UNCHANGED <<super_pressed, e0_mode, capslock_active, last_key>>

(* handle_kbd: E0 announces a key of which only Super is looked at; a key  *)
(* without a character stores the character 0.                             *)
handle_kbd(b) ==
  IF b = E0 THEN /\ e0_mode' = TRUE
                 /\ UNCHANGED <<mods, super_pressed, capslock_active, last_key>>
  ELSE IF e0_mode THEN /\ super_pressed' = IF b.code = "super" THEN b.make ELSE super_pressed
                       /\ e0_mode' = FALSE
                       /\ UNCHANGED <<mods, capslock_active, last_key>>
  ELSE /\ mods' = IF b.code \notin Modifiers THEN mods
                  ELSE IF b.make THEN mods \cup {b.code} ELSE mods \ {b.code}
       /\ capslock_active' = (capslock_active # (b.code = "caps" /\ b.make))
       /\ last_key' = IF b.code = "a" /\ b.make THEN Letter
                      ELSE IF b.make /\ b.code \in {"super", "config"} THEN None ELSE last_key
       /\ UNCHANGED <<super_pressed, e0_mode>>

handle_mouse_AlwaysThree(b) ==
  IF mouse_cycle = 0 /\ ~b.bit3 THEN UNCHANGED mouse_cycle
  ELSE mouse_cycle' = IF mouse_cycle >= 2 THEN 0 ELSE mouse_cycle + 1

(* handle_mouse: a packet starts with a byte that has bit 3 set and is     *)
(* processed with its third byte, or with its fourth if there is a wheel.  *)
handle_mouse(b) ==
  IF mouse_cycle = 0 /\ ~b.bit3 THEN UNCHANGED mouse_cycle
  ELSE mouse_cycle' = IF mouse_cycle = 3 \/ (mouse_cycle = 2 /\ ~mouse_has_wheel)
                      THEN 0 ELSE mouse_cycle + 1

irq1_handler ==
  /\ 1 \in irr
  /\ irr' = irr \ {1}
  /\ port' = Taken
  /\ IF port.full /\ port.byte.src = "kbd" THEN handle_kbd(port.byte) ELSE UNCHANGED kbd
  /\ UNCHANGED <<kbd_q, mouse_q, irq1_on, mouse_dev, held, pc, key_reg, mouse_cycle, mouse_has_wheel, clean>>

irq12_handler_LeavesByte ==
  /\ 12 \in irr
  /\ irr' = irr \ {12}
  /\ IF port.full /\ port.byte.src = "mouse" THEN handle_mouse(port.byte) ELSE UNCHANGED mouse_cycle
  /\ UNCHANGED <<port, kbd_q, mouse_q, irq1_on, mouse_dev, held, pc, key_reg, mouse_has_wheel, kbd, clean>>

irq12_handler ==
  /\ 12 \in irr
  /\ irr' = irr \ {12}
  /\ port' = Taken
  /\ IF port.full /\ port.byte.src = "mouse" THEN handle_mouse(port.byte) ELSE UNCHANGED mouse_cycle
  /\ clean' = (clean /\ ~(port.full /\ port.byte.src = "kbd"))
  /\ UNCHANGED <<kbd_q, mouse_q, irq1_on, mouse_dev, held, pc, key_reg, mouse_has_wheel, kbd>>

External ==
  \/ \E k \in Keys : key_event(k)
  \/ \E high \in BOOLEAN : mouse_moves(high)
  \/ deliver_kbd \/ deliver_mouse

Mainline ==
  \/ read_config \/ write_config \/ mouse_write \/ mouse_read \/ mouse_read_timeout
  \/ key_read \/ key_clear

Next == External \/ Mainline \/ irq1_handler \/ irq12_handler

Spec == Init /\ [][Next]_vars
-----------------------------------------------------------------------------
(* Properties.                                                             *)

(* Type correctness: mouse_cycle stays inside mouse_byte[4].               *)
TypeOK ==
  /\ irr \subseteq {1, 12}
  /\ irq1_on \in BOOLEAN
  /\ held \subseteq Keys
  /\ pc \in 1 .. Len(Script) + 1
  /\ mouse_cycle \in 0 .. 3
  /\ mods \subseteq Modifiers
  /\ last_key \in {None, "a", "A"}
  /\ key_reg \in {"idle", None, "a", "A"}

(* Nobody waits for a byte nobody will read: a byte in the port has its    *)
(* own request latched, whichever handler ran for whichever byte before.   *)
(* The keyboard's needs the interrupt that read_config may turn off.       *)
PortHasReader ==
  port.full => IF port.byte.src = "mouse" THEN 12 \in irr ELSE irq1_on => 1 \in irr

(* As long as no keyboard byte was taken by the wrong reader and all bytes *)
(* have been handled, Alt, Ctrl and Super are what the keys are: neither a *)
(* prefix byte nor a mouse byte in between confuses them.                  *)
AllHandled == kbd_q = <<>> /\ ~(port.full /\ port.byte.src = "kbd")
ModifiersFollowKeys ==
  clean /\ AllHandled =>
    /\ "alt" \in mods <=> "alt" \in held
    /\ "ctrl" \in mods <=> "ctrl" \in held
    /\ super_pressed <=> "super" \in held

(* Packet framing, once the desktop loop runs: if the driver knows the     *)
(* packet length, no request is left over from ps2_init and the next byte  *)
(* is the one handle_mouse waits for, then this stays so for good.         *)
NextByte == IF port.full /\ port.byte.src = "mouse" THEN <<port.byte>> \o mouse_q ELSE mouse_q
OwnRequests == \A r \in irr : port.full /\ port.byte.src = IF r = 1 THEN "kbd" ELSE "mouse"
InSync ==
  /\ InLoop
  /\ mouse_has_wheel = mouse_dev.wheel
  /\ OwnRequests
  /\ IF NextByte = <<>> THEN mouse_cycle = 0 ELSE NextByte[1].pos = mouse_cycle + 1
SyncIsKept == [][InSync => InSync']_vars

(* "Enable IntelliMouse Scroll Wheel (Magic Sequence)": when ps2_init is   *)
(* over the driver expects the packets the mouse sends.                    *)
(* Does not hold: README, section 5.                                       *)
WheelDetected == InLoop => mouse_has_wheel = mouse_dev.wheel
=============================================================================
