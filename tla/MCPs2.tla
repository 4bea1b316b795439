------------------------------- MODULE MCPs2 --------------------------------
EXTENDS Ps2

(* The value an empty port would give again is read by read_config only:   *)
(* states that differ only there are taken as one.                         *)
LiveByte == IF port.full \/ pc = 1 THEN port.byte ELSE None
LiveState == <<port.full, LiveByte, kbd_q, mouse_q, irr, irq1_on, mouse_dev, held, pc,
               key_reg, mouse_cycle, mouse_has_wheel, kbd, clean>>
=============================================================================
