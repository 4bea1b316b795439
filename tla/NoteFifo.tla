------------------------------ MODULE NoteFifo ------------------------------
(***************************************************************************)
(* What drivers/sound.c promises its callers: a bounded first-in first-out *)
(* queue of notes.  A note is accepted while there is room, and notes are  *)
(* voiced whole, once each, in the order in which they were accepted.      *)
(***************************************************************************)
EXTENDS Naturals, Sequences

CONSTANTS Notes,      \* the notes callers ask for
          Capacity    \* how many accepted notes can wait

VARIABLES waiting,    \* accepted and not yet voiced, oldest first
          voiced      \* the note voiced last

vars == <<waiting, voiced>>

Init == waiting = <<>> /\ voiced \notin Notes

Accept(n) ==
  /\ Len(waiting) < Capacity
  /\ waiting' = Append(waiting, n)
  /\ UNCHANGED voiced

Voice ==
  /\ waiting # <<>>
  /\ voiced' = Head(waiting)
  /\ waiting' = Tail(waiting)

Next == Voice \/ \E n \in Notes : Accept(n)

Spec == Init /\ [][Next]_vars
=============================================================================
