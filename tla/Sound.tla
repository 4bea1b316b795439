------------------------------- MODULE Sound --------------------------------
(***************************************************************************)
(* drivers/sound.c: the PC-speaker driver.  The desktop loop (mainline)    *)
(* appends notes to a ring with sound_enqueue and mutes the speaker with   *)
(* sound_stop; the timer interrupt (irq0_handler) runs sound_tick, which   *)
(* takes notes off the ring and drives the speaker.  The interrupt gate    *)
(* clears IF, so a tick is atomic, but a tick may fall between any two     *)
(* stores of the mainline.                                                 *)
(*                                                                         *)
(* The ring's fields are neither volatile nor fenced, so the order of the  *)
(* stores of sound_enqueue is the compiler's choice: StoreOrders is the    *)
(* set of orders the build may produce.  SourceOrder is the order of the   *)
(* C text, BuildOrder the one of the object file kept in the repository.   *)
(***************************************************************************)
EXTENDS Integers

CONSTANTS SOUND_QUEUE_SIZE,  \* slots of the ring
          Notes,             \* the notes the desktop enqueues
          StoreOrders        \* orders of the stores of sound_enqueue

SourceOrder == <<"freq", "duration_ms", "tail">>

BuildOrder == <<"tail", "freq", "duration_ms">>

Note == [freq : Nat, duration_ms : Nat]

ASSUME QueueSizeAssumption == SOUND_QUEUE_SIZE \in Nat \ {0, 1}
ASSUME NotesAssumption == Notes \subseteq Note
ASSUME StoreOrdersAssumption == StoreOrders \subseteq {SourceOrder, BuildOrder}

VARIABLES
  sound_queue,       \* the ring
  sound_q_head,      \* next slot to take, moved by sound_tick only
  sound_q_tail,      \* next slot to fill, moved by sound_enqueue only
  sound_is_playing,  \* a note, or a rest, is being voiced
  note_ms_left,      \* current_note_end_ms - uptime_ms(), 0 once it is past
  speaker,           \* port 0x61 gate bits and the divisor of PIT channel 2
  main,              \* where the mainline is inside sound.c
  voice              \* history: the note taken off the ring last

ringVars == <<sound_queue, sound_q_head, sound_q_tail>>
playVars == <<sound_is_playing, note_ms_left, speaker, voice>>
vars == <<ringVars, playVars, main>>

Slots == 0 .. SOUND_QUEUE_SIZE - 1
Silence == [freq |-> 0, duration_ms |-> 0]   \* static storage starts zeroed
NoVoice == [freq |-> -1, duration_ms |-> 0]  \* nothing was voiced yet
Idle == [pc |-> "idle", note |-> Silence, slot |-> 0, order |-> SourceOrder, step |-> 1]

NextSlot(i) == (i + 1) % SOUND_QUEUE_SIZE

(* The two byte-wide outputs to port 0x42 keep 16 bits of the divisor.     *)
Divisor(freq) == (1193180 \div freq) % 65536
Word16 == 0 .. 65535

Init ==
  /\ sound_queue = [i \in Slots |-> Silence]
  /\ sound_q_head = 0
  /\ sound_q_tail = 0
  /\ sound_is_playing = FALSE
  /\ note_ms_left = 0
  /\ speaker = [gate |-> FALSE, div |-> 0]
  /\ main = Idle
  /\ voice = NoVoice
-----------------------------------------------------------------------------
HasRoom_NoTest == TRUE

(* Mainline.  sound_enqueue tests for room, and drops the note in silence  *)
(* when there is none; otherwise its three stores follow one by one.       *)
HasRoom == NextSlot(sound_q_tail) # sound_q_head

sound_enqueue(n) ==
  /\ main.pc = "idle"
  /\ HasRoom
  /\ \E order \in StoreOrders :
       main' = [pc |-> "enqueue", note |-> n, slot |-> sound_q_tail,
                order |-> order, step |-> 1]
  /\ UNCHANGED <<ringVars, playVars>>

StoreField(f) ==
  \/ /\ f = "freq"
     /\ sound_queue' = [sound_queue EXCEPT ![main.slot].freq = main.note.freq]
     /\ UNCHANGED sound_q_tail
  \/ /\ f = "duration_ms"
     /\ sound_queue' = [sound_queue EXCEPT ![main.slot].duration_ms = main.note.duration_ms]
     /\ UNCHANGED sound_q_tail
  \/ /\ f = "tail"
     /\ sound_q_tail' = NextSlot(main.slot)
     /\ UNCHANGED sound_queue

EnqueueStore ==
  /\ main.pc = "enqueue"
  /\ StoreField(main.order[main.step])
  /\ main' = IF main.step = 3 THEN Idle ELSE [main EXCEPT !.step = @ + 1]
  /\ UNCHANGED <<sound_q_head, playVars>>

(* sound_stop, as the Mute button calls it: the port write comes first,    *)
(* the flag is cleared by a later store.                                   *)
sound_stop ==
  /\ main.pc = "idle"
  /\ speaker' = [speaker EXCEPT !.gate = FALSE]
  /\ main' = [main EXCEPT !.pc = "stop"]
  /\ UNCHANGED <<ringVars, sound_is_playing, note_ms_left, voice>>

StopClearFlag ==
  /\ main.pc = "stop"
  /\ sound_is_playing' = FALSE
  /\ main' = Idle
  /\ UNCHANGED <<ringVars, note_ms_left, speaker, voice>>
-----------------------------------------------------------------------------
(* sound_tick, one call per timer interrupt.  A tick that finds nothing to *)
(* do changes nothing here and is a stuttering step.                       *)
TickExpire_KeepsPlaying ==
  /\ sound_is_playing
  /\ note_ms_left <= 1
  /\ note_ms_left' = 0
  /\ speaker' = [speaker EXCEPT !.gate = FALSE]
  /\ UNCHANGED <<ringVars, sound_is_playing, voice, main>>

TickExpire_KeepsGate ==
  /\ sound_is_playing
  /\ note_ms_left <= 1
  /\ note_ms_left' = 0
  /\ sound_is_playing' = FALSE
  /\ UNCHANGED <<ringVars, speaker, voice, main>>

TickExpire ==
  /\ sound_is_playing
  /\ note_ms_left <= 1          \* uptime_ms() >= current_note_end_ms
  /\ note_ms_left' = 0
  /\ sound_is_playing' = FALSE
  /\ speaker' = [speaker EXCEPT !.gate = FALSE]
  /\ UNCHANGED <<ringVars, voice, main>>

TickHold ==
  /\ sound_is_playing
  /\ note_ms_left > 1
  /\ note_ms_left' = note_ms_left - 1
  /\ UNCHANGED <<ringVars, sound_is_playing, speaker, voice, main>>

Speak_RestKeepsGate(note) ==
  IF note.freq > 0 THEN [gate |-> TRUE, div |-> Divisor(note.freq)] ELSE speaker

(* sound_play programs the divisor and opens the gate; a rest closes it.   *)
Speak(note) ==
  IF note.freq > 0 THEN [gate |-> TRUE, div |-> Divisor(note.freq)]
                   ELSE [speaker EXCEPT !.gate = FALSE]

TickStart ==
  /\ ~sound_is_playing
  /\ sound_q_head # sound_q_tail
  /\ LET note == sound_queue[sound_q_head]
     IN  /\ voice' = note
         /\ speaker' = Speak(note)
         /\ note_ms_left' = note.duration_ms
  /\ sound_q_head' = NextSlot(sound_q_head)
  /\ sound_is_playing' = TRUE
  /\ UNCHANGED <<sound_queue, sound_q_tail, main>>

sound_tick == TickExpire \/ TickHold \/ TickStart

Mainline == EnqueueStore \/ sound_stop \/ StopClearFlag \/ \E n \in Notes : sound_enqueue(n)

Next == Mainline \/ sound_tick

(* The PIT runs at 1000 Hz for as long as the machine is up, and the       *)
(* mainline never runs with interrupts disabled: ticks keep coming.        *)
Spec == Init /\ [][Next]_vars

FairSpec == Spec /\ WF_vars(sound_tick)
-----------------------------------------------------------------------------
(* Properties.                                                             *)

MainType == [pc : {"idle", "enqueue", "stop"}, note : Note, slot : Slots,
             order : {SourceOrder, BuildOrder}, step : 1 .. 3]

(* Type correctness: both indices stay inside the ring, whatever the       *)
(* interleaving of sound_enqueue and sound_tick.                           *)
TypeOK ==
  /\ sound_queue \in [Slots -> Note]
  /\ sound_q_head \in Slots
  /\ sound_q_tail \in Slots
  /\ sound_is_playing \in BOOLEAN
  /\ note_ms_left \in Nat
  /\ speaker \in [gate : BOOLEAN, div : Word16]
  /\ main \in MainType
  /\ voice \in Note \cup {NoVoice}

(* How many notes wait in the ring, and the notes themselves, oldest first. *)
Waiting == IF sound_q_tail >= sound_q_head THEN sound_q_tail - sound_q_head
           ELSE sound_q_tail - sound_q_head + SOUND_QUEUE_SIZE

SlotAt(k) == IF sound_q_head + k < SOUND_QUEUE_SIZE THEN sound_q_head + k
             ELSE sound_q_head + k - SOUND_QUEUE_SIZE

Contents == [k \in 1 .. Waiting |-> sound_queue[SlotAt(k - 1)]]

(* The argument behind the ring, in the order of the C text: the slot that *)
(* sound_enqueue fills is the one at tail, it is not readable before the   *)
(* store of tail publishes it, and by then both its fields are in place;   *)
(* so every readable slot holds a whole note.                              *)
FillingInv ==
  main.pc = "enqueue" =>
    /\ main.note \in Notes
    /\ main.order = SourceOrder
    /\ main.slot = sound_q_tail
    /\ HasRoom
    /\ main.step > 1 => sound_queue[sound_q_tail].freq = main.note.freq
    /\ main.step > 2 => sound_queue[sound_q_tail].duration_ms = main.note.duration_ms

ReadableInv == \A k \in 1 .. Waiting : sound_queue[SlotAt(k - 1)] \in Notes

PublishedWhole == FillingInv /\ ReadableInv

(* A tick that interrupts sound_enqueue never takes a half-written note:   *)
(* what sound_tick voices is always a note the desktop asked for, with     *)
(* both its pitch and its length.                                          *)
VoicesOnlyWholeNotes == voice \in Notes \cup {NoVoice}

(* While a note is voiced and no sound_stop is under way, the speaker is   *)
(* open exactly when the note is not a rest, and programmed with the       *)
(* note's own pitch.                                                       *)
SpeakerFollowsVoice ==
  sound_is_playing /\ main.pc # "stop" =>
    /\ speaker.gate <=> voice.freq > 0
    /\ speaker.gate => speaker.div = Divisor(voice.freq)

(* "Stop Sound" (apps/player/player.c): while nothing is voiced the        *)
(* speaker is silent.  Only the last store of sound_stop can break this,   *)
(* when ticks since its port write have ended the old note and begun the   *)
(* next one; no tick and no sound_enqueue ever does.                       *)
Silent == ~sound_is_playing => ~speaker.gate
OnlyStopStrandsSpeaker == [][Silent => Silent' \/ StopClearFlag]_vars

(* The ring, read from head to tail, is a bounded FIFO of whole notes.     *)
Fifo == INSTANCE NoteFifo WITH Capacity <- SOUND_QUEUE_SIZE - 1,
                               waiting <- Contents, voiced <- voice
RingIsFifo == Fifo!Spec

(* Every waiting note is voiced in the end: the head of a non-empty ring   *)
(* always moves on, whatever the mainline does meanwhile.                  *)
QueueDrains ==
  \A i \in Slots : sound_q_head = i /\ sound_q_head # sound_q_tail ~> sound_q_head # i
=============================================================================
