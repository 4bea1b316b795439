---------------------------- MODULE SoundProofs -----------------------------
(* Proofs about drivers/sound.c for a ring of any size and any notes.      *)
EXTENDS Sound, SequenceTheorems, TLAPS

(* (i + 1) % SOUND_QUEUE_SIZE is the next slot, and wraps to 0 at the end. *)
LEMMA NextSlotWraps ==
  ASSUME NEW i \in Slots
  PROVE  /\ NextSlot(i) = (IF i = SOUND_QUEUE_SIZE - 1 THEN 0 ELSE i + 1)
         /\ NextSlot(i) \in Slots
  BY QueueSizeAssumption DEF NextSlot, Slots

(* The divisor of an audible pitch fits the 16 bits the PIT is given.      *)
LEMMA DivisorType ==
  ASSUME NEW f \in Nat, f > 0
  PROVE  Divisor(f) \in Word16
  BY SMT DEF Divisor, Word16

(* A store of sound_enqueue is one of its three fields.                    *)
LEMMA StoreFields ==
  ASSUME NEW o \in {SourceOrder, BuildOrder}, NEW k \in 1 .. 3
  PROVE  o[k] \in {"freq", "duration_ms", "tail"}
  BY DEF SourceOrder, BuildOrder

(* sound_play and the rest leave the speaker with a 16-bit divisor.        *)
LEMMA SpeakType ==
  ASSUME TypeOK, NEW n \in Note
  PROVE  Speak(n) \in [gate : BOOLEAN, div : Word16]
  <1>1. CASE n.freq > 0
    BY <1>1, DivisorType, Zenon DEF Speak, Note, TypeOK
  <1>2. CASE ~(n.freq > 0)
    <2>1. speaker \in [gate : BOOLEAN, div : Word16]  BY DEF TypeOK
    <2>2. Speak(n) = [speaker EXCEPT !.gate = FALSE]  BY <1>2 DEF Speak
    <2> QED  BY <2>1, <2>2
  <1> QED  BY <1>1, <1>2

(* Type correctness (sound.c:12-15): every interleaving of sound_enqueue,  *)
(* sound_stop and the timer tick, in either order of stores, keeps both    *)
(* ring indices inside the ring.                                           *)
THEOREM TypeCorrect == Spec => []TypeOK
  <1>1. Init => TypeOK
    <2> SUFFICES ASSUME Init PROVE TypeOK  OBVIOUS
    <2>1. Silence \in Note /\ 0 \in Slots
      BY QueueSizeAssumption DEF Silence, Note, Slots
    <2>2. Idle \in MainType
      BY <2>1 DEF Idle, MainType
    <2>3. speaker \in [gate : BOOLEAN, div : Word16]  BY SMT DEF Init, Word16
    <2> QED  BY <2>1, <2>2, <2>3 DEF Init, TypeOK
  <1>2. TypeOK /\ [Next]_vars => TypeOK'
    <2> SUFFICES ASSUME TypeOK, [Next]_vars PROVE TypeOK'  OBVIOUS
    <2>0. Silence \in Note /\ 0 \in Slots /\ Idle \in MainType
      BY QueueSizeAssumption DEF Silence, Note, Slots, Idle, MainType
    <2>1. ASSUME NEW n \in Notes, sound_enqueue(n) PROVE TypeOK'
      <3>1. n \in Note  BY NotesAssumption
      <3>2. main' \in MainType
        BY <2>1, <3>1, StoreOrdersAssumption DEF sound_enqueue, TypeOK, MainType
      <3> QED  BY <2>1, <3>2, Zenon DEF sound_enqueue, TypeOK, ringVars, playVars
    <2>2. CASE EnqueueStore
      <3>1. main.order[main.step] \in {"freq", "duration_ms", "tail"}
        BY StoreFields DEF TypeOK, MainType
      <3>2. sound_queue' \in [Slots -> Note] /\ sound_q_tail' \in Slots
        BY <2>2, <3>1, NextSlotWraps
        DEF EnqueueStore, StoreField, TypeOK, MainType, Note
      <3>3. main' \in MainType
        BY <2>2, <2>0 DEF EnqueueStore, TypeOK, MainType
      <3> QED  BY <2>2, <3>2, <3>3, Zenon DEF EnqueueStore, TypeOK, playVars
    <2>3. CASE sound_stop
      <3>1. main' \in MainType
        BY <2>3 DEF sound_stop, TypeOK, MainType
      <3>2. speaker' \in [gate : BOOLEAN, div : Word16]
        BY <2>3 DEF sound_stop, TypeOK
      <3> QED  BY <2>3, <3>1, <3>2, Zenon DEF sound_stop, TypeOK, ringVars
    <2>4. CASE StopClearFlag
      BY <2>4, <2>0, Zenon DEF StopClearFlag, TypeOK, ringVars
    <2>5. CASE TickExpire
      <3>1. speaker' \in [gate : BOOLEAN, div : Word16]
        BY <2>5 DEF TickExpire, TypeOK
      <3>2. note_ms_left' \in Nat  BY <2>5 DEF TickExpire
      <3> QED  BY <2>5, <3>1, <3>2, Zenon DEF TickExpire, TypeOK, ringVars
    <2>6. CASE TickHold
      <3>1. note_ms_left' \in Nat  BY <2>6 DEF TickHold, TypeOK
      <3> QED  BY <2>6, <3>1, Zenon DEF TickHold, TypeOK, ringVars
    <2>7. CASE TickStart
      <3>1. sound_queue[sound_q_head] \in Note  BY DEF TypeOK
      <3>2. speaker' \in [gate : BOOLEAN, div : Word16]
        BY <2>7, <3>1, SpeakType DEF TickStart
      <3>3. note_ms_left' \in Nat /\ voice' \in Note
        BY <2>7, <3>1 DEF TickStart, Note
      <3>4. sound_q_head' \in Slots
        BY <2>7, NextSlotWraps DEF TickStart, TypeOK
      <3> QED  BY <2>7, <3>2, <3>3, <3>4, Zenon DEF TickStart, TypeOK
    <2>8. CASE UNCHANGED vars
      BY <2>8, Zenon DEF vars, ringVars, playVars, TypeOK
    <2> QED
      BY <2>1, <2>2, <2>3, <2>4, <2>5, <2>6, <2>7, <2>8
      DEF Next, Mainline, sound_tick
  <1> QED  BY <1>1, <1>2, PTL DEF Spec
-----------------------------------------------------------------------------
(* The inductive invariant behind the FIFO: whole notes in every readable  *)
(* slot, and a slot being filled that no tick can reach.                   *)
RingInv == TypeOK /\ PublishedWhole /\ VoicesOnlyWholeNotes

(* Where a step takes the readable region of the ring: the store of tail   *)
(* extends it by one slot at the far end, a tick that starts a note drops  *)
(* its first slot.                                                         *)
LEMMA RingGrows ==
  ASSUME TypeOK, HasRoom, sound_q_tail' = NextSlot(sound_q_tail),
         sound_q_head' = sound_q_head
  PROVE  /\ Waiting \in Nat /\ Waiting < SOUND_QUEUE_SIZE - 1
         /\ Waiting' = Waiting + 1
         /\ SlotAt(Waiting) = sound_q_tail
         /\ \A k \in 0 .. Waiting : SlotAt(k)' = SlotAt(k)
  <1>1. /\ SOUND_QUEUE_SIZE \in Nat \ {0, 1}
        /\ sound_q_head \in Slots /\ sound_q_tail \in Slots
    BY QueueSizeAssumption DEF TypeOK
  <1>2. NextSlot(sound_q_tail) =
          IF sound_q_tail = SOUND_QUEUE_SIZE - 1 THEN 0 ELSE sound_q_tail + 1
    BY <1>1, NextSlotWraps
  <1>3. NextSlot(sound_q_tail) # sound_q_head  BY DEF HasRoom
  <1> QED  BY <1>1, <1>2, <1>3 DEF Slots, Waiting, SlotAt

LEMMA RingShrinks ==
  ASSUME TypeOK, sound_q_head # sound_q_tail, sound_q_tail' = sound_q_tail,
         sound_q_head' = NextSlot(sound_q_head)
  PROVE  /\ Waiting \in Nat \ {0}
         /\ Waiting' = Waiting - 1
         /\ SlotAt(0) = sound_q_head
         /\ \A k \in 0 .. Waiting - 2 : SlotAt(k)' = SlotAt(k + 1)
  <1>1. /\ SOUND_QUEUE_SIZE \in Nat \ {0, 1}
        /\ sound_q_head \in Slots /\ sound_q_tail \in Slots
    BY QueueSizeAssumption DEF TypeOK
  <1>2. NextSlot(sound_q_head) =
          IF sound_q_head = SOUND_QUEUE_SIZE - 1 THEN 0 ELSE sound_q_head + 1
    BY <1>1, NextSlotWraps
  <1> QED  BY <1>1, <1>2 DEF Slots, Waiting, SlotAt

(* Readable slots are slots, and the one at tail is not among them.        *)
LEMMA ReadableSlots ==
  ASSUME TypeOK
  PROVE  /\ Waiting \in Nat
         /\ \A k \in 0 .. Waiting - 1 : SlotAt(k) \in Slots \ {sound_q_tail}
  BY QueueSizeAssumption DEF TypeOK, Slots, Waiting, SlotAt

LEMMA RingInvStep ==
  ASSUME StoreOrders \subseteq {SourceOrder}, RingInv, TypeOK', [Next]_vars
  PROVE  RingInv'
  <1> USE DEF RingInv, PublishedWhole
  <1>1. ASSUME NEW n \in Notes, sound_enqueue(n) PROVE RingInv'
    <2>1. FillingInv'
      BY <1>1 DEF sound_enqueue, FillingInv, HasRoom, ringVars
    <2>2. ReadableInv'
      BY <1>1 DEF sound_enqueue, ReadableInv, Waiting, SlotAt, ringVars
    <2> QED  BY <1>1, <2>1, <2>2 DEF sound_enqueue, playVars, VoicesOnlyWholeNotes
  <1>2. CASE EnqueueStore
    <2>0. /\ main.order = SourceOrder /\ main.slot = sound_q_tail
          /\ main.note \in Notes /\ main.step \in 1 .. 3 /\ HasRoom
      BY <1>2 DEF EnqueueStore, FillingInv, TypeOK, MainType
    <2>1. CASE main.step = 1
      <3>1. SourceOrder[1] = "freq"  BY DEF SourceOrder
      <3>2. /\ sound_queue' = [sound_queue EXCEPT ![sound_q_tail].freq = main.note.freq]
            /\ UNCHANGED <<sound_q_head, sound_q_tail, voice>>
            /\ main' = [main EXCEPT !.step = 2]
        BY <1>2, <2>0, <2>1, <3>1 DEF EnqueueStore, StoreField, playVars
      <3>3. FillingInv'
        BY <2>0, <2>1, <3>2 DEF FillingInv, TypeOK, MainType, HasRoom, Note
      <3>4. ReadableInv'
        BY <2>0, <3>2, ReadableSlots DEF ReadableInv, TypeOK, Waiting, SlotAt
      <3> QED  BY <3>2, <3>3, <3>4 DEF VoicesOnlyWholeNotes
    <2>2. CASE main.step = 2
      <3>1. SourceOrder[2] = "duration_ms"  BY DEF SourceOrder
      <3>2. /\ sound_queue' =
                 [sound_queue EXCEPT ![sound_q_tail].duration_ms = main.note.duration_ms]
            /\ UNCHANGED <<sound_q_head, sound_q_tail, voice>>
            /\ main' = [main EXCEPT !.step = 3]
        BY <1>2, <2>0, <2>2, <3>1 DEF EnqueueStore, StoreField, playVars
      <3>3. FillingInv'
        BY <1>2, <2>0, <2>2, <3>2 DEF EnqueueStore, FillingInv, TypeOK, MainType, HasRoom, Note
      <3>4. ReadableInv'
        BY <2>0, <3>2, ReadableSlots DEF ReadableInv, TypeOK, Waiting, SlotAt
      <3> QED  BY <3>2, <3>3, <3>4 DEF VoicesOnlyWholeNotes
    <2>3. CASE main.step = 3
      <3>1. SourceOrder[3] = "tail"  BY DEF SourceOrder
      <3>2. /\ sound_q_tail' = NextSlot(sound_q_tail)
            /\ UNCHANGED <<sound_q_head, sound_queue, voice>>
            /\ main' = Idle
        BY <1>2, <2>0, <2>3, <3>1 DEF EnqueueStore, StoreField, playVars
      <3>3. FillingInv'
        BY <3>2 DEF FillingInv, Idle
      <3>4. sound_queue[sound_q_tail] = main.note
        BY <1>2, <2>0, <2>3, NotesAssumption
        DEF EnqueueStore, FillingInv, TypeOK, MainType, Note
      <3>5. ReadableInv'
        BY <2>0, <3>2, <3>4, RingGrows DEF ReadableInv
      <3> QED  BY <3>2, <3>3, <3>5 DEF VoicesOnlyWholeNotes
    <2> QED  BY <2>0, <2>1, <2>2, <2>3
  <1>3. CASE sound_stop
    <2>1. FillingInv'  BY <1>3 DEF sound_stop, FillingInv, TypeOK, MainType
    <2>2. ReadableInv'
      BY <1>3 DEF sound_stop, ReadableInv, Waiting, SlotAt, ringVars
    <2> QED  BY <1>3, <2>1, <2>2 DEF sound_stop, VoicesOnlyWholeNotes
  <1>4. CASE StopClearFlag
    <2>1. FillingInv'  BY <1>4 DEF StopClearFlag, FillingInv, Idle
    <2>2. ReadableInv'
      BY <1>4 DEF StopClearFlag, ReadableInv, Waiting, SlotAt, ringVars
    <2> QED  BY <1>4, <2>1, <2>2 DEF StopClearFlag, VoicesOnlyWholeNotes
  <1>5. CASE TickExpire \/ TickHold \/ UNCHANGED vars
    <2>0. UNCHANGED <<ringVars, main, voice>>
      BY <1>5 DEF TickExpire, TickHold, vars, playVars
    <2>1. FillingInv'  BY <2>0 DEF FillingInv, HasRoom, ringVars
    <2>2. ReadableInv'  BY <2>0 DEF ReadableInv, Waiting, SlotAt, ringVars
    <2> QED  BY <2>0, <2>1, <2>2 DEF VoicesOnlyWholeNotes
  <1>6. CASE TickStart
    <2>1. FillingInv'
      BY <1>6, NextSlotWraps, QueueSizeAssumption
      DEF TickStart, FillingInv, HasRoom, TypeOK, Slots
    <2>2. ReadableInv'
      BY <1>6, RingShrinks DEF TickStart, ReadableInv
    <2>3. VoicesOnlyWholeNotes'
      BY <1>6, RingShrinks DEF TickStart, ReadableInv, VoicesOnlyWholeNotes
    <2> QED  BY <2>1, <2>2, <2>3
  <1> QED
    BY <1>1, <1>2, <1>3, <1>4, <1>5, <1>6 DEF Next, Mainline, sound_tick

LEMMA RingInvInvariant ==
  ASSUME StoreOrders \subseteq {SourceOrder}
  PROVE  Spec => []RingInv
  <1>1. Init /\ TypeOK => RingInv
    BY QueueSizeAssumption
    DEF Init, RingInv, PublishedWhole, FillingInv, ReadableInv, Waiting, Idle,
        VoicesOnlyWholeNotes
  <1>2. RingInv /\ TypeOK' /\ [Next]_vars => RingInv'
    BY RingInvStep
  <1> QED  BY <1>1, <1>2, TypeCorrect, PTL DEF Spec

(* With the stores of sound_enqueue in the order of the C text, a tick     *)
(* never voices a half-written note, whatever the size of the ring, the    *)
(* notes and the interleaving (sound.c:51-80).                             *)
THEOREM WholeNotes ==
  ASSUME StoreOrders \subseteq {SourceOrder}
  PROVE  Spec => []VoicesOnlyWholeNotes
  <1>1. RingInv => VoicesOnlyWholeNotes  BY DEF RingInv
  <1> QED  BY <1>1, RingInvInvariant, PTL
-----------------------------------------------------------------------------
(* The readable slots form a sequence of notes.                            *)
ContentsOK ==
  /\ Contents \in Seq(Notes)
  /\ Len(Contents) = Waiting
  /\ \A k \in 1 .. Waiting : Contents[k] = sound_queue[SlotAt(k - 1)]

LEMMA ContentsSeq == RingInv => ContentsOK
  <1> SUFFICES ASSUME TypeOK, ReadableInv PROVE ContentsOK
    BY DEF RingInv, PublishedWhole
  <1>1. Waiting \in Nat  BY ReadableSlots
  <1>2. Contents \in [1 .. Waiting -> Notes]  BY DEF Contents, ReadableInv
  <1>3. Contents \in Seq(Notes)  BY <1>1, <1>2, SeqDef
  <1>4. DOMAIN Contents = 1 .. Len(Contents) /\ Len(Contents) \in Nat
    BY <1>3, LenProperties
  <1>5. Len(Contents) = Waiting  BY <1>1, <1>4 DEF Contents
  <1> QED  BY <1>3, <1>5 DEF Contents, ContentsOK

(* The store of tail appends the note to the abstract queue, and the queue *)
(* had room for it.                                                        *)
LEMMA PublishAppends ==
  ASSUME RingInv, RingInv', HasRoom, sound_q_tail' = NextSlot(sound_q_tail),
         UNCHANGED <<sound_q_head, sound_queue>>,
         NEW n \in Notes, sound_queue[sound_q_tail] = n
  PROVE  /\ Contents' = Append(Contents, n)
         /\ Len(Contents) < SOUND_QUEUE_SIZE - 1
  <1>0. TypeOK  BY DEF RingInv
  <1>1. ContentsOK  BY ContentsSeq
  <1>2. ContentsOK'  BY ContentsSeq, PTL
  <1>3. /\ Append(Contents, n) \in Seq(Notes)
        /\ Len(Append(Contents, n)) = Waiting + 1
        /\ \A k \in 1 .. Waiting + 1 :
             Append(Contents, n)[k] = IF k <= Waiting THEN Contents[k] ELSE n
    BY <1>1, AppendProperties DEF ContentsOK
  <1>4. /\ Waiting \in Nat /\ Waiting < SOUND_QUEUE_SIZE - 1
        /\ Waiting' = Waiting + 1
        /\ SlotAt(Waiting) = sound_q_tail
        /\ \A k \in 0 .. Waiting : SlotAt(k)' = SlotAt(k)
    BY <1>0, RingGrows
  <1>5. \A k \in 1 .. Waiting + 1 : Contents'[k] = Append(Contents, n)[k]
    BY <1>1, <1>2, <1>3, <1>4 DEF ContentsOK
  <1> QED  BY <1>1, <1>2, <1>3, <1>4, <1>5, SeqEqual DEF ContentsOK

(* A tick that starts a note takes it off the front of the abstract queue. *)
LEMMA StartDequeues ==
  ASSUME RingInv, RingInv', TickStart
  PROVE  /\ Contents # <<>>
         /\ voice' = Head(Contents)
         /\ Contents' = Tail(Contents)
  <1>0. TypeOK  BY DEF RingInv
  <1>1. ContentsOK  BY ContentsSeq
  <1>2. ContentsOK'  BY ContentsSeq, PTL
  <1>3. /\ Waiting \in Nat \ {0}
        /\ Waiting' = Waiting - 1
        /\ SlotAt(0) = sound_q_head
        /\ \A k \in 0 .. Waiting - 2 : SlotAt(k)' = SlotAt(k + 1)
    BY <1>0, RingShrinks DEF TickStart
  <1>4. Contents # <<>>  BY <1>1, <1>3, EmptySeq DEF ContentsOK
  <1>5. /\ Tail(Contents) \in Seq(Notes)
        /\ Len(Tail(Contents)) = Waiting - 1
        /\ \A k \in 1 .. Waiting - 1 : Tail(Contents)[k] = Contents[k + 1]
    BY <1>1, <1>4, HeadTailProperties DEF ContentsOK
  <1>6. Head(Contents) = sound_queue[sound_q_head]
    BY <1>1, <1>3 DEF ContentsOK
  <1>7. \A k \in 1 .. Waiting - 1 : Contents'[k] = Tail(Contents)[k]
    <2> TAKE k \in 1 .. Waiting - 1
    <2>1. Contents'[k] = sound_queue'[SlotAt(k - 1)']  BY <1>2, <1>3 DEF ContentsOK
    <2>2. SlotAt(k - 1)' = SlotAt(k)  BY <1>3
    <2>3. Tail(Contents)[k] = sound_queue[SlotAt(k)]  BY <1>1, <1>3, <1>5 DEF ContentsOK
    <2> QED  BY <2>1, <2>2, <2>3 DEF TickStart
  <1>8. Contents' = Tail(Contents)
    BY <1>2, <1>3, <1>5, <1>7, SeqEqual DEF ContentsOK
  <1> QED  BY <1>4, <1>6, <1>8 DEF TickStart

(* A store into the slot at tail leaves the abstract queue as it was.      *)
LEMMA FillingIsInvisible ==
  ASSUME RingInv, UNCHANGED <<sound_q_head, sound_q_tail>>,
         \A i \in Slots \ {sound_q_tail} : sound_queue'[i] = sound_queue[i]
  PROVE  Contents' = Contents
  <1>1. TypeOK  BY DEF RingInv
  <1>2. Waiting' = Waiting  BY DEF Waiting
  <1>3. \A k \in 1 .. Waiting : SlotAt(k - 1)' = SlotAt(k - 1)  BY DEF SlotAt
  <1>4. \A k \in 1 .. Waiting : SlotAt(k - 1) \in Slots \ {sound_q_tail}
    BY <1>1, ReadableSlots
  <1> QED  BY <1>2, <1>3, <1>4 DEF Contents

(* With the stores in source order the ring implements a bounded FIFO of   *)
(* whole notes: every step of the driver appends one note, voices the      *)
(* oldest one, or leaves the queue alone (sound.c:51-80).                  *)
THEOREM RingImplementsFifo ==
  ASSUME StoreOrders \subseteq {SourceOrder}
  PROVE  Spec => RingIsFifo
  <1>1. Init => Fifo!Init
    <2> SUFFICES ASSUME Init PROVE Fifo!Init  OBVIOUS
    <2>1. Waiting = 0  BY DEF Init, Waiting
    <2>2. Contents = <<>>  BY <2>1 DEF Contents
    <2>3. NoVoice \notin Notes
      BY NotesAssumption DEF NoVoice, Note
    <2> QED  BY <2>2, <2>3 DEF Init, Fifo!Init
  <1>2. RingInv /\ RingInv' /\ [Next]_vars => [Fifo!Next]_(Fifo!vars)
    <2> SUFFICES ASSUME RingInv, RingInv', [Next]_vars
                 PROVE  Fifo!Next \/ UNCHANGED <<Contents, voice>>
      BY DEF Fifo!vars
    <2>0. TypeOK /\ FillingInv  BY DEF RingInv, PublishedWhole
    <2>1. CASE EnqueueStore
      <3>0. /\ main.order = SourceOrder /\ main.slot = sound_q_tail
            /\ main.note \in Notes /\ main.step \in 1 .. 3 /\ HasRoom
        BY <2>0, <2>1 DEF EnqueueStore, FillingInv, TypeOK, MainType
      <3>1. CASE main.step \in 1 .. 2
        <4>1. SourceOrder[main.step] \in {"freq", "duration_ms"}
          BY <3>1 DEF SourceOrder
        <4>2. /\ UNCHANGED <<sound_q_head, sound_q_tail, voice>>
              /\ \A i \in Slots \ {sound_q_tail} : sound_queue'[i] = sound_queue[i]
          BY <2>0, <2>1, <3>0, <4>1 DEF EnqueueStore, StoreField, playVars, TypeOK
        <4> QED  BY <4>2, FillingIsInvisible
      <3>2. CASE main.step = 3
        <4>1. SourceOrder[3] = "tail"  BY DEF SourceOrder
        <4>2. /\ sound_q_tail' = NextSlot(sound_q_tail)
              /\ UNCHANGED <<sound_q_head, sound_queue, voice>>
          BY <2>1, <3>0, <3>2, <4>1 DEF EnqueueStore, StoreField, playVars
        <4>3. sound_queue[sound_q_tail] = main.note
          BY <2>0, <2>1, <3>0, <3>2, NotesAssumption
          DEF EnqueueStore, FillingInv, TypeOK, MainType, Note
        <4>4. Fifo!Accept(main.note)
          BY <3>0, <4>2, <4>3, PublishAppends DEF Fifo!Accept
        <4> QED  BY <3>0, <4>4 DEF Fifo!Next
      <3> QED  BY <3>0, <3>1, <3>2
    <2>2. CASE TickStart
      BY <2>2, StartDequeues DEF Fifo!Next, Fifo!Voice
    <2>3. CASE TickExpire \/ TickHold \/ sound_stop \/ StopClearFlag \/ UNCHANGED vars
      <3>1. UNCHANGED <<ringVars, voice>>
        BY <2>3 DEF TickExpire, TickHold, sound_stop, StopClearFlag, vars, playVars
      <3> QED  BY <3>1 DEF Contents, Waiting, SlotAt, ringVars
    <2>4. ASSUME NEW n \in Notes, sound_enqueue(n) PROVE UNCHANGED <<Contents, voice>>
      BY <2>4 DEF sound_enqueue, Contents, Waiting, SlotAt, ringVars, playVars
    <2> QED
      BY <2>1, <2>2, <2>3, <2>4 DEF Next, Mainline, sound_tick
  <1>3. RingIsFifo <=> Fifo!Init /\ [][Fifo!Next]_(Fifo!vars)
    BY DEF RingIsFifo, Fifo!Spec
  <1> QED  BY <1>1, <1>2, <1>3, RingInvInvariant, PTL DEF Spec

(* With the stores in source order a slot that a tick may read is always   *)
(* whole, whenever the tick interrupts sound_enqueue.                      *)
THEOREM ReadableStaysWhole ==
  ASSUME StoreOrders \subseteq {SourceOrder}
  PROVE  Spec => []PublishedWhole
  <1>1. RingInv => PublishedWhole  BY DEF RingInv
  <1> QED  BY <1>1, RingInvInvariant, PTL

(* The speaker plays the voiced note, for every order of the stores: a     *)
(* half-written note is played as it was read.                             *)
THEOREM SpeakerPlaysVoice == Spec => []SpeakerFollowsVoice
  <1>1. Init => SpeakerFollowsVoice  BY DEF Init, SpeakerFollowsVoice
  <1>2. TypeOK /\ SpeakerFollowsVoice /\ [Next]_vars => SpeakerFollowsVoice'
    <2> SUFFICES ASSUME TypeOK, SpeakerFollowsVoice, [Next]_vars PROVE SpeakerFollowsVoice'
      OBVIOUS
    <2>1. ASSUME UNCHANGED <<sound_is_playing, speaker, voice>>, main'.pc # "stop" => main.pc # "stop"
          PROVE  SpeakerFollowsVoice'
      BY <2>1 DEF SpeakerFollowsVoice
    <2>2. CASE EnqueueStore
      BY <2>1, <2>2 DEF EnqueueStore, playVars
    <2>3. ASSUME NEW n \in Notes, sound_enqueue(n) PROVE SpeakerFollowsVoice'
      BY <2>1, <2>3 DEF sound_enqueue, playVars
    <2>4. CASE sound_stop
      <3>1. main'.pc = "stop"  BY <2>4 DEF sound_stop, TypeOK, MainType
      <3> QED  BY <3>1 DEF SpeakerFollowsVoice
    <2>5. CASE StopClearFlag \/ TickExpire
      <3>1. sound_is_playing' = FALSE  BY <2>5 DEF StopClearFlag, TickExpire
      <3> QED  BY <3>1 DEF SpeakerFollowsVoice
    <2>6. CASE TickHold
      BY <2>1, <2>6 DEF TickHold
    <2>7. CASE TickStart
      <3> DEFINE note == sound_queue[sound_q_head]
      <3>1. voice' = note /\ speaker' = Speak(note)  BY <2>7 DEF TickStart
      <3>2. speaker \in [gate : BOOLEAN, div : Word16]  BY DEF TypeOK
      <3> HIDE DEF note
      <3>3. CASE note.freq > 0
        BY <3>1, <3>3 DEF Speak, SpeakerFollowsVoice
      <3>4. CASE ~(note.freq > 0)
        <4>1. speaker'.gate = FALSE  BY <3>1, <3>2, <3>4 DEF Speak
        <4> QED  BY <3>1, <3>4, <4>1 DEF SpeakerFollowsVoice
      <3> QED  BY <3>3, <3>4
    <2>8. CASE UNCHANGED vars
      BY <2>1, <2>8 DEF vars, playVars
    <2> QED
      BY <2>2, <2>3, <2>4, <2>5, <2>6, <2>7, <2>8 DEF Next, Mainline, sound_tick
  <1> QED  BY <1>1, <1>2, TypeCorrect, PTL DEF Spec

(* Only the last store of sound_stop can leave the speaker on with nothing *)
(* voiced, for every order of the stores of sound_enqueue.                 *)
THEOREM StrandedOnlyByStop == Spec => OnlyStopStrandsSpeaker
  <1>1. TypeOK /\ [Next]_vars => [Silent => Silent' \/ StopClearFlag]_vars
    <2> SUFFICES ASSUME TypeOK, Next, Silent, ~StopClearFlag PROVE Silent'
      OBVIOUS
    <2>1. speaker \in [gate : BOOLEAN, div : Word16]  BY DEF TypeOK
    <2>2. CASE UNCHANGED <<sound_is_playing, speaker>>
      BY <2>2 DEF Silent
    <2>3. CASE sound_stop \/ TickExpire
      <3>1. speaker'.gate = FALSE  BY <2>1, <2>3 DEF sound_stop, TickExpire
      <3> QED  BY <3>1 DEF Silent
    <2>4. CASE TickStart
      <3>1. sound_is_playing' = TRUE  BY <2>4 DEF TickStart
      <3> QED  BY <3>1 DEF Silent
    <2>5. CASE EnqueueStore
      BY <2>2, <2>5 DEF EnqueueStore, playVars
    <2>6. ASSUME NEW n \in Notes, sound_enqueue(n) PROVE Silent'
      BY <2>2, <2>6 DEF sound_enqueue, playVars
    <2>7. CASE TickHold
      BY <2>2, <2>7 DEF TickHold
    <2> QED
      BY <2>3, <2>4, <2>5, <2>6, <2>7 DEF Next, Mainline, sound_tick
  <1> QED  BY <1>1, TypeCorrect, PTL DEF Spec, OnlyStopStrandsSpeaker
=============================================================================
