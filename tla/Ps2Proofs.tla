----------------------------- MODULE Ps2Proofs ------------------------------
(***************************************************************************)
(* Proofs about Ps2, for queues of any length in the keyboard and in the   *)
(* mouse and any set of keys.                                              *)
(***************************************************************************)
EXTENDS Ps2, TLAPS

KbdCodes == {"e0", "config", "alt", "ctrl", "shift", "super", "caps", "a"}
KbdBytes == [src : {"kbd"}, code : KbdCodes, make : BOOLEAN, bit3 : {FALSE}, pos : {0}]
MouseBytes == [src : {"mouse"}, code : {"ack", "id0", "id3", "data"}, make : {FALSE}, bit3 : BOOLEAN, pos : Nat]

(* The devices' queues hold bytes of their own, the port one of either.    *)
BytesOK ==
  /\ kbd_q \in Seq(KbdBytes)
  /\ mouse_q \in Seq(MouseBytes)
  /\ port \in [full : BOOLEAN, byte : KbdBytes \cup MouseBytes]
  /\ mouse_dev \in [has : BOOLEAN, knock : 0 .. 2, wheel : BOOLEAN, reporting : BOOLEAN]

Inv == TypeOK /\ BytesOK /\ PortHasReader

LEMMA ScriptLength == Len(Script) = 21
BY DEF Script

LEMMA KeyBytesType ==
  ASSUME NEW k \in Keys, NEW make \in BOOLEAN
  PROVE  KeyBytes(k, make) \in Seq(KbdBytes)
<1>1. k \in AllKeys
  BY KeysAssumption
<1>2. Code(k) \in KbdCodes
  BY <1>1 DEF AllKeys, Code, KbdCodes
<1>3. Scan(Code(k), make) \in KbdBytes
  BY <1>2 DEF Scan, KbdBytes
<1>4. E0 \in KbdBytes
  BY DEF Scan, E0, KbdBytes, KbdCodes
<1> QED
  BY <1>3, <1>4 DEF KeyBytes

LEMMA TakenType ==
  ASSUME BytesOK
  PROVE  Taken \in [full : BOOLEAN, byte : KbdBytes \cup MouseBytes] /\ Taken.full = FALSE
         /\ Taken.byte = port.byte
BY DEF BytesOK, Taken

LEMMA InitInv == Init => Inv
<1> SUFFICES ASSUME Init PROVE Inv
  OBVIOUS
<1>1. Config \in KbdBytes
  BY DEF Config, Scan, KbdBytes, KbdCodes
<1>2. TypeOK
  BY ScriptLength DEF Init, TypeOK
<1>3. BytesOK
  <2>1. port \in [full : BOOLEAN, byte : KbdBytes \cup MouseBytes]
    BY <1>1 DEF Init
  <2>2. kbd_q \in Seq(KbdBytes) /\ mouse_q \in Seq(MouseBytes)
    BY DEF Init
  <2>3. mouse_dev \in [has : BOOLEAN, knock : 0 .. 2, wheel : BOOLEAN, reporting : BOOLEAN]
    BY DEF Init
  <2> QED
    BY <2>1, <2>2, <2>3 DEF BytesOK
<1>4. PortHasReader
  BY DEF Init, PortHasReader, Config, Scan
<1> QED
  BY <1>2, <1>3, <1>4 DEF Inv

(* handle_kbd keeps the types of what it writes.                           *)
LEMMA HandledKbd ==
  ASSUME TypeOK, NEW b \in KbdBytes, handle_kbd(b)
  PROVE  mods' \subseteq Modifiers /\ last_key' \in {None, "a", "A"}
<1>1. Letter \in {"a", "A"}
  BY DEF Letter
<1>2. CASE b = E0
  BY <1>2 DEF handle_kbd, TypeOK
<1>3. CASE b # E0 /\ e0_mode
  BY <1>3 DEF handle_kbd, TypeOK
<1>4. CASE b # E0 /\ ~e0_mode
  BY <1>1, <1>4 DEF handle_kbd, TypeOK
<1> QED
  BY <1>2, <1>3, <1>4

LEMMA NextInv == Inv /\ [Next]_vars => Inv'
<1> SUFFICES ASSUME Inv, [Next]_vars PROVE Inv'
  OBVIOUS
<1> USE ScriptLength DEF Inv
<1> USE DEF devices, kbd
<1>1. ASSUME NEW k \in Keys, key_event(k) PROVE Inv'
  <2>1. kbd_q' \in Seq(KbdBytes)
    <3>1. (k \notin held) \in BOOLEAN
      OBVIOUS
    <3>2. KeyBytes(k, k \notin held) \in Seq(KbdBytes)
      BY <3>1, KeyBytesType
    <3> QED
      BY <1>1, <3>2 DEF key_event, BytesOK
  <2>2. TypeOK'
    BY <1>1 DEF key_event, TypeOK
  <2>3. BytesOK'
    BY <1>1, <2>1 DEF key_event, BytesOK
  <2>4. PortHasReader'
    BY <1>1 DEF key_event, PortHasReader
  <2> QED
    BY <2>2, <2>3, <2>4
<1>2. ASSUME NEW high \in BOOLEAN, mouse_moves(high) PROVE Inv'
  <2>1. [p \in 1 .. PacketLength |-> MouseByte("data", p = 1 \/ high, p)] \in Seq(MouseBytes)
    <3>1. PacketLength \in Nat
      BY DEF PacketLength
    <3>2. ASSUME NEW p \in 1 .. PacketLength
          PROVE  MouseByte("data", p = 1 \/ high, p) \in MouseBytes
      <4>1. (p = 1 \/ high) \in BOOLEAN
        OBVIOUS
      <4>2. p \in Nat
        BY <3>1
      <4>3. \A bit \in BOOLEAN : MouseByte("data", bit, p) \in MouseBytes
        BY <4>2 DEF MouseByte, MouseBytes
      <4> QED
        BY <4>1, <4>3
    <3> QED
      BY <3>1, <3>2
  <2>2. mouse_q' \in Seq(MouseBytes)
    BY <1>2, <2>1 DEF mouse_moves, BytesOK
  <2>3. TypeOK'
    BY <1>2 DEF mouse_moves, TypeOK
  <2>4. BytesOK'
    BY <1>2, <2>2 DEF mouse_moves, BytesOK
  <2>5. PortHasReader'
    BY <1>2 DEF mouse_moves, PortHasReader
  <2> QED
    BY <2>3, <2>4, <2>5
<1>3. CASE deliver_kbd
  <2>1. Head(kbd_q) \in KbdBytes /\ Tail(kbd_q) \in Seq(KbdBytes)
    BY <1>3 DEF deliver_kbd, BytesOK
  <2>2. TypeOK'
    BY <1>3 DEF deliver_kbd, TypeOK
  <2>3. BytesOK'
    BY <1>3, <2>1 DEF deliver_kbd, BytesOK
  <2>4. PortHasReader'
    BY <1>3, <2>1 DEF deliver_kbd, PortHasReader, KbdBytes
  <2> QED
    BY <2>2, <2>3, <2>4
<1>4. CASE deliver_mouse
  <2>1. Head(mouse_q) \in MouseBytes /\ Tail(mouse_q) \in Seq(MouseBytes)
    BY <1>4 DEF deliver_mouse, BytesOK
  <2>2. TypeOK'
    BY <1>4 DEF deliver_mouse, TypeOK
  <2>3. BytesOK'
    BY <1>4, <2>1 DEF deliver_mouse, BytesOK
  <2>4. PortHasReader'
    BY <1>4, <2>1 DEF deliver_mouse, PortHasReader, MouseBytes
  <2> QED
    BY <2>2, <2>3, <2>4
<1>5. CASE read_config
  <2>1. TypeOK'
    <3>1. irq1_on' \in BOOLEAN
      BY <1>5 DEF read_config
    <3>2. pc' \in 1 .. Len(Script) + 1
      BY <1>5 DEF read_config, TypeOK, InLoop
    <3> QED
      BY <1>5, <3>1, <3>2 DEF read_config, TypeOK
  <2>2. BytesOK'
    BY <1>5, TakenType DEF read_config, BytesOK
  <2>3. PortHasReader'
    BY <1>5, TakenType DEF read_config, PortHasReader
  <2> QED
    BY <2>1, <2>2, <2>3
<1>6. CASE write_config
  <2>1. TypeOK'
    BY <1>6 DEF write_config, TypeOK, InLoop
  <2> QED
    BY <1>6, <2>1 DEF write_config, BytesOK, PortHasReader
<1>7. CASE mouse_write
  <2>1. TypeOK'
    <3>1. pc' = pc + 1 /\ ~InLoop
      BY <1>7 DEF mouse_write
    <3>2. UNCHANGED <<irr, irq1_on, held, mouse_cycle, mods, last_key, key_reg>>
      BY <1>7 DEF mouse_write
    <3> QED
      BY <3>1, <3>2 DEF TypeOK, InLoop
  <2>2. Answer \in Seq(MouseBytes)
    <3>1. Ack \in MouseBytes /\ DeviceId \in MouseBytes
      BY DEF Ack, DeviceId, MouseByte, MouseBytes
    <3> QED
      BY <3>1 DEF Answer
  <2>3. mouse_dev' \in [has : BOOLEAN, knock : 0 .. 2, wheel : BOOLEAN, reporting : BOOLEAN]
    <3> DEFINE k == IF Step = Knock[mouse_dev.knock + 1] THEN mouse_dev.knock + 1 ELSE 0
    <3>1. k \in 0 .. 3
      BY DEF BytesOK
    <3>2. k % 3 \in 0 .. 2
      BY <3>1
    <3>3. Knocked = mouse_dev \/ Knocked = [mouse_dev EXCEPT !.knock = k % 3, !.wheel = @ \/ (k = 3 /\ mouse_dev.has)]
      BY DEF Knocked
    <3> HIDE DEF k
    <3>4. (mouse_dev.wheel \/ (k = 3 /\ mouse_dev.has)) \in BOOLEAN
      OBVIOUS
    <3>5. Knocked \in [has : BOOLEAN, knock : 0 .. 2, wheel : BOOLEAN, reporting : BOOLEAN]
      BY <3>2, <3>3, <3>4 DEF BytesOK
    <3> QED
      BY <1>7, <3>5 DEF mouse_write, BytesOK
  <2>4. BytesOK'
    BY <1>7, <2>2, <2>3 DEF mouse_write, BytesOK
  <2>5. PortHasReader'
    BY <1>7 DEF mouse_write, PortHasReader
  <2> QED
    BY <2>1, <2>4, <2>5
<1>8. CASE mouse_read
  <2>1. TypeOK'
    BY <1>8 DEF mouse_read, TypeOK, InLoop
  <2>2. BytesOK'
    BY <1>8, TakenType DEF mouse_read, BytesOK
  <2>3. PortHasReader'
    BY <1>8, TakenType DEF mouse_read, PortHasReader
  <2> QED
    BY <2>1, <2>2, <2>3
<1>9. CASE mouse_read_timeout
  <2>1. TypeOK'
    BY <1>9 DEF mouse_read_timeout, TypeOK, InLoop
  <2> QED
    BY <1>9, <2>1 DEF mouse_read_timeout, BytesOK, PortHasReader
<1>10. CASE key_read
  BY <1>10 DEF key_read, TypeOK, BytesOK, PortHasReader
<1>11. CASE key_clear
  BY <1>11 DEF key_clear, TypeOK, BytesOK, PortHasReader
<1>12. CASE irq1_handler
  <2>1. TypeOK'
    <3>1. mods' \subseteq Modifiers /\ last_key' \in {None, "a", "A"}
      <4>1. CASE port.full /\ port.byte.src = "kbd"
        <5>1. port.byte \in KbdBytes
          BY <4>1 DEF BytesOK, MouseBytes
        <5> QED
          BY <1>12, <4>1, <5>1, HandledKbd DEF irq1_handler
      <4>2. CASE ~(port.full /\ port.byte.src = "kbd")
        BY <1>12, <4>2 DEF irq1_handler, TypeOK
      <4> QED
        BY <4>1, <4>2
    <3> QED
      BY <1>12, <3>1 DEF irq1_handler, TypeOK
  <2>2. BytesOK'
    BY <1>12, TakenType DEF irq1_handler, BytesOK
  <2>3. PortHasReader'
    BY <1>12, TakenType DEF irq1_handler, PortHasReader
  <2> QED
    BY <2>1, <2>2, <2>3
<1>13. CASE irq12_handler
  <2>1. mouse_cycle' \in 0 .. 3
    BY <1>13 DEF irq12_handler, handle_mouse, TypeOK
  <2>2. TypeOK'
    BY <1>13, <2>1 DEF irq12_handler, TypeOK
  <2>3. BytesOK'
    BY <1>13, TakenType DEF irq12_handler, BytesOK
  <2>4. PortHasReader'
    BY <1>13, TakenType DEF irq12_handler, PortHasReader
  <2> QED
    BY <2>2, <2>3, <2>4
<1>14. CASE UNCHANGED vars
  BY <1>14 DEF vars, TypeOK, BytesOK, PortHasReader
<1> QED
  BY <1>1, <1>2, <1>3, <1>4, <1>5, <1>6, <1>7, <1>8, <1>9, <1>10, <1>11, <1>12, <1>13, <1>14
  DEF Next, External, Mainline

LEMMA Invariance == Spec => []Inv
BY InitInv, NextInv, PTL DEF Spec

(* The variables keep their types; mouse_cycle stays inside mouse_byte[4]. *)
THEOREM TypeCorrect == Spec => []TypeOK
<1>1. Inv => TypeOK
  BY DEF Inv
<1> QED
  BY <1>1, Invariance, PTL

(* A byte in the port always has a request latched that will read it, for  *)
(* any number of bytes waiting behind it in the two devices.               *)
THEOREM EveryByteHasReader == Spec => []PortHasReader
<1>1. Inv => PortHasReader
  BY DEF Inv
<1> QED
  BY <1>1, Invariance, PTL
-----------------------------------------------------------------------------
(***************************************************************************)
(* The modifiers.  Pending is what handle_kbd has yet to see of the        *)
(* keyboard's bytes, and Before the byte it saw last, as far as it matters.*)
(* A key c is down after all of them if its last event among them is a     *)
(* make, or if there is none and it is down now.  Super counts behind the  *)
(* prefix E0, the other keys without it.                                   *)
(***************************************************************************)
Pending == IF port.full /\ port.byte.src = "kbd" THEN <<port.byte>> \o kbd_q ELSE kbd_q
Before == IF e0_mode THEN E0 ELSE Config
DownNow == mods \cup (IF super_pressed THEN {"super"} ELSE {})

Prev(s, first, i) == IF i = 1 THEN first ELSE s[i - 1]
IsEvent(s, first, i, c) == s[i].code = c /\ (Prev(s, first, i) = E0 <=> c = "super")
Down(s, first, down, c) ==
  \/ c \in down /\ \A i \in 1 .. Len(s) : ~IsEvent(s, first, i, c)
  \/ \E i \in 1 .. Len(s) : /\ IsEvent(s, first, i, c) /\ s[i].make
                            /\ \A j \in 1 .. Len(s) : j > i => ~IsEvent(s, first, j, c)
Last(s, first) == IF Len(s) = 0 THEN first ELSE s[Len(s)]

Tracked == {"alt", "ctrl", "super"}

KbdInv ==
  /\ e0_mode \in BOOLEAN /\ super_pressed \in BOOLEAN
  /\ \A i \in 1 .. Len(kbd_q) : kbd_q[i] # Config
  /\ port.full /\ port.byte = Config => ~e0_mode
  /\ clean => /\ Last(Pending, Before) # E0
              /\ \A c \in Tracked : Down(Pending, Before, DownNow, c) <=> c \in held

(* Handling the first byte moves it from Pending into the driver's state.  *)
LEMMA DownTail ==
  ASSUME NEW s \in Seq(KbdBytes), Len(s) > 0, NEW t \in Seq(KbdBytes), Len(t) = Len(s) - 1,
         \A i \in 1 .. Len(t) : t[i] = s[i + 1],
         NEW first, NEW first2, first2 = E0 <=> s[1] = E0,
         NEW down, NEW down2, NEW c \in Tracked,
         c \in down2 <=> IF IsEvent(s, first, 1, c) THEN s[1].make ELSE c \in down
  PROVE  Down(t, first2, down2, c) <=> Down(s, first, down, c)
<1> DEFINE n == Len(t)
           P(i) == IsEvent(s, first, i, c)
           Q(i) == IsEvent(t, first2, i, c)
<1>1. n \in Nat /\ Len(s) = n + 1
  OBVIOUS
<1>2. ASSUME NEW i \in 1 .. n PROVE (Q(i) <=> P(i + 1)) /\ t[i].make = s[i + 1].make
  <2>1. i \in Nat /\ i + 1 # 1 /\ (i + 1) - 1 = i /\ t[i] = s[i + 1]
    BY <1>1
  <2>2. CASE i = 1
    BY <2>1, <2>2 DEF IsEvent, Prev
  <2>3. CASE i # 1
    <3>1. i - 1 \in 1 .. n /\ (i - 1) + 1 = i
      BY <1>1, <2>3
    <3>2. t[i - 1] = s[i]
      BY <3>1
    <3> QED
      BY <2>1, <2>3, <3>2 DEF IsEvent, Prev
  <2> QED
    BY <2>2, <2>3
<1>3. c \in down2 <=> IF P(1) THEN s[1].make ELSE c \in down
  OBVIOUS
<1>4. Down(t, first2, down2, c) <=>
        \/ c \in down2 /\ \A i \in 1 .. n : ~Q(i)
        \/ \E i \in 1 .. n : Q(i) /\ t[i].make /\ \A j \in 1 .. n : j > i => ~Q(j)
  BY DEF Down
<1>5. Down(s, first, down, c) <=>
        \/ c \in down /\ \A i \in 1 .. n + 1 : ~P(i)
        \/ \E i \in 1 .. n + 1 : P(i) /\ s[i].make /\ \A j \in 1 .. n + 1 : j > i => ~P(j)
  BY <1>1 DEF Down
<1> HIDE DEF n, P, Q
<1>6. (\A i \in 1 .. n : ~Q(i)) <=> (\A i \in 1 .. n + 1 : i > 1 => ~P(i))
  <2>1. ASSUME \A i \in 1 .. n : ~Q(i), NEW i \in 1 .. n + 1, i > 1 PROVE ~P(i)
    <3>1. i - 1 \in 1 .. n /\ (i - 1) + 1 = i
      BY <1>1, <2>1
    <3>2. ~Q(i - 1) /\ (Q(i - 1) <=> P((i - 1) + 1))
      BY <1>2, <2>1, <3>1
    <3> QED
      BY <3>1, <3>2
  <2>2. ASSUME \A i \in 1 .. n + 1 : i > 1 => ~P(i), NEW i \in 1 .. n PROVE ~Q(i)
    <3>1. i + 1 \in 1 .. n + 1 /\ i + 1 > 1
      BY <1>1
    <3> QED
      BY <1>2, <2>2, <3>1
  <2> QED
    BY <2>1, <2>2
<1>7. (\E i \in 1 .. n : Q(i) /\ t[i].make /\ \A j \in 1 .. n : j > i => ~Q(j))
      <=> (\E i \in 1 .. n + 1 : i > 1 /\ P(i) /\ s[i].make /\ \A j \in 1 .. n + 1 : j > i => ~P(j))
  <2>1. ASSUME NEW i \in 1 .. n, Q(i), t[i].make, \A j \in 1 .. n : j > i => ~Q(j)
        PROVE  \E k \in 1 .. n + 1 : k > 1 /\ P(k) /\ s[k].make /\ \A j \in 1 .. n + 1 : j > k => ~P(j)
    <3>1. i + 1 \in 1 .. n + 1 /\ i + 1 > 1 /\ P(i + 1) /\ s[i + 1].make
      BY <1>1, <1>2, <2>1
    <3>2. ASSUME NEW j \in 1 .. n + 1, j > i + 1 PROVE ~P(j)
      <4>1. j - 1 \in 1 .. n /\ (j - 1) + 1 = j /\ j - 1 > i
        BY <1>1, <3>2
      <4> QED
        BY <1>2, <2>1, <4>1
    <3> QED
      BY <3>1, <3>2
  <2>2. ASSUME NEW i \in 1 .. n + 1, i > 1, P(i), s[i].make, \A j \in 1 .. n + 1 : j > i => ~P(j)
        PROVE  \E k \in 1 .. n : Q(k) /\ t[k].make /\ \A j \in 1 .. n : j > k => ~Q(j)
    <3>1. i - 1 \in 1 .. n /\ (i - 1) + 1 = i
      BY <1>1, <2>2
    <3>2. Q(i - 1) /\ t[i - 1].make
      BY <1>2, <2>2, <3>1
    <3>3. ASSUME NEW j \in 1 .. n, j > i - 1 PROVE ~Q(j)
      <4>1. j + 1 \in 1 .. n + 1 /\ j + 1 > i
        BY <1>1, <3>3
      <4> QED
        BY <1>2, <2>2, <4>1
    <3> QED
      BY <3>1, <3>2, <3>3
  <2> QED
    BY <2>1, <2>2
<1>8. 1 \in 1 .. n + 1 /\ \A i \in 1 .. n + 1 : i = 1 \/ i > 1
  BY <1>1
<1>9. (\A i \in 1 .. n + 1 : ~P(i)) <=> ~P(1) /\ \A i \in 1 .. n + 1 : i > 1 => ~P(i)
  BY <1>8
<1>10. (\E i \in 1 .. n + 1 : P(i) /\ s[i].make /\ \A j \in 1 .. n + 1 : j > i => ~P(j))
       <=> \/ P(1) /\ s[1].make /\ \A j \in 1 .. n + 1 : j > 1 => ~P(j)
           \/ \E i \in 1 .. n + 1 : i > 1 /\ P(i) /\ s[i].make /\ \A j \in 1 .. n + 1 : j > i => ~P(j)
  BY <1>8
<1> QED
  BY <1>3, <1>4, <1>5, <1>6, <1>7, <1>9, <1>10

(* A byte that the keyboard sends decides for its own key and no other.    *)
LEMMA DownAppend ==
  ASSUME NEW s \in Seq(KbdBytes), NEW t \in Seq(KbdBytes), Len(t) = Len(s) + 1,
         \A i \in 1 .. Len(s) : t[i] = s[i],
         NEW first, NEW down, NEW c \in Tracked
  PROVE  Down(t, first, down, c) <=>
           IF t[Len(t)].code = c /\ (Last(s, first) = E0 <=> c = "super")
           THEN t[Len(t)].make ELSE Down(s, first, down, c)
<1> DEFINE n == Len(s)
           P(i) == IsEvent(s, first, i, c)
           Q(i) == IsEvent(t, first, i, c)
<1>1. n \in Nat /\ Len(t) = n + 1
  OBVIOUS
<1>2. ASSUME NEW i \in 1 .. n PROVE (Q(i) <=> P(i)) /\ t[i].make = s[i].make
  <2>1. i = 1 \/ i - 1 \in 1 .. n
    BY <1>1
  <2> QED
    BY <2>1 DEF IsEvent, Prev
<1>3. Q(n + 1) <=> t[n + 1].code = c /\ (Last(s, first) = E0 <=> c = "super")
  <2>1. Prev(t, first, n + 1) = Last(s, first)
    <3>1. CASE n = 0
      BY <3>1 DEF Prev, Last
    <3>2. CASE n # 0
      <4>1. n + 1 # 1 /\ (n + 1) - 1 = n /\ n \in 1 .. n
        BY <1>1, <3>2
      <4> QED
        BY <3>2, <4>1 DEF Prev, Last
    <3> QED
      BY <3>1, <3>2
  <2> QED
    BY <2>1 DEF IsEvent
<1>4. Down(s, first, down, c) <=>
        \/ c \in down /\ \A i \in 1 .. n : ~P(i)
        \/ \E i \in 1 .. n : P(i) /\ s[i].make /\ \A j \in 1 .. n : j > i => ~P(j)
  BY DEF Down
<1>5. Down(t, first, down, c) <=>
        \/ c \in down /\ \A i \in 1 .. n + 1 : ~Q(i)
        \/ \E i \in 1 .. n + 1 : Q(i) /\ t[i].make /\ \A j \in 1 .. n + 1 : j > i => ~Q(j)
  BY <1>1 DEF Down
<1> HIDE DEF n, P, Q
<1>6. /\ n + 1 \in 1 .. n + 1
      /\ \A i \in 1 .. n : i \in 1 .. n + 1 /\ n + 1 > i
      /\ \A i \in 1 .. n + 1 : i = n + 1 \/ i \in 1 .. n
      /\ \A i \in 1 .. n + 1 : ~(i > n + 1)
  BY <1>1
<1>7. CASE Q(n + 1)
  BY <1>1, <1>3, <1>5, <1>6, <1>7
<1>8. CASE ~Q(n + 1)
  <2>1. (\A i \in 1 .. n + 1 : ~Q(i)) <=> \A i \in 1 .. n : ~P(i)
    BY <1>2, <1>6, <1>8
  <2>2. (\E i \in 1 .. n + 1 : Q(i) /\ t[i].make /\ \A j \in 1 .. n + 1 : j > i => ~Q(j))
        <=> (\E i \in 1 .. n : P(i) /\ s[i].make /\ \A j \in 1 .. n : j > i => ~P(j))
    BY <1>2, <1>6, <1>8
  <2> QED
    BY <1>1, <1>3, <1>4, <1>5, <1>8, <2>1, <2>2
<1> QED
  BY <1>7, <1>8

LEMMA PrefixIsNotConfig == Config # E0 /\ (Before = E0 <=> e0_mode)
<1>1. Config # E0
  BY DEF Config, E0, Scan
<1> QED
  BY <1>1 DEF Before

(* A byte in front of a sequence.                                          *)
LEMMA Cons ==
  ASSUME NEW S, NEW x \in S, NEW q \in Seq(S)
  PROVE  /\ <<x>> \o q \in Seq(S) /\ Len(<<x>> \o q) = Len(q) + 1
         /\ (<<x>> \o q)[1] = x
         /\ \A i \in 1 .. Len(q) : (<<x>> \o q)[i + 1] = q[i]
OBVIOUS

(* What Pending is when the port holds a byte of the keyboard.             *)
LEMMA PendingFull ==
  ASSUME BytesOK, port.full, port.byte.src = "kbd"
  PROVE  /\ Pending \in Seq(KbdBytes) /\ kbd_q \in Seq(KbdBytes) /\ port.byte \in KbdBytes
         /\ Len(Pending) = Len(kbd_q) + 1
         /\ Pending[1] = port.byte
         /\ \A i \in 1 .. Len(kbd_q) : kbd_q[i] = Pending[i + 1]
<1>1. kbd_q \in Seq(KbdBytes) /\ port.byte \in KbdBytes
  BY DEF BytesOK, MouseBytes
<1>2. Pending = <<port.byte>> \o kbd_q
  BY DEF Pending
<1> QED
  BY <1>1, <1>2

LEMMA PendingElse ==
  ASSUME BytesOK, ~(port.full /\ port.byte.src = "kbd")
  PROVE  Pending = kbd_q /\ Pending \in Seq(KbdBytes)
BY DEF BytesOK, Pending

LEMMA PendingType == BytesOK => Pending \in Seq(KbdBytes)
BY PendingFull, PendingElse

(* The byte in the port is taken by a reader that passes it to the driver  *)
(* (down2 and first2 are what the driver's state is then).                 *)
LEMMA PendingTaken ==
  ASSUME BytesOK, KbdInv, clean, port.full, port.byte.src = "kbd",
         NEW first2, NEW down2, first2 = E0 <=> port.byte = E0,
         \A c \in Tracked : c \in down2 <=> IF port.byte.code = c /\ (Before = E0 <=> c = "super")
                                            THEN port.byte.make ELSE c \in DownNow
  PROVE  /\ Last(kbd_q, first2) # E0
         /\ \A c \in Tracked : Down(kbd_q, first2, down2, c) <=> c \in held
<1> DEFINE s == Pending
<1>1. /\ s \in Seq(KbdBytes) /\ kbd_q \in Seq(KbdBytes) /\ Len(s) = Len(kbd_q) + 1
      /\ s[1] = port.byte /\ \A i \in 1 .. Len(kbd_q) : kbd_q[i] = s[i + 1]
  BY PendingFull
<1>2. Last(s, Before) # E0 /\ \A c \in Tracked : Down(s, Before, DownNow, c) <=> c \in held
  BY DEF KbdInv
<1> HIDE DEF s
<1>3. Len(kbd_q) \in Nat /\ Len(s) \in Nat
  BY <1>1
<1>4. Last(kbd_q, first2) # E0
  <2>1. CASE Len(kbd_q) = 0
    BY <1>1, <1>2, <2>1 DEF Last
  <2>2. CASE Len(kbd_q) # 0
    <3>1. Len(kbd_q) \in 1 .. Len(kbd_q) /\ Len(s) # 0
      BY <1>1, <1>3, <2>2
    <3> QED
      BY <1>1, <1>2, <2>2, <3>1 DEF Last
  <2> QED
    BY <2>1, <2>2
<1>5. ASSUME NEW c \in Tracked PROVE Down(kbd_q, first2, down2, c) <=> c \in held
  <2>1. c \in down2 <=> IF IsEvent(s, Before, 1, c) THEN s[1].make ELSE c \in DownNow
    BY <1>1 DEF IsEvent, Prev
  <2>2. Len(s) > 0 /\ Len(kbd_q) = Len(s) - 1
    BY <1>1, <1>3
  <2>3. Down(kbd_q, first2, down2, c) <=> Down(s, Before, DownNow, c)
    BY <1>1, <2>1, <2>2, DownTail
  <2> QED
    BY <1>2, <2>3
<1> QED
  BY <1>4, <1>5

(* handle_kbd does to the driver's state what the byte says.               *)
LEMMA HandledByte ==
  ASSUME TypeOK, KbdInv, NEW b \in KbdBytes, handle_kbd(b), mods' \subseteq Modifiers
  PROVE  /\ e0_mode' \in BOOLEAN /\ super_pressed' \in BOOLEAN
         /\ Before' = E0 <=> b = E0
         /\ \A c \in Tracked : c \in DownNow' <=> IF b.code = c /\ (Before = E0 <=> c = "super")
                                                  THEN b.make ELSE c \in DownNow
<1>1. Config # E0 /\ (Before = E0 <=> e0_mode) /\ (Before' = E0 <=> e0_mode')
  <2>1. Config # E0
    BY DEF Config, E0, Scan
  <2> QED
    BY <2>1 DEF Before
<1>2. /\ "super" \in DownNow <=> super_pressed
      /\ \A c \in {"alt", "ctrl"} : c \in DownNow <=> c \in mods
      /\ "super" \in DownNow' <=> super_pressed'
      /\ \A c \in {"alt", "ctrl"} : c \in DownNow' <=> c \in mods'
  BY DEF DownNow, TypeOK, Modifiers
<1>3. E0.code = "e0"
  BY DEF E0, Scan
<1>4. e0_mode \in BOOLEAN /\ super_pressed \in BOOLEAN
  BY DEF KbdInv
<1>5. b.make \in BOOLEAN
  BY DEF KbdBytes
<1>6. CASE b = E0
  <2>1. e0_mode' = TRUE /\ mods' = mods /\ super_pressed' = super_pressed
    BY <1>6 DEF handle_kbd
  <2>2. DownNow' = DownNow
    BY <2>1 DEF DownNow
  <2>3. \A c \in Tracked : b.code # c
    BY <1>3, <1>6 DEF Tracked
  <2> QED
    BY <1>1, <1>4, <1>6, <2>1, <2>2, <2>3
<1>7. CASE b # E0 /\ e0_mode
  <2>1. /\ super_pressed' = IF b.code = "super" THEN b.make ELSE super_pressed
        /\ e0_mode' = FALSE /\ mods' = mods
    BY <1>7 DEF handle_kbd
  <2>2. ASSUME NEW c \in Tracked
        PROVE  c \in DownNow' <=> IF b.code = c /\ c = "super" THEN b.make ELSE c \in DownNow
    <3>1. CASE c = "super"
      BY <1>2, <2>1, <3>1
    <3>2. CASE c \in {"alt", "ctrl"}
      BY <1>2, <2>1, <3>2
    <3> QED
      BY <3>1, <3>2 DEF Tracked
  <2>3. super_pressed' \in BOOLEAN /\ e0_mode' \in BOOLEAN
    BY <1>4, <1>5, <2>1
  <2> QED
    BY <1>1, <1>7, <2>1, <2>2, <2>3
<1>8. CASE b # E0 /\ ~e0_mode
  <2>1. /\ mods' = IF b.code \notin Modifiers THEN mods
                   ELSE IF b.make THEN mods \cup {b.code} ELSE mods \ {b.code}
        /\ super_pressed' = super_pressed /\ e0_mode' = e0_mode
    BY <1>8 DEF handle_kbd
  <2>2. ASSUME NEW c \in Tracked
        PROVE  c \in DownNow' <=> IF b.code = c /\ c # "super" THEN b.make ELSE c \in DownNow
    <3>1. CASE c = "super"
      BY <1>2, <2>1, <3>1
    <3>2. CASE c \in {"alt", "ctrl"}
      <4>1. c \in Modifiers /\ c # "super"
        BY <3>2 DEF Modifiers
      <4>2. c \in mods' <=> IF b.code = c THEN b.make ELSE c \in mods
        BY <2>1, <4>1
      <4> QED
        BY <1>2, <3>2, <4>1, <4>2
    <3> QED
      BY <3>1, <3>2 DEF Tracked
  <2> QED
    BY <1>1, <1>4, <1>8, <2>1, <2>2
<1> QED
  BY <1>6, <1>7, <1>8

(* What the keyboard sends comes behind everything else.                   *)
LEMMA PendingSent ==
  ASSUME BytesOK, NEW kb \in Seq(KbdBytes), kbd_q' = kbd_q \o kb, port' = port
  PROVE  /\ Pending' \in Seq(KbdBytes)
         /\ Len(Pending') = Len(Pending) + Len(kb)
         /\ \A i \in 1 .. Len(Pending) : Pending'[i] = Pending[i]
         /\ \A i \in 1 .. Len(kb) : Pending'[Len(Pending) + i] = kb[i]
<1>1. kbd_q \in Seq(KbdBytes)
  BY DEF BytesOK
<1>2. CASE port.full /\ port.byte.src = "kbd"
  <2>1. port.byte \in KbdBytes
    BY <1>2, PendingFull
  <2>2. Pending = <<port.byte>> \o kbd_q /\ Pending' = <<port.byte>> \o (kbd_q \o kb)
    BY <1>2 DEF Pending
  <2>3. kbd_q \o kb \in Seq(KbdBytes) /\ Len(kbd_q \o kb) = Len(kbd_q) + Len(kb)
        /\ (\A i \in 1 .. Len(kbd_q) : (kbd_q \o kb)[i] = kbd_q[i])
        /\ (\A i \in 1 .. Len(kb) : (kbd_q \o kb)[Len(kbd_q) + i] = kb[i])
    BY <1>1
  <2> DEFINE q == kbd_q \o kb
             x == port.byte
  <2> HIDE DEF q, x
  <2>4. /\ Pending = <<x>> \o kbd_q /\ Pending' = <<x>> \o q /\ x \in KbdBytes
        /\ q \in Seq(KbdBytes) /\ Len(q) = Len(kbd_q) + Len(kb)
        /\ (\A i \in 1 .. Len(kbd_q) : q[i] = kbd_q[i])
        /\ (\A i \in 1 .. Len(kb) : q[Len(kbd_q) + i] = kb[i])
    BY <2>1, <2>2, <2>3 DEF q, x
  <2>5. /\ Pending \in Seq(KbdBytes) /\ Len(Pending) = Len(kbd_q) + 1 /\ Pending[1] = x
        /\ \A i \in 1 .. Len(kbd_q) : Pending[i + 1] = kbd_q[i]
    BY <1>1, <2>4, Cons
  <2>6. /\ Pending' \in Seq(KbdBytes) /\ Len(Pending') = Len(q) + 1 /\ Pending'[1] = x
        /\ \A i \in 1 .. Len(q) : Pending'[i + 1] = q[i]
    BY <2>4, Cons
  <2>7. ASSUME NEW i \in 1 .. Len(Pending) PROVE Pending'[i] = Pending[i]
    <3>1. CASE i = 1
      BY <2>5, <2>6, <3>1
    <3>2. CASE i # 1
      <4>1. i - 1 \in 1 .. Len(kbd_q) /\ i - 1 \in 1 .. Len(q) /\ (i - 1) + 1 = i
        BY <1>1, <2>4, <2>5, <3>2
      <4>2. Pending[(i - 1) + 1] = kbd_q[i - 1] /\ Pending'[(i - 1) + 1] = q[i - 1] /\ q[i - 1] = kbd_q[i - 1]
        BY <2>4, <2>5, <2>6, <4>1
      <4> QED
        BY <4>1, <4>2
    <3> QED
      BY <3>1, <3>2
  <2>8. ASSUME NEW i \in 1 .. Len(kb) PROVE Pending'[Len(Pending) + i] = kb[i]
    <3>1. Len(kbd_q) + i \in 1 .. Len(q) /\ Len(Pending) + i = (Len(kbd_q) + i) + 1
      BY <1>1, <2>4, <2>5
    <3> QED
      BY <2>4, <2>6, <3>1
  <2> QED
    BY <1>1, <2>4, <2>5, <2>6, <2>7, <2>8
<1>3. CASE ~(port.full /\ port.byte.src = "kbd")
  <2>1. Pending = kbd_q /\ Pending' = kbd_q \o kb
    BY <1>3 DEF Pending
  <2> QED
    BY <1>1, <2>1
<1> QED
  BY <1>2, <1>3

(* A key that goes down or up is tracked by the bytes it sends.            *)
LEMMA KeySent ==
  ASSUME BytesOK, KbdInv, clean, NEW k \in Keys, key_event(k)
  PROVE  /\ Last(Pending', Before) # E0
         /\ \A c \in Tracked : Down(Pending', Before, DownNow, c) <=> c \in held'
<1> DEFINE s == Pending
           t == Pending'
           m == k \notin held
           b == Scan(Code(k), m)
           kb == KeyBytes(k, m)
<1>1. m \in BOOLEAN
  OBVIOUS
<1>2. kb \in Seq(KbdBytes) /\ kbd_q' = kbd_q \o kb /\ port' = port
  BY <1>1, KeyBytesType DEF key_event
<1>3. /\ s \in Seq(KbdBytes) /\ t \in Seq(KbdBytes) /\ Len(t) = Len(s) + Len(kb)
      /\ \A i \in 1 .. Len(s) : t[i] = s[i]
      /\ \A i \in 1 .. Len(kb) : t[Len(s) + i] = kb[i]
  BY <1>2, PendingType, PendingSent
<1>4. Last(s, Before) # E0 /\ \A c \in Tracked : Down(s, Before, DownNow, c) <=> c \in held
  BY DEF KbdInv
<1>5. k \in AllKeys
  BY KeysAssumption
<1>6. b.code = Code(k) /\ (b.make <=> k \notin held) /\ b # E0 /\ E0.code = "e0"
  BY <1>5 DEF Scan, E0, Code, AllKeys
<1>7. /\ k \in Extended => kb = <<E0, b>>
      /\ k \notin Extended => kb = <<b>>
  BY DEF KeyBytes
<1>8. held' = IF k \in held THEN held \ {k} ELSE held \cup {k}
  BY DEF key_event
<1>9. Len(s) \in Nat
  BY <1>3
<1> HIDE DEF s, t, m, b, kb
<1>10. CASE k \notin Extended
  <2>1. Len(t) = Len(s) + 1 /\ t[Len(t)] = b
    <3>1. Len(kb) = 1 /\ kb[1] = b
      BY <1>7, <1>10
    <3> QED
      BY <1>3, <1>9, <3>1
  <2>2. Last(t, Before) # E0
    BY <1>6, <1>9, <2>1 DEF Last
  <2>3. ASSUME NEW c \in Tracked PROVE Down(t, Before, DownNow, c) <=> c \in held'
    <3>1. Down(t, Before, DownNow, c) <=>
            IF b.code = c /\ (Last(s, Before) = E0 <=> c = "super") THEN b.make ELSE Down(s, Before, DownNow, c)
      BY <1>3, <2>1, DownAppend
    <3>2. b.code = c /\ c # "super" <=> k = c
      BY <1>5, <1>6, <1>10 DEF Code, Tracked, AllKeys, Extended
    <3> QED
      BY <1>4, <1>6, <1>8, <3>1, <3>2
  <2> QED
    BY <2>2, <2>3 DEF t
<1>11. CASE k \in Extended
  <2> DEFINE u == Append(s, E0)
  <2>1. E0 \in KbdBytes
    BY DEF E0, Scan, KbdBytes, KbdCodes
  <2>2. /\ u \in Seq(KbdBytes) /\ Len(u) = Len(s) + 1 /\ u[Len(s) + 1] = E0
        /\ \A i \in 1 .. Len(s) : u[i] = s[i]
    BY <1>3, <2>1
  <2>3. Len(t) = Len(s) + 2 /\ t[Len(s) + 1] = E0 /\ t[Len(s) + 2] = b
    <3>1. Len(kb) = 2 /\ kb[1] = E0 /\ kb[2] = b
      BY <1>7, <1>11
    <3> QED
      BY <1>3, <1>9, <3>1
  <2> HIDE DEF u
  <2>4. Len(t) = Len(u) + 1 /\ t[Len(t)] = b /\ Len(u) # 0 /\ u[Len(u)] = E0
        /\ \A i \in 1 .. Len(u) : t[i] = u[i]
    BY <1>3, <1>9, <2>2, <2>3
  <2>5. Last(t, Before) # E0
    BY <1>6, <1>9, <2>3, <2>4 DEF Last
  <2>6. ASSUME NEW c \in Tracked PROVE Down(t, Before, DownNow, c) <=> c \in held'
    <3>1. Down(t, Before, DownNow, c) <=>
            IF b.code = c /\ (Last(u, Before) = E0 <=> c = "super") THEN b.make ELSE Down(u, Before, DownNow, c)
      BY <1>3, <2>2, <2>4, DownAppend
    <3>2. Last(u, Before) = E0
      BY <2>4 DEF Last
    <3>3. Down(u, Before, DownNow, c) <=>
            IF u[Len(u)].code = c /\ (Last(s, Before) = E0 <=> c = "super")
            THEN u[Len(u)].make ELSE Down(s, Before, DownNow, c)
      BY <1>3, <2>2, DownAppend
    <3>4. u[Len(u)].code # c
      BY <1>6, <2>4 DEF Tracked
    <3>5. b.code = c /\ c = "super" <=> k = c
      BY <1>5, <1>6, <1>11 DEF Code, Tracked, AllKeys, Extended
    <3> QED
      BY <1>4, <1>6, <1>8, <3>1, <3>2, <3>3, <3>4, <3>5
  <2> QED
    BY <2>5, <2>6 DEF t
<1> QED
  BY <1>10, <1>11

(* Nothing that matters to the keyboard changes.                           *)
LEMMA KbdUnchanged ==
  ASSUME KbdInv, Pending' = Pending, UNCHANGED <<e0_mode, super_pressed, mods, held>>,
         clean' => clean,
         \A i \in 1 .. Len(kbd_q') : kbd_q'[i] # Config,
         port'.full /\ port'.byte = Config => ~e0_mode
  PROVE  KbdInv'
<1>1. Before' = Before /\ DownNow' = DownNow
  BY DEF Before, DownNow
<1>2. clean' => /\ Last(Pending', Before') # E0
                /\ \A c \in Tracked : Down(Pending', Before', DownNow', c) <=> c \in held'
  BY <1>1 DEF KbdInv
<1> QED
  BY <1>2 DEF KbdInv

(* The byte in the port goes to a reader other than handle_kbd: that is    *)
(* noticed in clean, or it was the configuration byte, which says nothing  *)
(* of a key, or there was no byte of the keyboard.                         *)
LEMMA KbdBypassed ==
  ASSUME BytesOK, KbdInv, port' = Taken,
         UNCHANGED <<kbd_q, e0_mode, super_pressed, mods, held>>,
         clean' => clean /\ ~Stolen
  PROVE  KbdInv'
<1>1. port'.full = FALSE /\ kbd_q' = kbd_q
  BY TakenType
<1>2. Pending' = kbd_q
  BY <1>1 DEF Pending
<1>3. Before' = Before /\ DownNow' = DownNow
  BY DEF Before, DownNow
<1>4. CASE port.full /\ port.byte.src = "kbd" /\ clean'
  <2>1. clean /\ port.byte = Config
    BY <1>4 DEF Stolen
  <2>2. ~e0_mode /\ Before # E0 /\ port.byte # E0 /\ port.byte.code = "config"
    BY <1>4, <2>1, PrefixIsNotConfig DEF KbdInv, Config, Scan
  <2>3. \A c \in Tracked : port.byte.code # c
    BY <2>2 DEF Tracked
  <2>4. /\ Last(kbd_q, Before) # E0
        /\ \A c \in Tracked : Down(kbd_q, Before, DownNow, c) <=> c \in held
    BY <1>4, <2>1, <2>2, <2>3, PendingTaken
  <2>5. /\ Last(Pending', Before') # E0
        /\ \A c \in Tracked : Down(Pending', Before', DownNow', c) <=> c \in held'
    BY <1>2, <1>3, <2>4
  <2> QED
    BY <1>1, <2>5 DEF KbdInv
<1>5. CASE ~clean'
  BY <1>1, <1>5 DEF KbdInv
<1>6. CASE ~(port.full /\ port.byte.src = "kbd")
  <2>1. Pending' = Pending
    BY <1>2, <1>6, PendingElse
  <2>2. \A i \in 1 .. Len(kbd_q') : kbd_q'[i] # Config
    BY <1>1 DEF KbdInv
  <2> QED
    BY <1>1, <2>1, <2>2, KbdUnchanged
<1> QED
  BY <1>4, <1>5, <1>6

LEMMA InitKbd == Init => KbdInv
<1> SUFFICES ASSUME Init PROVE KbdInv
  OBVIOUS
<1>1. port.full /\ port.byte = Config /\ port.byte.src = "kbd" /\ port.byte.code = "config"
  BY DEF Init, Config, Scan
<1>2. Config \in KbdBytes
  BY DEF Config, Scan, KbdBytes, KbdCodes
<1>3. Pending = <<Config>>
  BY <1>1, <1>2 DEF Init, Pending
<1>4. ~e0_mode /\ ~super_pressed /\ mods = {} /\ held = {} /\ kbd_q = <<>>
  BY DEF Init
<1>5. Len(Pending) = 1 /\ Pending[1] = Config
  BY <1>3
<1>6. Last(Pending, Before) # E0
  BY <1>5, PrefixIsNotConfig DEF Last
<1>7. DownNow = {}
  BY <1>4 DEF DownNow
<1>8. ASSUME NEW c \in Tracked PROVE Down(Pending, Before, DownNow, c) <=> c \in held
  <2>1. ASSUME NEW i \in 1 .. Len(Pending) PROVE Pending[i].code = "config"
    BY <1>1, <1>5
  <2>2. c # "config"
    BY DEF Tracked
  <2> QED
    BY <1>4, <1>7, <2>1, <2>2 DEF Down, IsEvent
<1>9. e0_mode \in BOOLEAN /\ super_pressed \in BOOLEAN
  BY DEF Init
<1> QED
  BY <1>4, <1>6, <1>8, <1>9 DEF KbdInv

LEMMA NextKbd == Inv /\ Inv' /\ KbdInv /\ [Next]_vars => KbdInv'
<1> SUFFICES ASSUME Inv, Inv', KbdInv, [Next]_vars PROVE KbdInv'
  OBVIOUS
<1> USE DEF devices, kbd
<1>0. TypeOK /\ BytesOK /\ TypeOK' /\ BytesOK'
  BY DEF Inv
<1>1. ASSUME NEW k \in Keys, key_event(k) PROVE KbdInv'
  <2>1. UNCHANGED <<port, e0_mode, super_pressed, mods, clean>>
    BY <1>1 DEF key_event
  <2>2. Before' = Before /\ DownNow' = DownNow
    BY <2>1 DEF Before, DownNow
  <2>3. clean' => /\ Last(Pending', Before') # E0
                  /\ \A c \in Tracked : Down(Pending', Before', DownNow', c) <=> c \in held'
    BY <1>0, <1>1, <2>1, <2>2, KeySent
  <2>4. \A i \in 1 .. Len(kbd_q') : kbd_q'[i] # Config
    <3> DEFINE kb == KeyBytes(k, k \notin held)
    <3>1. (k \notin held) \in BOOLEAN
      OBVIOUS
    <3>2. kb \in Seq(KbdBytes) /\ kbd_q \in Seq(KbdBytes) /\ kbd_q' = kbd_q \o kb
      BY <1>0, <1>1, <3>1, KeyBytesType DEF key_event, BytesOK
    <3>3. k \in AllKeys
      BY KeysAssumption
    <3>4. Scan(Code(k), k \notin held) # Config /\ E0 # Config
      BY <3>3 DEF Scan, Config, E0, Code, AllKeys
    <3>5. \A i \in 1 .. Len(kb) : kb[i] # Config
      BY <3>4 DEF KeyBytes
    <3> HIDE DEF kb
    <3>6. \A i \in 1 .. Len(kbd_q) : kbd_q[i] # Config
      BY DEF KbdInv
    <3>7. /\ Len(kbd_q') = Len(kbd_q) + Len(kb) /\ Len(kbd_q) \in Nat /\ Len(kb) \in Nat
          /\ \A i \in 1 .. Len(kbd_q) : kbd_q'[i] = kbd_q[i]
          /\ \A i \in 1 .. Len(kb) : kbd_q'[Len(kbd_q) + i] = kb[i]
      BY <3>2
    <3>8. ASSUME NEW i \in 1 .. Len(kbd_q') PROVE kbd_q'[i] # Config
      <4>1. CASE i \in 1 .. Len(kbd_q)
        BY <3>6, <3>7, <4>1
      <4>2. CASE i \notin 1 .. Len(kbd_q)
        <5>1. i - Len(kbd_q) \in 1 .. Len(kb) /\ Len(kbd_q) + (i - Len(kbd_q)) = i
          BY <3>7, <4>2
        <5> QED
          BY <3>5, <3>7, <5>1
      <4> QED
        BY <4>1, <4>2
    <3> QED
      BY <3>8
  <2> QED
    BY <2>1, <2>3, <2>4 DEF KbdInv
<1>2. CASE deliver_kbd
  <2> DEFINE x == Head(kbd_q)
             q == Tail(kbd_q)
  <2>1. /\ x \in KbdBytes /\ q \in Seq(KbdBytes) /\ kbd_q = <<x>> \o q
        /\ Len(kbd_q) = Len(q) + 1 /\ x = kbd_q[1] /\ \A i \in 1 .. Len(q) : q[i] = kbd_q[i + 1]
    BY <1>0, <1>2 DEF deliver_kbd, BytesOK
  <2>2. port' = [full |-> TRUE, byte |-> x] /\ kbd_q' = q /\ ~port.full
    BY <1>2 DEF deliver_kbd
  <2> HIDE DEF x, q
  <2>3. port'.full /\ port'.byte = x /\ x.src = "kbd"
    BY <2>1, <2>2 DEF KbdBytes
  <2>4. Pending' = Pending
    BY <2>1, <2>2, <2>3 DEF Pending
  <2>5. \A i \in 1 .. Len(kbd_q) : kbd_q[i] # Config
    BY DEF KbdInv
  <2>6. x # Config /\ \A i \in 1 .. Len(q) : q[i] # Config
    BY <2>1, <2>5
  <2>7. UNCHANGED <<e0_mode, super_pressed, mods, held, clean>>
    BY <1>2 DEF deliver_kbd
  <2> QED
    BY <2>2, <2>3, <2>4, <2>6, <2>7, KbdUnchanged
<1>3. CASE deliver_mouse
  <2>1. Head(mouse_q) \in MouseBytes /\ port'.full /\ port'.byte = Head(mouse_q) /\ ~port.full
    BY <1>0, <1>3 DEF deliver_mouse, BytesOK
  <2>2. port'.byte.src = "mouse" /\ port'.byte # Config
    BY <2>1 DEF MouseBytes, Config, Scan
  <2>3. UNCHANGED <<kbd_q, e0_mode, super_pressed, mods, held, clean>>
    BY <1>3 DEF deliver_mouse
  <2>4. Pending' = Pending
    BY <2>1, <2>2, <2>3 DEF Pending
  <2>5. \A i \in 1 .. Len(kbd_q') : kbd_q'[i] # Config
    BY <2>3 DEF KbdInv
  <2> QED
    BY <2>2, <2>3, <2>4, <2>5, KbdUnchanged
<1>4. CASE read_config \/ mouse_read \/ irq12_handler
  <2>1. /\ port' = Taken /\ UNCHANGED <<kbd_q, e0_mode, super_pressed, mods, held>>
        /\ clean' => clean /\ ~Stolen
    BY <1>4 DEF read_config, mouse_read, irq12_handler, Stolen
  <2> QED
    BY <1>0, <2>1, KbdBypassed
<1>5. CASE irq1_handler
  <2>1. port' = Taken /\ UNCHANGED <<kbd_q, held, clean>>
    BY <1>5 DEF irq1_handler
  <2>2. port'.full = FALSE
    BY <1>0, <2>1, TakenType
  <2>3. Pending' = kbd_q
    BY <2>1, <2>2 DEF Pending
  <2>4. \A i \in 1 .. Len(kbd_q') : kbd_q'[i] # Config
    BY <2>1 DEF KbdInv
  <2>5. CASE port.full /\ port.byte.src = "kbd"
    <3>1. port.byte \in KbdBytes
      BY <1>0, <2>5, PendingFull
    <3>2. handle_kbd(port.byte) /\ mods' \subseteq Modifiers
      BY <1>0, <1>5, <2>5 DEF irq1_handler, TypeOK
    <3>3. /\ e0_mode' \in BOOLEAN /\ super_pressed' \in BOOLEAN
          /\ Before' = E0 <=> port.byte = E0
          /\ \A c \in Tracked : c \in DownNow' <=>
                IF port.byte.code = c /\ (Before = E0 <=> c = "super") THEN port.byte.make ELSE c \in DownNow
      BY <1>0, <3>1, <3>2, HandledByte
    <3>4. clean => /\ Last(kbd_q, Before') # E0
                   /\ \A c \in Tracked : Down(kbd_q, Before', DownNow', c) <=> c \in held
      <4> DEFINE f == Before'
                 d == DownNow'
      <4> HIDE DEF f, d
      <4>1. /\ f = E0 <=> port.byte = E0
            /\ \A c \in Tracked : c \in d <=>
                IF port.byte.code = c /\ (Before = E0 <=> c = "super") THEN port.byte.make ELSE c \in DownNow
        BY <3>3 DEF f, d
      <4>2. clean => /\ Last(kbd_q, f) # E0
                     /\ \A c \in Tracked : Down(kbd_q, f, d, c) <=> c \in held
        BY <1>0, <2>5, <4>1, PendingTaken
      <4> QED
        BY <4>2 DEF f, d
    <3>5. clean' => /\ Last(Pending', Before') # E0
                    /\ \A c \in Tracked : Down(Pending', Before', DownNow', c) <=> c \in held'
      BY <2>1, <2>3, <3>4
    <3> QED
      BY <2>2, <2>4, <3>3, <3>5 DEF KbdInv
  <2>6. CASE ~(port.full /\ port.byte.src = "kbd")
    <3>1. UNCHANGED <<e0_mode, super_pressed, mods>>
      BY <1>5, <2>6 DEF irq1_handler
    <3>2. Pending' = Pending
      BY <1>0, <2>3, <2>6, PendingElse
    <3> QED
      BY <2>1, <2>2, <2>4, <3>1, <3>2, KbdUnchanged
  <2> QED
    BY <2>5, <2>6
<1>6. CASE UNCHANGED <<port, kbd_q, e0_mode, super_pressed, mods, held, clean>>
  <2>1. Pending' = Pending
    BY <1>6 DEF Pending
  <2>2. /\ \A i \in 1 .. Len(kbd_q') : kbd_q'[i] # Config
        /\ port'.full /\ port'.byte = Config => ~e0_mode
    BY <1>6 DEF KbdInv
  <2> QED
    BY <1>6, <2>1, <2>2, KbdUnchanged
<1>7. ASSUME \/ \E high \in BOOLEAN : mouse_moves(high)
             \/ write_config \/ mouse_write \/ mouse_read_timeout \/ key_read \/ key_clear
             \/ UNCHANGED vars
      PROVE  UNCHANGED <<port, kbd_q, e0_mode, super_pressed, mods, held, clean>>
  BY <1>7 DEF mouse_moves, write_config, mouse_write, mouse_read_timeout, key_read, key_clear, vars
<1> QED
  BY <1>1, <1>2, <1>3, <1>4, <1>5, <1>6, <1>7 DEF Next, External, Mainline

(* With nothing pending the driver's state is the keys' state.             *)
LEMMA KbdInvImplies == Inv /\ KbdInv => ModifiersFollowKeys
<1> SUFFICES ASSUME Inv, KbdInv, clean, AllHandled
             PROVE  /\ "alt" \in mods <=> "alt" \in held
                    /\ "ctrl" \in mods <=> "ctrl" \in held
                    /\ super_pressed <=> "super" \in held
  BY DEF ModifiersFollowKeys
<1>1. Pending = <<>>
  BY DEF AllHandled, Pending
<1>2. Len(Pending) = 0
  BY <1>1
<1>3. \A c \in Tracked : c \in DownNow <=> c \in held
  <2>1. ASSUME NEW c \in Tracked PROVE Down(Pending, Before, DownNow, c) <=> c \in DownNow
    <3>1. \A i \in 1 .. Len(Pending) : FALSE
      BY <1>2
    <3> QED
      BY <3>1 DEF Down
  <2> QED
    BY <2>1 DEF KbdInv
<1>4. "super" \in DownNow <=> super_pressed
  BY DEF DownNow, Inv, TypeOK, Modifiers
<1>5. \A c \in {"alt", "ctrl"} : c \in DownNow <=> c \in mods
  BY DEF DownNow
<1> QED
  BY <1>3, <1>4, <1>5 DEF Tracked

(* As long as every byte of the keyboard went to handle_kbd, and none is   *)
(* pending, Alt, Ctrl and Super are what the keys are, for queues of any   *)
(* length and any sequence of keys, the extended ones included.            *)
THEOREM ModifiersAreKeys == Spec => []ModifiersFollowKeys
<1>1. Inv /\ KbdInv => ModifiersFollowKeys
  BY KbdInvImplies
<1> QED
  BY <1>1, Invariance, InitKbd, NextKbd, PTL DEF Spec
-----------------------------------------------------------------------------
(***************************************************************************)
(* Packet framing.  NextByte, the mouse's bytes on their way, are answers  *)
(* to ps2_init (pos 0) and then whole packets, of which a reader may have  *)
(* taken a beginning.                                                      *)
(***************************************************************************)
Framed(s, length) ==
  /\ \A i \in 1 .. Len(s) : s[i].pos <= length /\ (s[i].pos = 1 => s[i].bit3)
  /\ \A i \in 1 .. Len(s) : i < Len(s) /\ s[i].pos # 0 =>
       s[i + 1].pos = IF s[i].pos = length THEN 1 ELSE s[i].pos + 1
  /\ Len(s) > 0 => s[Len(s)].pos \in {0, length}

MouseInv ==
  /\ mouse_dev.reporting => pc > 20
  /\ ~mouse_dev.reporting => \A i \in 1 .. Len(NextByte) : NextByte[i].pos = 0
  /\ Framed(NextByte, PacketLength)

LEMMA ScriptWrites ==
  \A i \in 1 .. 21 : /\ Script[i] \in {"F6", "F3", "200", "100", "80", "F2", "F4"} => i <= 20
                     /\ Script[i] = "F4" => i = 20
BY DEF Script

LEMMA FramedTail ==
  ASSUME NEW s \in Seq(MouseBytes), NEW t \in Seq(MouseBytes), NEW length \in Nat,
         Len(s) = Len(t) + 1, \A i \in 1 .. Len(t) : t[i] = s[i + 1], Framed(s, length)
  PROVE  Framed(t, length)
<1>1. Len(t) \in Nat /\ \A i \in 1 .. Len(t) : i + 1 \in 1 .. Len(s)
  OBVIOUS
<1>2. \A i \in 1 .. Len(t) : t[i].pos <= length /\ (t[i].pos = 1 => t[i].bit3)
  BY <1>1 DEF Framed
<1>3. ASSUME NEW i \in 1 .. Len(t), i < Len(t), t[i].pos # 0
      PROVE  t[i + 1].pos = IF t[i].pos = length THEN 1 ELSE t[i].pos + 1
  <2>1. i + 1 \in 1 .. Len(t) /\ i + 1 \in 1 .. Len(s) /\ i + 1 < Len(s)
    BY <1>1, <1>3
  <2>2. t[i] = s[i + 1] /\ t[i + 1] = s[(i + 1) + 1]
    BY <2>1
  <2> QED
    BY <1>3, <2>1, <2>2 DEF Framed
<1>4. ASSUME Len(t) > 0 PROVE t[Len(t)].pos \in {0, length}
  <2>1. Len(t) \in 1 .. Len(t) /\ Len(s) > 0
    BY <1>1, <1>4
  <2> QED
    BY <2>1 DEF Framed
<1> QED
  BY <1>2, <1>3, <1>4 DEF Framed

LEMMA FramedAppend ==
  ASSUME NEW s \in Seq(MouseBytes), NEW t \in Seq(MouseBytes), NEW length \in {3, 4},
         Len(t) = Len(s) + length, Framed(s, length),
         \A i \in 1 .. Len(s) : t[i] = s[i],
         \A i \in 1 .. length : t[Len(s) + i].pos = i /\ (i = 1 => t[Len(s) + i].bit3)
  PROVE  Framed(t, length)
<1> DEFINE n == Len(s)
<1>1. n \in Nat /\ length \in Nat /\ length >= 3 /\ Len(t) = n + length
  OBVIOUS
<1>2. ASSUME NEW i \in 1 .. Len(t), i > n
      PROVE  t[i].pos = i - n /\ (i - n = 1 => t[i].bit3) /\ i - n \in 1 .. length
  <2>1. i - n \in 1 .. length /\ n + (i - n) = i
    BY <1>1, <1>2
  <2>2. t[n + (i - n)].pos = i - n /\ (i - n = 1 => t[n + (i - n)].bit3)
    BY <2>1
  <2> QED
    BY <2>1, <2>2
<1>3. ASSUME NEW i \in 1 .. Len(t), ~(i > n) PROVE i \in 1 .. n /\ t[i] = s[i]
  BY <1>1, <1>3
<1>4. ASSUME NEW i \in 1 .. Len(t) PROVE t[i].pos <= length /\ (t[i].pos = 1 => t[i].bit3)
  <2>1. CASE i > n
    BY <1>1, <1>2, <2>1
  <2>2. CASE ~(i > n)
    BY <1>3, <2>2 DEF Framed
  <2> QED
    BY <2>1, <2>2
<1>5. ASSUME NEW i \in 1 .. Len(t), i < Len(t), t[i].pos # 0
      PROVE  t[i + 1].pos = IF t[i].pos = length THEN 1 ELSE t[i].pos + 1
  <2>1. i + 1 \in 1 .. Len(t)
    BY <1>1, <1>5
  <2>2. CASE i > n
    <3>1. t[i].pos = i - n /\ t[i + 1].pos = (i + 1) - n /\ i - n # length
      BY <1>1, <1>2, <1>5, <2>1, <2>2
    <3> QED
      BY <1>1, <3>1
  <2>3. CASE i = n
    <3>1. n > 0 /\ n \in 1 .. n /\ t[n] = s[n]
      BY <1>1, <2>3
    <3>2. s[n].pos \in {0, length}
      BY <3>1 DEF Framed
    <3>3. t[i + 1].pos = (i + 1) - n
      BY <1>1, <1>2, <2>1, <2>3
    <3> QED
      BY <1>1, <1>5, <2>3, <3>1, <3>2, <3>3
  <2>4. CASE i < n
    <3>1. i \in 1 .. n /\ i + 1 \in 1 .. n /\ t[i] = s[i] /\ t[i + 1] = s[i + 1]
      BY <1>1, <2>1, <2>4
    <3> QED
      BY <1>5, <2>4, <3>1 DEF Framed
  <2> QED
    BY <1>1, <2>2, <2>3, <2>4
<1>6. ASSUME Len(t) > 0 PROVE t[Len(t)].pos \in {0, length}
  <2>1. Len(t) \in 1 .. Len(t) /\ Len(t) > n /\ Len(t) - n = length
    BY <1>1
  <2> QED
    BY <1>2, <2>1
<1> QED
  BY <1>4, <1>5, <1>6 DEF Framed

(* Answers only: framed for packets of any length.                         *)
LEMMA FramedAnswers ==
  ASSUME NEW s \in Seq(MouseBytes), NEW length \in Nat, \A i \in 1 .. Len(s) : s[i].pos = 0
  PROVE  Framed(s, length)
<1>1. Len(s) > 0 => Len(s) \in 1 .. Len(s)
  OBVIOUS
<1> QED
  BY <1>1 DEF Framed

(* What NextByte is when the port holds a byte of the mouse.               *)
LEMMA NextByteFull ==
  ASSUME BytesOK, port.full, port.byte.src = "mouse"
  PROVE  /\ NextByte \in Seq(MouseBytes) /\ mouse_q \in Seq(MouseBytes) /\ port.byte \in MouseBytes
         /\ Len(NextByte) = Len(mouse_q) + 1
         /\ NextByte[1] = port.byte
         /\ \A i \in 1 .. Len(mouse_q) : mouse_q[i] = NextByte[i + 1]
<1>1. mouse_q \in Seq(MouseBytes) /\ port.byte \in MouseBytes
  BY DEF BytesOK, KbdBytes
<1>2. NextByte = <<port.byte>> \o mouse_q
  BY DEF NextByte
<1> QED
  BY <1>1, <1>2, Cons

LEMMA NextByteElse ==
  ASSUME BytesOK, ~(port.full /\ port.byte.src = "mouse")
  PROVE  NextByte = mouse_q /\ NextByte \in Seq(MouseBytes)
BY DEF BytesOK, NextByte

LEMMA NextByteType == BytesOK => NextByte \in Seq(MouseBytes)
BY NextByteFull, NextByteElse

(* What the mouse sends comes behind everything else.                      *)
LEMMA NextByteSent ==
  ASSUME BytesOK, NEW mb \in Seq(MouseBytes), mouse_q' = mouse_q \o mb, port' = port
  PROVE  /\ NextByte' \in Seq(MouseBytes)
         /\ Len(NextByte') = Len(NextByte) + Len(mb)
         /\ \A i \in 1 .. Len(NextByte) : NextByte'[i] = NextByte[i]
         /\ \A i \in 1 .. Len(mb) : NextByte'[Len(NextByte) + i] = mb[i]
<1>1. mouse_q \in Seq(MouseBytes)
  BY DEF BytesOK
<1>2. CASE port.full /\ port.byte.src = "mouse"
  <2>1. port.byte \in MouseBytes
    BY <1>2, NextByteFull
  <2>2. NextByte = <<port.byte>> \o mouse_q /\ NextByte' = <<port.byte>> \o (mouse_q \o mb)
    BY <1>2 DEF NextByte
  <2>3. mouse_q \o mb \in Seq(MouseBytes) /\ Len(mouse_q \o mb) = Len(mouse_q) + Len(mb)
        /\ (\A i \in 1 .. Len(mouse_q) : (mouse_q \o mb)[i] = mouse_q[i])
        /\ (\A i \in 1 .. Len(mb) : (mouse_q \o mb)[Len(mouse_q) + i] = mb[i])
    BY <1>1
  <2> DEFINE q == mouse_q \o mb
             x == port.byte
  <2> HIDE DEF q, x
  <2>4. /\ NextByte = <<x>> \o mouse_q /\ NextByte' = <<x>> \o q /\ x \in MouseBytes
        /\ q \in Seq(MouseBytes) /\ Len(q) = Len(mouse_q) + Len(mb)
        /\ (\A i \in 1 .. Len(mouse_q) : q[i] = mouse_q[i])
        /\ (\A i \in 1 .. Len(mb) : q[Len(mouse_q) + i] = mb[i])
    BY <2>1, <2>2, <2>3 DEF q, x
  <2>5. /\ NextByte \in Seq(MouseBytes) /\ Len(NextByte) = Len(mouse_q) + 1 /\ NextByte[1] = x
        /\ \A i \in 1 .. Len(mouse_q) : NextByte[i + 1] = mouse_q[i]
    BY <1>1, <2>4, Cons
  <2>6. /\ NextByte' \in Seq(MouseBytes) /\ Len(NextByte') = Len(q) + 1 /\ NextByte'[1] = x
        /\ \A i \in 1 .. Len(q) : NextByte'[i + 1] = q[i]
    BY <2>4, Cons
  <2>7. ASSUME NEW i \in 1 .. Len(NextByte) PROVE NextByte'[i] = NextByte[i]
    <3>1. CASE i = 1
      BY <2>5, <2>6, <3>1
    <3>2. CASE i # 1
      <4>1. i - 1 \in 1 .. Len(mouse_q) /\ i - 1 \in 1 .. Len(q) /\ (i - 1) + 1 = i
        BY <1>1, <2>4, <2>5, <3>2
      <4>2. NextByte[(i - 1) + 1] = mouse_q[i - 1] /\ NextByte'[(i - 1) + 1] = q[i - 1] /\ q[i - 1] = mouse_q[i - 1]
        BY <2>4, <2>5, <2>6, <4>1
      <4> QED
        BY <4>1, <4>2
    <3> QED
      BY <3>1, <3>2
  <2>8. ASSUME NEW i \in 1 .. Len(mb) PROVE NextByte'[Len(NextByte) + i] = mb[i]
    <3>1. Len(mouse_q) + i \in 1 .. Len(q) /\ Len(NextByte) + i = (Len(mouse_q) + i) + 1
      BY <1>1, <2>4, <2>5
    <3> QED
      BY <2>4, <2>6, <3>1
  <2> QED
    BY <1>1, <2>4, <2>5, <2>6, <2>7, <2>8
<1>3. CASE ~(port.full /\ port.byte.src = "mouse")
  <2>1. NextByte = mouse_q /\ NextByte' = mouse_q \o mb
    BY <1>3 DEF NextByte
  <2> QED
    BY <1>1, <2>1
<1> QED
  BY <1>2, <1>3

LEMMA PacketLengthType == PacketLength \in {3, 4} /\ PacketLength \in Nat
BY DEF PacketLength

(* Taking a byte of the mouse from the port, whoever does it, leaves the   *)
(* rest framed.                                                            *)
LEMMA NextByteTaken ==
  ASSUME BytesOK, MouseInv, port' = Taken, UNCHANGED <<mouse_q, mouse_dev>>, pc' >= pc, pc \in Nat, pc' \in Nat
  PROVE  MouseInv'
<1>1. port'.full = FALSE
  BY TakenType
<1>2. NextByte' = mouse_q
  BY <1>1 DEF NextByte
<1>3. PacketLength' = PacketLength
  BY DEF PacketLength
<1>4. CASE port.full /\ port.byte.src = "mouse"
  <2> DEFINE s == NextByte
  <2>1. /\ s \in Seq(MouseBytes) /\ mouse_q \in Seq(MouseBytes) /\ Len(s) = Len(mouse_q) + 1
        /\ \A i \in 1 .. Len(mouse_q) : mouse_q[i] = s[i + 1]
    BY <1>4, NextByteFull
  <2>2. /\ Framed(s, PacketLength)
        /\ ~mouse_dev.reporting => \A i \in 1 .. Len(s) : s[i].pos = 0
    BY DEF MouseInv
  <2> HIDE DEF s
  <2>3. Framed(mouse_q, PacketLength)
    BY <2>1, <2>2, PacketLengthType, FramedTail
  <2>4. ~mouse_dev.reporting => \A i \in 1 .. Len(mouse_q) : mouse_q[i].pos = 0
    <3>1. \A i \in 1 .. Len(mouse_q) : i + 1 \in 1 .. Len(s)
      BY <2>1
    <3> QED
      BY <2>1, <2>2, <3>1
  <2>5. mouse_dev'.reporting => pc' > 20
    BY DEF MouseInv
  <2> QED
    BY <1>2, <1>3, <2>3, <2>4, <2>5 DEF MouseInv
<1>5. CASE ~(port.full /\ port.byte.src = "mouse")
  <2>1. NextByte' = NextByte
    BY <1>2, <1>5, NextByteElse
  <2>2. mouse_dev'.reporting => pc' > 20
    BY DEF MouseInv
  <2> QED
    BY <1>3, <2>1, <2>2 DEF MouseInv
<1> QED
  BY <1>4, <1>5

(* A packet joins the queue.                                               *)
LEMMA PacketSent ==
  ASSUME BytesOK, MouseInv, NEW high \in BOOLEAN, mouse_moves(high)
  PROVE  /\ Framed(NextByte', PacketLength)
         /\ NextByte = <<>> => NextByte' # <<>> /\ NextByte'[1].pos = 1
         /\ NextByte # <<>> => NextByte' # <<>> /\ NextByte'[1] = NextByte[1]
<1> DEFINE L == PacketLength
           mb == [p \in 1 .. L |-> MouseByte("data", p = 1 \/ high, p)]
           s == NextByte
           t == NextByte'
<1>1. L \in {3, 4} /\ L \in Nat
  BY PacketLengthType
<1>2. ASSUME NEW p \in 1 .. L
      PROVE  /\ MouseByte("data", p = 1 \/ high, p) \in MouseBytes
             /\ mb[p].pos = p /\ (p = 1 => mb[p].bit3)
  <2>1. (p = 1 \/ high) \in BOOLEAN /\ (p = 1 => (p = 1 \/ high) = TRUE)
    OBVIOUS
  <2>2. p \in Nat
    BY <1>1
  <2>3. \A bit \in BOOLEAN : /\ MouseByte("data", bit, p) \in MouseBytes
                             /\ MouseByte("data", bit, p).pos = p
                             /\ MouseByte("data", bit, p).bit3 = bit
    BY <2>2 DEF MouseByte, MouseBytes
  <2>4. mb[p] = MouseByte("data", p = 1 \/ high, p)
    OBVIOUS
  <2> HIDE DEF mb
  <2> QED
    BY <2>1, <2>3, <2>4
<1>3. mb \in Seq(MouseBytes) /\ Len(mb) = L
  BY <1>1, <1>2
<1>4. mouse_q' = mouse_q \o mb /\ port' = port
  BY DEF mouse_moves
<1> HIDE DEF mb
<1>5. /\ s \in Seq(MouseBytes) /\ t \in Seq(MouseBytes) /\ Len(t) = Len(s) + Len(mb)
      /\ \A i \in 1 .. Len(s) : t[i] = s[i]
      /\ \A i \in 1 .. Len(mb) : t[Len(s) + i] = mb[i]
  BY <1>3, <1>4, NextByteSent, NextByteType
<1>6. Framed(s, L)
  BY DEF MouseInv
<1> HIDE DEF s, t, L
<1>7. Framed(t, L)
  <2>1. \A i \in 1 .. L : t[Len(s) + i].pos = i /\ (i = 1 => t[Len(s) + i].bit3)
    BY <1>2, <1>3, <1>5
  <2> QED
    BY <1>1, <1>3, <1>5, <1>6, <2>1, FramedAppend
<1>8. s = <<>> => t # <<>> /\ t[1].pos = 1
  <2> SUFFICES ASSUME s = <<>> PROVE t # <<>> /\ t[1].pos = 1
    OBVIOUS
  <2>1. Len(s) = 0 /\ 1 \in 1 .. L /\ 1 \in 1 .. Len(mb) /\ Len(s) + 1 = 1
    BY <1>1, <1>3
  <2>2. t[1] = mb[1] /\ mb[1].pos = 1
    BY <1>2, <1>5, <2>1
  <2>3. Len(t) > 0
    BY <1>1, <1>3, <1>5, <2>1
  <2> QED
    BY <1>5, <2>2, <2>3
<1>9. s # <<>> => t # <<>> /\ t[1] = s[1]
  <2> SUFFICES ASSUME s # <<>> PROVE t # <<>> /\ t[1] = s[1]
    OBVIOUS
  <2>1. Len(s) > 0 /\ 1 \in 1 .. Len(s)
    BY <1>5
  <2>2. Len(t) > 0
    BY <1>1, <1>3, <1>5, <2>1
  <2> QED
    BY <1>5, <2>1, <2>2
<1> QED
  BY <1>7, <1>8, <1>9 DEF s, t, L

LEMMA InitMouse == Init => MouseInv
<1> SUFFICES ASSUME Init PROVE MouseInv
  OBVIOUS
<1>1. NextByte = <<>>
  BY DEF Init, NextByte, Config, Scan
<1>2. NextByte \in Seq(MouseBytes) /\ Len(NextByte) = 0
  BY <1>1
<1>3. ~mouse_dev.reporting
  BY DEF Init
<1>4. Framed(NextByte, PacketLength)
  <2>1. \A i \in 1 .. Len(NextByte) : NextByte[i].pos = 0
    BY <1>2
  <2> QED
    BY <1>2, <2>1, PacketLengthType, FramedAnswers
<1> QED
  BY <1>2, <1>3, <1>4 DEF MouseInv

LEMMA NextMouse == Inv /\ Inv' /\ MouseInv /\ [Next]_vars => MouseInv'
<1> SUFFICES ASSUME Inv, Inv', MouseInv, [Next]_vars PROVE MouseInv'
  OBVIOUS
<1> USE DEF devices, kbd
<1>0. /\ TypeOK /\ BytesOK /\ TypeOK' /\ BytesOK'
      /\ pc \in Nat /\ pc' \in Nat /\ pc \in 1 .. 22
  BY ScriptLength DEF Inv, TypeOK
<1>1. ASSUME NEW high \in BOOLEAN, mouse_moves(high) PROVE MouseInv'
  <2>1. Framed(NextByte', PacketLength)
    BY <1>0, <1>1, PacketSent
  <2>2. mouse_dev.reporting /\ UNCHANGED <<mouse_dev, pc>>
    BY <1>1 DEF mouse_moves
  <2>3. PacketLength' = PacketLength
    BY <2>2 DEF PacketLength
  <2> QED
    BY <2>1, <2>2, <2>3 DEF MouseInv
<1>2. CASE deliver_mouse
  <2> DEFINE x == Head(mouse_q)
             q == Tail(mouse_q)
  <2>1. x \in MouseBytes /\ q \in Seq(MouseBytes) /\ mouse_q = <<x>> \o q
    BY <1>0, <1>2 DEF deliver_mouse, BytesOK
  <2>2. port' = [full |-> TRUE, byte |-> x] /\ mouse_q' = q /\ ~port.full /\ UNCHANGED <<mouse_dev, pc>>
    BY <1>2 DEF deliver_mouse
  <2> HIDE DEF x, q
  <2>3. port'.full /\ port'.byte = x /\ x.src = "mouse"
    BY <2>1, <2>2 DEF MouseBytes
  <2>4. NextByte' = NextByte
    BY <2>1, <2>2, <2>3 DEF NextByte
  <2>5. PacketLength' = PacketLength
    BY <2>2 DEF PacketLength
  <2> QED
    BY <2>2, <2>4, <2>5 DEF MouseInv
<1>3. CASE deliver_kbd
  <2>1. Head(kbd_q) \in KbdBytes
    BY <1>0, <1>3 DEF deliver_kbd, BytesOK
  <2>2. port' = [full |-> TRUE, byte |-> Head(kbd_q)] /\ ~port.full /\ UNCHANGED <<mouse_q, mouse_dev, pc>>
    BY <1>3 DEF deliver_kbd
  <2>3. port'.byte.src = "kbd"
    BY <2>1, <2>2 DEF KbdBytes
  <2>4. NextByte' = NextByte
    BY <2>2, <2>3 DEF NextByte
  <2>5. PacketLength' = PacketLength
    BY <2>2 DEF PacketLength
  <2> QED
    BY <2>2, <2>4, <2>5 DEF MouseInv
<1>4. CASE mouse_write
  <2>1. /\ mouse_q' = mouse_q \o Answer /\ port' = port /\ pc' = pc + 1
        /\ pc \in 1 .. 21 /\ Script[pc] \in {"F6", "F3", "200", "100", "80", "F2", "F4"}
        /\ mouse_dev' = IF Step = "F4" THEN [mouse_dev EXCEPT !.reporting = TRUE] ELSE Knocked
    BY <1>0, <1>4, ScriptLength DEF mouse_write, InLoop, Step
  <2>2. pc <= 20 /\ ~mouse_dev.reporting
    BY <2>1, ScriptWrites DEF MouseInv
  <2>3. Ack \in MouseBytes /\ DeviceId \in MouseBytes /\ Ack.pos = 0 /\ DeviceId.pos = 0
    BY DEF Ack, DeviceId, MouseByte, MouseBytes
  <2>4. Answer \in Seq(MouseBytes) /\ \A i \in 1 .. Len(Answer) : Answer[i].pos = 0
    <3>1. CASE Step = "F2"
      <4>1. Answer = <<Ack, DeviceId>>
        BY <3>1 DEF Answer
      <4> QED
        BY <2>3, <4>1
    <3>2. CASE Step # "F2"
      <4>1. Answer = <<Ack>>
        BY <3>2 DEF Answer
      <4> QED
        BY <2>3, <4>1
    <3> QED
      BY <3>1, <3>2
  <2>5. /\ NextByte' \in Seq(MouseBytes) /\ NextByte \in Seq(MouseBytes)
        /\ Len(NextByte') = Len(NextByte) + Len(Answer)
        /\ \A i \in 1 .. Len(NextByte) : NextByte'[i] = NextByte[i]
        /\ \A i \in 1 .. Len(Answer) : NextByte'[Len(NextByte) + i] = Answer[i]
    BY <1>0, <2>1, <2>4, NextByteSent, NextByteType
  <2>6. \A i \in 1 .. Len(NextByte) : NextByte[i].pos = 0
    BY <2>2 DEF MouseInv
  <2>7. ASSUME NEW i \in 1 .. Len(NextByte') PROVE NextByte'[i].pos = 0
    <3>0. Len(NextByte) \in Nat /\ Len(Answer) \in Nat
      BY <2>4, <2>5
    <3>1. CASE i \in 1 .. Len(NextByte)
      BY <2>5, <2>6, <3>1
    <3>2. CASE i \notin 1 .. Len(NextByte)
      <4>1. i - Len(NextByte) \in 1 .. Len(Answer) /\ Len(NextByte) + (i - Len(NextByte)) = i
        BY <2>5, <3>0, <3>2
      <4> QED
        BY <2>4, <2>5, <4>1
    <3> QED
      BY <3>1, <3>2
  <2>8. Framed(NextByte', PacketLength')
    <3>1. PacketLength' \in Nat
      BY DEF PacketLength
    <3> QED
      BY <2>5, <2>7, <3>1, FramedAnswers
  <2>9. mouse_dev'.reporting => pc' > 20
    <3>1. CASE Step = "F4"
      BY <2>1, <3>1, ScriptWrites DEF Step
    <3>2. CASE Step # "F4"
      <4>1. mouse_dev' = Knocked
        BY <2>1, <3>2
      <4>2. Knocked.reporting = mouse_dev.reporting
        <5> DEFINE k == IF Step = Knock[mouse_dev.knock + 1] THEN mouse_dev.knock + 1 ELSE 0
        <5>1. Knocked = mouse_dev \/ Knocked = [mouse_dev EXCEPT !.knock = k % 3, !.wheel = @ \/ (k = 3 /\ mouse_dev.has)]
          BY DEF Knocked
        <5> HIDE DEF k
        <5> QED
          BY <1>0, <5>1 DEF BytesOK
      <4> QED
        BY <2>2, <4>1, <4>2
    <3> QED
      BY <3>1, <3>2
  <2> QED
    BY <2>7, <2>8, <2>9 DEF MouseInv
<1>5. CASE read_config \/ mouse_read \/ irq12_handler \/ irq1_handler
  <2>1. port' = Taken /\ UNCHANGED <<mouse_q, mouse_dev>> /\ (pc' = pc \/ pc' = pc + 1)
    BY <1>5 DEF read_config, mouse_read, irq12_handler, irq1_handler
  <2>2. pc' >= pc
    BY <1>0, <2>1
  <2> QED
    BY <1>0, <2>1, <2>2, NextByteTaken
<1>6. CASE UNCHANGED <<port, mouse_q, mouse_dev>> /\ (pc' = pc \/ pc' = pc + 1)
  <2>1. NextByte' = NextByte /\ PacketLength' = PacketLength
    BY <1>6 DEF NextByte, PacketLength
  <2>2. mouse_dev'.reporting => pc' > 20
    BY <1>0, <1>6 DEF MouseInv
  <2> QED
    BY <1>6, <2>1, <2>2 DEF MouseInv
<1>7. ASSUME \/ \E k \in Keys : key_event(k)
             \/ write_config \/ mouse_read_timeout \/ key_read \/ key_clear \/ UNCHANGED vars
      PROVE  UNCHANGED <<port, mouse_q, mouse_dev>> /\ (pc' = pc \/ pc' = pc + 1)
  BY <1>7 DEF key_event, write_config, mouse_read_timeout, key_read, key_clear, vars
<1> QED
  BY <1>1, <1>2, <1>3, <1>4, <1>5, <1>6, <1>7 DEF Next, External, Mainline

(* handle_mouse counts the byte it waits for and is then in step with the  *)
(* byte behind it, at the end of a packet as well as inside it.            *)
LEMMA InStep ==
  ASSUME Inv, MouseInv, InSync, irq12_handler
  PROVE  InSync'
<1> DEFINE s == NextByte
           L == PacketLength
           b == port.byte
<1>0. TypeOK /\ BytesOK
  BY DEF Inv
<1>1. port.full /\ b.src = "mouse" /\ \A r \in irr : r # 1
  <2>1. 12 \in irr /\ 12 # 1
    BY DEF irq12_handler
  <2> QED
    BY <2>1 DEF InSync, OwnRequests
<1>2. irr' = {}
  BY <1>0, <1>1 DEF irq12_handler, TypeOK
<1>3. /\ s \in Seq(MouseBytes) /\ mouse_q \in Seq(MouseBytes) /\ b \in MouseBytes
      /\ Len(s) = Len(mouse_q) + 1 /\ s[1] = b /\ \A i \in 1 .. Len(mouse_q) : mouse_q[i] = s[i + 1]
  BY <1>0, <1>1, NextByteFull
<1>4. /\ port' = Taken /\ handle_mouse(b)
      /\ UNCHANGED <<mouse_q, mouse_dev, pc, mouse_has_wheel>>
  BY <1>1 DEF irq12_handler
<1>5. port'.full = FALSE
  BY <1>0, <1>4, TakenType
<1>6. NextByte' = mouse_q
  BY <1>4, <1>5 DEF NextByte
<1>7. InLoop' /\ mouse_has_wheel' = mouse_dev'.wheel /\ OwnRequests'
  BY <1>2, <1>4 DEF InSync, InLoop, OwnRequests
<1>8. Len(s) \in Nat /\ Len(mouse_q) \in Nat /\ 1 \in 1 .. Len(s) /\ s # <<>>
  BY <1>3
<1>9. b.pos = mouse_cycle + 1
  BY <1>3, <1>8 DEF InSync
<1>10. Framed(s, L)
  BY DEF MouseInv
<1>11. (mouse_has_wheel => L = 4) /\ (~mouse_has_wheel => L = 3)
  BY DEF InSync, PacketLength
<1> HIDE DEF s, L, b
<1>12. mouse_cycle \in 0 .. 3 /\ b.pos <= L /\ (b.pos = 1 => b.bit3)
  BY <1>0, <1>3, <1>8, <1>10 DEF Framed, TypeOK
<1>13. mouse_cycle' = IF b.pos = L THEN 0 ELSE mouse_cycle + 1
  <2>1. ~(mouse_cycle = 0 /\ ~b.bit3)
    BY <1>9, <1>12
  <2>2. mouse_cycle = 3 \/ (mouse_cycle = 2 /\ ~mouse_has_wheel) <=> b.pos = L
    BY <1>9, <1>11, <1>12
  <2> QED
    BY <1>4, <2>1, <2>2 DEF handle_mouse
<1>14. IF mouse_q = <<>> THEN mouse_cycle' = 0 ELSE mouse_q[1].pos = mouse_cycle' + 1
  <2>1. CASE mouse_q = <<>>
    <3>1. Len(s) = 1
      BY <1>3, <2>1
    <3>2. b.pos \in {0, L}
      BY <1>3, <1>10, <3>1 DEF Framed
    <3>3. b.pos = L
      BY <1>9, <1>12, <3>2
    <3> QED
      BY <1>13, <2>1, <3>3
  <2>2. CASE mouse_q # <<>>
    <3>1. Len(mouse_q) > 0
      BY <1>3, <2>2
    <3>2. 1 \in 1 .. Len(mouse_q) /\ 1 < Len(s) /\ 1 + 1 = 2
      BY <1>3, <1>8, <3>1
    <3>3. mouse_q[1] = s[1 + 1] /\ s[1].pos # 0
      BY <1>3, <1>9, <1>12, <3>2
    <3>4. s[1 + 1].pos = IF s[1].pos = L THEN 1 ELSE s[1].pos + 1
      BY <1>8, <1>10, <3>2, <3>3 DEF Framed
    <3>5. mouse_q[1].pos = IF b.pos = L THEN 1 ELSE b.pos + 1
      BY <1>3, <3>3, <3>4
    <3> QED
      BY <1>9, <1>12, <1>13, <2>2, <3>5
  <2> QED
    BY <2>1, <2>2
<1> QED
  BY <1>6, <1>7, <1>14 DEF InSync

LEMMA NextSync == Inv /\ MouseInv /\ InSync /\ [Next]_vars => InSync'
<1> SUFFICES ASSUME Inv, MouseInv, InSync, [Next]_vars PROVE InSync'
  OBVIOUS
<1> USE DEF devices, kbd
<1>0. TypeOK /\ BytesOK /\ pc \in Nat /\ irr \subseteq {1, 12}
  BY DEF Inv, TypeOK
<1>1. ASSUME NEW high \in BOOLEAN, mouse_moves(high) PROVE InSync'
  <2>1. UNCHANGED <<port, irr, mouse_dev, pc, mouse_has_wheel, mouse_cycle>>
    BY <1>1 DEF mouse_moves
  <2>2. InLoop' /\ mouse_has_wheel' = mouse_dev'.wheel /\ OwnRequests'
    BY <2>1 DEF InSync, InLoop, OwnRequests
  <2>3. NextByte' # <<>> /\ NextByte'[1].pos = mouse_cycle + 1
    <3>1. CASE NextByte = <<>>
      <4>1. mouse_cycle = 0
        BY <3>1 DEF InSync
      <4>2. NextByte' # <<>> /\ NextByte'[1].pos = 1
        BY <1>0, <1>1, <3>1, PacketSent
      <4> QED
        BY <4>1, <4>2
    <3>2. CASE NextByte # <<>>
      <4>1. NextByte[1].pos = mouse_cycle + 1
        BY <3>2 DEF InSync
      <4>2. NextByte' # <<>> /\ NextByte'[1] = NextByte[1]
        BY <1>0, <1>1, <3>2, PacketSent
      <4> QED
        BY <4>1, <4>2
    <3> QED
      BY <3>1, <3>2
  <2> QED
    BY <2>1, <2>2, <2>3 DEF InSync
<1>2. CASE deliver_mouse
  <2> DEFINE x == Head(mouse_q)
             q == Tail(mouse_q)
  <2>1. x \in MouseBytes /\ q \in Seq(MouseBytes) /\ mouse_q = <<x>> \o q
    BY <1>0, <1>2 DEF deliver_mouse, BytesOK
  <2>2. /\ port' = [full |-> TRUE, byte |-> x] /\ mouse_q' = q /\ ~port.full /\ irr' = irr \cup {12}
        /\ UNCHANGED <<mouse_dev, pc, mouse_has_wheel, mouse_cycle>>
    BY <1>2 DEF deliver_mouse
  <2> HIDE DEF x, q
  <2>3. port'.full /\ port'.byte = x /\ x.src = "mouse"
    BY <2>1, <2>2 DEF MouseBytes
  <2>4. NextByte' = NextByte
    BY <2>1, <2>2, <2>3 DEF NextByte
  <2>5. irr' = {12}
    BY <2>2 DEF InSync, OwnRequests
  <2>6. OwnRequests'
    BY <2>3, <2>5 DEF OwnRequests
  <2> QED
    BY <2>2, <2>4, <2>6 DEF InSync, InLoop
<1>3. CASE deliver_kbd
  <2>1. Head(kbd_q) \in KbdBytes
    BY <1>0, <1>3 DEF deliver_kbd, BytesOK
  <2>2. /\ port' = [full |-> TRUE, byte |-> Head(kbd_q)] /\ ~port.full
        /\ irr' \subseteq irr \cup {1}
        /\ UNCHANGED <<mouse_q, mouse_dev, pc, mouse_has_wheel, mouse_cycle>>
    BY <1>3 DEF deliver_kbd
  <2>3. port'.full /\ port'.byte.src = "kbd"
    BY <2>1, <2>2 DEF KbdBytes
  <2>4. NextByte' = NextByte
    BY <2>2, <2>3 DEF NextByte
  <2>5. irr' \subseteq {1}
    BY <2>2 DEF InSync, OwnRequests
  <2>6. OwnRequests'
    BY <2>3, <2>5 DEF OwnRequests
  <2> QED
    BY <2>2, <2>4, <2>6 DEF InSync, InLoop
<1>4. CASE irq12_handler
  BY <1>4, InStep
<1>5. CASE irq1_handler
  <2>1. port.full /\ port.byte.src = "kbd"
    BY <1>5 DEF irq1_handler, InSync, OwnRequests
  <2>2. irr' = {}
    BY <1>0, <1>5, <2>1 DEF irq1_handler, InSync, OwnRequests
  <2>3. port' = Taken /\ UNCHANGED <<mouse_q, mouse_dev, pc, mouse_has_wheel, mouse_cycle>>
    BY <1>5 DEF irq1_handler
  <2>4. port'.full = FALSE
    BY <1>0, <2>3, TakenType
  <2>5. NextByte' = NextByte
    BY <2>1, <2>3, <2>4 DEF NextByte
  <2>6. OwnRequests'
    BY <2>2 DEF OwnRequests
  <2> QED
    BY <2>3, <2>5, <2>6 DEF InSync, InLoop
<1>6. ASSUME UNCHANGED <<port, irr, mouse_q, mouse_dev, pc, mouse_has_wheel, mouse_cycle>> PROVE InSync'
  <2>1. NextByte' = NextByte /\ OwnRequests' = OwnRequests
    BY <1>6 DEF NextByte, OwnRequests
  <2> QED
    BY <1>6, <2>1 DEF InSync, InLoop
<1>7. ASSUME (\E k \in Keys : key_event(k)) \/ key_read \/ key_clear \/ UNCHANGED vars
      PROVE  UNCHANGED <<port, irr, mouse_q, mouse_dev, pc, mouse_has_wheel, mouse_cycle>>
  BY <1>7 DEF key_event, key_read, key_clear, vars
<1>8. ~(read_config \/ write_config \/ mouse_write \/ mouse_read \/ mouse_read_timeout)
  BY DEF InSync, read_config, write_config, mouse_write, mouse_read, mouse_read_timeout
<1> QED
  BY <1>1, <1>2, <1>3, <1>4, <1>5, <1>6, <1>7, <1>8 DEF Next, External, Mainline

(* Once the desktop loop runs with the packet length known and no request  *)
(* left over, handle_mouse never loses the packets' boundaries again, for  *)
(* queues of any length and both kinds of mice.                            *)
THEOREM SyncStays == Spec => SyncIsKept
<1>1. Inv /\ MouseInv /\ [Next]_vars => [InSync => InSync']_vars
  BY NextSync
<1>2. Spec => []MouseInv
  BY Invariance, InitMouse, NextMouse, PTL DEF Spec
<1> QED
  BY <1>1, <1>2, Invariance, PTL DEF Spec, SyncIsKept
=============================================================================
