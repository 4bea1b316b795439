--------------------------------- MODULE Rtc --------------------------------
(***************************************************************************)
(* drivers/rtc.c: rtc_get_datetime reads the six registers of the CMOS     *)
(* clock, one port access after the other, while the clock goes on.        *)
(*                                                                         *)
(* The clock is external.  Once a second it sets the update-in-progress    *)
(* bit, changes its registers and clears the bit; what a register gives    *)
(* in between is undefined.  Nothing is assumed of how long before the     *)
(* change the bit is set: an interrupt may delay the reader between its    *)
(* test of the bit and its reads.  It is assumed that a second is long:    *)
(* at least Gap steps of the reader pass between two updates.              *)
(*                                                                         *)
(* Field i of the time takes the values of Shown[i] in turn, a carry goes  *)
(* to the next field; the cfg chooses few values for each.                 *)
(***************************************************************************)
EXTENDS Integers, Sequences

CONSTANTS Shown,   \* for each field the values it takes, in order
          Modes,   \* the settings of register B: [binary, h24]
          Gap      \* reader steps between two updates of the clock

Second == 1
Hour == 3
Year == 6
Fields == 1 .. 6
Pass == 1 + 6      \* steps of one pass: the test of the bit and six reads

FieldsShown ==
  /\ DOMAIN Shown = Fields
  /\ \A i \in Fields : Shown[i] \in Seq(0 .. 99) /\ Shown[i] # <<>>
  /\ Shown[Hour] \in Seq(0 .. 23)
RegisterModes == Modes # {} /\ Modes \subseteq [binary : BOOLEAN, h24 : BOOLEAN]
SecondIsLong == Gap \in Nat /\ Gap >= 3 * Pass

VARIABLES
  mode,      \* register B
  now,       \* the clock: a position in Shown[i] for each field
  updating,  \* the update-in-progress bit
  quiet,     \* reader steps since the last update, up to Gap
  pc,        \* rtc_get_datetime: "idle", "wait", "read", "convert" or "done"
  field,     \* the register that is read next
  last,      \* last_second ... last_year; empty during the first pass
  cur,       \* *second ... *year, as read
  result,    \* the time returned
  seen       \* history: the times the clock showed during the call

clock == <<now, updating, quiet>>
vars == <<mode, clock, pc, field, last, cur, result, seen>>

TimeOf(t) == [i \in Fields |-> Shown[i][t[i]]]
Start == [i \in Fields |-> 1]

Init ==
  /\ mode \in Modes
  /\ now = Start
  /\ updating = FALSE
  /\ quiet = Gap
  /\ pc = "idle"
  /\ field = 1
  /\ last = <<>> /\ cur = <<>> /\ result = <<>>
  /\ seen = {}
-----------------------------------------------------------------------------
(* External: the clock.                                                    *)
ToBcd(v) == (v \div 10) * 16 + (v % 10)

HourRegister(h) ==
  LET twelve == IF h % 12 = 0 THEN 12 ELSE h % 12
      v == IF mode.h24 THEN h ELSE twelve
  IN  (IF mode.binary THEN v ELSE ToBcd(v)) + (IF ~mode.h24 /\ h >= 12 THEN 128 ELSE 0)

Register(t, i) ==
  LET v == Shown[i][t[i]]
  IN  IF i = Hour THEN HourRegister(v) ELSE IF mode.binary THEN v ELSE ToBcd(v)

Tick(t) ==
  [i \in Fields |->
     IF \A j \in 1 .. i - 1 : t[j] = Len(Shown[j]) THEN (t[i] % Len(Shown[i])) + 1 ELSE t[i]]

begin_update ==
  /\ ~updating
  /\ quiet = Gap
  /\ updating' = TRUE
  /\ UNCHANGED <<mode, now, quiet, pc, field, last, cur, result, seen>>

end_update ==
  /\ updating
  /\ updating' = FALSE
  /\ now' = Tick(now)
  /\ quiet' = IF pc = "idle" THEN Gap ELSE 0
  /\ seen' = IF pc = "idle" THEN {} ELSE seen \cup {TimeOf(now')}
  /\ UNCHANGED <<mode, pc, field, last, cur, result>>

(* What a read of register i may give; 255 stands for any other byte.      *)
Readable(i) ==
  IF updating THEN {255} \cup {Register([now EXCEPT ![i] = k], i) : k \in DOMAIN Shown[i]}
  ELSE {Register(now, i)}
-----------------------------------------------------------------------------
Passes == quiet' = IF quiet < Gap THEN quiet + 1 ELSE quiet

call ==
  /\ pc = "idle"
  /\ pc' = "wait"
  /\ seen' = {TimeOf(now)}
  /\ last' = <<>> /\ cur' = <<>>
  /\ UNCHANGED <<mode, clock, field, result>>

(* while (updating_rtc()); leaves the loop when the bit is clear.          *)
updating_rtc ==
  /\ pc = "wait"
  /\ ~updating
  /\ pc' = "read"
  /\ field' = 1
  /\ Passes
  /\ UNCHANGED <<mode, now, updating, last, cur, result, seen>>

(* Comparing only the seconds of the two passes.                           *)
get_rtc_register_SecondsOnly ==
  /\ pc = "read"
  /\ \E v \in Readable(field) :
       LET read == Append(cur, v)
       IN  IF field < Year
           THEN cur' = read /\ field' = field + 1 /\ UNCHANGED <<pc, last>>
           ELSE /\ field' = 1
                /\ IF last # <<>> /\ read[Second] = last[Second]
                   THEN pc' = "convert" /\ cur' = read /\ UNCHANGED last
                   ELSE pc' = "wait" /\ last' = read /\ cur' = <<>>
  /\ Passes
  /\ UNCHANGED <<mode, now, updating, result, seen>>

(* Never assigning last_second ... last_year.                              *)
get_rtc_register_NoLast ==
  /\ pc = "read"
  /\ \E v \in Readable(field) :
       LET read == Append(cur, v)
       IN  IF field < Year
           THEN cur' = read /\ field' = field + 1 /\ UNCHANGED <<pc, last>>
           ELSE /\ field' = 1
                /\ IF read = last
                   THEN pc' = "convert" /\ cur' = read /\ UNCHANGED last
                   ELSE pc' = "wait" /\ cur' = <<>> /\ UNCHANGED last
  /\ Passes
  /\ UNCHANGED <<mode, now, updating, result, seen>>

(* One register of a pass; with the last one the do-while loop compares    *)
(* the pass with the one before it, and ends when they are equal.          *)
get_rtc_register ==
  /\ pc = "read"
  /\ \E v \in Readable(field) :
       LET read == Append(cur, v)
       IN  IF field < Year
           THEN cur' = read /\ field' = field + 1 /\ UNCHANGED <<pc, last>>
           ELSE /\ field' = 1
                /\ IF read = last
                   THEN pc' = "convert" /\ cur' = read /\ UNCHANGED last
                   ELSE pc' = "wait" /\ last' = read /\ cur' = <<>>
  /\ Passes
  /\ UNCHANGED <<mode, now, updating, result, seen>>

FromBcd(x) == (x % 16) + (x \div 16) * 10

FromBcdHour(x) == (x % 16) + ((x % 128) \div 16) * 10 + (x \div 128) * 128

To24(h) == IF ~mode.h24 /\ h >= 128 THEN ((h % 128) + 12) % 24 ELSE h

(* Register B is read and the fields are converted.  2000 is added to the  *)
(* year of the century, which changes no comparison and is left out.       *)
convert ==
  /\ pc = "convert"
  /\ result' = [i \in Fields |->
       LET v == IF mode.binary THEN cur[i] ELSE IF i = Hour THEN FromBcdHour(cur[i]) ELSE FromBcd(cur[i])
       IN  IF i = Hour THEN To24(v) ELSE v]
  /\ pc' = "done"
  /\ last' = <<>> /\ cur' = <<>>
  /\ UNCHANGED <<mode, clock, field, seen>>

return ==
  /\ pc = "done"
  /\ pc' = "idle"
  /\ result' = <<>> /\ seen' = {}
  /\ quiet' = Gap              \* the time between two calls is not counted
  /\ UNCHANGED <<mode, now, updating, field, last, cur>>

Reader == updating_rtc \/ get_rtc_register \/ convert \/ return

Next == begin_update \/ end_update \/ call \/ Reader

Spec == Init /\ [][Next]_vars

(* An update of the clock ends by itself, and the processor goes on.       *)
FairSpec == Spec /\ WF_vars(end_update) /\ WF_vars(Reader)
-----------------------------------------------------------------------------
(* Properties.                                                             *)

(* Type correctness.                                                       *)
TypeOK ==
  /\ mode \in Modes
  /\ \A i \in Fields : now[i] \in DOMAIN Shown[i]
  /\ updating \in BOOLEAN
  /\ quiet \in 0 .. Gap
  /\ pc \in {"idle", "wait", "read", "convert", "done"}
  /\ field \in Fields
  /\ Len(cur) <= 6 /\ Len(last) \in {0, 6}

(* "Read twice to ensure stable values": rtc_get_datetime returns a time   *)
(* the clock showed during the call, never fields of two times or a        *)
(* register that was changing, whatever the moment of the update and in    *)
(* every mode; only noon and midnight on a 12-hour clock are left to       *)
(* HoursConverted.                                                         *)
NoonOrMidnight(t) == ~mode.h24 /\ t[Hour] \in {0, 12}
ReadIsShown ==
  pc = "done" =>
    \E t \in seen : \A i \in Fields : result[i] = t[i] \/ (i = Hour /\ NoonOrMidnight(t))

(* The clock shows every hour of a 12-hour day as an hour of 0 .. 23, the  *)
(* two 12 o'clocks included.                                               *)
(* Does not hold: README, section 5.                                       *)
HoursConverted == pc = "done" => \E t \in seen : result[Hour] = t[Hour]

(* The desktop's clock never hangs: neither waiting for the bit nor the    *)
(* comparison of passes goes on for ever.                                  *)
ReadEnds == (pc = "wait") ~> (pc = "done")
=============================================================================
