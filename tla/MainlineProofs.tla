--------------------------- MODULE MainlineProofs ---------------------------
(***************************************************************************)
(* Proofs about the walks of the mainline that interrupts fall into.       *)
(*                                                                         *)
(* The task list: TypeOK and ListInv together are inductive, since pids    *)
(* grow: "the next task" of the list is the next younger one, and a walk   *)
(* that looks for its end or for a pid only moves to younger tasks.  What  *)
(* task_get_count counts then follows by induction along the list.         *)
(*                                                                         *)
(* The keys, the figures and the clock are proved about as instances, each *)
(* with an inductive invariant of its own; the composition is shown to     *)
(* take only steps of each of them.                                        *)
(***************************************************************************)
EXTENDS MCMainline, FiniteSetTheorems, WellFoundedInduction, TLAPS

Inv == TypeOK /\ ListInv

MainType == [pc : {"idle", "create", "destroy", "test", "hlt", "halted"},
             task : Nat, curr : Pids \cup {0}, ticks_left : Nat]

(* What Inv says when the mainline is in no walk.                          *)
LEMMA QuietMain ==
  ASSUME Inv, main' \in MainType, main'.pc \notin {"create", "destroy"},
         UNCHANGED <<task_list, next, linked, next_pid, current_task, zombies>>,
         ran' \subseteq Pids, busy_ticks' \in Nat, boot' \in 0 .. 4
  PROVE  Inv'
BY DEF Inv, TypeOK, ListInv, Chained, IsLast, WalkInv, MainType, Pids, InitTask

(* A walk that moves on by one task, or is interrupted, keeps Inv if its   *)
(* new cursor is on the list and nothing it looks for was passed by.       *)
LEMMA WalkOn ==
  ASSUME Inv, main' \in MainType,
         main'.pc = main.pc, main'.task = main.task, main'.curr \in linked,
         main.pc \in {"create", "destroy"},
         main.pc = "destroy" => \A q \in linked : q <= main'.curr => q # main.task,
         UNCHANGED <<task_list, next, linked, next_pid, current_task, zombies, boot>>,
         ran' \subseteq Pids, busy_ticks' \in Nat
  PROVE  Inv'
BY DEF Inv, TypeOK, ListInv, Chained, IsLast, WalkInv, MainType, Pids, InitTask

LEMMA InitInv == Init => Inv
<1> SUFFICES ASSUME Init  PROVE Inv
  OBVIOUS
<1>1. TypeOK
  BY MaxPidAssumption DEF Init, TypeOK, Pids, InitTask, Idle
<1>2. ListInv
  BY DEF Init, ListInv, Chained, WalkInv, IsLast, Idle
<1>3. QED  BY <1>1, <1>2 DEF Inv

LEMMA IdleType == Idle \in MainType /\ Idle.pc = "idle"
BY DEF Idle, MainType

(* Without a head there is no task, and the head is the oldest task.       *)
LEMMA HeadFacts ==
  ASSUME Inv
  PROVE  /\ task_list = 0 <=> linked = {}
         /\ task_list # 0 => task_list \in linked /\ task_list \in Pids
         /\ linked \subseteq Pids
         /\ 0 \notin Pids
         /\ Pids \subseteq Nat
BY DEF Inv, TypeOK, ListInv, Chained, Pids

LEMMA CreateStep == Inv /\ task_create => Inv'
<1> SUFFICES ASSUME Inv, task_create  PROVE Inv'
  OBVIOUS
<1>1. /\ next_pid \in Pids /\ next_pid' = next_pid + 1
      /\ next_pid' \in 1 .. MaxPid + 1
      /\ next_pid \notin linked
      /\ next' = [next EXCEPT ![next_pid] = 0]
      /\ next' \in [Pids -> Pids \cup {0}]
      /\ UNCHANGED <<current_task, zombies, ran, busy_ticks>>
  BY MaxPidAssumption DEF task_create, Inv, TypeOK, ListInv, WalkInv, Pids, tickVars
<1>2. CASE task_list = 0
  <2>1. linked = {} /\ linked' = {next_pid} /\ task_list' = next_pid /\ main' = Idle
    BY <1>2, HeadFacts DEF task_create, Created
  <2>2. boot' \in 0 .. 4
    BY <1>2 DEF task_create, Created, Inv, TypeOK
  <2>3. next'[next_pid] = 0  BY <1>1 DEF Inv, TypeOK
  <2>4. TypeOK'
    BY <1>1, <2>1, <2>2, IdleType DEF Inv, TypeOK, MainType
  <2>5. ListInv'
    BY <1>1, <2>1, <2>3, IdleType DEF ListInv, Chained, IsLast, WalkInv, Pids
  <2>6. QED  BY <2>4, <2>5 DEF Inv
<1>3. CASE task_list # 0
  <2>1. main' = At("create", next_pid, task_list) /\ UNCHANGED <<task_list, linked, boot>>
    BY <1>3 DEF task_create
  <2>2. /\ main' \in MainType
        /\ main'.pc = "create" /\ main'.task = next_pid /\ main'.curr = task_list
    BY <1>1, <1>3, <2>1, HeadFacts DEF At, MainType, Pids
  <2>3. next'[next_pid] = 0 /\ \A p \in linked : next'[p] = next[p]
    BY <1>1, HeadFacts DEF Inv, TypeOK
  <2>4. TypeOK'
    BY <1>1, <2>1, <2>2 DEF Inv, TypeOK, MainType
  <2>5. Chained'
    BY <2>1, <2>3 DEF Inv, ListInv, Chained, IsLast
  <2>6. WalkInv'
    BY <1>1, <1>3, <2>1, <2>2, <2>3, HeadFacts DEF Inv, ListInv, WalkInv, Pids
  <2>7. QED  BY <2>4, <2>5, <2>6 DEF Inv, ListInv
<1>4. QED  BY <1>2, <1>3

LEMMA CreateWalkStep == Inv /\ create_walk => Inv'
<1> SUFFICES ASSUME Inv, create_walk  PROVE Inv'
  OBVIOUS
<1>1. main.curr \in linked /\ next[main.curr] \in linked
  BY DEF create_walk, Inv, ListInv, WalkInv, Chained
<1>2. /\ main' \in MainType /\ main'.pc = main.pc /\ main'.task = main.task
      /\ main'.curr = next[main.curr] /\ main.pc = "create"
  BY <1>1 DEF create_walk, Inv, TypeOK, MainType
<1>3. /\ UNCHANGED <<task_list, next, linked, next_pid, current_task, zombies, boot>>
      /\ ran' \subseteq Pids /\ busy_ticks' \in Nat
  BY DEF create_walk, listVars, tickVars, Inv, TypeOK
<1>4. QED  BY <1>1, <1>2, <1>3, WalkOn

(* The cursor is on the youngest task, and the new one is younger still.   *)
LEMMA CreateLinkStep == Inv /\ create_link => Inv'
<1> SUFFICES ASSUME Inv, create_link  PROVE Inv'
  OBVIOUS
<1> DEFINE c == main.curr
           t == main.task
<1>1. /\ c \in linked /\ t \in Pids /\ t \notin linked /\ t = next_pid - 1 /\ next[t] = 0
      /\ next[c] = 0 /\ linked \subseteq Pids
      /\ next' = [next EXCEPT ![c] = t] /\ linked' = linked \cup {t} /\ main' = Idle
      /\ UNCHANGED <<task_list, next_pid, current_task, zombies, ran, busy_ticks>>
  BY DEF create_link, Created, tickVars, Inv, TypeOK, ListInv, WalkInv
<1>2. boot' \in 0 .. 4
  BY DEF create_link, Created, Inv, TypeOK
<1>3. /\ \A p \in linked : p < next_pid /\ p \in Int
      /\ next_pid \in Int /\ c # t
      /\ \A p \in linked : p < t
  <2>1. \A p \in linked : p < next_pid /\ p \in Int
    BY <1>1 DEF Inv, ListInv, WalkInv, Pids
  <2>2. next_pid \in Int  BY MaxPidAssumption DEF Inv, TypeOK
  <2>3. \A p \in linked : p # t  BY <1>1
  <2>4. \A p \in linked : p < t
    BY <1>1, <2>1, <2>2, <2>3 DEF Pids
  <2>5. QED  BY <1>1, <2>1, <2>2, <2>4
<1>4. \A q \in linked : q <= c
  <2>1. \/ next[c] = 0 /\ IsLast(c)
        \/ next[c] \in linked
    BY <1>1 DEF Inv, ListInv, Chained
  <2>2. next[c] \notin linked  BY <1>1, HeadFacts
  <2>3. QED  BY <2>1, <2>2 DEF IsLast
<1>5. /\ next'[c] = t /\ next'[t] = 0
      /\ \A p \in linked : p # c => next'[p] = next[p]
  BY <1>1, <1>3 DEF Inv, TypeOK
<1>6. TypeOK'
  BY <1>1, <1>2, IdleType DEF Inv, TypeOK, MainType
<1>7. Chained'
  <2>1. task_list' \in linked' /\ \A q \in linked' : task_list' <= q
    BY <1>1, <1>3 DEF Inv, ListInv, Chained
  <2>2. ASSUME NEW p \in linked, p # c
        PROVE  /\ next'[p] \in linked' /\ p < next'[p]
               /\ \A q \in linked' : q <= p \/ next'[p] <= q
    <3>1. ~IsLast(p)  BY <1>1, <1>3, <1>4, <2>2 DEF IsLast
    <3>2. next[p] \in linked /\ p < next[p] /\ \A q \in linked : q <= p \/ next[p] <= q
      BY <3>1 DEF Inv, ListInv, Chained
    <3>3. QED  BY <3>2, <1>1, <1>3, <1>5, <2>2
  <2>3. next'[c] \in linked' /\ c < next'[c] /\ \A q \in linked' : q <= c \/ next'[c] <= q
    BY <1>1, <1>3, <1>4, <1>5
  <2>4. \A q \in linked' : q <= t
    BY <1>1, <1>3
  <2>5. QED  BY <2>1, <2>2, <2>3, <2>4, <1>1, <1>5 DEF Chained, IsLast
<1>8. WalkInv'
  BY <1>1, <1>3, IdleType DEF WalkInv
<1>9. QED  BY <1>6, <1>7, <1>8 DEF Inv, ListInv
LEMMA SetCurrentStep == Inv /\ set_current => Inv'
<1> SUFFICES ASSUME Inv, set_current  PROVE Inv'
  OBVIOUS
<1>1. TypeOK'
  BY DEF set_current, Inv, TypeOK, listVars, tickVars
<1>2. ListInv'
  BY DEF set_current, Inv, ListInv, Chained, IsLast, WalkInv, listVars
<1>3. QED  BY <1>1, <1>2 DEF Inv

(* Cutting off the head: the oldest task goes, the next younger one, if    *)
(* there is one, becomes the oldest.                                       *)
LEMMA DestroyHeadStep ==
  ASSUME Inv, NEW pid \in DestroyPids, task_destroy(pid), task_list = pid
  PROVE  Inv'
<1>1. /\ pid \in linked /\ pid \in Pids /\ main.pc = "idle"
      /\ task_list' = next[pid] /\ linked' = linked \ {pid} /\ zombies' = zombies \cup {pid}
      /\ UNCHANGED <<main, next, next_pid, current_task, ran, busy_ticks, boot>>
  BY HeadFacts DEF task_destroy, tickVars
<1>2. TypeOK'
  BY <1>1 DEF Inv, TypeOK
<1>3. \A q \in linked : pid <= q /\ q \in Int
  BY <1>1, HeadFacts DEF Inv, ListInv, Chained
<1>4. Chained'
  <2>1. CASE next[pid] = 0
    <3>1. \A q \in linked : q <= pid
      BY <1>1, <2>1, HeadFacts DEF Inv, ListInv, Chained, IsLast
    <3>2. linked' = {}
      BY <1>1, <1>3, <3>1
    <3>3. QED  BY <1>1, <2>1, <3>2 DEF Chained
  <2>2. CASE next[pid] # 0
    <3>1. /\ next[pid] \in linked /\ pid < next[pid]
          /\ \A q \in linked : q <= pid \/ next[pid] <= q
      BY <1>1, <2>2 DEF Inv, ListInv, Chained
    <3>2. task_list' \in linked' /\ \A q \in linked' : task_list' <= q
      BY <1>1, <1>3, <3>1
    <3>3. ASSUME NEW p \in linked'
          PROVE  \/ next'[p] = 0 /\ IsLast(p)'
                 \/ /\ next'[p] \in linked' /\ p < next'[p]
                    /\ \A q \in linked' : q <= p \/ next'[p] <= q
      <4>1. p \in linked /\ p # pid /\ next'[p] = next[p]  BY <1>1, <3>3
      <4>2. CASE next[p] = 0
        BY <1>1, <4>1, <4>2, HeadFacts DEF Inv, ListInv, Chained, IsLast
      <4>3. CASE next[p] # 0
        <5>1. /\ next[p] \in linked /\ p < next[p]
              /\ \A q \in linked : q <= p \/ next[p] <= q
          BY <4>1, <4>3 DEF Inv, ListInv, Chained
        <5>2. next[p] # pid  BY <1>3, <4>1, <5>1
        <5>3. QED  BY <1>1, <4>1, <5>1, <5>2
      <4>4. QED  BY <4>2, <4>3
    <3>4. QED  BY <3>2, <3>3 DEF Chained
  <2>3. QED  BY <2>1, <2>2
<1>5. WalkInv'
  BY <1>1 DEF Inv, ListInv, WalkInv
<1>6. QED  BY <1>2, <1>4, <1>5 DEF Inv, ListInv

LEMMA DestroyStartStep ==
  ASSUME Inv, NEW pid \in DestroyPids, task_destroy(pid), task_list # pid
  PROVE  Inv'
<1>1. /\ task_list \in linked /\ task_list \in Pids /\ pid \in Nat
      /\ main' = At("destroy", pid, task_list)
      /\ UNCHANGED <<task_list, zombies, linked, next, next_pid, current_task, ran, busy_ticks, boot>>
  BY HeadFacts, DestroyPidsAssumption DEF task_destroy, tickVars
<1>2. /\ main' \in MainType
      /\ main'.pc = "destroy" /\ main'.task = pid /\ main'.curr = task_list
  BY <1>1 DEF At, MainType
<1>3. TypeOK'
  BY <1>1, <1>2 DEF Inv, TypeOK, MainType
<1>4. Chained'
  BY <1>1 DEF Inv, ListInv, Chained, IsLast
<1>5. \A q \in linked : q <= task_list => q # pid
  BY <1>1, HeadFacts DEF Inv, ListInv, Chained
<1>6. WalkInv'
  BY <1>1, <1>2, <1>5 DEF Inv, ListInv, WalkInv
<1>7. QED  BY <1>3, <1>4, <1>6 DEF Inv, ListInv

LEMMA DestroyWalkStep == Inv /\ destroy_walk => Inv'
<1> SUFFICES ASSUME Inv, destroy_walk  PROVE Inv'
  OBVIOUS
<1>1. /\ main.curr \in linked /\ next[main.curr] \in linked
      /\ \A q \in linked : q <= main.curr \/ next[main.curr] <= q
      /\ \A q \in linked : q <= main.curr => q # main.task
      /\ next[main.curr] # main.task
  BY DEF destroy_walk, Inv, ListInv, WalkInv, Chained
<1>2. /\ main' \in MainType /\ main'.pc = main.pc /\ main'.task = main.task
      /\ main'.curr = next[main.curr] /\ main.pc = "destroy"
  BY <1>1 DEF destroy_walk, Inv, TypeOK, MainType
<1>3. /\ UNCHANGED <<task_list, next, linked, next_pid, current_task, zombies, boot>>
      /\ ran' \subseteq Pids /\ busy_ticks' \in Nat
  BY DEF destroy_walk, listVars, tickVars, Inv, TypeOK
<1>4. \A q \in linked : q <= main'.curr => q # main.task
  BY <1>1, <1>2, HeadFacts
<1>5. QED  BY <1>1, <1>2, <1>3, <1>4, WalkOn

(* Unlinking: the cursor takes over the successor of the task that goes.   *)
LEMMA DestroyUnlinkStep == Inv /\ destroy_unlink => Inv'
<1> SUFFICES ASSUME Inv, destroy_unlink  PROVE Inv'
  OBVIOUS
<1> DEFINE c == main.curr
           t == main.task
<1>1. /\ c \in linked /\ next[c] # 0 /\ next[c] = t
      /\ next' = [next EXCEPT ![c] = next[t]] /\ linked' = linked \ {t}
      /\ zombies' = zombies \cup {t} /\ main' = Idle
      /\ UNCHANGED <<task_list, next_pid, current_task, ran, busy_ticks, boot>>
  BY DEF destroy_unlink, tickVars, Inv, ListInv, WalkInv
<1>2. /\ t \in linked /\ c < t
      /\ \A q \in linked : q <= c \/ t <= q
      /\ linked \subseteq Pids /\ \A q \in linked : q \in Int
  BY <1>1, HeadFacts DEF Inv, ListInv, Chained
<1>3. /\ t \in Pids /\ c # t /\ c \in linked'
      /\ next'[c] = next[t]
      /\ \A p \in linked : p # c => next'[p] = next[p]
  BY <1>1, <1>2 DEF Inv, TypeOK
<1>4. TypeOK'
  BY <1>1, <1>3, IdleType DEF Inv, TypeOK, MainType
<1>5. Chained'
  <2>1. task_list' \in linked' /\ \A q \in linked' : task_list' <= q
    <3>1. task_list \in linked /\ \A q \in linked : task_list <= q
      BY <1>1 DEF Inv, ListInv, Chained
    <3>2. task_list # t  BY <1>1, <1>2, <3>1
    <3>3. QED  BY <1>1, <3>1, <3>2
  <2>2. ASSUME NEW p \in linked', p # c
        PROVE  \/ next'[p] = 0 /\ IsLast(p)'
               \/ /\ next'[p] \in linked' /\ p < next'[p]
                  /\ \A q \in linked' : q <= p \/ next'[p] <= q
    <3>1. p \in linked /\ p # t /\ next'[p] = next[p]  BY <1>1, <1>3, <2>2
    <3>2. CASE next[p] = 0
      BY <1>1, <3>1, <3>2, HeadFacts DEF Inv, ListInv, Chained, IsLast
    <3>3. CASE next[p] # 0
      <4>1. /\ next[p] \in linked /\ p < next[p]
            /\ \A q \in linked : q <= p \/ next[p] <= q
        BY <3>1, <3>3 DEF Inv, ListInv, Chained
      <4>2. next[p] # t  BY <1>1, <1>2, <2>2, <3>1, <4>1
      <4>3. QED  BY <1>1, <3>1, <4>1, <4>2
    <3>4. QED  BY <3>2, <3>3
  <2>3. \/ next'[c] = 0 /\ \A q \in linked' : q <= c
        \/ /\ next'[c] \in linked' /\ c < next'[c]
           /\ \A q \in linked' : q <= c \/ next'[c] <= q
    <3>1. CASE next[t] = 0
      <4>1. \A q \in linked : q <= t
        BY <1>2, <3>1, HeadFacts DEF Inv, ListInv, Chained, IsLast
      <4>2. \A q \in linked' : q <= c  BY <1>1, <1>2, <4>1
      <4>3. QED  BY <1>3, <3>1, <4>2
    <3>2. CASE next[t] # 0
      <4>1. /\ next[t] \in linked /\ t < next[t]
            /\ \A q \in linked : q <= t \/ next[t] <= q
        BY <1>2, <3>2 DEF Inv, ListInv, Chained
      <4>2. next[t] \in Int /\ c \in Int /\ t \in Int  BY <1>1, <1>2, <4>1
      <4>3. next'[c] \in linked' /\ c < next'[c]
        <5>1. next[t] # t /\ c < next[t]  BY <1>2, <4>1, <4>2
        <5>2. next[t] \in linked'  BY <1>1, <4>1, <5>1
        <5>3. QED  BY <1>3, <5>1, <5>2
      <4>4. ASSUME NEW q \in linked'  PROVE q <= c \/ next'[c] <= q
        <5>1. q \in linked /\ q # t /\ q \in Int  BY <1>1, <1>2
        <5>2. (q <= c \/ t <= q) /\ (q <= t \/ next[t] <= q)  BY <1>2, <4>1, <5>1
        <5>3. q <= c \/ next[t] <= q  BY <4>2, <5>1, <5>2
        <5>4. QED  BY <1>3, <5>3
      <4>5. QED  BY <4>3, <4>4
    <3>3. QED  BY <3>1, <3>2
  <2>4. \A p \in linked' : \/ next'[p] = 0 /\ \A q \in linked' : q <= p
                          \/ /\ next'[p] \in linked' /\ p < next'[p]
                             /\ \A q \in linked' : q <= p \/ next'[p] <= q
    BY <2>2, <2>3 DEF IsLast
  <2>5. QED  BY <2>1, <2>4 DEF Chained, IsLast
<1>6. WalkInv'
  BY <1>1, IdleType DEF Inv, ListInv, WalkInv
<1>7. QED  BY <1>4, <1>5, <1>6 DEF Inv, ListInv
LEMMA DestroyNotFoundStep == Inv /\ destroy_not_found => Inv'
<1> SUFFICES ASSUME Inv, destroy_not_found  PROVE Inv'
  OBVIOUS
<1>1. main' \in MainType /\ main'.pc \notin {"create", "destroy"}
  BY IdleType DEF destroy_not_found
<1>2. UNCHANGED <<task_list, next, linked, next_pid, current_task, zombies, ran, busy_ticks, boot>>
  BY DEF destroy_not_found, listVars, tickVars
<1>3. ran' \subseteq Pids /\ busy_ticks' \in Nat /\ boot' \in 0 .. 4
  BY <1>2 DEF Inv, TypeOK
<1>4. QED  BY <1>1, <1>2, <1>3, QuietMain

(* sleep() and its steps touch nothing but the mainline's own state.       *)
LEMMA WaitStep ==
  ASSUME Inv, sleep_test \/ sleep_hlt \/ other_irq \/ \E ticks \in SleepTicks : sleep(ticks)
  PROVE  Inv'
<1>1. main \in MainType  BY DEF Inv, TypeOK, MainType
<1>2. main' \in MainType /\ main'.pc \notin {"create", "destroy"}
  <2>1. CASE sleep_test  BY <1>1, <2>1, IdleType DEF sleep_test, MainType
  <2>2. CASE sleep_hlt  BY <1>1, <2>2 DEF sleep_hlt, MainType
  <2>3. CASE other_irq  BY <1>1, <2>3 DEF other_irq, WokenUp, MainType
  <2>4. ASSUME NEW ticks \in SleepTicks, sleep(ticks)
        PROVE  main' \in MainType /\ main'.pc \notin {"create", "destroy"}
    BY <2>4, SleepTicksAssumption DEF sleep, Idle, MainType
  <2>5. QED  BY <2>1, <2>2, <2>3, <2>4
<1>3. UNCHANGED <<listVars, next_pid, current_task, zombies, tickVars, boot>>
  BY DEF sleep_test, sleep_hlt, other_irq, sleep
<1>4. QED  BY <1>2, <1>3, QuietMain DEF listVars, tickVars, Inv, TypeOK

(* A tick between any two steps: no walk is disturbed.                     *)
LEMMA TickStep == Inv /\ irq0_handler => Inv'
<1> SUFFICES ASSUME Inv, irq0_handler  PROVE Inv'
  OBVIOUS
<1>1. main \in MainType  BY DEF Inv, TypeOK, MainType
<1>2. /\ main' \in MainType /\ main'.task = main.task /\ main'.curr = main.curr
      /\ main'.pc = main.pc \/ (main.pc = "halted" /\ main'.pc = "test")
  <2> DEFINE w == WokenUp
  <2>1. /\ w \in MainType /\ w.task = main.task /\ w.curr = main.curr
        /\ w.pc = main.pc \/ (main.pc = "halted" /\ w.pc = "test")
    BY <1>1 DEF WokenUp, MainType
  <2>2. main' = [w EXCEPT !.ticks_left = IF w.ticks_left > 0 THEN w.ticks_left - 1 ELSE 0]
    BY DEF irq0_handler
  <2> HIDE DEF w
  <2>3. (IF w.ticks_left > 0 THEN w.ticks_left - 1 ELSE 0) \in Nat
    BY <2>1 DEF MainType
  <2>4. QED  BY <2>1, <2>2, <2>3 DEF MainType
<1>3. ran' \subseteq Pids /\ busy_ticks' \in Nat
  BY MaxPidAssumption DEF irq0_handler, Inv, TypeOK, InitTask, Pids
<1>4. UNCHANGED <<task_list, next, linked, next_pid, current_task, zombies, boot>>
  BY DEF irq0_handler, listVars
<1>5. CASE main.pc \in {"create", "destroy"}
  <2>1. main'.pc = main.pc /\ main'.curr \in linked
    BY <1>2, <1>5 DEF Inv, ListInv, WalkInv
  <2>2. main.pc = "destroy" => \A q \in linked : q <= main'.curr => q # main.task
    BY <1>2 DEF Inv, ListInv, WalkInv
  <2>3. QED  BY <1>2, <1>3, <1>4, <1>5, <2>1, <2>2, WalkOn
<1>6. CASE main.pc \notin {"create", "destroy"}
  <2>1. main'.pc \notin {"create", "destroy"} /\ boot' \in 0 .. 4
    BY <1>2, <1>4, <1>6 DEF Inv, TypeOK
  <2>2. QED  BY <1>2, <1>3, <1>4, <2>1, QuietMain
<1>7. QED  BY <1>5, <1>6

LEMMA NextInv == Inv /\ [Next]_vars => Inv'
<1>1. ASSUME Inv, NEW pid \in DestroyPids, task_destroy(pid)  PROVE Inv'
  BY <1>1, DestroyHeadStep, DestroyStartStep
<1>2. Inv /\ Walk => Inv'
  BY CreateWalkStep, CreateLinkStep, DestroyWalkStep, DestroyUnlinkStep, DestroyNotFoundStep DEF Walk
<1>3. Inv /\ UNCHANGED vars => Inv'
  <2> SUFFICES ASSUME Inv, UNCHANGED vars  PROVE Inv'
    OBVIOUS
  <2>1. TypeOK'  BY DEF Inv, TypeOK, vars, listVars, tickVars
  <2>2. ListInv'
    BY DEF Inv, ListInv, Chained, IsLast, WalkInv, vars, listVars
  <2>3. QED  BY <2>1, <2>2 DEF Inv
<1>4. QED  BY <1>1, <1>2, <1>3, CreateStep, SetCurrentStep, WaitStep, TickStep DEF Next, Wait

(* Inv holds in every state of the scheduler.                              *)
LEMMA InvHolds == Spec => []Inv
BY InitInv, NextInv, PTL DEF Spec

(* Type correctness of the scheduler, for every number of tasks and every  *)
(* pid task_destroy is given: scheduler_tick charges no null task although *)
(* it runs before scheduler_init does.                                     *)
THEOREM TypeCorrect == Spec => []TypeOK
<1>1. Inv => TypeOK  BY DEF Inv
<1>2. QED  BY <1>1, InvHolds, PTL

(* Between any two steps of task_create and task_destroy, wherever a tick  *)
(* falls, the list is the tasks that are alive, from old to young: no task *)
(* is lost, no destroyed one is reachable, no walk runs in a circle.       *)
THEOREM ListAlwaysSound == Spec => []ListInv
<1>1. Inv => ListInv  BY DEF Inv
<1>2. QED  BY <1>1, InvHolds, PTL
-----------------------------------------------------------------------------
(* Induction over the natural numbers.  The library states it for an       *)
(* operator; here it is derived for a set, from the fact that strict       *)
(* inclusion of finite sets is well-founded.                               *)
LEMMA LeastNat ==
  ASSUME NEW T, T \subseteq Nat, T # {}
  PROVE  \E x \in T : \A y \in T : x <= y
<1> DEFINE Down == {1 .. n : n \in T}
<1>1. \A n \in Nat : IsFiniteSet(1 .. n) /\ (1 .. n) \in SUBSET Nat
  BY FS_Interval
<1>2. \A n \in Nat : (1 .. n) \in FiniteSubsetsOf(Nat)
  BY <1>1 DEF FiniteSubsetsOf
<1>3. Down \subseteq FiniteSubsetsOf(Nat) /\ Down # {}
  BY <1>2
<1>4. PICK D \in Down : \A E \in Down : ~ (<<E, D>> \in StrictSubsetOrdering(Nat))
  BY <1>3, WFMin, FS_StrictSubsetOrderingWellFounded
<1>5. PICK x \in T : D = 1 .. x
  OBVIOUS
<1>6. ASSUME NEW y \in T, y < x  PROVE FALSE
  <2>1. x \in 1 .. x /\ x \notin 1 .. y /\ 1 .. y \subseteq 1 .. x
    BY <1>6
  <2>2. <<1 .. y, 1 .. x>> \in StrictSubsetOrdering(Nat)
    BY <1>1, <2>1 DEF StrictSubsetOrdering
  <2>3. QED  BY <1>4, <1>5, <2>2
<1>7. QED  BY <1>6

LEMMA SetInduction ==
  ASSUME NEW S \in SUBSET Nat, 0 \in S, \A n \in S : n + 1 \in S
  PROVE  S = Nat
<1> SUFFICES ASSUME S # Nat  PROVE FALSE
  OBVIOUS
<1>1. PICK x \in Nat \ S : \A y \in Nat \ S : x <= y
  <2>1. Nat \ S # {} /\ Nat \ S \subseteq Nat
    OBVIOUS
  <2>2. QED  BY <2>1, LeastNat
<1>2. x - 1 \in S
  BY <1>1
<1>3. QED  BY <1>1, <1>2
-----------------------------------------------------------------------------
(* The count of the list.                                                  *)

(* A walk's step from the k-th task to the next one.                       *)
After(p) == IF p = 0 THEN 0 ELSE next[p]
Follows(f, n) == f = [k \in 0 .. n |-> IF k = 0 THEN task_list ELSE After(f[k - 1])]

(* The recursion of ListAt has a solution, so ListAt is one.               *)
LEMMA WalksExist ==
  ASSUME TypeOK
  PROVE  \A n \in Nat : \E f \in [0 .. n -> Pids \cup {0}] : Follows(f, n)
<1> DEFINE S == {n \in Nat : \E f \in [0 .. n -> Pids \cup {0}] : Follows(f, n)}
<1>1. 0 \in S
  <2> DEFINE f == [k \in 0 .. 0 |-> task_list]
  <2>1. f \in [0 .. 0 -> Pids \cup {0}] /\ Follows(f, 0)
    BY DEF Follows, TypeOK
  <2>2. QED  BY <2>1
<1>2. ASSUME NEW n \in S  PROVE n + 1 \in S
  <2>1. PICK f \in [0 .. n -> Pids \cup {0}] : Follows(f, n)
    OBVIOUS
  <2> DEFINE g == [k \in 0 .. n + 1 |-> IF k <= n THEN f[k] ELSE After(f[n])]
  <2>2. g \in [0 .. n + 1 -> Pids \cup {0}]
    BY DEF After, TypeOK
  <2>3. ASSUME NEW k \in 0 .. n + 1
        PROVE  g[k] = IF k = 0 THEN task_list ELSE After(g[k - 1])
    <3>1. CASE k <= n  BY <2>1, <3>1 DEF Follows
    <3>2. CASE k = n + 1  BY <2>1, <3>2 DEF Follows
    <3>3. QED  BY <3>1, <3>2
  <2>4. Follows(g, n + 1)
    BY <2>3 DEF Follows
  <2>5. QED  BY <2>2, <2>4
<1> HIDE DEF S
<1>3. S = Nat
  BY <1>1, <1>2, SetInduction DEF S
<1>4. QED  BY <1>3 DEF S

LEMMA ListAtStep ==
  ASSUME TypeOK
  PROVE  /\ ListAt[0] = task_list
         /\ \A k \in Nat : k + 1 <= MaxPid => ListAt[k + 1] = After(ListAt[k])
<1>1. \E f : Follows(f, MaxPid)
  BY WalksExist, MaxPidAssumption
<1>2. Follows(CHOOSE f : Follows(f, MaxPid), MaxPid)
  BY <1>1
<1>3. Follows(ListAt, MaxPid)
  BY <1>2 DEF ListAt, Follows, After
<1>4. QED  BY <1>3, MaxPidAssumption DEF Follows

(* Up to its k-th task the walk met tasks of the list from old to young,   *)
(* and left out none.                                                      *)
InOrder(k) ==
  /\ \A j \in 0 .. k : ListAt[j] \in linked \cup {0}
  /\ ListAt[k] # 0 => ListAt[k] > k
  /\ \A j \in 0 .. k : j < k /\ ListAt[k] # 0 => ListAt[j] # 0 /\ ListAt[j] < ListAt[k]
  /\ \A q \in linked : (\E j \in 0 .. k : ListAt[j] = q) \/ (ListAt[k] # 0 /\ q > ListAt[k])

LEMMA WalkInOrder ==
  ASSUME Inv
  PROVE  \A k \in 0 .. MaxPid : InOrder(k)
<1>0. TypeOK /\ MaxPid \in Nat /\ linked \subseteq Nat /\ 0 \notin linked
  BY MaxPidAssumption DEF Inv, TypeOK, Pids
<1>9. \A x \in linked \cup {0} : x \in Nat
  BY <1>0
<1> DEFINE S == {k \in Nat : k <= MaxPid => InOrder(k)}
<1>1. 0 \in S
  <2>1. ListAt[0] = task_list /\ task_list \in linked \cup {0}
    BY <1>0, ListAtStep DEF Inv, ListInv, Chained
  <2>2. \A q \in linked : q = task_list \/ (task_list # 0 /\ q > task_list)
    BY <1>0, <2>1 DEF Inv, ListInv, Chained
  <2>3. InOrder(0)
    BY <1>0, <2>1, <2>2 DEF InOrder
  <2>4. QED  BY <2>3
<1>2. ASSUME NEW k \in S  PROVE k + 1 \in S
  <2> SUFFICES ASSUME k + 1 <= MaxPid  PROVE InOrder(k + 1)
    OBVIOUS
  <2> DEFINE p == ListAt[k]
             r == ListAt[k + 1]
  <2>1. InOrder(k) /\ r = After(p)
    BY <1>0, ListAtStep
  <2>2. k \in 0 .. k /\ k + 1 \in 0 .. k + 1 /\ \A j \in 0 .. k + 1 : j \in 0 .. k \/ j = k + 1
    OBVIOUS
  <2>3. p \in linked \cup {0} /\ (p # 0 => p > k)
    BY <2>1, <2>2 DEF InOrder
  <2>4. CASE p = 0
    <3>1. r = 0
      BY <2>1, <2>4 DEF After
    <3>2. \A q \in linked : \E j \in 0 .. k + 1 : ListAt[j] = q
      BY <2>1, <2>4 DEF InOrder
    <3>3. \A j \in 0 .. k + 1 : ListAt[j] \in linked \cup {0}
      BY <2>1, <2>2, <3>1 DEF InOrder
    <3>4. QED  BY <3>1, <3>2, <3>3 DEF InOrder
  <2>5. CASE p # 0
    <3>1. /\ r = next[p]
          /\ \/ r = 0 /\ \A q \in linked : q <= p
             \/ r \in linked /\ p < r /\ \A q \in linked : q <= p \/ r <= q
      BY <2>1, <2>3, <2>5 DEF After, Inv, ListInv, Chained, IsLast
    <3>2. /\ k \in Nat /\ p \in Nat /\ r \in Nat
          /\ r = 0 \/ p < r
          /\ r # 0 => r > k + 1
      <4>1. k \in Nat
        OBVIOUS
      <4> HIDE DEF S, p, r
      <4>2. p \in Nat
        BY <1>0, <2>3
      <4>3. r \in linked \cup {0} /\ (r = 0 \/ p < r)
        BY <3>1, Zenon
      <4>4. r \in Nat
        BY <1>9, <4>3, Zenon
      <4>5. QED  BY <2>3, <2>5, <4>1, <4>2, <4>3, <4>4
    <3>3. \A j \in 0 .. k + 1 : ListAt[j] \in linked \cup {0}
      BY <2>1, <2>2, <3>1 DEF InOrder
    <3>4. ASSUME NEW j \in 0 .. k + 1, j < k + 1, r # 0
          PROVE  ListAt[j] # 0 /\ ListAt[j] < r
      <4>0. p < r
        BY <3>2, <3>4
      <4>1. ListAt[j] \in Nat
        BY <1>9, <3>3, Zenon
      <4>2. CASE j = k  BY <2>5, <4>0, <4>2
      <4>3. CASE j < k
        <5>1. j \in 0 .. k
          BY <4>3
        <5>2. ListAt[j] # 0 /\ ListAt[j] < p
          BY <2>1, <2>5, <4>3, <5>1 DEF InOrder
        <5>3. QED  BY <3>2, <4>0, <4>1, <5>2
      <4>4. QED  BY <3>4, <4>2, <4>3
    <3>5. ASSUME NEW q \in linked
          PROVE  (\E j \in 0 .. k + 1 : ListAt[j] = q) \/ (r # 0 /\ q > r)
      <4>1. CASE \E j \in 0 .. k : ListAt[j] = q  BY <4>1
      <4>2. CASE q > p
        <5>1. ~(q <= p) /\ q \in Nat
          BY <1>0, <3>2, <4>2
        <5>2. r \in linked /\ r <= q
          BY <3>1, <5>1
        <5>3. q = r \/ q > r
          BY <3>2, <5>1, <5>2
        <5>4. QED  BY <1>0, <2>2, <5>2, <5>3
      <4>3. QED  BY <2>1, <4>1, <4>2 DEF InOrder
    <3>6. QED  BY <3>2, <3>3, <3>4, <3>5 DEF InOrder
  <2>6. QED  BY <2>4, <2>5
<1> HIDE DEF S
<1>3. S = Nat
  BY <1>1, <1>2, SetInduction DEF S
<1>4. QED  BY <1>3 DEF S

(* A destroyed task is not on the list and was created before the next one *)
(* will be.                                                                *)
ZombieInv ==
  \A p \in zombies : p < next_pid /\ p \notin linked /\ (main.pc = "create" => p # main.task)

LEMMA NextZombieInv == Inv /\ ZombieInv /\ [Next]_vars => ZombieInv'
<1> SUFFICES ASSUME Inv, ZombieInv, [Next]_vars  PROVE ZombieInv'
  OBVIOUS
<1>0. /\ next_pid \in Nat /\ zombies \subseteq Nat /\ linked \subseteq Nat
      /\ \A p \in linked : p < next_pid
      /\ main.pc = "create" => main.task = next_pid - 1 /\ main.task \notin linked
  BY DEF Inv, TypeOK, ListInv, WalkInv, Pids
<1>1. CASE task_create
  <2>1. /\ zombies' = zombies /\ next_pid' = next_pid + 1
        /\ linked' \subseteq linked \cup {next_pid}
        /\ main'.pc = "create" => main'.task = next_pid
    BY <1>1 DEF task_create, Created, Idle, At
  <2>2. QED  BY <1>0, <2>1 DEF ZombieInv
<1>2. CASE create_link
  <2>1. /\ zombies' = zombies /\ next_pid' = next_pid /\ main.pc = "create"
        /\ linked' = linked \cup {main.task} /\ main'.pc = "idle"
    BY <1>2 DEF create_link, Created, Idle
  <2>2. QED  BY <1>0, <2>1 DEF ZombieInv
<1>3. CASE \E pid \in DestroyPids : task_destroy(pid)
  <2>1. PICK pid \in DestroyPids : task_destroy(pid)
    BY <1>3
  <2>2. /\ next_pid' = next_pid /\ main'.pc # "create"
        /\ \/ zombies' = zombies /\ linked' = linked
           \/ task_list = pid /\ zombies' = zombies \cup {pid} /\ linked' = linked \ {pid}
    BY <2>1 DEF task_destroy, At
  <2>3. task_list # 0 => task_list \in linked
    BY HeadFacts
  <2>4. task_list # 0
    BY <2>1 DEF task_destroy
  <2>5. QED  BY <1>0, <2>2, <2>3, <2>4 DEF ZombieInv
<1>4. CASE destroy_unlink
  <2>1. /\ zombies' = zombies \cup {main.task} /\ linked' = linked \ {main.task}
        /\ next_pid' = next_pid /\ main'.pc = "idle" /\ main.task \in linked
    BY <1>4 DEF destroy_unlink, Idle, Inv, ListInv, WalkInv, Chained
  <2>2. QED  BY <1>0, <2>1 DEF ZombieInv
<1>5. CASE \/ create_walk \/ destroy_walk \/ destroy_not_found \/ Wait \/ set_current
           \/ irq0_handler \/ other_irq \/ UNCHANGED vars
           \/ \E ticks \in SleepTicks : sleep(ticks)
  <2>0. main \in MainType
    BY DEF Inv, TypeOK, MainType
  <2>1. UNCHANGED <<zombies, linked, next_pid>>
    BY <1>5 DEF create_walk, destroy_walk, destroy_not_found, Wait, set_current, irq0_handler,
       other_irq, vars, listVars, sleep, sleep_test, sleep_hlt
  <2>2. main'.pc = "create" => main.pc = "create" /\ main'.task = main.task
    <3>1. CASE destroy_not_found
      BY <3>1 DEF destroy_not_found, Idle
    <3>2. CASE create_walk \/ destroy_walk
      <4>1. main' = [main EXCEPT !.curr = next[main.curr]]
        BY <3>2 DEF create_walk, destroy_walk
      <4>2. main'.pc = main.pc /\ main'.task = main.task
        BY <2>0, <4>1 DEF MainType
      <4>3. QED  BY <4>2
    <3>3. CASE Wait
      BY <2>0, <3>3 DEF Wait, sleep_test, sleep_hlt, Idle, MainType
    <3>4. CASE \E ticks \in SleepTicks : sleep(ticks)
      BY <3>4 DEF sleep, Idle
    <3>5. CASE set_current \/ UNCHANGED vars
      BY <3>5 DEF set_current, vars
    <3>6. CASE irq0_handler \/ other_irq
      BY <2>0, <3>6 DEF irq0_handler, other_irq, WokenUp, MainType
    <3>7. QED  BY <1>5, <3>1, <3>2, <3>3, <3>4, <3>5, <3>6
  <2>3. QED  BY <2>1, <2>2 DEF ZombieInv
<1>6. QED  BY <1>1, <1>2, <1>3, <1>4, <1>5 DEF Next, Walk

(* The walk of task_get_count meets each task of the list once.            *)
LEMMA CountOfList ==
  ASSUME Inv, ZombieInv
  PROVE  CountIsExact
<1> DEFINE K == {k \in 0 .. MaxPid : ListAt[k] # 0 /\ ListAt[k] \notin zombies}
           f == [k \in K |-> ListAt[k]]
<1>1. /\ MaxPid \in Nat
      /\ \A p \in linked : p \in Nat /\ p <= MaxPid /\ p # 0 /\ p \notin zombies
  BY MaxPidAssumption DEF Inv, TypeOK, Pids, ZombieInv
<1>2. \A k \in 0 .. MaxPid : InOrder(k)
  BY WalkInOrder
<1>3. \A k \in 0 .. MaxPid : ListAt[k] \in linked \cup {0}
  BY <1>1, <1>2 DEF InOrder
<1>4. ListAt[MaxPid] = 0
  <2>1. ListAt[MaxPid] \in linked => ListAt[MaxPid] \in Nat /\ ListAt[MaxPid] <= MaxPid
    BY <1>1
  <2>2. MaxPid \in 0 .. MaxPid
    BY <1>1
  <2>3. ListAt[MaxPid] # 0 => ListAt[MaxPid] \in linked /\ ListAt[MaxPid] > MaxPid
    BY <1>2, <1>3, <2>2 DEF InOrder
  <2>4. QED  BY <1>1, <2>1, <2>3
<1>5. f \in [K -> linked]
  <2>1. \A k \in K : ListAt[k] \in linked
    BY <1>3, Zenon
  <2>2. QED  BY <2>1
<1>6. ASSUME NEW j \in K, NEW k \in K, f[j] = f[k]  PROVE j = k
  <2>1. \A m \in K : ListAt[m] \in linked /\ f[m] = ListAt[m]
    BY <1>5, Zenon
  <2>2. ASSUME NEW m \in K, NEW n \in K, m < n  PROVE ListAt[m] < ListAt[n]
    <3>1. m \in 0 .. n /\ ListAt[n] # 0 /\ InOrder(n)
      BY <1>2, <2>2
    <3>2. QED  BY <2>2, <3>1 DEF InOrder
  <2>3. ListAt[j] = ListAt[k] /\ ListAt[j] \in Nat
    BY <1>1, <1>6, <2>1, Zenon
  <2>4. ~(j < k) /\ ~(k < j)
    BY <2>2, <2>3
  <2>5. QED  BY <1>1, <2>4
<1>7. ASSUME NEW q \in linked  PROVE \E k \in K : f[k] = q
  <2>1. PICK k \in 0 .. MaxPid : ListAt[k] = q
    BY <1>1, <1>2, <1>4 DEF InOrder
  <2>2. QED  BY <1>1, <2>1
<1>8. f \in Bijection(K, linked)
  BY <1>5, <1>6, <1>7 DEF Bijection, Injection, Surjection, IsInjective
<1>9. IsFiniteSet(K)
  <2>1. IsFiniteSet(0 .. MaxPid) /\ K \in SUBSET (0 .. MaxPid)
    BY <1>1, FS_Interval
  <2>2. QED  BY <2>1, FS_Subset
<1>10. ExistsBijection(K, linked)
  BY <1>8 DEF ExistsBijection
<1>11. Cardinality(K) = Cardinality(linked)
  BY <1>9, <1>10, FS_Bijection
<1>12. QED  BY <1>11 DEF CountIsExact, task_get_count

(* task_get_count, a walk over the next fields, gives the number of tasks  *)
(* that were created and not destroyed, at every moment of every creation  *)
(* and destruction and for every number of tasks.                          *)
THEOREM CountAlwaysExact == Spec => []CountIsExact
<1>1. Init => ZombieInv
  BY DEF Init, ZombieInv
<1>2. Spec => []ZombieInv
  BY <1>1, NextZombieInv, InvHolds, PTL DEF Spec
<1>3. QED  BY <1>2, InvHolds, CountOfList, PTL
-----------------------------------------------------------------------------
(* The composition: whatever a walk does, it is a step of that walk, and a *)
(* stutter of the others.                                                  *)
LEMMA OnlyOneWalks ==
  /\ MCSpec => Spec
  /\ MCSpec => Clock!Spec
  /\ MCSpec => Figures!Spec
  /\ MCSpec => Keys!Spec
<1>1. MCInit => Init /\ Clock!Init /\ Figures!Init /\ Keys!Init
  BY DEF MCInit
<1>2. [MCNext]_mcVars => [Next]_vars
  BY DEF MCNext, mcVars, RestOfTasks, RestOfClock, RestOfFigures, RestOfKeys
<1>3. [MCNext]_mcVars => [Clock!Next]_(Clock!vars)
  BY DEF MCNext, mcVars, RestOfTasks, RestOfClock, RestOfFigures, RestOfKeys, clockVars,
     Clock!vars, Clock!clock
<1>4. [MCNext]_mcVars => [Figures!Next]_(Figures!vars)
  BY DEF MCNext, mcVars, RestOfTasks, RestOfClock, RestOfFigures, RestOfKeys, figureVars,
     Figures!vars, Figures!counters, Figures!usage, Figures!line
<1>5. [MCNext]_mcVars => [Keys!Next]_(Keys!vars)
  BY DEF MCNext, mcVars, RestOfTasks, RestOfClock, RestOfFigures, RestOfKeys, keyVars,
     Keys!vars, Keys!modifiers
<1>6. QED  BY <1>1, <1>2, <1>3, <1>4, <1>5, PTL DEF MCSpec, Spec, Clock!Spec, Figures!Spec, Keys!Spec
-----------------------------------------------------------------------------
(* The keys.  Every key that was taken is older than the one in the        *)
(* mailbox and than the one the loop has loaded and not yet handed on; and *)
(* what arrives between the clearing and the handing on is younger still.  *)
TypedKey == [char : Keys!Pressed, alt : BOOLEAN, ctrl : BOOLEAN]
TakenKey(n) == [key : 1 .. n, by : {"app", "switcher", "nobody"}, ctrl : BOOLEAN, switching : BOOLEAN]
Loaded == loop_pc \in {"alt_clear", "clear", "handle"} /\ key # 0

KeyOrder ==
  /\ \A i \in 1 .. Len(taken) : last_key # 0 => taken[i].key < last_key
  /\ \A i \in 1 .. Len(taken) : Loaded => taken[i].key < key
  /\ loop_pc = "handle" /\ Loaded /\ last_key # 0 => key < last_key
KeysInv == Keys!TypeOK /\ Keys!TakenOnceInOrder /\ KeyOrder

LEMMA SeqWiden ==
  ASSUME NEW A, NEW B, A \subseteq B, NEW q \in Seq(A)
  PROVE  q \in Seq(B)
OBVIOUS

LEMMA KeyTypes ==
  ASSUME KeysInv
  PROVE  /\ Len(typed) \in Nat /\ Len(taken) \in Nat
         /\ last_key \in Nat /\ key \in Nat /\ last_key <= Len(typed) /\ key <= Len(typed)
         /\ typed \in Seq(TypedKey) /\ taken \in Seq(TakenKey(Len(typed)))
         /\ \A i \in 1 .. Len(taken) : taken[i].key \in Nat /\ taken[i].key <= Len(typed)
<1>1. /\ typed \in Seq(TypedKey) /\ taken \in Seq(TakenKey(Len(typed)))
      /\ last_key \in 0 .. Len(typed) /\ key \in 0 .. Len(typed)
  BY DEF KeysInv, Keys!TypeOK, TypedKey, TakenKey
<1>2. \A i \in 1 .. Len(taken) : taken[i] \in TakenKey(Len(typed))
  BY <1>1
<1>3. Len(typed) \in Nat /\ Len(taken) \in Nat
  BY <1>1
<1>4. \A i \in 1 .. Len(taken) : taken[i].key \in Nat /\ taken[i].key <= Len(typed)
  BY <1>2, <1>3 DEF TakenKey
<1>5. QED  BY <1>1, <1>3, <1>4

LEMMA KeysInit == Keys!Init => KeysInv
<1> SUFFICES ASSUME Keys!Init  PROVE KeysInv
  OBVIOUS
<1>1. typed = <<>> /\ taken = <<>> /\ Len(typed) = 0 /\ Len(taken) = 0
  BY DEF Keys!Init
<1>2. \A A : <<>> \in Seq(A)
  OBVIOUS
<1>3. Keys!TypeOK
  <2>1. typed \in Seq(TypedKey) /\ taken \in Seq(TakenKey(Len(typed)))
    BY <1>1, <1>2
  <2>2. last_key \in 0 .. Len(typed) /\ key \in 0 .. Len(typed)
    BY <1>1 DEF Keys!Init
  <2>3. QED  BY <2>1, <2>2 DEF Keys!Init, Keys!TypeOK, TypedKey, TakenKey
<1>4. KeyOrder /\ Keys!TakenOnceInOrder
  BY <1>1 DEF KeyOrder, Keys!TakenOnceInOrder, Keys!Init
<1>5. QED  BY <1>3, <1>4 DEF KeysInv

LEMMA KeyTypedStep ==
  ASSUME KeysInv, NEW c \in Keys!Pressed, Keys!key_typed(c)
  PROVE  KeysInv'
<1> DEFINE t == [char |-> c, alt |-> alt_pressed, ctrl |-> ctrl_pressed]
           n == Len(typed)
<1>1. /\ typed' = Append(typed, t) /\ last_key' \in {0, n + 1}
      /\ UNCHANGED <<alt_pressed, ctrl_pressed, loop_pc, key, task_switcher_visible, taken>>
  BY DEF Keys!key_typed, Keys!modifiers
<1>2. t \in TypedKey
  BY DEF KeysInv, Keys!TypeOK, TypedKey
<1>3. typed' \in Seq(TypedKey) /\ Len(typed') = n + 1
  BY <1>1, <1>2, KeyTypes
<1>4. taken' \in Seq(TakenKey(n + 1))
  <2>1. TakenKey(n) \subseteq TakenKey(n + 1)
    BY KeyTypes DEF TakenKey
  <2>2. QED  BY <1>1, <2>1, KeyTypes, SeqWiden
<1>5. Keys!TypeOK'
  BY <1>1, <1>3, <1>4, KeyTypes DEF KeysInv, Keys!TypeOK, TypedKey, TakenKey
<1>6. KeyOrder'
  BY <1>1, KeyTypes DEF KeysInv, KeyOrder, Loaded
<1>7. QED  BY <1>1, <1>5, <1>6 DEF KeysInv, Keys!TakenOnceInOrder

(* A reader hands the key it has loaded on.                                *)
LEMMA TookStep ==
  ASSUME KeysInv, loop_pc \in {"alt_clear", "handle"},
         NEW whom \in {"app", "switcher", "nobody"}, taken' = Keys!Took(whom),
         UNCHANGED <<alt_pressed, ctrl_pressed, key, task_switcher_visible, typed>>,
         \/ loop_pc = "alt_clear" /\ loop_pc' = "read" /\ last_key' = 0
         \/ loop_pc = "handle" /\ loop_pc' = "draw" /\ last_key' = last_key
  PROVE  KeysInv'
<1>1. CASE key = 0
  <2>1. taken' = taken
    BY <1>1 DEF Keys!Took
  <2>2. Keys!TypeOK' /\ Keys!TakenOnceInOrder'
    BY <2>1 DEF KeysInv, Keys!TypeOK, Keys!TakenOnceInOrder
  <2>3. KeyOrder'
    BY <2>1 DEF KeysInv, KeyOrder, Loaded
  <2>4. QED  BY <2>2, <2>3 DEF KeysInv
<1>2. CASE key # 0
  <2> DEFINE r == [key |-> key, by |-> whom, ctrl |-> ctrl_pressed,
                   switching |-> alt_pressed /\ task_switcher_visible]
             n == Len(taken)
  <2>1. taken' = Append(taken, r) /\ Loaded
    BY <1>2 DEF Keys!Took, Loaded
  <2>2. r \in TakenKey(Len(typed)) /\ r.key = key
    <3>1. key \in 1 .. Len(typed)
      BY <1>2, KeyTypes
    <3>2. QED  BY <3>1 DEF KeysInv, Keys!TypeOK, TakenKey
  <2> HIDE DEF r
  <2>3. /\ taken' \in Seq(TakenKey(Len(typed))) /\ Len(taken') = n + 1
        /\ taken'[n + 1] = r /\ \A i \in 1 .. n : taken'[i] = taken[i]
    BY <2>1, <2>2, KeyTypes
  <2>4. Keys!TypeOK'
    BY <2>3, KeyTypes DEF KeysInv, Keys!TypeOK, TypedKey, TakenKey
  <2>5. \A i \in 1 .. n : taken[i].key < key
    BY <2>1 DEF KeysInv, KeyOrder
  <2>6. \A i \in 1 .. n + 1 : taken'[i].key <= key
    BY <2>2, <2>3, <2>5, KeyTypes
  <2>7. Keys!TakenOnceInOrder'
    <3> SUFFICES ASSUME NEW i \in 1 .. n + 1, NEW j \in 1 .. n + 1, i < j
                 PROVE  taken'[i].key < taken'[j].key
      BY <2>3 DEF Keys!TakenOnceInOrder
    <3>1. CASE j = n + 1
      BY <2>2, <2>3, <2>5, <3>1, KeyTypes
    <3>2. CASE j \in 1 .. n
      BY <2>3, <3>2, KeyTypes DEF KeysInv, Keys!TakenOnceInOrder
    <3>3. n \in Nat
      BY KeyTypes
    <3> HIDE DEF n
    <3>4. QED  BY <3>1, <3>2, <3>3
  <2>8. KeyOrder'
    <3>1. ~Loaded'
      BY DEF Loaded
    <3>2. last_key' # 0 => key < last_key'
      BY <2>1 DEF KeysInv, KeyOrder
    <3>3. last_key' \in Nat
      BY KeyTypes
    <3>4. \A i \in 1 .. n + 1 : last_key' # 0 => taken'[i].key < last_key'
      <4> SUFFICES ASSUME NEW i \in 1 .. n + 1, last_key' # 0  PROVE taken'[i].key < last_key'
        OBVIOUS
      <4>1. taken'[i].key \in Nat /\ taken'[i].key <= key
        <5>1. CASE i = n + 1  BY <2>2, <2>3, <5>1, KeyTypes
        <5>2. CASE i \in 1 .. n  BY <2>3, <2>6, <5>2, KeyTypes
        <5>3. QED  BY <5>1, <5>2, KeyTypes
      <4>2. QED  BY <3>2, <3>3, <4>1, KeyTypes
    <3>5. QED  BY <2>3, <3>1, <3>4 DEF KeyOrder, Loaded
  <2>9. QED  BY <2>4, <2>7, <2>8 DEF KeysInv
<1>3. QED  BY <1>1, <1>2

LEMMA KeysNext == KeysInv /\ [Keys!Next]_(Keys!vars) => KeysInv'
<1> SUFFICES ASSUME KeysInv, [Keys!Next]_(Keys!vars)  PROVE KeysInv'
  OBVIOUS
<1>1. ASSUME NEW c \in Keys!Pressed, Keys!key_typed(c)  PROVE KeysInv'
  BY <1>1, KeyTypedStep
<1>2. CASE Keys!alt_key \/ Keys!ctrl_key \/ UNCHANGED Keys!vars
  BY <1>2 DEF Keys!alt_key, Keys!ctrl_key, Keys!vars, Keys!modifiers, KeysInv, Keys!TypeOK,
     Keys!TakenOnceInOrder, KeyOrder, Loaded
<1>3. CASE Keys!sample_alt \/ Keys!draw
  BY <1>3 DEF Keys!sample_alt, Keys!draw, Keys!modifiers, KeysInv, Keys!TypeOK,
     Keys!TakenOnceInOrder, KeyOrder, Loaded
<1>4. CASE Keys!ps2_get_last_key_read
  BY <1>4 DEF Keys!ps2_get_last_key_read, Keys!modifiers, KeysInv, Keys!TypeOK,
     Keys!TakenOnceInOrder, KeyOrder, Loaded
<1>5. CASE Keys!ps2_get_last_key_clear
  BY <1>5 DEF Keys!ps2_get_last_key_clear, Keys!modifiers, KeysInv, Keys!TypeOK,
     Keys!TakenOnceInOrder, KeyOrder, Loaded
<1>6. CASE Keys!switcher
  BY <1>6, TookStep DEF Keys!switcher, Keys!modifiers
<1>7. CASE \E open \in BOOLEAN : Keys!dispatch(open)
  BY <1>7, TookStep DEF Keys!dispatch, Keys!modifiers
<1>8. QED  BY <1>1, <1>2, <1>3, <1>4, <1>5, <1>6, <1>7 DEF Keys!Next, Keys!Interrupts, Keys!Pass

(* No key acts twice and none overtakes another, however many are pressed  *)
(* and wherever the keyboard's interrupts fall between the load, the       *)
(* clearing and the handling of ps2_get_last_key's two readers.            *)
THEOREM KeysTakenOnceInOrder == MCSpec => []TakenOnceInOrder
<1>1. Keys!Spec => []KeysInv
  BY KeysInit, KeysNext, PTL DEF Keys!Spec
<1>2. KeysInv => TakenOnceInOrder
  BY DEF KeysInv, TakenOnceInOrder
<1>3. QED  BY <1>1, <1>2, OnlyOneWalks, PTL
-----------------------------------------------------------------------------
(* The figures.  Once the scheduler runs every tick is idle, so the number *)
(* of busy ticks stays; a counter that is read later is only larger.       *)
Busy == kernel_ticks - idle_ticks

FigureTypes ==
  /\ Figures!TypeOK
  /\ idle_ticks <= kernel_ticks
  /\ scheduled \in BOOLEAN /\ (scheduled <=> htop_pc # "boot")
UsageInv ==
  /\ htop_pc = "total" => total <= kernel_ticks
  /\ htop_pc = "idle" => total - idle <= Busy
  /\ htop_pc \in {"boot", "loop", "args", "shown"} /\ total > 0 => cpu_usage * total <= 100 * Busy
LineInv ==
  /\ htop_pc # "args" => s = -1 /\ ms = -1
  /\ ~(s = -1 /\ ms = -1) => began <= kernel_ticks
  /\ s # -1 => /\ s * TicksPerSecond <= kernel_ticks
               /\ s * TicksPerSecond > began - TicksPerSecond
  /\ ms # -1 => ms < TicksPerSecond
FiguresInv == FigureTypes /\ UsageInv /\ LineInv /\ Figures!UptimeWithinSecond

LEMMA DivMod ==
  ASSUME NEW x \in Nat, NEW a \in Nat \ {0}
  PROVE  /\ x % a \in Nat /\ x % a < a /\ x \div a \in Nat
         /\ (x \div a) * a <= x /\ (x \div a) * a > x - a
         /\ x % a <= x
<1>1. /\ x % a \in Nat /\ x % a < a /\ x \div a \in Nat
      /\ x = a * (x \div a) + (x % a)
  BY SMT
<1>2. a * (x \div a) = (x \div a) * a /\ a * (x \div a) \in Nat
  BY <1>1, SMT
<1>3. QED  BY <1>1, <1>2

LEMMA ProductMonotone ==
  ASSUME NEW x \in Nat, NEW y \in Nat, NEW a \in Nat, x <= y
  PROVE  x * a <= y * a /\ x * a \in Nat /\ y * a \in Nat
BY SMT

(* The counters and the arguments as numbers.                              *)
LEMMA FigureFacts ==
  ASSUME FiguresInv
  PROVE  /\ kernel_ticks \in Nat /\ idle_ticks \in Nat /\ Busy \in Nat
         /\ total \in Nat /\ idle \in Nat /\ shown \in Nat /\ began \in Nat
         /\ s \in Nat \cup {-1} /\ ms \in Nat \cup {-1}
         /\ cpu_usage \in 0 .. 100 /\ cpu_usage \in Nat
         /\ TicksPerSecond \in Nat \ {0}
<1>1. /\ kernel_ticks \in Nat /\ idle_ticks \in Nat
      /\ total \in Nat /\ idle \in Nat /\ shown \in Nat /\ began \in Nat
      /\ s \in Nat \cup {-1} /\ ms \in Nat \cup {-1}
      /\ cpu_usage \in 0 .. 100 /\ idle_ticks <= kernel_ticks
  BY DEF FiguresInv, FigureTypes, Figures!TypeOK
<1>2. TicksPerSecond \in Nat \ {0}
  BY FiguresAssumption DEF Figures!SizesOK
<1>3. QED  BY <1>1, <1>2 DEF Busy

LEMMA FiguresInit == Figures!Init => FiguresInv
<1> SUFFICES ASSUME Figures!Init  PROVE FiguresInv
  OBVIOUS
<1>1. FigureTypes
  <2>1. /\ {kernel_ticks, idle_ticks, total, idle, shown, began} \subseteq Nat
        /\ {s, ms} \subseteq Nat \cup {-1} /\ cpu_usage \in 0 .. 100
    BY DEF Figures!Init
  <2>2. htop_pc = "boot" /\ scheduled = FALSE /\ idle_ticks <= kernel_ticks
    BY DEF Figures!Init
  <2>3. QED  BY <2>1, <2>2 DEF FigureTypes, Figures!TypeOK
<1>2. UsageInv /\ LineInv /\ Figures!UptimeWithinSecond
  BY DEF Figures!Init, UsageInv, LineInv, Figures!UptimeWithinSecond
<1>3. QED  BY <1>1, <1>2 DEF FiguresInv

LEMMA FigureTickStep == FiguresInv /\ Figures!irq0_handler => FiguresInv'
<1> SUFFICES ASSUME FiguresInv, Figures!irq0_handler  PROVE FiguresInv'
  OBVIOUS
<1>1. /\ kernel_ticks' = kernel_ticks + 1
      /\ idle_ticks' = IF scheduled THEN idle_ticks + 1 ELSE idle_ticks
      /\ UNCHANGED <<scheduled, htop_pc, total, idle, cpu_usage, s, ms, began, shown>>
  BY DEF Figures!irq0_handler, Figures!usage, Figures!line
<1>2. kernel_ticks' \in Nat /\ idle_ticks' \in Nat /\ idle_ticks' <= kernel_ticks'
  BY <1>1, FigureFacts DEF FiguresInv, FigureTypes
<1>3. FigureTypes'
  BY <1>1, <1>2 DEF FiguresInv, FigureTypes, Figures!TypeOK
<1>4. UsageInv'
  <2>1. Busy' \in Nat /\ Busy <= Busy'
    BY <1>1, FigureFacts DEF Busy
  <2>2. 100 * Busy <= 100 * Busy'
    BY <2>1, FigureFacts
  <2>3. cpu_usage * total \in Nat
    BY FigureFacts, ProductMonotone
  <2>4. QED  BY <1>1, <2>1, <2>2, <2>3, FigureFacts DEF FiguresInv, UsageInv, Busy
<1>5. LineInv'
  <2>1. s # -1 => s * TicksPerSecond \in Nat
    BY FigureFacts, ProductMonotone
  <2>2. QED  BY <1>1, <2>1, FigureFacts DEF FiguresInv, LineInv
<1>6. Figures!UptimeWithinSecond'
  BY <1>1, FigureFacts DEF FiguresInv, Figures!UptimeWithinSecond
<1>7. QED  BY <1>3, <1>4, <1>5, <1>6 DEF FiguresInv

(* The percentage times the total is at most a hundred times the busy      *)
(* ticks, though idle is read after total and the difference wraps.        *)
LEMMA PercentBound ==
  ASSUME FiguresInv, htop_pc = "idle", total > 0, total >= idle
  PROVE  /\ Figures!AtMost100(Figures!Percent) \in 0 .. 100
         /\ Figures!AtMost100(Figures!Percent) * total <= 100 * Busy
<1> DEFINE d == total - idle
           u == d % 65536
           p == (u * 100) \div total
<1>1. d \in Nat /\ d <= Busy /\ total \in Nat \ {0}
  BY FigureFacts DEF FiguresInv, UsageInv
<1>2. u \in Nat /\ u <= d
  <2>1. \A x \in Nat : x % 65536 \in Nat /\ x % 65536 <= x
    BY SMT
  <2> HIDE DEF d
  <2>2. QED  BY <1>1, <2>1
<1>3. u * 100 \in Nat /\ u * 100 <= 100 * Busy
  <2> HIDE DEF d, u
  <2>1. QED  BY <1>1, <1>2, FigureFacts
<1>4. p \in Nat /\ p * total <= u * 100
  <2> DEFINE w == u * 100
  <2>1. w \in Nat
    BY <1>3
  <2> HIDE DEF w
  <2>2. w \div total \in Nat /\ (w \div total) * total <= w
    BY <1>1, <2>1, DivMod
  <2>3. QED  BY <2>2 DEF w
<1>5. 2^16 = 65536
  OBVIOUS
<1>6. Figures!Percent = p
  BY <1>5 DEF Figures!Percent, Figures!Unsigned
<1> DEFINE q == Figures!AtMost100(Figures!Percent)
<1>7. q \in 0 .. 100 /\ q <= p
  <2> HIDE DEF p
  <2>1. QED  BY <1>4, <1>6 DEF Figures!AtMost100
<1>8. q * total <= p * total /\ q * total \in Nat /\ p * total \in Nat
  <2> HIDE DEF p, q
  <2>1. QED  BY <1>1, <1>4, <1>7, ProductMonotone
<1> HIDE DEF p, q, u
<1>9. q * total <= 100 * Busy
  BY <1>3, <1>4, <1>8, FigureFacts
<1>10. QED  BY <1>7, <1>9 DEF q

LEMMA FigureUsageStep == FiguresInv /\ Figures!htop_usage => FiguresInv'
<1> SUFFICES ASSUME FiguresInv, Figures!htop_usage  PROVE FiguresInv'
  OBVIOUS
<1>1. /\ htop_pc = "idle" /\ htop_pc' = "args"
      /\ cpu_usage' = IF total > 0 /\ total >= idle THEN Figures!AtMost100(Figures!Percent) ELSE 0
      /\ UNCHANGED <<kernel_ticks, idle_ticks, scheduled, total, idle, s, ms, began, shown>>
  BY DEF Figures!htop_usage, Figures!counters, Figures!line
<1>2. cpu_usage' \in 0 .. 100 /\ (total > 0 => cpu_usage' * total <= 100 * Busy)
  <2>1. CASE total > 0 /\ total >= idle
    BY <1>1, <2>1, PercentBound
  <2>2. CASE ~(total > 0 /\ total >= idle)
    BY <1>1, <2>2, FigureFacts
  <2>3. QED  BY <2>1, <2>2
<1>3. FigureTypes'
  BY <1>1, <1>2 DEF FiguresInv, FigureTypes, Figures!TypeOK
<1>4. UsageInv'
  BY <1>1, <1>2 DEF UsageInv, Busy
<1>5. LineInv' /\ Figures!UptimeWithinSecond'
  BY <1>1 DEF FiguresInv, LineInv, Figures!UptimeWithinSecond
<1>6. QED  BY <1>3, <1>4, <1>5 DEF FiguresInv

(* Reading the counters, opening either window and returning from it.      *)
LEMMA FigureReadStep ==
  ASSUME FiguresInv,
         \/ Figures!scheduler_init \/ Figures!htop_total \/ Figures!htop_idle
         \/ Figures!sysinfo_draw \/ Figures!return \/ UNCHANGED Figures!vars
  PROVE  FiguresInv'
<1> USE DEF Figures!counters, Figures!usage, Figures!line
<1>1. CASE Figures!scheduler_init
  <2>1. FigureTypes'
    BY <1>1 DEF Figures!scheduler_init, FiguresInv, FigureTypes, Figures!TypeOK
  <2>2. UsageInv' /\ LineInv' /\ Figures!UptimeWithinSecond'
    BY <1>1 DEF Figures!scheduler_init, FiguresInv, FigureTypes, UsageInv, LineInv, Busy,
       Figures!UptimeWithinSecond
  <2>3. QED  BY <2>1, <2>2 DEF FiguresInv
<1>2. CASE Figures!htop_total
  <2>1. FigureTypes'
    BY <1>2 DEF Figures!htop_total, FiguresInv, FigureTypes, Figures!TypeOK
  <2>2. UsageInv'
    BY <1>2, FigureFacts DEF Figures!htop_total, UsageInv
  <2>3. LineInv' /\ Figures!UptimeWithinSecond'
    BY <1>2 DEF Figures!htop_total, FiguresInv, LineInv, Figures!UptimeWithinSecond
  <2>4. QED  BY <2>1, <2>2, <2>3 DEF FiguresInv
<1>3. CASE Figures!htop_idle
  <2>1. FigureTypes'
    BY <1>3 DEF Figures!htop_idle, FiguresInv, FigureTypes, Figures!TypeOK
  <2>2. UsageInv'
    BY <1>3, FigureFacts DEF Figures!htop_idle, FiguresInv, UsageInv, Busy
  <2>3. LineInv' /\ Figures!UptimeWithinSecond'
    BY <1>3 DEF Figures!htop_idle, FiguresInv, LineInv, Figures!UptimeWithinSecond
  <2>4. QED  BY <2>1, <2>2, <2>3 DEF FiguresInv
<1>4. CASE Figures!sysinfo_draw \/ Figures!return
  <2>1. FigureTypes'
    BY <1>4 DEF Figures!sysinfo_draw, Figures!return, FiguresInv, FigureTypes, Figures!TypeOK
  <2>2. UsageInv' /\ LineInv' /\ Figures!UptimeWithinSecond'
    BY <1>4 DEF Figures!sysinfo_draw, Figures!return, FiguresInv, UsageInv, LineInv, Busy,
       Figures!UptimeWithinSecond
  <2>3. QED  BY <2>1, <2>2 DEF FiguresInv
<1>5. CASE UNCHANGED Figures!vars
  BY <1>5 DEF Figures!vars, FiguresInv, FigureTypes, Figures!TypeOK, UsageInv, LineInv, Busy,
     Figures!UptimeWithinSecond
<1>6. QED  BY <1>1, <1>2, <1>3, <1>4, <1>5

LEMMA FigureArgumentStep == FiguresInv /\ (Figures!eval_seconds \/ Figures!eval_ms) => FiguresInv'
<1> SUFFICES ASSUME FiguresInv, Figures!eval_seconds \/ Figures!eval_ms  PROVE FiguresInv'
  OBVIOUS
<1>1. /\ htop_pc = "args" /\ began' = IF s = -1 /\ ms = -1 THEN kernel_ticks ELSE began
      /\ UNCHANGED <<kernel_ticks, idle_ticks, scheduled, htop_pc, total, idle, cpu_usage, shown>>
      /\ \/ s = -1 /\ s' = kernel_ticks \div TicksPerSecond /\ ms' = ms
         \/ ms = -1 /\ ms' = kernel_ticks % TicksPerSecond /\ s' = s
  BY DEF Figures!eval_seconds, Figures!eval_ms, Figures!Evaluated, Figures!First,
     Figures!uptime_ms, Figures!counters, Figures!usage
<1> DEFINE sec == kernel_ticks \div TicksPerSecond
           rest == kernel_ticks % TicksPerSecond
<1>2. /\ rest \in Nat /\ rest < TicksPerSecond /\ sec \in Nat
      /\ sec * TicksPerSecond <= kernel_ticks /\ sec * TicksPerSecond > kernel_ticks - TicksPerSecond
  BY FigureFacts, DivMod
<1>3. sec * TicksPerSecond \in Nat
  BY <1>2, FigureFacts, ProductMonotone
<1> HIDE DEF sec, rest
<1>4. \/ s = -1 /\ s' = sec /\ ms' = ms
      \/ ms = -1 /\ ms' = rest /\ s' = s
  BY <1>1 DEF sec, rest
<1>5. began' \in Nat /\ began' <= kernel_ticks
  BY <1>1, FigureFacts DEF FiguresInv, LineInv
<1>6. FigureTypes'
  BY <1>1, <1>2, <1>4, <1>5 DEF FiguresInv, FigureTypes, Figures!TypeOK
<1>7. UsageInv' /\ Figures!UptimeWithinSecond'
  BY <1>1 DEF FiguresInv, UsageInv, Busy, Figures!UptimeWithinSecond
<1>8. LineInv'
  <2>1. CASE s = -1 /\ s' = sec /\ ms' = ms
    <3>1. sec * TicksPerSecond > began' - TicksPerSecond
      BY <1>2, <1>3, <1>5, FigureFacts
    <3>2. QED  BY <1>1, <1>2, <1>5, <2>1, <3>1 DEF FiguresInv, LineInv
  <2>2. CASE ms = -1 /\ ms' = rest /\ s' = s
    <3>1. CASE s = -1
      BY <1>1, <1>2, <1>5, <2>2, <3>1 DEF LineInv
    <3>2. CASE s # -1
      BY <1>1, <1>2, <1>5, <2>2, <3>2 DEF FiguresInv, LineInv
    <3>3. QED  BY <3>1, <3>2
  <2>3. QED  BY <1>4, <2>1, <2>2
<1>9. QED  BY <1>6, <1>7, <1>8 DEF FiguresInv

LEMMA FigurePrintStep == FiguresInv /\ Figures!print => FiguresInv'
<1> SUFFICES ASSUME FiguresInv, Figures!print  PROVE FiguresInv'
  OBVIOUS
<1>1. /\ htop_pc = "args" /\ htop_pc' = "shown" /\ s >= 0 /\ ms >= 0
      /\ shown' = s * TicksPerSecond + ms /\ s' = -1 /\ ms' = -1
      /\ UNCHANGED <<kernel_ticks, idle_ticks, scheduled, total, idle, cpu_usage, began>>
  BY DEF Figures!print, Figures!counters, Figures!usage
<1>2. s \in Nat /\ ms \in Nat /\ s # -1 /\ ms # -1
  BY <1>1, FigureFacts
<1>3. /\ s * TicksPerSecond <= kernel_ticks /\ s * TicksPerSecond > began - TicksPerSecond
      /\ ms < TicksPerSecond
  BY <1>2 DEF FiguresInv, LineInv
<1>4. s * TicksPerSecond \in Nat
  BY <1>2, FigureFacts, ProductMonotone
<1>5. shown' \in Nat /\ shown' > began - TicksPerSecond /\ shown' < kernel_ticks + TicksPerSecond
  BY <1>1, <1>2, <1>3, <1>4, FigureFacts
<1>6. FigureTypes'
  BY <1>1, <1>5 DEF FiguresInv, FigureTypes, Figures!TypeOK
<1>7. UsageInv' /\ LineInv' /\ Figures!UptimeWithinSecond'
  BY <1>1, <1>5 DEF FiguresInv, UsageInv, LineInv, Busy, Figures!UptimeWithinSecond
<1>8. QED  BY <1>6, <1>7 DEF FiguresInv

LEMMA FiguresNext == FiguresInv /\ [Figures!Next]_(Figures!vars) => FiguresInv'
BY FigureTickStep, FigureUsageStep, FigureReadStep, FigureArgumentStep, FigurePrintStep DEF Figures!Next

(* Wherever ticks fall between the reads of htop and System Info, the      *)
(* usage drawn is not more than the share of busy ticks, and the uptime is *)
(* less than a second from the moments it was read at, for every length of *)
(* a second and every number of ticks.                                     *)
THEOREM FiguresStayNear == MCSpec => []FiguresAreNear
<1>1. Figures!Spec => []FiguresInv
  BY FiguresInit, FiguresNext, PTL DEF Figures!Spec
<1>2. FiguresInv => FiguresAreNear
  BY DEF FiguresInv, FigureTypes, UsageInv, Busy, FiguresAreNear, Figures!UsageNotOverstated
<1>3. QED  BY <1>1, <1>2, OnlyOneWalks, PTL
-----------------------------------------------------------------------------
(* The clock.  A pass into which an update falls is followed by one into   *)
(* which none can fall, since a second is long; so of two passes that read *)
(* the same at least one read a time the clock was showing.                *)
Positions == {t \in [1 .. 6 -> Nat] : \A i \in 1 .. 6 : t[i] \in 1 .. Len(Shown[i])}

HourRegisterIn(m, h) ==
  LET twelve == IF h % 12 = 0 THEN 12 ELSE h % 12
      v == IF m.h24 THEN h ELSE twelve
  IN  (IF m.binary THEN v ELSE Clock!ToBcd(v)) + (IF ~m.h24 /\ h >= 12 THEN 128 ELSE 0)
RegisterIn(m, t, i) ==
  IF i = 3 THEN HourRegisterIn(m, Shown[i][t[i]])
  ELSE IF m.binary THEN Shown[i][t[i]] ELSE Clock!ToBcd(Shown[i][t[i]])
HourOf(m, x) ==
  LET h == IF m.binary THEN x ELSE Clock!FromBcdHour(x)
  IN  IF ~m.h24 /\ h >= 128 THEN ((h % 128) + 12) % 24 ELSE h

(* The bytes q are the first registers of time t; of one of the times in T.*)
Matches(m, q, t) == \A i \in 1 .. Len(q) : q[i] = RegisterIn(m, t, i)
ShownIn(m, T, q) == \E t \in Positions : Matches(m, q, t) /\ Clock!TimeOf(t) \in T

ClockTypes ==
  /\ mode \in Modes /\ now \in Positions /\ updating \in BOOLEAN
  /\ quiet \in Nat /\ quiet <= Gap
  /\ rtc_pc \in {"idle", "wait", "read", "convert", "done"}
  /\ field \in 1 .. 6
  /\ cur \in Seq(Nat) /\ last \in Seq(Nat) /\ Len(last) \in {0, 6}
  /\ rtc_pc = "wait" => Len(cur) = 0
  /\ rtc_pc = "read" => Len(cur) = field - 1
  /\ rtc_pc = "convert" => Len(cur) = 6
  /\ rtc_pc \in {"idle", "done"} => Len(cur) = 0
  /\ rtc_pc # "idle" => Clock!TimeOf(now) \in seen

(* last is a pass that read no time the clock was showing.                 *)
Torn == Len(last) = 6 /\ ~ShownIn(mode, seen, last)

PassInv ==
  /\ rtc_pc = "read" => Matches(mode, cur, now) \/ updating \/ quiet <= field - 1
  /\ rtc_pc = "wait" /\ Torn => updating \/ quiet <= 6
  /\ rtc_pc = "read" /\ Torn => ~updating /\ quiet <= 6 + field /\ Matches(mode, cur, now)
  /\ rtc_pc = "convert" => ShownIn(mode, seen, cur)
ClockInv == ClockTypes /\ PassInv /\ Clock!ReadIsShown

LEMMA ShownFacts ==
  /\ \A i \in 1 .. 6 : Shown[i] \in Seq(0 .. 99) /\ Len(Shown[i]) \in Nat \ {0}
  /\ Shown[3] \in Seq(0 .. 23)
  /\ Gap \in Nat /\ Gap >= 21
  /\ \A m \in Modes : m.binary \in BOOLEAN /\ m.h24 \in BOOLEAN
<1>1. /\ \A i \in 1 .. 6 : Shown[i] \in Seq(0 .. 99) /\ Shown[i] # <<>>
      /\ Shown[3] \in Seq(0 .. 23)
      /\ Gap \in Nat /\ Gap >= 21
      /\ Modes \subseteq [binary : BOOLEAN, h24 : BOOLEAN]
  BY ClockAssumption DEF Clock!FieldsShown, Clock!RegisterModes, Clock!SecondIsLong, Clock!Fields,
     Clock!Hour, Clock!Pass
<1>2. \A q \in Seq(0 .. 99) : q # <<>> => Len(q) \in Nat \ {0}
  OBVIOUS
<1>3. QED  BY <1>1, <1>2

(* What the clock shows at a position.                                     *)
LEMMA FieldValue ==
  ASSUME NEW t \in Positions, NEW i \in 1 .. 6
  PROVE  Shown[i][t[i]] \in 0 .. 99 /\ (i = 3 => Shown[i][t[i]] \in 0 .. 23)
<1>1. t[i] \in 1 .. Len(Shown[i])
  BY DEF Positions
<1>2. \A A : \A q \in Seq(A) : \A k \in 1 .. Len(q) : q[k] \in A
  OBVIOUS
<1>3. Shown[i] \in Seq(0 .. 99) /\ (i = 3 => Shown[i] \in Seq(0 .. 23))
  BY ShownFacts
<1>4. Shown[i][t[i]] \in 0 .. 99
  BY <1>1, <1>2, <1>3, Zenon
<1>5. i = 3 => Shown[i][t[i]] \in 0 .. 23
  BY <1>1, <1>2, <1>3, Zenon
<1>6. QED  BY <1>4, <1>5

LEMMA BcdFacts ==
  \A v \in 0 .. 99 : /\ Clock!ToBcd(v) \in Nat
                     /\ Clock!FromBcd(Clock!ToBcd(v)) = v
BY SMT DEF Clock!ToBcd, Clock!FromBcd

LEMMA HourFacts ==
  ASSUME NEW m \in [binary : BOOLEAN, h24 : BOOLEAN], NEW v \in 0 .. 23
  PROVE  /\ HourRegisterIn(m, v) \in Nat
         /\ m.h24 \/ v \notin {0, 12} => HourOf(m, HourRegisterIn(m, v)) = v
BY SMT DEF HourRegisterIn, HourOf, Clock!ToBcd, Clock!FromBcdHour

LEMMA RegisterFacts ==
  ASSUME NEW t \in Positions, NEW i \in 1 .. 6, NEW m \in Modes
  PROVE  RegisterIn(m, t, i) \in Nat
<1>1. Shown[i][t[i]] \in 0 .. 99 /\ (i = 3 => Shown[i][t[i]] \in 0 .. 23)
  BY FieldValue
<1>2. m \in [binary : BOOLEAN, h24 : BOOLEAN]
  BY ClockAssumption DEF Clock!RegisterModes
<1>3. QED  BY <1>1, <1>2, BcdFacts, HourFacts DEF RegisterIn

(* A call of Clock!Register reads the clock as RegisterIn says.            *)
LEMMA RegisterIs ==
  \A t, i : Clock!Register(t, i) = RegisterIn(mode, t, i)
BY DEF Clock!Register, Clock!HourRegister, RegisterIn, HourRegisterIn, Clock!Hour

LEMMA ShownMonotone ==
  ASSUME NEW m, NEW T, NEW U, T \subseteq U, NEW q, ShownIn(m, T, q)
  PROVE  ShownIn(m, U, q)
BY DEF ShownIn

LEMMA StartPosition == Clock!Start \in Positions
<1>1. Clock!Start = [i \in 1 .. 6 |-> 1]
  BY DEF Clock!Start, Clock!Fields
<1>2. \A i \in 1 .. 6 : 1 \in 1 .. Len(Shown[i])
  BY ShownFacts
<1>3. QED  BY <1>1, <1>2 DEF Positions

LEMMA TickPosition ==
  ASSUME NEW t \in Positions
  PROVE  Clock!Tick(t) \in Positions
<1> DEFINE next_t == Clock!Tick(t)
<1>1. next_t = [i \in 1 .. 6 |->
        IF \A j \in 1 .. i - 1 : t[j] = Len(Shown[j]) THEN (t[i] % Len(Shown[i])) + 1 ELSE t[i]]
  BY DEF Clock!Tick, Clock!Fields
<1>2. ASSUME NEW i \in 1 .. 6  PROVE next_t[i] \in 1 .. Len(Shown[i]) /\ next_t[i] \in Nat
  <2>1. t[i] \in Nat /\ t[i] \in 1 .. Len(Shown[i]) /\ Len(Shown[i]) \in Nat \ {0}
    BY ShownFacts DEF Positions
  <2>2. t[i] % Len(Shown[i]) \in Nat /\ t[i] % Len(Shown[i]) < Len(Shown[i])
    BY <2>1, DivMod
  <2>3. next_t[i] = (t[i] % Len(Shown[i])) + 1 \/ next_t[i] = t[i]
    BY <1>1
  <2>4. QED  BY <2>1, <2>2, <2>3
<1>3. next_t \in [1 .. 6 -> Nat]
  BY <1>1, <1>2
<1>4. QED  BY <1>2, <1>3 DEF Positions

LEMMA ClockInit == Clock!Init => ClockInv
<1> SUFFICES ASSUME Clock!Init  PROVE ClockInv
  OBVIOUS
<1>1. /\ mode \in Modes /\ now \in Positions /\ updating = FALSE /\ quiet = Gap
      /\ rtc_pc = "idle" /\ field = 1 /\ last = <<>> /\ cur = <<>>
  BY StartPosition DEF Clock!Init
<1>2. cur \in Seq(Nat) /\ last \in Seq(Nat) /\ Len(cur) = 0 /\ Len(last) = 0
  BY <1>1
<1>3. ClockTypes
  <2>1. Gap \in Nat
    BY ShownFacts
  <2>2. field \in 1 .. 6 /\ quiet \in Nat /\ quiet <= Gap
    BY <1>1, <2>1
  <2>3. updating \in BOOLEAN
    BY <1>1, Zenon
  <2>4. QED  BY <1>1, <1>2, <2>2, <2>3 DEF ClockTypes
<1>4. PassInv /\ Clock!ReadIsShown
  BY <1>1 DEF PassInv, Clock!ReadIsShown
<1>5. QED  BY <1>3, <1>4 DEF ClockInv

LEMMA BeginUpdateStep == ClockInv /\ Clock!begin_update => ClockInv'
<1> SUFFICES ASSUME ClockInv, Clock!begin_update  PROVE ClockInv'
  OBVIOUS
<1>1. /\ ~updating /\ quiet = Gap /\ updating' = TRUE
      /\ UNCHANGED <<mode, now, quiet, rtc_pc, field, last, cur, result, seen>>
  BY DEF Clock!begin_update
<1>2. ClockTypes'
  <2>1. Clock!TimeOf(now)' = Clock!TimeOf(now)
    BY <1>1 DEF Clock!TimeOf
  <2>2. QED  BY <1>1, <2>1 DEF ClockInv, ClockTypes
<1>3. ~(rtc_pc = "read" /\ Torn)
  <2>1. Gap \in Nat /\ Gap >= 21 /\ quiet = Gap
    BY <1>1, ShownFacts
  <2>2. field \in 1 .. 6
    BY DEF ClockInv, ClockTypes
  <2>3. rtc_pc = "read" /\ Torn => quiet <= 6 + field
    BY DEF ClockInv, PassInv
  <2>4. QED  BY <2>1, <2>2, <2>3
<1>4. Torn' <=> Torn
  BY <1>1 DEF Torn
<1>5. PassInv'
  BY <1>1, <1>3, <1>4 DEF ClockInv, PassInv
<1>6. Clock!ReadIsShown'
  BY <1>1 DEF ClockInv, Clock!ReadIsShown, Clock!NoonOrMidnight
<1>7. QED  BY <1>2, <1>5, <1>6 DEF ClockInv

LEMMA EndUpdateStep == ClockInv /\ Clock!end_update => ClockInv'
<1> SUFFICES ASSUME ClockInv, Clock!end_update  PROVE ClockInv'
  OBVIOUS
<1>1. /\ updating /\ updating' = FALSE /\ now' = Clock!Tick(now)
      /\ quiet' = IF rtc_pc = "idle" THEN Gap ELSE 0
      /\ seen' = IF rtc_pc = "idle" THEN {} ELSE seen \cup {Clock!TimeOf(now')}
      /\ UNCHANGED <<mode, rtc_pc, field, last, cur, result>>
  BY DEF Clock!end_update
<1>2. now' \in Positions
  BY <1>1, TickPosition DEF ClockInv, ClockTypes
<1>3. Clock!TimeOf(now)' = Clock!TimeOf(now')
  BY DEF Clock!TimeOf
<1>4. ClockTypes'
  <2>1. quiet' \in Nat /\ quiet' <= Gap
    BY <1>1, ShownFacts
  <2>2. rtc_pc' # "idle" => Clock!TimeOf(now)' \in seen'
    BY <1>1, <1>3
  <2>3. QED  BY <1>1, <1>2, <2>1, <2>2 DEF ClockInv, ClockTypes
<1>5. ~(rtc_pc = "read" /\ Torn)
  BY <1>1 DEF ClockInv, PassInv
<1>6. rtc_pc # "idle" => seen \subseteq seen'
  BY <1>1
<1>7. rtc_pc # "idle" /\ Torn' => Torn
  BY <1>1, <1>6, ShownMonotone DEF Torn
<1>8. PassInv'
  <2>1. rtc_pc = "read" => quiet' <= field' - 1
    BY <1>1 DEF ClockInv, ClockTypes
  <2>2. rtc_pc = "wait" => quiet' <= 6
    BY <1>1
  <2>3. rtc_pc = "convert" => ShownIn(mode', seen', cur')
    BY <1>1, <1>6, ShownMonotone DEF ClockInv, PassInv
  <2>4. QED  BY <1>1, <1>5, <1>7, <2>1, <2>2, <2>3 DEF PassInv
<1>9. Clock!ReadIsShown'
  BY <1>1, <1>6 DEF ClockInv, Clock!ReadIsShown, Clock!NoonOrMidnight
<1>10. QED  BY <1>4, <1>8, <1>9 DEF ClockInv

LEMMA CallStep == ClockInv /\ Clock!call => ClockInv'
<1> SUFFICES ASSUME ClockInv, Clock!call  PROVE ClockInv'
  OBVIOUS
<1>1. /\ rtc_pc = "idle" /\ rtc_pc' = "wait" /\ seen' = {Clock!TimeOf(now)}
      /\ last' = <<>> /\ cur' = <<>>
      /\ UNCHANGED <<mode, now, updating, quiet, field, result>>
  BY DEF Clock!call, Clock!clock
<1>2. <<>> \in Seq(Nat) /\ Len(<<>>) = 0
  OBVIOUS
<1>3. Clock!TimeOf(now)' = Clock!TimeOf(now)
  BY <1>1 DEF Clock!TimeOf
<1>4. ClockTypes'
  BY <1>1, <1>2, <1>3 DEF ClockInv, ClockTypes
<1>5. ~Torn'
  BY <1>1, <1>2 DEF Torn
<1>6. PassInv' /\ Clock!ReadIsShown'
  BY <1>1, <1>5 DEF PassInv, Clock!ReadIsShown
<1>7. QED  BY <1>4, <1>6 DEF ClockInv

(* quiet goes up by one at most.                                           *)
LEMMA PassesFacts ==
  ASSUME ClockInv, Clock!Passes
  PROVE  quiet' \in Nat /\ quiet' <= Gap /\ quiet' <= quiet + 1
BY ShownFacts DEF ClockInv, ClockTypes, Clock!Passes

LEMMA WaitedStep == ClockInv /\ Clock!updating_rtc => ClockInv'
<1> SUFFICES ASSUME ClockInv, Clock!updating_rtc  PROVE ClockInv'
  OBVIOUS
<1>1. /\ rtc_pc = "wait" /\ ~updating /\ rtc_pc' = "read" /\ field' = 1 /\ Clock!Passes
      /\ UNCHANGED <<mode, now, updating, last, cur, result, seen>>
  BY DEF Clock!updating_rtc
<1>2. quiet' \in Nat /\ quiet' <= Gap /\ quiet' <= quiet + 1
  BY <1>1, PassesFacts
<1>3. Len(cur) = 0
  BY <1>1 DEF ClockInv, ClockTypes
<1>4. Clock!TimeOf(now)' = Clock!TimeOf(now)
  BY <1>1 DEF Clock!TimeOf
<1>5. ClockTypes'
  BY <1>1, <1>2, <1>3, <1>4 DEF ClockInv, ClockTypes
<1>6. Matches(mode', cur', now')
  BY <1>1, <1>3 DEF Matches
<1>7. Torn' <=> Torn
  BY <1>1 DEF Torn
<1>8. Torn => quiet' <= 7
  BY <1>1, <1>2 DEF ClockInv, PassInv, ClockTypes
<1>9. PassInv' /\ Clock!ReadIsShown'
  BY <1>1, <1>6, <1>7, <1>8 DEF PassInv, Clock!ReadIsShown
<1>10. QED  BY <1>5, <1>9 DEF ClockInv

(* The byte read, appended to those of the pass so far.                    *)
LEMMA ReadByte ==
  ASSUME ClockInv, rtc_pc = "read", NEW v \in Clock!Readable(field)
  PROVE  /\ v \in Nat
         /\ Append(cur, v) \in Seq(Nat) /\ Len(Append(cur, v)) = field
         /\ ~updating /\ Matches(mode, cur, now) => Matches(mode, Append(cur, v), now)
<1>1. field \in 1 .. 6 /\ now \in Positions /\ mode \in Modes /\ cur \in Seq(Nat) /\ Len(cur) = field - 1
  BY DEF ClockInv, ClockTypes
<1>2. CASE updating
  <2>1. CASE v = 255
    BY <1>1, <1>2, <2>1
  <2>2. CASE v # 255
    <3>1. PICK k \in DOMAIN Shown[field] : v = Clock!Register([now EXCEPT ![field] = k], field)
      BY <1>2, <2>2 DEF Clock!Readable
    <3>2. k \in 1 .. Len(Shown[field]) /\ Len(Shown[field]) \in Nat
      <4>1. Shown[field] \in Seq(0 .. 99)
        BY <1>1, ShownFacts
      <4>2. QED  BY <4>1
    <3>3. [now EXCEPT ![field] = k] \in Positions
      <4>1. k \in Nat
        BY <3>2
      <4>2. QED  BY <1>1, <3>2, <4>1 DEF Positions
    <3>4. v \in Nat
      BY <1>1, <3>1, <3>3, RegisterFacts, RegisterIs
    <3>5. QED  BY <1>1, <1>2, <3>4
  <2>3. QED  BY <2>1, <2>2
<1>3. CASE ~updating
  <2>1. v = RegisterIn(mode, now, field)
    BY <1>3, RegisterIs DEF Clock!Readable
  <2>2. v \in Nat
    BY <1>1, <2>1, RegisterFacts
  <2>3. Append(cur, v) \in Seq(Nat) /\ Len(Append(cur, v)) = field
    BY <1>1, <2>2
  <2>4. ASSUME Matches(mode, cur, now), NEW i \in 1 .. field
        PROVE  Append(cur, v)[i] = RegisterIn(mode, now, i)
    <3>1. CASE i = field  BY <1>1, <2>1, <2>2, <3>1
    <3>2. CASE i \in 1 .. field - 1  BY <1>1, <2>2, <2>4, <3>2 DEF Matches
    <3>3. QED  BY <1>1, <3>1, <3>2
  <2>5. QED  BY <2>2, <2>3, <2>4 DEF Matches
<1>4. QED  BY <1>2, <1>3 DEF ClockInv, ClockTypes

LEMMA ReadStep == ClockInv /\ Clock!get_rtc_register => ClockInv'
<1> SUFFICES ASSUME ClockInv, Clock!get_rtc_register  PROVE ClockInv'
  OBVIOUS
<1>1. /\ rtc_pc = "read" /\ Clock!Passes
      /\ UNCHANGED <<mode, now, updating, result, seen>>
  BY DEF Clock!get_rtc_register
<1>2. PICK v \in Clock!Readable(field) :
        LET read == Append(cur, v)
        IN  IF field < 6
            THEN cur' = read /\ field' = field + 1 /\ UNCHANGED <<rtc_pc, last>>
            ELSE /\ field' = 1
                 /\ IF read = last
                    THEN rtc_pc' = "convert" /\ cur' = read /\ UNCHANGED last
                    ELSE rtc_pc' = "wait" /\ last' = read /\ cur' = <<>>
  BY DEF Clock!get_rtc_register, Clock!Year
<1> DEFINE read == Append(cur, v)
<1>3. /\ read \in Seq(Nat) /\ Len(read) = field
      /\ ~updating /\ Matches(mode, cur, now) => Matches(mode, read, now)
  BY <1>1, ReadByte
<1>4. quiet' \in Nat /\ quiet' <= Gap /\ quiet' <= quiet + 1 /\ quiet \in Nat
  BY <1>1, PassesFacts DEF ClockInv, ClockTypes
<1>5. Clock!TimeOf(now)' = Clock!TimeOf(now) /\ Clock!TimeOf(now) \in seen
  BY <1>1 DEF ClockInv, ClockTypes, Clock!TimeOf
<1>6. field \in 1 .. 6 /\ now \in Positions
  BY DEF ClockInv, ClockTypes
<1>7. Matches(mode, cur, now) \/ updating \/ quiet <= field - 1
  BY <1>1 DEF ClockInv, PassInv
<1>8. Torn => ~updating /\ quiet <= 6 + field /\ Matches(mode, cur, now)
  BY <1>1 DEF ClockInv, PassInv
<1>9. Matches(mode, read, now) => ShownIn(mode, seen, read)
  BY <1>5, <1>6 DEF ShownIn
<1> HIDE DEF read
<1>10. CASE field < 6
  <2>1. cur' = read /\ field' = field + 1 /\ rtc_pc' = "read" /\ last' = last
    BY <1>1, <1>2, <1>10 DEF read
  <2>2. ClockTypes'
    BY <1>1, <1>3, <1>4, <1>5, <1>6, <1>10, <2>1 DEF ClockInv, ClockTypes
  <2>3. Torn' <=> Torn
    BY <1>1, <2>1 DEF Torn
  <2>4. Matches(mode', cur', now') \/ updating' \/ quiet' <= field' - 1
    BY <1>1, <1>3, <1>4, <1>6, <1>7, <2>1
  <2>5. Torn => ~updating' /\ quiet' <= 6 + field' /\ Matches(mode', cur', now')
    BY <1>1, <1>3, <1>4, <1>6, <1>8, <2>1
  <2>6. PassInv' /\ Clock!ReadIsShown'
    BY <2>1, <2>3, <2>4, <2>5 DEF PassInv, Clock!ReadIsShown
  <2>7. QED  BY <2>2, <2>6 DEF ClockInv
<1>11. CASE field = 6 /\ read = last
  <2>1. cur' = read /\ field' = 1 /\ rtc_pc' = "convert" /\ last' = last
    BY <1>2, <1>11 DEF read
  <2>2. ClockTypes'
    BY <1>1, <1>3, <1>4, <1>5, <1>6, <1>11, <2>1 DEF ClockInv, ClockTypes
  <2>3. ShownIn(mode, seen, read)
    <3>1. CASE Torn  BY <1>3, <1>8, <1>9, <3>1
    <3>2. CASE ~Torn  BY <1>3, <1>11, <3>2 DEF Torn
    <3>3. QED  BY <3>1, <3>2
  <2>4. PassInv' /\ Clock!ReadIsShown'
    BY <1>1, <2>1, <2>3 DEF PassInv, Clock!ReadIsShown
  <2>5. QED  BY <2>2, <2>4 DEF ClockInv
<1>12. CASE field = 6 /\ read # last
  <2>1. cur' = <<>> /\ field' = 1 /\ rtc_pc' = "wait" /\ last' = read
    BY <1>2, <1>12 DEF read
  <2>2. cur' \in Seq(Nat) /\ Len(cur') = 0
    BY <2>1
  <2>3. ClockTypes'
    BY <1>1, <1>3, <1>4, <1>5, <1>6, <1>12, <2>1, <2>2 DEF ClockInv, ClockTypes
  <2>4. Torn' => updating' \/ quiet' <= 6
    <3>1. Torn' => ~ShownIn(mode, seen, read)
      BY <1>1, <2>1 DEF Torn
    <3>2. QED  BY <1>1, <1>3, <1>4, <1>7, <1>9, <1>12, <3>1
  <2>5. PassInv' /\ Clock!ReadIsShown'
    BY <2>1, <2>4 DEF PassInv, Clock!ReadIsShown
  <2>6. QED  BY <2>3, <2>5 DEF ClockInv
<1>13. QED  BY <1>6, <1>10, <1>11, <1>12

(* The conversions turn the registers of a time back into that time, but   *)
(* for the hour of noon and midnight on a 12-hour clock.                   *)
LEMMA ConvertStep == ClockInv /\ Clock!convert => ClockInv'
<1> SUFFICES ASSUME ClockInv, Clock!convert  PROVE ClockInv'
  OBVIOUS
<1>1. /\ rtc_pc = "convert" /\ rtc_pc' = "done" /\ last' = <<>> /\ cur' = <<>>
      /\ UNCHANGED <<mode, now, updating, quiet, field, seen>>
  BY DEF Clock!convert, Clock!clock
<1>2. last' \in Seq(Nat) /\ cur' \in Seq(Nat) /\ Len(last') = 0 /\ Len(cur') = 0
  BY <1>1
<1>3. Clock!TimeOf(now)' = Clock!TimeOf(now)
  BY <1>1 DEF Clock!TimeOf
<1>4. ClockTypes'
  BY <1>1, <1>2, <1>3 DEF ClockInv, ClockTypes
<1>5. PassInv'
  BY <1>1 DEF PassInv
<1>6. PICK t \in Positions : Matches(mode, cur, t) /\ Clock!TimeOf(t) \in seen
  BY <1>1 DEF ClockInv, PassInv, ShownIn
<1>7. \A i \in 1 .. 6 : cur[i] = RegisterIn(mode, t, i)
  BY <1>1, <1>6 DEF ClockInv, ClockTypes, Matches
<1>8. mode \in Modes /\ mode \in [binary : BOOLEAN, h24 : BOOLEAN]
  BY ClockAssumption DEF ClockInv, ClockTypes, Clock!RegisterModes
<1>9. ASSUME NEW i \in 1 .. 6
      PROVE  result'[i] = Shown[i][t[i]] \/ (i = 3 /\ ~mode.h24 /\ Shown[i][t[i]] \in {0, 12})
  <2>1. Shown[i][t[i]] \in 0 .. 99 /\ (i = 3 => Shown[i][t[i]] \in 0 .. 23)
    BY FieldValue
  <2>2. CASE i # 3
    <3>1. result'[i] = IF mode.binary THEN cur[i] ELSE Clock!FromBcd(cur[i])
      BY <2>2 DEF Clock!convert, Clock!Fields, Clock!Hour
    <3>2. cur[i] = IF mode.binary THEN Shown[i][t[i]] ELSE Clock!ToBcd(Shown[i][t[i]])
      BY <1>7, <2>2 DEF RegisterIn
    <3>3. QED  BY <2>1, <3>1, <3>2, BcdFacts
  <2>3. CASE i = 3
    <3>1. result'[i] = HourOf(mode, cur[i])
      BY <2>3 DEF Clock!convert, Clock!Fields, Clock!Hour, HourOf, Clock!To24
    <3>2. cur[i] = HourRegisterIn(mode, Shown[i][t[i]])
      BY <1>7, <2>3 DEF RegisterIn
    <3>3. QED  BY <1>8, <2>1, <2>3, <3>1, <3>2, HourFacts
  <2>4. QED  BY <2>2, <2>3
<1>10. Clock!ReadIsShown'
  <2>1. \A i \in 1 .. 6 : Clock!TimeOf(t)[i] = Shown[i][t[i]]
    BY DEF Clock!TimeOf, Clock!Fields
  <2>2. \A i \in 1 .. 6 : result'[i] = Clock!TimeOf(t)[i] \/ (i = 3 /\ ~mode'.h24 /\ Clock!TimeOf(t)[3] \in {0, 12})
    BY <1>1, <1>9, <2>1
  <2>3. QED  BY <1>1, <1>6, <2>2 DEF Clock!ReadIsShown, Clock!NoonOrMidnight, Clock!Fields, Clock!Hour
<1>11. QED  BY <1>4, <1>5, <1>10 DEF ClockInv

LEMMA ReturnStep == ClockInv /\ Clock!return => ClockInv'
<1> SUFFICES ASSUME ClockInv, Clock!return  PROVE ClockInv'
  OBVIOUS
<1>1. /\ rtc_pc = "done" /\ rtc_pc' = "idle" /\ quiet' = Gap
      /\ UNCHANGED <<mode, now, updating, field, last, cur>>
  BY DEF Clock!return
<1>2. ClockTypes'
  BY <1>1, ShownFacts DEF ClockInv, ClockTypes
<1>3. PassInv' /\ Clock!ReadIsShown'
  BY <1>1 DEF PassInv, Clock!ReadIsShown
<1>4. QED  BY <1>2, <1>3 DEF ClockInv

LEMMA ClockNext == ClockInv /\ [Clock!Next]_(Clock!vars) => ClockInv'
<1>1. ClockInv /\ UNCHANGED Clock!vars => ClockInv'
  <2> SUFFICES ASSUME ClockInv, UNCHANGED Clock!vars  PROVE ClockInv'
    OBVIOUS
  <2>1. UNCHANGED <<mode, now, updating, quiet, rtc_pc, field, last, cur, result, seen>>
    BY DEF Clock!vars, Clock!clock
  <2>2. Clock!TimeOf(now)' = Clock!TimeOf(now)
    BY <2>1 DEF Clock!TimeOf
  <2>3. ClockTypes'
    BY <2>1, <2>2 DEF ClockInv, ClockTypes
  <2>4. PassInv'
    BY <2>1 DEF ClockInv, PassInv, Torn
  <2>5. Clock!ReadIsShown'
    BY <2>1 DEF ClockInv, Clock!ReadIsShown, Clock!NoonOrMidnight
  <2>6. QED  BY <2>3, <2>4, <2>5 DEF ClockInv
<1>2. QED  BY <1>1, BeginUpdateStep, EndUpdateStep, CallStep, WaitedStep, ReadStep, ConvertStep,
             ReturnStep DEF Clock!Next, Clock!Reader

(* "Read twice to ensure stable values": whatever the times a clock shows, *)
(* its mode and the moments of its updates, rtc_get_datetime returns a     *)
(* time the clock showed during the call, provided that a second is longer *)
(* than three passes; the hour of noon and midnight on a 12-hour clock is  *)
(* left out.                                                               *)
THEOREM DateAlwaysShown == MCSpec => []ReadIsShown
<1>1. Clock!Spec => []ClockInv
  BY ClockInit, ClockNext, PTL DEF Clock!Spec
<1>2. ClockInv => Clock!TypeOK
  <2> SUFFICES ASSUME ClockInv  PROVE Clock!TypeOK
    OBVIOUS
  <2>1. ASSUME NEW i \in 1 .. 6  PROVE now[i] \in DOMAIN Shown[i]
    <3>1. now[i] \in 1 .. Len(Shown[i])
      BY DEF ClockInv, ClockTypes, Positions
    <3>2. Shown[i] \in Seq(0 .. 99)
      BY ShownFacts
    <3>3. QED  BY <3>1, <3>2
  <2>2. Gap \in Nat
    BY ShownFacts
  <2>3. quiet \in 0 .. Gap
    BY <2>2 DEF ClockInv, ClockTypes
  <2>4. Len(cur) = 0 \/ Len(cur) = field - 1 \/ Len(cur) = 6
    BY DEF ClockInv, ClockTypes
  <2>5. field \in 1 .. 6
    BY DEF ClockInv, ClockTypes
  <2>6. Len(cur) <= 6
    <3> DEFINE n == Len(cur)
    <3>1. n = 0 \/ n = field - 1 \/ n = 6
      BY <2>4
    <3> HIDE DEF n
    <3>2. n <= 6
      BY <3>1, <2>5
    <3>3. QED  BY <3>2 DEF n
  <2>7. QED  BY <2>1, <2>3, <2>6 DEF ClockInv, ClockTypes, Clock!TypeOK, Clock!Fields
<1>3. ClockInv => ReadIsShown
  BY <1>2 DEF ClockInv, ReadIsShown
<1>4. QED  BY <1>1, <1>3, OnlyOneWalks, PTL
=============================================================================
