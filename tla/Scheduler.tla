----------------------------- MODULE Scheduler ------------------------------
(***************************************************************************)
(* kernel/scheduler/scheduler.c and the timer side of kernel/time/pit.c:   *)
(* the linked list of tasks that the mainline extends and cuts, the tick   *)
(* accounting of the timer interrupt, and the halting wait sleep().        *)
(*                                                                         *)
(* idt_init enables interrupts before scheduler_init runs, so ticks fall   *)
(* between any two steps of the mainline, those that build the list        *)
(* included; every iteration of a list walk is a step of its own.  A task  *)
(* structure comes from a heap that never reuses memory, so a task is      *)
(* named by its pid, and 0 is the null pointer.                            *)
(***************************************************************************)
EXTENDS Integers, FiniteSets

CONSTANTS MaxPid,       \* bound: tasks ever created
          DestroyPids,  \* the pids task_destroy is called with
          SleepTicks,   \* the waits sleep() is called with, in ticks
          MaxBusyTicks  \* bound: ticks before current_task is set

ASSUME MaxPidAssumption == MaxPid \in Nat /\ MaxPid >= 3
ASSUME DestroyPidsAssumption == DestroyPids \subseteq Nat
ASSUME SleepTicksAssumption == SleepTicks \subseteq Nat
ASSUME MaxBusyTicksAssumption == MaxBusyTicks \in Nat

VARIABLES
  task_list,     \* head of the list
  next,          \* the next field of every task structure
  next_pid,
  current_task,
  zombies,       \* tasks whose state is TASK_ZOMBIE; the others are RUNNING
  ran,           \* tasks with runtime_ticks > 0
  busy_ticks,    \* kernel_ticks - idle_ticks
  main,          \* where the mainline is
  boot,          \* how far scheduler_init is: 0 .. 4, 4 when it has returned
  linked         \* history: tasks created and not destroyed

listVars == <<task_list, next, linked>>
tickVars == <<ran, busy_ticks>>
vars == <<listVars, next_pid, current_task, zombies, tickVars, main, boot>>

Pids == 1 .. MaxPid
InitTask == 1
Idle == [pc |-> "idle", task |-> 0, curr |-> 0, ticks_left |-> 0]
At(pc, t, c) == [pc |-> pc, task |-> t, curr |-> c, ticks_left |-> 0]

Init ==
  /\ task_list = 0
  /\ next = [p \in Pids |-> 0]
  /\ next_pid = 1
  /\ current_task = 0
  /\ zombies = {}
  /\ ran = {}
  /\ busy_ticks = 0
  /\ main = Idle
  /\ boot = 0
  /\ linked = {}
-----------------------------------------------------------------------------
(* task_get_count and sys_get_tasks follow the next fields from the head;  *)
(* ListAt[k] is the k-th task they meet.                                   *)
ListAt[k \in 0 .. MaxPid] ==
  IF k = 0 THEN task_list ELSE IF ListAt[k - 1] = 0 THEN 0 ELSE next[ListAt[k - 1]]

task_get_count == Cardinality({k \in 0 .. MaxPid : ListAt[k] # 0 /\ ListAt[k] \notin zombies})

(* task_create, by scheduler_init for its three base tasks and then by     *)
(* every application launch.  Created is its return.                       *)
Created == main' = Idle /\ boot' = IF boot < 3 THEN boot + 1 ELSE boot

task_create ==
  /\ main.pc = "idle"
  /\ boot # 3
  /\ next_pid <= MaxPid
  /\ next_pid' = next_pid + 1
  /\ IF task_list = 0
     THEN /\ task_list' = next_pid
          /\ next' = [next EXCEPT ![next_pid] = 0]
          /\ linked' = linked \cup {next_pid}
          /\ Created
     ELSE /\ next' = [next EXCEPT ![next_pid] = 0]
          /\ main' = At("create", next_pid, task_list)
          /\ UNCHANGED <<task_list, linked, boot>>
  /\ UNCHANGED <<current_task, zombies, tickVars>>

create_walk ==
  /\ main.pc = "create"
  /\ next[main.curr] # 0
  /\ main' = [main EXCEPT !.curr = next[main.curr]]
  /\ UNCHANGED <<listVars, next_pid, current_task, zombies, tickVars, boot>>

create_link_AtHead ==
  /\ main.pc = "create"
  /\ next' = [next EXCEPT ![task_list] = main.task]
  /\ linked' = linked \cup {main.task}
  /\ Created
  /\ UNCHANGED <<task_list, next_pid, current_task, zombies, tickVars>>

create_link ==
  /\ main.pc = "create"
  /\ next[main.curr] = 0
  /\ next' = [next EXCEPT ![main.curr] = main.task]
  /\ linked' = linked \cup {main.task}
  /\ Created
  /\ UNCHANGED <<task_list, next_pid, current_task, zombies, tickVars>>

set_current ==
  /\ main.pc = "idle"
  /\ boot = 3
  /\ current_task' = InitTask
  /\ boot' = 4
  /\ UNCHANGED <<listVars, next_pid, zombies, tickVars, main>>

(* task_destroy: the head is cut off at once, any other task is looked for *)
(* through its predecessor.  The task's own next field keeps its value.    *)
task_destroy(pid) ==
  /\ main.pc = "idle"
  /\ boot = 4
  /\ task_list # 0
  /\ IF task_list = pid
     THEN /\ task_list' = next[pid]
          /\ zombies' = zombies \cup {pid}
          /\ linked' = linked \ {pid}
          /\ UNCHANGED main
     ELSE /\ main' = At("destroy", pid, task_list)
          /\ UNCHANGED <<task_list, zombies, linked>>
  /\ UNCHANGED <<next, next_pid, current_task, tickVars, boot>>

destroy_walk ==
  /\ main.pc = "destroy"
  /\ next[main.curr] \notin {0, main.task}
  /\ main' = [main EXCEPT !.curr = next[main.curr]]
  /\ UNCHANGED <<listVars, next_pid, current_task, zombies, tickVars, boot>>

destroy_unlink ==
  /\ main.pc = "destroy"
  /\ next[main.curr] # 0
  /\ next[main.curr] = main.task
  /\ next' = [next EXCEPT ![main.curr] = next[main.task]]
  /\ zombies' = zombies \cup {main.task}
  /\ linked' = linked \ {main.task}
  /\ main' = Idle
  /\ UNCHANGED <<task_list, next_pid, current_task, tickVars, boot>>

destroy_not_found ==
  /\ main.pc = "destroy"
  /\ next[main.curr] = 0
  /\ main' = Idle
  /\ UNCHANGED <<listVars, next_pid, current_task, zombies, tickVars, boot>>
-----------------------------------------------------------------------------
(* sleep(): the loop test and the hlt are two instructions, and a tick may *)
(* fall between them; hlt then waits for the next interrupt.               *)
sleep(ticks) ==
  /\ main.pc = "idle"
  /\ boot = 4
  /\ main' = [Idle EXCEPT !.pc = "test", !.ticks_left = ticks]
  /\ UNCHANGED <<listVars, next_pid, current_task, zombies, tickVars, boot>>

sleep_test ==
  /\ main.pc = "test"
  /\ main' = IF main.ticks_left > 0 THEN [main EXCEPT !.pc = "hlt"] ELSE Idle
  /\ UNCHANGED <<listVars, next_pid, current_task, zombies, tickVars, boot>>

sleep_hlt_IrqsOff ==
  /\ main.pc = "hlt"
  /\ main' = [main EXCEPT !.pc = "dead"]
  /\ UNCHANGED <<listVars, next_pid, current_task, zombies, tickVars, boot>>

sleep_hlt ==
  /\ main.pc = "hlt"
  /\ main' = [main EXCEPT !.pc = "halted"]
  /\ UNCHANGED <<listVars, next_pid, current_task, zombies, tickVars, boot>>

WokenUp == [main EXCEPT !.pc = IF @ = "halted" THEN "test" ELSE @]

(* irq0_handler: kernel_ticks++, then scheduler_tick.                      *)
irq0_handler_NoNullTest ==
  /\ ran' = ran \cup {current_task}
  /\ busy_ticks' = IF current_task = InitTask THEN busy_ticks ELSE busy_ticks + 1
  /\ busy_ticks' <= MaxBusyTicks
  /\ main' = [WokenUp EXCEPT !.ticks_left = IF @ > 0 THEN @ - 1 ELSE 0]
  /\ UNCHANGED <<listVars, next_pid, current_task, zombies, boot>>

irq0_handler ==
  /\ ran' = IF current_task = 0 THEN ran ELSE ran \cup {current_task}
  /\ busy_ticks' = IF current_task = InitTask THEN busy_ticks ELSE busy_ticks + 1
  /\ busy_ticks' <= MaxBusyTicks
  /\ main' = [WokenUp EXCEPT !.ticks_left = IF @ > 0 THEN @ - 1 ELSE 0]
  /\ UNCHANGED <<listVars, next_pid, current_task, zombies, boot>>

(* Any other interrupt also ends a hlt.                                    *)
other_irq ==
  /\ main.pc = "halted"
  /\ main' = WokenUp
  /\ UNCHANGED <<listVars, next_pid, current_task, zombies, tickVars, boot>>

Walk == create_walk \/ create_link \/ destroy_walk \/ destroy_unlink \/ destroy_not_found

Wait == sleep_test \/ sleep_hlt

Next ==
  \/ task_create \/ set_current \/ Walk \/ Wait
  \/ \E pid \in DestroyPids : task_destroy(pid)
  \/ \E ticks \in SleepTicks : sleep(ticks)
  \/ irq0_handler \/ other_irq

Spec == Init /\ [][Next]_vars

(* The mainline is the only thread and is always resumed after an          *)
(* interrupt; the PIT ticks for as long as the machine is up.              *)
FairSpec == Spec /\ WF_vars(Walk \/ Wait) /\ WF_vars(irq0_handler)
-----------------------------------------------------------------------------
(* Properties.                                                             *)

(* Type correctness: pointers are null or tasks, and the tick handler,     *)
(* which may run before scheduler_init, charges no null task.              *)
TypeOK ==
  /\ task_list \in Pids \cup {0}
  /\ next \in [Pids -> Pids \cup {0}]
  /\ next_pid \in 1 .. MaxPid + 1
  /\ current_task \in {0, InitTask}
  /\ zombies \subseteq Pids
  /\ ran \subseteq Pids
  /\ busy_ticks \in Nat
  /\ main \in [pc : {"idle", "create", "destroy", "test", "hlt", "halted"},
               task : Nat, curr : Pids \cup {0}, ticks_left : Nat]
  /\ boot \in 0 .. 4
  /\ linked \subseteq Pids

(* The list starts at the oldest task that was not destroyed, and every    *)
(* task on it points to the next younger one: no task is lost, no          *)
(* destroyed task is reachable and no walk can run in a circle.            *)
IsLast(p) == \A q \in linked : q <= p

Chained ==
  /\ IF linked = {} THEN task_list = 0
     ELSE task_list \in linked /\ \A q \in linked : task_list <= q
  /\ \A p \in linked :
       \/ next[p] = 0 /\ IsLast(p)
       \/ /\ next[p] \in linked /\ p < next[p]
          /\ \A q \in linked : q <= p \/ next[p] <= q

(* Walks: the cursor is on the list, a task being appended is younger than *)
(* every task on it, and a task being looked for was not passed by.        *)
WalkInv ==
  /\ \A p \in linked : p < next_pid
  /\ main.pc = "create" => /\ main.curr \in linked
                           /\ main.task \in Pids /\ main.task = next_pid - 1
                           /\ main.task \notin linked
                           /\ next[main.task] = 0
  /\ main.pc = "destroy" => /\ main.curr \in linked
                            /\ \A q \in linked : q <= main.curr => q # main.task

ListInv == Chained /\ WalkInv

(* task_get_count, which walks the list, counts the tasks that were        *)
(* created and not destroyed.                                              *)
CountIsExact == task_get_count = Cardinality(linked)

(* Every call returns: the walks of task_create and task_destroy come to   *)
(* their end, and so does sleep(), in spite of a tick that falls between   *)
(* its test and its hlt.                                                   *)
CallsReturn == main.pc # "idle" ~> main.pc = "idle"
=============================================================================
