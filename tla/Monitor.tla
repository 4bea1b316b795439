------------------------------ MODULE Monitor -------------------------------
(***************************************************************************)
(* What the task manager htop (apps/htop/htop.c) and the System Info       *)
(* window (apps/sysinfo/sysinfo.c) show of the timer's counters.  Each is  *)
(* several reads of counters that the timer's interrupt handler goes on    *)
(* counting: a tick may fall between any two of them.  The order in which  *)
(* the arguments of one call are evaluated is not specified by C; the      *)
(* build in the repository takes the last one first.                       *)
(***************************************************************************)
EXTENDS Integers

CONSTANTS Second,     \* milliseconds, that is ticks, of a second: 1000
          MaxTicks    \* bound: ticks since the start

SizesOK == Second \in Nat \ {0} /\ MaxTicks \in Nat

VARIABLES
  kernel_ticks, idle_ticks,
  scheduled,     \* current_task is set: scheduler_init has returned
  pc,            \* where the drawing is
  total, idle,   \* htop's copies of the counters
  cpu_usage,     \* the percentage htop has drawn last
  s, ms,         \* arguments of the Uptime line, -1 as long as not evaluated
  began,         \* history: uptime when the first of them was evaluated
  shown          \* history: milliseconds of the line that was drawn last

counters == <<kernel_ticks, idle_ticks, scheduled>>
usage == <<total, idle, cpu_usage>>
line == <<s, ms, began, shown>>
vars == <<counters, pc, usage, line>>

Init ==
  /\ kernel_ticks = 0 /\ idle_ticks = 0 /\ scheduled = FALSE
  /\ pc = "boot"
  /\ total = 0 /\ idle = 0 /\ cpu_usage = 0
  /\ s = -1 /\ ms = -1 /\ began = 0 /\ shown = 0
-----------------------------------------------------------------------------
(* The only task that ever is current is init, the idle one.               *)
irq0_handler ==
  /\ kernel_ticks < MaxTicks
  /\ kernel_ticks' = kernel_ticks + 1
  /\ idle_ticks' = IF scheduled THEN idle_ticks + 1 ELSE idle_ticks
  /\ UNCHANGED <<scheduled, pc, usage, line>>

scheduler_init ==
  /\ ~scheduled
  /\ scheduled' = TRUE
  /\ pc' = "loop"
  /\ UNCHANGED <<kernel_ticks, idle_ticks, usage, line>>

uptime_ms == kernel_ticks     \* kernel_ticks * 1000 / timer_frequency, which is 1000

(* htop_draw: the two counters, the percentage, then the Uptime line.      *)
htop_total ==
  /\ pc = "loop"
  /\ total' = kernel_ticks
  /\ pc' = "total"
  /\ UNCHANGED <<counters, idle, cpu_usage, line>>

htop_idle ==
  /\ pc = "total"
  /\ idle' = idle_ticks
  /\ pc' = "idle"
  /\ UNCHANGED <<counters, total, cpu_usage, line>>

Unsigned(n) == n % 2^16    \* 2^64, which is far above every count as well

Percent == (Unsigned(total - idle) * 100) \div total
AtMost100(n) == IF n > 100 THEN 100 ELSE n

htop_usage_NoGuard ==
  /\ pc = "idle"
  /\ cpu_usage' = IF total > 0 THEN AtMost100(Percent) ELSE 0
  /\ pc' = "args"
  /\ UNCHANGED <<counters, total, idle, line>>

htop_usage ==
  /\ pc = "idle"
  /\ cpu_usage' = IF total > 0 /\ total >= idle THEN AtMost100(Percent) ELSE 0
  /\ pc' = "args"
  /\ UNCHANGED <<counters, total, idle, line>>

(* sysinfo_draw has the same line and nothing before it.                   *)
sysinfo_draw ==
  /\ pc = "loop"
  /\ pc' = "args"
  /\ UNCHANGED <<counters, usage, line>>

First == s = -1 /\ ms = -1
Evaluated == pc = "args" /\ began' = IF First THEN uptime_ms ELSE began

eval_seconds ==
  /\ Evaluated /\ s = -1
  /\ s' = uptime_ms \div Second
  /\ UNCHANGED <<counters, pc, usage, ms, shown>>

eval_ms ==
  /\ Evaluated /\ ms = -1
  /\ ms' = uptime_ms % Second
  /\ UNCHANGED <<counters, pc, usage, s, shown>>

(* xsprintf and fb_print.                                                  *)
print ==
  /\ pc = "args" /\ s >= 0 /\ ms >= 0
  /\ shown' = s * Second + ms
  /\ s' = -1 /\ ms' = -1
  /\ pc' = "shown"
  /\ UNCHANGED <<counters, usage, began>>

return ==
  /\ pc = "shown"
  /\ pc' = "loop"
  /\ UNCHANGED <<counters, usage, line>>

Next ==
  \/ irq0_handler \/ scheduler_init
  \/ htop_total \/ htop_idle \/ htop_usage \/ sysinfo_draw
  \/ eval_seconds \/ eval_ms \/ print \/ return
Spec == Init /\ [][Next]_vars
-----------------------------------------------------------------------------
(* The counters and what is shown of them; the bar of the percentage has   *)
(* twenty places, one for each five percent.                               *)
TypeOK ==
  /\ {kernel_ticks, idle_ticks, total, idle, shown, began} \subseteq Nat
  /\ pc \in {"boot", "loop", "total", "idle", "args", "shown"}
  /\ {s, ms} \subseteq Nat \cup {-1}
  /\ cpu_usage \in 0 .. 100

(* The counters are read one after the other, and a tick in between makes  *)
(* the later one too large: the usage shown may then be too small, but is  *)
(* never more than the share of busy ticks at the first read.              *)
UsageNotOverstated ==
  pc \in {"args", "shown"} /\ total > 0 => cpu_usage * total <= 100 * (kernel_ticks - idle_ticks)

(* The uptime shown is less than a second from the moments it was read at. *)
UptimeWithinSecond ==
  pc = "shown" => shown > began - Second /\ shown < kernel_ticks + Second

(* The uptime shown is that of a moment between the reads.                 *)
(* Does not hold: README, section 5.                                       *)
UptimeIsAMoment ==
  pc = "shown" => shown \in began .. kernel_ticks
=============================================================================
