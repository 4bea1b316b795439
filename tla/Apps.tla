-------------------------------- MODULE Apps --------------------------------
(***************************************************************************)
(* The application registry (kernel/tasking/app.c) and what ties an        *)
(* application to its window and its task: launching it from the desktop   *)
(* or by a command, finding it again by its window's title for every key,  *)
(* and closing it.  All of it runs in the desktop loop, a call per step.   *)
(*                                                                         *)
(* A window is named by the number of wm_add_window's call; its place in   *)
(* the z-order and the list's links are in WindowManager and Scheduler.    *)
(***************************************************************************)
EXTENDS CString

CONSTANTS BootOrder,    \* the applications, in the order shell_loop registers them
          Name, Title,  \* their strings
          Terminal, Editor,
          Suffixes,     \* what yano puts behind its name: " - " and a file
          MAX_APPS, MAX_WINDOWS,
          BaseTasks,    \* tasks scheduler_init has created: 3
          ExitPid,      \* the pid that exit destroys: 43
          MaxPid        \* bound: tasks ever created

App == {BootOrder[k] : k \in DOMAIN BootOrder}

Distinct == {Terminal, Editor} \subseteq App /\ Terminal # Editor
SizesOK ==
  /\ {MAX_APPS, MAX_WINDOWS, BaseTasks, ExitPid, MaxPid} \subseteq Nat
  /\ BootOrder \in Seq(App) /\ Len(BootOrder) <= MAX_APPS /\ MAX_WINDOWS > 0

(* No application is registered twice, two have different names, and no    *)
(* title is the beginning of another's.                                    *)
Beginning(s, t) == Len(s) <= Len(t) /\ \A i \in 1 .. Len(s) : s[i] = t[i]
StringsOK ==
  /\ \A j, k \in DOMAIN BootOrder : BootOrder[j] = BootOrder[k] => j = k
  /\ \A a \in App : Name[a] \in Seq(Nat \ {0}) /\ Title[a] \in Seq(Nat \ {0})
  /\ Suffixes \subseteq Seq(Nat \ {0})
  /\ \A a, b \in App : a # b => Name[a] # Name[b] /\ ~Beginning(Title[a], Title[b])

VARIABLES
  registry,
  windows,        \* application and closed flag of every window ever added
  active,         \* the active window, 0 for NULL
  window_title,   \* yano's static title, which all its windows point to
  tasks,          \* pids on the list, with (history) the window of the launch
  next_pid,
  pc              \* "boot", "loop"

vars == <<registry, windows, active, window_title, tasks, next_pid, pc>>

Init ==
  /\ registry = <<>>
  /\ windows = <<>> /\ active = 0
  /\ window_title = <<>>
  /\ tasks = {[pid |-> p, win |-> 0] : p \in 1 .. BaseTasks}
  /\ next_pid = BaseTasks + 1
  /\ pc = "boot"
-----------------------------------------------------------------------------
(* The first entry of the registry that a search accepts, if any.          *)
FirstApp(accepted) ==
  LET found == {k \in DOMAIN registry : registry[k] \in accepted}
  IN IF found = {} THEN {} ELSE {registry[CHOOSE k \in found : \A j \in found : k <= j]}

app_find(name) == FirstApp({a \in App : strcmp(Name[a], name) = 0})

app_find_by_title_WholeTitle(title) ==
  FirstApp({a \in App : strncmp(Title[a], title, Len(title)) = 0})

app_find_by_title(title) ==
  FirstApp({a \in App : \/ strcmp(Title[a], title) = 0
                      \/ strncmp(Title[a], title, Len(Title[a])) = 0})

app_register(a) == IF Len(registry) < MAX_APPS THEN Append(registry, a) ELSE registry

(* wm_add_window and sys_create_task, which every launch calls, with or    *)
(* without a slot for the window; yano writes its title first.             *)
launch(a, suffix) ==
  /\ next_pid <= MaxPid
  /\ IF Len(windows) >= MAX_WINDOWS
     THEN /\ UNCHANGED <<windows, active>>
          /\ tasks' = tasks \cup {[pid |-> next_pid, win |-> 0]}
     ELSE /\ windows' = Append(windows, [app |-> a, closed |-> FALSE])
          /\ active' = Len(windows) + 1
          /\ tasks' = tasks \cup {[pid |-> next_pid, win |-> Len(windows) + 1]}
  /\ next_pid' = next_pid + 1
  /\ window_title' = IF a = Editor THEN Title[a] \o suffix ELSE window_title
  /\ UNCHANGED <<registry, pc>>

(* shell_loop, before it loops: registration, and the terminal's window.   *)
register ==
  /\ pc = "boot"
  /\ registry' = app_register(BootOrder[Len(registry) + 1])
  /\ pc' = IF Len(registry) + 1 = Len(BootOrder) THEN "start" ELSE "boot"
  /\ UNCHANGED <<windows, active, window_title, tasks, next_pid>>

boot_terminal ==
  /\ pc = "start"
  /\ pc' = "loop"
  /\ IF app_find(Name[Terminal]) = {}
     THEN UNCHANGED <<windows, active, tasks, next_pid>>
     ELSE /\ windows' = <<[app |-> Terminal, closed |-> FALSE]>>
          /\ active' = 1
          /\ tasks' = tasks \cup {[pid |-> next_pid, win |-> 1]}
          /\ next_pid' = next_pid + 1
  /\ UNCHANGED <<registry, window_title>>

(* Icons, the start menu, the context menu and the explorer.               *)
desktop_launch ==
  /\ pc = "loop"
  /\ \E b \in App, suffix \in Suffixes : \E a \in app_find(Name[b]) : launch(a, suffix)

(* A key goes to the handler of the application found by the title of the  *)
(* active window; yano's windows share a title.                            *)
TitleOf(w) == IF windows[w].app = Editor THEN window_title ELSE Title[windows[w].app]
Handles(a) ==
  /\ pc = "loop"
  /\ active # 0 /\ ~windows[active].closed
  /\ a \in app_find_by_title(TitleOf(active))

(* The terminal's command with the name of an application.                 *)
command_launch ==
  /\ Handles(Terminal)
  /\ \E b \in App \ {Terminal}, suffix \in Suffixes : \E a \in app_find(Name[b]) : launch(a, suffix)

(* exit closes the window the key went to and destroys one fixed task.     *)
exit ==
  /\ Handles(Terminal)
  /\ windows' = [windows EXCEPT ![active].closed = TRUE]
  /\ tasks' = {t \in tasks : t.pid # ExitPid}
  /\ UNCHANGED <<registry, active, window_title, next_pid, pc>>

(* Ctrl+X in yano.                                                         *)
yano_exit ==
  /\ Handles(Editor)
  /\ windows' = [windows EXCEPT ![active].closed = TRUE]
  /\ UNCHANGED <<registry, active, window_title, tasks, next_pid, pc>>

(* wm_handle_mouse: the close box, after which the search for another open *)
(* window sets the focus; and a click that raises a window.                *)
Open(ws) == {w \in DOMAIN ws : ~ws[w].closed}
close(w) ==
  /\ pc = "loop"
  /\ windows' = [windows EXCEPT ![w].closed = TRUE]
  /\ active' \in IF active # w THEN {active}
                 ELSE IF Open(windows') = {} THEN {0} ELSE Open(windows')
  /\ UNCHANGED <<registry, window_title, tasks, next_pid, pc>>

focus(w) ==
  /\ pc = "loop"
  /\ active' = w
  /\ UNCHANGED <<registry, windows, window_title, tasks, next_pid, pc>>

Next ==
  \/ register \/ boot_terminal
  \/ desktop_launch \/ command_launch \/ exit \/ yano_exit
  \/ \E w \in Open(windows) : close(w) \/ focus(w)
Spec == Init /\ [][Next]_vars
-----------------------------------------------------------------------------
(* The tables keep their sizes, whatever is registered and launched.       *)
TypeOK ==
  /\ Len(registry) <= MAX_APPS /\ registry \in Seq(App)
  /\ Len(windows) <= MAX_WINDOWS
  /\ active \in 0 .. Len(windows)
  /\ \A t \in tasks : t.pid < next_pid /\ t.win \in 0 .. Len(windows)

(* Once the desktop runs, every application is found by its name: what an  *)
(* icon, a menu entry or a command names is what it launches.              *)
AppsAreFound ==
  pc = "loop" => \A a \in App : app_find(Name[a]) = {a}

(* The title of an open window leads back to the application that opened   *)
(* it, whatever was launched since: a file name that looks like another    *)
(* application's title, or a later yano that rewrote the shared title,     *)
(* sends no key to another application.                                    *)
KeysReachOwner ==
  \A w \in Open(windows) : app_find_by_title(TitleOf(w)) = {windows[w].app}

(* exit, "Close terminal", ends at most the task of the window it closes.  *)
(* Does not hold: README, section 5.                                       *)
ExitEndsOwnTask ==
  [][exit => \A t \in tasks \ tasks' : t.win = active]_vars

(* The command that answers "Launched" has opened a window.                *)
(* Does not hold: README, section 5.                                       *)
LaunchedHasWindow ==
  [][command_launch => Len(windows') = Len(windows) + 1]_vars
=============================================================================
