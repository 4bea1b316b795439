-------------------------- MODULE MCWindowManager ---------------------------
(* Alt+Tab as a function of the array and the pointer, iterated.           *)
EXTENDS WindowManager

TopOpen(ws) == CHOOSE t \in Used \cup {NULL} : IsTopOpen(ws, t)

AfterCycle(st) ==
  IF st.active = NULL \/ window_count <= 1 THEN st
  ELSE LET shifted == ToFront(st.windows, st.active)
           top == TopOpen(shifted)
       IN  [windows |-> shifted, active |-> top]

AfterCycles[k \in 0 .. window_count] ==
  IF k = 0 THEN [windows |-> windows, active |-> active_window]
  ELSE AfterCycle(AfterCycles[k - 1])

(* Alt+Tab reaches every open window: pressed at most window_count times   *)
(* in a row, wm_cycle_depth gives each of them the focus.                  *)
AltTabReachesAll ==
  \A i \in Used : Open(i) =>
    \E k \in 0 .. window_count :
      LET st == AfterCycles[k]
      IN  st.active # NULL /\ st.windows[st.active].id = windows[i].id
=============================================================================
