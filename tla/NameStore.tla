----------------------------- MODULE NameStore ------------------------------
(***************************************************************************)
(* What a file store promises: each name has at most one content, and an   *)
(* operation on one name leaves the contents of all the others alone.      *)
(* store[n] is the set of the contents of name n: empty when there is no   *)
(* such file, else a singleton.                                            *)
(***************************************************************************)
CONSTANTS Names, Data

VARIABLE store

Init ==
  /\ DOMAIN store = Names
  /\ \A n \in Names : store[n] = {} \/ \E d \in store[n] : d \in Data /\ store[n] = {d}

Put(n) == \E d \in store'[n] : d \in Data /\ store' = [store EXCEPT ![n] = {d}]

Remove(n) == store[n] # {} /\ store' = [store EXCEPT ![n] = {}]

Next == \E n \in Names : Put(n) \/ Remove(n)

Spec == Init /\ [][Next]_store
=============================================================================
