------------------------------ MODULE ZooBag -------------------------------
(***************************************************************************)
(* What the active file of src/pan/zoolib.c promises its users: a bag of   *)
(* pids, to which zoo_mark() adds one and from which zoo_clear() takes one *)
(* away, each at once.  No entry is lost because two processes write at    *)
(* the same time, and none is written twice.                               *)
(***************************************************************************)
EXTENDS Naturals

CONSTANT Pids

VARIABLE entries        \* how many entries a pid has

Init == entries = [q \in Pids |-> 0]

Mark(q) == entries' = [entries EXCEPT ![q] = @ + 1]

Clear(q) == entries[q] > 0 /\ entries' = [entries EXCEPT ![q] = @ - 1]

Next == \E q \in Pids : Mark(q) \/ Clear(q)

Spec == Init /\ [][Next]_entries
============================================================================
