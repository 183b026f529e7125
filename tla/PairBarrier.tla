---------------------------- MODULE PairBarrier ----------------------------
(***************************************************************************)
(* What tst_fzsync_pair_wait() promises to two threads that call it again  *)
(* and again: a thread leaves its n-th call only once the other one has    *)
(* begun its n-th call (src/doc/test-writing-guidelines.txt:2094, "neither *)
(* thread can progress until the other has caught up with it").            *)
(***************************************************************************)
EXTENDS Naturals

VARIABLES entered,      \* number of calls each thread has begun
          left          \* number of calls each thread has returned from

vars == <<entered, left>>

Threads == {"A", "B"}

Other(t) == IF t = "A" THEN "B" ELSE "A"

Init == /\ entered = [t \in Threads |-> 0]
        /\ left = [t \in Threads |-> 0]

Enter(t) == /\ left[t] = entered[t]
            /\ entered' = [entered EXCEPT ![t] = @ + 1]
            /\ UNCHANGED left

Leave(t) == /\ left[t] < entered[t]
            /\ entered[t] <= entered[Other(t)]
            /\ left' = [left EXCEPT ![t] = @ + 1]
            /\ UNCHANGED entered

(* tst_fzsync_pair_reset() starts a new pair of threads.                   *)
Restart == /\ entered' = [t \in Threads |-> 0]
           /\ left' = [t \in Threads |-> 0]

Next == Restart \/ \E t \in Threads : Enter(t) \/ Leave(t)

Spec == Init /\ [][Next]_vars
=============================================================================
