------------------------- MODULE CheckpointProofs --------------------------
(***************************************************************************)
(* Proofs about Checkpoint for any finite set of waiters, any NrWake and   *)
(* any number of checkpoints, with signals and timeouts.                   *)
(*                                                                         *)
(* The waker counts return values of the futex, it does not know whom it   *)
(* woke. The invariant ties its count to the set of those it woke: whoever *)
(* is asleep at a checkpoint has not been woken from it before, so adding  *)
(* the return value never counts a process twice.                          *)
(***************************************************************************)
EXTENDS Checkpoint, FiniteSetTheorems, TLAPS

\* Leaves are for Zenon, unless they name another prover.
USE ZenonT(30)

(* A waiter is among the released of a checkpoint from its wakeup on.      *)
ReleasedInv == \A w \in Waiters, i \in Ids :
                 w \in released[i] <=> i < id[w] \/ (i = id[w] /\ pc[w] = "woken")

(* The waker's count, and the checkpoints it has yet to come to.           *)
CountInv == /\ wpc \in {"futex", "usleep"} =>
                 wid < Rounds /\ waked = Cardinality(released[wid])
            /\ wpc = "run" => released[wid] = {}
            /\ \A i \in Ids : i > wid => released[i] = {}

BusyInv == \A w \in Waiters : pc[w] \in {"enter", "asleep", "woken"} => id[w] < Rounds

IInv == TypeOK /\ ReleasedInv /\ CountInv /\ BusyInv /\ WakesPrecisely

LEMMA InitIInv == Init => IInv
  BY CheckpointAssumption, FS_EmptySet, SMTT(30)
  DEF Init, IInv, TypeOK, ReleasedInv, CountInv, BusyInv, WakesPrecisely, Ids

(* Adding the return value of FUTEX_WAKE to a correct count keeps it so.   *)
LEMMA CountAdds ==
  ASSUME IInv, wpc = "futex"
  PROVE  /\ Cardinality(released[wid] \cup Sleepers(wid))
              = Cardinality(released[wid]) + Cardinality(Sleepers(wid))
         /\ Cardinality(released[wid]) \in Nat
         /\ Cardinality(Sleepers(wid)) \in Nat
<1>1. released[wid] \subseteq Waiters /\ Sleepers(wid) \subseteq Waiters
  BY DEF IInv, TypeOK, Sleepers
<1>2. IsFiniteSet(released[wid]) /\ IsFiniteSet(Sleepers(wid))
  BY <1>1, WaitersAssumption, FS_Subset
<1>3. released[wid] \cap Sleepers(wid) = {}
  <2> SUFFICES ASSUME NEW w \in Waiters, w \in released[wid], w \in Sleepers(wid)
               PROVE  FALSE
    BY <1>1
  <2>1. pc[w] = "asleep" /\ id[w] = wid /\ wid \in Ids /\ wid \in Nat
    BY CheckpointAssumption, SMTT(30) DEF Sleepers, IInv, TypeOK, Ids
  <2> QED
    BY <2>1, SMTT(30) DEF IInv, ReleasedInv
<1>4. Cardinality(released[wid] \cap Sleepers(wid)) = 0
  BY <1>3, FS_EmptySet
<1>5. Cardinality(released[wid]) \in Nat /\ Cardinality(Sleepers(wid)) \in Nat
  BY <1>2, FS_CardinalityType
<1>6. Cardinality(released[wid] \cup Sleepers(wid))
        = Cardinality(released[wid]) + Cardinality(Sleepers(wid))
            - Cardinality(released[wid] \cap Sleepers(wid))
  BY <1>2, FS_Union
<1> QED
  BY <1>4, <1>5, <1>6, SMTT(30)

LEMMA FutexWakeStep ==
  ASSUME IInv, FutexWake
  PROVE  IInv'
<1> DEFINE S == Sleepers(wid)
<1> USE CheckpointAssumption
<1>1. TypeOK /\ ReleasedInv /\ CountInv /\ BusyInv /\ WakesPrecisely
  BY DEF IInv
<1>2. /\ wpc = "futex" /\ wid \in Nat /\ wid < Rounds /\ waked = Cardinality(released[wid])
      /\ pc' = [w \in Waiters |-> IF w \in S THEN "woken" ELSE pc[w]]
      /\ released' = [released EXCEPT ![wid] = @ \cup S]
      /\ waked' = waked + Cardinality(S)
      /\ UNCHANGED <<id, signals>>
      /\ \/ waked' = NrWake /\ wpc' = "run" /\ wid' = wid + 1
         \/ waked' # NrWake /\ wpc' = "usleep" /\ wid' = wid
  BY <1>1, SMTT(30) DEF FutexWake, CountInv, TypeOK, Ids
<1>3. S \subseteq Waiters /\ \A w \in Waiters : w \in S <=> pc[w] = "asleep" /\ id[w] = wid
  BY DEF Sleepers
<1>4. /\ waked' = Cardinality(released'[wid]) /\ waked' \in Nat
      /\ \A i \in Ids : i # wid => released'[i] = released[i]
  BY <1>1, <1>2, CountAdds, SMTT(30) DEF TypeOK
<1> HIDE DEF S
<1>5. TypeOK'
  BY <1>1, <1>2, <1>3, <1>4, SMTT(30) DEF TypeOK, Ids
<1>6. ReleasedInv'
  BY <1>1, <1>2, <1>3 DEF TypeOK, ReleasedInv, Ids
<1>7. CountInv'
  BY <1>1, <1>2, <1>4, SMTT(30) DEF TypeOK, CountInv, Ids
<1>8. BusyInv'
  BY <1>1, <1>2, <1>3 DEF TypeOK, BusyInv
<1>9. WakesPrecisely'
  BY <1>1, <1>2, <1>4, SMTT(30) DEF TypeOK, WakesPrecisely, Ids
<1> QED
  BY <1>5, <1>6, <1>7, <1>8, <1>9 DEF IInv

(* The waker's other steps, and those of a waiter.                         *)
LEMMA OtherStep ==
  ASSUME IInv,
         \/ Wake \/ Retry \/ UNCHANGED vars
         \/ \E w \in Waiters : WaiterStep(w) \/ Interrupt(w) \/ WaitTimeout(w)
  PROVE  IInv'
<1> USE CheckpointAssumption
<1>1. TypeOK /\ ReleasedInv /\ CountInv /\ BusyInv /\ WakesPrecisely
  BY DEF IInv
<1>2. CASE Wake \/ Retry \/ UNCHANGED vars
  <2>1. CASE Wake
    BY <1>1, <2>1, FS_EmptySet
    DEF Wake, IInv, TypeOK, ReleasedInv, CountInv, BusyInv, WakesPrecisely, waiter
  <2>2. CASE Retry
    BY <1>1, <2>2
    DEF Retry, IInv, TypeOK, ReleasedInv, CountInv, BusyInv, WakesPrecisely, waiter
  <2>3. CASE UNCHANGED vars
    BY <1>1, <2>3
    DEF IInv, TypeOK, ReleasedInv, CountInv, BusyInv, WakesPrecisely, vars, waiter, waker,
        Sleepers
  <2> QED
    BY <1>2, <2>1, <2>2, <2>3
<1>3. ASSUME NEW w \in Waiters, WaiterStep(w) \/ Interrupt(w) \/ WaitTimeout(w)
      PROVE  IInv'
  <2>1. UNCHANGED <<waker, released>>
    BY <1>3 DEF WaiterStep, Wait, FutexWait, Woken, Interrupt, WaitTimeout
  <2>2. TypeOK' /\ BusyInv'
    <3>1. CASE Wait(w) \/ FutexWait(w) \/ WaitTimeout(w)
      BY <1>1, <2>1, <3>1 DEF Wait, FutexWait, WaitTimeout, TypeOK, BusyInv, waker
    <3>2. CASE Woken(w)
      BY <1>1, <2>1, <3>2, SMTT(30) DEF Woken, TypeOK, BusyInv, Ids, waker
    <3>3. CASE Interrupt(w)
      BY <1>1, <2>1, <3>3, SMTT(30) DEF Interrupt, TypeOK, BusyInv, waker
    <3> QED
      BY <1>3, <3>1, <3>2, <3>3 DEF WaiterStep
  <2>3. ReleasedInv'
    <3>1. CASE Wait(w) \/ FutexWait(w) \/ WaitTimeout(w)
      BY <1>1, <3>1, SMTT(30) DEF Wait, FutexWait, WaitTimeout, TypeOK, ReleasedInv, Ids
    <3>2. CASE Woken(w)
      BY <1>1, <3>2, SMTT(30) DEF Woken, TypeOK, ReleasedInv, Ids
    <3>3. CASE Interrupt(w)
      BY <1>1, <3>3 DEF Interrupt, TypeOK, ReleasedInv, Ids
    <3> QED
      BY <1>3, <3>1, <3>2, <3>3 DEF WaiterStep
  <2>4. CountInv' /\ WakesPrecisely'
    BY <1>1, <2>1 DEF CountInv, WakesPrecisely, waker
  <2> QED
    BY <2>2, <2>3, <2>4 DEF IInv
<1> QED
  BY <1>2, <1>3

(* The invariant holds in every reachable state.                           *)
THEOREM Invariance == Spec => []IInv
<1>1. IInv /\ [Next]_vars => IInv'
  BY FutexWakeStep, OtherStep DEF Next
<1> QED
  BY <1>1, InitIInv, PTL DEF Spec

(* The places, checkpoints and counts of waiters and waker stay in range.  *)
THEOREM TypeCorrect == Spec => []TypeOK
<1>1. IInv => TypeOK
  BY DEF IInv
<1> QED
  BY <1>1, Invariance, PTL

(* A wake that returns has woken precisely NrWake processes.               *)
THEOREM Precise == Spec => []WakesPrecisely
<1>1. IInv => WakesPrecisely
  BY DEF IInv
<1> QED
  BY <1>1, Invariance, PTL

(* A wait returns only because the waker woke it.                          *)
THEOREM NoSpuriousReturn == Spec => []NoEarlyReturn
<1>1. IInv => NoEarlyReturn
  BY CheckpointAssumption, SMTT(30)
  DEF IInv, NoEarlyReturn, ReleasedInv, CountInv, TypeOK, Ids
<1> QED
  BY <1>1, Invariance, PTL

(* A checkpoint for as many waiters as there are is a meeting point.       *)
THEOREM MeetingHolds == Spec => []Meeting
<1>1. IInv => Meeting
  <2> SUFFICES ASSUME IInv, NrWake = Cardinality(Waiters), NEW w \in Waiters
               PROVE  wid <= id[w] + (IF pc[w] = "woken" THEN 1 ELSE 0)
    BY DEF Meeting
  <2>1. wid \in Nat /\ id[w] \in Nat
    BY CheckpointAssumption, SMTT(30) DEF IInv, TypeOK, Ids
  <2>2. CASE wid = 0
    BY <2>1, <2>2, SMTT(30)
  <2>3. CASE wid > 0
    <3>1. wid - 1 \in Ids /\ wid - 1 < wid
      BY <2>1, <2>3, CheckpointAssumption, SMTT(30) DEF IInv, TypeOK, Ids
    <3>2. released[wid - 1] \subseteq Waiters
          /\ Cardinality(released[wid - 1]) = Cardinality(Waiters)
      BY <3>1 DEF IInv, TypeOK, WakesPrecisely
    <3>3. released[wid - 1] = Waiters
      BY <3>2, WaitersAssumption, FS_Subset
    <3>4. wid - 1 < id[w] \/ (wid - 1 = id[w] /\ pc[w] = "woken")
      BY <3>1, <3>3 DEF IInv, ReleasedInv
    <3> QED
      BY <2>1, <3>4, SMTT(30)
  <2> QED
    BY <2>1, <2>2, <2>3, SMTT(30)
<1> QED
  BY <1>1, Invariance, PTL
=============================================================================
