---------------------------- MODULE Checkpoint -----------------------------
(***************************************************************************)
(* Checkpoints (src/lib/tst_checkpoint.c): a waker calls                   *)
(* TST_CHECKPOINT_WAKE2(id, NrWake), or TST_CHECKPOINT_WAKE(id) when       *)
(* NrWake is 1, and waiters call TST_CHECKPOINT_WAIT(id), for id 0, 1, 2   *)
(* and so on. A checkpoint is a futex whose value never changes, so a wait *)
(* always sleeps and a wake that comes too early finds nobody: the waker   *)
(* retries until it has woken as many sleepers as it was asked to.         *)
(*                                                                         *)
(* The futex is external, modelled by the set of its sleepers. How long a  *)
(* millisecond is, is a choice.                                            *)
(***************************************************************************)
EXTENDS Naturals, FiniteSets

CONSTANTS Waiters,      \* processes that wait
          NrWake,       \* number of processes the waker asks for
          Rounds,       \* bound: number of checkpoints used
          MaxFutexes,   \* tst_max_futexes, 0 without needs_checkpoints
          MaxSignals    \* bound: number of signals a waiter gets

ASSUME WaitersAssumption == IsFiniteSet(Waiters)
ASSUME CheckpointAssumption == /\ NrWake \in Nat
                               /\ Rounds \in Nat
                               /\ MaxFutexes \in Nat
                               /\ MaxSignals \in Nat

VARIABLES pc,           \* waiters: "run", "enter", "asleep", "woken", "brk"
          id,           \* the checkpoint a waiter is at or goes to next
          signals,      \* signals delivered to a waiter
          wpc,          \* the waker: "run", "futex", "usleep", "brk"
          wid,          \* the checkpoint the waker is at or goes to next
          waked,        \* the local variable of tst_checkpoint_wake()
          released      \* history: who was woken from each checkpoint

waiter == <<pc, id, signals>>
waker == <<wpc, wid, waked>>
vars == <<waiter, waker, released>>

Ids == 0 .. Rounds

Init == /\ pc = [w \in Waiters |-> "run"]
        /\ id = [w \in Waiters |-> 0]
        /\ signals = [w \in Waiters |-> 0]
        /\ wpc = "run"
        /\ wid = 0
        /\ waked = 0
        /\ released = [i \in Ids |-> {}]

(* tst_safe_checkpoint_wait(): an id out of range is TBROK.                *)
Wait(w) ==
  /\ pc[w] = "run" /\ id[w] < Rounds
  /\ pc' = [pc EXCEPT ![w] = IF id[w] >= MaxFutexes THEN "brk" ELSE "enter"]
  /\ UNCHANGED <<id, signals, waker, released>>

FutexWait(w) ==
  /\ pc[w] = "enter"
  /\ pc' = [pc EXCEPT ![w] = "asleep"]
  /\ UNCHANGED <<id, signals, waker, released>>

\* mutant: EINTR ends the wait
InterruptReturns(w) ==
  /\ pc[w] = "asleep" /\ signals[w] < MaxSignals
  /\ pc' = [pc EXCEPT ![w] = "woken"]
  /\ signals' = [signals EXCEPT ![w] = @ + 1]
  /\ UNCHANGED <<id, waker, released>>

(* EINTR: the waiter leaves the queue and calls the futex again.           *)
Interrupt(w) ==
  /\ pc[w] = "asleep" /\ signals[w] < MaxSignals
  /\ pc' = [pc EXCEPT ![w] = "enter"]
  /\ signals' = [signals EXCEPT ![w] = @ + 1]
  /\ UNCHANGED <<id, waker, released>>

WaitTimeout(w) ==
  /\ pc[w] = "asleep"
  /\ pc' = [pc EXCEPT ![w] = "brk"]
  /\ UNCHANGED <<id, signals, waker, released>>

\* mutant: a woken waiter goes back a checkpoint
WokenBack(w) ==
  /\ pc[w] = "woken"
  /\ pc' = [pc EXCEPT ![w] = "run"]
  /\ id' = [id EXCEPT ![w] = @ - 1]
  /\ UNCHANGED <<signals, waker, released>>

Woken(w) ==
  /\ pc[w] = "woken"
  /\ pc' = [pc EXCEPT ![w] = "run"]
  /\ id' = [id EXCEPT ![w] = @ + 1]
  /\ UNCHANGED <<signals, waker, released>>

\* mutant: waked is not reset
WakeNoReset ==
  /\ wpc = "run" /\ wid < Rounds
  /\ wpc' = IF wid >= MaxFutexes THEN "brk" ELSE "futex"
  /\ UNCHANGED <<wid, waked, waiter, released>>

(* tst_safe_checkpoint_wake()                                              *)
Wake ==
  /\ wpc = "run" /\ wid < Rounds
  /\ wpc' = IF wid >= MaxFutexes THEN "brk" ELSE "futex"
  /\ waked' = 0
  /\ UNCHANGED <<wid, waiter, released>>

Sleepers(i) == {w \in Waiters : pc[w] = "asleep" /\ id[w] = i}

\* mutant: any number of woken processes will do
FutexWakeAny ==
  /\ wpc = "futex"
  /\ LET woken == Sleepers(wid)
     IN  /\ pc' = [w \in Waiters |-> IF w \in woken THEN "woken" ELSE pc[w]]
         /\ released' = [released EXCEPT ![wid] = @ \cup woken]
         /\ waked' = waked + Cardinality(woken)
  /\ \/ waked' > 0 /\ wpc' = "run" /\ wid' = wid + 1
     \/ waked' = 0 /\ wpc' = "usleep" /\ UNCHANGED wid
  /\ UNCHANGED <<id, signals>>

\* mutant: only the latest attempt counts
FutexWakeLatest ==
  /\ wpc = "futex"
  /\ LET woken == Sleepers(wid)
     IN  /\ pc' = [w \in Waiters |-> IF w \in woken THEN "woken" ELSE pc[w]]
         /\ released' = [released EXCEPT ![wid] = @ \cup woken]
         /\ waked' = Cardinality(woken)
  /\ \/ waked' = NrWake /\ wpc' = "run" /\ wid' = wid + 1
     \/ waked' # NrWake /\ wpc' = "usleep" /\ UNCHANGED wid
  /\ UNCHANGED <<id, signals>>

(* FUTEX_WAKE with INT_MAX: whoever sleeps is woken.                       *)
FutexWake ==
  /\ wpc = "futex"
  /\ LET woken == Sleepers(wid)
     IN  /\ pc' = [w \in Waiters |-> IF w \in woken THEN "woken" ELSE pc[w]]
         /\ released' = [released EXCEPT ![wid] = @ \cup woken]
         /\ waked' = waked + Cardinality(woken)
  /\ \/ waked' = NrWake /\ wpc' = "run" /\ wid' = wid + 1
     \/ waked' # NrWake /\ wpc' = "usleep" /\ UNCHANGED wid
  /\ UNCHANGED <<id, signals>>

(* usleep(1000), and the timeout of the whole call.                        *)
Retry ==
  /\ wpc = "usleep"
  /\ wpc' \in {"futex", "brk"}
  /\ UNCHANGED <<wid, waked, waiter, released>>

WaiterStep(w) == Wait(w) \/ FutexWait(w) \/ Woken(w)

Next == \/ Wake \/ FutexWake \/ Retry
        \/ \E w \in Waiters : WaiterStep(w) \/ Interrupt(w) \/ WaitTimeout(w)

Spec == Init /\ [][Next]_vars

(* The processes are scheduled; signals and timeouts need not happen.      *)
FairSpec == /\ Spec
            /\ WF_vars(Wake \/ FutexWake \/ Retry)
            /\ \A w \in Waiters : WF_vars(WaiterStep(w))

-----------------------------------------------------------------------------
TypeOK == /\ pc \in [Waiters -> {"run", "enter", "asleep", "woken", "brk"}]
          /\ id \in [Waiters -> Ids]
          /\ signals \in [Waiters -> 0 .. MaxSignals]
          /\ wpc \in {"run", "futex", "usleep", "brk"}
          /\ wid \in Ids
          /\ waked \in Nat
          /\ released \in [Ids -> SUBSET Waiters]

(* A wake that returns has woken precisely NrWake processes, each of them  *)
(* once: neither a waiter that was interrupted in between nor one that     *)
(* went on to the next checkpoint is counted twice.                        *)
WakesPrecisely == \A i \in Ids : i < wid => Cardinality(released[i]) = NrWake

(* A waiter is past a checkpoint only if it was woken there, by the waker, *)
(* which is at that checkpoint or past it: no wait returns by itself.      *)
NoEarlyReturn == \A w \in Waiters, i \in Ids :
                   i < id[w] => i <= wid /\ w \in released[i]

(* With as many waiters as the waker asks for, a checkpoint is a meeting:  *)
(* the waker gets past it only after every waiter has come to it.          *)
Meeting == NrWake = Cardinality(Waiters) =>
             \A w \in Waiters : wid <= id[w] + (IF pc[w] = "woken" THEN 1 ELSE 0)

(* Somebody's timeout has expired at a checkpoint that exists.             *)
TimedOut == \/ wpc = "brk" /\ wid < MaxFutexes
            \/ \E w \in Waiters : pc[w] = "brk" /\ id[w] < MaxFutexes

(* No wakeup is lost: whoever comes first, waker and waiters all come past *)
(* all the checkpoints there are, unless a timeout expires on the way.     *)
AllMeet == <>(\/ TimedOut
              \/ \A i \in Ids : i < Rounds /\ i < MaxFutexes =>
                    i < wid /\ \A w \in Waiters : i < id[w])
=============================================================================
