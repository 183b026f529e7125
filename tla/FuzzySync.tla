----------------------------- MODULE FuzzySync -----------------------------
(***************************************************************************)
(* The fuzzy synchronisation library (src/include/tst_fuzzy_sync.h): a     *)
(* test's main thread A and a thread B it starts run their loops in        *)
(* lockstep,                                                               *)
(*                                                                         *)
(*   A: while (run_a) { start_race_a; <race> end_race_a; }                 *)
(*   B: while (run_b) { start_race_b; <race> end_race_b; }                 *)
(*                                                                         *)
(* through tst_fzsync_pair_wait(), two counters that wrap at INT_MAX.      *)
(* Every access to an atomic field is one step; the accesses to the plain  *)
(* fields (spins, delay, the time stamps) are those of Writes and Reads.   *)
(* Times are not modelled: how long a race took, and hence the averages,   *)
(* are a choice.                                                           *)
(***************************************************************************)
EXTENDS Integers

CONSTANTS MaxInt,       \* INT_MAX, the value the counters wrap at
          MinSamples,   \* pair->min_samples
          ExecLoops,    \* pair->exec_loops
          MaxResets,    \* bound: calls of the test function (-i)
          MaxBias,      \* bound: |delay_bias| the test builds up
          Breakers      \* the threads in which a test may call tst_brk()

ASSUME MaxIntAssumption == MaxInt \in Nat /\ MaxInt >= 2
ASSUME BoundsAssumption == /\ MinSamples \in Nat \ {0}
                           /\ ExecLoops \in Nat
                           /\ MaxResets \in Nat
                           /\ MaxBias \in Nat
                           /\ Breakers \subseteq {"A", "B"}

VARIABLES cntr,         \* cntr["A"] is a_cntr, cntr["B"] is b_cntr
          op,           \* the library call a thread is in or makes next
          pc,           \* where in that call it is; "test" outside the library
          exit,         \* pair->exit
          exit_a,       \* the local variable exit of tst_fzsync_run_a()
          exec_loop,    \* pair->exec_loop
          sampling,     \* pair->sampling
          over,         \* some dev_ratio is above max_dev_ratio
          delay_bias,   \* pair->delay_bias
          delay,        \* pair->delay
          elapsed,      \* rem_p: "early", past the "slice", or "over"
          thread_b,     \* pair->thread_b is set
          cancelled,    \* pthread_cancel(thread_b) is pending
          after,        \* what follows tst_fzsync_pair_cleanup() in a thread
          resets,       \* number of calls of tst_fzsync_pair_reset()
          broke,        \* the threads that called tst_brk()
          calls,        \* history: the pair_wait calls begun since the reset,
          returns       \* and those returned from

stats == <<sampling, over, delay_bias, delay, elapsed>>
life == <<thread_b, cancelled, after, resets, broke>>
loop == <<exit_a, exec_loop>>
hist == <<calls, returns>>
vars == <<cntr, op, pc, exit, loop, stats, life, hist>>

Threads == {"A", "B"}
Other(t) == IF t = "A" THEN "B" ELSE "A"

Ops == {"run", "start", "end"}
NextOp(o) == CASE o = "run" -> "start" [] o = "start" -> "end" [] o = "end" -> "run"

(* Inside pair_wait: not yet incremented, the two loops of the wrap, the   *)
(* ordinary loop, and about to increment *spins in one of the loops.       *)
Waiting == {"full", "drain", "spin", "count_full", "count_spin"}
Looping == {"test", "pre", "inc", "tail"} \cup Waiting
Cleaning == {"clean", "cancel", "join"}

Jump(t, p) == pc' = [pc EXCEPT ![t] = p]

Init == /\ cntr = [t \in Threads |-> 0]
        /\ op = [t \in Threads |-> "run"]
        /\ pc = [t \in Threads |-> IF t = "A" THEN "idle" ELSE "gone"]
        /\ exit = 0
        /\ exit_a = 0
        /\ exec_loop = 0
        /\ sampling = 0
        /\ over = FALSE
        /\ delay_bias = 0
        /\ delay = 0
        /\ elapsed = "early"
        /\ thread_b = FALSE
        /\ cancelled = FALSE
        /\ after = [t \in Threads |-> "exit"]
        /\ resets = 0
        /\ broke = {}
        /\ calls = [t \in Threads |-> 0]
        /\ returns = [t \in Threads |-> 0]

-----------------------------------------------------------------------------
(* tst_fzsync_pair_wait(our_cntr, other_cntr, spins): only the caller      *)
(* writes other_cntr, so the two loads of a loop condition may be taken as *)
(* one. Only end_race passes a spins pointer.                              *)

\* mutant: the counter is not wrapped
IncNoWrap(t) ==
  /\ pc[t] = "inc"
  /\ cntr' = [cntr EXCEPT ![Other(t)] = @ + 1]
  /\ calls' = [calls EXCEPT ![t] = @ + 1]
  /\ Jump(t, IF cntr[Other(t)] + 1 > MaxInt THEN "full" ELSE "spin")
  /\ UNCHANGED <<op, exit, loop, stats, life, returns>>

Inc(t) ==
  /\ pc[t] = "inc"
  /\ cntr' = [cntr EXCEPT ![Other(t)] = @ + 1]
  /\ calls' = [calls EXCEPT ![t] = @ + 1]
  /\ Jump(t, IF cntr[Other(t)] + 1 = MaxInt THEN "full" ELSE "spin")
  /\ UNCHANGED <<op, exit, loop, stats, life, returns>>

(* The loop that waits for the other thread to be at the wrap too, then    *)
(* the store of zero.                                                      *)
FullLoop(t) == cntr[t] > 0 /\ cntr[t] < MaxInt

Full(t) ==
  /\ pc[t] = "full"
  /\ ~FullLoop(t)
  /\ cntr' = [cntr EXCEPT ![Other(t)] = 0]
  /\ Jump(t, "drain")
  /\ UNCHANGED <<op, exit, loop, stats, life, hist>>

\* mutant: after the wrap a thread does not wait for its counter's reset
DrainNoWait(t) ==
  /\ pc[t] = "drain"
  /\ returns' = [returns EXCEPT ![t] = @ + 1]
  /\ Jump(t, "tail")
  /\ UNCHANGED <<cntr, op, exit, loop, stats, life, calls>>

Drain(t) ==
  /\ pc[t] = "drain"
  /\ ~(cntr[t] > 1)
  /\ returns' = [returns EXCEPT ![t] = @ + 1]
  /\ Jump(t, "tail")
  /\ UNCHANGED <<cntr, op, exit, loop, stats, life, calls>>

SpinLoop(t) == cntr[t] < cntr[Other(t)]

\* mutant: the comparison of the counters is off by one
SpinOffByOne(t) ==
  /\ pc[t] = "spin"
  /\ cntr[t] + 1 >= cntr[Other(t)]
  /\ returns' = [returns EXCEPT ![t] = @ + 1]
  /\ Jump(t, "tail")
  /\ UNCHANGED <<cntr, op, exit, loop, stats, life, calls>>

Spin(t) ==
  /\ pc[t] = "spin"
  /\ ~SpinLoop(t)
  /\ returns' = [returns EXCEPT ![t] = @ + 1]
  /\ Jump(t, "tail")
  /\ UNCHANGED <<cntr, op, exit, loop, stats, life, calls>>

CountSpin(t) ==
  /\ op[t] = "end"
  /\ \/ pc[t] = "full" /\ FullLoop(t) /\ Jump(t, "count_full")
     \/ pc[t] = "spin" /\ SpinLoop(t) /\ Jump(t, "count_spin")
     \/ pc[t] = "count_full" /\ Jump(t, "full")
     \/ pc[t] = "count_spin" /\ Jump(t, "spin")
  /\ UNCHANGED <<cntr, op, exit, loop, stats, life, hist>>

PairWait(t) == Inc(t) \/ Full(t) \/ Drain(t) \/ Spin(t) \/ CountSpin(t)

-----------------------------------------------------------------------------
(* The calls a thread makes in its loop. Call leaves the test's code, the  *)
(* action after it is the part of the call that precedes pair_wait, and    *)
(* the Tail is the part that follows it.                                   *)

Enter(t) ==
  /\ pc[t] = "test"
  /\ Jump(t, "pre")
  /\ UNCHANGED <<cntr, op, exit, loop, stats, life, hist>>

\* mutant: the flag stored for thread B is set one round early
RunAStoresEarly ==
  /\ pc["A"] = "pre" /\ op["A"] = "run"
  /\ sampling' = IF elapsed # "early" /\ sampling > 0 THEN 0 ELSE sampling
  /\ exec_loop' = exec_loop + 1
  /\ exit_a' = IF elapsed = "over" \/ exec_loop + 1 > ExecLoops THEN 1 ELSE 0
  /\ exit' = IF elapsed = "over" \/ exec_loop + 1 >= ExecLoops THEN 1 ELSE 0
  /\ Jump("A", "inc")
  /\ UNCHANGED <<cntr, op, over, delay_bias, delay, elapsed, life, hist>>

(* tst_fzsync_run_a() up to its wait.                                      *)
RunA ==
  /\ pc["A"] = "pre" /\ op["A"] = "run"
  /\ sampling' = IF elapsed # "early" /\ sampling > 0 THEN 0 ELSE sampling
  /\ exec_loop' = exec_loop + 1
  /\ exit_a' = IF elapsed = "over" \/ exec_loop + 1 > ExecLoops THEN 1 ELSE 0
  /\ exit' = exit_a'
  /\ Jump("A", "inc")
  /\ UNCHANGED <<cntr, op, over, delay_bias, delay, elapsed, life, hist>>

RunATail ==
  /\ pc["A"] = "tail" /\ op["A"] = "run"
  /\ \/ /\ exit_a = 1
        /\ Jump("A", "clean")
        /\ after' = [after EXCEPT !["A"] = "return"]
        /\ UNCHANGED op
     \/ /\ exit_a = 0
        /\ Jump("A", "test")
        /\ op' = [op EXCEPT !["A"] = "start"]
        /\ UNCHANGED after
  /\ UNCHANGED <<cntr, exit, loop, stats, thread_b, cancelled, resets, broke, hist>>

(* tst_fzsync_run_b(); a thread B told to leave its loop returns.          *)
RunB ==
  /\ pc["B"] = "pre" /\ op["B"] = "run"
  /\ Jump("B", "inc")
  /\ UNCHANGED <<cntr, op, exit, loop, stats, life, hist>>

RunBTail ==
  /\ pc["B"] = "tail" /\ op["B"] = "run"
  /\ \/ exit = 1 /\ Jump("B", "gone") /\ UNCHANGED op
     \/ exit = 0 /\ Jump("B", "test") /\ op' = [op EXCEPT !["B"] = "start"]
  /\ UNCHANGED <<cntr, exit, loop, stats, life, hist>>

\* mutant: sampling goes on after the delay range is known
PairUpdateAlwaysSamples ==
  /\ over' \in BOOLEAN
  /\ \E d \in -1 .. 1 : delay' = delay_bias + d
  /\ sampling' = IF sampling > 0 THEN sampling - 1 ELSE -1

(* tst_fzsync_pair_update(): while sampling, or while the averages are too *)
(* unsteady, take a sample, which decides anew whether they are; otherwise *)
(* leave the averages alone and choose a random delay.                     *)
PairUpdate ==
  \/ /\ sampling > 0 \/ over
     /\ over' \in BOOLEAN
     /\ sampling' = IF sampling > 0 THEN sampling - 1 ELSE sampling
     /\ delay' = delay_bias
  \/ /\ sampling <= 0 /\ ~over
     /\ \E d \in -1 .. 1 : delay' = delay_bias + d
     /\ sampling' = IF sampling = 0 THEN -1 ELSE sampling
     /\ UNCHANGED over

StartRaceA ==
  /\ pc["A"] = "pre" /\ op["A"] = "start"
  /\ PairUpdate
  /\ Jump("A", "inc")
  /\ UNCHANGED <<cntr, op, exit, loop, delay_bias, elapsed, life, hist>>

StartRaceB ==
  /\ pc["B"] = "pre" /\ op["B"] = "start"
  /\ Jump("B", "inc")
  /\ UNCHANGED <<cntr, op, exit, loop, stats, life, hist>>

(* The delay loop and the time stamp that follow the wait of start_race.   *)
StartRaceTail(t) ==
  /\ pc[t] = "tail" /\ op[t] = "start"
  /\ Jump(t, "test")
  /\ op' = [op EXCEPT ![t] = "end"]
  /\ UNCHANGED <<cntr, exit, loop, stats, life, hist>>

EndRace(t) ==
  /\ pc[t] = "pre" /\ op[t] = "end"
  /\ Jump(t, "inc")
  /\ UNCHANGED <<cntr, op, exit, loop, stats, life, hist>>

EndRaceTail(t) ==
  /\ pc[t] = "tail" /\ op[t] = "end"
  /\ Jump(t, "test")
  /\ op' = [op EXCEPT ![t] = "run"]
  /\ UNCHANGED <<cntr, exit, loop, stats, life, hist>>

(* tst_fzsync_pair_add_bias(), called by thread A after its race.          *)
AddBias ==
  /\ pc["A"] = "test" /\ op["A"] = "run" /\ exec_loop > 0
  /\ sampling > 0
  /\ \E c \in {-1, 1} : /\ delay_bias + c \in -MaxBias .. MaxBias
                        /\ delay_bias' = delay_bias + c
  /\ UNCHANGED <<cntr, op, pc, exit, loop, sampling, over, delay, elapsed, life, hist>>

(* The time that tst_timeout_remaining() measures.                         *)
Tick ==
  /\ \/ elapsed = "early" /\ elapsed' = "slice"
     \/ elapsed = "slice" /\ elapsed' = "over"
  /\ UNCHANGED <<cntr, op, pc, exit, loop, sampling, over, delay_bias, delay, life, hist>>

-----------------------------------------------------------------------------
(* tst_fzsync_pair_reset(), from the test function: clean up after an      *)
(* earlier round, then (re)set the fields and start thread B.              *)
BeginReset ==
  /\ pc["A"] = "idle"
  /\ resets < MaxResets
  /\ resets' = resets + 1
  /\ after' = [after EXCEPT !["A"] = "reset"]
  /\ Jump("A", "clean")
  /\ UNCHANGED <<cntr, op, exit, loop, stats, thread_b, cancelled, broke, hist>>

PairReset ==
  /\ pc["A"] = "reset"
  /\ cntr' = [t \in Threads |-> 0]
  /\ op' = [t \in Threads |-> "run"]
  /\ pc' = [t \in Threads |-> "test"]
  /\ exit' = 0
  /\ exec_loop' = 0
  /\ sampling' = MinSamples
  /\ delay_bias' = 0
  /\ delay' = 0
  /\ elapsed' = "early"
  /\ thread_b' = TRUE
  /\ calls' = [t \in Threads |-> 0]
  /\ returns' = [t \in Threads |-> 0]
  /\ UNCHANGED <<exit_a, over, cancelled, after, resets, broke>>

\* mutant: thread B is joined but never cancelled
CleanupNoCancel(t) ==
  /\ pc[t] = "clean"
  /\ exit' = 1
  /\ Jump(t, IF thread_b THEN "join" ELSE after[t])
  /\ UNCHANGED <<cntr, op, loop, stats, life, hist>>

(* tst_fzsync_pair_cleanup(), reached from run_a, from reset, at the end   *)
(* of the test, and from tst_brk() in either thread.                       *)
Cleanup(t) ==
  /\ pc[t] = "clean"
  /\ \/ /\ ~thread_b
        /\ Jump(t, after[t])
        /\ UNCHANGED exit
     \/ /\ thread_b /\ exit = 0
        /\ exit' = 1
        /\ Jump(t, "cancel")
     \/ /\ thread_b /\ exit = 1
        /\ Jump(t, "join")
        /\ UNCHANGED exit
  /\ UNCHANGED <<cntr, op, loop, stats, life, hist>>

(* pthread_cancel(): thread B has asynchronous cancellation enabled by     *)
(* tst_fzsync_thread_wrapper(), so it ends at once when it cancels itself, *)
(* and some time later when thread A cancels it. A handle that the cleanup *)
(* of thread B has zeroed meanwhile crashes the process.                   *)
Cancel(t) ==
  /\ pc[t] = "cancel"
  /\ \/ t = "A" /\ thread_b /\ Jump(t, "join") /\ cancelled' = TRUE
     \/ t = "A" /\ ~thread_b /\ Jump(t, "exit") /\ UNCHANGED cancelled
     \/ t = "B" /\ Jump(t, "gone") /\ UNCHANGED cancelled
  /\ UNCHANGED <<cntr, op, exit, loop, stats, thread_b, after, resets, broke, hist>>

Cancelled ==
  /\ cancelled /\ pc["B"] # "ended"
  /\ Jump("B", "gone")
  /\ cancelled' = FALSE
  /\ UNCHANGED <<cntr, op, exit, loop, stats, thread_b, after, resets, broke, hist>>

\* mutant: cleanup does not wait for thread B
JoinNoWait(t) ==
  /\ pc[t] = "join"
  /\ thread_b' = FALSE
  /\ cancelled' = FALSE
  /\ Jump(t, after[t])
  /\ UNCHANGED <<cntr, op, exit, loop, stats, after, resets, broke, hist>>

(* SAFE_PTHREAD_JOIN(): joining oneself fails with EDEADLK, which is only  *)
(* a warning inside a cleanup.                                             *)
Join(t) ==
  /\ pc[t] = "join"
  /\ t = "B" \/ pc["B"] = "gone"
  /\ thread_b' = FALSE
  /\ cancelled' = FALSE
  /\ Jump(t, after[t])
  /\ UNCHANGED <<cntr, op, exit, loop, stats, after, resets, broke, hist>>

(* run_a returned 0.                                                       *)
Return ==
  /\ pc["A"] = "return"
  /\ Jump("A", "idle")
  /\ UNCHANGED <<cntr, op, exit, loop, stats, life, hist>>

(* The test leaves thread A's loop by itself, as tests do that have hit    *)
(* the race; thread B is left to a later cleanup.                          *)
LeaveLoop ==
  /\ pc["A"] = "test" /\ op["A"] = "run" /\ exec_loop > 0
  /\ Jump("A", "idle")
  /\ UNCHANGED <<cntr, op, exit, loop, stats, life, hist>>

(* The test function is not called again: the library runs the test's     *)
(* cleanup function.                                                       *)
Finish ==
  /\ pc["A"] = "idle"
  /\ after' = [after EXCEPT !["A"] = "exit"]
  /\ Jump("A", "clean")
  /\ UNCHANGED <<cntr, op, exit, loop, stats, thread_b, cancelled, resets, broke, hist>>

(* tst_brk() in the test's code: it runs the cleanup function, then calls  *)
(* exit(). One thread does so; a second one entering the cleanup is the    *)
(* test's to suspend (src/doc/test-writing-guidelines.txt:1053).           *)
Brk(t) ==
  /\ t \in Breakers /\ broke = {}
  /\ pc[t] = "test"
  /\ broke' = {t}
  /\ after' = [after EXCEPT ![t] = "exit"]
  /\ Jump(t, "clean")
  /\ UNCHANGED <<cntr, op, exit, loop, stats, thread_b, cancelled, resets, hist>>

(* exit() ends every thread of the process.                                *)
Exit(t) ==
  /\ pc[t] = "exit"
  /\ pc' = [u \in Threads |-> "ended"]
  /\ UNCHANGED <<cntr, op, exit, loop, stats, life, hist>>

-----------------------------------------------------------------------------
ThreadStep(t) == \/ PairWait(t) \/ Enter(t) \/ StartRaceTail(t)
                 \/ EndRace(t) \/ EndRaceTail(t)
                 \/ Cleanup(t) \/ Cancel(t) \/ Join(t) \/ Exit(t)

StepA == \/ ThreadStep("A") \/ RunA \/ RunATail \/ StartRaceA
         \/ PairReset \/ Return

StepB == ThreadStep("B") \/ RunB \/ RunBTail \/ StartRaceB

Choice == \/ AddBias \/ Tick \/ BeginReset \/ Finish \/ LeaveLoop
          \/ \E t \in Threads : Brk(t)

Next == StepA \/ StepB \/ Cancelled \/ Choice

Spec == Init /\ [][Next]_vars

(* Both threads are scheduled again and again, a pending cancellation is   *)
(* acted upon, and the test function returns at some point.                *)
Fairness == /\ WF_vars(StepA) /\ WF_vars(StepB) /\ WF_vars(Cancelled)
            /\ WF_vars(BeginReset \/ Finish)

FairSpec == Spec /\ Fairness

-----------------------------------------------------------------------------
TypeOK ==
  /\ cntr \in [Threads -> 0 .. MaxInt]
  /\ op \in [Threads -> Ops]
  /\ pc \in [Threads -> Looping \cup Cleaning
                        \cup {"idle", "reset", "return", "exit", "gone", "ended"}]
  /\ exit \in {0, 1} /\ exit_a \in {0, 1}
  /\ exec_loop \in Nat
  /\ sampling \in -1 .. MinSamples
  /\ over \in BOOLEAN
  /\ delay_bias \in -MaxBias .. MaxBias
  /\ delay \in Int
  /\ elapsed \in {"early", "slice", "over"}
  /\ thread_b \in BOOLEAN /\ cancelled \in BOOLEAN
  /\ after \in [Threads -> {"return", "reset", "exit"}]
  /\ resets \in Nat
  /\ broke \in SUBSET Threads
  /\ calls \in [Threads -> Nat] /\ returns \in [Threads -> Nat]

(* Neither loop gets ahead of the other: two threads that are both in the  *)
(* test's code are in the same part of the same iteration, so a race       *)
(* region of one never meets the setup or the teardown of the other        *)
(* (tst_fzsync_pair_wait, whatever side wraps its counter first).          *)
InTest(t) == pc[t] \in {"test", "pre"}

Lockstep ==
  /\ calls["A"] - calls["B"] \in -1 .. 1
  /\ InTest("A") /\ InTest("B") => calls["A"] = calls["B"] /\ op["A"] = op["B"]

(* The plain fields of struct tst_fzsync_pair a thread is about to write   *)
(* or to read: <<t, "start">> and <<t, "end">> are the stamps of thread t. *)
Spins == <<"pair", "spins">>
Delay == <<"pair", "delay">>

Writes(t) ==
  CASE pc[t] \in {"count_full", "count_spin"} -> {Spins}
    [] pc[t] = "pre" /\ op[t] = "start" /\ t = "A" -> {Spins, Delay}
    [] pc[t] = "pre" /\ op[t] = "end" -> {<<t, "end">>}
    [] pc[t] = "tail" /\ op[t] = "start" -> {<<t, "start">>}
    [] pc[t] = "reset" -> {Delay}
    [] OTHER -> {}

Reads(t) ==
  CASE pc[t] = "pre" /\ op[t] = "start" /\ t = "A" ->
         {Spins} \cup (Threads \X {"start", "end"})
    [] pc[t] = "tail" /\ op[t] = "start" -> {Delay}
    [] OTHER -> {}

(* The spin counter, the delay and the time stamps are plain fields shared *)
(* by the two threads: no thread writes one of them while the other may    *)
(* read or write it. The averages are taken of the previous iteration's    *)
(* stamps and spins, and both threads apply the same delay.                *)
NoDataRace ==
  \A t \in Threads : Writes(t) \cap (Writes(Other(t)) \cup Reads(Other(t))) = {}

(* Thread B leaves its loop in the iteration in which run_a asked it to,   *)
(* and in no other; thread A goes on only with a thread B that goes on.    *)
ExitTogether ==
  /\ pc["B"] = "gone" /\ pc["A"] \in Looping /\ broke = {} =>
       op["A"] = "run" /\ exit_a = 1 /\ calls["A"] = calls["B"]
  /\ pc["A"] \in Looping /\ op["A"] # "run" /\ broke = {} => pc["B"] \in Looping

(* A new round starts only once the thread B of the earlier one is gone.   *)
FreshThreadB == pc["A"] \in {"reset", "return", "ended"} => pc["B"] \in {"gone", "ended"}

(* Once random delays are used the averages stay as they are: from then on *)
(* no dev_ratio can send pair_update() back to sampling (the comment at    *)
(* tst_fuzzy_sync.h:487-488).                                               *)
AveragesFrozen == sampling = -1 => ~over

(* The calls of pair_wait implement the barrier of PairBarrier.            *)
Barrier == INSTANCE PairBarrier
  WITH entered <- calls, left <- returns

BarrierSpec == Barrier!Spec

(* However the rounds end, by run_a, by leaving the loop or by tst_brk(),  *)
(* the process comes to its end: no thread is left spinning, and no        *)
(* cleanup waits for a thread that does not end. Thread B calling tst_brk  *)
(* is the exception: see BrkEnds.                                          *)
Termination == <>(pc["A"] = "ended" \/ "B" \in broke)

(* tst_brk() in a thread ends the process: the main thread sleeps "till    *)
(* exit() is called by tst_brk()" (src/doc/test-writing-guidelines.txt,    *)
(* 1047-1050). It does not when the cleanup function of the test calls     *)
(* tst_fzsync_pair_cleanup() and the thread is thread B: the thread then   *)
(* cancels itself before it gets to exit().                                *)
BrkEnds == broke # {} ~> pc["A"] = "ended"
=============================================================================
