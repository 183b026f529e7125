-------------------------- MODULE FuzzySyncProofs --------------------------
(***************************************************************************)
(* Proofs about FuzzySync for every INT_MAX >= 2, every number of loops,   *)
(* samples and resets, and with tst_brk() in either thread.                *)
(*                                                                         *)
(* The counters alone do not tell how often a thread has called pair_wait, *)
(* because they wrap. The argument relates them to the history variables:  *)
(* the two threads are never more than one call apart, and the difference  *)
(* of their counters is the difference of their calls, except that one of  *)
(* the two may have wrapped already.                                       *)
(***************************************************************************)
EXTENDS FuzzySync, TLAPS

\* Leaves are for Zenon, unless they name another prover.
USE ZenonT(30)

PrevOp(o) == CASE o = "run" -> "end" [] o = "start" -> "run" [] o = "end" -> "start"

AtFull == {"full", "count_full"}
Counting == {"count_full", "count_spin"}
Stopped == {"gone", "ended"}

(* The kind of the latest call a looping thread has begun.                 *)
Begun(t) == IF pc[t] \in Waiting \cup {"tail"} THEN op[t] ELSE PrevOp(op[t])

(* Who may be where: the sequential part of each thread.                   *)
PlaceInv ==
  /\ pc["A"] # "gone"
  /\ pc["B"] \notin {"idle", "reset", "return"}
  /\ after["B"] = "exit"
  /\ \A t \in Threads : pc[t] \in Counting => op[t] = "end"
  /\ ~thread_b => pc["B"] \in {"gone", "ended", "exit"}
  /\ pc["A"] = "reset" => ~thread_b

(* A thread is in at most one call, and leaves it only after the other     *)
(* thread has begun it.                                                    *)
CallInv(t) ==
  /\ calls[t] = returns[t] \/ calls[t] = returns[t] + 1
  /\ pc[t] \in Waiting => calls[t] = returns[t] + 1
  /\ pc[t] \notin Waiting \cup Stopped => calls[t] = returns[t]
  /\ returns[t] <= calls[Other(t)]

(* The counter a thread increments, and the other one.                     *)
CntrInv(t) ==
  /\ cntr[Other(t)] = MaxInt => pc[t] \in AtFull \cup Stopped
  /\ pc[t] \in AtFull => cntr[Other(t)] = MaxInt
  /\ pc[t] = "drain" => cntr[Other(t)] = 0
  /\ calls[t] = calls[Other(t)] + 1 => cntr[Other(t)] = cntr[t] + 1
  /\ calls[t] = calls[Other(t)] => \/ cntr[t] = cntr[Other(t)]
                                   \/ cntr[t] = 0 /\ cntr[Other(t)] = MaxInt
                                   \/ cntr[t] = MaxInt /\ cntr[Other(t)] = 0
  /\ calls[t] = calls[Other(t)] /\ cntr[Other(t)] = 0 /\ cntr[t] = MaxInt =>
       pc[t] \in {"drain"} \cup Stopped

(* The k-th call of either thread is of the same kind.                     *)
OpInv ==
  pc["A"] \in Looping /\ pc["B"] \in Looping =>
    \A t \in Threads :
      /\ calls[t] = calls[Other(t)] => Begun(t) = Begun(Other(t))
      /\ calls[t] = calls[Other(t)] + 1 => Begun(t) = NextOp(Begun(Other(t)))

(* At most one thread is about to increment the spin counter.              *)
CountInv == ~(pc["A"] \in Counting /\ pc["B"] \in Counting)

IInv == /\ TypeOK /\ PlaceInv
        /\ \A t \in Threads : CallInv(t) /\ CntrInv(t)
        /\ OpInv /\ CountInv

USE DEF Threads, Other, Jump

(* The initial state satisfies the invariant.                              *)
LEMMA InitIInv == Init => IInv
<1> SUFFICES ASSUME Init PROVE IInv
  OBVIOUS
<1> USE MaxIntAssumption, BoundsAssumption
<1>1. TypeOK
  <2>1. over \in BOOLEAN /\ thread_b \in BOOLEAN /\ cancelled \in BOOLEAN
    BY DEF Init
  <2>2. sampling \in -1 .. MinSamples /\ delay_bias \in -MaxBias .. MaxBias
    BY SMTT(30) DEF Init
  <2>3. cntr \in [Threads -> 0 .. MaxInt]
    BY SMTT(30) DEF Init
  <2>4. pc \in [Threads -> {"idle", "gone"}] /\ broke \in SUBSET Threads
    BY DEF Init
  <2> QED
    BY <2>1, <2>2, <2>3, <2>4, SMTT(30) DEF Init, TypeOK, Ops
<1>2. PlaceInv /\ OpInv /\ CountInv
  BY DEF Init, PlaceInv, OpInv, CountInv, Looping, Waiting, Counting
<1>3. ASSUME NEW t \in Threads PROVE CallInv(t) /\ CntrInv(t)
  BY SMTT(30) DEF Init, CallInv, CntrInv, Waiting, AtFull, Stopped
<1> QED
  BY <1>1, <1>2, <1>3 DEF IInv

(* The steps of tst_fzsync_pair_wait() preserve the invariant.             *)
LEMMA IncStep ==
  ASSUME IInv, NEW t \in Threads, Inc(t)
  PROVE  IInv'
<1> DEFINE o == Other(t)
<1> USE MaxIntAssumption
<1>0. /\ t \in {"A", "B"} /\ o \in {"A", "B"} /\ o # t /\ Other(o) = t
      /\ \A u \in Threads : u = t \/ u = o
  OBVIOUS
<1>1. TypeOK /\ CallInv(t) /\ CntrInv(t) /\ CallInv(o) /\ CntrInv(o)
  BY <1>0 DEF IInv
<1>2. calls[t] = returns[t] /\ calls[t] <= calls[o] /\ cntr[o] < MaxInt
  BY <1>0, <1>1, SMTT(30) DEF Inc, CallInv, CntrInv, AtFull, Stopped, Waiting, TypeOK
<1>3. TypeOK'
  BY <1>0, <1>1, <1>2, SMTT(30) DEF Inc, TypeOK, Looping, Waiting, stats, life, loop
<1>4. PlaceInv'
  BY <1>0, <1>1 DEF IInv, Inc, TypeOK, PlaceInv, Counting, life
<1>5. CallInv(t)' /\ CallInv(o)'
  BY <1>0, <1>1, <1>2, SMTT(30) DEF Inc, TypeOK, CallInv, Waiting, Stopped
<1>6. CntrInv(t)' /\ CntrInv(o)'
  BY <1>0, <1>1, <1>2, SMTT(30) DEF Inc, TypeOK, CallInv, CntrInv, AtFull, Stopped, Waiting
<1>7. OpInv'
  BY <1>0, <1>1, <1>2, SMTT(30)
  DEF IInv, Inc, TypeOK, CallInv, OpInv, Begun, PrevOp, NextOp, Ops, Looping, Waiting
<1>8. CountInv'
  BY <1>0, <1>1 DEF IInv, Inc, TypeOK, CountInv, Counting
<1> QED
  BY <1>0, <1>3, <1>4, <1>5, <1>6, <1>7, <1>8 DEF IInv

LEMMA FullStep ==
  ASSUME IInv, NEW t \in Threads, Full(t)
  PROVE  IInv'
<1> DEFINE o == Other(t)
<1> USE MaxIntAssumption
<1>0. /\ t \in {"A", "B"} /\ o \in {"A", "B"} /\ o # t /\ Other(o) = t
      /\ \A u \in Threads : u = t \/ u = o
  OBVIOUS
<1>1. TypeOK /\ CallInv(t) /\ CntrInv(t) /\ CallInv(o) /\ CntrInv(o)
  BY <1>0 DEF IInv
<1>2. calls[t] = calls[o] /\ cntr[o] = MaxInt
  BY <1>0, <1>1, SMTT(30) DEF Full, FullLoop, CallInv, CntrInv, AtFull, Waiting, TypeOK
<1>3. TypeOK'
  BY <1>0, <1>1, SMTT(30) DEF Full, TypeOK, Looping, Waiting, stats, life, loop, hist
<1>4. PlaceInv'
  BY <1>0, <1>1 DEF IInv, Full, TypeOK, PlaceInv, Counting, life
<1>5. CallInv(t)' /\ CallInv(o)'
  BY <1>0, <1>1 DEF Full, TypeOK, CallInv, Waiting, Stopped, hist
<1>6. CntrInv(t)' /\ CntrInv(o)'
  BY <1>0, <1>1, <1>2, SMTT(30) DEF Full, FullLoop, TypeOK, CntrInv, AtFull, Stopped, hist
<1>7. OpInv'
  BY <1>0, <1>1, SMTT(30) DEF IInv, Full, TypeOK, OpInv, Begun, Looping, Waiting, hist
<1>8. CountInv'
  BY <1>0, <1>1 DEF IInv, Full, TypeOK, CountInv, Counting
<1> QED
  BY <1>0, <1>3, <1>4, <1>5, <1>6, <1>7, <1>8 DEF IInv

(* Neither loop lets a thread go that is a call ahead of the other.        *)
LEMMA ReleaseStep ==
  ASSUME IInv, NEW t \in Threads, Drain(t) \/ Spin(t)
  PROVE  IInv' /\ calls[t] <= calls[Other(t)] /\ calls[t] = returns[t] + 1
<1> DEFINE o == Other(t)
<1> USE MaxIntAssumption
<1>0. /\ t \in {"A", "B"} /\ o \in {"A", "B"} /\ o # t /\ Other(o) = t
      /\ \A u \in Threads : u = t \/ u = o
  OBVIOUS
<1>1. TypeOK /\ CallInv(t) /\ CntrInv(t) /\ CallInv(o) /\ CntrInv(o)
  BY <1>0 DEF IInv
<1>2. calls[t] <= calls[o] /\ calls[t] = returns[t] + 1
  BY <1>0, <1>1, SMTT(30) DEF Drain, Spin, SpinLoop, CallInv, CntrInv, Waiting, TypeOK
<1>a. /\ pc[t] \in {"drain", "spin"} /\ pc' = [pc EXCEPT ![t] = "tail"]
      /\ returns' = [returns EXCEPT ![t] = @ + 1]
      /\ pc[t] = "drain" => cntr[t] <= 1
      /\ UNCHANGED <<cntr, op, exit, loop, stats, life, calls>>
  BY <1>0, <1>1, SMTT(30) DEF Drain, Spin, TypeOK
<1>3. TypeOK'
  BY <1>0, <1>1, <1>a, SMTT(30) DEF TypeOK, Looping, Waiting, stats, life, loop
<1>4. PlaceInv'
  BY <1>0, <1>1, <1>a DEF IInv, TypeOK, PlaceInv, Counting, life
<1>5. CallInv(t)' /\ CallInv(o)'
  BY <1>0, <1>1, <1>2, <1>a DEF TypeOK, CallInv, Waiting, Stopped
<1>6. CntrInv(t)' /\ CntrInv(o)'
  BY <1>0, <1>1, <1>2, <1>a, SMTT(30) DEF TypeOK, CntrInv, AtFull, Stopped
<1>7. OpInv'
  BY <1>0, <1>1, <1>a, SMTT(30) DEF IInv, TypeOK, OpInv, Begun, Looping, Waiting
<1>8. CountInv'
  BY <1>0, <1>1, <1>a DEF IInv, TypeOK, CountInv, Counting
<1> QED
  BY <1>0, <1>2, <1>3, <1>4, <1>5, <1>6, <1>7, <1>8 DEF IInv

(* Spinning at end_race: two threads that both count are in the same call, *)
(* where only the one that came first has to wait.                         *)
LEMMA CountStep ==
  ASSUME IInv, NEW t \in Threads, CountSpin(t)
  PROVE  IInv'
<1> DEFINE o == Other(t)
<1> USE MaxIntAssumption
<1>0. /\ t \in {"A", "B"} /\ o \in {"A", "B"} /\ o # t /\ Other(o) = t
      /\ \A u \in Threads : u = t \/ u = o
  OBVIOUS
<1>1. TypeOK /\ CallInv(t) /\ CntrInv(t) /\ CallInv(o) /\ CntrInv(o)
  BY <1>0 DEF IInv
<1>2. PICK p \in {"full", "spin", "count_full", "count_spin"} :
        pc' = [pc EXCEPT ![t] = p] /\ (p \in AtFull <=> pc[t] \in AtFull)
  BY DEF CountSpin, AtFull
<1>a. /\ pc[t] \in {"full", "spin", "count_full", "count_spin"} /\ op[t] = "end"
      /\ UNCHANGED <<cntr, op, exit, loop, stats, life, hist>>
  BY DEF CountSpin
<1>3. TypeOK'
  BY <1>0, <1>1, <1>2, <1>a DEF TypeOK, Looping, Waiting, stats, life, loop, hist
<1>4. PlaceInv'
  BY <1>0, <1>1, <1>2, <1>a DEF IInv, TypeOK, PlaceInv, Counting, life
<1>5. CallInv(t)' /\ CallInv(o)'
  BY <1>0, <1>1, <1>2, <1>a DEF TypeOK, CallInv, Waiting, Stopped, hist
<1>6. CntrInv(t)' /\ CntrInv(o)'
  BY <1>0, <1>1, <1>2, <1>a, SMTT(30) DEF TypeOK, CntrInv, AtFull, Stopped, hist
<1>7. OpInv'
  BY <1>0, <1>1, <1>2, <1>a, SMTT(30) DEF IInv, TypeOK, OpInv, Begun, Looping, Waiting, hist
<1>8. CountInv'
  <2>1. SUFFICES ASSUME pc[o] \in Counting, p \in Counting PROVE FALSE
    BY <1>0, <1>1, <1>2 DEF CountInv, TypeOK
  <2>2. pc[t] \in {"full", "spin"} /\ (pc[t] = "full" => FullLoop(t))
        /\ (pc[t] = "spin" => SpinLoop(t))
    BY <1>0, <1>1, <1>2, <2>1 DEF CountSpin, TypeOK, Counting
  <2>3. op[o] = "end" /\ Begun(t) = "end" /\ Begun(o) = "end"
    BY <1>0, <1>a, <2>1 DEF IInv, PlaceInv, Begun, Waiting, Counting
  <2>4. calls[t] = calls[o]
    BY <1>0, <1>1, <2>1, <2>2, <2>3, SMTT(30)
    DEF IInv, OpInv, CallInv, NextOp, Looping, Waiting, Counting, TypeOK
  <2> QED
    BY <1>0, <1>1, <2>2, <2>4, SMTT(30) DEF CntrInv, FullLoop, SpinLoop, AtFull, Stopped, TypeOK
<1> QED
  BY <1>0, <1>3, <1>4, <1>5, <1>6, <1>7, <1>8 DEF IInv

(* The other steps leave the counters alone. Either one thread moves from  *)
(* one place outside pair_wait to another,                                 *)
Moves(t, p) == /\ pc[t] \notin Waiting \cup Stopped
               /\ p \notin Waiting
               /\ pc' = [pc EXCEPT ![t] = p]
               /\ UNCHANGED <<cntr, hist>>

LEMMA MoveStep ==
  ASSUME IInv, NEW t \in Threads, NEW p, Moves(t, p)
  PROVE  /\ \A u \in Threads : CallInv(u)' /\ CntrInv(u)'
         /\ CountInv'
<1> DEFINE o == Other(t)
<1>0. /\ t \in {"A", "B"} /\ o \in {"A", "B"} /\ o # t /\ Other(o) = t
      /\ \A u \in Threads : u = t \/ u = o
  OBVIOUS
<1>1. TypeOK /\ CallInv(t) /\ CntrInv(t) /\ CallInv(o) /\ CntrInv(o)
  BY <1>0 DEF IInv
<1>2. CallInv(t)' /\ CallInv(o)'
  BY <1>0, <1>1 DEF Moves, TypeOK, CallInv, Waiting, Stopped, hist
<1>3. CntrInv(t)' /\ CntrInv(o)'
  BY <1>0, <1>1, SMTT(30) DEF Moves, TypeOK, CntrInv, Waiting, AtFull, Stopped, hist
<1>4. CountInv'
  BY <1>0, <1>1 DEF IInv, Moves, TypeOK, CountInv, Counting, Waiting
<1> QED
  BY <1>0, <1>2, <1>3, <1>4

(* or threads end, wherever they are.                                      *)
Stops(p) == /\ p \in Stopped
            /\ \/ pc' = [pc EXCEPT !["B"] = p]
               \/ pc' = [t \in Threads |-> p]
            /\ UNCHANGED <<cntr, hist>>

LEMMA StopStep ==
  ASSUME IInv, NEW p, Stops(p)
  PROVE  /\ \A u \in Threads : CallInv(u)' /\ CntrInv(u)'
         /\ CountInv' /\ OpInv'
<1>1. \A u \in Threads : pc'[u] = pc[u] \/ pc'[u] = p
  BY DEF IInv, TypeOK, Stops
<1>2. pc'["B"] = p /\ p \notin Waiting /\ p \in Stopped
  BY DEF IInv, TypeOK, Stops, Waiting, Stopped
<1>3. ASSUME NEW u \in Threads PROVE CallInv(u)'
  BY <1>1, <1>2 DEF IInv, Stops, CallInv, hist
<1>4. ASSUME NEW u \in Threads PROVE CntrInv(u)'
  BY <1>1, <1>2 DEF IInv, Stops, CntrInv, AtFull, Stopped, hist
<1>5. CountInv' /\ OpInv'
  BY <1>2 DEF CountInv, OpInv, Counting, Looping, Waiting, Stopped
<1> QED
  BY <1>3, <1>4, <1>5

(* What a move outside pair_wait still has to show.                        *)
LEMMA MoveIInv ==
  ASSUME IInv, NEW t \in Threads, NEW p, Moves(t, p), TypeOK', PlaceInv', OpInv'
  PROVE  IInv'
  BY MoveStep DEF IInv

LEMMA StopIInv ==
  ASSUME IInv, NEW p, Stops(p), TypeOK', PlaceInv'
  PROVE  IInv'
  BY StopStep DEF IInv

(* A thread that moves on in its loop without beginning a call leaves OpInv *)
(* as it is.                                                               *)
LEMMA BegunStep ==
  ASSUME OpInv, NEW t \in Threads, UNCHANGED calls,
         pc'[Other(t)] = pc[Other(t)], op'[Other(t)] = op[Other(t)],
         pc'[t] \in Looping => pc[t] \in Looping /\ Begun(t)' = Begun(t)
  PROVE  OpInv'
<1> SUFFICES ASSUME pc'["A"] \in Looping, pc'["B"] \in Looping PROVE OpInv'
  BY DEF OpInv
<1>1. Begun(Other(t))' = Begun(Other(t))
  BY SMTT(30) DEF Begun, PrevOp
<1>2. /\ pc["A"] \in Looping /\ pc["B"] \in Looping
      /\ Begun("A")' = Begun("A") /\ Begun("B")' = Begun("B")
  BY <1>1, SMTT(30)
<1>3. ASSUME NEW u \in Threads
      PROVE  /\ calls'[u] = calls'[Other(u)] => Begun(u)' = Begun(Other(u))'
             /\ calls'[u] = calls'[Other(u)] + 1 => Begun(u)' = NextOp(Begun(Other(u)))'
  <2>1. Begun(u)' = Begun(u) /\ Begun(Other(u))' = Begun(Other(u))
    BY <1>2
  <2>2. /\ calls[u] = calls[Other(u)] => Begun(u) = Begun(Other(u))
        /\ calls[u] = calls[Other(u)] + 1 => Begun(u) = NextOp(Begun(Other(u)))
    BY <1>2 DEF OpInv
  <2> QED
    BY <2>1, <2>2 DEF NextOp
<1> QED
  BY <1>3 DEF OpInv

(* The calls made in the loops of the two threads.                         *)
LEMMA CallStep ==
  ASSUME IInv, NEW t \in Threads,
         \/ Enter(t) \/ StartRaceTail(t) \/ EndRace(t) \/ EndRaceTail(t)
         \/ t = "A" /\ (RunA \/ StartRaceA \/ RunATail)
         \/ t = "B" /\ (RunB \/ StartRaceB \/ RunBTail)
  PROVE  IInv'
<1> DEFINE o == Other(t)
<1> USE MaxIntAssumption, BoundsAssumption
<1>0. /\ t \in {"A", "B"} /\ o \in {"A", "B"} /\ o # t /\ Other(o) = t
      /\ \A u \in Threads : u = t \/ u = o
  OBVIOUS
<1>1. TypeOK /\ PlaceInv
  BY DEF IInv
<1>2. CASE Enter(t) \/ EndRace(t) \/ (t = "B" /\ (RunB \/ StartRaceB))
  <2>1. PICK p \in {"pre", "inc"} : pc' = [pc EXCEPT ![t] = p]
    BY <1>2 DEF Enter, EndRace, RunB, StartRaceB
  <2>a. /\ pc[t] \in {"test", "pre"}
        /\ UNCHANGED <<cntr, op, exit, loop, stats, life, hist>>
    BY <1>2 DEF Enter, EndRace, RunB, StartRaceB
  <2>2. Moves(t, p)
    BY <2>1, <2>a DEF Moves, Waiting, Stopped
  <2>3. TypeOK'
    BY <1>0, <1>1, <2>1, <2>a DEF TypeOK, Looping, stats, life, loop, hist
  <2>4. PlaceInv'
    BY <1>0, <1>1, <2>1, <2>a DEF TypeOK, PlaceInv, Counting, life
  <2>5. OpInv'
    <3>1. /\ pc'[o] = pc[o] /\ op'[o] = op[o] /\ UNCHANGED calls
          /\ pc[t] \in {"test", "pre"} /\ pc'[t] \in {"pre", "inc"} /\ op'[t] = op[t]
      BY <1>0, <1>1, <2>1, <2>a DEF TypeOK, hist
    <3>2. pc[t] \in Looping /\ Begun(t)' = Begun(t)
      BY <3>1 DEF Begun, Looping, Waiting
    <3> QED
      BY <3>1, <3>2, BegunStep DEF IInv
  <2> QED
    BY <2>2, <2>3, <2>4, <2>5, MoveIInv
<1>3. CASE StartRaceTail(t) \/ EndRaceTail(t)
  <2>1. PICK q \in {"end", "run"} :
          op' = [op EXCEPT ![t] = q] /\ PrevOp(q) = op[t]
    BY <1>3 DEF StartRaceTail, EndRaceTail, PrevOp
  <2>a. /\ pc[t] = "tail" /\ pc' = [pc EXCEPT ![t] = "test"]
        /\ UNCHANGED <<cntr, exit, loop, stats, life, hist>>
    BY <1>3 DEF StartRaceTail, EndRaceTail
  <2>2. Moves(t, "test")
    BY <2>a DEF Moves, Waiting, Stopped
  <2>3. TypeOK'
    BY <1>0, <1>1, <2>1, <2>a DEF TypeOK, Looping, Ops, stats, life, loop, hist
  <2>4. PlaceInv'
    BY <1>0, <1>1, <2>1, <2>a DEF TypeOK, PlaceInv, Counting, life
  <2>5. OpInv'
    <3>1. /\ pc'[o] = pc[o] /\ op'[o] = op[o] /\ UNCHANGED calls
          /\ pc[t] = "tail" /\ pc'[t] = "test" /\ PrevOp(op'[t]) = op[t]
      BY <1>0, <1>1, <2>1, <2>a DEF TypeOK, hist
    <3>2. pc[t] \in Looping /\ Begun(t)' = Begun(t)
      BY <3>1 DEF Begun, Looping, Waiting
    <3> QED
      BY <3>1, <3>2, BegunStep DEF IInv
  <2> QED
    BY <2>2, <2>3, <2>4, <2>5, MoveIInv
<1>4. CASE t = "A" /\ RunA
  <2>2. Moves(t, "inc")
    BY <1>4 DEF RunA, Moves, Waiting, Stopped
  <2>3. TypeOK'
    BY <1>1, <1>4, SMTT(30) DEF RunA, TypeOK, Looping, life, hist
  <2>4. PlaceInv'
    BY <1>1, <1>4 DEF RunA, TypeOK, PlaceInv, Counting, life
  <2>5. OpInv'
    <3>1. /\ pc'[o] = pc[o] /\ op'[o] = op[o] /\ UNCHANGED calls
          /\ pc[t] = "pre" /\ pc'[t] = "inc" /\ op'[t] = op[t]
      BY <1>0, <1>1, <1>4 DEF RunA, TypeOK, hist
    <3>2. pc[t] \in Looping /\ Begun(t)' = Begun(t)
      BY <3>1 DEF Begun, Looping, Waiting
    <3> QED
      BY <3>1, <3>2, BegunStep DEF IInv
  <2> QED
    BY <2>2, <2>3, <2>4, <2>5, MoveIInv
<1>5. CASE t = "A" /\ StartRaceA
  <2>2. Moves(t, "inc")
    BY <1>5 DEF StartRaceA, Moves, Waiting, Stopped
  <2>3. TypeOK'
    <3>1. over' \in BOOLEAN /\ sampling' \in -1 .. MinSamples /\ delay' \in Int
      BY <1>1, <1>5, SMTT(30) DEF StartRaceA, PairUpdate, TypeOK
    <3> QED
      BY <1>1, <1>5, <3>1 DEF StartRaceA, TypeOK, Looping, loop, life, hist
  <2>4. PlaceInv'
    BY <1>1, <1>5 DEF StartRaceA, TypeOK, PlaceInv, Counting, life
  <2>5. OpInv'
    <3>1. /\ pc'[o] = pc[o] /\ op'[o] = op[o] /\ UNCHANGED calls
          /\ pc[t] = "pre" /\ pc'[t] = "inc" /\ op'[t] = op[t]
      BY <1>0, <1>1, <1>5 DEF StartRaceA, TypeOK, hist
    <3>2. pc[t] \in Looping /\ Begun(t)' = Begun(t)
      BY <3>1 DEF Begun, Looping, Waiting
    <3> QED
      BY <3>1, <3>2, BegunStep DEF IInv
  <2> QED
    BY <2>2, <2>3, <2>4, <2>5, MoveIInv
<1>6. CASE t = "A" /\ RunATail
  <2>1. PICK p \in {"clean", "test"} : pc' = [pc EXCEPT ![t] = p]
    BY <1>6 DEF RunATail
  <2>2. Moves(t, p)
    BY <1>6, <2>1 DEF RunATail, Moves, Waiting, Stopped
  <2>3. TypeOK'
    BY <1>1, <1>6, SMTT(30) DEF RunATail, TypeOK, Looping, Cleaning, Ops, loop, stats, hist
  <2>4. PlaceInv'
    BY <1>1, <1>6, SMTT(30) DEF RunATail, TypeOK, PlaceInv, Counting
  <2>5. OpInv'
    <3>1. /\ pc'[o] = pc[o] /\ op'[o] = op[o] /\ UNCHANGED calls
          /\ pc[t] = "tail" /\ op[t] = "run"
          /\ pc'[t] \in Looping => pc'[t] = "test" /\ op'[t] = "start"
      BY <1>0, <1>1, <1>6 DEF RunATail, TypeOK, Looping, Waiting, hist
    <3>2. pc'[t] \in Looping => pc[t] \in Looping /\ Begun(t)' = Begun(t)
      BY <3>1 DEF Begun, PrevOp, Looping, Waiting
    <3> QED
      BY <3>1, <3>2, BegunStep DEF IInv
  <2> QED
    BY <2>2, <2>3, <2>4, <2>5, MoveIInv
<1>7. CASE t = "B" /\ RunBTail
  <2>1. PICK p \in {"gone", "test"} : pc' = [pc EXCEPT ![t] = p]
    BY <1>7 DEF RunBTail
  <2>2. Moves(t, p)
    BY <1>7, <2>1 DEF RunBTail, Moves, Waiting, Stopped
  <2>3. TypeOK'
    BY <1>1, <1>7, SMTT(30) DEF RunBTail, TypeOK, Looping, Ops, loop, stats, life, hist
  <2>4. PlaceInv'
    BY <1>1, <1>7, SMTT(30) DEF RunBTail, TypeOK, PlaceInv, Counting, life
  <2>5. OpInv'
    <3>1. /\ pc'[o] = pc[o] /\ op'[o] = op[o] /\ UNCHANGED calls
          /\ pc[t] = "tail" /\ op[t] = "run"
          /\ pc'[t] \in Looping => pc'[t] = "test" /\ op'[t] = "start"
      BY <1>0, <1>1, <1>7 DEF RunBTail, TypeOK, Looping, Waiting, hist
    <3>2. pc'[t] \in Looping => pc[t] \in Looping /\ Begun(t)' = Begun(t)
      BY <3>1 DEF Begun, PrevOp, Looping, Waiting
    <3> QED
      BY <3>1, <3>2, BegunStep DEF IInv
  <2> QED
    BY <2>2, <2>3, <2>4, <2>5, MoveIInv
<1> QED
  BY <1>2, <1>3, <1>4, <1>5, <1>6, <1>7

(* A thread that leaves its loop leaves OpInv nothing to say.              *)
LEMMA LeaveStep ==
  ASSUME IInv, NEW t \in Threads, NEW p, Moves(t, p), p \notin Looping
  PROVE  OpInv'
  BY DEF IInv, TypeOK, Moves, OpInv

(* tst_fzsync_pair_reset(), tst_fzsync_pair_cleanup() and what leads to it.*)
LEMMA LifeStep ==
  ASSUME IInv, NEW t \in Threads,
         \/ Cleanup(t) \/ Cancel(t) \/ Join(t) \/ Brk(t)
         \/ t = "A" /\ (BeginReset \/ Return \/ LeaveLoop \/ Finish)
  PROVE  IInv'
<1>1. TypeOK /\ PlaceInv
  BY DEF IInv
<1>2. PICK p \in {"return", "reset", "exit", "cancel", "join", "gone", "clean", "idle"} :
        pc' = [pc EXCEPT ![t] = p]
  BY <1>1 DEF TypeOK, Cleanup, Cancel, Join, Brk, BeginReset, Return, LeaveLoop, Finish
<1>3. pc[t] \in Cleaning \cup {"idle", "return", "test"}
  BY DEF Cleanup, Cancel, Join, Brk, BeginReset, Return, LeaveLoop, Finish, Cleaning
<1>4. /\ UNCHANGED <<cntr, hist, op, loop, stats>>
  BY DEF Cleanup, Cancel, Join, Brk, BeginReset, Return, LeaveLoop, Finish
<1>5. Moves(t, p) /\ p \notin Looping
  BY <1>2, <1>3, <1>4 DEF Moves, Waiting, Stopped, Cleaning, Looping
<1>6. TypeOK'
  <2>1. /\ exit' \in {0, 1} /\ thread_b' \in BOOLEAN /\ cancelled' \in BOOLEAN
        /\ after' \in [Threads -> {"return", "reset", "exit"}] /\ resets' \in Nat
        /\ broke' \in SUBSET Threads
    <3> USE <1>1
    <3>1. CASE Cleanup(t)
      BY <3>1 DEF TypeOK, Cleanup, life
    <3>2. CASE Cancel(t) \/ Join(t)
      BY <3>2 DEF TypeOK, Cancel, Join
    <3>3. CASE Brk(t)
      BY <3>3 DEF TypeOK, Brk
    <3>4. CASE BeginReset \/ Finish
      <4>1. /\ UNCHANGED <<exit, thread_b, cancelled, broke>>
            /\ after' \in [Threads -> {"return", "reset", "exit"}]
        BY <3>4, SMTT(30) DEF TypeOK, BeginReset, Finish
      <4>2. resets' \in Nat
        BY <3>4, SMTT(30) DEF TypeOK, BeginReset, Finish
      <4> QED
        BY <4>1, <4>2 DEF TypeOK
    <3>5. CASE Return \/ LeaveLoop
      BY <3>5 DEF TypeOK, Return, LeaveLoop, life
    <3> QED
      BY <3>1, <3>2, <3>3, <3>4, <3>5
  <2>2. pc' \in [Threads -> Looping \cup Cleaning
                         \cup {"idle", "reset", "return", "exit", "gone", "ended"}]
    BY <1>1, <1>2 DEF TypeOK, Cleaning
  <2> QED
    BY <1>1, <1>4, <2>1, <2>2 DEF TypeOK, hist, loop, stats
<1>7. PlaceInv'
  <2>1. CASE Cleanup(t)
    BY <1>1, <2>1 DEF TypeOK, PlaceInv, Cleanup, Counting, life
  <2>2. CASE Cancel(t)
    BY <1>1, <2>2 DEF TypeOK, PlaceInv, Cancel, Counting
  <2>3. CASE Join(t)
    BY <1>1, <2>3 DEF TypeOK, PlaceInv, Join, Counting
  <2>4. CASE Brk(t)
    BY <1>1, <2>4 DEF TypeOK, PlaceInv, Brk, Counting
  <2>5. CASE t = "A" /\ (BeginReset \/ Return \/ LeaveLoop \/ Finish)
    BY <1>1, <2>5
    DEF TypeOK, PlaceInv, BeginReset, Return, LeaveLoop, Finish, Counting, life
  <2> QED
    BY <2>1, <2>2, <2>3, <2>4, <2>5
<1> QED
  BY <1>5, <1>6, <1>7, LeaveStep, MoveIInv

LEMMA EndStep ==
  ASSUME IInv, Cancelled \/ \E t \in Threads : Exit(t)
  PROVE  IInv'
<1>1. TypeOK /\ PlaceInv
  BY DEF IInv
<1>2. CASE Cancelled
  <2>1. Stops("gone")
    BY <1>2 DEF Cancelled, Stops, Stopped
  <2>2. TypeOK' /\ PlaceInv'
    BY <1>1, <1>2 DEF Cancelled, TypeOK, PlaceInv, Counting, hist, loop, stats
  <2> QED
    BY <2>1, <2>2, StopIInv
<1>3. ASSUME NEW t \in Threads, Exit(t) PROVE IInv'
  <2>1. Stops("ended")
    BY <1>3 DEF Exit, Stops, Stopped
  <2>2. TypeOK' /\ PlaceInv'
    BY <1>1, <1>3 DEF Exit, TypeOK, PlaceInv, Counting, hist, loop, stats, life
  <2> QED
    BY <2>1, <2>2, StopIInv
<1> QED
  BY <1>2, <1>3

LEMMA ResetStep ==
  ASSUME IInv, PairReset
  PROVE  IInv'
<1> USE MaxIntAssumption, BoundsAssumption
<1>1. TypeOK /\ PlaceInv
  BY DEF IInv
<1>2. /\ pc' = [t \in Threads |-> "test"] /\ op' = [t \in Threads |-> "run"]
      /\ cntr' = [t \in Threads |-> 0] /\ calls' = [t \in Threads |-> 0]
      /\ returns' = [t \in Threads |-> 0] /\ thread_b' = TRUE /\ after' = after
  BY DEF PairReset
<1>3. TypeOK'
  <2>1. sampling' \in -1 .. MinSamples /\ delay_bias' \in -MaxBias .. MaxBias
    BY SMTT(30) DEF PairReset
  <2>2. thread_b' \in BOOLEAN /\ cancelled' \in BOOLEAN /\ over' \in BOOLEAN
    BY <1>1 DEF PairReset, TypeOK
  <2> QED
    BY <1>1, <1>2, <2>1, <2>2, SMTT(30) DEF PairReset, TypeOK, Looping, Ops
<1>4. PlaceInv' /\ CountInv' /\ OpInv'
  BY <1>1, <1>2, SMTT(30) DEF PlaceInv, CountInv, OpInv, Begun, PrevOp, Counting, Waiting
<1>5. ASSUME NEW t \in Threads PROVE CallInv(t)' /\ CntrInv(t)'
  BY <1>2, SMTT(30) DEF CallInv, CntrInv, Waiting, AtFull, Stopped
<1> QED
  BY <1>3, <1>4, <1>5 DEF IInv

(* Steps that move no thread.                                              *)
LEMMA StillStep ==
  ASSUME IInv, AddBias \/ Tick \/ UNCHANGED vars
  PROVE  IInv'
<1>1. UNCHANGED <<cntr, op, pc, exit, loop, life, hist>>
  BY DEF AddBias, Tick, vars
<1>2. TypeOK'
  BY <1>1, BoundsAssumption DEF IInv, TypeOK, AddBias, Tick, vars, loop, life, hist, stats
<1> QED
  BY <1>1, <1>2
  DEF IInv, PlaceInv, CallInv, CntrInv, OpInv, Begun, CountInv, life, hist

(* Every step preserves the invariant.                                     *)
LEMMA NextIInv == IInv /\ [Next]_vars => IInv'
<1> SUFFICES ASSUME IInv, [Next]_vars PROVE IInv'
  OBVIOUS
<1>1. ASSUME NEW t \in Threads, ThreadStep(t) PROVE IInv'
  BY <1>1, IncStep, FullStep, ReleaseStep, CountStep, CallStep, LifeStep, EndStep
  DEF ThreadStep, PairWait
<1>2. CASE StepA
  BY <1>1, <1>2, CallStep, LifeStep, ResetStep DEF StepA
<1>3. CASE StepB
  BY <1>1, <1>3, CallStep DEF StepB
<1>4. CASE Cancelled
  BY <1>4, EndStep
<1>5. CASE Choice
  BY <1>5, StillStep, LifeStep DEF Choice
<1>6. CASE UNCHANGED vars
  BY <1>6, StillStep
<1> QED
  BY <1>2, <1>3, <1>4, <1>5, <1>6 DEF Next

(* The invariant holds in every reachable state.                           *)
THEOREM Invariance == Spec => []IInv
  BY InitIInv, NextIInv, PTL DEF Spec

-----------------------------------------------------------------------------
(* The counters stay within an int, through every wrap of pair_wait().     *)
THEOREM TypeCorrect == Spec => []TypeOK
<1>1. IInv => TypeOK
  BY DEF IInv
<1> QED
  BY <1>1, Invariance, PTL

(* The loops of the two threads are in lockstep, whatever INT_MAX is.      *)
THEOREM LockstepHolds == Spec => []Lockstep
<1>1. IInv => Lockstep
  <2> SUFFICES ASSUME IInv PROVE Lockstep
    OBVIOUS
  <2>1. TypeOK /\ CallInv("A") /\ CallInv("B")
    BY DEF IInv
  <2>2. calls["A"] - calls["B"] \in -1 .. 1
    BY <2>1, SMTT(30) DEF TypeOK, CallInv
  <2>3. ASSUME InTest("A"), InTest("B")
        PROVE  calls["A"] = calls["B"] /\ op["A"] = op["B"]
    <3>1. calls["A"] = calls["B"]
      BY <2>1, <2>3, SMTT(30) DEF TypeOK, CallInv, InTest, Waiting, Stopped
    <3>2. Begun("A") = Begun("B")
      BY <2>3, <3>1 DEF IInv, OpInv, InTest, Looping
    <3>3. PrevOp(op["A"]) = PrevOp(op["B"])
      BY <2>3, <3>2 DEF Begun, InTest, Waiting
    <3> QED
      BY <2>1, <3>1, <3>3 DEF TypeOK, PrevOp, Ops
  <2> QED
    BY <2>2, <2>3 DEF Lockstep
<1> QED
  BY <1>1, Invariance, PTL

(* The plain fields of the pair are never accessed by both threads at once *)
(* when one of them writes: pair_update(), the delay, the stamps and the   *)
(* spin counter are kept apart by the barrier alone.                       *)
LEMMA UpdateAlone ==
  ASSUME IInv, pc["A"] = "pre", op["A"] = "start", pc["B"] \in Looping
  PROVE  /\ pc["B"] \notin Counting
         /\ ~(pc["B"] = "pre" /\ op["B"] = "end")
         /\ ~(pc["B"] = "tail" /\ op["B"] = "start")
<1>1. TypeOK /\ PlaceInv /\ CallInv("A") /\ CallInv("B")
  BY DEF IInv
<1>2. pc["A"] \in Looping /\ Begun("A") = "run"
  BY DEF Looping, Begun, PrevOp, Waiting
<1>3. calls["A"] = returns["A"] /\ calls["A"] <= calls["B"]
  BY <1>1 DEF CallInv, Waiting, Stopped
<1>4. CASE calls["B"] = calls["A"]
  <2>1. Begun("B") = "run"
    BY <1>2, <1>4 DEF IInv, OpInv
  <2> QED
    BY <1>1, <2>1 DEF PlaceInv, Begun, PrevOp, Waiting, Counting
<1>5. CASE calls["B"] = calls["A"] + 1
  <2>1. Begun("B") = NextOp(Begun("A"))
    BY <1>2, <1>5 DEF IInv, OpInv
  <2>2. Begun("B") = "start"
    BY <1>2, <2>1 DEF NextOp
  <2>3. pc["B"] \in Waiting
    BY <1>1, <1>5, SMTT(30) DEF TypeOK, CallInv, Looping, Waiting, Stopped
  <2> QED
    BY <1>1, <2>2, <2>3 DEF PlaceInv, Begun, Waiting, Counting
<1> QED
  BY <1>1, <1>3, <1>4, <1>5, SMTT(30) DEF TypeOK, CallInv

THEOREM RaceFree == Spec => []NoDataRace
<1>1. IInv => NoDataRace
  <2> SUFFICES ASSUME IInv,
                      NEW x \in Writes("A") \cup Reads("A"),
                      x \in Writes("B") \cup Reads("B"),
                      x \in Writes("A") \/ x \in Writes("B")
               PROVE  FALSE
    BY DEF NoDataRace
  <2> USE DEF Spins, Delay
  <2>1. pc["B"] \in Looping
    BY DEF IInv, PlaceInv, Writes, Reads, Looping, Waiting, Counting
  <2>2. pc["A"] # "reset"
    BY <2>1 DEF IInv, PlaceInv, Looping, Waiting
  <2>3. CASE pc["A"] = "pre" /\ op["A"] = "start"
    BY <2>1, <2>3, UpdateAlone DEF Writes, Reads, Counting, IInv, PlaceInv
  <2>4. CASE pc["A"] \in Counting
    BY <2>4, <2>2, SMTT(30) DEF Writes, Reads, Counting, IInv, PlaceInv, CountInv
  <2>5. CASE pc["A"] = "pre" /\ op["A"] = "end"
    BY <2>5, <2>2, SMTT(30) DEF Writes, Reads, Counting, IInv, PlaceInv
  <2>6. CASE pc["A"] = "tail" /\ op["A"] = "start"
    BY <2>6, <2>2, SMTT(30) DEF Writes, Reads, Counting, IInv, PlaceInv
  <2> QED
    BY <2>2, <2>3, <2>4, <2>5, <2>6 DEF Writes, Reads, Counting
<1> QED
  BY <1>1, Invariance, PTL

(* The calls of pair_wait() implement the barrier: every step of FuzzySync *)
(* is a step of PairBarrier or leaves its variables alone.                 *)
THEOREM ImplementsBarrier == Spec => BarrierSpec
<1>1. Init => Barrier!Init
  BY DEF Init, Barrier!Init, Barrier!Threads
<1>2. IInv /\ [Next]_vars => [Barrier!Next]_(Barrier!vars)
  <2> SUFFICES ASSUME IInv, [Next]_vars
               PROVE  Barrier!Next \/ UNCHANGED <<calls, returns>>
    BY DEF Barrier!vars
  <2>1. ASSUME NEW t \in Threads, Inc(t)
        PROVE  Barrier!Enter(t)
    BY <2>1 DEF Inc, Barrier!Enter, IInv, CallInv, Waiting, Stopped
  <2>2. ASSUME NEW t \in Threads, Drain(t) \/ Spin(t)
        PROVE  Barrier!Leave(t)
    <3>1. calls[t] <= calls[Other(t)] /\ calls[t] = returns[t] + 1
      BY <2>2, ReleaseStep
    <3> QED
      BY <2>2, <3>1, SMTT(30) DEF Drain, Spin, Barrier!Leave, Barrier!Other, IInv, TypeOK
  <2>3. ASSUME NEW t \in Threads, ThreadStep(t)
        PROVE  Inc(t) \/ Drain(t) \/ Spin(t) \/ UNCHANGED <<calls, returns>>
    BY <2>3 DEF ThreadStep, PairWait, Full, CountSpin, Enter, StartRaceTail,
                EndRace, EndRaceTail, Cleanup, Cancel, Join, Exit, hist
  <2>4. CASE PairReset
    BY <2>4 DEF PairReset, Barrier!Next, Barrier!Restart, Barrier!Threads
  <2>5. CASE StepA \/ StepB
    BY <2>1, <2>2, <2>3, <2>4, <2>5
    DEF StepA, StepB, RunA, RunATail, StartRaceA, Return, RunB, RunBTail, StartRaceB,
        Barrier!Next, Barrier!Threads, hist
  <2>6. CASE Cancelled \/ Choice \/ UNCHANGED vars
    BY <2>6 DEF Cancelled, Choice, AddBias, Tick, BeginReset, Finish, LeaveLoop, Brk,
                vars, hist
  <2> QED
    BY <2>5, <2>6 DEF Next
<1> QED
  BY <1>1, <1>2, Invariance, PTL DEF Spec, BarrierSpec, Barrier!Spec

-----------------------------------------------------------------------------
(* How the loops end. pair->exit is written by both threads, so where it   *)
(* is set does not tell by itself which of them is leaving.                *)

InWait == Waiting \cup {"tail"}

(* run_a has stored 1 in pair->exit.                                       *)
Asking == op["A"] = "run" /\ exit_a = 1

(* Thread A asks, and waits for thread B to make its call of run_b, ...    *)
AskedFirst ==
  /\ Asking
  /\ \/ pc["A"] = "inc" /\ calls["A"] = calls["B"]
     \/ pc["A"] \in Waiting /\ calls["A"] = calls["B"] + 1

(* ... or thread B is in that call.                                        *)
Asked ==
  /\ op["B"] = "run" /\ pc["B"] \in InWait
  /\ \/ Asking /\ pc["A"] = "inc" /\ calls["B"] = calls["A"] + 1
     \/ Asking /\ pc["A"] \in InWait /\ calls["A"] = calls["B"]
     \/ pc["A"] = "clean"

(* A thread B that runs, or is in a cleanup that found pair->exit set, has *)
(* been asked by run_a or by the cleanup of thread A.                      *)
AskedInv ==
  exit = 1 /\ pc["B"] \in Looping \cup {"clean", "join", "exit"} =>
    AskedFirst \/ Asked \/ pc["A"] \in {"cancel", "join", "exit"}

QuitInv ==
  /\ pc["B"] \in {"join", "exit"} => exit = 1
  /\ cancelled => pc["A"] \in {"join", "ended"}
  /\ pc["A"] = "ended" <=> pc["B"] = "ended"

TogetherInv ==
  pc["A"] \in Looping /\ broke = {} /\ pc["B"] \notin Looping =>
    /\ pc["B"] = "gone"
    /\ Asking /\ pc["A"] \in InWait /\ calls["A"] = calls["B"]

StopInv == AskedInv /\ QuitInv /\ TogetherInv /\ FreshThreadB

(* A thread A that is neither waiting in run_a nor cleaning up moves on.   *)
LEMMA QuietStep ==
  ASSUME StopInv,
         \/ pc["A"] \in {"test", "pre", "idle", "return"}
         \/ pc["A"] = "tail" /\ ~Asking,
         pc'["A"] \notin {"reset", "return", "ended"},
         pc'["A"] \in Looping => pc["A"] \in Looping,
         pc'["B"] = pc["B"], UNCHANGED <<exit, cancelled>>,
         broke' = {} => broke = {}
  PROVE  StopInv'
<1>1. ~(exit = 1 /\ pc["B"] \in Looping \cup {"clean", "join", "exit"})
  BY DEF StopInv, AskedInv, AskedFirst, Asked, InWait, Waiting
<1>2. AskedInv'
  BY <1>1 DEF AskedInv
<1>3. QuitInv'
  BY DEF StopInv, QuitInv
<1>4. ~(pc["A"] \in Looping /\ broke = {} /\ pc["B"] \notin Looping)
  BY DEF StopInv, TogetherInv, InWait, Waiting
<1>5. TogetherInv' /\ FreshThreadB'
  BY <1>4 DEF TogetherInv, FreshThreadB
<1> QED
  BY <1>2, <1>3, <1>5 DEF StopInv

(* Thread B moves on in its loop, and does not leave a call of run_b.      *)
LEMMA RunningStep ==
  ASSUME StopInv, pc["B"] \in Looping, pc'["B"] \in Looping,
         op["B"] = "run" /\ pc["B"] \in InWait => op'["B"] = "run" /\ pc'["B"] \in InWait,
         pc'["A"] = pc["A"], op'["A"] = op["A"],
         UNCHANGED <<exit, exit_a, cancelled, broke, calls>>
  PROVE  StopInv'
<1>1. AskedInv'
  BY DEF StopInv, AskedInv, AskedFirst, Asked, Asking
<1>2. QuitInv'
  BY DEF StopInv, QuitInv, Looping, Waiting
<1>3. TogetherInv' /\ FreshThreadB'
  BY DEF StopInv, TogetherInv, FreshThreadB, Looping, Waiting
<1> QED
  BY <1>1, <1>2, <1>3 DEF StopInv

(* The steps of pair_wait().                                               *)
LEMMA WaitStop ==
  ASSUME IInv, StopInv, NEW t \in Threads, PairWait(t)
  PROVE  StopInv'
<1>0. TypeOK /\ PlaceInv /\ CallInv("A") /\ CallInv("B") /\ OpInv
  BY DEF IInv
<1>1. CASE Inc(t) /\ t = "A"
  <2>0. /\ pc["A"] = "inc" /\ pc'["A"] \in Waiting /\ pc'["B"] = pc["B"]
        /\ calls'["A"] = calls["A"] + 1 /\ calls'["B"] = calls["B"]
        /\ UNCHANGED <<op, exit, exit_a, cancelled, broke>>
    BY <1>0, <1>1 DEF Inc, TypeOK, Waiting, loop, life
  <2>1. AskedInv'
    BY <1>0, <2>0 DEF StopInv, AskedInv, AskedFirst, Asked, Asking, InWait, Waiting, TypeOK
  <2>2. QuitInv'
    BY <2>0 DEF StopInv, QuitInv, Waiting
  <2>3. TogetherInv' /\ FreshThreadB'
    BY <2>0 DEF StopInv, TogetherInv, FreshThreadB, InWait, Looping, Waiting
  <2> QED
    BY <2>1, <2>2, <2>3 DEF StopInv
<1>2. CASE Inc(t) /\ t = "B"
  <2>0. /\ pc["B"] = "inc" /\ pc'["B"] \in Waiting /\ pc'["A"] = pc["A"]
        /\ calls'["B"] = calls["B"] + 1 /\ calls'["A"] = calls["A"]
        /\ UNCHANGED <<op, exit, exit_a, cancelled, broke>>
    BY <1>0, <1>2 DEF Inc, TypeOK, Waiting, loop, life
  <2>1. AskedFirst => op["B"] = "run"
    <3> SUFFICES ASSUME AskedFirst PROVE op["B"] = "run"
      OBVIOUS
    <3>1. pc["A"] \in Looping /\ pc["B"] \in Looping
      BY <2>0 DEF AskedFirst, Looping
    <3>2. Begun("B") = PrevOp(op["B"])
      BY <2>0 DEF Begun, Waiting
    <3>3. CASE pc["A"] = "inc" /\ calls["A"] = calls["B"]
      <4>1. Begun("A") = PrevOp(op["A"]) /\ Begun("A") = Begun("B")
        BY <3>1, <3>3 DEF OpInv, IInv, Begun, Waiting
      <4> QED
        BY <1>0, <3>2, <4>1 DEF AskedFirst, Asking, PrevOp, TypeOK, Ops
    <3>4. CASE pc["A"] \in Waiting /\ calls["A"] = calls["B"] + 1
      <4>1. Begun("A") = op["A"] /\ Begun("A") = NextOp(Begun("B"))
        BY <3>1, <3>4 DEF OpInv, IInv, Begun
      <4> QED
        BY <1>0, <3>2, <4>1 DEF AskedFirst, Asking, PrevOp, NextOp, TypeOK, Ops
    <3> QED
      BY <3>3, <3>4 DEF AskedFirst
  <2>2. AskedInv'
    BY <1>0, <2>0, <2>1
    DEF StopInv, AskedInv, AskedFirst, Asked, Asking, InWait, Looping, Waiting, TypeOK
  <2>3. QuitInv'
    BY <2>0 DEF StopInv, QuitInv, Waiting
  <2>4. TogetherInv' /\ FreshThreadB'
    BY <2>0 DEF StopInv, TogetherInv, FreshThreadB, Looping, Waiting
  <2> QED
    BY <2>2, <2>3, <2>4 DEF StopInv
<1>3. CASE (Drain(t) \/ Spin(t)) /\ t = "A"
  <2>0. /\ pc["A"] \in Waiting /\ pc'["A"] = "tail" /\ pc'["B"] = pc["B"]
        /\ UNCHANGED <<op, exit, exit_a, cancelled, broke, calls>>
    BY <1>0, <1>3 DEF Drain, Spin, TypeOK, Waiting, loop, life
  <2>1. calls["A"] <= calls["B"]
    BY <1>3, ReleaseStep
  <2>2. AskedInv'
    BY <1>0, <2>0, <2>1, SMTT(30)
    DEF StopInv, AskedInv, AskedFirst, Asked, Asking, InWait, Waiting, TypeOK
  <2>3. QuitInv'
    BY <2>0 DEF StopInv, QuitInv, Waiting
  <2>4. TogetherInv' /\ FreshThreadB'
    BY <2>0 DEF StopInv, TogetherInv, FreshThreadB, Asking, InWait, Looping
  <2> QED
    BY <2>2, <2>3, <2>4 DEF StopInv
<1>4. CASE (Drain(t) \/ Spin(t)) /\ t = "B"
  <2>0. /\ pc["B"] \in Waiting /\ pc'["B"] = "tail" /\ pc'["A"] = pc["A"]
        /\ UNCHANGED <<op, exit, exit_a, cancelled, broke, calls>>
    BY <1>0, <1>4 DEF Drain, Spin, TypeOK, Waiting, loop, life
  <2> QED
    BY <2>0, RunningStep DEF Looping, InWait
<1>5. CASE Full(t) \/ CountSpin(t)
  <2>0. /\ pc[t] \in Waiting /\ pc'[t] \in Waiting /\ pc'[Other(t)] = pc[Other(t)]
        /\ UNCHANGED <<op, exit, exit_a, cancelled, broke, calls>>
    BY <1>0, <1>5 DEF Full, CountSpin, TypeOK, Waiting, loop, life, hist
  <2>1. CASE t = "A"
    <3>0. /\ pc["A"] \in Waiting /\ pc'["A"] \in Waiting /\ pc'["B"] = pc["B"]
      BY <2>0, <2>1
    <3>1. AskedInv'
      BY <2>0, <3>0 DEF StopInv, AskedInv, AskedFirst, Asked, Asking, InWait, Waiting
    <3>2. QuitInv'
      BY <2>0, <3>0 DEF StopInv, QuitInv, Waiting
    <3>3. TogetherInv' /\ FreshThreadB'
      BY <2>0, <3>0 DEF StopInv, TogetherInv, FreshThreadB, Asking, InWait, Looping, Waiting
    <3> QED
      BY <3>1, <3>2, <3>3 DEF StopInv
  <2>2. CASE t = "B"
    BY <2>0, <2>2, RunningStep DEF Looping, InWait
  <2> QED
    BY <2>1, <2>2
<1> QED
  BY <1>1, <1>2, <1>3, <1>4, <1>5 DEF PairWait

(* The rest of a loop: leaving it by run_a or run_b is where exit matters. *)
LEMMA LoopStop ==
  ASSUME IInv, StopInv
  PROVE  /\ RunA \/ RunATail \/ StartRaceA => StopInv'
         /\ RunB \/ RunBTail \/ StartRaceB => StopInv'
         /\ \A t \in Threads :
              Enter(t) \/ StartRaceTail(t) \/ EndRace(t) \/ EndRaceTail(t) => StopInv'
<1>0. TypeOK /\ PlaceInv /\ CallInv("A") /\ CallInv("B") /\ OpInv
  BY DEF IInv
<1>1. ASSUME RunA PROVE StopInv'
  <2>0. /\ pc["A"] = "pre" /\ op["A"] = "run" /\ pc'["A"] = "inc" /\ pc'["B"] = pc["B"]
        /\ exit_a' \in {0, 1} /\ exit' = exit_a'
        /\ UNCHANGED <<op, cancelled, broke, calls>>
    BY <1>0, <1>1 DEF RunA, TypeOK, life, hist
  <2>1. ~(exit = 1 /\ pc["B"] \in Looping \cup {"clean", "join", "exit"})
    BY <2>0 DEF StopInv, AskedInv, AskedFirst, Asked, InWait, Waiting
  <2>2. calls["A"] <= calls["B"]
    BY <1>0, <2>0 DEF CallInv, Waiting, Stopped
  <2>3. ASSUME pc["B"] \in Looping \cup {"clean", "join", "exit"}
        PROVE  \/ calls["A"] = calls["B"]
               \/ op["B"] = "run" /\ pc["B"] \in Waiting /\ calls["B"] = calls["A"] + 1
    <3>1. CASE pc["B"] \notin Waiting
      BY <1>0, <2>2, <2>3, <3>1, SMTT(30) DEF CallInv, TypeOK, Looping, Stopped
    <3>2. CASE pc["B"] \in Waiting /\ calls["B"] # calls["A"]
      <4>1. calls["B"] = calls["A"] + 1
        BY <1>0, <2>0, <2>2, <3>2, SMTT(30) DEF CallInv, TypeOK, Waiting, Stopped
      <4>2. Begun("A") = "end" /\ Begun("B") = op["B"]
        BY <2>0, <3>2 DEF Begun, PrevOp, Waiting
      <4>3. Begun("B") = NextOp(Begun("A"))
        BY <2>0, <3>2, <4>1 DEF IInv, OpInv, Looping
      <4> QED
        BY <3>2, <4>1, <4>2, <4>3 DEF NextOp
    <3> QED
      BY <3>1, <3>2
  <2>4. AskedInv'
    BY <2>0, <2>3 DEF AskedInv, AskedFirst, Asked, Asking, InWait
  <2>5. QuitInv'
    BY <2>0, <2>1 DEF StopInv, QuitInv
  <2>6. TogetherInv' /\ FreshThreadB'
    BY <2>0 DEF StopInv, TogetherInv, FreshThreadB, InWait, Looping, Waiting
  <2> QED
    BY <2>4, <2>5, <2>6 DEF StopInv
<1>2. ASSUME RunATail, exit_a = 1 PROVE StopInv'
  <2>0. /\ pc["A"] = "tail" /\ op["A"] = "run" /\ pc'["A"] = "clean" /\ pc'["B"] = pc["B"]
        /\ UNCHANGED <<op, exit, exit_a, cancelled, broke, calls>>
    BY <1>0, <1>2, SMTT(30) DEF RunATail, TypeOK, loop, hist
  <2>1. AskedInv'
    BY <2>0 DEF StopInv, AskedInv, AskedFirst, Asked, Waiting
  <2>2. QuitInv'
    BY <2>0 DEF StopInv, QuitInv
  <2>3. TogetherInv' /\ FreshThreadB'
    BY <2>0 DEF TogetherInv, FreshThreadB, Looping, Waiting
  <2> QED
    BY <2>1, <2>2, <2>3 DEF StopInv
<1>3. ASSUME RunATail, exit_a # 1 PROVE StopInv'
  <2>0. /\ pc["A"] = "tail" /\ pc'["A"] = "test" /\ pc'["B"] = pc["B"]
        /\ UNCHANGED <<exit, cancelled, broke>>
    BY <1>0, <1>3 DEF RunATail, TypeOK
  <2> QED
    BY <1>3, <2>0, QuietStep DEF Asking, Looping
<1>4. ASSUME \/ StartRaceA \/ Enter("A") \/ StartRaceTail("A") \/ EndRace("A")
             \/ EndRaceTail("A")
      PROVE  StopInv'
  <2>0. /\ pc["A"] \in {"test", "pre"} \/ (pc["A"] = "tail" /\ op["A"] # "run")
        /\ pc'["A"] \in {"pre", "inc", "test"} /\ pc'["B"] = pc["B"]
        /\ UNCHANGED <<exit, cancelled, broke>>
    BY <1>0, <1>4
    DEF StartRaceA, Enter, StartRaceTail, EndRace, EndRaceTail, TypeOK, life
  <2> QED
    BY <2>0, QuietStep DEF Asking, Looping
<1>5. ASSUME \/ RunB \/ StartRaceB \/ Enter("B") \/ StartRaceTail("B") \/ EndRace("B")
             \/ EndRaceTail("B")
      PROVE  StopInv'
  <2>0. /\ pc["B"] \in {"test", "pre"} \/ (pc["B"] = "tail" /\ op["B"] # "run")
        /\ pc'["B"] \in {"pre", "inc", "test"} /\ pc'["A"] = pc["A"] /\ op'["A"] = op["A"]
        /\ UNCHANGED <<exit, exit_a, cancelled, broke, calls>>
    BY <1>0, <1>5
    DEF RunB, StartRaceB, Enter, StartRaceTail, EndRace, EndRaceTail, TypeOK, life, loop,
        hist
  <2> QED
    BY <2>0, RunningStep DEF Looping, InWait, Waiting
<1>6. ASSUME RunBTail, exit = 1 PROVE StopInv'
  <2>0. /\ pc["B"] = "tail" /\ op["B"] = "run" /\ pc'["B"] = "gone" /\ pc'["A"] = pc["A"]
        /\ UNCHANGED <<op, exit, exit_a, cancelled, broke, calls>>
    BY <1>0, <1>6, SMTT(30) DEF RunBTail, TypeOK, loop, life, hist
  <2>1. calls["B"] <= calls["A"] /\ Begun("B") = "run" /\ pc["B"] \in Looping
    BY <1>0, <2>0 DEF CallInv, Begun, Looping, Waiting, Stopped
  <2>2. ~AskedFirst
    <3>1. CASE Asking /\ pc["A"] = "inc" /\ calls["A"] = calls["B"]
      BY <2>1, <3>1 DEF IInv, OpInv, Begun, PrevOp, Asking, Looping, Waiting
    <3>2. CASE Asking /\ pc["A"] \in Waiting /\ calls["A"] = calls["B"] + 1
      <4>1. Begun("A") = "run" /\ Begun("A") = NextOp(Begun("B"))
        BY <2>1, <3>2 DEF IInv, OpInv, Begun, Asking, Looping
      <4> QED
        BY <2>1, <4>1 DEF NextOp
    <3> QED
      BY <3>1, <3>2 DEF AskedFirst
  <2>3. \/ pc["A"] \in {"cancel", "join", "exit", "clean"}
        \/ Asking /\ pc["A"] \in InWait /\ calls["A"] = calls["B"]
    BY <1>0, <1>6, <2>1, <2>2, SMTT(30) DEF StopInv, AskedInv, Asked, TypeOK
  <2>4. AskedInv'
    BY <2>0 DEF AskedInv, Looping, Waiting
  <2>5. QuitInv'
    BY <2>0 DEF StopInv, QuitInv
  <2>6. TogetherInv' /\ FreshThreadB'
    BY <2>0, <2>3 DEF TogetherInv, FreshThreadB, Asking, InWait, Looping, Waiting
  <2> QED
    BY <2>4, <2>5, <2>6 DEF StopInv
<1>7. ASSUME RunBTail, exit # 1 PROVE StopInv'
  <2>0. /\ pc["B"] = "tail" /\ pc'["B"] = "test" /\ pc'["A"] = pc["A"] /\ exit' # 1
        /\ UNCHANGED <<exit, cancelled, broke>>
    BY <1>0, <1>7 DEF RunBTail, TypeOK, life
  <2>1. AskedInv' /\ QuitInv'
    BY <2>0 DEF StopInv, AskedInv, QuitInv
  <2>2. TogetherInv' /\ FreshThreadB'
    BY <2>0 DEF StopInv, TogetherInv, FreshThreadB, Looping
  <2> QED
    BY <2>1, <2>2 DEF StopInv
<1> QED
  BY <1>1, <1>2, <1>3, <1>4, <1>5, <1>6, <1>7

(* Cleaning up, and the ends of the threads.                               *)
LEMMA CleanStop ==
  ASSUME IInv, StopInv
  PROVE  /\ \A t \in Threads : Cleanup(t) \/ Cancel(t) \/ Join(t) \/ Exit(t) => StopInv'
         /\ Cancelled \/ PairReset => StopInv'
<1>0. TypeOK /\ PlaceInv
  BY DEF IInv
<1>1. ASSUME Cleanup("A") PROVE StopInv'
  <2>0. /\ pc["A"] = "clean" /\ pc'["B"] = pc["B"] /\ UNCHANGED <<cancelled, broke>>
        /\ \/ ~thread_b /\ pc'["A"] = after["A"] /\ exit' = exit
           \/ exit' = 1 /\ pc'["A"] \in {"cancel", "join"}
        /\ after["A"] \in {"return", "reset", "exit"}
    BY <1>0, <1>1 DEF Cleanup, TypeOK, life
  <2>1. CASE exit' = 1 /\ pc'["A"] \in {"cancel", "join"}
    BY <2>0, <2>1
    DEF StopInv, AskedInv, QuitInv, TogetherInv, FreshThreadB, Looping, Waiting
  <2>2. CASE ~thread_b /\ pc'["A"] = after["A"] /\ exit' = exit
    <3>1. pc["B"] \in {"gone", "ended"}
      BY <1>0, <2>0, <2>2
      DEF PlaceInv, StopInv, QuitInv, AskedInv, AskedFirst, Asked, InWait, Waiting
    <3>2. AskedInv' /\ TogetherInv' /\ FreshThreadB'
      BY <2>0, <2>2, <3>1 DEF AskedInv, TogetherInv, FreshThreadB, Looping, Waiting
    <3>3. QuitInv'
      BY <2>0, <2>2, <3>1 DEF StopInv, QuitInv
    <3> QED
      BY <3>2, <3>3 DEF StopInv
  <2> QED
    BY <2>0, <2>1, <2>2
<1>2. ASSUME Cleanup("B") PROVE StopInv'
  <2>0. /\ pc["B"] = "clean" /\ thread_b
        /\ pc'["A"] = pc["A"] /\ UNCHANGED <<op, exit_a, calls, cancelled, broke>>
        /\ \/ pc'["B"] = "cancel" /\ exit' = 1
           \/ pc'["B"] = "join" /\ exit = 1 /\ exit' = 1
    BY <1>0, <1>2 DEF Cleanup, TypeOK, PlaceInv, life, loop, hist
  <2>1. AskedInv'
    BY <2>0 DEF StopInv, AskedInv, AskedFirst, Asked, Asking, InWait, Looping, Waiting
  <2>2. QuitInv'
    BY <2>0 DEF StopInv, QuitInv
  <2>3. TogetherInv' /\ FreshThreadB'
    BY <2>0 DEF StopInv, TogetherInv, FreshThreadB, Looping, Waiting
  <2> QED
    BY <2>1, <2>2, <2>3 DEF StopInv
<1>3. ASSUME Cancel("A") PROVE StopInv'
  <2>0. /\ pc["A"] = "cancel" /\ pc'["B"] = pc["B"] /\ UNCHANGED <<exit, broke>>
        /\ \/ pc'["A"] = "join"
           \/ pc'["A"] = "exit" /\ cancelled' = cancelled
    BY <1>0, <1>3 DEF Cancel, TypeOK
  <2>1. AskedInv' /\ TogetherInv' /\ FreshThreadB'
    BY <2>0 DEF AskedInv, TogetherInv, FreshThreadB, Looping, Waiting
  <2>2. QuitInv'
    BY <2>0, SMTT(30) DEF StopInv, QuitInv
  <2> QED
    BY <2>1, <2>2 DEF StopInv
<1>4. ASSUME Cancel("B") \/ Cancelled PROVE StopInv'
  <2>0. /\ pc["B"] # "ended" /\ pc'["B"] = "gone" /\ pc'["A"] = pc["A"]
        /\ UNCHANGED broke /\ (cancelled' => cancelled)
        /\ pc["B"] = "cancel" \/ cancelled
    BY <1>0, <1>4, SMTT(30) DEF Cancel, Cancelled, TypeOK
  <2>1. ~(pc["A"] \in Looping /\ broke = {})
    BY <2>0 DEF StopInv, QuitInv, TogetherInv, Looping, Waiting
  <2>2. AskedInv' /\ TogetherInv' /\ FreshThreadB'
    BY <2>0, <2>1 DEF AskedInv, TogetherInv, FreshThreadB, Looping, Waiting
  <2>3. QuitInv'
    BY <2>0 DEF StopInv, QuitInv
  <2> QED
    BY <2>2, <2>3 DEF StopInv
<1>5. ASSUME Join("A") PROVE StopInv'
  <2>0. /\ pc["A"] = "join" /\ pc["B"] = "gone" /\ pc'["B"] = "gone" /\ cancelled' = FALSE
        /\ pc'["A"] \in {"return", "reset", "exit"}
    BY <1>0, <1>5 DEF Join, TypeOK
  <2> QED
    BY <2>0 DEF StopInv, AskedInv, QuitInv, TogetherInv, FreshThreadB, Looping, Waiting
<1>6. ASSUME Join("B") PROVE StopInv'
  <2>0. /\ pc["B"] = "join" /\ pc'["B"] = "exit" /\ pc'["A"] = pc["A"]
        /\ cancelled' = FALSE /\ UNCHANGED <<op, exit, exit_a, calls, broke>>
    BY <1>0, <1>6 DEF Join, TypeOK, PlaceInv, loop, hist
  <2>1. AskedInv'
    BY <2>0 DEF StopInv, AskedInv, AskedFirst, Asked, Asking, InWait, Looping, Waiting
  <2>2. QuitInv'
    BY <2>0 DEF StopInv, QuitInv
  <2>3. TogetherInv' /\ FreshThreadB'
    BY <2>0 DEF StopInv, TogetherInv, FreshThreadB, Looping, Waiting
  <2> QED
    BY <2>1, <2>2, <2>3 DEF StopInv
<1>7. ASSUME NEW t \in Threads, Exit(t) PROVE StopInv'
  <2>0. pc'["A"] = "ended" /\ pc'["B"] = "ended"
    BY <1>7 DEF Exit
  <2> QED
    BY <2>0 DEF StopInv, AskedInv, QuitInv, TogetherInv, FreshThreadB, Looping, Waiting
<1>8. ASSUME PairReset PROVE StopInv'
  <2>0. /\ pc["A"] = "reset" /\ pc'["A"] = "test" /\ pc'["B"] = "test" /\ exit' = 0
        /\ UNCHANGED cancelled
    BY <1>8 DEF PairReset
  <2> QED
    BY <2>0, SMTT(30) DEF StopInv, AskedInv, QuitInv, TogetherInv, FreshThreadB, Looping
<1> QED
  BY <1>1, <1>2, <1>3, <1>4, <1>5, <1>6, <1>7, <1>8

(* What the test does.                                                     *)
LEMMA ChoiceStop ==
  ASSUME IInv, StopInv, Return \/ Choice \/ UNCHANGED vars
  PROVE  StopInv'
<1>0. TypeOK /\ PlaceInv
  BY DEF IInv
<1>1. ASSUME AddBias \/ Tick \/ UNCHANGED vars PROVE StopInv'
  <2>0. UNCHANGED <<pc, op, exit, exit_a, cancelled, broke, calls>>
    BY <1>1 DEF AddBias, Tick, vars, loop, life, hist
  <2>1. AskedInv'
    BY <2>0 DEF StopInv, AskedInv, AskedFirst, Asked, Asking
  <2>2. QuitInv' /\ TogetherInv' /\ FreshThreadB'
    BY <2>0 DEF StopInv, QuitInv, TogetherInv, Asking, FreshThreadB
  <2> QED
    BY <2>1, <2>2 DEF StopInv
<1>2. ASSUME Return \/ BeginReset \/ Finish \/ LeaveLoop \/ Brk("A") PROVE StopInv'
  <2>0. /\ pc["A"] \in {"test", "idle", "return"} /\ pc'["A"] \in {"idle", "clean"}
        /\ pc'["B"] = pc["B"] /\ UNCHANGED <<exit, cancelled>>
        /\ broke' = {} => broke = {}
    BY <1>0, <1>2 DEF Return, BeginReset, Finish, LeaveLoop, Brk, TypeOK, life
  <2> QED
    BY <2>0, QuietStep DEF Looping, Waiting
<1>3. ASSUME Brk("B") PROVE StopInv'
  <2>0. /\ pc["B"] = "test" /\ pc'["B"] = "clean" /\ pc'["A"] = pc["A"] /\ broke' # {}
        /\ UNCHANGED <<op, exit, exit_a, calls, cancelled>>
    BY <1>0, <1>3 DEF Brk, TypeOK, loop, hist
  <2>1. AskedInv'
    BY <2>0 DEF StopInv, AskedInv, AskedFirst, Asked, Asking, InWait, Looping, Waiting
  <2>2. QuitInv' /\ TogetherInv' /\ FreshThreadB'
    BY <2>0 DEF StopInv, QuitInv, TogetherInv, FreshThreadB
  <2> QED
    BY <2>1, <2>2 DEF StopInv
<1> QED
  BY <1>1, <1>2, <1>3 DEF Choice

(* Every step preserves the second invariant.                              *)
LEMMA NextStopInv == IInv /\ StopInv /\ [Next]_vars => StopInv'
<1> SUFFICES ASSUME IInv, StopInv, [Next]_vars PROVE StopInv'
  OBVIOUS
<1>1. ASSUME NEW t \in Threads, ThreadStep(t) PROVE StopInv'
  BY <1>1, WaitStop, LoopStop, CleanStop DEF ThreadStep
<1>2. CASE StepA \/ StepB
  BY <1>1, <1>2, LoopStop, CleanStop, ChoiceStop DEF StepA, StepB
<1>3. CASE Cancelled \/ Choice \/ UNCHANGED vars
  BY <1>3, CleanStop, ChoiceStop
<1> QED
  BY <1>2, <1>3 DEF Next

THEOREM StopInvariance == Spec => []StopInv
<1>1. Init => StopInv
  BY DEF Init, StopInv, AskedInv, QuitInv, TogetherInv, FreshThreadB, Looping, Waiting
<1> QED
  BY <1>1, NextStopInv, Invariance, PTL DEF Spec

(* run_a and run_b end the two loops in the same iteration, unless a thread *)
(* has called tst_brk() (tst_fzsync_run_a, tst_fzsync_run_b).              *)
THEOREM LoopsExitTogether == Spec => []ExitTogether
<1>1. IInv /\ StopInv => ExitTogether
  BY DEF StopInv, TogetherInv, ExitTogether, Asking, Looping, Waiting
<1> QED
  BY <1>1, Invariance, StopInvariance, PTL

(* tst_fzsync_pair_reset() starts a thread B only when the one of the      *)
(* earlier round is gone, even if that one is in a tst_brk() of its own.   *)
THEOREM ThreadBFresh == Spec => []FreshThreadB
<1>1. StopInv => FreshThreadB
  BY DEF StopInv
<1> QED
  BY <1>1, StopInvariance, PTL

(* Random delays are not given up again (tst_fzsync_pair_update()).        *)
THEOREM AveragesStayFrozen == Spec => []AveragesFrozen
<1>1. Init => AveragesFrozen
  BY DEF Init, AveragesFrozen
<1>2. IInv /\ AveragesFrozen /\ [Next]_vars => AveragesFrozen'
  <2> SUFFICES ASSUME IInv, AveragesFrozen, [Next]_vars PROVE AveragesFrozen'
    OBVIOUS
  <2>0. sampling \in -1 .. MinSamples /\ over \in BOOLEAN
    BY DEF IInv, TypeOK
  <2>1. ASSUME UNCHANGED <<sampling, over>> PROVE AveragesFrozen'
    BY <2>1 DEF AveragesFrozen
  <2>2. ASSUME NEW t \in Threads, ThreadStep(t) PROVE UNCHANGED <<sampling, over>>
    BY <2>2 DEF ThreadStep, PairWait, Inc, Full, Drain, Spin, CountSpin, Enter,
       StartRaceTail, EndRace, EndRaceTail, Cleanup, Cancel, Join, Exit, stats
  <2>3. ASSUME RunA PROVE AveragesFrozen'
    <3>1. over' = over /\ sampling' \in {0, sampling}
      BY <2>3 DEF RunA
    <3> QED
      BY <3>1, SMTT(30) DEF AveragesFrozen
  <2>4. ASSUME PairUpdate PROVE AveragesFrozen'
    <3>1. CASE sampling > 0
      BY <2>0, <2>4, <3>1, SMTT(30) DEF PairUpdate, AveragesFrozen
    <3>2. CASE sampling <= 0
      BY <2>0, <2>4, <3>2, SMTT(30) DEF PairUpdate, AveragesFrozen
    <3> QED
      BY <2>0, <3>1, <3>2, SMTT(30)
  <2>5. ASSUME PairReset PROVE AveragesFrozen'
    BY <2>5, BoundsAssumption, SMTT(30) DEF PairReset, AveragesFrozen
  <2>6. ASSUME RunATail \/ Return \/ RunB \/ RunBTail \/ StartRaceB
        PROVE  UNCHANGED <<sampling, over>>
    BY <2>6 DEF RunATail, Return, RunB, RunBTail, StartRaceB, stats
  <2>7. ASSUME Cancelled \/ Choice \/ UNCHANGED vars PROVE UNCHANGED <<sampling, over>>
    BY <2>7 DEF Cancelled, Choice, AddBias, Tick, BeginReset, Finish, LeaveLoop, Brk,
       vars, stats
  <2> QED
    BY <2>1, <2>2, <2>3, <2>4, <2>5, <2>6, <2>7 DEF Next, StepA, StepB, StartRaceA
<1> QED
  BY <1>1, <1>2, Invariance, PTL DEF Spec
=============================================================================
