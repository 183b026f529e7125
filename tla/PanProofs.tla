----------------------------- MODULE PanProofs -----------------------------
(***************************************************************************)
(* Proofs about Pan: for any number of commands, slots and process ids, any  *)
(* options and any signals.                                                  *)
(*                                                                           *)
(* Invariant is what holds whatever interrupts pan.  When no signal           *)
(* interrupts the calls of run_child() pan loses no child, and Plain holds    *)
(* as well; when there is no ltp-bump either, so does Listed.                 *)
(***************************************************************************)
EXTENDS Pan, FiniteSetTheorems, WellFoundedInduction, TLAPS

\* Leaves are for Zenon, unless they name another prover.
USE ZenonT(30)

\* No process is in two slots.
Distinct ==
    \A i, j \in Slots :
        running[i].pgrp = running[j].pgrp /\ running[i].pgrp # NoPid => i = j

\* The child that is being started has a slot to go to, and no slot yet; the
\* child that was reaped is gone; every other child in a slot is there.
Held ==
    /\ pc \in {"read", "waitpid"} =>
           cpid \in Pids \ Tracked /\ proc[cpid] # "free" /\ Active # Slots
    /\ pc = "reaped" => cpid \in Pids /\ proc[cpid] = "free"
    /\ pc \notin Ended =>
           \A p \in Tracked : proc[p] # "free" \/ (pc = "reaped" /\ p = cpid)
    /\ doomed \subseteq Tracked

Invariant == TypeOK /\ Distinct /\ Held /\ LiveListed

\* Every child is in a slot, but the one that is being started.
NoneLost ==
    /\ num_active = Cardinality(Active)
    /\ pc # "crashed"
    /\ \A p \in Pids :
           proc[p] # "free" => p \in Tracked \/ (pc \in {"read", "waitpid"} /\ p = cpid)
    /\ pc = "reaped" => cpid \in Tracked
    /\ pc = "waitpid" => proc[cpid] = "unexecuted"

\* A group without a leader is an orphan.
Groups ==
    /\ \A p \in Pids : proc[p] \in {"forked", "unable", "unexecuted"} => ~ members[p]
    /\ pc # "exit1" =>
           \A p \in Pids : members[p] =>
               proc[p] # "free" \/ p \in orphans \/ (pc = "reaped" /\ p = cpid)
    /\ \A p \in orphans : proc[p] = "free" /\ ~ (pc = "reaped" /\ p = cpid)

\* What remains to be done when the scheduler has left its loop.
Drained ==
    /\ pc \in {"drain", "osend", "oclear", "exit"} => stop /\ num_active = 0
    /\ pc = "exit" => orphans = {}

\* While a command is doomed something keeps the loop from starting another.
Quiescing ==
    /\ pc = "usr2" => stop \/ go_idle
    /\ doomed # {} => Halted \/ pc \in {"send", "clear"}

Plain == NoneLost /\ Groups /\ Drained /\ Quiescing

Listed == bump = NoPid /\ pc # "exit1" /\ ActiveFile

\* A failure that is not counted yet is that of a child to be reaped, or of the
\* one just reaped.
Pending ==
    \/ \E p \in Pids : code[p] = "fail" /\ (proc[p] = "zombie" \/ (pc = "reaped" /\ p = cpid))
    \/ pc = "post" /\ err

\* With commands that can all be executed.
Counted ==
    /\ \A p \in Pids : proc[p] \notin {"unable", "unexecuted"}
    /\ opt.track_exit_stats /\ failed /\ pc # "exit1" => exit_stat > 0 \/ Pending
----------------------------------------------------------------------------
(* Facts about the operators.                                                *)

\* A set of naturals that is not empty has a least member.
LEMMA MinIn ==
    ASSUME NEW S \in SUBSET Nat, S # {}
    PROVE  Min(S) \in S /\ \A y \in S : Min(S) <= y
<1>1. PICK x \in S : \A y \in S : ~ (<<y, x>> \in OpToRel(<, Nat))
  BY NatLessThanWellFounded, WFMin
<1>2. ASSUME NEW y \in S PROVE x <= y
  <2>1. <<y, x>> \in Nat \X Nat /\ <<y, x>>[1] = y /\ <<y, x>>[2] = x
    OBVIOUS
  <2>2. ~ (y < x)
    BY <1>1, <2>1 DEF OpToRel
  <2> QED
    BY <2>2, SMTT(30)
<1> QED
  BY <1>2 DEF Min

\* The search for a free slot finds one.
LEMMA FreeSlotFree ==
    ASSUME Active # Slots
    PROVE  FreeSlot \in Slots /\ running[FreeSlot].pgrp = NoPid
<1>1. {i \in Slots : running[i].pgrp = NoPid} # {}
  BY DEF Active
<1>2. {i \in Slots : running[i].pgrp = NoPid} \in SUBSET Nat
  BY CommandsAssumption, SMTT(30) DEF Slots
<1>3. FreeSlot \in {i \in Slots : running[i].pgrp = NoPid}
  BY <1>1, <1>2, MinIn DEF FreeSlot
<1> QED
  BY <1>3

\* The slots in use.
LEMMA ActiveFinite ==
    /\ IsFiniteSet(Slots) /\ Cardinality(Slots) = KeepActive
    /\ IsFiniteSet(Active) /\ Cardinality(Active) \in Nat
    /\ Cardinality(Active) = 0 <=> Active = {}
    /\ Cardinality(Active) = KeepActive => Active = Slots
<1>1. IsFiniteSet(Slots) /\ Cardinality(Slots) = KeepActive
  BY CommandsAssumption, FS_Interval, SMTT(30) DEF Slots
<1>2. Active \in SUBSET Slots
  BY DEF Active
<1>3. IsFiniteSet(Active) /\ (Cardinality(Active) = KeepActive => Active = Slots)
  BY <1>1, <1>2, FS_Subset
<1>4. Cardinality(Active) \in Nat /\ (Cardinality(Active) = 0 <=> Active = {})
  BY <1>3, FS_CardinalityType, FS_EmptySet
<1> QED
  BY <1>1, <1>3, <1>4

\* What Tracked is, slot by slot.
LEMMA TrackedDef ==
    ASSUME NEW p PROVE p \in Tracked <=> p # NoPid /\ \E i \in Slots : running[i].pgrp = p
BY DEF Tracked, Active

\* The number of tracked processes is the number of slots in use.
LEMMA TrackedCount == Distinct => Cardinality(Tracked) = Cardinality(Active)
<1> SUFFICES ASSUME Distinct PROVE Cardinality(Tracked) = Cardinality(Active)
  OBVIOUS
<1> DEFINE f == [i \in Active |-> running[i].pgrp]
<1>1. f \in Injection(Active, Tracked)
  BY DEF Injection, IsInjective, Distinct, Active, Tracked
<1>2. f \in Surjection(Active, Tracked)
  BY DEF Surjection, Tracked
<1>3. ExistsBijection(Active, Tracked)
  BY <1>1, <1>2 DEF ExistsBijection, Bijection
<1> QED
  BY <1>3, ActiveFinite, FS_Bijection

\* Steps that leave the process groups in the slots alone.
LEMMA SameSlots ==
    ASSUME \A i \in Slots : running'[i].pgrp = running[i].pgrp
    PROVE  Tracked' = Tracked /\ Active' = Active /\ (Distinct => Distinct')
<1>1. Active' = Active
  BY DEF Active
<1>2. Tracked' = Tracked
  BY <1>1 DEF Tracked, Active
<1> QED
  BY <1>1, <1>2 DEF Distinct

\* A process goes to a slot that is free.
LEMMA SlotTaken ==
    ASSUME NEW k \in Slots, NEW q, q # NoPid, running[k].pgrp = NoPid, q \notin Tracked, Distinct,
           \A i \in Slots : running'[i].pgrp = IF i = k THEN q ELSE running[i].pgrp
    PROVE  /\ Active' = Active \cup {k} /\ Tracked' = Tracked \cup {q} /\ Distinct'
           /\ Cardinality(Active') = Cardinality(Active) + 1
<1>1. Active' = Active \cup {k} /\ k \notin Active
  BY DEF Active
<1>2. \A p : p \in Tracked' <=> p # NoPid /\ \E i \in Slots : running'[i].pgrp = p
  BY DEF Tracked, Active
<1>3. Tracked' = Tracked \cup {q}
  BY <1>2, TrackedDef, SMTT(30)
<1>4. \A i \in Slots : running[i].pgrp # q
  BY TrackedDef
<1>5. Distinct'
  BY <1>4 DEF Distinct
<1>6. Cardinality(Active') = Cardinality(Active) + 1
  BY <1>1, ActiveFinite, FS_AddElement
<1> QED
  BY <1>1, <1>3, <1>5, <1>6

\* A slot is freed.
LEMMA SlotFreed ==
    ASSUME NEW k \in Slots, NEW q, q # NoPid, running[k].pgrp = q, Distinct,
           \A i \in Slots : running'[i].pgrp = IF i = k THEN NoPid ELSE running[i].pgrp
    PROVE  /\ Active' = Active \ {k} /\ Tracked' = Tracked \ {q} /\ Distinct'
           /\ Cardinality(Active') = Cardinality(Active) - 1
<1>1. Active' = Active \ {k} /\ k \in Active
  BY DEF Active
<1>2. \A p : p \in Tracked' <=> p # NoPid /\ \E i \in Slots : running'[i].pgrp = p
  BY DEF Tracked, Active
<1>3. \A i \in Slots : running[i].pgrp = q => i = k
  BY DEF Distinct
<1>4. \A p : p \in Tracked' <=> p \in Tracked /\ p # q
  BY <1>2, <1>3, TrackedDef, SMTT(30)
<1>5. Distinct'
  BY DEF Distinct
<1>6. Cardinality(Active') = Cardinality(Active) - 1
  BY <1>1, ActiveFinite, FS_RemoveElement
<1> QED
  BY <1>1, <1>4, <1>5, <1>6

----------------------------------------------------------------------------
(* Steps.                                                                    *)

\* The parts of the type invariant.
FlagTypes ==
    /\ fork_in_road \in BOOLEAN /\ stop \in BOOLEAN /\ go_idle \in BOOLEAN
    /\ err \in BOOLEAN /\ stop_file \in BOOLEAN /\ failed \in BOOLEAN /\ owed \in BOOLEAN
NumTypes ==
    /\ opt \in Options /\ starts \in Int /\ starts >= -1 /\ c \in 1..Cnt
    /\ num_active \in Int /\ exit_stat \in Nat
    /\ signals \in 0..MaxSignals /\ bumps \in 0..MaxBumps
SlotTypes == running \in [Slots -> [pgrp : Pids \cup {NoPid}, stopping : BOOLEAN]]
HandlerTypes ==
    /\ rec_signal \in AllSignals \cup {None}
    /\ send_signal \in AllSignals \cup {None, "KILL"}
    /\ lastsent \in AllSignals \cup {None, "KILL"}
PlaceTypes ==
    /\ orphans \subseteq Pids /\ zoo \subseteq Pids \cup {Self} /\ doomed \subseteq Pids
    /\ cpid \in Pids \cup {NoPid} /\ bump \in Pids \cup {NoPid}
    /\ late \subseteq Pids /\ strayed \subseteq Pids
    /\ pc \in {"loop", "read", "waitpid", "scan", "sig", "usr2", "send",
               "clear", "orphans", "wait", "reaped", "post", "drain", "osend",
               "oclear", "exit", "exit1", "crashed"}
KernelTypes ==
    proc \in [Pids -> States] /\ code \in [Pids -> Codes] /\ members \in [Pids -> BOOLEAN]

\* They make up the type invariant of pan.
LEMMA TypeParts ==
    TypeOK <=> /\ FlagTypes /\ NumTypes /\ SlotTypes /\ HandlerTypes /\ PlaceTypes
               /\ KernelTypes
BY DEF TypeOK, FlagTypes, NumTypes, SlotTypes, HandlerTypes, PlaceTypes, KernelTypes
LEMMA TypePartsNext ==
    TypeOK' <=> /\ FlagTypes' /\ NumTypes' /\ SlotTypes' /\ HandlerTypes' /\ PlaceTypes'
                /\ KernelTypes'
BY DEF TypeOK, FlagTypes, NumTypes, SlotTypes, HandlerTypes, PlaceTypes, KernelTypes

\* What a step is to preserve, and on which conditions.
Keeps ==
    /\ Invariant'
    /\ ~ RunChildInterrupted /\ Plain => Plain'
    /\ ~ RunChildInterrupted /\ MaxBumps = 0 /\ Plain /\ Listed => Listed'
    /\ ~ RunChildInterrupted /\ ExecFails = {} /\ Plain /\ Counted => Counted'

\* The handler keeps its types, and a signal that it notes is not 0.
LEMMA HandlerStep ==
    ASSUME HandlerTypes, NEW sig \in AllSignals
    PROVE  /\ Ratchet(sig) \in AllSignals \cup {None, "KILL"}
           /\ WaitHandler(sig) => HandlerTypes' /\ rec_signal' = sig /\ sig # None
<1>1. Ratchet(sig) \in AllSignals \cup {None, "KILL"}
  BY DEF Ratchet, HandlerTypes, AllSignals
<1>2. sig # None
  BY DEF AllSignals, None
<1> QED
  BY <1>1, <1>2 DEF WaitHandler, HandlerTypes

\* The index of the next command stays in range.
LEMMA NextCommand == ASSUME NumTypes PROVE (c % Cnt) + 1 \in 1..Cnt
<1>1. c \in Int /\ Cnt \in Nat /\ Cnt > 0
  BY CommandsAssumption, SMTT(30) DEF NumTypes
<1>2. c % Cnt \in 0..(Cnt - 1)
  BY <1>1, SMTT(30)
<1> QED
  BY <1>1, <1>2, SMTT(30)

\* The bookkeeping after run_child().
LEMMA StartedStep ==
    ASSUME NumTypes, NEW ok, Started(ok), exit_stat' = exit_stat, opt' = opt,
           signals' \in 0..MaxSignals, bumps' = bumps
    PROVE  /\ NumTypes' /\ pc' = "loop"
           /\ ok => num_active' = num_active + 1
           /\ ~ ok => num_active' = num_active
<1>1. c' \in 1..Cnt
  BY NextCommand DEF Started, NumTypes
<1>2. starts' \in Int /\ starts' >= -1
  BY SMTT(30) DEF Started, NumTypes
<1>3. num_active' = IF ok THEN num_active + 1 ELSE num_active
  BY DEF Started
<1>4. num_active' \in Int
  BY <1>3, SMTT(30) DEF NumTypes
<1> QED
  BY <1>1, <1>2, <1>3, <1>4 DEF NumTypes, Started

\* check_orphans() drops groups that are empty, and nothing else.
LEMMA CheckStep ==
    ASSUME PlaceTypes, CheckOrphans
    PROVE  /\ orphans' \subseteq orphans /\ zoo' = zoo \ (orphans \ orphans')
           /\ \A p \in orphans \ orphans' : p \in Pids /\ proc[p] = "free" /\ ~ members[p]
BY DEF PlaceTypes, CheckOrphans, GroupExists

\* propagate_signal() empties no slot, ends only commands that run, with a status
\* that is not a failure, and leaves a received signal received.
LEMMA PropagateStep ==
    ASSUME SlotTypes, HandlerTypes, PlaceTypes, KernelTypes, Propagate
    PROVE  /\ SlotTypes' /\ HandlerTypes' /\ KernelTypes'
           /\ \A i \in Slots : running'[i].pgrp = running[i].pgrp
           /\ \A p \in Pids : \/ proc'[p] = proc[p] /\ code'[p] = code[p]
                              \/ proc[p] = "running" /\ proc'[p] = "zombie"
           /\ \A p \in Pids : members'[p] => members[p]
           /\ orphans' \subseteq orphans /\ zoo' = zoo \ (orphans \ orphans')
           /\ \A p \in orphans \ orphans' : p \in Pids /\ proc[p] = "free" /\ ~ members[p]
           /\ rec_signal' = None <=> rec_signal = None
           /\ owed' = FALSE
<1>1. SlotTypes' /\ \A i \in Slots : running'[i].pgrp = running[i].pgrp
  BY DEF SlotTypes, Propagate
<1>2. HandlerTypes' /\ (rec_signal' = None <=> rec_signal = None) /\ owed' = FALSE
  BY DEF HandlerTypes, Propagate, None, AllSignals
<1>3. Kill(Tracked \cup orphans, send_signal) /\ CheckOrphans
  BY DEF Propagate
<1>4. CASE send_signal = "KILL"
  <2> DEFINE S == Tracked \cup orphans
  <2>0. /\ proc' = [p \in Pids |->
                       IF p \in S /\ proc[p] = "running" THEN "zombie" ELSE proc[p]]
        /\ code' = [p \in Pids |->
                       IF p \in S /\ proc[p] = "running" THEN "signal" ELSE code[p]]
        /\ members' = [p \in Pids |-> members[p] /\ p \notin S]
    BY <1>3, <1>4 DEF Kill
  <2> HIDE DEF S
  <2>a. proc' \in [Pids -> States] /\ code' \in [Pids -> Codes]
    BY <2>0 DEF KernelTypes, States, Codes
  <2>b. members' \in [Pids -> BOOLEAN]
    BY <2>0 DEF KernelTypes
  <2>1. KernelTypes'
    BY <2>a, <2>b DEF KernelTypes
  <2>2. ASSUME NEW p \in Pids
        PROVE  \/ proc'[p] = proc[p] /\ code'[p] = code[p]
               \/ proc[p] = "running" /\ proc'[p] = "zombie"
    <3>1. CASE p \in S /\ proc[p] = "running"
      BY <2>0, <3>1
    <3>2. CASE ~ (p \in S /\ proc[p] = "running")
      BY <2>0, <3>2
    <3> QED
      BY <3>1, <3>2
  <2>3. \A p \in Pids : members'[p] => members[p]
    BY <2>0
  <2> QED
    BY <1>1, <1>2, <1>3, <2>1, <2>2, <2>3, CheckStep
<1>5. CASE send_signal # "KILL"
  <2>1. UNCHANGED <<proc, code, members>>
    BY <1>3, <1>5 DEF Kill, kernel
  <2>2. KernelTypes'
    BY <2>1 DEF KernelTypes
  <2> QED
    BY <1>1, <1>2, <1>3, <2>1, <2>2, CheckStep
<1> QED
  BY <1>4, <1>5

\* When no command is active none is tracked, and none is doomed.
LEMMA NoneActive ==
    ASSUME NumTypes, Held, NoneLost, num_active = 0
    PROVE  Active = {} /\ Tracked = {} /\ doomed = {}
<1>1. Active = {}
  BY ActiveFinite DEF NoneLost
<1>2. Tracked = {}
  BY <1>1 DEF Tracked
<1> QED
  BY <1>1, <1>2 DEF Held

\* What is tracked is a process.
LEMMA TrackedPids == ASSUME SlotTypes PROVE Tracked \subseteq Pids
BY DEF SlotTypes, Tracked, Active

\* main() starts commands.
LEMMA StartKeeps ==
    ASSUME FlagTypes, NumTypes, SlotTypes, HandlerTypes, PlaceTypes, KernelTypes,
           Distinct, Held, LiveListed,
           StartChild \/ StartFails \/ Abort \/ ReadEof \/ ReadError \/ WaitChild
           \/ LeaveLoop \/ Scan
    PROVE  Keeps
<1>1. ASSUME StartChild PROVE Keeps
  <2>p. PICK q \in Pids :
            /\ PidFree(q) /\ cpid' = q
            /\ proc' = [proc EXCEPT ![q] = IF c' \in ExecFails THEN "unable" ELSE "forked"]
    BY <1>1 DEF StartChild
  <2>q. KernelTypes' /\ (\A p \in Pids : p # q => proc'[p] = proc[p])
    BY <1>1, <2>p DEF StartChild, KernelTypes, States
  <2>r. proc'[q] \in {"unable", "forked"} /\ (ExecFails = {} => proc'[q] = "forked")
    BY <2>p DEF KernelTypes
  <2>t. proc[q] = "free" /\ ~ members[q] /\ q \notin orphans /\ q \notin Tracked
    BY <1>1, <2>p DEF StartChild, PidFree, GroupExists, Held, Ended
  <2>0. /\ pc = "loop" /\ pc' = "read" /\ Active # Slots /\ c' \in 1..Cnt
        /\ ~ stop /\ ~ go_idle /\ rec_signal = None /\ cpid' = q
        /\ UNCHANGED <<opt, fork_in_road, starts, stop, go_idle, num_active, exit_stat, running, orphans>>
        /\ UNCHANGED <<rec_signal, send_signal, lastsent, err, zoo, code, members, bump, late, strayed, stop_file>>
        /\ UNCHANGED <<signals, bumps, doomed, failed, owed>>
    BY <1>1, <2>p DEF StartChild, Halted, PidFree, GroupExists, NumTypes, sched, handler,
       kernel, world, history
  <2>s. Tracked' = Tracked /\ Active' = Active /\ Distinct'
    BY <2>0, SameSlots
  <2>1. FlagTypes'
    BY <2>0, <2>s DEF FlagTypes
  <2>2. NumTypes' /\ SlotTypes' /\ HandlerTypes' /\ PlaceTypes'
    BY <2>0, <2>s, CommandsAssumption, SignalsAssumption DEF NumTypes, SlotTypes,
       HandlerTypes, PlaceTypes
  <2>3. KernelTypes'
    BY <2>q
  <2>4. Held'
    BY <2>0, <2>s, <2>q, <2>r, <2>t, TrackedPids DEF Held, Ended
  <2>5. LiveListed'
    BY <2>0, <2>s, <2>q, <2>t DEF LiveListed, Alive
  <2>6. ASSUME ~ RunChildInterrupted, Plain PROVE Plain'
    <3>1. Drained' /\ Quiescing'
      BY <2>0, <2>s, <2>6 DEF Plain, Drained, Quiescing, Halted
    <3>2. NoneLost'
      BY <2>0, <2>s, <2>6, <2>q, <2>t DEF Plain, NoneLost
    <3>3. Groups'
      BY <2>0, <2>s, <2>6, <2>q, <2>r, <2>t DEF Plain, Groups, PlaceTypes
    <3> QED
      BY <3>1, <3>2, <3>3 DEF Plain
  <2>7. ASSUME ~ RunChildInterrupted, MaxBumps = 0, Plain, Listed PROVE Listed'
    BY <2>0, <2>s, <2>7 DEF Listed, ActiveFile
  <2>8. ASSUME ~ RunChildInterrupted, ExecFails = {}, Plain, Counted PROVE Counted'
    BY <2>8, <2>0, <2>q, <2>r, <2>t DEF Counted, Pending
  <2> QED
    BY <2>s, <2>1, <2>2, <2>3, <2>4, <2>5, <2>6, <2>7, <2>8, TypePartsNext DEF Keeps,
       Invariant
<1>2. ASSUME StartFails PROVE Keeps
  <2>p. NumTypes' /\ pc' = "loop" /\ num_active' = num_active
    BY <1>2, StartedStep DEF StartFails, world, NumTypes
  <2>0. /\ pc = "loop" /\ pc' = "loop" /\ num_active' = num_active /\ NumTypes'
        /\ UNCHANGED <<opt, fork_in_road, stop, go_idle, exit_stat, running, orphans, rec_signal, send_signal>>
        /\ UNCHANGED <<lastsent, cpid, err, zoo, proc, code, members, bump, late, strayed, stop_file>>
        /\ UNCHANGED <<signals, bumps, doomed, failed, owed>>
    BY <1>2, <2>p DEF StartFails, sched, handler, kernel, world, history
  <2>s. Tracked' = Tracked /\ Active' = Active /\ Distinct'
    BY <2>0, SameSlots
  <2>1. FlagTypes'
    BY <2>0, <2>s DEF FlagTypes
  <2>2. SlotTypes' /\ HandlerTypes' /\ PlaceTypes' /\ KernelTypes'
    BY <2>0, <2>s DEF SlotTypes, HandlerTypes, PlaceTypes, KernelTypes
  <2>3. NumTypes'
    BY <2>0
  <2>4. Held' /\ LiveListed'
    BY <2>0, <2>s DEF Held, Ended, LiveListed, Alive
  <2>5. ASSUME ~ RunChildInterrupted, Plain PROVE Plain'
    BY <2>0, <2>s, <2>5 DEF Plain, NoneLost, Groups, Drained, Quiescing, Halted
  <2>6. ASSUME ~ RunChildInterrupted, MaxBumps = 0, Plain, Listed PROVE Listed'
    BY <2>0, <2>s, <2>6 DEF Listed, ActiveFile
  <2>7. ASSUME ~ RunChildInterrupted, ExecFails = {}, Plain, Counted PROVE Counted'
    BY <2>0, <2>s, <2>7 DEF Counted, Pending
  <2> QED
    BY <2>s, <2>1, <2>2, <2>3, <2>4, <2>5, <2>6, <2>7, TypePartsNext DEF Keeps, Invariant
<1>3. ASSUME Abort PROVE Keeps
  <2>p. HandlerTypes' /\ rec_signal' # None
    BY <1>3, HandlerStep DEF Abort, AllSignals
  <2>0. /\ pc = "loop" /\ pc' = "scan" /\ exit_stat' = exit_stat + 1 /\ exit_stat \in Nat
        /\ HandlerTypes' /\ rec_signal' # None
        /\ UNCHANGED <<opt, fork_in_road, starts, c, stop, go_idle, num_active, running, orphans>>
        /\ UNCHANGED <<cpid, err, zoo, proc, code, members, bump, late, strayed, stop_file, signals>>
        /\ UNCHANGED <<bumps, doomed, failed, owed>>
    BY <1>3, <2>p DEF Abort, NumTypes, sched, handler, kernel, world, history
  <2>s. Tracked' = Tracked /\ Active' = Active /\ Distinct'
    BY <2>0, SameSlots
  <2>1. FlagTypes'
    BY <2>0, <2>s DEF FlagTypes
  <2>2. NumTypes' /\ SlotTypes' /\ HandlerTypes' /\ PlaceTypes' /\ KernelTypes'
    BY <2>0, <2>s, CommandsAssumption, SignalsAssumption, SMTT(30) DEF NumTypes, SlotTypes,
       HandlerTypes, PlaceTypes, KernelTypes
  <2>3. Held' /\ LiveListed'
    BY <2>0, <2>s DEF Held, Ended, LiveListed, Alive
  <2>4. ASSUME ~ RunChildInterrupted, Plain PROVE Plain'
    BY <2>0, <2>s, <2>4 DEF Plain, NoneLost, Groups, Drained, Quiescing, Halted
  <2>5. ASSUME ~ RunChildInterrupted, MaxBumps = 0, Plain, Listed PROVE Listed'
    BY <2>0, <2>s, <2>5 DEF Listed, ActiveFile
  <2>6. ASSUME ~ RunChildInterrupted, ExecFails = {}, Plain, Counted PROVE Counted'
    BY <2>0, <2>s, <2>6, SMTT(30) DEF Counted, Pending
  <2> QED
    BY <2>s, <2>1, <2>2, <2>3, <2>4, <2>5, <2>6, TypePartsNext DEF Keeps, Invariant
<1>4. ASSUME ReadEof PROVE Keeps
  <2>p. NumTypes' /\ pc' = "loop" /\ num_active' = num_active + 1
    BY <1>4, StartedStep DEF ReadEof, NumTypes
  <2>q. pc = "read" /\ cpid \in Pids /\ cpid \notin Tracked /\ Active # Slots
    BY <1>4 DEF ReadEof, Held
  <2>r. /\ FreeSlot \in Slots /\ running[FreeSlot].pgrp = NoPid
        /\ running' = [running EXCEPT ![FreeSlot] = [pgrp |-> cpid, stopping |-> FALSE]]
    BY <1>4, <2>q, FreeSlotFree DEF ReadEof
  <2>t. /\ SlotTypes'
        /\ \A i \in Slots :
               running'[i].pgrp = IF i = FreeSlot THEN cpid ELSE running[i].pgrp
    BY <2>q, <2>r DEF SlotTypes
  <2>s. /\ Active' = Active \cup {FreeSlot} /\ Tracked' = Tracked \cup {cpid} /\ Distinct'
        /\ Cardinality(Active') = Cardinality(Active) + 1 /\ Cardinality(Active) \in Nat
    BY <2>q, <2>r, <2>t, SlotTaken, ActiveFinite, PidsAssumption
  <2>0. /\ pc = "read" /\ pc' = "loop" /\ num_active' = num_active + 1 /\ cpid' = NoPid
        /\ cpid \in Pids /\ cpid \notin Tracked /\ proc[cpid] \in {"running", "zombie"}
        /\ zoo' = zoo \cup {cpid} /\ NumTypes' /\ SlotTypes'
        /\ late' \subseteq late \cup {cpid} /\ strayed' = strayed \ {cpid}
        /\ UNCHANGED <<opt, fork_in_road, stop, go_idle, exit_stat, orphans, rec_signal, send_signal, lastsent>>
        /\ UNCHANGED <<err, proc, code, members, bump, stop_file, signals, bumps, doomed>>
        /\ UNCHANGED <<failed, owed>>
    BY <1>4, <2>p, <2>q, <2>t DEF ReadEof, sched, handler, kernel, world, history
  <2>1. FlagTypes'
    BY <2>0, <2>s DEF FlagTypes
  <2>2. SlotTypes' /\ HandlerTypes' /\ PlaceTypes' /\ KernelTypes'
    BY <2>0, <2>s DEF SlotTypes, HandlerTypes, PlaceTypes, KernelTypes
  <2>3. NumTypes'
    BY <2>0
  <2>4. Held'
    BY <2>0, <2>s DEF Held, Ended
  <2>5. LiveListed'
    BY <2>0, <2>s, SMTT(30) DEF LiveListed, Alive, NumTypes
  <2>6. ASSUME ~ RunChildInterrupted, Plain PROVE Plain'
    BY <2>0, <2>s, <2>6 DEF Plain, NoneLost, Groups, Drained, Quiescing, Halted
  <2>7. ASSUME ~ RunChildInterrupted, MaxBumps = 0, Plain, Listed PROVE Listed'
    BY <2>7, <2>0, <2>s DEF Listed, ActiveFile
  <2>8. ASSUME ~ RunChildInterrupted, ExecFails = {}, Plain, Counted PROVE Counted'
    BY <2>0, <2>s, <2>8 DEF Counted, Pending
  <2> QED
    BY <2>s, <2>1, <2>2, <2>3, <2>4, <2>5, <2>6, <2>7, <2>8, TypePartsNext DEF Keeps,
       Invariant
<1>5. ASSUME ReadError PROVE Keeps
  <2>0. /\ pc = "read" /\ pc' = "waitpid" /\ proc[cpid] = "unexecuted"
        /\ UNCHANGED <<opt, fork_in_road, starts, c, stop, go_idle, num_active, exit_stat, running>>
        /\ UNCHANGED <<orphans, rec_signal, send_signal, lastsent, cpid, err, zoo, proc, code>>
        /\ UNCHANGED <<members, bump, late, strayed, stop_file, signals, bumps, doomed, failed, owed>>
    BY <1>5 DEF ReadError, sched, handler, kernel, world, history
  <2>s. Tracked' = Tracked /\ Active' = Active /\ Distinct'
    BY <2>0, SameSlots
  <2>1. FlagTypes'
    BY <2>0, <2>s DEF FlagTypes
  <2>2. NumTypes' /\ SlotTypes' /\ HandlerTypes' /\ PlaceTypes' /\ KernelTypes'
    BY <2>0, <2>s, CommandsAssumption, SignalsAssumption DEF NumTypes, SlotTypes,
       HandlerTypes, PlaceTypes, KernelTypes
  <2>3. Held' /\ LiveListed'
    BY <2>0, <2>s DEF Held, Ended, LiveListed, Alive
  <2>4. ASSUME ~ RunChildInterrupted, Plain PROVE Plain'
    BY <2>0, <2>s, <2>4 DEF Plain, NoneLost, Groups, Drained, Quiescing, Halted
  <2>5. ASSUME ~ RunChildInterrupted, MaxBumps = 0, Plain, Listed PROVE Listed'
    BY <2>0, <2>s, <2>5 DEF Listed, ActiveFile
  <2>6. ASSUME ~ RunChildInterrupted, ExecFails = {}, Plain, Counted PROVE Counted'
    BY <2>0, <2>s, <2>6 DEF Counted, Pending
  <2> QED
    BY <2>s, <2>1, <2>2, <2>3, <2>4, <2>5, <2>6, TypePartsNext DEF Keeps, Invariant
<1>6. ASSUME WaitChild PROVE Keeps
  <2>p. NumTypes' /\ pc' = "loop" /\ num_active' = num_active
    BY <1>6, StartedStep DEF WaitChild, world, NumTypes
  <2>q. pc = "waitpid" /\ cpid \in Pids /\ cpid \notin Tracked
    BY <1>6 DEF WaitChild, Held
  <2>r. KernelTypes' /\ proc'[cpid] = "free" /\ (\A p \in Pids : p # cpid => proc'[p] = proc[p])
    BY <1>6, <2>q DEF WaitChild, KernelTypes, States
  <2>0. /\ pc = "waitpid" /\ pc' = "loop" /\ num_active' = num_active /\ cpid' = NoPid
        /\ cpid \in Pids /\ cpid \notin Tracked /\ NumTypes'
        /\ UNCHANGED <<opt, fork_in_road, stop, go_idle, exit_stat, running, orphans, rec_signal, send_signal>>
        /\ UNCHANGED <<lastsent, err, zoo, code, members, bump, late, strayed, stop_file, signals, bumps>>
        /\ UNCHANGED <<doomed, failed, owed>>
    BY <1>6, <2>p, <2>q DEF WaitChild, sched, handler, kernel, world, history
  <2>s. Tracked' = Tracked /\ Active' = Active /\ Distinct'
    BY <2>0, SameSlots
  <2>1. FlagTypes'
    BY <2>0, <2>s DEF FlagTypes
  <2>2. SlotTypes' /\ HandlerTypes' /\ PlaceTypes'
    BY <2>0, <2>s DEF SlotTypes, HandlerTypes, PlaceTypes
  <2>3. NumTypes'
    BY <2>0
  <2>4. KernelTypes'
    BY <2>r
  <2>5. Held'
    BY <2>0, <2>s, <2>r, TrackedPids DEF Held, Ended
  <2>6. LiveListed'
    BY <2>0, <2>s, <2>r DEF LiveListed, Alive
  <2>7. ASSUME ~ RunChildInterrupted, Plain PROVE Plain'
    <3>1. Drained' /\ Quiescing'
      BY <2>0, <2>s, <2>7 DEF Plain, Drained, Quiescing, Halted
    <3>2. NoneLost'
      BY <2>0, <2>s, <2>7, <2>r DEF Plain, NoneLost
    <3>3. Groups'
      BY <2>0, <2>s, <2>7, <2>r DEF Plain, Groups, NoneLost, PlaceTypes
    <3> QED
      BY <3>1, <3>2, <3>3 DEF Plain
  <2>8. ASSUME ~ RunChildInterrupted, MaxBumps = 0, Plain, Listed PROVE Listed'
    BY <2>0, <2>s, <2>8 DEF Listed, ActiveFile
  <2>9. ASSUME ~ RunChildInterrupted, ExecFails = {}, Plain, Counted PROVE Counted'
    BY <2>9, <2>0 DEF Plain, NoneLost, Counted
  <2> QED
    BY <2>s, <2>1, <2>2, <2>3, <2>4, <2>5, <2>6, <2>7, <2>8, <2>9, TypePartsNext DEF
       Keeps, Invariant
<1>7. ASSUME LeaveLoop PROVE Keeps
  <2>0. /\ pc = "loop" /\ pc' = "scan"
        /\ UNCHANGED <<opt, fork_in_road, starts, c, stop, go_idle, num_active, exit_stat, running>>
        /\ UNCHANGED <<orphans, rec_signal, send_signal, lastsent, cpid, err, zoo, proc, code>>
        /\ UNCHANGED <<members, bump, late, strayed, stop_file, signals, bumps, doomed, failed, owed>>
    BY <1>7 DEF LeaveLoop, sched, handler, kernel, world, history
  <2>s. Tracked' = Tracked /\ Active' = Active /\ Distinct'
    BY <2>0, SameSlots
  <2>1. FlagTypes'
    BY <2>0, <2>s DEF FlagTypes
  <2>2. NumTypes' /\ SlotTypes' /\ HandlerTypes' /\ PlaceTypes' /\ KernelTypes'
    BY <2>0, <2>s, CommandsAssumption, SignalsAssumption DEF NumTypes, SlotTypes,
       HandlerTypes, PlaceTypes, KernelTypes
  <2>3. Held' /\ LiveListed'
    BY <2>0, <2>s DEF Held, Ended, LiveListed, Alive
  <2>4. ASSUME ~ RunChildInterrupted, Plain PROVE Plain'
    BY <2>0, <2>s, <2>4 DEF Plain, NoneLost, Groups, Drained, Quiescing, Halted
  <2>5. ASSUME ~ RunChildInterrupted, MaxBumps = 0, Plain, Listed PROVE Listed'
    BY <2>0, <2>s, <2>5 DEF Listed, ActiveFile
  <2>6. ASSUME ~ RunChildInterrupted, ExecFails = {}, Plain, Counted PROVE Counted'
    BY <2>0, <2>s, <2>6 DEF Counted, Pending
  <2> QED
    BY <2>s, <2>1, <2>2, <2>3, <2>4, <2>5, <2>6, TypePartsNext DEF Keeps, Invariant
<1>8. ASSUME Scan PROVE Keeps
  <2>p. stop' \in BOOLEAN /\ stop_file' \in BOOLEAN /\ (stop => stop')
    BY <1>8 DEF Scan, FlagTypes
  <2>0. /\ pc = "scan" /\ pc' = "sig" /\ stop' \in BOOLEAN /\ stop_file' \in BOOLEAN /\ (stop => stop')
        /\ UNCHANGED <<opt, fork_in_road, starts, c, go_idle, num_active, exit_stat, running, orphans>>
        /\ UNCHANGED <<rec_signal, send_signal, lastsent, cpid, err, zoo, proc, code, members>>
        /\ UNCHANGED <<bump, late, strayed, signals, bumps, doomed, failed, owed>>
    BY <1>8, <2>p DEF Scan, sched, handler, kernel, world, history
  <2>s. Tracked' = Tracked /\ Active' = Active /\ Distinct'
    BY <2>0, SameSlots
  <2>1. FlagTypes'
    BY <2>0, <2>s DEF FlagTypes
  <2>2. NumTypes' /\ SlotTypes' /\ HandlerTypes' /\ PlaceTypes' /\ KernelTypes'
    BY <2>0, <2>s, CommandsAssumption, SignalsAssumption DEF NumTypes, SlotTypes,
       HandlerTypes, PlaceTypes, KernelTypes
  <2>3. Held' /\ LiveListed'
    BY <2>0, <2>s DEF Held, Ended, LiveListed, Alive
  <2>4. ASSUME ~ RunChildInterrupted, Plain PROVE Plain'
    BY <2>0, <2>s, <2>4 DEF Plain, NoneLost, Groups, Drained, Quiescing, Halted
  <2>5. ASSUME ~ RunChildInterrupted, MaxBumps = 0, Plain, Listed PROVE Listed'
    BY <2>0, <2>s, <2>5 DEF Listed, ActiveFile
  <2>6. ASSUME ~ RunChildInterrupted, ExecFails = {}, Plain, Counted PROVE Counted'
    BY <2>0, <2>s, <2>6 DEF Counted, Pending
  <2> QED
    BY <2>s, <2>1, <2>2, <2>3, <2>4, <2>5, <2>6, TypePartsNext DEF Keeps, Invariant
<1> QED
  BY <1>1, <1>2, <1>3, <1>4, <1>5, <1>6, <1>7, <1>8

\* main() acts on a signal.
LEMMA ActKeeps ==
    ASSUME FlagTypes, NumTypes, SlotTypes, HandlerTypes, PlaceTypes, KernelTypes,
           Distinct, Held, LiveListed,
           NoSignal \/ StopScheduler \/ TakeSignal \/ Send \/ Clear
    PROVE  Keeps
<1>1. ASSUME NoSignal PROVE Keeps
  <2>0. /\ pc = "sig" /\ pc' = "orphans"
        /\ UNCHANGED <<opt, fork_in_road, starts, c, stop, go_idle, num_active, exit_stat, running>>
        /\ UNCHANGED <<orphans, rec_signal, send_signal, lastsent, cpid, err, zoo, proc, code>>
        /\ UNCHANGED <<members, bump, late, strayed, stop_file, signals, bumps, doomed, failed, owed>>
    BY <1>1 DEF NoSignal, sched, handler, kernel, world, history
  <2>s. Tracked' = Tracked /\ Active' = Active /\ Distinct'
    BY <2>0, SameSlots
  <2>1. FlagTypes'
    BY <2>0, <2>s DEF FlagTypes
  <2>2. NumTypes' /\ SlotTypes' /\ HandlerTypes' /\ PlaceTypes' /\ KernelTypes'
    BY <2>0, <2>s, CommandsAssumption, SignalsAssumption DEF NumTypes, SlotTypes,
       HandlerTypes, PlaceTypes, KernelTypes
  <2>3. Held' /\ LiveListed'
    BY <2>0, <2>s DEF Held, Ended, LiveListed, Alive
  <2>4. ASSUME ~ RunChildInterrupted, Plain PROVE Plain'
    BY <2>0, <2>s, <2>4 DEF Plain, NoneLost, Groups, Drained, Quiescing, Halted
  <2>5. ASSUME ~ RunChildInterrupted, MaxBumps = 0, Plain, Listed PROVE Listed'
    BY <2>0, <2>s, <2>5 DEF Listed, ActiveFile
  <2>6. ASSUME ~ RunChildInterrupted, ExecFails = {}, Plain, Counted PROVE Counted'
    BY <2>0, <2>s, <2>6 DEF Counted, Pending
  <2> QED
    BY <2>s, <2>1, <2>2, <2>3, <2>4, <2>5, <2>6, TypePartsNext DEF Keeps, Invariant
<1>2. ASSUME StopScheduler PROVE Keeps
  <2>p. /\ stop' \in BOOLEAN /\ go_idle' \in BOOLEAN /\ (stop => stop')
        /\ (stop' \/ go_idle')
    BY <1>2 DEF StopScheduler, FlagTypes
  <2>0. /\ pc = "sig" /\ pc' = "usr2" /\ doomed' = doomed \cup Tracked
        /\ stop' \in BOOLEAN /\ go_idle' \in BOOLEAN /\ (stop => stop') /\ (stop' \/ go_idle')
        /\ UNCHANGED <<opt, fork_in_road, starts, c, num_active, exit_stat, running, orphans, rec_signal>>
        /\ UNCHANGED <<send_signal, lastsent, cpid, err, zoo, proc, code, members, bump, late, strayed>>
        /\ UNCHANGED <<stop_file, signals, bumps, failed, owed>>
    BY <1>2, <2>p DEF StopScheduler, sched, handler, kernel, world, history
  <2>s. Tracked' = Tracked /\ Active' = Active /\ Distinct'
    BY <2>0, SameSlots
  <2>1. FlagTypes'
    BY <2>0, <2>s DEF FlagTypes
  <2>2. NumTypes' /\ SlotTypes' /\ HandlerTypes' /\ KernelTypes'
    BY <2>0, <2>s, CommandsAssumption, SignalsAssumption DEF NumTypes, SlotTypes,
       HandlerTypes, KernelTypes
  <2>3. PlaceTypes'
    BY <2>0, <2>s, TrackedPids DEF PlaceTypes
  <2>4. Held' /\ LiveListed'
    BY <2>0, <2>s DEF Held, Ended, LiveListed, Alive
  <2>5. ASSUME ~ RunChildInterrupted, Plain PROVE Plain'
    BY <2>0, <2>s, <2>5 DEF Plain, NoneLost, Groups, Drained, Quiescing, Halted
  <2>6. ASSUME ~ RunChildInterrupted, MaxBumps = 0, Plain, Listed PROVE Listed'
    BY <2>0, <2>s, <2>6 DEF Listed, ActiveFile
  <2>7. ASSUME ~ RunChildInterrupted, ExecFails = {}, Plain, Counted PROVE Counted'
    BY <2>0, <2>s, <2>7 DEF Counted, Pending
  <2> QED
    BY <2>s, <2>1, <2>2, <2>3, <2>4, <2>5, <2>6, <2>7, TypePartsNext DEF Keeps, Invariant
<1>3. ASSUME TakeSignal PROVE Keeps
  <2>p. fork_in_road' \in BOOLEAN
    BY <1>3 DEF TakeSignal, FlagTypes
  <2>0. /\ pc = "sig" /\ pc' = "send" /\ doomed' = doomed \cup Tracked /\ fork_in_road' \in BOOLEAN
        /\ rec_signal # None
        /\ UNCHANGED <<opt, starts, c, stop, go_idle, num_active, exit_stat, running, orphans>>
        /\ UNCHANGED <<rec_signal, send_signal, lastsent, cpid, err, zoo, proc, code, members>>
        /\ UNCHANGED <<bump, late, strayed, stop_file, signals, bumps, failed, owed>>
    BY <1>3, <2>p DEF TakeSignal, sched, handler, kernel, world, history
  <2>s. Tracked' = Tracked /\ Active' = Active /\ Distinct'
    BY <2>0, SameSlots
  <2>1. FlagTypes'
    BY <2>0, <2>s DEF FlagTypes
  <2>2. NumTypes' /\ SlotTypes' /\ HandlerTypes' /\ KernelTypes'
    BY <2>0, <2>s, CommandsAssumption, SignalsAssumption DEF NumTypes, SlotTypes,
       HandlerTypes, KernelTypes
  <2>3. PlaceTypes'
    BY <2>0, <2>s, TrackedPids DEF PlaceTypes
  <2>4. Held' /\ LiveListed'
    BY <2>0, <2>s DEF Held, Ended, LiveListed, Alive
  <2>5. ASSUME ~ RunChildInterrupted, Plain PROVE Plain'
    BY <2>0, <2>s, <2>5 DEF Plain, NoneLost, Groups, Drained, Quiescing, Halted
  <2>6. ASSUME ~ RunChildInterrupted, MaxBumps = 0, Plain, Listed PROVE Listed'
    BY <2>0, <2>s, <2>6 DEF Listed, ActiveFile
  <2>7. ASSUME ~ RunChildInterrupted, ExecFails = {}, Plain, Counted PROVE Counted'
    BY <2>0, <2>s, <2>7 DEF Counted, Pending
  <2> QED
    BY <2>s, <2>1, <2>2, <2>3, <2>4, <2>5, <2>6, <2>7, TypePartsNext DEF Keeps, Invariant
<1>4. ASSUME Send PROVE Keeps
  <2>p. /\ SlotTypes' /\ HandlerTypes' /\ KernelTypes'
        /\ \A i \in Slots : running'[i].pgrp = running[i].pgrp
        /\ \A p \in Pids : \/ proc'[p] = proc[p] /\ code'[p] = code[p]
                           \/ proc[p] = "running" /\ proc'[p] = "zombie"
        /\ \A p \in Pids : members'[p] => members[p]
        /\ orphans' \subseteq orphans /\ zoo' = zoo \ (orphans \ orphans')
        /\ \A p \in orphans \ orphans' : p \in Pids /\ proc[p] = "free" /\ ~ members[p]
        /\ rec_signal' = None <=> rec_signal = None
        /\ owed' = FALSE
    BY <1>4, PropagateStep DEF Send
  <2>s. Tracked' = Tracked /\ Active' = Active /\ Distinct'
    BY <2>p, SameSlots
  <2>0. /\ pc = "send" /\ pc' = "clear"
        /\ UNCHANGED <<opt, fork_in_road, starts, c, stop, go_idle, num_active, exit_stat, cpid>>
        /\ UNCHANGED <<err, bump, late, strayed, stop_file, signals, bumps, doomed, failed>>
    BY <1>4 DEF Send, sched, handler, kernel, world, history
  <2>1. FlagTypes'
    BY <2>0, <2>p DEF FlagTypes
  <2>2. NumTypes'
    BY <2>0, <2>s, CommandsAssumption, SignalsAssumption DEF NumTypes
  <2>3. SlotTypes' /\ HandlerTypes'
    BY <2>p
  <2>4. PlaceTypes'
    BY <2>0, <2>s, <2>p DEF PlaceTypes
  <2>5. KernelTypes'
    BY <2>p
  <2>6. Held'
    BY <2>0, <2>s, <2>p, TrackedPids DEF Held, Ended
  <2>7. LiveListed'
    BY <2>0, <2>s, <2>p DEF LiveListed, Alive
  <2>8. ASSUME ~ RunChildInterrupted, Plain PROVE Plain'
    <3>1. NoneLost'
      BY <2>0, <2>s, <2>8, <2>p DEF Plain, NoneLost, PlaceTypes
    <3>2. Groups'
      BY <2>0, <2>s, <2>8, <2>p DEF Plain, Groups, PlaceTypes
    <3>3. Drained'
      BY <2>0, <2>s, <2>8, <2>p DEF Plain, Drained
    <3>4. Quiescing'
      BY <2>0, <2>s, <2>8, <2>p DEF Plain, Quiescing, Halted
    <3> QED
      BY <3>1, <3>2, <3>3, <3>4 DEF Plain
  <2>9. ASSUME ~ RunChildInterrupted, MaxBumps = 0, Plain, Listed PROVE Listed'
    <3>1. \A p \in Tracked : proc[p] # "free"
      BY <2>0 DEF Held, Ended
    <3>2. zoo = {Self} \cup Tracked \cup orphans
      BY <2>9, <2>0 DEF Listed, ActiveFile
    <3>3. zoo' = {Self} \cup Tracked \cup orphans'
      BY <2>p, <3>1, <3>2, PidsAssumption
    <3> QED
      BY <2>9, <2>0, <2>s, <3>3 DEF Listed, ActiveFile
  <2>10. ASSUME ~ RunChildInterrupted, ExecFails = {}, Plain, Counted PROVE Counted'
    BY <2>10, <2>0, <2>p DEF Counted, Pending
  <2> QED
    BY <2>s, <2>1, <2>2, <2>3, <2>4, <2>5, <2>6, <2>7, <2>8, <2>9, <2>10, TypePartsNext
       DEF Keeps, Invariant
<1>5. ASSUME Clear PROVE Keeps
  <2>p. /\ stop' \in BOOLEAN /\ go_idle' \in BOOLEAN /\ (stop => stop') /\ (go_idle => go_idle')
        /\ pc = "clear" => stop' \/ go_idle'
    BY <1>5 DEF Clear, FlagTypes
  <2>0. /\ pc \in {"usr2", "clear"} /\ pc' = "orphans" /\ rec_signal' = None /\ send_signal' = None
        /\ stop' \in BOOLEAN /\ go_idle' \in BOOLEAN /\ (stop => stop') /\ (go_idle => go_idle')
        /\ pc = "clear" => stop' \/ go_idle'
        /\ UNCHANGED <<opt, fork_in_road, starts, c, num_active, exit_stat, running, orphans, lastsent>>
        /\ UNCHANGED <<cpid, err, zoo, proc, code, members, bump, late, strayed, stop_file, signals>>
        /\ UNCHANGED <<bumps, doomed, failed, owed>>
    BY <1>5, <2>p DEF Clear, ClearSignal, sched, handler, kernel, world, history
  <2>s. Tracked' = Tracked /\ Active' = Active /\ Distinct'
    BY <2>0, SameSlots
  <2>1. FlagTypes'
    BY <2>0, <2>s DEF FlagTypes
  <2>2. NumTypes' /\ SlotTypes' /\ HandlerTypes' /\ PlaceTypes' /\ KernelTypes'
    BY <2>0, <2>s, CommandsAssumption, SignalsAssumption DEF NumTypes, SlotTypes,
       HandlerTypes, PlaceTypes, KernelTypes
  <2>3. Held' /\ LiveListed'
    BY <2>0, <2>s DEF Held, Ended, LiveListed, Alive
  <2>4. ASSUME ~ RunChildInterrupted, Plain PROVE Plain'
    BY <2>0, <2>s, <2>4 DEF Plain, NoneLost, Groups, Drained, Quiescing, Halted
  <2>5. ASSUME ~ RunChildInterrupted, MaxBumps = 0, Plain, Listed PROVE Listed'
    BY <2>0, <2>s, <2>5 DEF Listed, ActiveFile
  <2>6. ASSUME ~ RunChildInterrupted, ExecFails = {}, Plain, Counted PROVE Counted'
    BY <2>0, <2>s, <2>6 DEF Counted, Pending
  <2> QED
    BY <2>s, <2>1, <2>2, <2>3, <2>4, <2>5, <2>6, TypePartsNext DEF Keeps, Invariant
<1> QED
  BY <1>1, <1>2, <1>3, <1>4, <1>5

\* main() reaps commands, ends a round, and ends.
LEMMA ReapKeeps ==
    ASSUME FlagTypes, NumTypes, SlotTypes, HandlerTypes, PlaceTypes, KernelTypes,
           Distinct, Held, LiveListed,
           LookForOrphans \/ Reap \/ NoChild \/ Post \/ DrainOrphans \/ SendOrphans
           \/ ClearOrphans \/ Exit
    PROVE  Keeps
<1>1. ASSUME LookForOrphans PROVE Keeps
  <2>p. /\ orphans' \subseteq orphans /\ zoo' = zoo \ (orphans \ orphans')
        /\ \A p \in orphans \ orphans' : p \in Pids /\ proc[p] = "free" /\ ~ members[p]
    BY <1>1, CheckStep DEF LookForOrphans
  <2>0. /\ pc = "orphans" /\ pc' = "wait"
        /\ UNCHANGED <<opt, fork_in_road, starts, c, stop, go_idle, num_active, exit_stat, running>>
        /\ UNCHANGED <<rec_signal, send_signal, lastsent, cpid, err, proc, code, members, bump, late, strayed>>
        /\ UNCHANGED <<stop_file, signals, bumps, doomed, failed, owed>>
    BY <1>1 DEF LookForOrphans, sched, handler, kernel, world, history
  <2>s. Tracked' = Tracked /\ Active' = Active /\ Distinct'
    BY <2>0, SameSlots
  <2>1. FlagTypes'
    BY <2>0, <2>s DEF FlagTypes
  <2>2. NumTypes' /\ SlotTypes' /\ HandlerTypes' /\ KernelTypes'
    BY <2>0, <2>s, CommandsAssumption, SignalsAssumption DEF NumTypes, SlotTypes,
       HandlerTypes, KernelTypes
  <2>3. PlaceTypes'
    BY <2>0, <2>s, <2>p DEF PlaceTypes
  <2>4. Held'
    BY <2>0, <2>s DEF Held, Ended
  <2>5. LiveListed'
    BY <2>0, <2>s, <2>p DEF LiveListed, Alive
  <2>6. ASSUME ~ RunChildInterrupted, Plain PROVE Plain'
    <3>1. NoneLost' /\ Drained' /\ Quiescing'
      BY <2>0, <2>s, <2>6 DEF Plain, NoneLost, Drained, Quiescing, Halted
    <3>2. Groups'
      BY <2>0, <2>s, <2>6, <2>p DEF Plain, Groups
    <3> QED
      BY <3>1, <3>2 DEF Plain
  <2>7. ASSUME ~ RunChildInterrupted, MaxBumps = 0, Plain, Listed PROVE Listed'
    <3>1. \A p \in Tracked : proc[p] # "free"
      BY <2>0 DEF Held, Ended
    <3>2. zoo = {Self} \cup Tracked \cup orphans
      BY <2>7, <2>0 DEF Listed, ActiveFile
    <3>3. zoo' = {Self} \cup Tracked \cup orphans'
      BY <2>p, <3>1, <3>2, PidsAssumption
    <3> QED
      BY <2>7, <2>0, <2>s, <3>3 DEF Listed, ActiveFile
  <2>8. ASSUME ~ RunChildInterrupted, ExecFails = {}, Plain, Counted PROVE Counted'
    BY <2>0, <2>s, <2>8 DEF Counted, Pending
  <2> QED
    BY <2>s, <2>1, <2>2, <2>3, <2>4, <2>5, <2>6, <2>7, <2>8, TypePartsNext DEF Keeps,
       Invariant
<1>2. ASSUME Reap PROVE Keeps
  <2>p. PICK q \in Pids :
            /\ proc[q] \in {"unexecuted", "zombie"} /\ cpid' = q
            /\ proc' = [proc EXCEPT ![q] = "free"]
    BY <1>2 DEF Reap, Zombies
  <2>q. KernelTypes' /\ proc'[q] = "free" /\ (\A p \in Pids : p # q => proc'[p] = proc[p])
    BY <1>2, <2>p DEF Reap, KernelTypes, States
  <2>0. /\ pc = "wait" /\ pc' = "reaped" /\ cpid' = q /\ proc[q] \in {"unexecuted", "zombie"}
        /\ UNCHANGED <<opt, fork_in_road, starts, c, stop, go_idle, num_active, exit_stat, running>>
        /\ UNCHANGED <<orphans, rec_signal, send_signal, lastsent, err, zoo, code, members, bump, late, strayed>>
        /\ UNCHANGED <<stop_file, signals, bumps, doomed, failed, owed>>
    BY <1>2, <2>p DEF Reap, sched, handler, kernel, world, history
  <2>s. Tracked' = Tracked /\ Active' = Active /\ Distinct'
    BY <2>0, SameSlots
  <2>1. FlagTypes'
    BY <2>0, <2>s DEF FlagTypes
  <2>2. NumTypes' /\ SlotTypes' /\ HandlerTypes' /\ PlaceTypes'
    BY <2>0, <2>s, CommandsAssumption, SignalsAssumption DEF NumTypes, SlotTypes,
       HandlerTypes, PlaceTypes
  <2>3. KernelTypes'
    BY <2>q
  <2>4. Held'
    BY <2>0, <2>s, <2>q, TrackedPids DEF Held, Ended
  <2>5. LiveListed'
    BY <2>0, <2>s, <2>q DEF LiveListed, Alive
  <2>6. ASSUME ~ RunChildInterrupted, Plain PROVE Plain'
    <3>1. Drained' /\ Quiescing'
      BY <2>0, <2>s, <2>6 DEF Plain, Drained, Quiescing, Halted
    <3>2. NoneLost'
      BY <2>0, <2>s, <2>6, <2>q DEF Plain, NoneLost
    <3>3. Groups'
      BY <2>0, <2>s, <2>6, <2>q DEF Plain, Groups, PlaceTypes
    <3> QED
      BY <3>1, <3>2, <3>3 DEF Plain
  <2>7. ASSUME ~ RunChildInterrupted, MaxBumps = 0, Plain, Listed PROVE Listed'
    BY <2>0, <2>s, <2>7 DEF Listed, ActiveFile
  <2>8. ASSUME ~ RunChildInterrupted, ExecFails = {}, Plain, Counted PROVE Counted'
    BY <2>8, <2>0, <2>q DEF Counted, Pending
  <2> QED
    BY <2>s, <2>1, <2>2, <2>3, <2>4, <2>5, <2>6, <2>7, <2>8, TypePartsNext DEF Keeps,
       Invariant
<1>3. ASSUME NoChild PROVE Keeps
  <2>p. \A p \in Pids : proc[p] = "free"
    BY <1>3 DEF NoChild, Children
  <2>0. /\ pc = "wait" /\ pc' = "post" /\ err' = FALSE
        /\ \A p \in Pids : proc[p] = "free"
        /\ UNCHANGED <<opt, fork_in_road, starts, c, stop, go_idle, num_active, exit_stat, running>>
        /\ UNCHANGED <<orphans, rec_signal, send_signal, lastsent, cpid, zoo, proc, code, members>>
        /\ UNCHANGED <<bump, late, strayed, stop_file, signals, bumps, doomed, failed, owed>>
    BY <1>3, <2>p DEF NoChild, sched, handler, kernel, world, history
  <2>s. Tracked' = Tracked /\ Active' = Active /\ Distinct'
    BY <2>0, SameSlots
  <2>1. FlagTypes'
    BY <2>0, <2>s DEF FlagTypes
  <2>2. NumTypes' /\ SlotTypes' /\ HandlerTypes' /\ PlaceTypes' /\ KernelTypes'
    BY <2>0, <2>s, CommandsAssumption, SignalsAssumption DEF NumTypes, SlotTypes,
       HandlerTypes, PlaceTypes, KernelTypes
  <2>3. Held' /\ LiveListed'
    BY <2>0, <2>s DEF Held, Ended, LiveListed, Alive
  <2>4. ASSUME ~ RunChildInterrupted, Plain PROVE Plain'
    BY <2>0, <2>s, <2>4 DEF Plain, NoneLost, Groups, Drained, Quiescing, Halted
  <2>5. ASSUME ~ RunChildInterrupted, MaxBumps = 0, Plain, Listed PROVE Listed'
    BY <2>0, <2>s, <2>5 DEF Listed, ActiveFile
  <2>6. ASSUME ~ RunChildInterrupted, ExecFails = {}, Plain, Counted PROVE Counted'
    BY <2>0, <2>s, <2>6 DEF Counted, Pending
  <2> QED
    BY <2>s, <2>1, <2>2, <2>3, <2>4, <2>5, <2>6, TypePartsNext DEF Keeps, Invariant
<1>4. ASSUME Post PROVE Keeps
  <2>p. /\ exit_stat' \in Nat /\ exit_stat' >= exit_stat
        /\ err /\ opt.track_exit_stats => exit_stat' > 0
    BY <1>4, SMTT(30) DEF Post, NumTypes
  <2>q. /\ HandlerTypes' /\ (rec_signal # None => rec_signal' # None)
        /\ err /\ opt.has_brakes => rec_signal' # None
    <3>1. Ratchet("INT") \in AllSignals \cup {None, "KILL"}
      BY HandlerStep DEF AllSignals
    <3>2. CASE err /\ opt.has_brakes
      BY <1>4, <3>1, <3>2 DEF Post, HandlerTypes, AllSignals, None
    <3>3. CASE ~ (err /\ opt.has_brakes)
      BY <1>4, <3>3 DEF Post, HandlerTypes
    <3> QED
      BY <3>2, <3>3
  <2>r. /\ go_idle' \in BOOLEAN
        /\ num_active # 0 => (go_idle => go_idle') /\ (err /\ fork_in_road => go_idle')
    BY <1>4 DEF Post, FlagTypes
  <2>t. /\ doomed' \subseteq doomed \cup Tracked
        /\ ~ (err /\ (opt.has_brakes \/ fork_in_road)) => doomed' = doomed
    BY <1>4 DEF Post
  <2>u. pc' \in {"drain", "loop"} /\ (pc' = "drain" => stop /\ num_active = 0)
    BY <1>4 DEF Post
  <2>0. /\ pc = "post" /\ err' = FALSE
        /\ UNCHANGED <<opt, fork_in_road, starts, c, stop, num_active, running, orphans, cpid>>
        /\ UNCHANGED <<zoo, proc, code, members, bump, late, strayed, stop_file, signals, bumps, failed>>
        /\ UNCHANGED <<owed>>
    BY <1>4 DEF Post, sched, handler, kernel, world, history
  <2>s. Tracked' = Tracked /\ Active' = Active /\ Distinct'
    BY <2>0, SameSlots
  <2>1. FlagTypes'
    BY <2>0, <2>s, <2>r DEF FlagTypes
  <2>2. KernelTypes'
    BY <2>0, <2>s DEF KernelTypes
  <2>3. NumTypes'
    BY <2>0, <2>s, CommandsAssumption, SignalsAssumption, <2>p DEF NumTypes
  <2>4. SlotTypes' /\ HandlerTypes'
    BY <2>0, <2>s, <2>q DEF SlotTypes, HandlerTypes
  <2>5. PlaceTypes'
    BY <2>0, <2>s, <2>t, <2>u, TrackedPids DEF PlaceTypes
  <2>6. LiveListed'
    BY <2>0, <2>s DEF LiveListed, Alive
  <2>7. Held'
    BY <2>0, <2>s, <2>t, <2>u DEF Held, Ended
  <2>8. ASSUME ~ RunChildInterrupted, Plain PROVE Plain'
    <3>1. NoneLost'
      BY <2>0, <2>s, <2>8, <2>u DEF Plain, NoneLost
    <3>2. Groups'
      BY <2>0, <2>s, <2>8, <2>u DEF Plain, Groups
    <3>3. Drained'
      BY <2>0, <2>s, <2>8, <2>u DEF Plain, Drained
    <3>4. Quiescing'
      <4>1. CASE num_active = 0
        BY <2>8, <2>t, <2>u, <4>1, NoneActive DEF Plain, Quiescing
      <4>2. ASSUME num_active # 0, doomed' # {} PROVE Halted'
        <5>1. CASE err /\ opt.has_brakes
          BY <2>q, <5>1 DEF Halted
        <5>2. CASE err /\ fork_in_road
          BY <2>r, <4>2, <5>2 DEF Halted
        <5>3. CASE ~ (err /\ (opt.has_brakes \/ fork_in_road))
          <6>1. stop \/ rec_signal # None \/ go_idle
            BY <2>0, <2>8, <2>t, <4>2, <5>3 DEF Plain, Quiescing, Halted
          <6> QED
            BY <2>0, <2>q, <2>r, <4>2, <6>1 DEF Halted
        <5> QED
          BY <5>1, <5>2, <5>3
      <4> QED
        BY <2>u, <4>1, <4>2 DEF Quiescing
    <3> QED
      BY <3>1, <3>2, <3>3, <3>4 DEF Plain
  <2>9. ASSUME ~ RunChildInterrupted, MaxBumps = 0, Plain, Listed PROVE Listed'
    BY <2>9, <2>0, <2>s, <2>u DEF Listed, ActiveFile
  <2>10. ASSUME ~ RunChildInterrupted, ExecFails = {}, Plain, Counted PROVE Counted'
    BY <2>10, <2>0, <2>p, <2>u, SMTT(30) DEF Counted, Pending, NumTypes
  <2> QED
    BY <2>s, <2>1, <2>2, <2>3, <2>4, <2>5, <2>6, <2>7, <2>8, <2>9, <2>10, TypePartsNext
       DEF Keeps, Invariant
<1>5. ASSUME DrainOrphans PROVE Keeps
  <2>p. HandlerTypes'
    BY <1>5, HandlerStep DEF DrainOrphans, HandlerTypes, AllSignals, handler
  <2>0. /\ pc = "drain" /\ pc' = "osend" /\ HandlerTypes'
        /\ UNCHANGED <<opt, fork_in_road, starts, c, stop, go_idle, num_active, exit_stat, running>>
        /\ UNCHANGED <<orphans, cpid, err, zoo, proc, code, members, bump, late, strayed, stop_file>>
        /\ UNCHANGED <<signals, bumps, doomed, failed, owed>>
    BY <1>5, <2>p DEF DrainOrphans, sched, handler, kernel, world, history
  <2>s. Tracked' = Tracked /\ Active' = Active /\ Distinct'
    BY <2>0, SameSlots
  <2>1. FlagTypes'
    BY <2>0, <2>s DEF FlagTypes
  <2>2. NumTypes' /\ SlotTypes' /\ HandlerTypes' /\ PlaceTypes' /\ KernelTypes'
    BY <2>0, <2>s, CommandsAssumption, SignalsAssumption DEF NumTypes, SlotTypes,
       HandlerTypes, PlaceTypes, KernelTypes
  <2>3. Held' /\ LiveListed'
    BY <2>0, <2>s DEF Held, Ended, LiveListed, Alive
  <2>4. ASSUME ~ RunChildInterrupted, Plain PROVE Plain'
    <3>1. NoneLost' /\ Groups' /\ Drained'
      BY <2>0, <2>s, <2>4 DEF Plain, NoneLost, Groups, Drained
    <3>2. Quiescing'
      BY <2>0, <2>s, <2>4 DEF Plain, Quiescing, Halted, Drained
    <3> QED
      BY <3>1, <3>2 DEF Plain
  <2>5. ASSUME ~ RunChildInterrupted, MaxBumps = 0, Plain, Listed PROVE Listed'
    BY <2>0, <2>s, <2>5 DEF Listed, ActiveFile
  <2>6. ASSUME ~ RunChildInterrupted, ExecFails = {}, Plain, Counted PROVE Counted'
    BY <2>0, <2>s, <2>6 DEF Counted, Pending
  <2> QED
    BY <2>s, <2>1, <2>2, <2>3, <2>4, <2>5, <2>6, TypePartsNext DEF Keeps, Invariant
<1>6. ASSUME SendOrphans PROVE Keeps
  <2>p. /\ SlotTypes' /\ HandlerTypes' /\ KernelTypes'
        /\ \A i \in Slots : running'[i].pgrp = running[i].pgrp
        /\ \A p \in Pids : \/ proc'[p] = proc[p] /\ code'[p] = code[p]
                           \/ proc[p] = "running" /\ proc'[p] = "zombie"
        /\ \A p \in Pids : members'[p] => members[p]
        /\ orphans' \subseteq orphans /\ zoo' = zoo \ (orphans \ orphans')
        /\ \A p \in orphans \ orphans' : p \in Pids /\ proc[p] = "free" /\ ~ members[p]
        /\ rec_signal' = None <=> rec_signal = None
        /\ owed' = FALSE
    BY <1>6, PropagateStep DEF SendOrphans
  <2>s. Tracked' = Tracked /\ Active' = Active /\ Distinct'
    BY <2>p, SameSlots
  <2>0. /\ pc = "osend" /\ pc' = "oclear"
        /\ UNCHANGED <<opt, fork_in_road, starts, c, stop, go_idle, num_active, exit_stat, cpid>>
        /\ UNCHANGED <<err, bump, late, strayed, stop_file, signals, bumps, doomed, failed>>
    BY <1>6 DEF SendOrphans, sched, handler, kernel, world, history
  <2>1. FlagTypes'
    BY <2>0, <2>p DEF FlagTypes
  <2>2. NumTypes'
    BY <2>0, <2>s, CommandsAssumption, SignalsAssumption DEF NumTypes
  <2>3. SlotTypes' /\ HandlerTypes'
    BY <2>p
  <2>4. PlaceTypes'
    BY <2>0, <2>s, <2>p DEF PlaceTypes
  <2>5. KernelTypes'
    BY <2>p
  <2>6. Held'
    BY <2>0, <2>s, <2>p, TrackedPids DEF Held, Ended
  <2>7. LiveListed'
    BY <2>0, <2>s, <2>p DEF LiveListed, Alive
  <2>8. ASSUME ~ RunChildInterrupted, Plain PROVE Plain'
    <3>1. NoneLost'
      BY <2>0, <2>s, <2>8, <2>p DEF Plain, NoneLost, PlaceTypes
    <3>2. Groups'
      BY <2>0, <2>s, <2>8, <2>p DEF Plain, Groups, PlaceTypes
    <3>3. Drained'
      BY <2>0, <2>s, <2>8, <2>p DEF Plain, Drained
    <3>4. Quiescing'
      BY <2>0, <2>s, <2>8, <2>p DEF Plain, Quiescing, Halted
    <3> QED
      BY <3>1, <3>2, <3>3, <3>4 DEF Plain
  <2>9. ASSUME ~ RunChildInterrupted, MaxBumps = 0, Plain, Listed PROVE Listed'
    <3>1. \A p \in Tracked : proc[p] # "free"
      BY <2>0 DEF Held, Ended
    <3>2. zoo = {Self} \cup Tracked \cup orphans
      BY <2>9, <2>0 DEF Listed, ActiveFile
    <3>3. zoo' = {Self} \cup Tracked \cup orphans'
      BY <2>p, <3>1, <3>2, PidsAssumption
    <3> QED
      BY <2>9, <2>0, <2>s, <3>3 DEF Listed, ActiveFile
  <2>10. ASSUME ~ RunChildInterrupted, ExecFails = {}, Plain, Counted PROVE Counted'
    BY <2>10, <2>0, <2>p DEF Counted, Pending
  <2> QED
    BY <2>s, <2>1, <2>2, <2>3, <2>4, <2>5, <2>6, <2>7, <2>8, <2>9, <2>10, TypePartsNext
       DEF Keeps, Invariant
<1>7. ASSUME ClearOrphans PROVE Keeps
  <2>0. /\ pc = "oclear" /\ pc' = "drain" /\ rec_signal' = None /\ send_signal' = None
        /\ UNCHANGED <<opt, fork_in_road, starts, c, stop, go_idle, num_active, exit_stat, running>>
        /\ UNCHANGED <<orphans, lastsent, cpid, err, zoo, proc, code, members, bump, late, strayed>>
        /\ UNCHANGED <<stop_file, signals, bumps, doomed, failed, owed>>
    BY <1>7 DEF ClearOrphans, ClearSignal, sched, handler, kernel, world, history
  <2>s. Tracked' = Tracked /\ Active' = Active /\ Distinct'
    BY <2>0, SameSlots
  <2>1. FlagTypes'
    BY <2>0, <2>s DEF FlagTypes
  <2>2. NumTypes' /\ SlotTypes' /\ HandlerTypes' /\ PlaceTypes' /\ KernelTypes'
    BY <2>0, <2>s, CommandsAssumption, SignalsAssumption DEF NumTypes, SlotTypes,
       HandlerTypes, PlaceTypes, KernelTypes
  <2>3. Held' /\ LiveListed'
    BY <2>0, <2>s DEF Held, Ended, LiveListed, Alive
  <2>4. ASSUME ~ RunChildInterrupted, Plain PROVE Plain'
    <3>1. NoneLost' /\ Groups' /\ Drained'
      BY <2>0, <2>s, <2>4 DEF Plain, NoneLost, Groups, Drained
    <3>2. Quiescing'
      BY <2>0, <2>s, <2>4 DEF Plain, Quiescing, Halted, Drained
    <3> QED
      BY <3>1, <3>2 DEF Plain
  <2>5. ASSUME ~ RunChildInterrupted, MaxBumps = 0, Plain, Listed PROVE Listed'
    BY <2>0, <2>s, <2>5 DEF Listed, ActiveFile
  <2>6. ASSUME ~ RunChildInterrupted, ExecFails = {}, Plain, Counted PROVE Counted'
    BY <2>0, <2>s, <2>6 DEF Counted, Pending
  <2> QED
    BY <2>s, <2>1, <2>2, <2>3, <2>4, <2>5, <2>6, TypePartsNext DEF Keeps, Invariant
<1>8. ASSUME Exit PROVE Keeps
  <2>p. exit_stat' \in Nat /\ exit_stat' >= exit_stat
    BY <1>8, SMTT(30) DEF Exit, NumTypes
  <2>0. /\ pc = "drain" /\ pc' = "exit" /\ orphans = {} /\ zoo' = zoo \ {Self}
        /\ exit_stat' \in Nat /\ exit_stat' >= exit_stat
        /\ UNCHANGED <<opt, fork_in_road, starts, c, stop, go_idle, num_active, running, orphans>>
        /\ UNCHANGED <<rec_signal, send_signal, lastsent, cpid, err, proc, code, members, bump, late, strayed>>
        /\ UNCHANGED <<stop_file, signals, bumps, doomed, failed, owed>>
    BY <1>8, <2>p DEF Exit, sched, handler, kernel, world, history
  <2>s. Tracked' = Tracked /\ Active' = Active /\ Distinct'
    BY <2>0, SameSlots
  <2>1. FlagTypes'
    BY <2>0, <2>s DEF FlagTypes
  <2>2. NumTypes' /\ SlotTypes' /\ HandlerTypes' /\ PlaceTypes' /\ KernelTypes'
    BY <2>0, <2>s, CommandsAssumption, SignalsAssumption DEF NumTypes, SlotTypes,
       HandlerTypes, PlaceTypes, KernelTypes
  <2>3. Held'
    BY <2>0, <2>s DEF Held, Ended
  <2>4. LiveListed'
    BY <2>0, <2>s, PidsAssumption DEF LiveListed, Alive
  <2>5. ASSUME ~ RunChildInterrupted, Plain PROVE Plain'
    <3>1. NoneLost' /\ Groups' /\ Drained'
      BY <2>0, <2>s, <2>5 DEF Plain, NoneLost, Groups, Drained
    <3>2. Quiescing'
      BY <2>0, <2>s, <2>5 DEF Plain, Quiescing, Halted, Drained
    <3> QED
      BY <3>1, <3>2 DEF Plain
  <2>6. ASSUME ~ RunChildInterrupted, MaxBumps = 0, Plain, Listed PROVE Listed'
    <3>1. Tracked = {}
      BY <2>6, <2>0, NoneActive DEF Plain, Drained
    <3>2. zoo = {Self}
      BY <2>6, <2>0, <3>1 DEF Listed, ActiveFile
    <3> QED
      BY <2>6, <2>0, <3>2 DEF Listed, ActiveFile
  <2>7. ASSUME ~ RunChildInterrupted, ExecFails = {}, Plain, Counted PROVE Counted'
    BY <2>7, <2>0, SMTT(30) DEF Counted, Pending, NumTypes
  <2> QED
    BY <2>s, <2>1, <2>2, <2>3, <2>4, <2>5, <2>6, <2>7, TypePartsNext DEF Keeps, Invariant
<1> QED
  BY <1>1, <1>2, <1>3, <1>4, <1>5, <1>6, <1>7, <1>8

\* check_pids() records the end of a command: of one in a slot, and of one that pan
\* lost track of.
LEMMA RecordKeeps ==
    ASSUME FlagTypes, NumTypes, SlotTypes, HandlerTypes, PlaceTypes, KernelTypes,
           Distinct, Held, LiveListed,
           Record
    PROVE  Keeps
<1>1. ASSUME \E i \in Slots : running[i].pgrp = cpid, Record PROVE Keeps
  <2>p. PICK k \in Slots :
            /\ running[k].pgrp = cpid
            /\ err' = Counts(k)
            /\ running' = [running EXCEPT ![k].pgrp = NoPid]
            /\ IF cpid \notin zoo THEN pc' = "exit1" /\ UNCHANGED <<zoo, orphans, late>>
               ELSE /\ pc' = "post"
                    /\ zoo' = IF members[cpid] THEN zoo ELSE zoo \ {cpid}
                    /\ orphans' = IF members[cpid] THEN orphans \cup {cpid} ELSE orphans
                    /\ late' = IF members[cpid] /\ bump # NoPid THEN late \cup {cpid}
                               ELSE late
    BY <1>1 DEF Record
  <2>0. /\ pc = "reaped" /\ pc' \in {"post", "exit1"} /\ cpid' = NoPid
        /\ num_active' = num_active - 1 /\ doomed' = doomed \ {cpid}
        /\ cpid \in Pids /\ proc[cpid] = "free" /\ cpid # NoPid
        /\ UNCHANGED <<opt, fork_in_road, starts, c, stop, go_idle, exit_stat, rec_signal, send_signal>>
        /\ UNCHANGED <<lastsent, proc, code, members, bump, strayed, stop_file, signals, bumps, failed>>
        /\ UNCHANGED <<owed>>
    BY <1>1, <2>p, PidsAssumption DEF Record, Held, sched, handler, kernel, world, history
  <2>q. SlotTypes' /\ \A i \in Slots :
                         running'[i].pgrp = IF i = k THEN NoPid ELSE running[i].pgrp
    BY <2>p DEF SlotTypes
  <2>s. /\ Active' = Active \ {k} /\ Tracked' = Tracked \ {cpid} /\ Distinct'
        /\ Cardinality(Active') = Cardinality(Active) - 1 /\ Cardinality(Active) \in Nat
    BY <2>0, <2>p, <2>q, SlotFreed, ActiveFinite
  <2>t. err' \in BOOLEAN /\ (code[cpid] = "fail" => err')
    BY <2>p DEF Counts, KernelTypes
  <2>u. /\ orphans' \subseteq orphans \cup {cpid} /\ zoo' \subseteq zoo /\ zoo \ {cpid} \subseteq zoo'
        /\ orphans \subseteq orphans' /\ late' \subseteq late \cup {cpid}
        /\ pc' # "exit1" /\ members[cpid] => cpid \in orphans'
    BY <2>p
  <2>1. FlagTypes'
    BY <2>0, <2>t DEF FlagTypes
  <2>2. NumTypes' /\ KernelTypes'
    BY <2>0, <2>s, CommandsAssumption, SignalsAssumption, SMTT(30) DEF NumTypes, KernelTypes
  <2>3. SlotTypes' /\ HandlerTypes'
    BY <2>0, <2>q DEF HandlerTypes
  <2>4. PlaceTypes'
    BY <2>0, <2>s, <2>u DEF PlaceTypes
  <2>5. Held'
    BY <2>0, <2>s DEF Held, Ended
  <2>6. LiveListed'
    BY <2>0, <2>s, <2>u, SMTT(30) DEF LiveListed, Alive, NumTypes
  <2>7. ASSUME ~ RunChildInterrupted, Plain PROVE Plain'
    <3>1. Drained' /\ Quiescing'
      BY <2>0, <2>s, <2>7 DEF Plain, Drained, Quiescing, Halted
    <3>2. NoneLost'
      BY <2>0, <2>s, <2>7 DEF Plain, NoneLost, NumTypes
    <3>3. Groups'
      BY <2>0, <2>s, <2>7, <2>u DEF Plain, Groups
    <3> QED
      BY <3>1, <3>2, <3>3 DEF Plain
  <2>8. ASSUME ~ RunChildInterrupted, MaxBumps = 0, Plain, Listed PROVE Listed'
    <3>1. zoo = {Self} \cup Tracked \cup orphans
      BY <2>8, <2>0 DEF Listed, ActiveFile
    <3>2. cpid \in Tracked /\ cpid \notin orphans /\ cpid # Self
      BY <2>8, <2>0, PidsAssumption DEF Plain, NoneLost, Groups
    <3>3. pc' = "post" /\ zoo' = {Self} \cup (Tracked \ {cpid}) \cup orphans'
      BY <2>p, <3>1, <3>2
    <3> QED
      BY <2>8, <2>0, <2>s, <3>3 DEF Listed, ActiveFile
  <2>9. ASSUME ~ RunChildInterrupted, ExecFails = {}, Plain, Counted PROVE Counted'
    BY <2>9, <2>0, <2>t DEF Counted, Pending
  <2> QED
    BY <2>s, <2>1, <2>2, <2>3, <2>4, <2>5, <2>6, <2>7, <2>8, <2>9, TypePartsNext DEF
       Keeps, Invariant
<1>2. ASSUME ~ \E i \in Slots : running[i].pgrp = cpid, Record PROVE Keeps
  <2>0. /\ pc = "reaped" /\ pc' = "post" /\ cpid' = NoPid
        /\ num_active' = num_active - 1 /\ doomed' = doomed \ {cpid}
        /\ err' \in BOOLEAN
        /\ cpid \notin Tracked
        /\ UNCHANGED <<opt, fork_in_road, starts, c, stop, go_idle, exit_stat, running, orphans>>
        /\ UNCHANGED <<rec_signal, send_signal, lastsent, zoo, proc, code, members, bump, late, strayed, stop_file>>
        /\ UNCHANGED <<signals, bumps, failed, owed>>
    BY <1>2, TrackedDef, SMTT(30) DEF Record, sched, handler, kernel, world, history
  <2>s. Tracked' = Tracked /\ Active' = Active /\ Distinct'
    BY <2>0, SameSlots
  <2>1. FlagTypes'
    BY <2>0, <2>s DEF FlagTypes
  <2>2. NumTypes' /\ SlotTypes' /\ HandlerTypes' /\ PlaceTypes' /\ KernelTypes'
    BY <2>0, <2>s, CommandsAssumption, SignalsAssumption, SMTT(30) DEF NumTypes, SlotTypes,
       HandlerTypes, PlaceTypes, KernelTypes
  <2>3. Held'
    BY <2>0, <2>s, TrackedDef DEF Held, Ended
  <2>4. LiveListed'
    BY <2>0, <2>s, ActiveFinite, SMTT(30) DEF LiveListed, Alive, NumTypes
  <2>5. ASSUME ~ RunChildInterrupted, Plain PROVE Plain'
    <3>1. Drained' /\ Quiescing'
      BY <2>0, <2>s, <2>5 DEF Plain, Drained, Quiescing, Halted
    <3>2. NoneLost'
      BY <2>0, <2>5 DEF Plain, NoneLost
    <3>3. Groups'
      BY <2>0, <2>5 DEF Plain, NoneLost
    <3> QED
      BY <3>1, <3>2, <3>3 DEF Plain
  <2>6. ASSUME ~ RunChildInterrupted, MaxBumps = 0, Plain, Listed PROVE Listed'
    BY <2>6, <2>0 DEF Plain, NoneLost
  <2>7. ASSUME ~ RunChildInterrupted, ExecFails = {}, Plain, Counted PROVE Counted'
    BY <2>7, <2>0 DEF Plain, NoneLost
  <2> QED
    BY <2>s, <2>1, <2>2, <2>3, <2>4, <2>5, <2>6, <2>7, TypePartsNext DEF Keeps, Invariant
<1> QED
  BY <1>1, <1>2

\* A signal arrives.
LEMMA SignalKeeps ==
    ASSUME FlagTypes, NumTypes, SlotTypes, HandlerTypes, PlaceTypes, KernelTypes,
           Distinct, Held, LiveListed,
           NEW sig \in Signals,
           Signal(sig) \/ InterruptWait(sig) \/ InterruptRead(sig) \/ InterruptWaitpid(sig)
    PROVE  Keeps
<1>1. ASSUME Signal(sig) PROVE Keeps
  <2>p. /\ HandlerTypes' /\ rec_signal' # None /\ pc \notin Ended
        /\ signals' \in 0..MaxSignals /\ owed' \in BOOLEAN
    BY <1>1, HandlerStep, SignalsAssumption, SMTT(30) DEF Signal, Arrive, FlagTypes, NumTypes
  <2>0. /\ HandlerTypes' /\ rec_signal' # None /\ pc \notin Ended
        /\ signals' \in 0..MaxSignals /\ owed' \in BOOLEAN
        /\ UNCHANGED <<opt, fork_in_road, starts, c, stop, go_idle, num_active, exit_stat, running>>
        /\ UNCHANGED <<orphans, pc, cpid, err, zoo, proc, code, members, bump, late, strayed>>
        /\ UNCHANGED <<stop_file, bumps, doomed, failed>>
    BY <1>1, <2>p DEF Signal, Arrive, sched, handler, kernel, world, history
  <2>s. Tracked' = Tracked /\ Active' = Active /\ Distinct'
    BY <2>0, SameSlots
  <2>1. FlagTypes'
    BY <2>0, <2>s DEF FlagTypes
  <2>2. NumTypes' /\ SlotTypes' /\ HandlerTypes' /\ PlaceTypes' /\ KernelTypes'
    BY <2>0, <2>s, CommandsAssumption, SignalsAssumption DEF NumTypes, SlotTypes,
       HandlerTypes, PlaceTypes, KernelTypes
  <2>3. Held' /\ LiveListed'
    BY <2>0, <2>s DEF Held, Ended, LiveListed, Alive
  <2>4. ASSUME ~ RunChildInterrupted, Plain PROVE Plain'
    BY <2>0, <2>s, <2>4 DEF Plain, NoneLost, Groups, Drained, Quiescing, Halted
  <2>5. ASSUME ~ RunChildInterrupted, MaxBumps = 0, Plain, Listed PROVE Listed'
    BY <2>0, <2>s, <2>5 DEF Listed, ActiveFile
  <2>6. ASSUME ~ RunChildInterrupted, ExecFails = {}, Plain, Counted PROVE Counted'
    BY <2>0, <2>s, <2>6 DEF Counted, Pending
  <2> QED
    BY <2>s, <2>1, <2>2, <2>3, <2>4, <2>5, <2>6, TypePartsNext DEF Keeps, Invariant
<1>2. ASSUME InterruptWait(sig) PROVE Keeps
  <2>p. /\ HandlerTypes' /\ rec_signal' # None /\ pc \notin Ended
        /\ signals' \in 0..MaxSignals /\ owed' \in BOOLEAN
    BY <1>2, HandlerStep, SignalsAssumption, SMTT(30) DEF InterruptWait, Arrive, FlagTypes, NumTypes
  <2>0. /\ HandlerTypes' /\ rec_signal' # None /\ pc \notin Ended
        /\ signals' \in 0..MaxSignals /\ owed' \in BOOLEAN
        /\ pc = "wait" /\ pc' = "post" /\ err' = FALSE
        /\ UNCHANGED <<opt, fork_in_road, starts, c, stop, go_idle, num_active, exit_stat, running>>
        /\ UNCHANGED <<orphans, cpid, zoo, proc, code, members, bump, late, strayed, stop_file, bumps>>
        /\ UNCHANGED <<doomed, failed>>
    BY <1>2, <2>p DEF InterruptWait, Arrive, sched, handler, kernel, world, history
  <2>s. Tracked' = Tracked /\ Active' = Active /\ Distinct'
    BY <2>0, SameSlots
  <2>1. FlagTypes'
    BY <2>0, <2>s DEF FlagTypes
  <2>2. NumTypes' /\ SlotTypes' /\ HandlerTypes' /\ PlaceTypes' /\ KernelTypes'
    BY <2>0, <2>s, CommandsAssumption, SignalsAssumption DEF NumTypes, SlotTypes,
       HandlerTypes, PlaceTypes, KernelTypes
  <2>3. Held' /\ LiveListed'
    BY <2>0, <2>s DEF Held, Ended, LiveListed, Alive
  <2>4. ASSUME ~ RunChildInterrupted, Plain PROVE Plain'
    BY <2>0, <2>s, <2>4 DEF Plain, NoneLost, Groups, Drained, Quiescing, Halted
  <2>5. ASSUME ~ RunChildInterrupted, MaxBumps = 0, Plain, Listed PROVE Listed'
    BY <2>0, <2>s, <2>5 DEF Listed, ActiveFile
  <2>6. ASSUME ~ RunChildInterrupted, ExecFails = {}, Plain, Counted PROVE Counted'
    BY <2>0, <2>s, <2>6 DEF Counted, Pending
  <2> QED
    BY <2>s, <2>1, <2>2, <2>3, <2>4, <2>5, <2>6, TypePartsNext DEF Keeps, Invariant
<1>3. ASSUME InterruptRead(sig) PROVE Keeps
  <2>p. /\ HandlerTypes' /\ rec_signal' # None /\ pc \notin Ended
        /\ signals' \in 0..MaxSignals /\ owed' \in BOOLEAN
    BY <1>3, HandlerStep, SignalsAssumption, SMTT(30) DEF InterruptRead, Arrive, FlagTypes, NumTypes
  <2>0. /\ HandlerTypes' /\ rec_signal' # None /\ pc \notin Ended
        /\ signals' \in 0..MaxSignals /\ owed' \in BOOLEAN
        /\ pc = "read" /\ pc' \in {"waitpid", "crashed"} /\ RunChildInterrupted
        /\ UNCHANGED <<opt, fork_in_road, starts, c, stop, go_idle, num_active, exit_stat, running>>
        /\ UNCHANGED <<orphans, cpid, err, zoo, proc, code, members, bump, late, strayed, stop_file>>
        /\ UNCHANGED <<bumps, doomed, failed>>
    BY <1>3, <2>p DEF InterruptRead, Arrive, sched, handler, kernel, world, history
  <2>s. Tracked' = Tracked /\ Active' = Active /\ Distinct'
    BY <2>0, SameSlots
  <2>1. FlagTypes'
    BY <2>0, <2>s DEF FlagTypes
  <2>2. NumTypes' /\ SlotTypes' /\ HandlerTypes' /\ PlaceTypes' /\ KernelTypes'
    BY <2>0, <2>s, CommandsAssumption, SignalsAssumption DEF NumTypes, SlotTypes,
       HandlerTypes, PlaceTypes, KernelTypes
  <2>3. Held' /\ LiveListed'
    BY <2>0, <2>s DEF Held, Ended, LiveListed, Alive
  <2>4. ASSUME ~ RunChildInterrupted, Plain PROVE Plain'
    <3>1. NoneLost'
      BY <2>0, <2>4
    <3>2. Groups'
      BY <2>0, <2>4
    <3>3. Drained'
      BY <2>0, <2>4
    <3>4. Quiescing'
      BY <2>0, <2>4
    <3> QED
      BY <3>1, <3>2, <3>3, <3>4 DEF Plain
  <2>5. ASSUME ~ RunChildInterrupted, MaxBumps = 0, Plain, Listed PROVE Listed'
    BY <2>5, <2>0
  <2>6. ASSUME ~ RunChildInterrupted, ExecFails = {}, Plain, Counted PROVE Counted'
    BY <2>6, <2>0
  <2> QED
    BY <2>s, <2>1, <2>2, <2>3, <2>4, <2>5, <2>6, TypePartsNext DEF Keeps, Invariant
<1>4. ASSUME InterruptWaitpid(sig) PROVE Keeps
  <2>p. /\ HandlerTypes' /\ rec_signal' # None /\ pc \notin Ended
        /\ signals' \in 0..MaxSignals /\ owed' \in BOOLEAN
    BY <1>4, HandlerStep, SignalsAssumption, SMTT(30) DEF InterruptWaitpid, Arrive, FlagTypes,
       NumTypes
  <2>q. NumTypes' /\ pc' = "loop" /\ num_active' = num_active
    BY <1>4, <2>p, StartedStep DEF InterruptWaitpid, Arrive
  <2>0. /\ HandlerTypes' /\ rec_signal' # None /\ pc \notin Ended
        /\ signals' \in 0..MaxSignals /\ owed' \in BOOLEAN
        /\ pc = "waitpid" /\ pc' = "loop" /\ cpid' = NoPid /\ num_active' = num_active /\ NumTypes'
        /\ RunChildInterrupted
        /\ UNCHANGED <<opt, fork_in_road, stop, go_idle, exit_stat, running, orphans, err, zoo>>
        /\ UNCHANGED <<proc, code, members, bump, late, strayed, stop_file, bumps, doomed, failed>>
    BY <1>4, <2>p, <2>q DEF InterruptWaitpid, Arrive, sched, handler, kernel, world,
       history
  <2>s. Tracked' = Tracked /\ Active' = Active /\ Distinct'
    BY <2>0, SameSlots
  <2>1. FlagTypes'
    BY <2>0, <2>s DEF FlagTypes
  <2>2. SlotTypes' /\ HandlerTypes' /\ PlaceTypes' /\ KernelTypes'
    BY <2>0, <2>s DEF SlotTypes, HandlerTypes, PlaceTypes, KernelTypes
  <2>3. NumTypes'
    BY <2>0
  <2>4. Held' /\ LiveListed'
    BY <2>0, <2>s DEF Held, Ended, LiveListed, Alive
  <2>5. ASSUME ~ RunChildInterrupted, Plain PROVE Plain'
    <3>1. NoneLost'
      BY <2>0, <2>5
    <3>2. Groups'
      BY <2>0, <2>5
    <3>3. Drained'
      BY <2>0, <2>5
    <3>4. Quiescing'
      BY <2>0, <2>5
    <3> QED
      BY <3>1, <3>2, <3>3, <3>4 DEF Plain
  <2>6. ASSUME ~ RunChildInterrupted, MaxBumps = 0, Plain, Listed PROVE Listed'
    BY <2>6, <2>0
  <2>7. ASSUME ~ RunChildInterrupted, ExecFails = {}, Plain, Counted PROVE Counted'
    BY <2>7, <2>0
  <2> QED
    BY <2>s, <2>1, <2>2, <2>3, <2>4, <2>5, <2>6, <2>7, TypePartsNext DEF Keeps, Invariant
<1> QED
  BY <1>1, <1>2, <1>3, <1>4

\* A process of a command takes a step.
LEMMA ProcessKeeps ==
    ASSUME FlagTypes, NumTypes, SlotTypes, HandlerTypes, PlaceTypes, KernelTypes,
           Distinct, Held, LiveListed,
           NEW q \in Pids,
           ChildExec(q) \/ ChildFork(q) \/ MemberExit(q) \/ ChildExit(q)
    PROVE  Keeps
<1>1. ASSUME proc[q] = "forked", ChildExec(q) PROVE Keeps
  <2>p. KernelTypes' /\ proc'[q] = "running" /\ (\A p \in Pids : p # q => proc'[p] = proc[p])
    BY <1>1 DEF ChildExec, KernelTypes, States
  <2>0. /\ proc[q] = "forked"
        /\ UNCHANGED <<opt, fork_in_road, starts, c, stop, go_idle, num_active, exit_stat, running>>
        /\ UNCHANGED <<orphans, rec_signal, send_signal, lastsent, pc, cpid, err, zoo, code>>
        /\ UNCHANGED <<members, bump, late, strayed, stop_file, signals, bumps, doomed, failed, owed>>
    BY <1>1 DEF ChildExec, sched, handler, kernel, world, history
  <2>s. Tracked' = Tracked /\ Active' = Active /\ Distinct'
    BY <2>0, SameSlots
  <2>1. FlagTypes'
    BY <2>0, <2>s DEF FlagTypes
  <2>2. NumTypes' /\ SlotTypes' /\ HandlerTypes' /\ PlaceTypes'
    BY <2>0, <2>s, CommandsAssumption, SignalsAssumption, SMTT(30) DEF NumTypes, SlotTypes,
       HandlerTypes, PlaceTypes
  <2>3. KernelTypes'
    BY <2>p
  <2>4. Held'
    BY <2>0, <2>s, <2>p, TrackedPids DEF Held, Ended, PlaceTypes
  <2>5. LiveListed'
    BY <2>0, <2>s, <2>p DEF LiveListed, Alive
  <2>6. ASSUME ~ RunChildInterrupted, Plain PROVE Plain'
    <3>1. Drained' /\ Quiescing'
      BY <2>0, <2>s, <2>6 DEF Plain, Drained, Quiescing, Halted
    <3>2. NoneLost'
      BY <2>0, <2>s, <2>6, <2>p DEF Plain, NoneLost, Held
    <3>3. Groups'
      BY <2>0, <2>s, <2>6, <2>p DEF Plain, Groups, PlaceTypes
    <3> QED
      BY <3>1, <3>2, <3>3 DEF Plain
  <2>7. ASSUME ~ RunChildInterrupted, MaxBumps = 0, Plain, Listed PROVE Listed'
    BY <2>0, <2>s, <2>7 DEF Listed, ActiveFile
  <2>8. ASSUME ~ RunChildInterrupted, ExecFails = {}, Plain, Counted PROVE Counted'
    BY <2>8, <2>0, <2>p DEF Counted, Pending
  <2> QED
    BY <2>s, <2>1, <2>2, <2>3, <2>4, <2>5, <2>6, <2>7, <2>8, TypePartsNext DEF Keeps,
       Invariant
<1>2. ASSUME proc[q] = "unable", ChildExec(q) PROVE Keeps
  <2>p. KernelTypes' /\ proc'[q] = "unexecuted" /\ (\A p \in Pids : p # q => proc'[p] = proc[p])
    BY <1>2 DEF ChildExec, KernelTypes, States, Codes
  <2>0. /\ proc[q] = "unable" /\ failed' = TRUE
        /\ UNCHANGED <<opt, fork_in_road, starts, c, stop, go_idle, num_active, exit_stat, running>>
        /\ UNCHANGED <<orphans, rec_signal, send_signal, lastsent, pc, cpid, err, zoo, members>>
        /\ UNCHANGED <<bump, late, strayed, stop_file, signals, bumps, doomed, owed>>
    BY <1>2 DEF ChildExec, sched, handler, kernel, world, history
  <2>s. Tracked' = Tracked /\ Active' = Active /\ Distinct'
    BY <2>0, SameSlots
  <2>1. FlagTypes'
    BY <2>0, <2>s DEF FlagTypes
  <2>2. NumTypes' /\ SlotTypes' /\ HandlerTypes' /\ PlaceTypes'
    BY <2>0, <2>s, CommandsAssumption, SignalsAssumption DEF NumTypes, SlotTypes,
       HandlerTypes, PlaceTypes
  <2>3. KernelTypes'
    BY <2>p
  <2>4. Held'
    BY <2>0, <2>s, <2>p, TrackedPids DEF Held, Ended, PlaceTypes
  <2>5. LiveListed'
    BY <2>0, <2>s, <2>p DEF LiveListed, Alive
  <2>6. ASSUME ~ RunChildInterrupted, Plain PROVE Plain'
    <3>1. Drained' /\ Quiescing'
      BY <2>0, <2>s, <2>6 DEF Plain, Drained, Quiescing, Halted
    <3>2. NoneLost'
      BY <2>0, <2>s, <2>6, <2>p DEF Plain, NoneLost, Held
    <3>3. Groups'
      BY <2>0, <2>s, <2>6, <2>p DEF Plain, Groups, PlaceTypes
    <3> QED
      BY <3>1, <3>2, <3>3 DEF Plain
  <2>7. ASSUME ~ RunChildInterrupted, MaxBumps = 0, Plain, Listed PROVE Listed'
    BY <2>0, <2>s, <2>7 DEF Listed, ActiveFile
  <2>8. ASSUME ~ RunChildInterrupted, ExecFails = {}, Plain, Counted PROVE Counted'
    BY <2>8, <2>0 DEF Counted
  <2> QED
    BY <2>s, <2>1, <2>2, <2>3, <2>4, <2>5, <2>6, <2>7, <2>8, TypePartsNext DEF Keeps,
       Invariant
<1>3. ASSUME ChildFork(q) PROVE Keeps
  <2>p. KernelTypes' /\ (\A p \in Pids : p # q => members'[p] = members[p])
    BY <1>3 DEF ChildFork, KernelTypes
  <2>0. /\ proc[q] = "running"
        /\ UNCHANGED <<opt, fork_in_road, starts, c, stop, go_idle, num_active, exit_stat, running>>
        /\ UNCHANGED <<orphans, rec_signal, send_signal, lastsent, pc, cpid, err, zoo, proc>>
        /\ UNCHANGED <<code, bump, late, strayed, stop_file, signals, bumps, doomed, failed, owed>>
    BY <1>3 DEF ChildFork, sched, handler, kernel, world, history
  <2>s. Tracked' = Tracked /\ Active' = Active /\ Distinct'
    BY <2>0, SameSlots
  <2>1. FlagTypes'
    BY <2>0, <2>s DEF FlagTypes
  <2>2. NumTypes' /\ SlotTypes' /\ HandlerTypes' /\ PlaceTypes'
    BY <2>0, <2>s, CommandsAssumption, SignalsAssumption, SMTT(30) DEF NumTypes, SlotTypes,
       HandlerTypes, PlaceTypes
  <2>3. KernelTypes'
    BY <2>p
  <2>4. Held' /\ LiveListed'
    BY <2>0, <2>s DEF Held, Ended, LiveListed, Alive
  <2>5. ASSUME ~ RunChildInterrupted, Plain PROVE Plain'
    <3>1. NoneLost' /\ Drained' /\ Quiescing'
      BY <2>0, <2>s, <2>5 DEF Plain, NoneLost, Drained, Quiescing, Halted
    <3>2. Groups'
      BY <2>0, <2>s, <2>5, <2>p DEF Plain, Groups
    <3> QED
      BY <3>1, <3>2 DEF Plain
  <2>6. ASSUME ~ RunChildInterrupted, MaxBumps = 0, Plain, Listed PROVE Listed'
    BY <2>0, <2>s, <2>6 DEF Listed, ActiveFile
  <2>7. ASSUME ~ RunChildInterrupted, ExecFails = {}, Plain, Counted PROVE Counted'
    BY <2>0, <2>s, <2>7 DEF Counted, Pending
  <2> QED
    BY <2>s, <2>1, <2>2, <2>3, <2>4, <2>5, <2>6, <2>7, TypePartsNext DEF Keeps, Invariant
<1>4. ASSUME MemberExit(q) PROVE Keeps
  <2>p. KernelTypes' /\ (\A p \in Pids : members'[p] => members[p])
    BY <1>4 DEF MemberExit, KernelTypes
  <2>0. /\ pc' = pc
        /\ UNCHANGED <<opt, fork_in_road, starts, c, stop, go_idle, num_active, exit_stat, running>>
        /\ UNCHANGED <<orphans, rec_signal, send_signal, lastsent, pc, cpid, err, zoo, proc>>
        /\ UNCHANGED <<code, bump, late, strayed, stop_file, signals, bumps, doomed, failed, owed>>
    BY <1>4 DEF MemberExit, sched, handler, kernel, world, history
  <2>s. Tracked' = Tracked /\ Active' = Active /\ Distinct'
    BY <2>0, SameSlots
  <2>1. FlagTypes'
    BY <2>0, <2>s DEF FlagTypes
  <2>2. NumTypes' /\ SlotTypes' /\ HandlerTypes' /\ PlaceTypes'
    BY <2>0, <2>s, CommandsAssumption, SignalsAssumption, SMTT(30) DEF NumTypes, SlotTypes,
       HandlerTypes, PlaceTypes
  <2>3. KernelTypes'
    BY <2>p
  <2>4. Held' /\ LiveListed'
    BY <2>0, <2>s DEF Held, Ended, LiveListed, Alive
  <2>5. ASSUME ~ RunChildInterrupted, Plain PROVE Plain'
    <3>1. NoneLost' /\ Drained' /\ Quiescing'
      BY <2>0, <2>s, <2>5 DEF Plain, NoneLost, Drained, Quiescing, Halted
    <3>2. Groups'
      BY <2>0, <2>s, <2>5, <2>p DEF Plain, Groups
    <3> QED
      BY <3>1, <3>2 DEF Plain
  <2>6. ASSUME ~ RunChildInterrupted, MaxBumps = 0, Plain, Listed PROVE Listed'
    BY <2>0, <2>s, <2>6 DEF Listed, ActiveFile
  <2>7. ASSUME ~ RunChildInterrupted, ExecFails = {}, Plain, Counted PROVE Counted'
    BY <2>0, <2>s, <2>7 DEF Counted, Pending
  <2> QED
    BY <2>s, <2>1, <2>2, <2>3, <2>4, <2>5, <2>6, <2>7, TypePartsNext DEF Keeps, Invariant
<1>5. ASSUME ChildExit(q) PROVE Keeps
  <2>p. PICK w \in ExitCodes :
            /\ code' = [code EXCEPT ![q] = w]
            /\ failed' = (failed \/ w = "fail")
    BY <1>5 DEF ChildExit
  <2>q. KernelTypes' /\ proc'[q] = "zombie" /\ (\A p \in Pids : p # q => proc'[p] = proc[p])
    BY <1>5, <2>p, SignalsAssumption DEF ChildExit, KernelTypes, States
  <2>r. code'[q] = w /\ (\A p \in Pids : p # q => code'[p] = code[p])
    BY <2>p DEF KernelTypes
  <2>t. failed' \in BOOLEAN
    BY <2>p DEF FlagTypes
  <2>0. /\ proc[q] = "running" /\ failed' \in BOOLEAN
        /\ UNCHANGED <<opt, fork_in_road, starts, c, stop, go_idle, num_active, exit_stat, running>>
        /\ UNCHANGED <<orphans, rec_signal, send_signal, lastsent, pc, cpid, err, zoo, members>>
        /\ UNCHANGED <<bump, late, strayed, stop_file, signals, bumps, doomed, owed>>
    BY <1>5, <2>t DEF ChildExit, sched, handler, kernel, world, history
  <2>s. Tracked' = Tracked /\ Active' = Active /\ Distinct'
    BY <2>0, SameSlots
  <2>1. FlagTypes'
    BY <2>0, <2>s DEF FlagTypes
  <2>2. NumTypes' /\ SlotTypes' /\ HandlerTypes' /\ PlaceTypes'
    BY <2>0, <2>s, CommandsAssumption, SignalsAssumption, SMTT(30) DEF NumTypes, SlotTypes,
       HandlerTypes, PlaceTypes
  <2>3. KernelTypes'
    BY <2>q
  <2>4. Held'
    BY <2>0, <2>s, <2>q, TrackedPids DEF Held, Ended, PlaceTypes
  <2>5. LiveListed'
    BY <2>0, <2>s, <2>q DEF LiveListed, Alive
  <2>6. ASSUME ~ RunChildInterrupted, Plain PROVE Plain'
    <3>1. Drained' /\ Quiescing'
      BY <2>0, <2>s, <2>6 DEF Plain, Drained, Quiescing, Halted
    <3>2. NoneLost'
      BY <2>0, <2>s, <2>6, <2>q DEF Plain, NoneLost, Held
    <3>3. Groups'
      BY <2>0, <2>s, <2>6, <2>q DEF Plain, Groups, PlaceTypes
    <3> QED
      BY <3>1, <3>2, <3>3 DEF Plain
  <2>7. ASSUME ~ RunChildInterrupted, MaxBumps = 0, Plain, Listed PROVE Listed'
    BY <2>0, <2>s, <2>7 DEF Listed, ActiveFile
  <2>8. ASSUME ~ RunChildInterrupted, ExecFails = {}, Plain, Counted PROVE Counted'
    <3>1. \A p \in Pids : proc'[p] \notin {"unable", "unexecuted"}
      BY <2>8, <2>q DEF Counted
    <3>2. CASE w = "fail"
      BY <2>q, <2>r, <3>1, <3>2 DEF Counted, Pending
    <3>3. ASSUME Pending PROVE Pending'
      BY <2>0, <2>q, <2>r, <3>3 DEF Pending, Held
    <3>4. CASE w # "fail"
      BY <2>8, <2>0, <2>p, <3>1, <3>3, <3>4 DEF Counted
    <3> QED
      BY <3>2, <3>4
  <2> QED
    BY <2>s, <2>1, <2>2, <2>3, <2>4, <2>5, <2>6, <2>7, <2>8, TypePartsNext DEF Keeps,
       Invariant
<1> QED
  BY <1>1, <1>2, <1>3, <1>4, <1>5 DEF ChildExec

\* ltp-bump, a file that asks pan to stop, and steps that change nothing.
LEMMA WorldKeeps ==
    ASSUME FlagTypes, NumTypes, SlotTypes, HandlerTypes, PlaceTypes, KernelTypes,
           Distinct, Held, LiveListed,
           BumpLookup \/ BumpKill \/ TouchStopFile \/ UNCHANGED vars
    PROVE  Keeps
<1>1. ASSUME BumpLookup PROVE Keeps
  <2>p. bumps' \in 0..MaxBumps /\ bumps < MaxBumps /\ bumps \in Nat
    BY <1>1, SignalsAssumption, SMTT(30) DEF BumpLookup, NumTypes
  <2>0. /\ bump' \in zoo \ {Self} /\ late' = {} /\ strayed' = strayed
        /\ bumps' \in 0..MaxBumps /\ bumps < MaxBumps /\ bumps \in Nat
        /\ UNCHANGED <<opt, fork_in_road, starts, c, stop, go_idle, num_active, exit_stat, running>>
        /\ UNCHANGED <<orphans, rec_signal, send_signal, lastsent, pc, cpid, err, zoo, proc>>
        /\ UNCHANGED <<code, members, stop_file, signals, doomed, failed, owed>>
    BY <1>1, <2>p DEF BumpLookup, sched, handler, kernel, world, history
  <2>s. Tracked' = Tracked /\ Active' = Active /\ Distinct'
    BY <2>0, SameSlots
  <2>1. FlagTypes'
    BY <2>0, <2>s DEF FlagTypes
  <2>2. NumTypes' /\ SlotTypes' /\ HandlerTypes' /\ PlaceTypes' /\ KernelTypes'
    BY <2>0, <2>s, CommandsAssumption, SignalsAssumption DEF NumTypes, SlotTypes,
       HandlerTypes, PlaceTypes, KernelTypes
  <2>3. Held' /\ LiveListed'
    BY <2>0, <2>s DEF Held, Ended, LiveListed, Alive
  <2>4. ASSUME ~ RunChildInterrupted, Plain PROVE Plain'
    BY <2>0, <2>s, <2>4 DEF Plain, NoneLost, Groups, Drained, Quiescing, Halted
  <2>5. ASSUME ~ RunChildInterrupted, MaxBumps = 0, Plain, Listed PROVE Listed'
    BY <2>5, <2>0, SMTT(30)
  <2>6. ASSUME ~ RunChildInterrupted, ExecFails = {}, Plain, Counted PROVE Counted'
    BY <2>0, <2>s, <2>6 DEF Counted, Pending
  <2> QED
    BY <2>s, <2>1, <2>2, <2>3, <2>4, <2>5, <2>6, TypePartsNext DEF Keeps, Invariant
<1>2. ASSUME BumpKill PROVE Keeps
  <2>p. PICK gone \in IF proc[bump] = "free" THEN Blanked ELSE {{}} :
            zoo' = zoo \ gone /\ strayed' = strayed \cup (gone \ {bump})
    BY <1>2 DEF BumpKill
  <2>q. gone \subseteq Pids /\ (bump \in gone => proc[bump] = "free")
    <3>1. bump \in Pids /\ late \subseteq Pids
      BY <1>2 DEF BumpKill, PlaceTypes
    <3>2. CASE proc[bump] = "free"
      <4>1. gone = {bump} \/ gone = {} \/ \E p \in late : gone = {p}
        BY <2>p, <3>2 DEF Blanked
      <4> QED
        BY <3>1, <3>2, <4>1
    <3>3. CASE proc[bump] # "free"
      BY <2>p, <3>3
    <3> QED
      BY <3>2, <3>3
  <2>0. /\ bump # NoPid /\ bump' = NoPid /\ zoo' \subseteq zoo /\ late' = {}
        /\ strayed \subseteq strayed' /\ strayed' \subseteq Pids
        /\ \A p \in zoo : p \in zoo' \/ p \in strayed' \/ proc[p] = "free"
        /\ UNCHANGED <<opt, fork_in_road, starts, c, stop, go_idle, num_active, exit_stat, running>>
        /\ UNCHANGED <<orphans, rec_signal, send_signal, lastsent, pc, cpid, err, proc, code>>
        /\ UNCHANGED <<members, stop_file, signals, bumps, doomed, failed, owed>>
    BY <1>2, <2>p, <2>q DEF BumpKill, sched, handler, kernel, world, history, PlaceTypes
  <2>s. Tracked' = Tracked /\ Active' = Active /\ Distinct'
    BY <2>0, SameSlots
  <2>1. FlagTypes'
    BY <2>0, <2>s DEF FlagTypes
  <2>2. NumTypes' /\ SlotTypes' /\ HandlerTypes' /\ PlaceTypes' /\ KernelTypes'
    BY <2>0, <2>s, CommandsAssumption, SignalsAssumption, SMTT(30) DEF NumTypes, SlotTypes,
       HandlerTypes, PlaceTypes, KernelTypes
  <2>3. Held' /\ LiveListed'
    BY <2>0, <2>s DEF Held, Ended, LiveListed, Alive
  <2>4. ASSUME ~ RunChildInterrupted, Plain PROVE Plain'
    BY <2>0, <2>s, <2>4 DEF Plain, NoneLost, Groups, Drained, Quiescing, Halted
  <2>5. ASSUME ~ RunChildInterrupted, MaxBumps = 0, Plain, Listed PROVE Listed'
    BY <2>5, <2>0 DEF Listed
  <2>6. ASSUME ~ RunChildInterrupted, ExecFails = {}, Plain, Counted PROVE Counted'
    BY <2>0, <2>s, <2>6 DEF Counted, Pending
  <2> QED
    BY <2>s, <2>1, <2>2, <2>3, <2>4, <2>5, <2>6, TypePartsNext DEF Keeps, Invariant
<1>3. ASSUME TouchStopFile PROVE Keeps
  <2>0. /\ stop_file' = TRUE
        /\ UNCHANGED <<opt, fork_in_road, starts, c, stop, go_idle, num_active, exit_stat, running>>
        /\ UNCHANGED <<orphans, rec_signal, send_signal, lastsent, pc, cpid, err, zoo, proc>>
        /\ UNCHANGED <<code, members, bump, late, strayed, signals, bumps, doomed, failed, owed>>
    BY <1>3 DEF TouchStopFile, sched, handler, kernel, world, history
  <2>s. Tracked' = Tracked /\ Active' = Active /\ Distinct'
    BY <2>0, SameSlots
  <2>1. FlagTypes'
    BY <2>0, <2>s DEF FlagTypes
  <2>2. NumTypes' /\ SlotTypes' /\ HandlerTypes' /\ PlaceTypes' /\ KernelTypes'
    BY <2>0, <2>s, CommandsAssumption, SignalsAssumption, SMTT(30) DEF NumTypes, SlotTypes,
       HandlerTypes, PlaceTypes, KernelTypes
  <2>3. Held' /\ LiveListed'
    BY <2>0, <2>s DEF Held, Ended, LiveListed, Alive
  <2>4. ASSUME ~ RunChildInterrupted, Plain PROVE Plain'
    BY <2>0, <2>s, <2>4 DEF Plain, NoneLost, Groups, Drained, Quiescing, Halted
  <2>5. ASSUME ~ RunChildInterrupted, MaxBumps = 0, Plain, Listed PROVE Listed'
    BY <2>0, <2>s, <2>5 DEF Listed, ActiveFile
  <2>6. ASSUME ~ RunChildInterrupted, ExecFails = {}, Plain, Counted PROVE Counted'
    BY <2>0, <2>s, <2>6 DEF Counted, Pending
  <2> QED
    BY <2>s, <2>1, <2>2, <2>3, <2>4, <2>5, <2>6, TypePartsNext DEF Keeps, Invariant
<1>4. ASSUME UNCHANGED vars PROVE Keeps
  <2>0. /\ pc' = pc
        /\ UNCHANGED <<opt, fork_in_road, starts, c, stop, go_idle, num_active, exit_stat, running>>
        /\ UNCHANGED <<orphans, rec_signal, send_signal, lastsent, pc, cpid, err, zoo, proc>>
        /\ UNCHANGED <<code, members, bump, late, strayed, stop_file, signals, bumps, doomed, failed, owed>>
    BY <1>4 DEF vars, sched, handler, kernel, world, history
  <2>s. Tracked' = Tracked /\ Active' = Active /\ Distinct'
    BY <2>0, SameSlots
  <2>1. FlagTypes'
    BY <2>0, <2>s DEF FlagTypes
  <2>2. NumTypes' /\ SlotTypes' /\ HandlerTypes' /\ PlaceTypes' /\ KernelTypes'
    BY <2>0, <2>s, CommandsAssumption, SignalsAssumption, SMTT(30) DEF NumTypes, SlotTypes,
       HandlerTypes, PlaceTypes, KernelTypes
  <2>3. Held' /\ LiveListed'
    BY <2>0, <2>s DEF Held, Ended, LiveListed, Alive
  <2>4. ASSUME ~ RunChildInterrupted, Plain PROVE Plain'
    BY <2>0, <2>s, <2>4 DEF Plain, NoneLost, Groups, Drained, Quiescing, Halted
  <2>5. ASSUME ~ RunChildInterrupted, MaxBumps = 0, Plain, Listed PROVE Listed'
    BY <2>0, <2>s, <2>5 DEF Listed, ActiveFile
  <2>6. ASSUME ~ RunChildInterrupted, ExecFails = {}, Plain, Counted PROVE Counted'
    BY <2>0, <2>s, <2>6 DEF Counted, Pending
  <2> QED
    BY <2>s, <2>1, <2>2, <2>3, <2>4, <2>5, <2>6, TypePartsNext DEF Keeps, Invariant
<1> QED
  BY <1>1, <1>2, <1>3, <1>4

----------------------------------------------------------------------------
(* Theorems.                                                                 *)

\* How many commands to start is a number, or -1 for no limit.
LEMMA StartsNumber == ASSUME NEW o \in Options PROVE InitialStarts(o) \in Int /\ InitialStarts(o) >= -1
<1>1. o.starts \in Int /\ o.starts >= -1 /\ Cnt \in Nat /\ KeepActive \in Nat
  BY OptionsAssumption, CommandsAssumption
<1>2. ASSUME NEW a \in Int, NEW b \in Int, a >= -1, b >= -1
      PROVE  Max({a, b}) \in Int /\ Max({a, b}) >= -1
  <2>1. \E x \in {a, b} : \A y \in {a, b} : x >= y
    BY <1>2, SMTT(30)
  <2>2. Max({a, b}) \in {a, b}
    BY <2>1 DEF Max
  <2> QED
    BY <1>2, <2>2
<1>3. Max({o.starts, KeepActive}) \in Int /\ Max({o.starts, KeepActive}) >= -1
  BY <1>1, <1>2, SMTT(30)
<1> QED
  BY <1>1, <1>3, SMTT(30) DEF InitialStarts

\* Pan starts with empty slots, no children and its own entry.
LEMMA InitHolds == Init => Invariant /\ Plain /\ Listed /\ Counted
<1> SUFFICES ASSUME Init PROVE Invariant /\ Plain /\ Listed /\ Counted
  OBVIOUS
<1>0. Active = {} /\ Tracked = {}
  <2>1. Active = {}
    BY DEF Init, Active
  <2> QED
    BY <2>1 DEF Tracked
<1>1. FlagTypes
  <2>1. opt.fork_in_road \in BOOLEAN
    BY OptionsAssumption DEF Init
  <2> QED
    BY <2>1 DEF Init, FlagTypes
<1>2. NumTypes
  BY StartsNumber, CommandsAssumption, SignalsAssumption, SMTT(30) DEF Init, NumTypes
<1>3. SlotTypes /\ HandlerTypes
  BY DEF Init, SlotTypes, HandlerTypes
<1>4. PlaceTypes
  BY DEF Init, PlaceTypes
<1>5. KernelTypes
  BY DEF Init, KernelTypes, States, Codes
<1>6. Distinct
  BY DEF Init, Distinct
<1>7. Held
  BY <1>0 DEF Init, Held
<1>8. LiveListed /\ num_active = Cardinality(Active)
  BY <1>0, ActiveFinite, SMTT(30) DEF Init, LiveListed
<1>9. Plain
  <2>1. NoneLost
    BY <1>8 DEF Init, NoneLost
  <2>2. Groups
    BY DEF Init, Groups
  <2> QED
    BY <2>1, <2>2 DEF Init, Plain, Drained, Quiescing
<1>10. Listed
  BY <1>0 DEF Init, Listed, ActiveFile
<1>11. Counted
  BY DEF Init, Counted
<1> QED
  BY <1>1, <1>2, <1>3, <1>4, <1>5, <1>6, <1>7, <1>8, <1>9, <1>10, <1>11, TypeParts
     DEF Invariant

\* Every step preserves what it is to preserve.
LEMMA NextKeeps == Invariant /\ [Next]_vars => Keeps
<1> SUFFICES ASSUME Invariant, [Next]_vars PROVE Keeps
  OBVIOUS
<1>0. /\ FlagTypes /\ NumTypes /\ SlotTypes /\ HandlerTypes /\ PlaceTypes /\ KernelTypes
      /\ Distinct /\ Held /\ LiveListed
  BY TypeParts DEF Invariant
<1>1. CASE PanStep
  BY <1>0, <1>1, StartKeeps, ActKeeps, ReapKeeps, RecordKeeps DEF PanStep
<1>2. CASE SignalStep
  BY <1>0, <1>2, SignalKeeps DEF SignalStep
<1>3. CASE ProcessStep
  BY <1>0, <1>3, ProcessKeeps DEF ProcessStep
<1>4. CASE BumpLookup \/ BumpKill \/ TouchStopFile \/ UNCHANGED vars
  BY <1>0, <1>4, WorldKeeps
<1> QED
  BY <1>1, <1>2, <1>3, <1>4 DEF Next

\* Invariant holds whatever interrupts pan.
THEOREM Invariance == Spec => []Invariant
<1>1. Init => Invariant
  BY InitHolds
<1>2. Invariant /\ [Next]_vars => Invariant'
  BY NextKeeps DEF Keeps
<1> QED
  BY <1>1, <1>2, PTL DEF Spec

\* The variables keep their types.
THEOREM TypeCorrect == Spec => []TypeOK
<1>1. Invariant => TypeOK
  BY DEF Invariant
<1> QED
  BY <1>1, Invariance, PTL

\* Whatever signals interrupt, run_child() included, a command that pan tracks and
\* that is alive has its entry in the active file, unless an ltp-bump has taken
\* that for the older entry it had read; and pan never counts more active commands
\* than it has slots in use.
THEOREM FoundWhileAlive == Spec => []LiveListed
<1>1. Invariant => LiveListed
  BY DEF Invariant
<1> QED
  BY <1>1, Invariance, PTL

\* When no signal interrupts run_child(), Plain holds as well.
THEOREM PlainInvariance ==
    ASSUME ~ RunChildInterrupted PROVE Spec => [](Invariant /\ Plain)
<1>1. Init => Invariant /\ Plain
  BY InitHolds
<1>2. Invariant /\ Plain /\ [Next]_vars => (Invariant /\ Plain)'
  BY NextKeeps DEF Keeps
<1> QED
  BY <1>1, <1>2, PTL DEF Spec

\* Then num_active is the number of slots in use, each of which holds a process of
\* its own that wait() is still to return, or has just returned.
THEOREM CountsRight == ASSUME ~ RunChildInterrupted PROVE Spec => []Accounting
<1>1. Invariant /\ Plain => Accounting
  BY TrackedCount DEF Invariant, Plain, NoneLost, Held, Accounting
<1> QED
  BY <1>1, PlainInvariance, PTL

\* And no command is started while one is left that was active at a signal, or at a
\* failure with -A or -y: main() looks at stop, rec_signal and go_idle alone (527).
THEOREM StartsWhenQuiet == ASSUME ~ RunChildInterrupted PROVE Spec => QuiesceFirst
<1>1. Invariant /\ Plain /\ [Next]_vars => [StartChild => doomed \cap Children = {}]_vars
  <2> SUFFICES ASSUME Plain, StartChild PROVE doomed = {}
    OBVIOUS
  <2> QED
    BY DEF StartChild, Plain, Quiescing
<1> QED
  BY <1>1, PlainInvariance, PTL DEF Spec, QuiesceFirst

\* Without ltp-bump on a command's tag, Listed holds too.
THEOREM ListedInvariance ==
    ASSUME ~ RunChildInterrupted, MaxBumps = 0 PROVE Spec => [](Invariant /\ Plain /\ Listed)
<1>1. Init => Invariant /\ Plain /\ Listed
  BY InitHolds
<1>2. Invariant /\ Plain /\ Listed /\ [Next]_vars => (Invariant /\ Plain /\ Listed)'
  BY NextKeeps DEF Keeps
<1> QED
  BY <1>1, <1>2, PTL DEF Spec

\* Then the active file has exactly the entries of pan, of the active commands and
\* of the orphaned groups, and none when pan has ended.
THEOREM FileExact ==
    ASSUME ~ RunChildInterrupted, MaxBumps = 0 PROVE Spec => []ActiveFile
<1>1. Listed => ActiveFile
  BY DEF Listed
<1> QED
  BY <1>1, ListedInvariance, PTL

\* And when pan has ended no process is left of any command or of its group.
THEOREM AllDead ==
    ASSUME ~ RunChildInterrupted, MaxBumps = 0 PROVE Spec => []NoneLeftBehind
<1>1. Invariant /\ Plain /\ Listed => NoneLeftBehind
  <2> SUFFICES ASSUME Invariant, Plain, Listed, pc = "exit" PROVE \A p \in Pids : ~ GroupExists(p)
    BY DEF NoneLeftBehind, Listed
  <2>1. Tracked = {}
    BY NoneActive, TypeParts DEF Invariant, Plain, Drained
  <2>2. \A p \in Pids : proc[p] = "free"
    BY <2>1 DEF Plain, NoneLost
  <2>3. \A p \in Pids : ~ members[p]
    BY <2>2 DEF Plain, Groups, Drained
  <2> QED
    BY <2>2, <2>3 DEF GroupExists
<1> QED
  BY <1>1, ListedInvariance, PTL

\* With commands that can all be executed, every failure is counted before pan
\* ends, so that its exit status shows a failure unless the count, of which a
\* parent sees eight bits, has reached 256.
THEOREM FailuresShow ==
    ASSUME ~ RunChildInterrupted, ExecFails = {} PROVE Spec => [](exit_stat < 256 => ExitStatus)
<1>1. Init => Invariant /\ Plain /\ Counted
  BY InitHolds
<1>2. Invariant /\ Plain /\ Counted /\ [Next]_vars => (Invariant /\ Plain /\ Counted)'
  BY NextKeeps DEF Keeps
<1>3. Invariant /\ Plain /\ Counted => (exit_stat < 256 => ExitStatus)
  <2> SUFFICES ASSUME Invariant, Plain, Counted, exit_stat < 256,
                      pc = "exit", opt.track_exit_stats, failed
               PROVE  exit_stat % 256 # 0
    BY DEF ExitStatus
  <2>1. Tracked = {}
    BY NoneActive, TypeParts DEF Invariant, Plain, Drained
  <2>2. ~ Pending
    BY <2>1 DEF Plain, NoneLost, Pending
  <2>3. exit_stat \in 1..255
    BY <2>2, TypeParts, SMTT(30) DEF Counted, Invariant, NumTypes
  <2> QED
    BY <2>3, SMTT(30)
<1> QED
  BY <1>1, <1>2, <1>3, PTL DEF Spec
============================================================================
