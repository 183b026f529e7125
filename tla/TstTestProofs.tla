--------------------------- MODULE TstTestProofs ---------------------------
(***************************************************************************)
(* Proofs about TstTest: for any number of children, variants, filesystems, *)
(* iterations and test functions, with or without timeout and taint check.  *)
(***************************************************************************)
EXTENDS TstTest, TLAPS

\* Leaves are for Zenon, unless they name another prover.
USE ZenonT(30)

BySignal == {Killed, Crashed}
Early == {"forked", "setup"}
BeforeCleanup == Early \cup {"run", "reap", "beat"}

\* Where the processes are.  A main test process that is stuck is in a callback for
\* good, because no action ends that.
Places ==
    /\ lpc \in {"arm", "fork", "collect", "exiting", "exited"} => mpc = "none"
    /\ lpc = "wait" => mpc # "none"
    /\ stuck => mpc \in InCallback
    /\ mpc \in Early => iteration = 0

\* The attempts to kill.  A process that has not been killed yet has been missed at
\* most once, and so has one that ended by itself.
Attempts ==
    /\ lpc # "unclean" => sigkill_retries <= MaxRetries
    /\ MainAlive /\ ~ stuck => sigkill_retries <= 1
    /\ (mpc = "zombie" \/ lpc = "collect") /\ mexit \notin BySignal => sigkill_retries <= 1
    /\ lpc \in {"arm", "fork"} => sigkill_retries <= 1

\* cleanup() in the course of a main test process.
Cleanups ==
    /\ mpc \in BeforeCleanup => cleanups = 0
    /\ mpc = "cleanup" => cleanups = 1
    /\ CleanupOnce

\* The only iteration that begins without a heartbeat is the first one.
Late ==
    /\ NoRunaway
    /\ late > 0 => lpc = "dead" /\ mpc \notin Early

\* What is owed has been reported, and a main test process that died is the last one.
Accounts ==
    /\ owed \ {"died"} \subseteq results
    /\ "died" \in owed =>
           mexit \in BySignal /\ mpc \in {"zombie", "none"} /\ lpc \notin {"arm", "fork"}

\* A main test process that gets through its iterations has reported something.
Reported ==
    /\ changed => results # {}
    /\ Iterations > 0 =>
           /\ mpc = "beat" => results # {}
           /\ (mpc \in {"cleanup", "zombie"} \/ lpc = "collect") /\ mexit = {} => results # {}

Interrupts ==
    /\ InterruptStops
    /\ intr = "sent" => stuck \/ "died" \in owed

IInv ==
    /\ TypeOK /\ Places /\ Attempts /\ Cleanups /\ Late
    /\ Accounts /\ Reported /\ Interrupts /\ StatusAccounts
----------------------------------------------------------------------------
(* Steps.                                                                    *)

\* The parts of the type invariant.
LibTypes ==
    /\ lpc \in {"arm", "fork", "wait", "collect", "exiting"} \cup Ended
    /\ ret \subseteq Bits /\ status \subseteq Bits
    /\ variant \in 1..Variants /\ fs \in 1..(Filesystems + 1)
    /\ sigkill_retries \in 0..(MaxRetries + 1)
FlagTypes ==
    /\ alarm \in BOOLEAN /\ timeout \in BOOLEAN /\ stuck \in BOOLEAN /\ beat \in BOOLEAN
    /\ changed \in BOOLEAN
MainTypes ==
    /\ mpc \in {"none", "forked", "reap", "beat", "zombie"} \cup InCallback
    /\ mexit \in Codes /\ iteration \in 0..Iterations /\ test \in 0..Tcnt
KidTypes ==
    /\ kst \in [Kids -> {"none", "running", "zombie", "gone"}]
    /\ kexit \in [Kids -> Codes] /\ mine \in [Kids -> BOOLEAN]
ResultTypes ==
    /\ results \subseteq Types /\ owed \subseteq Types \cup {"died"}
    /\ cleanups \in Nat /\ late \in Nat /\ intr \in {"none", "lost", "sent"}

\* They make up the type invariant of the runner.
LEMMA TypeParts ==
    TypeOK <=> LibTypes /\ FlagTypes /\ MainTypes /\ KidTypes /\ ResultTypes
BY DEF TypeOK, LibTypes, FlagTypes, MainTypes, KidTypes, ResultTypes
LEMMA TypePartsNext ==
    TypeOK' <=> LibTypes' /\ FlagTypes' /\ MainTypes' /\ KidTypes' /\ ResultTypes'
BY DEF TypeOK, LibTypes, FlagTypes, MainTypes, KidTypes, ResultTypes

\* The exit codes of tst_brk(), exit(0) and the signals.
LEMMA CodeTypes ==
    /\ {} \in Codes /\ {"BROK"} \in Codes /\ Killed \in Codes /\ Crashed \in Codes
    /\ \A t \in BrkTypes : {t} \in Codes
    /\ \A x \in Codes : x \notin {Killed, Crashed} => x \subseteq Bits
<1>1. {} \in Codes /\ {"BROK"} \in Codes /\ Killed \in Codes /\ Crashed \in Codes
  BY DEF Codes, Bits
<1>2. \A t \in BrkTypes : {t} \in Codes
  BY DEF Codes, BrkTypes, Bits
<1>3. \A x \in Codes : x \notin {Killed, Crashed} => x \subseteq Bits
  BY DEF Codes
<1> QED
  BY <1>1, <1>2, <1>3

\* A step of the main test process.
LEMMA MainKeeps ==
    ASSUME IInv, MainStep PROVE IInv'
<1>0. /\ TypeOK /\ Places /\ Attempts /\ Cleanups /\ Late
      /\ Accounts /\ Reported /\ Interrupts /\ StatusAccounts
      /\ LibTypes /\ FlagTypes /\ MainTypes /\ KidTypes /\ ResultTypes
  BY TypeParts DEF IInv
<1> USE <1>0
<1>1. ASSUME MainBegin PROVE IInv'
  <2>1. LibTypes' /\ KidTypes'
    BY <1>1, CountsAssumption, CodeTypes DEF MainBegin, Heartbeat, KillGroup, KillKids,
       Report, lib, main, kids, shared, history, LibTypes, KidTypes, Ended
  <2>2. FlagTypes'
    BY <1>1 DEF MainBegin, Heartbeat, KillGroup, KillKids, Report, lib, main, kids,
       shared, history, FlagTypes
  <2>3. MainTypes'
    BY <1>1, CountsAssumption, CodeTypes DEF MainBegin, Heartbeat, KillGroup, KillKids,
       Report, lib, main, kids, shared, history, MainTypes, InCallback
  <2>4. ResultTypes'
    BY <1>1 DEF MainBegin, Heartbeat, KillGroup, KillKids, Report, lib, main, kids, shared,
       history, ResultTypes, Types, Bits
  <2>5. Places' /\ Attempts' /\ Cleanups' /\ Late'
    BY <1>1, CountsAssumption DEF MainBegin, Heartbeat, KillGroup, KillKids, Report, lib,
       main, kids, shared, history, TypeOK, Places, Attempts, Cleanups, Late, CleanupOnce,
       NoRunaway, MainAlive, InCallback, Ended, Early, BeforeCleanup, BySignal, Killed,
       Crashed, Bits, Types
  <2>6. Accounts' /\ Reported' /\ Interrupts' /\ StatusAccounts'
    BY <1>1, CountsAssumption, SMTT(30) DEF MainBegin, Heartbeat, KillGroup, KillKids, Report, lib,
       main, kids, shared, history, TypeOK, Places, Accounts, Reported, Interrupts,
       InterruptStops, StatusAccounts, InCallback, Ended, Early, BeforeCleanup, BySignal,
       Killed, Crashed, Bits, Types
  <2> QED
    BY <2>1, <2>2, <2>3, <2>4, <2>5, <2>6, TypePartsNext DEF IInv
<1>2. ASSUME SetupReturns PROVE IInv'
  <2>1. CASE iteration < Iterations
    <3>0. /\ iteration' = iteration + 1 /\ test' = 1 /\ mpc' = "run"
          /\ changed' = FALSE /\ UNCHANGED <<results, mexit, cleanups>>
          /\ late' = (IF lpc = "dead" THEN late + 1 ELSE late)
          /\ UNCHANGED <<lpc, ret, variant, fs, alarm, timeout, sigkill_retries, status>>
          /\ UNCHANGED <<kst, kexit, mine>>
          /\ UNCHANGED <<stuck, beat, owed, intr>>
          /\ mpc = "setup" /\ ~ stuck
      BY <1>2, <2>1 DEF SetupReturns, NextIteration, BeginTest, BeginCleanup, lib, main,
         kids, shared, history
    <3>1. LibTypes' /\ KidTypes'
      BY <2>1, <3>0, CountsAssumption, CodeTypes DEF LibTypes, KidTypes, Ended
    <3>2. FlagTypes'
      BY <2>1, <3>0 DEF FlagTypes
    <3>3. MainTypes'
      BY <2>1, <3>0, CountsAssumption, CodeTypes, SMTT(30) DEF MainTypes, InCallback
    <3>4. ResultTypes'
      BY <2>1, <3>0, SMTT(30) DEF ResultTypes, Types, Bits
    <3>5. Places' /\ Attempts' /\ Cleanups' /\ Late'
      BY <2>1, <3>0, CountsAssumption, SMTT(30) DEF TypeOK, Places, Attempts, Cleanups, Late,
         CleanupOnce, NoRunaway, MainAlive, InCallback, Ended, Early, BeforeCleanup,
         BySignal, Killed, Crashed, Bits, Types
    <3>6. Accounts' /\ Reported' /\ Interrupts' /\ StatusAccounts'
      BY <2>1, <3>0, CountsAssumption DEF TypeOK, Places, Accounts, Reported, Interrupts,
         InterruptStops, StatusAccounts, InCallback, Ended, Early, BeforeCleanup, BySignal,
         Killed, Crashed, Bits, Types
    <3> QED
      BY <3>1, <3>2, <3>3, <3>4, <3>5, <3>6, TypePartsNext DEF IInv
  <2>2. CASE ~ (iteration < Iterations)
    <3>0. /\ mpc' = "cleanup" /\ mexit' = {} /\ cleanups' = cleanups + 1
          /\ UNCHANGED <<iteration, test, late, results, changed>>
          /\ UNCHANGED <<lpc, ret, variant, fs, alarm, timeout, sigkill_retries, status>>
          /\ UNCHANGED <<kst, kexit, mine>>
          /\ UNCHANGED <<stuck, beat, owed, intr>>
          /\ mpc = "setup" /\ ~ stuck
      BY <1>2, <2>2 DEF SetupReturns, NextIteration, BeginTest, BeginCleanup, lib, main,
         kids, shared, history
    <3>1. LibTypes' /\ KidTypes'
      BY <2>2, <3>0, CountsAssumption, CodeTypes DEF LibTypes, KidTypes, Ended
    <3>2. FlagTypes'
      BY <2>2, <3>0 DEF FlagTypes
    <3>3. MainTypes'
      BY <2>2, <3>0, CountsAssumption, CodeTypes DEF MainTypes, InCallback
    <3>4. ResultTypes'
      BY <2>2, <3>0, SMTT(30) DEF ResultTypes, Types, Bits
    <3>5. Places' /\ Attempts' /\ Cleanups' /\ Late'
      BY <2>2, <3>0, CountsAssumption, SMTT(30) DEF TypeOK, Places, Attempts, Cleanups, Late,
         CleanupOnce, NoRunaway, MainAlive, InCallback, Ended, Early, BeforeCleanup,
         BySignal, Killed, Crashed, Bits, Types
    <3>6. Accounts' /\ Reported' /\ Interrupts' /\ StatusAccounts'
      BY <2>2, <3>0, CountsAssumption DEF TypeOK, Places, Accounts, Reported, Interrupts,
         InterruptStops, StatusAccounts, InCallback, Ended, Early, BeforeCleanup, BySignal,
         Killed, Crashed, Bits, Types
    <3> QED
      BY <3>1, <3>2, <3>3, <3>4, <3>5, <3>6, TypePartsNext DEF IInv
  <2> QED
    BY <2>1, <2>2
<1>3. ASSUME SetTimeout PROVE IInv'
  <2>1. LibTypes' /\ KidTypes'
    BY <1>3, CountsAssumption, CodeTypes DEF SetTimeout, Heartbeat, KillGroup, KillKids,
       Report, lib, main, kids, shared, history, LibTypes, KidTypes, Ended
  <2>2. FlagTypes'
    BY <1>3 DEF SetTimeout, Heartbeat, KillGroup, KillKids, Report, lib, main, kids,
       shared, history, FlagTypes
  <2>3. MainTypes'
    BY <1>3, CountsAssumption, CodeTypes DEF SetTimeout, Heartbeat, KillGroup, KillKids,
       Report, lib, main, kids, shared, history, MainTypes, InCallback
  <2>4. ResultTypes'
    BY <1>3 DEF SetTimeout, Heartbeat, KillGroup, KillKids, Report, lib, main, kids, shared,
       history, ResultTypes, Types, Bits
  <2>5. Places' /\ Attempts' /\ Cleanups' /\ Late'
    BY <1>3, CountsAssumption DEF SetTimeout, Heartbeat, KillGroup, KillKids, Report, lib,
       main, kids, shared, history, TypeOK, Places, Attempts, Cleanups, Late, CleanupOnce,
       NoRunaway, MainAlive, InCallback, Ended, Early, BeforeCleanup, BySignal, Killed,
       Crashed, Bits, Types
  <2>6. Accounts' /\ Reported' /\ Interrupts' /\ StatusAccounts'
    BY <1>3, CountsAssumption DEF SetTimeout, Heartbeat, KillGroup, KillKids, Report, lib,
       main, kids, shared, history, TypeOK, Places, Accounts, Reported, Interrupts,
       InterruptStops, StatusAccounts, InCallback, Ended, Early, BeforeCleanup, BySignal,
       Killed, Crashed, Bits, Types
  <2> QED
    BY <2>1, <2>2, <2>3, <2>4, <2>5, <2>6, TypePartsNext DEF IInv
<1>4. ASSUME NEW t \in Types, MainReport(t) PROVE IInv'
  <2>1. LibTypes' /\ KidTypes'
    BY <1>4, CountsAssumption, CodeTypes DEF MainReport, Report, lib, main, kids, shared,
       history, LibTypes, KidTypes, Ended
  <2>2. FlagTypes'
    BY <1>4 DEF MainReport, Report, lib, main, kids, shared, history, FlagTypes
  <2>3. MainTypes'
    BY <1>4, CountsAssumption, CodeTypes DEF MainReport, Report, lib, main, kids, shared,
       history, MainTypes, InCallback
  <2>4. ResultTypes'
    BY <1>4 DEF MainReport, Report, lib, main, kids, shared, history, ResultTypes, Types,
       Bits
  <2>5. Places' /\ Attempts' /\ Cleanups' /\ Late'
    BY <1>4, CountsAssumption DEF MainReport, Report, lib, main, kids, shared, history,
       TypeOK, Places, Attempts, Cleanups, Late, CleanupOnce, NoRunaway, MainAlive,
       InCallback, Ended, Early, BeforeCleanup, BySignal, Killed, Crashed, Bits, Types
  <2>6. Accounts' /\ Reported' /\ Interrupts' /\ StatusAccounts'
    BY <1>4, CountsAssumption DEF MainReport, Report, lib, main, kids, shared, history,
       TypeOK, Places, Accounts, Reported, Interrupts, InterruptStops, StatusAccounts,
       InCallback, Ended, Early, BeforeCleanup, BySignal, Killed, Crashed, Bits, Types
  <2> QED
    BY <2>1, <2>2, <2>3, <2>4, <2>5, <2>6, TypePartsNext DEF IInv
<1>5. ASSUME NEW t \in BrkTypes, MainBrk(t) PROVE IInv'
  <2>1. LibTypes' /\ KidTypes'
    BY <1>5, CountsAssumption, CodeTypes DEF MainBrk, BrkTypes, Report, BeginCleanup, lib,
       main, kids, shared, history, LibTypes, KidTypes, Ended
  <2>2. FlagTypes'
    BY <1>5 DEF MainBrk, BrkTypes, Report, BeginCleanup, lib, main, kids, shared,
       history, FlagTypes
  <2>3. MainTypes'
    BY <1>5, CountsAssumption, CodeTypes DEF MainBrk, BrkTypes, Report, BeginCleanup, lib,
       main, kids, shared, history, MainTypes, InCallback
  <2>4. ResultTypes'
    BY <1>5, SMTT(30) DEF MainBrk, BrkTypes, Report, BeginCleanup, lib, main, kids, shared, history,
       ResultTypes, Types, Bits
  <2>5. Places' /\ Attempts' /\ Cleanups' /\ Late'
    BY <1>5, CountsAssumption, SMTT(30) DEF MainBrk, BrkTypes, Report, BeginCleanup, lib, main, kids,
       shared, history, TypeOK, Places, Attempts, Cleanups, Late, CleanupOnce, NoRunaway,
       MainAlive, InCallback, Ended, Early, BeforeCleanup, BySignal, Killed, Crashed, Bits,
       Types
  <2>6. Accounts' /\ Reported' /\ Interrupts' /\ StatusAccounts'
    BY <1>5, CountsAssumption DEF MainBrk, BrkTypes, Report, BeginCleanup, lib, main, kids,
       shared, history, TypeOK, Places, Accounts, Reported, Interrupts, InterruptStops,
       StatusAccounts, InCallback, Ended, Early, BeforeCleanup, BySignal, Killed, Crashed,
       Bits, Types
  <2> QED
    BY <2>1, <2>2, <2>3, <2>4, <2>5, <2>6, TypePartsNext DEF IInv
<1>6. ASSUME NEW k \in Kids, MainFork(k) PROVE IInv'
  <2>1. LibTypes' /\ KidTypes'
    BY <1>6, CountsAssumption, CodeTypes DEF MainFork, lib, main, kids, shared, history,
       LibTypes, KidTypes, Ended
  <2>2. FlagTypes'
    BY <1>6 DEF MainFork, lib, main, kids, shared, history, FlagTypes
  <2>3. MainTypes'
    BY <1>6, CountsAssumption, CodeTypes DEF MainFork, lib, main, kids, shared, history,
       MainTypes, InCallback
  <2>4. ResultTypes'
    BY <1>6 DEF MainFork, lib, main, kids, shared, history, ResultTypes, Types, Bits
  <2>5. Places' /\ Attempts' /\ Cleanups' /\ Late'
    BY <1>6, CountsAssumption DEF MainFork, lib, main, kids, shared, history, TypeOK,
       Places, Attempts, Cleanups, Late, CleanupOnce, NoRunaway, MainAlive, InCallback,
       Ended, Early, BeforeCleanup, BySignal, Killed, Crashed, Bits, Types
  <2>6. Accounts' /\ Reported' /\ Interrupts' /\ StatusAccounts'
    BY <1>6, CountsAssumption DEF MainFork, lib, main, kids, shared, history, TypeOK,
       Places, Accounts, Reported, Interrupts, InterruptStops, StatusAccounts, InCallback,
       Ended, Early, BeforeCleanup, BySignal, Killed, Crashed, Bits, Types
  <2> QED
    BY <2>1, <2>2, <2>3, <2>4, <2>5, <2>6, TypePartsNext DEF IInv
<1>7. ASSUME NEW k \in Kids, ReapChild(k) PROVE IInv'
  <2>1. CASE kexit[k] \in {{}, {"BROK"}, {"CONF"}}
    <3>0. /\ UNCHANGED <<mpc, mexit, cleanups, results, changed, owed>>
          /\ UNCHANGED <<lpc, ret, variant, fs, alarm, timeout, sigkill_retries, status>>
          /\ UNCHANGED <<iteration, test, stuck, beat, kexit, mine, intr, late>>
          /\ mpc = "reap"
          /\ kst' = [kst EXCEPT ![k] = "gone"]
      BY <1>7, <2>1 DEF ReapChild, Broken, Report, BeginCleanup, lib, main, kids, shared,
         history
    <3>1. LibTypes' /\ KidTypes'
      BY <2>1, <3>0, CountsAssumption, CodeTypes DEF LibTypes, KidTypes, Ended
    <3>2. FlagTypes'
      BY <2>1, <3>0 DEF FlagTypes
    <3>3. MainTypes'
      BY <2>1, <3>0, CountsAssumption, CodeTypes DEF MainTypes, InCallback
    <3>4. ResultTypes'
      BY <2>1, <3>0 DEF ResultTypes, Types, Bits
    <3>5. Places' /\ Attempts' /\ Cleanups' /\ Late'
      BY <2>1, <3>0, CountsAssumption DEF TypeOK, Places, Attempts, Cleanups, Late,
         CleanupOnce, NoRunaway, MainAlive, InCallback, Ended, Early, BeforeCleanup,
         BySignal, Killed, Crashed, Bits, Types
    <3>6. Accounts' /\ Reported' /\ Interrupts' /\ StatusAccounts'
      BY <2>1, <3>0, CountsAssumption DEF TypeOK, Places, Accounts, Reported, Interrupts,
         InterruptStops, StatusAccounts, InCallback, Ended, Early, BeforeCleanup, BySignal,
         Killed, Crashed, Bits, Types
    <3> QED
      BY <3>1, <3>2, <3>3, <3>4, <3>5, <3>6, TypePartsNext DEF IInv
  <2>2. CASE kexit[k] \notin {{}, {"BROK"}, {"CONF"}}
    <3>0. /\ results' = results \cup {"BROK"} /\ owed' = owed \cup {"BROK"} /\ changed'
          /\ mpc' = "cleanup" /\ mexit' = {"BROK"} /\ cleanups' = cleanups + 1
          /\ UNCHANGED <<lpc, ret, variant, fs, alarm, timeout, sigkill_retries, status>>
          /\ UNCHANGED <<iteration, test, stuck, beat, kexit, mine, intr, late>>
          /\ mpc = "reap"
          /\ kst' = [kst EXCEPT ![k] = "gone"]
      BY <1>7, <2>2 DEF ReapChild, Broken, Report, BeginCleanup, lib, main, kids, shared,
         history
    <3>1. LibTypes' /\ KidTypes'
      BY <2>2, <3>0, CountsAssumption, CodeTypes DEF LibTypes, KidTypes, Ended
    <3>2. FlagTypes'
      BY <2>2, <3>0 DEF FlagTypes
    <3>3. MainTypes'
      BY <2>2, <3>0, CountsAssumption, CodeTypes DEF MainTypes, InCallback
    <3>4. ResultTypes'
      BY <2>2, <3>0, SMTT(30) DEF ResultTypes, Types, Bits
    <3>5. Places' /\ Attempts' /\ Cleanups' /\ Late'
      BY <2>2, <3>0, CountsAssumption, SMTT(30) DEF TypeOK, Places, Attempts, Cleanups, Late,
         CleanupOnce, NoRunaway, MainAlive, InCallback, Ended, Early, BeforeCleanup,
         BySignal, Killed, Crashed, Bits, Types
    <3>6. Accounts' /\ Reported' /\ Interrupts' /\ StatusAccounts'
      BY <2>2, <3>0, CountsAssumption DEF TypeOK, Places, Accounts, Reported, Interrupts,
         InterruptStops, StatusAccounts, InCallback, Ended, Early, BeforeCleanup, BySignal,
         Killed, Crashed, Bits, Types
    <3> QED
      BY <3>1, <3>2, <3>3, <3>4, <3>5, <3>6, TypePartsNext DEF IInv
  <2> QED
    BY <2>1, <2>2
<1>8. ASSUME TestReturns PROVE IInv'
  <2>1. LibTypes' /\ KidTypes'
    BY <1>8, CountsAssumption, CodeTypes DEF TestReturns, lib, main, kids, shared, history,
       LibTypes, KidTypes, Ended
  <2>2. FlagTypes'
    BY <1>8 DEF TestReturns, lib, main, kids, shared, history, FlagTypes
  <2>3. MainTypes'
    BY <1>8, CountsAssumption, CodeTypes DEF TestReturns, lib, main, kids, shared, history,
       MainTypes, InCallback
  <2>4. ResultTypes'
    BY <1>8 DEF TestReturns, lib, main, kids, shared, history, ResultTypes, Types, Bits
  <2>5. Places' /\ Attempts' /\ Cleanups' /\ Late'
    BY <1>8, CountsAssumption DEF TestReturns, lib, main, kids, shared, history, TypeOK,
       Places, Attempts, Cleanups, Late, CleanupOnce, NoRunaway, MainAlive, InCallback,
       Ended, Early, BeforeCleanup, BySignal, Killed, Crashed, Bits, Types
  <2>6. Accounts' /\ Reported' /\ Interrupts' /\ StatusAccounts'
    BY <1>8, CountsAssumption DEF TestReturns, lib, main, kids, shared, history, TypeOK,
       Places, Accounts, Reported, Interrupts, InterruptStops, StatusAccounts, InCallback,
       Ended, Early, BeforeCleanup, BySignal, Killed, Crashed, Bits, Types
  <2> QED
    BY <2>1, <2>2, <2>3, <2>4, <2>5, <2>6, TypePartsNext DEF IInv
<1>9. ASSUME ReapedAll PROVE IInv'
  <2>1. CASE ~ changed
    <3>0. /\ results' = results \cup {"BROK"} /\ owed' = owed \cup {"BROK"} /\ changed'
          /\ mpc' = "cleanup" /\ mexit' = {"BROK"} /\ cleanups' = cleanups + 1
          /\ test' = test
          /\ UNCHANGED <<lpc, ret, variant, fs, alarm, timeout, sigkill_retries, status>>
          /\ UNCHANGED <<kst, kexit, mine>>
          /\ UNCHANGED <<iteration, stuck, beat, intr, late>>
          /\ mpc = "reap"
      BY <1>9, <2>1 DEF ReapedAll, Broken, Report, BeginCleanup, BeginTest, lib, main, kids,
         shared, history
    <3>1. LibTypes' /\ KidTypes'
      BY <2>1, <3>0, CountsAssumption, CodeTypes DEF LibTypes, KidTypes, Ended
    <3>2. FlagTypes'
      BY <2>1, <3>0 DEF FlagTypes
    <3>3. MainTypes'
      BY <2>1, <3>0, CountsAssumption, CodeTypes DEF MainTypes, InCallback
    <3>4. ResultTypes'
      BY <2>1, <3>0, SMTT(30) DEF ResultTypes, Types, Bits
    <3>5. Places' /\ Attempts' /\ Cleanups' /\ Late'
      BY <2>1, <3>0, CountsAssumption, SMTT(30) DEF TypeOK, Places, Attempts, Cleanups, Late,
         CleanupOnce, NoRunaway, MainAlive, InCallback, Ended, Early, BeforeCleanup,
         BySignal, Killed, Crashed, Bits, Types
    <3>6. Accounts' /\ Reported' /\ Interrupts' /\ StatusAccounts'
      BY <2>1, <3>0, CountsAssumption DEF TypeOK, Places, Accounts, Reported, Interrupts,
         InterruptStops, StatusAccounts, InCallback, Ended, Early, BeforeCleanup, BySignal,
         Killed, Crashed, Bits, Types
    <3> QED
      BY <3>1, <3>2, <3>3, <3>4, <3>5, <3>6, TypePartsNext DEF IInv
  <2>2. CASE changed /\ test < Tcnt
    <3>0. /\ test' = test + 1 /\ changed' = FALSE /\ mpc' = "run"
          /\ UNCHANGED <<mexit, cleanups, results, owed>>
          /\ UNCHANGED <<lpc, ret, variant, fs, alarm, timeout, sigkill_retries, status>>
          /\ UNCHANGED <<kst, kexit, mine>>
          /\ UNCHANGED <<iteration, stuck, beat, intr, late>>
          /\ mpc = "reap"
      BY <1>9, <2>2 DEF ReapedAll, Broken, Report, BeginCleanup, BeginTest, lib, main, kids,
         shared, history
    <3>1. LibTypes' /\ KidTypes'
      BY <2>2, <3>0, CountsAssumption, CodeTypes DEF LibTypes, KidTypes, Ended
    <3>2. FlagTypes'
      BY <2>2, <3>0 DEF FlagTypes
    <3>3. MainTypes'
      BY <2>2, <3>0, CountsAssumption, CodeTypes, SMTT(30) DEF MainTypes, InCallback
    <3>4. ResultTypes'
      BY <2>2, <3>0 DEF ResultTypes, Types, Bits
    <3>5. Places' /\ Attempts' /\ Cleanups' /\ Late'
      BY <2>2, <3>0, CountsAssumption DEF TypeOK, Places, Attempts, Cleanups, Late,
         CleanupOnce, NoRunaway, MainAlive, InCallback, Ended, Early, BeforeCleanup,
         BySignal, Killed, Crashed, Bits, Types
    <3>6. Accounts' /\ Reported' /\ Interrupts' /\ StatusAccounts'
      BY <2>2, <3>0, CountsAssumption DEF TypeOK, Places, Accounts, Reported, Interrupts,
         InterruptStops, StatusAccounts, InCallback, Ended, Early, BeforeCleanup, BySignal,
         Killed, Crashed, Bits, Types
    <3> QED
      BY <3>1, <3>2, <3>3, <3>4, <3>5, <3>6, TypePartsNext DEF IInv
  <2>3. CASE changed /\ ~ (test < Tcnt)
    <3>0. /\ mpc' = "beat"
          /\ UNCHANGED <<mexit, cleanups, results, owed, test, changed>>
          /\ UNCHANGED <<lpc, ret, variant, fs, alarm, timeout, sigkill_retries, status>>
          /\ UNCHANGED <<kst, kexit, mine>>
          /\ UNCHANGED <<iteration, stuck, beat, intr, late>>
          /\ mpc = "reap"
      BY <1>9, <2>3 DEF ReapedAll, Broken, Report, BeginCleanup, BeginTest, lib, main, kids,
         shared, history
    <3>1. LibTypes' /\ KidTypes'
      BY <2>3, <3>0, CountsAssumption, CodeTypes DEF LibTypes, KidTypes, Ended
    <3>2. FlagTypes'
      BY <2>3, <3>0 DEF FlagTypes
    <3>3. MainTypes'
      BY <2>3, <3>0, CountsAssumption, CodeTypes DEF MainTypes, InCallback
    <3>4. ResultTypes'
      BY <2>3, <3>0 DEF ResultTypes, Types, Bits
    <3>5. Places' /\ Attempts' /\ Cleanups' /\ Late'
      BY <2>3, <3>0, CountsAssumption DEF TypeOK, Places, Attempts, Cleanups, Late,
         CleanupOnce, NoRunaway, MainAlive, InCallback, Ended, Early, BeforeCleanup,
         BySignal, Killed, Crashed, Bits, Types
    <3>6. Accounts' /\ Reported' /\ Interrupts' /\ StatusAccounts'
      BY <2>3, <3>0, CountsAssumption DEF TypeOK, Places, Accounts, Reported, Interrupts,
         InterruptStops, StatusAccounts, InCallback, Ended, Early, BeforeCleanup, BySignal,
         Killed, Crashed, Bits, Types
    <3> QED
      BY <3>1, <3>2, <3>3, <3>4, <3>5, <3>6, TypePartsNext DEF IInv
  <2> QED
    BY <2>1, <2>2, <2>3
<1>10. ASSUME MainBeat PROVE IInv'
  <2>1. CASE lpc = "dead"
    <3>0. /\ results' = results \cup {"FAIL"} /\ changed'
          /\ KidTypes'
          /\ mpc' = "zombie" /\ mexit' = Killed
          /\ UNCHANGED <<iteration, test, beat, cleanups, late>>
          /\ UNCHANGED <<lpc, ret, variant, fs, alarm, timeout, sigkill_retries, status>>
          /\ UNCHANGED <<stuck, owed, intr>>
          /\ mpc = "beat"
      BY <1>10, <2>1, CodeTypes DEF MainBeat, NextIteration, BeginTest, BeginCleanup,
         Heartbeat, KillGroup, KillKids, Report, lib, main, kids, shared, history, KidTypes
    <3>1. LibTypes' /\ KidTypes'
      BY <2>1, <3>0, CountsAssumption, CodeTypes DEF LibTypes, KidTypes, Ended
    <3>2. FlagTypes'
      BY <2>1, <3>0 DEF FlagTypes
    <3>3. MainTypes'
      BY <2>1, <3>0, CountsAssumption, CodeTypes DEF MainTypes, InCallback
    <3>4. ResultTypes'
      BY <2>1, <3>0 DEF ResultTypes, Types, Bits
    <3>5. Places' /\ Attempts' /\ Cleanups' /\ Late'
      BY <2>1, <3>0, CountsAssumption DEF TypeOK, Places, Attempts, Cleanups, Late,
         CleanupOnce, NoRunaway, MainAlive, InCallback, Ended, Early, BeforeCleanup,
         BySignal, Killed, Crashed, Bits, Types
    <3>6. Accounts' /\ Reported' /\ Interrupts' /\ StatusAccounts'
      BY <2>1, <3>0, CountsAssumption DEF TypeOK, Places, Accounts, Reported, Interrupts,
         InterruptStops, StatusAccounts, InCallback, Ended, Early, BeforeCleanup, BySignal,
         Killed, Crashed, Bits, Types
    <3> QED
      BY <3>1, <3>2, <3>3, <3>4, <3>5, <3>6, TypePartsNext DEF IInv
  <2>2. CASE lpc # "dead" /\ iteration < Iterations
    <3>0. /\ beat'
          /\ UNCHANGED <<kst, kexit, mine>>
          /\ iteration' = iteration + 1 /\ test' = 1 /\ mpc' = "run"
          /\ changed' = FALSE /\ UNCHANGED <<results, mexit, cleanups>>
          /\ late' = (IF lpc = "dead" THEN late + 1 ELSE late)
          /\ UNCHANGED <<lpc, ret, variant, fs, alarm, timeout, sigkill_retries, status>>
          /\ UNCHANGED <<stuck, owed, intr>>
          /\ mpc = "beat"
      BY <1>10, <2>2, CodeTypes DEF MainBeat, NextIteration, BeginTest, BeginCleanup,
         Heartbeat, KillGroup, KillKids, Report, lib, main, kids, shared, history, KidTypes
    <3>1. LibTypes' /\ KidTypes'
      BY <2>2, <3>0, CountsAssumption, CodeTypes DEF LibTypes, KidTypes, Ended
    <3>2. FlagTypes'
      BY <2>2, <3>0 DEF FlagTypes
    <3>3. MainTypes'
      BY <2>2, <3>0, CountsAssumption, CodeTypes, SMTT(30) DEF MainTypes, InCallback
    <3>4. ResultTypes'
      BY <2>2, <3>0 DEF ResultTypes, Types, Bits
    <3>5. Places' /\ Attempts' /\ Cleanups' /\ Late'
      BY <2>2, <3>0, CountsAssumption DEF TypeOK, Places, Attempts, Cleanups, Late,
         CleanupOnce, NoRunaway, MainAlive, InCallback, Ended, Early, BeforeCleanup,
         BySignal, Killed, Crashed, Bits, Types
    <3>6. Accounts' /\ Reported' /\ Interrupts' /\ StatusAccounts'
      BY <2>2, <3>0, CountsAssumption DEF TypeOK, Places, Accounts, Reported, Interrupts,
         InterruptStops, StatusAccounts, InCallback, Ended, Early, BeforeCleanup, BySignal,
         Killed, Crashed, Bits, Types
    <3> QED
      BY <3>1, <3>2, <3>3, <3>4, <3>5, <3>6, TypePartsNext DEF IInv
  <2>3. CASE lpc # "dead" /\ ~ (iteration < Iterations)
    <3>0. /\ beat'
          /\ UNCHANGED <<kst, kexit, mine>>
          /\ mpc' = "cleanup" /\ mexit' = {} /\ cleanups' = cleanups + 1
          /\ UNCHANGED <<iteration, test, late, results, changed>>
          /\ UNCHANGED <<lpc, ret, variant, fs, alarm, timeout, sigkill_retries, status>>
          /\ UNCHANGED <<stuck, owed, intr>>
          /\ mpc = "beat"
      BY <1>10, <2>3, CodeTypes DEF MainBeat, NextIteration, BeginTest, BeginCleanup,
         Heartbeat, KillGroup, KillKids, Report, lib, main, kids, shared, history, KidTypes
    <3>1. LibTypes' /\ KidTypes'
      BY <2>3, <3>0, CountsAssumption, CodeTypes DEF LibTypes, KidTypes, Ended
    <3>2. FlagTypes'
      BY <2>3, <3>0 DEF FlagTypes
    <3>3. MainTypes'
      BY <2>3, <3>0, CountsAssumption, CodeTypes DEF MainTypes, InCallback
    <3>4. ResultTypes'
      BY <2>3, <3>0, SMTT(30) DEF ResultTypes, Types, Bits
    <3>5. Places' /\ Attempts' /\ Cleanups' /\ Late'
      BY <2>3, <3>0, CountsAssumption, SMTT(30) DEF TypeOK, Places, Attempts, Cleanups, Late,
         CleanupOnce, NoRunaway, MainAlive, InCallback, Ended, Early, BeforeCleanup,
         BySignal, Killed, Crashed, Bits, Types
    <3>6. Accounts' /\ Reported' /\ Interrupts' /\ StatusAccounts'
      BY <2>3, <3>0, CountsAssumption DEF TypeOK, Places, Accounts, Reported, Interrupts,
         InterruptStops, StatusAccounts, InCallback, Ended, Early, BeforeCleanup, BySignal,
         Killed, Crashed, Bits, Types
    <3> QED
      BY <3>1, <3>2, <3>3, <3>4, <3>5, <3>6, TypePartsNext DEF IInv
  <2> QED
    BY <2>1, <2>2, <2>3
<1>11. ASSUME CleanupReturns PROVE IInv'
  <2>1. LibTypes' /\ KidTypes'
    BY <1>11, CountsAssumption, CodeTypes DEF CleanupReturns, lib, main, kids, shared,
       history, LibTypes, KidTypes, Ended
  <2>2. FlagTypes'
    BY <1>11 DEF CleanupReturns, lib, main, kids, shared, history, FlagTypes
  <2>3. MainTypes'
    BY <1>11, CountsAssumption, CodeTypes DEF CleanupReturns, lib, main, kids, shared,
       history, MainTypes, InCallback
  <2>4. ResultTypes'
    BY <1>11 DEF CleanupReturns, lib, main, kids, shared, history, ResultTypes, Types, Bits
  <2>5. Places' /\ Attempts' /\ Cleanups' /\ Late'
    BY <1>11, CountsAssumption DEF CleanupReturns, lib, main, kids, shared, history, TypeOK,
       Places, Attempts, Cleanups, Late, CleanupOnce, NoRunaway, MainAlive, InCallback,
       Ended, Early, BeforeCleanup, BySignal, Killed, Crashed, Bits, Types
  <2>6. Accounts' /\ Reported' /\ Interrupts' /\ StatusAccounts'
    BY <1>11, CountsAssumption DEF CleanupReturns, lib, main, kids, shared, history, TypeOK,
       Places, Accounts, Reported, Interrupts, InterruptStops, StatusAccounts, InCallback,
       Ended, Early, BeforeCleanup, BySignal, Killed, Crashed, Bits, Types
  <2> QED
    BY <2>1, <2>2, <2>3, <2>4, <2>5, <2>6, TypePartsNext DEF IInv
<1>12. ASSUME MainCrash PROVE IInv'
  <2>1. LibTypes' /\ KidTypes'
    BY <1>12, CountsAssumption, CodeTypes DEF MainCrash, lib, main, kids, shared, history,
       LibTypes, KidTypes, Ended
  <2>2. FlagTypes'
    BY <1>12 DEF MainCrash, lib, main, kids, shared, history, FlagTypes
  <2>3. MainTypes'
    BY <1>12, CountsAssumption, CodeTypes DEF MainCrash, lib, main, kids, shared, history,
       MainTypes, InCallback
  <2>4. ResultTypes'
    BY <1>12 DEF MainCrash, lib, main, kids, shared, history, ResultTypes, Types, Bits
  <2>5. Places' /\ Attempts' /\ Cleanups' /\ Late'
    BY <1>12, CountsAssumption DEF MainCrash, lib, main, kids, shared, history, TypeOK,
       Places, Attempts, Cleanups, Late, CleanupOnce, NoRunaway, MainAlive, InCallback,
       Ended, Early, BeforeCleanup, BySignal, Killed, Crashed, Bits, Types
  <2>6. Accounts' /\ Reported' /\ Interrupts' /\ StatusAccounts'
    BY <1>12, CountsAssumption DEF MainCrash, lib, main, kids, shared, history, TypeOK,
       Places, Accounts, Reported, Interrupts, InterruptStops, StatusAccounts, InCallback,
       Ended, Early, BeforeCleanup, BySignal, Killed, Crashed, Bits, Types
  <2> QED
    BY <2>1, <2>2, <2>3, <2>4, <2>5, <2>6, TypePartsNext DEF IInv
<1>13. ASSUME MainStuck PROVE IInv'
  <2>1. LibTypes' /\ KidTypes'
    BY <1>13, CountsAssumption, CodeTypes DEF MainStuck, lib, main, kids, shared, history,
       LibTypes, KidTypes, Ended
  <2>2. FlagTypes'
    BY <1>13 DEF MainStuck, lib, main, kids, shared, history, FlagTypes
  <2>3. MainTypes'
    BY <1>13, CountsAssumption, CodeTypes DEF MainStuck, lib, main, kids, shared, history,
       MainTypes, InCallback
  <2>4. ResultTypes'
    BY <1>13 DEF MainStuck, lib, main, kids, shared, history, ResultTypes, Types, Bits
  <2>5. Places' /\ Attempts' /\ Cleanups' /\ Late'
    BY <1>13, CountsAssumption DEF MainStuck, lib, main, kids, shared, history, TypeOK,
       Places, Attempts, Cleanups, Late, CleanupOnce, NoRunaway, MainAlive, InCallback,
       Ended, Early, BeforeCleanup, BySignal, Killed, Crashed, Bits, Types
  <2>6. Accounts' /\ Reported' /\ Interrupts' /\ StatusAccounts'
    BY <1>13, CountsAssumption DEF MainStuck, lib, main, kids, shared, history, TypeOK,
       Places, Accounts, Reported, Interrupts, InterruptStops, StatusAccounts, InCallback,
       Ended, Early, BeforeCleanup, BySignal, Killed, Crashed, Bits, Types
  <2> QED
    BY <2>1, <2>2, <2>3, <2>4, <2>5, <2>6, TypePartsNext DEF IInv
<1> QED
  BY <1>1, <1>2, <1>3, <1>4, <1>5, <1>6, <1>7, <1>8, <1>9, <1>10, <1>11, <1>12, <1>13 DEF
     MainStep

\* SIGKILL for a group keeps the types of the children.
LEMMA KillKidsTypes ==
    ASSUME KidTypes, NEW c, KillKids(c) PROVE KidTypes'
BY CodeTypes DEF KidTypes, KillKids

\* So does the end of one child.
LEMMA KidEndTypes ==
    ASSUME KidTypes, NEW k \in Kids, NEW code \in Codes, KidEnd(k, code) PROVE KidTypes'
BY DEF KidTypes, KidEnd

\* A step of a child.
LEMMA KidKeeps ==
    ASSUME IInv, KidStep PROVE IInv'
<1>0. /\ TypeOK /\ Places /\ Attempts /\ Cleanups /\ Late
      /\ Accounts /\ Reported /\ Interrupts /\ StatusAccounts
      /\ LibTypes /\ FlagTypes /\ MainTypes /\ KidTypes /\ ResultTypes
  BY TypeParts DEF IInv
<1> USE <1>0
<1>1. ASSUME NEW k \in Kids, NEW t \in Types, KidReport(k, t) PROVE IInv'
  <2>0. /\ UNCHANGED <<lpc, ret, variant, fs, alarm, timeout, sigkill_retries, status>>
        /\ UNCHANGED <<mpc, mexit, iteration, test, stuck, beat>>
        /\ UNCHANGED <<cleanups, late, intr, kst, kexit, mine>>
        /\ results' = results \cup {t} /\ changed' = (changed \/ t # "WARN")
        /\ owed' = owed \/ (owed' = owed \cup {t} /\ mpc \notin {"none", "zombie"})
    BY <1>1 DEF KidReport, Report, Noted, MainAlive, lib, main, kids, shared, history
  <2>1. LibTypes' /\ KidTypes'
    BY <2>0, CountsAssumption, CodeTypes DEF LibTypes, KidTypes, Ended
  <2>2. FlagTypes'
    BY <2>0 DEF FlagTypes
  <2>3. MainTypes'
    BY <2>0, CountsAssumption, CodeTypes DEF MainTypes, InCallback
  <2>4. ResultTypes'
    BY <2>0 DEF ResultTypes, Types, Bits
  <2>5. Places' /\ Attempts' /\ Cleanups' /\ Late'
    BY <2>0, CountsAssumption DEF TypeOK, Places, Attempts, Cleanups, Late, CleanupOnce,
       NoRunaway, MainAlive, InCallback, Ended, Early, BeforeCleanup, BySignal, Killed,
       Crashed, Bits, Types
  <2>6. Accounts' /\ Reported' /\ Interrupts' /\ StatusAccounts'
    BY <2>0, CountsAssumption DEF TypeOK, Places, Accounts, Reported, Interrupts,
       InterruptStops, StatusAccounts, InCallback, Ended, Early, BeforeCleanup, BySignal,
       Killed, Crashed, Bits, Types
  <2> QED
    BY <2>1, <2>2, <2>3, <2>4, <2>5, <2>6, TypePartsNext DEF IInv
<1>2. ASSUME NEW k \in Kids, NEW t \in BrkTypes, KidBrk(k, t) PROVE IInv'
  <2>0. /\ UNCHANGED <<lpc, ret, variant, fs, alarm, timeout, sigkill_retries, status>>
        /\ UNCHANGED <<mpc, mexit, iteration, test, stuck, beat>>
        /\ UNCHANGED <<cleanups, late, intr>>
        /\ KidTypes'
        /\ results' = results \cup {t} /\ t \in {"BROK", "CONF", "FAIL"} /\ changed' = (changed \/ t # "WARN")
        /\ owed' = owed \/ (owed' = owed \cup {t} /\ mpc \notin {"none", "zombie"})
    BY <1>2, KidEndTypes, CodeTypes DEF KidBrk, KidEnd, Report, Noted, MainAlive, BrkTypes,
       lib, main, kids, shared, history
  <2>1. LibTypes' /\ KidTypes'
    BY <2>0, CountsAssumption, CodeTypes DEF LibTypes, KidTypes, Ended
  <2>2. FlagTypes'
    BY <2>0 DEF FlagTypes
  <2>3. MainTypes'
    BY <2>0, CountsAssumption, CodeTypes DEF MainTypes, InCallback
  <2>4. ResultTypes'
    BY <2>0 DEF ResultTypes, Types, Bits
  <2>5. Places' /\ Attempts' /\ Cleanups' /\ Late'
    BY <2>0, CountsAssumption DEF TypeOK, Places, Attempts, Cleanups, Late, CleanupOnce,
       NoRunaway, MainAlive, InCallback, Ended, Early, BeforeCleanup, BySignal, Killed,
       Crashed, Bits, Types
  <2>6. Accounts' /\ Reported' /\ Interrupts' /\ StatusAccounts'
    BY <2>0, CountsAssumption DEF TypeOK, Places, Accounts, Reported, Interrupts,
       InterruptStops, StatusAccounts, InCallback, Ended, Early, BeforeCleanup, BySignal,
       Killed, Crashed, Bits, Types
  <2> QED
    BY <2>1, <2>2, <2>3, <2>4, <2>5, <2>6, TypePartsNext DEF IInv
<1>3. ASSUME NEW k \in Kids, KidExit(k) PROVE IInv'
  <2>0. /\ UNCHANGED <<lpc, ret, variant, fs, alarm, timeout, sigkill_retries, status>>
        /\ UNCHANGED <<mpc, mexit, iteration, test, stuck, beat>>
        /\ UNCHANGED <<results, changed, owed, cleanups, late, intr>>
        /\ KidTypes'
    BY <1>3, KidEndTypes, CodeTypes DEF KidExit, KidEnd, lib, main, kids, shared, history
  <2>1. LibTypes' /\ KidTypes'
    BY <2>0, CountsAssumption, CodeTypes DEF LibTypes, KidTypes, Ended
  <2>2. FlagTypes'
    BY <2>0 DEF FlagTypes
  <2>3. MainTypes'
    BY <2>0, CountsAssumption, CodeTypes DEF MainTypes, InCallback
  <2>4. ResultTypes'
    BY <2>0 DEF ResultTypes, Types, Bits
  <2>5. Places' /\ Attempts' /\ Cleanups' /\ Late'
    BY <2>0, CountsAssumption DEF TypeOK, Places, Attempts, Cleanups, Late, CleanupOnce,
       NoRunaway, MainAlive, InCallback, Ended, Early, BeforeCleanup, BySignal, Killed,
       Crashed, Bits, Types
  <2>6. Accounts' /\ Reported' /\ Interrupts' /\ StatusAccounts'
    BY <2>0, CountsAssumption DEF TypeOK, Places, Accounts, Reported, Interrupts,
       InterruptStops, StatusAccounts, InCallback, Ended, Early, BeforeCleanup, BySignal,
       Killed, Crashed, Bits, Types
  <2> QED
    BY <2>1, <2>2, <2>3, <2>4, <2>5, <2>6, TypePartsNext DEF IInv
<1>4. ASSUME NEW k \in Kids, KidSetTimeout(k) PROVE IInv'
  <2>1. CASE mine[k] /\ MainAlive /\ stuck
    <3>0. /\ UNCHANGED <<mpc, mexit, owed, results, changed>>
          /\ UNCHANGED <<kst, kexit, mine>>
          /\ timeout' = TRUE
          /\ UNCHANGED <<lpc, ret, variant, fs, alarm, sigkill_retries, status>>
          /\ UNCHANGED <<iteration, test, stuck, beat, cleanups, intr, late>>
      BY <1>4, <2>1, KillKidsTypes DEF KidSetTimeout, Report, MainAlive, lib, main, kids,
         shared, history
    <3>1. LibTypes' /\ KidTypes'
      BY <2>1, <3>0, CountsAssumption, CodeTypes DEF LibTypes, KidTypes, Ended
    <3>2. FlagTypes'
      BY <2>1, <3>0 DEF FlagTypes
    <3>3. MainTypes'
      BY <2>1, <3>0, CountsAssumption, CodeTypes DEF MainTypes, InCallback
    <3>4. ResultTypes'
      BY <2>1, <3>0 DEF ResultTypes, Types, Bits
    <3>5. Places' /\ Attempts' /\ Cleanups' /\ Late'
      BY <2>1, <3>0, CountsAssumption DEF TypeOK, Places, Attempts, Cleanups, Late,
         CleanupOnce, NoRunaway, MainAlive, InCallback, Ended, Early, BeforeCleanup,
         BySignal, Killed, Crashed, Bits, Types
    <3>6. Accounts' /\ Reported' /\ Interrupts' /\ StatusAccounts'
      BY <2>1, <3>0, CountsAssumption DEF TypeOK, Places, Accounts, Reported, Interrupts,
         InterruptStops, StatusAccounts, InCallback, Ended, Early, BeforeCleanup, BySignal,
         Killed, Crashed, Bits, Types
    <3> QED
      BY <3>1, <3>2, <3>3, <3>4, <3>5, <3>6, TypePartsNext DEF IInv
  <2>2. CASE mine[k] /\ MainAlive /\ ~ stuck
    <3>0. /\ mpc' = "zombie" /\ mexit' = Crashed /\ owed' = owed \cup {"died"}
          /\ mpc \notin {"none", "zombie"}
          /\ UNCHANGED <<results, changed>>
          /\ UNCHANGED <<kst, kexit, mine>>
          /\ timeout' = TRUE
          /\ UNCHANGED <<lpc, ret, variant, fs, alarm, sigkill_retries, status>>
          /\ UNCHANGED <<iteration, test, stuck, beat, cleanups, intr, late>>
      BY <1>4, <2>2, KillKidsTypes DEF KidSetTimeout, Report, MainAlive, lib, main, kids,
         shared, history
    <3>1. LibTypes' /\ KidTypes'
      BY <2>2, <3>0, CountsAssumption, CodeTypes DEF LibTypes, KidTypes, Ended
    <3>2. FlagTypes'
      BY <2>2, <3>0 DEF FlagTypes
    <3>3. MainTypes'
      BY <2>2, <3>0, CountsAssumption, CodeTypes DEF MainTypes, InCallback
    <3>4. ResultTypes'
      BY <2>2, <3>0 DEF ResultTypes, Types, Bits
    <3>5. Places' /\ Attempts' /\ Cleanups' /\ Late'
      BY <2>2, <3>0, CountsAssumption DEF TypeOK, Places, Attempts, Cleanups, Late,
         CleanupOnce, NoRunaway, MainAlive, InCallback, Ended, Early, BeforeCleanup,
         BySignal, Killed, Crashed, Bits, Types
    <3>6. Accounts' /\ Reported' /\ Interrupts' /\ StatusAccounts'
      BY <2>2, <3>0, CountsAssumption DEF TypeOK, Places, Accounts, Reported, Interrupts,
         InterruptStops, StatusAccounts, InCallback, Ended, Early, BeforeCleanup, BySignal,
         Killed, Crashed, Bits, Types
    <3> QED
      BY <3>1, <3>2, <3>3, <3>4, <3>5, <3>6, TypePartsNext DEF IInv
  <2>3. CASE ~ (mine[k] /\ MainAlive)
    <3>0. /\ results' = results \cup {"FAIL"} /\ changed'
          /\ KidTypes'
          /\ UNCHANGED <<mpc, mexit, owed>>
          /\ timeout' = TRUE
          /\ UNCHANGED <<lpc, ret, variant, fs, alarm, sigkill_retries, status>>
          /\ UNCHANGED <<iteration, test, stuck, beat, cleanups, intr, late>>
      BY <1>4, <2>3, KillKidsTypes DEF KidSetTimeout, Report, MainAlive, lib, main, kids,
         shared, history
    <3>1. LibTypes' /\ KidTypes'
      BY <2>3, <3>0, CountsAssumption, CodeTypes DEF LibTypes, KidTypes, Ended
    <3>2. FlagTypes'
      BY <2>3, <3>0 DEF FlagTypes
    <3>3. MainTypes'
      BY <2>3, <3>0, CountsAssumption, CodeTypes DEF MainTypes, InCallback
    <3>4. ResultTypes'
      BY <2>3, <3>0 DEF ResultTypes, Types, Bits
    <3>5. Places' /\ Attempts' /\ Cleanups' /\ Late'
      BY <2>3, <3>0, CountsAssumption DEF TypeOK, Places, Attempts, Cleanups, Late,
         CleanupOnce, NoRunaway, MainAlive, InCallback, Ended, Early, BeforeCleanup,
         BySignal, Killed, Crashed, Bits, Types
    <3>6. Accounts' /\ Reported' /\ Interrupts' /\ StatusAccounts'
      BY <2>3, <3>0, CountsAssumption DEF TypeOK, Places, Accounts, Reported, Interrupts,
         InterruptStops, StatusAccounts, InCallback, Ended, Early, BeforeCleanup, BySignal,
         Killed, Crashed, Bits, Types
    <3> QED
      BY <3>1, <3>2, <3>3, <3>4, <3>5, <3>6, TypePartsNext DEF IInv
  <2> QED
    BY <2>1, <2>2, <2>3
<1> QED
  BY <1>1, <1>2, <1>3, <1>4 DEF KidStep

Missed == mpc \in {"forked", "none", "zombie"} \/ stuck

\* kill(-test_pid, SIGKILL) ends the main test process or misses it.
LEMMA KillTestHits ==
    ASSUME KidTypes, FlagTypes, KillTest
    PROVE  /\ KidTypes'
           /\ Missed => UNCHANGED <<mpc, mexit, owed>>
           /\ ~ Missed => mpc' = "zombie" /\ mexit' = Killed /\ owed' = owed \cup {"died"}
<1>1. KidTypes'
  BY KillKidsTypes DEF KillTest, KillGroup, KidTypes, kids
<1>2. Missed => UNCHANGED <<mpc, mexit, owed>>
  BY DEF KillTest, Missed, MainAlive, FlagTypes
<1>3. ~ Missed => mpc' = "zombie" /\ mexit' = Killed /\ owed' = owed \cup {"died"}
  BY DEF KillTest, Missed, MainAlive, FlagTypes
<1> QED
  BY <1>1, <1>2, <1>3

\* The library process exits with q, or goes on to another run.
GoesOn(r) ==
    /\ r \subseteq {"CONF"} /\ ret' \in {ret, ret \cup r}
    /\ variant' \in 1..Variants /\ fs' \in 1..(Filesystems + 1)
    /\ lpc' = "arm" /\ status' = status
Exits(q) ==
    /\ lpc' = "exiting" /\ status' = ExitValue(q)
    /\ UNCHANGED <<ret, variant, fs>>

\* What the loops over the variants and the filesystems come to.
LEMMA NextRunEnds ==
    ASSUME LibTypes, NEW r \in SUBSET Bits, NextRun(r)
    PROVE  GoesOn(r) \/ \E q \in SUBSET Bits : r \subseteq q /\ Exits(q)
<1>1. ASSUME NextVariant(r)
      PROVE  GoesOn(r) \/ \E q \in SUBSET Bits : r \subseteq q /\ Exits(q)
  <2>1. CASE (ret \cup r) \subseteq {"CONF"} /\ variant < Variants
    BY <1>1, <2>1, CountsAssumption, SMTT(30) DEF NextVariant, GoesOn, LibTypes
  <2>2. CASE ~ ((ret \cup r) \subseteq {"CONF"} /\ variant < Variants)
    <3>1. Exits(ret \cup r)
      BY <1>1, <2>2 DEF NextVariant, DoExit, Exits
    <3> QED
      BY <3>1 DEF LibTypes
  <2> QED
    BY <2>1, <2>2
<1>2. CASE Filesystems = 0
  BY <1>1, <1>2 DEF NextRun
<1>3. CASE Filesystems # 0 /\ ~ (r \subseteq {"CONF"})
  BY <1>3 DEF NextRun, DoExit, Exits
<1>4. CASE Filesystems # 0 /\ r \subseteq {"CONF"} /\ fs < Filesystems
  BY <1>4, CountsAssumption, SMTT(30) DEF NextRun, GoesOn, LibTypes
<1>5. CASE Filesystems # 0 /\ r \subseteq {"CONF"} /\ ~ (fs < Filesystems)
  BY <1>1, <1>5 DEF NextRun
<1> QED
  BY <1>2, <1>3, <1>4, <1>5

\* do_exit() leaves out no result but a PASS, and a CONF beside a PASS.
LEMMA ExitValueAccounts ==
    ASSUME NEW q \in SUBSET Bits, ResultTypes'
    PROVE  /\ ExitValue(q) \subseteq Bits
           /\ results' \cap {"FAIL", "BROK", "WARN"} \subseteq ExitValue(q)
           /\ "CONF" \in results' /\ "PASS" \notin results' => "CONF" \in ExitValue(q)
           /\ q \cap {"FAIL", "BROK"} \subseteq ExitValue(q)
           /\ ExitValue(q) = {} => "PASS" \in results' \/ (q = {} /\ results' = {})
<1>1. ExitValue(q) \subseteq Bits
  BY DEF ExitValue, Bits
<1>2. /\ results' \cap {"FAIL", "BROK", "WARN"} \subseteq ExitValue(q)
      /\ "CONF" \in results' /\ "PASS" \notin results' => "CONF" \in ExitValue(q)
  BY DEF ExitValue
<1>3. q \cap {"FAIL", "BROK"} \subseteq ExitValue(q)
  BY DEF ExitValue
<1>4. ASSUME ExitValue(q) = {}, "PASS" \notin results' PROVE q = {} /\ results' = {}
  BY <1>4 DEF ExitValue, ResultTypes, Types, Bits
<1> QED
  BY <1>1, <1>2, <1>3, <1>4

\* A step of the library process, SIGINT for it, or its death.
LEMMA LibKeeps ==
    ASSUME IInv, LibStep \/ Interrupt \/ LibDies PROVE IInv'
<1>0. /\ TypeOK /\ Places /\ Attempts /\ Cleanups /\ Late
      /\ Accounts /\ Reported /\ Interrupts /\ StatusAccounts
      /\ LibTypes /\ FlagTypes /\ MainTypes /\ KidTypes /\ ResultTypes
  BY TypeParts DEF IInv
<1> USE <1>0
<1>1. ASSUME Arm PROVE IInv'
  <2>1. LibTypes' /\ KidTypes'
    BY <1>1, CountsAssumption, CodeTypes DEF Arm, lib, main, kids, shared, history,
       LibTypes, KidTypes, Ended
  <2>2. FlagTypes'
    BY <1>1 DEF Arm, lib, main, kids, shared, history, FlagTypes
  <2>3. MainTypes'
    BY <1>1, CountsAssumption, CodeTypes DEF Arm, lib, main, kids, shared, history,
       MainTypes, InCallback
  <2>4. ResultTypes'
    BY <1>1 DEF Arm, lib, main, kids, shared, history, ResultTypes, Types, Bits
  <2>5. Places' /\ Attempts' /\ Cleanups' /\ Late'
    BY <1>1, CountsAssumption DEF Arm, lib, main, kids, shared, history, TypeOK, Places,
       Attempts, Cleanups, Late, CleanupOnce, NoRunaway, MainAlive, InCallback, Ended,
       Early, BeforeCleanup, BySignal, Killed, Crashed, Bits, Types
  <2>6. Accounts' /\ Reported' /\ Interrupts' /\ StatusAccounts'
    BY <1>1, CountsAssumption DEF Arm, lib, main, kids, shared, history, TypeOK, Places,
       Accounts, Reported, Interrupts, InterruptStops, StatusAccounts, InCallback, Ended,
       Early, BeforeCleanup, BySignal, Killed, Crashed, Bits, Types
  <2> QED
    BY <2>1, <2>2, <2>3, <2>4, <2>5, <2>6, TypePartsNext DEF IInv
<1>2. ASSUME Fork PROVE IInv'
  <2>1. LibTypes' /\ KidTypes'
    BY <1>2, CountsAssumption, CodeTypes DEF Fork, lib, main, kids, shared, history,
       LibTypes, KidTypes, Ended
  <2>2. FlagTypes'
    BY <1>2 DEF Fork, lib, main, kids, shared, history, FlagTypes
  <2>3. MainTypes'
    BY <1>2, CountsAssumption, CodeTypes, SMTT(30) DEF Fork, lib, main, kids, shared, history,
       MainTypes, InCallback
  <2>4. ResultTypes'
    BY <1>2 DEF Fork, lib, main, kids, shared, history, ResultTypes, Types, Bits
  <2>5. Places' /\ Attempts' /\ Cleanups' /\ Late'
    BY <1>2, CountsAssumption, SMTT(30) DEF Fork, lib, main, kids, shared, history, TypeOK, Places,
       Attempts, Cleanups, Late, CleanupOnce, NoRunaway, MainAlive, InCallback, Ended,
       Early, BeforeCleanup, BySignal, Killed, Crashed, Bits, Types
  <2>6. Accounts' /\ Reported' /\ Interrupts' /\ StatusAccounts'
    BY <1>2, CountsAssumption DEF Fork, lib, main, kids, shared, history, TypeOK, Places,
       Accounts, Reported, Interrupts, InterruptStops, StatusAccounts, InCallback, Ended,
       Early, BeforeCleanup, BySignal, Killed, Crashed, Bits, Types
  <2> QED
    BY <2>1, <2>2, <2>3, <2>4, <2>5, <2>6, TypePartsNext DEF IInv
<1>3. ASSUME HandleBeat PROVE IInv'
  <2>1. LibTypes' /\ KidTypes'
    BY <1>3, CountsAssumption, CodeTypes, SMTT(30) DEF HandleBeat, lib, main, kids, shared, history,
       LibTypes, KidTypes, Ended
  <2>2. FlagTypes'
    BY <1>3 DEF HandleBeat, lib, main, kids, shared, history, FlagTypes
  <2>3. MainTypes'
    BY <1>3, CountsAssumption, CodeTypes DEF HandleBeat, lib, main, kids, shared, history,
       MainTypes, InCallback
  <2>4. ResultTypes'
    BY <1>3 DEF HandleBeat, lib, main, kids, shared, history, ResultTypes, Types, Bits
  <2>5. Places' /\ Attempts' /\ Cleanups' /\ Late'
    BY <1>3, CountsAssumption, SMTT(30) DEF HandleBeat, lib, main, kids, shared, history, TypeOK,
       Places, Attempts, Cleanups, Late, CleanupOnce, NoRunaway, MainAlive, InCallback,
       Ended, Early, BeforeCleanup, BySignal, Killed, Crashed, Bits, Types
  <2>6. Accounts' /\ Reported' /\ Interrupts' /\ StatusAccounts'
    BY <1>3, CountsAssumption DEF HandleBeat, lib, main, kids, shared, history, TypeOK,
       Places, Accounts, Reported, Interrupts, InterruptStops, StatusAccounts, InCallback,
       Ended, Early, BeforeCleanup, BySignal, Killed, Crashed, Bits, Types
  <2> QED
    BY <2>1, <2>2, <2>3, <2>4, <2>5, <2>6, TypePartsNext DEF IInv
<1>4. ASSUME HandleAlarm PROVE IInv'
  <2>1. CASE Missed
    <3>0. /\ mpc = "forked" \/ mpc \in {"none", "zombie"} \/ stuck
          /\ UNCHANGED <<mpc, mexit, owed>>
          /\ sigkill_retries \in 0..MaxRetries /\ {"FAIL"} \subseteq Bits
          /\ lpc = "wait" /\ sigkill_retries' = sigkill_retries + 1
          /\ mpc \in {"forked", "zombie"} => sigkill_retries = 0
          /\ \/ sigkill_retries' > MaxRetries /\ lpc' = "unclean" /\ status' = {"FAIL"}
             \/ sigkill_retries' <= MaxRetries /\ lpc' = lpc /\ status' = status
          /\ UNCHANGED <<ret, variant, fs, alarm, timeout, iteration, test, stuck, beat>>
          /\ UNCHANGED <<results, changed, cleanups, intr, late>>
          /\ KidTypes'
      BY <1>4, <2>1, KillTestHits, CountsAssumption, SMTT(30) DEF Missed, Attempts, Bits, LibTypes,
         HandleAlarm, lib, main, kids, shared, history
    <3>1. LibTypes' /\ KidTypes'
      BY <2>1, <3>0, CountsAssumption, CodeTypes, SMTT(30) DEF LibTypes, KidTypes, Ended
    <3>2. FlagTypes'
      BY <2>1, <3>0 DEF FlagTypes
    <3>3. MainTypes'
      BY <2>1, <3>0, CountsAssumption, CodeTypes DEF MainTypes, InCallback
    <3>4. ResultTypes'
      BY <2>1, <3>0 DEF ResultTypes, Types, Bits
    <3>5. Places' /\ Attempts' /\ Cleanups' /\ Late'
      BY <2>1, <3>0, CountsAssumption, SMTT(30) DEF TypeOK, Places, Attempts, Cleanups, Late,
         CleanupOnce, NoRunaway, MainAlive, InCallback, Ended, Early, BeforeCleanup,
         BySignal, Killed, Crashed, Bits, Types
    <3>6. Accounts' /\ Reported' /\ Interrupts' /\ StatusAccounts'
      BY <2>1, <3>0, CountsAssumption DEF TypeOK, Places, Accounts, Reported, Interrupts,
         InterruptStops, StatusAccounts, InCallback, Ended, Early, BeforeCleanup, BySignal,
         Killed, Crashed, Bits, Types
    <3> QED
      BY <3>1, <3>2, <3>3, <3>4, <3>5, <3>6, TypePartsNext DEF IInv
  <2>2. CASE ~ Missed
    <3>0. /\ mpc \notin {"none", "forked", "zombie"} /\ ~ stuck
          /\ mpc' = "zombie" /\ mexit' = Killed /\ owed' = owed \cup {"died"}
          /\ sigkill_retries \in 0..MaxRetries /\ {"FAIL"} \subseteq Bits
          /\ lpc = "wait" /\ sigkill_retries' = sigkill_retries + 1
          /\ mpc \in {"forked", "zombie"} => sigkill_retries = 0
          /\ \/ sigkill_retries' > MaxRetries /\ lpc' = "unclean" /\ status' = {"FAIL"}
             \/ sigkill_retries' <= MaxRetries /\ lpc' = lpc /\ status' = status
          /\ UNCHANGED <<ret, variant, fs, alarm, timeout, iteration, test, stuck, beat>>
          /\ UNCHANGED <<results, changed, cleanups, intr, late>>
          /\ KidTypes'
      BY <1>4, <2>2, KillTestHits, CountsAssumption, SMTT(30) DEF Missed, Attempts, Bits, LibTypes,
         HandleAlarm, lib, main, kids, shared, history
    <3>1. LibTypes' /\ KidTypes'
      BY <2>2, <3>0, CountsAssumption, CodeTypes, SMTT(30) DEF LibTypes, KidTypes, Ended
    <3>2. FlagTypes'
      BY <2>2, <3>0 DEF FlagTypes
    <3>3. MainTypes'
      BY <2>2, <3>0, CountsAssumption, CodeTypes DEF MainTypes, InCallback
    <3>4. ResultTypes'
      BY <2>2, <3>0 DEF ResultTypes, Types, Bits
    <3>5. Places' /\ Attempts' /\ Cleanups' /\ Late'
      BY <2>2, <3>0, CountsAssumption DEF TypeOK, Places, Attempts, Cleanups, Late,
         CleanupOnce, NoRunaway, MainAlive, InCallback, Ended, Early, BeforeCleanup,
         BySignal, Killed, Crashed, Bits, Types
    <3>6. Accounts' /\ Reported' /\ Interrupts' /\ StatusAccounts'
      BY <2>2, <3>0, CountsAssumption DEF TypeOK, Places, Accounts, Reported, Interrupts,
         InterruptStops, StatusAccounts, InCallback, Ended, Early, BeforeCleanup, BySignal,
         Killed, Crashed, Bits, Types
    <3> QED
      BY <3>1, <3>2, <3>3, <3>4, <3>5, <3>6, TypePartsNext DEF IInv
  <2> QED
    BY <2>1, <2>2
<1>5. ASSUME Collect PROVE IInv'
  <2>1. LibTypes' /\ KidTypes'
    BY <1>5, CountsAssumption, CodeTypes DEF Collect, lib, main, kids, shared, history,
       LibTypes, KidTypes, Ended
  <2>2. FlagTypes'
    BY <1>5 DEF Collect, lib, main, kids, shared, history, FlagTypes
  <2>3. MainTypes'
    BY <1>5, CountsAssumption, CodeTypes DEF Collect, lib, main, kids, shared, history,
       MainTypes, InCallback
  <2>4. ResultTypes'
    BY <1>5 DEF Collect, lib, main, kids, shared, history, ResultTypes, Types, Bits
  <2>5. Places' /\ Attempts' /\ Cleanups' /\ Late'
    BY <1>5, CountsAssumption DEF Collect, lib, main, kids, shared, history, TypeOK, Places,
       Attempts, Cleanups, Late, CleanupOnce, NoRunaway, MainAlive, InCallback, Ended,
       Early, BeforeCleanup, BySignal, Killed, Crashed, Bits, Types
  <2>6. Accounts' /\ Reported' /\ Interrupts' /\ StatusAccounts'
    BY <1>5, CountsAssumption DEF Collect, lib, main, kids, shared, history, TypeOK, Places,
       Accounts, Reported, Interrupts, InterruptStops, StatusAccounts, InCallback, Ended,
       Early, BeforeCleanup, BySignal, Killed, Crashed, Bits, Types
  <2> QED
    BY <2>1, <2>2, <2>3, <2>4, <2>5, <2>6, TypePartsNext DEF IInv
<1>6. ASSUME Verdict PROVE IInv'
  <2>0. /\ lpc = "collect"
        /\ UNCHANGED <<alarm, timeout, sigkill_retries, mpc, mexit, iteration, test>>
        /\ UNCHANGED <<stuck, beat, kst, kexit, mine, cleanups, intr, late>>
    BY <1>6 DEF Verdict, main, kids
  <2>1. ASSUME NEW q \in SUBSET Bits, Exits(q), NEW o \in {{}, {"FAIL"}, {"BROK"}},
               o \subseteq q, o # {} => changed',
               results' = results \cup o, owed' = owed \cup o, changed' \in BOOLEAN,
               o = {} => changed' = changed,
               mexit \in BySignal => o # {},
               mexit \notin BySignal => mexit \subseteq q \/ o # {}
        PROVE  IInv'
    <3>0. /\ lpc' = "exiting" /\ status' = ExitValue(q)
          /\ UNCHANGED <<ret, variant, fs>>
      BY <2>1 DEF Exits
    <3>4. ResultTypes'
      BY <2>0, <2>1 DEF ResultTypes, Types, Bits
    <3>7. /\ status' \subseteq Bits
          /\ results' \cap {"FAIL", "BROK", "WARN"} \subseteq status'
          /\ "CONF" \in results' /\ "PASS" \notin results' => "CONF" \in status'
          /\ o \subseteq status'
          /\ status' = {} => "PASS" \in results' \/ (q = {} /\ results' = {})
      BY <2>1, <3>0, <3>4, ExitValueAccounts
    <3>1. LibTypes' /\ KidTypes'
      BY <2>0, <3>0, <3>7 DEF LibTypes, KidTypes, Ended
    <3>2. FlagTypes'
      BY <2>0, <2>1 DEF FlagTypes
    <3>3. MainTypes'
      BY <2>0 DEF MainTypes
    <3>5. Places' /\ Attempts' /\ Cleanups' /\ Late'
      BY <2>0, <3>0 DEF Places, Attempts, Cleanups, Late, CleanupOnce, NoRunaway, MainAlive
    <3>6. Accounts' /\ Reported' /\ Interrupts'
      BY <2>0, <2>1, <3>0 DEF Places, Accounts, Reported, Interrupts, InterruptStops,
         InCallback, BySignal
    <3>8. Iterations > 0 /\ results' = {} => q # {}
      BY <2>1, <2>0 DEF Reported, BySignal
    <3>9. StatusAccounts'
      <4>1. owed' \cap {"FAIL", "BROK", "WARN"} \subseteq status'
        BY <2>1, <3>7 DEF Accounts
      <4>2. "CONF" \in owed' /\ "PASS" \notin results' => "CONF" \in status'
        BY <2>1, <3>7 DEF Accounts
      <4>3. "died" \in owed' => status' \cap {"FAIL", "BROK"} # {}
        BY <2>1, <3>7 DEF Accounts
      <4>4. status' = {} /\ Iterations > 0 => "PASS" \in results'
        BY <3>7, <3>8
      <4> QED
        BY <4>1, <4>2, <4>3, <4>4 DEF StatusAccounts
    <3> QED
      BY <3>1, <3>2, <3>3, <3>4, <3>5, <3>6, <3>9, TypePartsNext DEF IInv
  <2>2. ASSUME GoesOn(mexit), mexit \notin BySignal, UNCHANGED <<results, changed, owed>>
        PROVE  IInv'
    <3>0. /\ mexit \subseteq {"CONF"} /\ ret' \in {ret, ret \cup mexit}
          /\ variant' \in 1..Variants /\ fs' \in 1..(Filesystems + 1)
          /\ lpc' = "arm" /\ status' = status
      BY <2>2 DEF GoesOn
    <3>1. LibTypes' /\ KidTypes'
      BY <2>0, <3>0 DEF LibTypes, KidTypes, Bits
    <3>2. FlagTypes' /\ MainTypes' /\ ResultTypes'
      BY <2>0, <2>2 DEF FlagTypes, MainTypes, ResultTypes
    <3>3. Places' /\ Attempts' /\ Cleanups' /\ Late'
      BY <2>0, <2>2, <3>0 DEF Places, Attempts, Cleanups, Late, CleanupOnce, NoRunaway,
         MainAlive
    <3>4. Accounts' /\ Reported' /\ Interrupts' /\ StatusAccounts'
      BY <2>0, <2>2, <3>0 DEF Places, Accounts, Reported, Interrupts, InterruptStops,
         StatusAccounts, InCallback
    <3> QED
      BY <3>1, <3>2, <3>3, <3>4, TypePartsNext DEF IInv
  <2>3. CASE Report("FAIL") /\ owed' = owed \cup {"FAIL"} /\ NextRun({"FAIL"})
    <3>1. ~ GoesOn({"FAIL"}) /\ {"FAIL"} \in SUBSET Bits
      BY DEF GoesOn, Bits
    <3>2. PICK q \in SUBSET Bits : {"FAIL"} \subseteq q /\ Exits(q)
      BY <2>3, <3>1, NextRunEnds
    <3>3. results' = results \cup {"FAIL"} /\ changed' = (changed \/ "FAIL" # "WARN")
      BY <2>3 DEF Report
    <3> QED
      BY <2>1, <2>3, <3>2, <3>3
  <2>4. CASE mexit \notin BySignal /\ UNCHANGED <<shared, owed>> /\ NextRun(mexit)
    <3>1. mexit \in SUBSET Bits
      BY <2>4, CodeTypes DEF MainTypes, BySignal
    <3>2. GoesOn(mexit) \/ \E q \in SUBSET Bits : mexit \subseteq q /\ Exits(q)
      BY <2>4, <3>1, NextRunEnds
    <3>3. UNCHANGED <<results, changed, owed>>
      BY <2>4 DEF shared
    <3>4. CASE GoesOn(mexit)
      BY <2>2, <2>4, <3>3, <3>4
    <3>5. ASSUME NEW q \in SUBSET Bits, mexit \subseteq q, Exits(q) PROVE IInv'
      BY <2>1, <2>4, <3>3, <3>5 DEF FlagTypes
    <3> QED
      BY <3>2, <3>4, <3>5
  <2>5. CASE Report("BROK") /\ owed' = owed \cup {"BROK"} /\ DoExit({"BROK"})
    <3>1. Exits({"BROK"}) /\ {"BROK"} \in SUBSET Bits
      BY <2>5 DEF DoExit, Exits, Bits
    <3>2. results' = results \cup {"BROK"} /\ changed' = (changed \/ "BROK" # "WARN")
      BY <2>5 DEF Report
    <3> QED
      BY <2>1, <2>5, <3>1, <3>2
  <2> QED
    BY <1>6, <2>3, <2>4, <2>5 DEF Verdict, BySignal
<1>7. ASSUME Interrupt PROVE IInv'
  <2>1. CASE Missed
    <3>0. /\ intr' = (IF mpc \in {"none", "forked", "zombie"} THEN "lost" ELSE "sent")
          /\ mpc = "forked" \/ mpc \in {"none", "zombie"} \/ stuck
          /\ UNCHANGED <<mpc, mexit, owed>>
          /\ lpc \in {"fork", "wait"} /\ intr = "none"
          /\ UNCHANGED <<lpc, ret, variant, fs, alarm, timeout, sigkill_retries, status>>
          /\ UNCHANGED <<iteration, test, stuck, beat, results, changed, cleanups, late>>
          /\ KidTypes'
      BY <1>7, <2>1, KillTestHits DEF Missed, Interrupt, lib, main, kids, shared, history
    <3>1. LibTypes' /\ KidTypes'
      BY <2>1, <3>0, CountsAssumption, CodeTypes DEF LibTypes, KidTypes, Ended
    <3>2. FlagTypes'
      BY <2>1, <3>0 DEF FlagTypes
    <3>3. MainTypes'
      BY <2>1, <3>0, CountsAssumption, CodeTypes DEF MainTypes, InCallback
    <3>4. ResultTypes'
      BY <2>1, <3>0 DEF ResultTypes, Types, Bits
    <3>5. Places' /\ Attempts' /\ Cleanups' /\ Late'
      BY <2>1, <3>0, CountsAssumption DEF TypeOK, Places, Attempts, Cleanups, Late,
         CleanupOnce, NoRunaway, MainAlive, InCallback, Ended, Early, BeforeCleanup,
         BySignal, Killed, Crashed, Bits, Types
    <3>6. Accounts' /\ Reported' /\ Interrupts' /\ StatusAccounts'
      BY <2>1, <3>0, CountsAssumption DEF TypeOK, Places, Accounts, Reported, Interrupts,
         InterruptStops, StatusAccounts, InCallback, Ended, Early, BeforeCleanup, BySignal,
         Killed, Crashed, Bits, Types
    <3> QED
      BY <3>1, <3>2, <3>3, <3>4, <3>5, <3>6, TypePartsNext DEF IInv
  <2>2. CASE ~ Missed
    <3>0. /\ intr' = "sent"
          /\ mpc \notin {"none", "forked", "zombie"} /\ ~ stuck
          /\ mpc' = "zombie" /\ mexit' = Killed /\ owed' = owed \cup {"died"}
          /\ lpc \in {"fork", "wait"} /\ intr = "none"
          /\ UNCHANGED <<lpc, ret, variant, fs, alarm, timeout, sigkill_retries, status>>
          /\ UNCHANGED <<iteration, test, stuck, beat, results, changed, cleanups, late>>
          /\ KidTypes'
      BY <1>7, <2>2, KillTestHits DEF Missed, Interrupt, lib, main, kids, shared, history
    <3>1. LibTypes' /\ KidTypes'
      BY <2>2, <3>0, CountsAssumption, CodeTypes DEF LibTypes, KidTypes, Ended
    <3>2. FlagTypes'
      BY <2>2, <3>0 DEF FlagTypes
    <3>3. MainTypes'
      BY <2>2, <3>0, CountsAssumption, CodeTypes DEF MainTypes, InCallback
    <3>4. ResultTypes'
      BY <2>2, <3>0 DEF ResultTypes, Types, Bits
    <3>5. Places' /\ Attempts' /\ Cleanups' /\ Late'
      BY <2>2, <3>0, CountsAssumption DEF TypeOK, Places, Attempts, Cleanups, Late,
         CleanupOnce, NoRunaway, MainAlive, InCallback, Ended, Early, BeforeCleanup,
         BySignal, Killed, Crashed, Bits, Types
    <3>6. Accounts' /\ Reported' /\ Interrupts' /\ StatusAccounts'
      BY <2>2, <3>0, CountsAssumption DEF TypeOK, Places, Accounts, Reported, Interrupts,
         InterruptStops, StatusAccounts, InCallback, Ended, Early, BeforeCleanup, BySignal,
         Killed, Crashed, Bits, Types
    <3> QED
      BY <3>1, <3>2, <3>3, <3>4, <3>5, <3>6, TypePartsNext DEF IInv
  <2> QED
    BY <2>1, <2>2
<1>8. ASSUME LibDies PROVE IInv'
  <2>0. /\ lpc' = "dead" /\ alarm' = FALSE /\ lpc \notin Ended
        /\ UNCHANGED <<ret, variant, fs, timeout, sigkill_retries, status>>
        /\ UNCHANGED <<mpc, mexit, iteration, test, stuck, beat, kst, kexit, mine>>
        /\ UNCHANGED <<results, changed, owed, cleanups, late, intr>>
    BY <1>8 DEF LibDies, lib, main, kids, shared, history
  <2>1. LibTypes' /\ KidTypes'
    BY <2>0, CountsAssumption, CodeTypes DEF LibTypes, KidTypes, Ended
  <2>2. FlagTypes'
    BY <2>0 DEF FlagTypes
  <2>3. MainTypes'
    BY <2>0, CountsAssumption, CodeTypes DEF MainTypes, InCallback
  <2>4. ResultTypes'
    BY <2>0 DEF ResultTypes, Types, Bits
  <2>5. Places' /\ Attempts' /\ Cleanups' /\ Late'
    BY <2>0, CountsAssumption DEF TypeOK, Places, Attempts, Cleanups, Late, CleanupOnce,
       NoRunaway, MainAlive, InCallback, Ended, Early, BeforeCleanup, BySignal, Killed,
       Crashed, Bits, Types
  <2>6. Accounts' /\ Reported' /\ Interrupts' /\ StatusAccounts'
    BY <2>0, CountsAssumption DEF TypeOK, Places, Accounts, Reported, Interrupts,
       InterruptStops, StatusAccounts, InCallback, Ended, Early, BeforeCleanup, BySignal,
       Killed, Crashed, Bits, Types
  <2> QED
    BY <2>1, <2>2, <2>3, <2>4, <2>5, <2>6, TypePartsNext DEF IInv
<1>9. ASSUME DoCleanup PROVE IInv'
  <2>0. /\ lpc = "exiting"
        /\ UNCHANGED <<alarm, timeout, sigkill_retries, mpc, mexit, iteration, test>>
        /\ UNCHANGED <<stuck, beat, kst, kexit, mine, cleanups, intr, late>>
        /\ UNCHANGED <<ret, variant, fs>>
        /\ lpc' \in {"exiting", "exited"}
    BY <1>9 DEF DoCleanup, DoExit, main, kids
  <2>1. \/ /\ results' = results \cup {"WARN"} /\ changed' = changed
           /\ UNCHANGED <<status, owed>>
        \/ /\ results' = results \cup {"BROK"} /\ changed' = TRUE
           /\ owed' = owed \cup {"BROK"} /\ status' = ExitValue({"BROK"})
        \/ UNCHANGED <<status, results, changed, owed>>
    BY <1>9 DEF DoCleanup, DoExit, Report, shared, FlagTypes
  <2>2. ResultTypes'
    BY <2>0, <2>1 DEF ResultTypes, Types, Bits
  <2>3. status' \subseteq Bits
    BY <2>1, <2>2, ExitValueAccounts DEF LibTypes, Bits
  <2>4. LibTypes' /\ KidTypes'
    BY <2>0, <2>3 DEF LibTypes, KidTypes, Ended
  <2>5. FlagTypes' /\ MainTypes'
    BY <2>0, <2>1 DEF FlagTypes, MainTypes
  <2>6. Places' /\ Attempts' /\ Cleanups' /\ Late'
    BY <2>0 DEF Places, Attempts, Cleanups, Late, CleanupOnce, NoRunaway, MainAlive
  <2>7. Accounts' /\ Reported' /\ Interrupts'
    <3>1. mpc = "none"
      BY <2>0 DEF Places
    <3>2. owed' \ {"died"} \subseteq results' /\ ("died" \in owed' <=> "died" \in owed)
      BY <2>1 DEF Accounts
    <3>3. (results # {} => results' # {}) /\ (changed' => results' # {})
      <4>1. \/ "WARN" \in results' \/ "BROK" \in results'
            \/ results' = results /\ (changed' => changed)
        BY <2>1
      <4>2. "WARN" \in results' \/ "BROK" \in results' => results' # {}
        OBVIOUS
      <4> QED
        BY <4>1, <4>2 DEF Reported
    <3>4. Accounts'
      BY <2>0, <3>1, <3>2 DEF Accounts
    <3>5. Reported'
      BY <2>0, <3>1, <3>3 DEF Reported
    <3>6. Interrupts'
      BY <2>0, <3>2 DEF Interrupts, InterruptStops
    <3> QED
      BY <3>4, <3>5, <3>6
  <2>8. StatusAccounts'
    <3>1. CASE UNCHANGED <<status, owed>> /\ results \subseteq results'
      BY <2>0, <3>1 DEF StatusAccounts
    <3>2. CASE /\ results' = results \cup {"BROK"}
               /\ owed' = owed \cup {"BROK"} /\ status' = ExitValue({"BROK"})
      <4>1. /\ results' \cap {"FAIL", "BROK", "WARN"} \subseteq status'
            /\ "CONF" \in results' /\ "PASS" \notin results' => "CONF" \in status'
            /\ "BROK" \in status'
        BY <2>2, <3>2, ExitValueAccounts DEF Bits
      <4>2. owed' \ {"died"} \subseteq results'
        BY <2>7 DEF Accounts
      <4> QED
        BY <4>1, <4>2 DEF StatusAccounts
    <3> QED
      BY <2>1, <3>1, <3>2
  <2> QED
    BY <2>2, <2>4, <2>5, <2>6, <2>7, <2>8, TypePartsNext DEF IInv
<1> QED
  BY <1>1, <1>2, <1>3, <1>4, <1>5, <1>6, <1>7, <1>8, <1>9 DEF LibStep

\* The invariant holds when tst_run_tcases() begins.
LEMMA InitIInv == Init => IInv
<1> SUFFICES ASSUME Init PROVE IInv
  OBVIOUS
<1>0. LibTypes
  BY CountsAssumption, SMTT(30) DEF Init, LibTypes
<1>1. FlagTypes
  BY DEF Init, FlagTypes
<1>2. MainTypes /\ KidTypes /\ ResultTypes
  BY CountsAssumption, CodeTypes, SMTT(30) DEF Init, MainTypes, KidTypes, ResultTypes
<1>3. Places /\ Attempts /\ Cleanups /\ Late
  BY CountsAssumption, SMTT(30) DEF Init, Places, Attempts, Cleanups, Late, CleanupOnce, NoRunaway,
     MainAlive, InCallback, Early, BeforeCleanup
<1>4. Accounts /\ Reported /\ Interrupts /\ StatusAccounts
  BY DEF Init, Accounts, Reported, Interrupts, InterruptStops, StatusAccounts
<1> QED
  BY <1>0, <1>1, <1>2, <1>3, <1>4, TypeParts DEF IInv

\* Every step preserves the invariant.
LEMMA NextIInv == IInv /\ [Next]_vars => IInv'
<1> SUFFICES ASSUME IInv, [Next]_vars PROVE IInv'
  OBVIOUS
<1>1. CASE MainStep
  BY <1>1, MainKeeps
<1>2. CASE KidStep
  BY <1>2, KidKeeps
<1>3. CASE LibStep \/ Interrupt \/ LibDies
  BY <1>3, LibKeeps
<1>4. CASE UNCHANGED vars
  <2>1. /\ UNCHANGED <<lpc, ret, variant, fs, alarm, timeout, sigkill_retries, status>>
        /\ UNCHANGED <<mpc, mexit, iteration, test, stuck, beat, kst, kexit, mine>>
        /\ UNCHANGED <<results, changed, owed, cleanups, late, intr>>
    BY <1>4 DEF vars, lib, main, kids, shared, history
  <2>2. TypeOK'
    BY <2>1, SMTT(30) DEF IInv, TypeOK
  <2>3. Places' /\ Attempts' /\ Cleanups' /\ Late'
    BY <2>1 DEF IInv, Places, Attempts, Cleanups, Late, CleanupOnce, NoRunaway, MainAlive
  <2>4. Accounts' /\ Reported' /\ Interrupts' /\ StatusAccounts'
    BY <2>1 DEF IInv, Accounts, Reported, Interrupts, InterruptStops, StatusAccounts
  <2> QED
    BY <2>2, <2>3, <2>4 DEF IInv
<1> QED
  BY <1>1, <1>2, <1>3, <1>4 DEF Next

----------------------------------------------------------------------------
(* Theorems.                                                                 *)

\* The invariant holds throughout.
THEOREM Invariance == Spec => []IInv
BY InitIInv, NextIInv, PTL DEF Spec

\* Types: among others, the library sends no more than MaxRetries + 1 SIGKILLs between
\* two heartbeats (alarm_handler, tst_test.c:1230-1242).
THEOREM TypeCorrect == Spec => []TypeOK
<1>1. IInv => TypeOK
  BY DEF IInv
<1> QED
  BY <1>1, Invariance, PTL

\* The exit value of do_exit() (717-748) accounts for every result that is owed, all but
\* the warnings of the library's own do_cleanup() (745), and for a main test process
\* that died, and is zero only if something has passed.
THEOREM ExitAccounts == Spec => []StatusAccounts
<1>1. IInv => StatusAccounts
  BY DEF IInv
<1> QED
  BY <1>1, Invariance, PTL

\* cleanup() runs exactly once in a main test process that ends by itself (312-337).
THEOREM CleansUpOnce == Spec => []CleanupOnce
<1>1. IInv => CleanupOnce
  BY DEF IInv, Cleanups
<1> QED
  BY <1>1, Invariance, PTL

\* A SIGINT that reaches the group of the test is the end of the runner (1250-1256).
THEOREM Interruptible == Spec => []InterruptStops
<1>1. IInv => InterruptStops
  BY DEF IInv, Interrupts
<1> QED
  BY <1>1, Invariance, PTL

\* A test whose library process has died begins at most one more iteration (1171-1179).
THEOREM NoOrphanedLoop == Spec => []NoRunaway
<1>1. IInv => NoRunaway
  BY DEF IInv, Late
<1> QED
  BY <1>1, Invariance, PTL

\* Giving up takes more attempts than one process can be missed.
LEMMA GivesUpStep ==
    ASSUME MaxRetries >= 2, IInv, GivesUpOnlyIfStuck, [Next]_vars
    PROVE  GivesUpOnlyIfStuck'
<1>1. TypeOK /\ Places /\ Attempts /\ FlagTypes
  BY TypeParts DEF IInv
<1>2. CASE lpc' = lpc /\ (stuck => stuck')
  BY <1>2 DEF GivesUpOnlyIfStuck
<1>3. CASE lpc' # "unclean"
  BY <1>3 DEF GivesUpOnlyIfStuck
<1>4. CASE HandleAlarm
  <2>1. /\ lpc = "wait" /\ stuck' = stuck /\ sigkill_retries' = sigkill_retries + 1
        /\ mpc \in {"forked", "zombie"} => sigkill_retries = 0
        /\ sigkill_retries' <= MaxRetries => lpc' = lpc
    BY <1>1, <1>4, CountsAssumption, SMTT(30) DEF HandleAlarm, TypeOK
  <2>2. mpc # "none" /\ sigkill_retries \in Nat /\ (mpc = "zombie" \/ MainAlive)
    BY <1>1, <2>1, SMTT(30) DEF Places, TypeOK, MainAlive
  <2>3. ~ stuck => sigkill_retries <= 1
    BY <1>1, <2>1, <2>2, SMTT(30) DEF Attempts, Places, TypeOK, MainAlive
  <2>4. ~ stuck => lpc' = lpc
    BY <1>1, <2>1, <2>2, <2>3, CountsAssumption, SMTT(30) DEF TypeOK
  <2> QED
    BY <2>1, <2>4 DEF GivesUpOnlyIfStuck
<1>5. ASSUME MainStep \/ KidStep \/ Interrupt PROVE lpc' = lpc /\ (stuck => stuck')
  <2>1. ASSUME MainStep PROVE lpc' = lpc /\ (stuck => stuck')
    <3>1. ASSUME MainBegin \/ SetupReturns \/ MainBeat
          PROVE  lpc' = lpc /\ stuck' = stuck
      BY <3>1 DEF MainBegin, SetupReturns, MainBeat, lib
    <3>2. ASSUME SetTimeout PROVE lpc' = lpc /\ stuck' = stuck
      BY <3>2 DEF SetTimeout
    <3>3. ASSUME NEW t, MainReport(t) \/ MainBrk(t) PROVE lpc' = lpc /\ stuck' = stuck
      BY <3>3 DEF MainReport, MainBrk, lib, main
    <3>4. ASSUME NEW k, MainFork(k) \/ ReapChild(k) PROVE lpc' = lpc /\ stuck' = stuck
      BY <3>4 DEF MainFork, ReapChild, lib, main
    <3>5. ASSUME TestReturns \/ ReapedAll \/ CleanupReturns \/ MainCrash
          PROVE  lpc' = lpc /\ stuck' = stuck
      BY <3>5 DEF TestReturns, ReapedAll, CleanupReturns, MainCrash, lib
    <3>6. ASSUME MainStuck PROVE lpc' = lpc /\ stuck'
      BY <3>6 DEF MainStuck, lib
    <3> QED
      BY <2>1, <3>1, <3>2, <3>3, <3>4, <3>5, <3>6, SMTT(30) DEF MainStep
  <2>2. ASSUME KidStep PROVE lpc' = lpc /\ (stuck => stuck')
    <3>1. ASSUME NEW k, NEW t, KidReport(k, t) PROVE lpc' = lpc /\ stuck' = stuck
      BY <3>1 DEF KidReport, lib, main
    <3>2. ASSUME NEW k, NEW code, KidEnd(k, code) PROVE lpc' = lpc /\ stuck' = stuck
      BY <3>2 DEF KidEnd, lib, main
    <3>3. ASSUME NEW k, KidSetTimeout(k) PROVE lpc' = lpc /\ stuck' = stuck
      BY <3>3 DEF KidSetTimeout
    <3> QED
      BY <2>2, <3>1, <3>2, <3>3 DEF KidStep, KidBrk, KidExit
  <2>3. ASSUME Interrupt PROVE lpc' = lpc /\ (stuck => stuck')
    BY <2>3 DEF Interrupt, lib
  <2> QED
    BY <1>5, <2>1, <2>2, <2>3
<1>6. ASSUME Arm \/ Fork \/ Collect \/ LibDies PROVE lpc' # "unclean"
  BY <1>6 DEF Arm, Fork, Collect, LibDies
<1>7. ASSUME HandleBeat PROVE lpc' = lpc /\ stuck' = stuck
  BY <1>7 DEF HandleBeat, main
<1>8. ASSUME Verdict PROVE lpc' # "unclean"
  BY <1>8 DEF Verdict, NextRun, NextVariant, DoExit
<1>9. ASSUME DoCleanup PROVE lpc' # "unclean"
  BY <1>9 DEF DoCleanup, DoExit
<1>10. ASSUME UNCHANGED vars PROVE lpc' = lpc /\ stuck' = stuck
  BY <1>10 DEF vars, lib, main
<1> QED
  BY <1>2, <1>3, <1>4, <1>5, <1>6, <1>7, <1>8, <1>9, <1>10 DEF Next, LibStep

\* With two attempts or more (ten in the code, 1232-1241) the library gives up only on
\* a main test process that SIGKILL does not end.  A process may be missed once, before
\* it has called setpgid(): one attempt is not enough.
THEOREM GivesUpRightly ==
    ASSUME MaxRetries >= 2 PROVE Spec => []GivesUpOnlyIfStuck
<1>1. Init => GivesUpOnlyIfStuck
  BY DEF Init, GivesUpOnlyIfStuck
<1>2. IInv /\ GivesUpOnlyIfStuck /\ [Next]_vars => GivesUpOnlyIfStuck'
  BY GivesUpStep
<1> QED
  BY <1>1, <1>2, Invariance, PTL DEF Spec
============================================================================
