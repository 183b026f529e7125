------------------------------ MODULE TstTest ------------------------------
(***************************************************************************)
(* The runner of the test library (src/lib/tst_test.c).  The library        *)
(* process forks a main test process for every variant (and every           *)
(* filesystem), which leads a process group of its own, runs the test's     *)
(* callbacks and may fork children.  All of them report results into a page *)
(* of shared memory.  A timer in the library process, pushed back by the    *)
(* heartbeats (SIGUSR1) of the main test process, kills the group.          *)
(*                                                                          *)
(* The counters of struct results are only compared with zero and with      *)
(* their own earlier values, and only grow.  So the model keeps the set of  *)
(* the non-zero ones, and whether one has changed since run_tests() saved   *)
(* them.  An exit value is the set of its TFAIL, TBROK, TWARN, TCONF bits.  *)
(***************************************************************************)
EXTENDS Integers, FiniteSets

CONSTANTS
    Kids,           \* the children the test may fork, each at most once
    Variants,       \* tst_test->test_variants
    Filesystems,    \* filesystems to test on; 0 without .all_filesystems
    Iterations,     \* the -i option
    Tcnt,           \* tst_test->tcnt, 1 for test_all()
    MaxRetries,     \* SIGKILLs before the library gives up: 10 in the code
    Timeout,        \* is .timeout something else than -1?
    TaintCheck,     \* is .taint_check set?
    MayDie          \* may the library process be killed from outside?

ASSUME CountsAssumption ==
    /\ IsFiniteSet(Kids)
    /\ Variants \in Nat \ {0} /\ Filesystems \in Nat
    /\ Iterations \in Nat /\ Tcnt \in Nat \ {0} /\ MaxRetries \in Nat
ASSUME FlagsAssumption ==
    Timeout \in BOOLEAN /\ TaintCheck \in BOOLEAN /\ MayDie \in BOOLEAN

Bits == {"FAIL", "BROK", "WARN", "CONF"}
Types == Bits \cup {"PASS"}
BrkTypes == {"BROK", "CONF", "FAIL"}    \* what tst_brk() accepts
Killed == {"killed"}                    \* ended by SIGKILL ...
Crashed == {"crashed"}                  \* ... or by another signal
Codes == (SUBSET Bits) \cup {Killed, Crashed}

VARIABLES
    lpc, ret, variant, fs, alarm, timeout, sigkill_retries, status,
                    \* the library process; timeout is results->timeout # 0
    mpc, mexit, iteration, test, stuck,
                    \* the main test process; stuck: SIGKILL has no effect yet
    beat,           \* a heartbeat is pending for the library process
    kst, kexit, mine, \* the children; mine: the parent is the current main
    results, changed, \* the shared results
    owed,           \* history: what the runner must account for
    cleanups,       \* history: runs of cleanup() in this main test process
    late,           \* history: runs begun after the library process had died
    intr            \* SIGINT: "none", "lost", or "sent" to the test's group

lib == <<lpc, ret, variant, fs, alarm, timeout, sigkill_retries, status>>
main == <<mpc, mexit, iteration, test, stuck>>
kids == <<kst, kexit, mine>>
shared == <<results, changed>>
history == <<owed, cleanups, late, intr>>
vars == <<lib, main, beat, kids, shared, history>>

Ended == {"exited", "unclean", "dead"}
InCallback == {"setup", "run", "cleanup"}
MainAlive == mpc \notin {"none", "zombie"}

TypeOK ==
    /\ lpc \in {"arm", "fork", "wait", "collect", "exiting"} \cup Ended
    /\ ret \subseteq Bits /\ status \subseteq Bits
    /\ variant \in 1..Variants /\ fs \in 1..(Filesystems + 1)
    /\ alarm \in BOOLEAN /\ timeout \in BOOLEAN
    /\ sigkill_retries \in 0..(MaxRetries + 1)
    /\ mpc \in {"none", "forked", "reap", "beat", "zombie"} \cup InCallback
    /\ mexit \in Codes /\ iteration \in 0..Iterations /\ test \in 0..Tcnt
    /\ stuck \in BOOLEAN /\ beat \in BOOLEAN
    /\ kst \in [Kids -> {"none", "running", "zombie", "gone"}]
    /\ kexit \in [Kids -> Codes] /\ mine \in [Kids -> BOOLEAN]
    /\ results \subseteq Types /\ changed \in BOOLEAN
    /\ owed \subseteq Types \cup {"died"} /\ cleanups \in Nat
    /\ late \in Nat /\ intr \in {"none", "lost", "sent"}

Init ==
    /\ lpc = "arm" /\ ret = {} /\ variant = 1 /\ fs = 1
    /\ alarm = FALSE /\ timeout = FALSE /\ sigkill_retries = 0 /\ status = {}
    /\ mpc = "none" /\ mexit = {} /\ iteration = 0 /\ test = 0 /\ stuck = FALSE
    /\ beat = FALSE
    /\ kst = [k \in Kids |-> "none"] /\ kexit = [k \in Kids |-> {}]
    /\ mine = [k \in Kids |-> FALSE]
    /\ results = {} /\ changed = FALSE
    /\ owed = {} /\ cleanups = 0 /\ late = 0 /\ intr = "none"

\* update_results(); TWARN is no part of what results_equal() compares.
Report(t) ==
    /\ results' = results \cup {t}
    /\ changed' = (changed \/ t # "WARN")

----------------------------------------------------------------------------
(* The main test process.  A callback is a sequence of calls of the library  *)
(* in any order, and may fail to return.                                     *)

\* SIGKILL for the children of the current main test process, or of earlier ones.
KillKids(current) ==
    LET hit == {k \in Kids : mine[k] = current /\ kst[k] = "running"}
    IN  /\ kst' = [k \in Kids |-> IF k \in hit THEN "zombie" ELSE kst[k]]
        /\ kexit' = [k \in Kids |-> IF k \in hit THEN Killed ELSE kexit[k]]
        /\ UNCHANGED mine

KillGroup == KillKids(TRUE)

\* The next test function, for which run_tests() saves the results.
BeginTest(n) ==
    /\ test' = n
    /\ changed' = FALSE
    /\ mpc' = "run"

BeginCleanup(code) ==
    /\ mpc' = "cleanup"
    /\ mexit' = code
    /\ cleanups' = cleanups + 1

NextIterationOneMore ==     \* mutant: one iteration too many
    IF iteration <= Iterations
    THEN /\ iteration' = iteration + 1
         /\ BeginTest(1)
         /\ late' = IF lpc = "dead" THEN late + 1 ELSE late
         /\ UNCHANGED <<mexit, cleanups, results>>
    ELSE BeginCleanup({}) /\ UNCHANGED <<iteration, test, late, shared>>

\* The loop of testrun(): another iteration, or the end.
NextIteration ==
    IF iteration < Iterations
    THEN /\ iteration' = iteration + 1
         /\ BeginTest(1)
         /\ late' = IF lpc = "dead" THEN late + 1 ELSE late
         /\ UNCHANGED <<mexit, cleanups, results>>
    ELSE BeginCleanup({}) /\ UNCHANGED <<iteration, test, late, shared>>

HeartbeatBlind(step) ==     \* mutant: getppid() is not looked at
    beat' = TRUE /\ UNCHANGED kids /\ step

\* heartbeat(), followed by what step does if the library process is there.
\* Otherwise the main test process takes its group down.
Heartbeat(step) ==
    IF lpc = "dead"
    THEN /\ Report("FAIL") /\ KillGroup
         /\ mpc' = "zombie" /\ mexit' = Killed
         /\ UNCHANGED <<iteration, test, beat, cleanups, late>>
    ELSE beat' = TRUE /\ UNCHANGED kids /\ step

\* fork_testrun() and testrun() up to the call of setup().
MainBegin ==
    /\ mpc = "forked"
    /\ Heartbeat(mpc' = "setup" /\ UNCHANGED <<mexit, iteration, test, shared, cleanups, late>>)
    /\ UNCHANGED <<lib, stuck, owed, intr>>

SetupReturns ==
    /\ mpc = "setup" /\ ~ stuck
    /\ NextIteration
    /\ UNCHANGED <<lib, stuck, beat, kids, owed, intr>>

\* tst_set_timeout(n) in a callback.  tst_set_timeout(-1) changes nothing: a timer
\* that runs goes on.
SetTimeout ==
    /\ mpc \in InCallback /\ ~ stuck
    /\ timeout' = TRUE
    /\ Heartbeat(UNCHANGED <<mpc, mexit, iteration, test, shared, cleanups, late>>)
    /\ UNCHANGED <<lpc, ret, variant, fs, alarm, sigkill_retries, status, stuck, owed,
                   intr>>

\* tst_res()
MainReport(t) ==
    /\ mpc \in InCallback /\ ~ stuck
    /\ Report(t)
    /\ owed' = owed \cup {t}
    /\ UNCHANGED <<lib, main, beat, kids, cleanups, intr, late>>

MainBrkAgain(t) ==          \* mutant: cleanup() runs with the usual tst_brk()
    /\ mpc \in InCallback /\ ~ stuck
    /\ Report(t) /\ owed' = owed \cup {t}
    /\ BeginCleanup({t})
    /\ UNCHANGED <<lib, iteration, test, stuck, beat, kids, intr, late>>

\* tst_brk(): print, clean up, exit.  In cleanup() it is tst_cvres() instead.
MainBrk(t) ==
    /\ mpc \in InCallback /\ ~ stuck
    /\ LET u == IF mpc = "cleanup" /\ t = "BROK" THEN "WARN" ELSE t
       IN Report(u) /\ owed' = owed \cup {u}
    /\ IF mpc = "cleanup" THEN UNCHANGED <<mpc, mexit, cleanups>> ELSE BeginCleanup({t})
    /\ UNCHANGED <<lib, iteration, test, stuck, beat, kids, intr, late>>

MainFork(k) ==
    /\ mpc \in {"setup", "run"} /\ ~ stuck
    /\ kst[k] = "none"
    /\ kst' = [kst EXCEPT ![k] = "running"]
    /\ mine' = [mine EXCEPT ![k] = TRUE]
    /\ UNCHANGED <<lib, main, beat, kexit, shared, history>>

TestReturns ==
    /\ mpc = "run" /\ ~ stuck
    /\ mpc' = "reap"
    /\ UNCHANGED <<lib, mexit, iteration, test, stuck, beat, kids, shared, history>>

\* The library's own tst_brk(TBROK) in the main test process.
Broken == Report("BROK") /\ owed' = owed \cup {"BROK"} /\ BeginCleanup({"BROK"})

\* tst_reap_children(): check_child_status() of a child.
ReapChild(k) ==
    /\ mpc = "reap"
    /\ mine[k] /\ kst[k] = "zombie"
    /\ kst' = [kst EXCEPT ![k] = "gone"]
    /\ IF kexit[k] \in {{}, {"BROK"}, {"CONF"}}
       THEN UNCHANGED <<mpc, mexit, cleanups, shared, owed>> ELSE Broken
    /\ UNCHANGED <<lib, iteration, test, stuck, beat, kexit, mine, intr, late>>

\* No child is left: on to the next test function, unless this one has not
\* reported any result.
ReapedAll ==
    /\ mpc = "reap"
    /\ \A k \in Kids : mine[k] => kst[k] \notin {"running", "zombie"}
    /\ IF ~ changed THEN Broken /\ UNCHANGED test
       ELSE /\ IF test < Tcnt THEN BeginTest(test + 1)
               ELSE mpc' = "beat" /\ UNCHANGED <<test, changed>>
            /\ UNCHANGED <<mexit, cleanups, results, owed>>
    /\ UNCHANGED <<lib, iteration, stuck, beat, kids, intr, late>>

MainBeat ==
    /\ mpc = "beat"
    /\ Heartbeat(NextIteration)
    /\ UNCHANGED <<lib, stuck, owed, intr>>

CleanupReturns ==
    /\ mpc = "cleanup" /\ ~ stuck
    /\ mpc' = "zombie"
    /\ UNCHANGED <<lib, mexit, iteration, test, stuck, beat, kids, shared, history>>

\* A callback crashes, or gets stuck in the kernel.
MainCrash ==
    /\ mpc \in InCallback /\ ~ stuck
    /\ mpc' = "zombie" /\ mexit' = Crashed
    /\ owed' = owed \cup {"died"}
    /\ UNCHANGED <<lib, iteration, test, stuck, beat, kids, shared, cleanups, intr, late>>

MainStuck ==
    /\ mpc \in InCallback /\ ~ stuck
    /\ stuck' = TRUE
    /\ UNCHANGED <<lib, mpc, mexit, iteration, test, beat, kids, shared, history>>

----------------------------------------------------------------------------
(* The children of the test.                                                 *)

\* Only a child whose parent is there is waited for.
Noted(k, t) == owed' = IF mine[k] /\ MainAlive THEN owed \cup {t} ELSE owed

KidReport(k, t) ==
    /\ kst[k] = "running"
    /\ Report(t) /\ Noted(k, t)
    /\ UNCHANGED <<lib, main, beat, kids, cleanups, intr, late>>

KidEnd(k, code) ==
    /\ kst[k] = "running"
    /\ kst' = [kst EXCEPT ![k] = "zombie"]
    /\ kexit' = [kexit EXCEPT ![k] = code]
    /\ UNCHANGED <<lib, main, beat, mine, cleanups, intr, late>>

\* tst_brk() in a child neither cleans up nor ends another process.
KidBrk(k, t) == KidEnd(k, {t}) /\ Report(t) /\ Noted(k, t)

\* exit(0), or a signal.
KidExit(k) == \E code \in {{}, Crashed} : KidEnd(k, code) /\ UNCHANGED <<shared, owed>>

\* tst_set_timeout(n) in a child: the SIGUSR1 of its heartbeat() goes to the
\* main test process, which has no handler for it.  Once that has ended, the
\* child takes the group down (children of earlier runs are told apart from
\* those of the current one, not from each other).
KidSetTimeout(k) ==
    /\ kst[k] = "running"
    /\ timeout' = TRUE
    /\ IF mine[k] /\ MainAlive
       THEN /\ IF stuck THEN UNCHANGED <<mpc, mexit, owed>>
               ELSE mpc' = "zombie" /\ mexit' = Crashed /\ owed' = owed \cup {"died"}
            /\ UNCHANGED <<kids, shared>>
       ELSE /\ Report("FAIL") /\ KillKids(mine[k])
            /\ UNCHANGED <<mpc, mexit, owed>>
    /\ UNCHANGED <<lpc, ret, variant, fs, alarm, sigkill_retries, status, iteration, test,
                   stuck, beat, cleanups, intr, late>>

----------------------------------------------------------------------------
(* The library process.                                                      *)

\* fork_testrun(): tst_set_timeout() ...
Arm ==
    /\ lpc = "arm"
    /\ timeout' = (timeout \/ Timeout)
    /\ alarm' = (alarm \/ Timeout)
    /\ lpc' = "fork"
    /\ UNCHANGED <<ret, variant, fs, sigkill_retries, status, main, beat, kids, shared,
                   history>>

\* ... and fork().  Children of an earlier run that are still there stay in
\* the group of their own main test process.
Fork ==
    /\ lpc = "fork"
    /\ lpc' = "wait"
    /\ mpc' = "forked" /\ mexit' = {} /\ iteration' = 0 /\ test' = 0
    /\ mine' = [k \in Kids |-> FALSE]
    /\ cleanups' = 0
    /\ UNCHANGED <<ret, variant, fs, alarm, timeout, sigkill_retries, status, stuck, beat,
                   kst, kexit, shared, owed, late, intr>>

HandleBeatDisarm ==         \* mutant: alarm(0)
    /\ lpc = "wait" /\ beat
    /\ alarm' = FALSE
    /\ sigkill_retries' = 0
    /\ beat' = FALSE
    /\ UNCHANGED <<lpc, ret, variant, fs, timeout, status, main, kids, shared, history>>

\* heartbeat_handler()
HandleBeat ==
    /\ lpc = "wait" /\ beat
    /\ alarm' = timeout
    /\ sigkill_retries' = 0
    /\ beat' = FALSE
    /\ UNCHANGED <<lpc, ret, variant, fs, timeout, status, main, kids, shared, history>>

\* kill(-test_pid, SIGKILL).  Before the main test process has called setpgid()
\* there is no such group.  A process that is stuck stays.
KillTest ==
    IF mpc = "forked" THEN UNCHANGED <<kids, mpc, mexit, owed>>
    ELSE /\ KillGroup
         /\ IF MainAlive /\ ~ stuck
            THEN mpc' = "zombie" /\ mexit' = Killed /\ owed' = owed \cup {"died"}
            ELSE UNCHANGED <<mpc, mexit, owed>>

HandleAlarmNoKill ==        \* mutant: the signal misses the group
    /\ lpc = "wait" /\ alarm
    /\ mpc \in {"forked", "zombie"} => sigkill_retries = 0
    /\ sigkill_retries' = sigkill_retries + 1
    /\ IF sigkill_retries' > MaxRetries THEN lpc' = "unclean" /\ status' = {"FAIL"}
       ELSE UNCHANGED <<lpc, status>>
    /\ UNCHANGED <<ret, variant, fs, alarm, timeout, main, kids, beat, shared, history>>

\* alarm_handler().  The timer then runs for five seconds, in which a new process
\* gets past setpgid() and a dead one is waited for: neither is considered to
\* take longer.
HandleAlarm ==
    /\ lpc = "wait" /\ alarm
    /\ mpc \in {"forked", "zombie"} => sigkill_retries = 0
    /\ KillTest
    /\ sigkill_retries' = sigkill_retries + 1
    /\ IF sigkill_retries' > MaxRetries THEN lpc' = "unclean" /\ status' = {"FAIL"}
       ELSE UNCHANGED <<lpc, status>>
    /\ UNCHANGED <<ret, variant, fs, alarm, timeout, iteration, test, stuck, beat, shared,
                   cleanups, intr, late>>

\* waitpid() returns, once the signals that are pending have been handled.
Collect ==
    /\ lpc = "wait" /\ mpc = "zombie" /\ ~ beat
    /\ mpc' = "none"
    /\ alarm' = FALSE
    /\ lpc' = "collect"
    /\ UNCHANGED <<ret, variant, fs, timeout, sigkill_retries, status, mexit, iteration, test,
                   stuck, beat, kids, shared, history>>

ExitValueMasked(r) ==       \* mutant: a result that passed hides the others
    IF "PASS" \in results' THEN {}
    ELSE r \cup (results' \cap {"FAIL", "WARN", "BROK", "CONF"})

\* What do_exit() makes of the results ...
ExitValue(r) ==
    (IF "PASS" \in results' /\ r = {"CONF"} THEN {} ELSE r)
        \cup (results' \cap {"FAIL", "WARN", "BROK"})
        \cup (IF "PASS" \in results' THEN {} ELSE results' \cap {"CONF"})

\* ... and keeps in a local variable while it goes on to do_cleanup().
DoExit(r) ==
    /\ status' = ExitValue(r)
    /\ lpc' = "exiting"
    /\ UNCHANGED <<ret, variant, fs>>

\* After the last filesystem: tst_run_tcases() goes on to the next variant.
NextVariant(r) ==
    IF (ret \cup r) \subseteq {"CONF"} /\ variant < Variants
    THEN /\ ret' = ret \cup r
         /\ variant' = variant + 1 /\ fs' = 1
         /\ lpc' = "arm"
         /\ UNCHANGED status
    ELSE DoExit(ret \cup r)

\* run_tcases_per_fs() goes on to the next filesystem.
NextRun(r) ==
    IF Filesystems = 0 THEN NextVariant(r)
    ELSE IF ~ (r \subseteq {"CONF"}) THEN DoExit(r)
    ELSE IF fs < Filesystems
    THEN fs' = fs + 1 /\ lpc' = "arm" /\ UNCHANGED <<ret, variant, status>>
    ELSE NextVariant(r)

VerdictGoesOn ==            \* mutant: only WIFEXITED() is looked at
    /\ lpc = "collect"
    /\ UNCHANGED <<shared, owed>>
    /\ NextRun(IF mexit \in {Killed, Crashed} THEN {} ELSE mexit)
    /\ UNCHANGED <<alarm, timeout, sigkill_retries, main, beat, kids, cleanups, intr,
                   late>>

\* How the main test process ended, and the kernel's taint flags.
Verdict ==
    /\ lpc = "collect"
    /\ \/ /\ TaintCheck
          /\ Report("FAIL") /\ owed' = owed \cup {"FAIL"}
          /\ NextRun({"FAIL"})
       \/ /\ mexit \notin {Killed, Crashed}
          /\ UNCHANGED <<shared, owed>>
          /\ NextRun(mexit)
       \/ /\ mexit \in {Killed, Crashed}
          /\ Report("BROK") /\ owed' = owed \cup {"BROK"}
          /\ DoExit({"BROK"})
    /\ UNCHANGED <<alarm, timeout, sigkill_retries, main, beat, kids, cleanups, intr,
                   late>>

\* do_cleanup() of the library process: what cannot be undone is a warning, which
\* the exit value leaves out, or, from SAFE_UMOUNT() and tst_wallclock_restore(),
\* tst_brk(TBROK), which calls do_exit() again.
DoCleanup ==
    /\ lpc = "exiting"
    /\ \/ Report("WARN") /\ UNCHANGED <<lpc, ret, variant, fs, status, owed>>
       \/ Report("BROK") /\ owed' = owed \cup {"BROK"} /\ DoExit({"BROK"})
       \/ lpc' = "exited" /\ UNCHANGED <<ret, variant, fs, status, shared, owed>>
    /\ UNCHANGED <<alarm, timeout, sigkill_retries, main, beat, kids, cleanups, intr,
                   late>>

\* SIGINT for the library process, at most once, while sigint_handler() is
\* installed: it reaches a main test process that leads its group.
Interrupt ==
    /\ lpc \in {"fork", "wait"} /\ intr = "none"
    /\ KillTest
    /\ intr' = IF mpc \in {"none", "forked", "zombie"} THEN "lost" ELSE "sent"
    /\ UNCHANGED <<lib, iteration, test, stuck, beat, shared, cleanups, late>>

\* SIGKILL, or SIGINT while its action is the default.
LibDies ==
    /\ MayDie /\ lpc \notin Ended
    /\ lpc' = "dead" /\ alarm' = FALSE
    /\ UNCHANGED <<ret, variant, fs, timeout, sigkill_retries, status, main, beat, kids,
                   shared, history>>

----------------------------------------------------------------------------
LibStep == Arm \/ Fork \/ HandleBeat \/ HandleAlarm \/ Collect \/ Verdict
           \/ DoCleanup

MainStep ==
    \/ MainBegin \/ SetupReturns \/ SetTimeout
    \/ \E t \in Types : MainReport(t)
    \/ \E t \in BrkTypes : MainBrk(t)
    \/ \E k \in Kids : MainFork(k) \/ ReapChild(k)
    \/ TestReturns \/ ReapedAll \/ MainBeat \/ CleanupReturns \/ MainCrash \/ MainStuck

KidStep ==
    \E k \in Kids :
        \/ \E t \in Types : KidReport(k, t)
        \/ \E t \in BrkTypes : KidBrk(k, t)
        \/ KidExit(k) \/ KidSetTimeout(k)

Next == LibStep \/ MainStep \/ KidStep \/ Interrupt \/ LibDies

Spec == Init /\ [][Next]_vars

(* The library process runs and its timer, when no heartbeat resets it any   *)
(* more, expires; a forked process gets to its first lines; do_cleanup() of   *)
(* the library returns, sooner or later.  A callback of the test and its      *)
(* children need not get anywhere.                                            *)
FairSpec == Spec /\ WF_vars(LibStep) /\ WF_vars(HandleAlarm) /\ WF_vars(MainBegin)

----------------------------------------------------------------------------
(* Properties.                                                               *)

\* The exit value accounts for every result that the main test process, the
\* library or a child that is waited for has reported, in any variant, on any
\* filesystem and in any order, and for a main test process that was killed or
\* crashed (do_exit, tst_test.c:717-748; fork_testrun, 1344-1365).  The exception
\* are the warnings of the library's own do_cleanup(), which come when the value
\* is settled (745); a tst_brk() there is accounted for.  An exit value of zero
\* means that something has passed: neither a test that reports nothing
\* (1119, 1134) nor one that is only skipped (720-729) ends so.  With -i 0 no test
\* function is called, and this last part does not hold.
StatusAccounts ==
    lpc \in {"exiting", "exited"} =>
        /\ owed \cap {"FAIL", "BROK", "WARN"} \subseteq status
        /\ "CONF" \in owed /\ "PASS" \notin results => "CONF" \in status
        /\ "died" \in owed => status \cap {"FAIL", "BROK"} # {}
        /\ status = {} /\ Iterations > 0 => "PASS" \in results

\* cleanup() runs once in every main test process that is not killed, however
\* it ends, and never twice (do_test_cleanup, 312-322 and 337; 1215).
CleanupOnce ==
    /\ cleanups <= 1
    /\ mpc = "zombie" /\ mexit \notin {Killed, Crashed} => cleanups = 1

\* The library gives up on a run ("likely test hit a kernel bug", 1236-1241)
\* only if SIGKILL does not end the main test process.
GivesUpOnlyIfStuck == lpc = "unclean" => stuck

\* A SIGINT that reaches the group of the test is the end of the runner, and no
\* other variant or filesystem is begun (sigint_handler, 1250-1256; the tst_brk()
\* in fork_testrun, 1355-1359).
InterruptStops == intr = "sent" => lpc \notin {"arm", "fork"}

\* When the library process has died, the next heartbeat ends the run: at most
\* one more iteration is begun (heartbeat, 1171-1179).
NoRunaway == late <= 1

\* Whatever the test does, the runner ends (alarm_handler, 1230-1242), unless
\* the test keeps sending heartbeats for ever: every one of them pushes the timer
\* back (heartbeat_handler, 1246), and so does each tst_set_timeout() (1318).
Ends == <>[] ~ beat => <>(lpc \in Ended)

============================================================================
