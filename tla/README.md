# TLA+ models of the Linux Test Project's core

This directory holds a verification development for the parts of this repository
that are concurrent or have to survive failures: the library that runs a test and
prepares what it needs, the two libraries tests use to synchronise threads and
processes, the driver that runs many tests, and the file it shares with other
drivers. The several thousand test programs themselves are about the kernel and
are not modelled.

`PROJECT.json` lists the components, the runs, the source lines behind every
definition, the hazards, the findings and the theorems. To check a run, or a proof:

    tlc -config Pan.cfg MCPan
    tlapm PanProofs.tla

## 1. The system

| Part | State | What makes it hard |
|---|---|---|
| Test runner, `src/lib/tst_test.c` | shared `results`, `test_pid`, timer, `sigkill_retries`, variant, filesystem, iteration | three kinds of processes, a timer against late heartbeats, crashes, cleanup in whichever process breaks |
| Set-up and clean-up of a test, `do_setup`/`do_cleanup`, `tst_device.c`, `tst_tmpdir.c`, `tst_sys_conf.c`, `tst_wallclock.c` | flags, loop devices, mounts, directory, saved files, clock | a failure in any step, a failure in the release, other tests on the same devices |
| Fuzzy sync, `src/include/tst_fuzzy_sync.h` | two wrapping counters, exit flag, sampling state, plain statistics fields, a thread | a barrier of atomics that wraps, plain fields protected by it, cancellation |
| Checkpoints, `src/lib/tst_checkpoint.c` | an array of futexes in shared memory | the wake may come first, EINTR, timeouts |
| Driver, `src/pan/ltp-pan.c` | slots, `num_active`, orphan list, `rec_signal`, `send_signal`, ratchet, `stop`, `go_idle`, `exit_stat` | asynchronous signals, interrupted calls, processes left behind |
| Active file, `src/pan/zoolib.c`, `src/pan/ltp-bump.c` | a file of lines, its lock, a stdio buffer per process | several writers, killed writers, stale buffers |

How they interact. `runltp` calls **ltp-pan** with a list of commands. Pan starts each
command in a process group of its own, notes it in the **active file**, and waits for it.
A command is usually a test linked with the library, which **sets up** what the test has
asked for; then the **runner** forks a main test process in yet another group and watches
it with a timer. Inside a test, **checkpoints** order processes and **fuzzy sync** makes two
threads race; both report through the runner (`tst_brk`).

The interfaces are where the modules meet. Pan's interface to a test is its exit status
and its process group, which is how `Pan` models a command. Pan's interface to the active
file is a bag of pids that changes in one step: `Zoo` implements that bag (`ZooBag`), and `Pan`
uses it. The runner's interface to fuzzy sync is `tst_brk` and `cleanup()`, which is how
`FuzzySync` models the runner. `TestSetup` treats a test run as one step, which `TstTest` details.

## 2. Modules

| Module | Models | Parameters |
|---|---|---|
| `FuzzySync` | `tst_fuzzy_sync.h` in two threads, at the grain of atomic accesses | `MaxInt` (the wrap-around), `MinSamples`, `ExecLoops`, `MaxResets`, `MaxBias`, `Breakers` |
| `PairBarrier` | what `tst_fzsync_pair_wait()` promises, in terms of calls begun and left | none |
| `Checkpoint` | `tst_checkpoint.c` with one waker and a set of waiters | `Waiters`, `NrWake`, `Rounds`, `MaxFutexes`, `MaxSignals` |
| `Pan`, `MCPan` | `ltp-pan.c`, its commands' processes, `ltp-bump`; option records and symmetry for TLC | pids, slots, commands, options, signals and bounds |
| `Zoo` | `zoolib.c` line by line, with drivers and `ltp-bump`s | `Pans`, `Bumps`, `Pids`, `Reserved`, bounds |
| `ZooBag` | what the active file promises | `Pids` |
| `TstTest` | `tst_test.c` from `tst_run_tcases()` after the set-up to `exit()` | `Kids`, `Variants`, `Filesystems`, `Iterations`, `Tcnt`, `MaxRetries`, flags |
| `TestSetup`, `MCTestSetup` | `do_setup()` and `do_cleanup()` of several tests at once; requests and symmetry for TLC | `Tests`, `Devices`, `Options`, `Filesystems`, `MaxClears`, `MaxDepth`, `MaxFaults` |
| `FuzzySyncProofs`, `CheckpointProofs`, `PanProofs`, `ZooProofs`, `ZooBagProofs`, `TstTestProofs`, `TestSetupProofs`, `TestSetupTheorems` | the proofs, section 4 | |

**FuzzySync.** `pc` says where a thread is in the library and `op` which call it is in.
`Inc`, `Full`, `Drain` and `Spin` are the atomic accesses of `pair_wait`; the loops that
count into `*spins` take an extra step (`CountSpin`), because that is a plain
read-modify-write. `Writes` and `Reads` name the plain fields a thread is about to
access, so that a data race is a state in which two such sets meet. The statistics are
not computed: whether a deviation is above its limit is a choice at each sample.
`calls` and `returns` are history variables.

**Checkpoint.** The value of the futex never changes, so `FUTEX_WAIT` always sleeps. The
kernel's queue is the set of sleepers, and a wake takes all of them (`INT_MAX`).
Timeouts are a choice (`WaitTimeout`, `Retry`).

**Pan.** One action per stretch of `main()`, `run_child()` or `check_pids()` between two
points at which a signal or another process makes a difference: the blocking calls,
the test of `rec_signal`, the propagation, and the clearing of `rec_signal`. Counters
that are only tested for zero (`stop`, `go_idle`) are Booleans. `Signal` runs the handler
between any two steps; `InterruptWait`, `InterruptRead` and `InterruptWaitpid` do so in a
blocking call, which then returns `EINTR`. The last two are switched by
`RunChildInterrupted`, because what they break is a finding, and the properties are also
worth checking without it; `StartMayFail` switches failures before the fork in the same
way. A process may ignore all signals but SIGKILL. The active file is a set of pids,
because a pid has at most one entry here. Of the lines only one thing is kept: an `ltp-bump` may
blank the line of the entry it has read when that holds another, later entry (`late`, `Blanked`);
`strayed` records the entries that were lost in this way.

**TstTest.** The counters in `results` are compared only with zero and with their own
earlier values, and only grow, so the model keeps which ones are non-zero and whether
one has changed since `run_tests()` saved them. A callback of the test is any
sequence of library calls; it may crash or get stuck so that SIGKILL has no effect.
`owed` records what the runner must account for at the end. `DoExit` settles the exit value, and
`DoCleanup` is what the runner can still see of `do_cleanup()`: warnings that come too late for the
exit value, and a `tst_brk()` from within, which computes it again. That `do_cleanup()` returns is
assumed here; how often it is entered is a property of `TestSetup` (`CleanupBounded`).

**Zoo.** A line is a pid or a blank. An operation takes the lock, searches from the start
through the stdio stream, writes at most one line and unlocks; each is an action. The
stream keeps what it has read across `rewind()`, unless the search ran into the end of
the file or was followed by a write: `buffer` is what a process would read again. A driver may be
killed at any point, which gives its lock back and leaves its lines. A seek error makes `zoo_mark()`
and `zoo_clear()` return with the lock held (`SeekError`). Pan then exits (`PanSeekFails`), except in
`check_orphans()`, which prints a message and goes on (`PanKeepsLock`); `ltp-bump` goes on to its next
tag or exits. The lock is an `fcntl()` lock, so whoever holds it gets it again.

**TestSetup.** One action per step of `do_setup()`, the run and `do_cleanup()`; every call may
fail (`Fails`), up to `MaxFaults` times. A failing `SAFE_` call is `tst_brk()`, which in the library
process is `do_exit()`, also when `do_cleanup()` itself makes the call: `depth` counts these
nested calls. `held` is what a test really has in the system, the flags are what the library
believes; a directory for whose name `tst_tmpdir()` had no memory is held as `"unnamed"`.
`stolen` is the set of tests whose device another one has cleared.
The loop devices (`loop`, `auto`) and the configuration file (`conf`) are shared.
The retries of `umount()` are one step, and `mkfs` is taken to refuse a device that is
mounted.

## 3. Runs

| Run | Checks | Result |
|---|---|---|
| `FuzzySync` | `Lockstep`, `NoDataRace`, `ExitTogether`, `FreshThreadB`, `AveragesFrozen`, refinement of `PairBarrier` (`BarrierSpec`), `Termination` | holds |
| `FuzzySyncBrk` | `BrkEnds` | violated: `tst_brk()` in thread B cancels thread B before `exit()` |
| `Checkpoint` | `WakesPrecisely`, `NoEarlyReturn`, `Meeting`, `AllMeet` | holds |
| `Pan` | `Accounting`, `NoneLeftBehind`, `ActiveFile`, `ExitStatus`, `QuiesceFirst` | holds |
| `PanHarsh` | `LiveListed`, `Termination`, with signals in `run_child()`, `ltp-bump` and commands that cannot be executed | holds |
| `PanBump` | `NoneLeftBehind` with `ltp-bump` | violated: pan exits when `ltp-bump` clears the entry first |
| `PanLost` | `SignalsPropagated` | violated: a signal in the wrong moment is not passed on |
| `PanMany` | `ExitStatus` with 256 failures | violated: the status is 0 |
| `Zoo` | `RecordedListed`, `Compact`, `OnlyStaleBumps`, refinement of `ZooBag` (`BagSpec`), `OperationsEnd` | holds |
| `TstTest` | `StatusAccounts`, `CleanupOnce`, `GivesUpOnlyIfStuck`, `InterruptStops`, `NoRunaway` | holds |
| `TstTestEnd` | `Ends` | holds |
| `TestSetup` | `LeftoversWarned`, `ReadyToRun`, `ConfRestored`, `CleanupBounded`, `OnlyRetriesSteal` | holds |

Each passing run but `PanHarsh` and `TstTestEnd` also checks the module's type invariant. The violated properties
say what the documentation says; `findings` in `PROJECT.json` quotes the lines. In each of them
the model does what the code does.

The models show more behaviour that a reader of the documentation may not expect, which has
no run of its own:

- With `RunChildInterrupted = TRUE` and two signals, `NoneLeftBehind` fails in `Pan`: a signal that
  interrupts `read()` (`ltp-pan.c:1071`) and another one in `waitpid()` (1083) make pan forget a child
  that runs, and `num_active` is decremented for it when it ends.
- With a command in `ExecFails`, `ExitStatus` fails: `run_child()` waits for the child and
  nobody counts its status (`ltp-pan.c:550`).
- After SIGINT a SIGTERM moves the ratchet to no rung (`ltp-pan.c:1473-1483`), and the groups are
  sent signal 0; the manual page has another sequence (`ltp-pan.1:47-49`).
- A checkpoint wakes every sleeper (`tst_checkpoint.c:122`), not `nr_wake` of them
  (`test-writing-guidelines.txt:876-877`); a wake with too many sleepers then fails.
- A child's exit with TBROK is accepted (`tst_test.c:380`) and the test goes on
  (`test-writing-guidelines.txt:753-756` says it ends), and after `tst_brk()` in the main test process
  nobody waits for its children (`tst_test.c:336`; the guidelines, 752-753, say somebody does).
- `tst_set_timeout(-1)` leaves a timer that runs as it is (`tst_test.c:1301`).
- An overlay that cannot be unmounted makes `do_cleanup()` call itself through `SAFE_UMOUNT()`
  without end (`tst_test.c:1081-1082`): `CleanupBounded` has to except it.
- A test that repeats `LOOP_CLR_FD` may clear a device that another test has attached since
  (`tst_device.c:194-214`): `OnlyRetriesSteal` says that this is the only way, for the first test that
  loses its device; the release of that test may then hit the device of a third one.
- When `tst_tmpdir()` has made its directory and has no memory for the name (`tst_tmpdir.c:275-279`),
  nobody removes the directory or warns: `LeftoversWarned` has to except it.
- The warnings of `do_cleanup()` come after the exit value was computed (`tst_test.c:745`):
  `StatusAccounts` has to except them.
- A driver whose `check_orphans()` meets a seek error keeps the active file locked
  (`ltp-pan.c:1321-1326`, `zoolib.c:232-238`) until it calls the library again or ends: `OperationsEnd`
  has to except it.
- An `ltp-bump` whose buffer is older than the file blanks a line that may be another
  process's by now (`zoolib.c:221-246`): `OnlyStaleBumps` and `LiveListed`. When that command ends, pan
  does not find its entry and exits.

### Bounds

- `FuzzySync`: `MaxInt` 4 lets the counters wrap after two iterations (an iteration has three
  barriers), so four loops and two resets reach the wrap in every call and from either side.
  Of the value the proofs use only `MaxInt >= 2`.
- `Checkpoint`: three waiters, two usable checkpoints of three (the third is out of
  range), one signal for each waiter.
- `Pan`: two slots, three or four starts, three pids (two in `PanHarsh`), one signal (two in
  `PanHarsh`), which is enough for a signal at every step of a run in which one command is ending
  while another one starts. One option record of `Pan` has no limit to the starts and ends by the stop
  file; in `PanHarsh` a command may get the line of the one `ltp-bump` has looked up. `PanMany` has 256
  starts because of the eight bits. `Termination` excepts a pan that has lost count of its children
  for good after an interrupted `run_child()`.
- `Zoo`: two drivers, one of which may be killed, one `ltp-bump` with two look-ups, two pids and
  two starts, one seek error: a pid is reused, and a blank of one process is filled by another.
- `TstTest`: two variants of two iterations; a child; `MaxRetries` is 2 instead of 10.
  `TstTestEnd` leaves out the death of the library process, with which it has ended.
- `TestSetup`: two tests, two devices, six sorts of requests, two filesystems, two failing
  calls (two of the six requests are refused by `do_setup()`); two `LOOP_CLR_FD`s instead of 40, room for three calls of `do_exit()`.
  The last case of `OnlyRetriesSteal`, a test that has lost its own device, takes three tests: the theorem
  covers it, the run does not.

The safety properties of the passing runs are also proved without these bounds, under the
conditions that section 4 lists.
Deadlock is not checked, because every one of these programs stops.

### Fairness

- `FuzzySync`: both threads are scheduled again and again (with one CPU the library yields),
  a pending asynchronous cancellation is acted upon, and the test function returns.
- `Checkpoint`: the processes are scheduled. `AllMeet` is about behaviours in which no timeout expires.
- `Pan`: pan runs when it can, a child reaches its `exec()`, a command ends (tests have the
  runner's timeout). What a command leaves behind need not end. `StubbornSpec`, for
  `PanLost`, has commands that need not end either.
- `Zoo`: every process takes the step it can take. That a process gets the lock follows from
  the bounds, since the others ask for it finitely often. `OperationsEnd` excepts behaviours in which
  a driver keeps the lock after a seek error.
- `TstTest`: the library process runs, its timer expires unless it is pushed back, a new process
  reaches its first lines, and `do_cleanup()` returns sooner or later. The callbacks and the children get no fairness. `Ends` excludes
  tests that send heartbeats for ever, for which the code promises nothing.
- `TestSetup` has no liveness property and no fairness.

## 4. Proofs

Every safety property that a passing run checks is also proved, for every value of the
constants that the named assumptions of the modules allow. Where a theorem needs more, the
theorem says so in its `ASSUME`; these conditions are collected below.

**FuzzySyncProofs**: `TypeCorrect`, `LockstepHolds`, `RaceFree`, `ImplementsBarrier`, `LoopsExitTogether`,
`ThreadBFresh`, `AveragesStayFrozen`. The barrier properties are not inductive: the counters wrap,
and from the counters alone one cannot tell who is ahead. `IInv` relates them to the history
variables: a thread is in at most one call and leaves it only after the other has begun it
(`CallInv`); the difference of the counters is the difference of the calls, except that one of
the two may have wrapped already, and then the other is at a known place (`CntrInv`); the k-th
calls of both threads are of the same kind (`OpInv`); and at most one thread counts spins
(`CountInv`). `RaceFree` follows because a thread that updates the statistics is alone between
two barriers. `ImplementsBarrier` maps `Inc` to entering, the ends of the loops to leaving and the
reset to a restart of the abstract barrier. How the loops end needs a second invariant on top of
`IInv`, `StopInv`: `pair->exit` is written by both threads, so it must be said who has asked whom, and
where the asking thread waits (`AskedFirst`, `Asked`).

**CheckpointProofs**: `TypeCorrect`, `Precise`, `NoSpuriousReturn`, `MeetingHolds`, for any finite set of waiters.
The invariant says that `waked` is the number of processes released from the current
checkpoint, that nobody sleeping at a checkpoint has been released from it (so no process is
counted twice), and that a waiter is past a checkpoint only if it was released there.

**PanProofs**: `TypeCorrect`, `FoundWhileAlive`, `CountsRight`, `StartsWhenQuiet`, `FileExact`, `AllDead`,
`FailuresShow`. There are four layers, because pan promises less the more the world interferes.

- `Invariant` holds whatever happens, interrupted calls of `run_child()` and `ltp-bump` included: no
  process is in two slots (`Distinct`), the child being started has a free slot to go to and every
  other child in a slot has not been collected (`Held`), and `LiveListed`, which excepts the entries
  that a mistaken `ltp-bump` has blanked (`strayed`). It gives `TypeCorrect` and
  `FoundWhileAlive`.
- `Plain` holds when no signal interrupts `run_child()`. Pan then loses no child: every process is in a
  slot, or is the one being started (`NoneLost`), a group without a leader is an orphan (`Groups`),
  nothing is active once the loop is left (`Drained`), and while a doomed command is left one of
  `stop`, `rec_signal` and `go_idle` is set, or main() is between reading and clearing `rec_signal`
  (`Quiescing`). The last one is what makes `QuiesceFirst` provable: the three variables hand over to
  each other, and the invariant has to name the two places where none of them is set yet.
- `Listed` needs in addition that `ltp-bump` is not used (`MaxBumps = 0`). It gives `FileExact` and `AllDead`;
  `PanBump` shows that the condition is needed.
- `Counted` needs instead that every command can be executed. A failure that is not counted yet is
  that of a zombie, of the child just reaped, or is in `err`.

That the number of slots in use goes up and down by one, and that the search for a free slot
finds one (`FreeSlotFree`), are lemmas about the operators.

**ZooProofs** and **ZooBagProofs**: `Records`, `StaleBumps`, `TypeCorrect`, `StaysCompact`, `ImplementsBag`. Whoever
writes with the lock held knows the line it is going to write (`PosInv`): a driver because it has just read the
file, an `ltp-bump` only as long as nobody wrote after its look-up (`BufInv`). From that follows which
entries are in the file (`ListInv`), and that an `ltp-bump` with an
up-to-date buffer clears a pid it found dead: if the pid is in use again, its new entry is
not written yet (`DeadInv`). Every write appends to a file without blanks, fills a blank or blanks a line; the
refinement maps the file to the number of lines of each pid.

**TstTestProofs**: `TypeCorrect`, `ExitAccounts`, `CleansUpOnce`, `Interruptible`, `NoOrphanedLoop`, `GivesUpRightly`.
`IInv` says where the processes can be relative to each other (`Places`), how often a process can
have been missed by SIGKILL (`Attempts`), how far `cleanup()` is (`Cleanups`), that only the first
iteration begins without a heartbeat (`Late`), that what is owed has been reported and a main test
process that died is the last one (`Accounts`), that one that gets through its iterations has
reported something (`Reported`), and what an interrupt leads to (`Interrupts`). All are needed together:
the exit value is computed from `results` and the last status, long after the reports.

**TestSetupProofs** and **TestSetupTheorems**: `TypeCorrect`, `NoSilentLeftovers`, `Ready`, `Restored`, `Bounded`,
`FirstClearIsOwn`. `Local` relates the flags of one test to what it holds and how far it has come
(`Flags`, `Depth`, `Asked`); it is preserved test by test, because a step of one test changes nothing
of another's. `Owner` is about the devices, which the tests do share: an attached device is in
the books of its test, one in the books is attached until its release begins, and a device to be
cleared automatically belongs to a test that has asked for it. `Config` is about the saved file.

Conditions that theorems have beyond the assumptions of the modules:

| Theorem | Condition | Why |
|---|---|---|
| `GivesUpRightly` | `MaxRetries >= 2` (10 in the code) | a process may be missed once, before its `setpgid()` |
| `CountsRight`, `StartsWhenQuiet`, `FileExact`, `AllDead`, `FailuresShow` | `~ RunChildInterrupted` | an interrupted `run_child()` loses children (section 3) |
| `FileExact`, `AllDead` | `MaxBumps = 0` | `PanBump` |
| `FailuresShow` | `ExecFails = {}`, and `exit_stat < 256` in the state | a command that cannot be executed is not counted (section 3); `PanMany` |

Only model-checked: the liveness properties, `Termination` of `FuzzySync` and `Pan`, `AllMeet`, `Ends` and
`OperationsEnd`, because liveness under fairness is outside what the prover handles. The violated
properties have counterexamples and nothing to prove.

## 5. Not modelled

In the modelled parts: failures of the writes to the active file themselves, which `zoolib.c` does not
look at (seek errors are in `Zoo`, but not in `Pan`), an `ltp-bump` with several tags in `Pan`, the -I option of the runner,
fork in `cleanup()`, reuse of a pid that pan still lists, the floating-point statistics of fuzzy
sync, direct calls of the checkpoint functions with a zero timeout, a device given by `LTP_DEV`,
optional paths of `save_restore` (with a `?`), the file used for results when there is no `/dev/shm`,
and files larger than one stdio buffer in `Zoo`. The hazards of `PROJECT.json` that have a note say
what would be needed.

Other parts: the shell library `src/testcases/lib/tst_test.sh` is a second runner whose steps are
the commands of a shell that may be interrupted between any two, a model of its own. The old
library (`tst_res.c`, `tst_sig.c`), control groups (`tst_cgroup.c`) and the boolean expressions of
`tst_kconfig.c` are sequential, the last a pure algorithm. Everything else is in the `components` of
`PROJECT.json` with its reason.
