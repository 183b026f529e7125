-------------------------------- MODULE Pan --------------------------------
(***************************************************************************)
(* The test driver ltp-pan (src/pan/ltp-pan.c): a single-threaded scheduler *)
(* that keeps up to keep_active commands running, each in a process group   *)
(* of its own, records how each one ends, kills what a command leaves       *)
(* behind in its group, and passes the signals it receives on to the groups *)
(* along a "ratchet".  Each command that runs and each orphaned group has   *)
(* an entry in the shared active file (the zoo, src/pan/zoolib.c), which    *)
(* ltp-bump reads to signal a command by its tag.                           *)
(*                                                                          *)
(* The steps of main(), of the kernel's processes, of the signal handler    *)
(* and of ltp-bump interleave.  A signal that arrives in a blocking call    *)
(* interrupts it: the handlers are installed without SA_RESTART.            *)
(***************************************************************************)
EXTENDS Integers, FiniteSets, FiniteSetsExt

CONSTANTS
    Pids,           \* process ids the kernel may hand out (model values)
    NoPid,          \* no process
    Self,           \* pan's own process id
    KeepActive,     \* keep_active, the -x option
    Cnt,            \* coll->cnt, the number of commands
    ExecFails,      \* the commands whose exec() fails
    Options,        \* the option records a behaviour may start with
    ExitCodes,      \* the ways a command may end, a subset of Codes
    Signals,        \* the signals pan may be sent from outside
    MaxSignals,     \* bound on their number
    MaxBumps,       \* bound on the runs of ltp-bump on a command's tag
    RunChildInterrupted, \* does a signal interrupt the calls of run_child()?
    StartMayFail    \* may run_child() fail to open a file, a pipe or to fork()?

Codes == {"ok", "fail", "conf", "130", "signal"}
AllSignals == {"INT", "TERM", "HUP", "USR1", "USR2", "ALRM"}

ASSUME PidsAssumption ==
    IsFiniteSet(Pids) /\ NoPid \notin Pids /\ Self \notin Pids \cup {NoPid}
ASSUME OptionsAssumption ==
    \A o \in Options :
        /\ o \in [sequential : BOOLEAN, timed : BOOLEAN, starts : Int,
                  has_brakes : BOOLEAN, track_exit_stats : BOOLEAN,
                  fork_in_road : BOOLEAN]
        /\ o.starts >= -1
        /\ o.has_brakes => o.track_exit_stats
ASSUME CommandsAssumption ==
    KeepActive \in Nat \ {0} /\ Cnt \in Nat \ {0} /\ ExecFails \subseteq 1..Cnt
ASSUME SignalsAssumption ==
    /\ Signals \subseteq AllSignals /\ ExitCodes \subseteq Codes
    /\ MaxSignals \in Nat /\ MaxBumps \in Nat /\ RunChildInterrupted \in BOOLEAN
    /\ StartMayFail \in BOOLEAN

Slots == 1..KeepActive
None == "none"          \* rec_signal, send_signal or lastsent is 0

VARIABLES
    opt,            \* the options, as parsed
    fork_in_road, starts, c, stop, go_idle, num_active, exit_stat,
                    \* locals of main()
    running,        \* the table of active commands
    orphans,        \* the pgrps of the orphan list that are not 0
    rec_signal, send_signal, lastsent,
                    \* the handler's globals and its static variable
    pc,             \* where pan is
    cpid,           \* the child being started or just reaped
    err,            \* what check_pids() returned, as a truth value
    zoo,            \* the pids with an entry in the active file
    proc,           \* what the kernel knows of a pid: see States
    code,           \* how the process of a pid ended
    members,        \* are there processes in its group besides the leader?
    bump,           \* the pid ltp-bump has read from the active file
    late,           \* the pids with an entry written since it did
    strayed,        \* history: the pids of the entries ltp-bump took for another's
    stop_file,      \* does PAN_STOP_FILE exist?
    signals, bumps, \* counters of the two bounds
    doomed,         \* history: commands alive at an unresolved stop or failure
    failed,         \* history: some command has exited non-zero, TCONF aside
    owed            \* history: a signal has arrived that was not passed on yet

sched == <<fork_in_road, starts, c, stop, go_idle, num_active, exit_stat, running>>
handler == <<rec_signal, send_signal, lastsent>>
kernel == <<proc, code, members>>
world == <<bump, late, strayed, stop_file, signals, bumps>>
history == <<doomed, failed, owed>>
vars == <<opt, sched, orphans, handler, pc, cpid, err, zoo, kernel, world, history>>

\* A pid is free; forked but not yet past exec(), which will succeed or not;
\* running its command; dead after exec() failed, as it reported on errpipe;
\* or dead.
States == {"free", "forked", "unable", "running", "unexecuted", "zombie"}
Alive == {p \in Pids : proc[p] \in {"forked", "unable", "running"}}
Children == {p \in Pids : proc[p] # "free"}
Zombies == {p \in Pids : proc[p] \in {"unexecuted", "zombie"}}

Active == {i \in Slots : running[i].pgrp # NoPid}
Tracked == {running[i].pgrp : i \in Active}

\* kill(-p, 0) finds a process: an unreaped leader counts.
GroupExists(p) == proc[p] # "free" \/ members[p]

\* The kernel reuses a pid only when no process and no group has it.  That it
\* does not do so while pan still lists the pid is assumed: pids come round
\* again after tens of thousands of forks.
PidFree(p) == ~ GroupExists(p) /\ p \notin orphans \cup zoo /\ p # bump

TypeOK ==
    /\ opt \in Options /\ fork_in_road \in BOOLEAN /\ starts \in Int
    /\ starts >= -1 /\ c \in 1..Cnt
    /\ stop \in BOOLEAN /\ go_idle \in BOOLEAN
    /\ num_active \in Int /\ exit_stat \in Nat
    /\ running \in [Slots -> [pgrp : Pids \cup {NoPid}, stopping : BOOLEAN]]
    /\ orphans \subseteq Pids
    /\ rec_signal \in AllSignals \cup {None}
    /\ send_signal \in AllSignals \cup {None, "KILL"}
    /\ lastsent \in AllSignals \cup {None, "KILL"}
    /\ pc \in {"loop", "read", "waitpid", "scan", "sig", "usr2", "send",
               "clear", "orphans", "wait", "reaped", "post", "drain", "osend",
               "oclear", "exit", "exit1", "crashed"}
    /\ cpid \in Pids \cup {NoPid} /\ err \in BOOLEAN
    /\ zoo \subseteq Pids \cup {Self}
    /\ proc \in [Pids -> States] /\ code \in [Pids -> Codes]
    /\ members \in [Pids -> BOOLEAN]
    /\ bump \in Pids \cup {NoPid} /\ late \subseteq Pids /\ strayed \subseteq Pids
    /\ stop_file \in BOOLEAN
    /\ signals \in 0..MaxSignals /\ bumps \in 0..MaxBumps
    /\ doomed \subseteq Pids /\ failed \in BOOLEAN /\ owed \in BOOLEAN

----------------------------------------------------------------------------
(* How many commands to start: the -s option, with main()'s defaults.       *)
InitialStarts(o) ==
    IF o.starts = -1 THEN IF o.timed THEN -1 ELSE IF o.sequential THEN Cnt ELSE 1
    ELSE IF o.starts = 0 THEN -1
    ELSE Max({o.starts, KeepActive})

Init ==
    /\ opt \in Options
    /\ fork_in_road = opt.fork_in_road
    /\ starts = InitialStarts(opt)
    /\ c = 1 /\ stop = FALSE /\ go_idle = FALSE /\ num_active = 0 /\ exit_stat = 0
    /\ running = [i \in Slots |-> [pgrp |-> NoPid, stopping |-> FALSE]]
    /\ orphans = {}
    /\ rec_signal = None /\ send_signal = None /\ lastsent = None
    /\ pc = "loop" /\ cpid = NoPid /\ err = FALSE
    /\ zoo = {Self}
    /\ proc = [p \in Pids |-> "free"] /\ code = [p \in Pids |-> "ok"]
    /\ members = [p \in Pids |-> FALSE]
    /\ bump = NoPid /\ late = {} /\ strayed = {}
    /\ stop_file = FALSE /\ signals = 0 /\ bumps = 0
    /\ doomed = {} /\ failed = FALSE /\ owed = FALSE

----------------------------------------------------------------------------
RatchetNoKill(sig) ==       \* mutant: the last rung is missing
    IF lastsent = None THEN sig
    ELSE IF lastsent = "USR1" THEN "INT"
    ELSE IF lastsent = sig THEN "TERM"
    ELSE IF lastsent = "TERM" THEN "HUP"
    ELSE send_signal

(* wait_handler(sig) for sig # 0: note the signal, and move the ratchet that *)
(* says which one to pass on.                                                *)
Ratchet(sig) ==
    IF lastsent = None THEN sig
    ELSE IF lastsent = "USR1" THEN "INT"
    ELSE IF lastsent = sig THEN "TERM"
    ELSE IF lastsent = "TERM" THEN "HUP"
    ELSE IF lastsent = "HUP" THEN "KILL"
    ELSE send_signal

WaitHandler(sig) ==
    /\ rec_signal' = sig
    /\ IF sig = "USR2" THEN UNCHANGED <<send_signal, lastsent>>
       ELSE send_signal' = Ratchet(sig) /\ lastsent' = send_signal'

----------------------------------------------------------------------------
(* main(): the scheduling loop.                                              *)
MayStart == num_active < KeepActive /\ starts # 0
HaltedNoIdle == stop \/ rec_signal # None   \* mutant: go_idle is not looked at
Halted == stop \/ rec_signal # None \/ go_idle

\* A slot for the child, and run_child() up to the fork.
StartChild ==
    /\ pc = "loop" /\ MayStart /\ ~ Halted
    /\ Active # Slots
    /\ c' \in IF opt.sequential THEN {c} ELSE 1..Cnt
    /\ \E p \in Pids :
        /\ PidFree(p)
        /\ cpid' = p
        /\ proc' = [proc EXCEPT ![p] = IF c' \in ExecFails THEN "unable" ELSE "forked"]
    /\ pc' = "read"
    /\ UNCHANGED <<opt, fork_in_road, starts, stop, go_idle, num_active, exit_stat,
                   running, orphans, handler, err, zoo, code, members, world, history>>

\* "Aborting: i == keep_active".
Abort ==
    /\ pc = "loop" /\ MayStart /\ ~ Halted
    /\ Active = Slots
    /\ WaitHandler("INT")
    /\ exit_stat' = exit_stat + 1
    /\ pc' = "scan"
    /\ UNCHANGED <<opt, fork_in_road, starts, c, stop, go_idle, num_active, running,
                   orphans, cpid, err, zoo, kernel, world, history>>

StartedNoWrap(ok) ==        \* mutant: the command index does not wrap around
    /\ num_active' = IF ok THEN num_active + 1 ELSE num_active
    /\ starts' = IF (ok \/ opt.sequential) /\ starts > 0 THEN starts - 1 ELSE starts
    /\ c' = IF opt.sequential THEN c + 1 ELSE c
    /\ pc' = "loop"

\* The loop's bookkeeping once run_child() is back: with the child's pid, or
\* with -1 when the command did not start.
Started(ok) ==
    /\ num_active' = IF ok THEN num_active + 1 ELSE num_active
    /\ starts' = IF (ok \/ opt.sequential) /\ starts > 0 THEN starts - 1 ELSE starts
    /\ c' = IF opt.sequential THEN (c % Cnt) + 1 ELSE c
    /\ pc' = "loop"

\* run_child() fails before there is a child: no output file, pipe or fork().
StartFails ==
    /\ StartMayFail
    /\ pc = "loop" /\ MayStart /\ ~ Halted
    /\ Active # Slots
    /\ Started(FALSE)
    /\ UNCHANGED <<opt, fork_in_road, stop, go_idle, exit_stat, running, orphans, handler,
                   cpid, err, zoo, kernel, world, history>>

FreeSlotFirst == 1          \* mutant: the search for a slot stops at once
FreeSlot == Min({i \in Slots : running[i].pgrp = NoPid})

\* errpipe was closed by the exec(): the command runs.
ReadEof ==
    /\ pc = "read" /\ proc[cpid] \in {"running", "zombie"}
    /\ running' = [running EXCEPT ![FreeSlot] = [pgrp |-> cpid, stopping |-> FALSE]]
    /\ zoo' = zoo \cup {cpid}
    /\ late' = IF bump = NoPid THEN late ELSE late \cup {cpid}
    /\ strayed' = strayed \ {cpid}
    /\ Started(TRUE)
    /\ cpid' = NoPid
    /\ UNCHANGED <<opt, fork_in_road, stop, go_idle, exit_stat, orphans, handler, err,
                   kernel, bump, stop_file, signals, bumps, history>>

\* The child wrote to errpipe why it could not exec().
ReadError ==
    /\ pc = "read" /\ proc[cpid] = "unexecuted"
    /\ pc' = "waitpid"
    /\ UNCHANGED <<opt, sched, orphans, handler, cpid, err, zoo, kernel, world, history>>

\* waitpid() in run_child() collects the child.
WaitChild ==
    /\ pc = "waitpid" /\ cpid \in Zombies
    /\ proc' = [proc EXCEPT ![cpid] = "free"]
    /\ Started(FALSE)
    /\ cpid' = NoPid
    /\ UNCHANGED <<opt, fork_in_road, stop, go_idle, exit_stat, running, orphans,
                   handler, err, zoo, code, members, world, history>>

\* No more commands for now.
LeaveLoop ==
    /\ pc = "loop" /\ (~ MayStart \/ Halted)
    /\ pc' = "scan"
    /\ UNCHANGED <<opt, sched, orphans, handler, cpid, err, zoo, kernel, world, history>>

\* All commands have been started, or PAN_STOP_FILE asks to stop.
Scan ==
    /\ pc = "scan"
    /\ stop' = (stop \/ starts = 0 \/ (starts = -1 /\ stop_file))
    /\ stop_file' = (stop_file /\ starts # -1)
    /\ pc' = "sig"
    /\ UNCHANGED <<opt, fork_in_road, starts, c, go_idle, num_active, exit_stat, running,
                   orphans, handler, cpid, err, zoo, kernel, bump, late, strayed,
                   signals, bumps, history>>

----------------------------------------------------------------------------
(* main(): acting on a signal.                                               *)
NoSignal ==
    /\ pc = "sig" /\ rec_signal = None
    /\ pc' = "orphans"
    /\ UNCHANGED <<opt, sched, orphans, handler, cpid, err, zoo, kernel, world, history>>

\* SIGUSR2 stops the scheduler and is not passed on.
StopScheduler ==
    /\ pc = "sig" /\ rec_signal = "USR2"
    /\ go_idle' = (go_idle \/ fork_in_road)
    /\ stop' = (stop \/ ~ fork_in_road)
    /\ doomed' = doomed \cup Tracked
    /\ pc' = "usr2"
    /\ UNCHANGED <<opt, fork_in_road, starts, c, num_active, exit_stat, running, orphans,
                   handler, cpid, err, zoo, kernel, world, failed, owed>>

\* Any other signal is passed on; SIGUSR1 also takes the -y option back.
TakeSignal ==
    /\ pc = "sig" /\ rec_signal \notin {None, "USR2"}
    /\ fork_in_road' = (fork_in_road /\ rec_signal # "USR1")
    /\ doomed' = doomed \cup Tracked
    /\ pc' = "send"
    /\ UNCHANGED <<opt, starts, c, stop, go_idle, num_active, exit_stat, running, orphans,
                   handler, cpid, err, zoo, kernel, world, failed, owed>>

\* The groups of S receive the signal sig.  A process may ignore any signal but
\* SIGKILL, and may end at any time anyway: only SIGKILL changes the state.
Kill(S, sig) ==
    IF sig = "KILL"
    THEN /\ proc' = [p \in Pids |->
                        IF p \in S /\ proc[p] = "running" THEN "zombie" ELSE proc[p]]
         /\ code' = [p \in Pids |->
                        IF p \in S /\ proc[p] = "running" THEN "signal" ELSE code[p]]
         /\ members' = [p \in Pids |-> members[p] /\ p \notin S]
    ELSE UNCHANGED kernel

CheckOrphansNoClear ==      \* mutant: the entry in the active file stays
    /\ orphans' = {p \in orphans : GroupExists(p)}
    /\ UNCHANGED zoo

\* check_orphans(): drop the groups that are empty.
CheckOrphans ==
    LET gone == {p \in orphans : ~ GroupExists(p)} IN
    /\ orphans' = orphans \ gone
    /\ zoo' = zoo \ gone

\* propagate_signal() up to its last line.
Propagate ==
    /\ rec_signal' = IF rec_signal = "ALRM" THEN "TERM" ELSE rec_signal
    /\ running' = [i \in Slots |->
                      [running[i] EXCEPT !.stopping = @ \/ i \in Active]]
    /\ Kill(Tracked \cup orphans, send_signal)
    /\ CheckOrphans
    /\ owed' = FALSE
    /\ UNCHANGED <<send_signal, lastsent>>

Send ==
    /\ pc = "send"
    /\ Propagate
    /\ pc' = "clear"
    /\ UNCHANGED <<opt, fork_in_road, starts, c, stop, go_idle, num_active, exit_stat,
                   cpid, err, world, doomed, failed>>

\* rec_signal = send_signal = 0, whatever has arrived since they were read.
ClearSignal == rec_signal' = None /\ send_signal' = None /\ UNCHANGED lastsent

Clear ==
    /\ pc \in {"usr2", "clear"}
    /\ ClearSignal
    /\ go_idle' = (go_idle \/ (pc = "clear" /\ fork_in_road))
    /\ stop' = (stop \/ (pc = "clear" /\ ~ fork_in_road))
    /\ pc' = "orphans"
    /\ UNCHANGED <<opt, fork_in_road, starts, c, num_active, exit_stat, running, orphans,
                   cpid, err, zoo, kernel, world, history>>

----------------------------------------------------------------------------
(* check_pids().                                                             *)
LookForOrphans ==
    /\ pc = "orphans"
    /\ CheckOrphans
    /\ pc' = "wait"
    /\ UNCHANGED <<opt, sched, handler, cpid, err, kernel, world, history>>

\* wait() collects a child.
Reap ==
    /\ pc = "wait"
    /\ \E p \in Zombies :
        /\ cpid' = p
        /\ proc' = [proc EXCEPT ![p] = "free"]
    /\ pc' = "reaped"
    /\ UNCHANGED <<opt, sched, orphans, handler, err, zoo, code, members, world, history>>

\* wait() fails with ECHILD.
NoChild ==
    /\ pc = "wait" /\ Children = {}
    /\ err' = FALSE
    /\ pc' = "post"
    /\ UNCHANGED <<opt, sched, orphans, handler, cpid, zoo, kernel, world, history>>

CountsForgiving(i) ==       \* mutant: any status is forgiven, not only 130
    code[cpid] \in {"fail", "130", "signal"} /\ ~ running[i].stopping

\* How the end of the command in slot i counts: 130 from a command that was
\* told to stop is forgiven, and so is its death by a signal.
Counts(i) ==
    \/ code[cpid] = "fail"
    \/ code[cpid] \in {"130", "signal"} /\ ~ running[i].stopping

\* The child's slot and its entry in the active file are freed, and what it
\* left in its group becomes an orphan, which gets an entry of its own.  A
\* missing entry ends pan on the spot.
Record ==
    /\ pc = "reaped"
    /\ num_active' = num_active - 1
    /\ IF \E i \in Slots : running[i].pgrp = cpid
       THEN \E i \in Slots :
            /\ running[i].pgrp = cpid
            /\ err' = Counts(i)
            /\ running' = [running EXCEPT ![i].pgrp = NoPid]
            /\ IF cpid \notin zoo THEN pc' = "exit1" /\ UNCHANGED <<zoo, orphans, late>>
               ELSE /\ pc' = "post"
                    /\ zoo' = IF members[cpid] THEN zoo ELSE zoo \ {cpid}
                    /\ orphans' = IF members[cpid] THEN orphans \cup {cpid} ELSE orphans
                    /\ late' = IF members[cpid] /\ bump # NoPid THEN late \cup {cpid}
                               ELSE late
       ELSE /\ err' = (code[cpid] \in {"fail", "130"})
            /\ pc' = "post"
            /\ UNCHANGED <<running, zoo, orphans, late>>
    /\ doomed' = doomed \ {cpid}
    /\ cpid' = NoPid
    /\ UNCHANGED <<opt, fork_in_road, starts, c, stop, go_idle, exit_stat, handler, kernel,
                   bump, strayed, stop_file, signals, bumps, failed, owed>>

----------------------------------------------------------------------------
(* main(): the end of a round.                                               *)
Post ==
    /\ pc = "post"
    /\ LET idle == go_idle \/ (err /\ fork_in_road)
           done == stop /\ num_active = 0
           resume == ~ done /\ idle /\ num_active = 0
       IN /\ exit_stat' = IF err /\ opt.track_exit_stats THEN exit_stat + 1 ELSE exit_stat
          /\ IF err /\ opt.has_brakes
             THEN /\ rec_signal' = "INT" /\ send_signal' = Ratchet("INT")
                  /\ lastsent' = IF resume THEN None ELSE send_signal'
             ELSE /\ UNCHANGED <<rec_signal, send_signal>>
                  /\ lastsent' = IF resume THEN None ELSE lastsent
          /\ go_idle' = (idle /\ ~ resume)
          /\ doomed' = IF err /\ (opt.has_brakes \/ fork_in_road)
                       THEN doomed \cup Tracked ELSE doomed
          /\ pc' = IF done THEN "drain" ELSE "loop"
    /\ err' = FALSE
    /\ UNCHANGED <<opt, fork_in_road, starts, c, stop, num_active, running, orphans, cpid,
                   zoo, kernel, world, failed, owed>>

\* "Wait for orphaned pgrps": every five seconds push the ratchet.
DrainOrphans ==
    /\ pc = "drain" /\ orphans # {}
    /\ IF rec_signal = None THEN WaitHandler("INT") ELSE UNCHANGED handler
    /\ pc' = "osend"
    /\ UNCHANGED <<opt, sched, orphans, cpid, err, zoo, kernel, world, history>>

SendOrphans ==
    /\ pc = "osend"
    /\ Propagate
    /\ pc' = "oclear"
    /\ UNCHANGED <<opt, fork_in_road, starts, c, stop, go_idle, num_active, exit_stat,
                   cpid, err, world, doomed, failed>>

ClearOrphans ==
    /\ pc = "oclear"
    /\ ClearSignal
    /\ pc' = "drain"
    /\ UNCHANGED <<opt, sched, orphans, cpid, err, zoo, kernel, world, history>>

ExitEarly ==                \* mutant: the orphan loop is left out
    /\ pc = "drain"
    /\ exit_stat' = IF Self \in zoo THEN exit_stat ELSE exit_stat + 1
    /\ zoo' = zoo \ {Self}
    /\ pc' = "exit"
    /\ UNCHANGED <<opt, fork_in_road, starts, c, stop, go_idle, num_active, running, orphans,
                   handler, cpid, err, kernel, world, history>>

Exit ==
    /\ pc = "drain" /\ orphans = {}
    /\ exit_stat' = IF Self \in zoo THEN exit_stat ELSE exit_stat + 1
    /\ zoo' = zoo \ {Self}
    /\ pc' = "exit"
    /\ UNCHANGED <<opt, fork_in_road, starts, c, stop, go_idle, num_active, running, orphans,
                   handler, cpid, err, kernel, world, history>>

PanStep ==
    \/ StartChild \/ StartFails \/ Abort \/ ReadEof \/ ReadError \/ WaitChild
    \/ LeaveLoop \/ Scan
    \/ NoSignal \/ StopScheduler \/ TakeSignal \/ Send \/ Clear
    \/ LookForOrphans \/ Reap \/ NoChild \/ Record \/ Post
    \/ DrainOrphans \/ SendOrphans \/ ClearOrphans \/ Exit

----------------------------------------------------------------------------
(* The signals pan is sent.                                                  *)
Ended == {"exit", "exit1", "crashed"}

Arrive(sig) ==
    /\ pc \notin Ended /\ signals < MaxSignals
    /\ WaitHandler(sig)
    /\ signals' = signals + 1
    /\ owed' = (owed \/ sig # "USR2")
    /\ UNCHANGED <<opt, fork_in_road, stop, go_idle, exit_stat, running, orphans, zoo,
                   kernel, bump, late, strayed, stop_file, bumps, doomed, failed>>

\* Between two steps, or just before a call blocks.
Signal(sig) == Arrive(sig) /\ UNCHANGED <<starts, c, num_active, pc, cpid, err>>

\* wait() in check_pids() returns EINTR.
InterruptWait(sig) ==
    /\ pc = "wait"
    /\ Arrive(sig)
    /\ err' = FALSE
    /\ pc' = "post"
    /\ UNCHANGED <<starts, c, num_active, cpid>>

\* read() in run_child() returns -1, which is taken for a report of the child.
\* errlen is then an uninitialized value, and errbuf[errlen] = '\0' may or may
\* not end the program.
InterruptRead(sig) ==
    /\ RunChildInterrupted /\ pc = "read"
    /\ Arrive(sig)
    /\ pc' \in {"waitpid", "crashed"}
    /\ UNCHANGED <<starts, c, num_active, cpid, err>>

\* waitpid() in run_child() returns -1, and nobody keeps the child's pid.
InterruptWaitpid(sig) ==
    /\ RunChildInterrupted /\ pc = "waitpid"
    /\ Arrive(sig)
    /\ Started(FALSE)
    /\ cpid' = NoPid
    /\ UNCHANGED err

SignalStep ==
    \E sig \in Signals :
        Signal(sig) \/ InterruptWait(sig) \/ InterruptRead(sig) \/ InterruptWaitpid(sig)

----------------------------------------------------------------------------
(* The commands' processes.                                                  *)
ChildExec(p) ==
    /\ \/ /\ proc[p] = "forked"
          /\ proc' = [proc EXCEPT ![p] = "running"]
          /\ UNCHANGED <<code, failed>>
       \/ /\ proc[p] = "unable"
          /\ proc' = [proc EXCEPT ![p] = "unexecuted"]
          /\ code' = [code EXCEPT ![p] = "fail"]
          /\ failed' = TRUE
    /\ UNCHANGED <<opt, sched, orphans, handler, pc, cpid, err, zoo, members, world, doomed,
                   owed>>

\* The command forks a process that stays in its group.
ChildFork(p) ==
    /\ proc[p] = "running" /\ ~ members[p]
    /\ members' = [members EXCEPT ![p] = TRUE]
    /\ UNCHANGED <<opt, sched, orphans, handler, pc, cpid, err, zoo, proc, code, world,
                   history>>

MemberExit(p) ==
    /\ members[p]
    /\ members' = [members EXCEPT ![p] = FALSE]
    /\ UNCHANGED <<opt, sched, orphans, handler, pc, cpid, err, zoo, proc, code, world,
                   history>>

ChildExit(p) ==
    /\ proc[p] = "running"
    /\ proc' = [proc EXCEPT ![p] = "zombie"]
    /\ \E w \in ExitCodes :
        /\ code' = [code EXCEPT ![p] = w]
        /\ failed' = (failed \/ w = "fail")
    /\ UNCHANGED <<opt, sched, orphans, handler, pc, cpid, err, zoo, members, world, doomed,
                   owed>>

(* ltp-bump with a command's tag: zoo_getpid(), then kill() and, when the     *)
(* process is dead already, zoo_clear().                                     *)
BumpLookup ==
    /\ bumps < MaxBumps /\ bump = NoPid /\ pc \notin Ended
    /\ bump' \in zoo \ {Self} /\ late' = {}
    /\ bumps' = bumps + 1
    /\ UNCHANGED <<opt, sched, orphans, handler, pc, cpid, err, zoo, kernel, strayed,
                   stop_file, signals, history>>

\* zoo_clear() blanks the line where the buffer of zoo_getpid() has the pid, if
\* the library still keeps it.  That is the line of the entry ltp-bump has read;
\* once pan has cleared that, the line is blank or holds a later entry.
Blanked ==
    IF bump \in zoo \ late THEN {{bump}} ELSE {{bump}, {}} \cup {{p} : p \in late}

BumpKillAny ==              \* mutant: the entry goes whatever kill() returned
    /\ bump # NoPid
    /\ \E gone \in Blanked :
        /\ zoo' = zoo \ gone
        /\ strayed' = strayed \cup (gone \ {bump})
    /\ bump' = NoPid /\ late' = {}
    /\ UNCHANGED <<opt, sched, orphans, handler, pc, cpid, err, kernel, stop_file, signals,
                   bumps, history>>

BumpKill ==
    /\ bump # NoPid
    /\ \E gone \in IF proc[bump] = "free" THEN Blanked ELSE {{}} :
        /\ zoo' = zoo \ gone
        /\ strayed' = strayed \cup (gone \ {bump})
    /\ bump' = NoPid /\ late' = {}
    /\ UNCHANGED <<opt, sched, orphans, handler, pc, cpid, err, kernel, stop_file, signals,
                   bumps, history>>

\* Somebody creates PAN_STOP_FILE.
TouchStopFile ==
    /\ starts = -1 /\ ~ stop_file /\ ~ stop /\ pc \notin Ended
    /\ stop_file' = TRUE
    /\ UNCHANGED <<opt, sched, orphans, handler, pc, cpid, err, zoo, kernel, bump, late, strayed,
                   signals, bumps, history>>

ProcessStep ==
    \E p \in Pids : ChildExec(p) \/ ChildFork(p) \/ MemberExit(p) \/ ChildExit(p)

Next == PanStep \/ SignalStep \/ ProcessStep \/ BumpLookup \/ BumpKill \/ TouchStopFile

Spec == Init /\ [][Next]_vars

(* Pan runs whenever it can, a forked child gets to its exec(), and a command *)
(* ends by itself (the tests have a timeout of their own).  What a command    *)
(* leaves in its group may stay for ever, and no signal has to arrive.        *)
FairSpec ==
    /\ Spec
    /\ WF_vars(PanStep)
    /\ \A p \in Pids : WF_vars(ChildExec(p)) /\ WF_vars(ChildExit(p))

(* As above, with commands that need not end.                                *)
StubbornSpec ==
    Spec /\ WF_vars(PanStep) /\ \A p \in Pids : WF_vars(ChildExec(p))

----------------------------------------------------------------------------
(* Properties.                                                               *)

\* num_active counts the slots in use, and each slot in use holds a process of
\* its own that wait() will still return or has just returned.
\* So the search for a free slot cannot fail ("Aborting: i == keep_active",
\* ltp-pan.c:538-545), and the loop's exit test (615) sees every command.
Accounting ==
    /\ num_active = Cardinality(Active)
    /\ Cardinality(Tracked) = num_active
    /\ pc \notin Ended => \A p \in Tracked : proc[p] # "free" \/ (pc = "reaped" /\ p = cpid)

\* "Pan will not terminate until all the active commands and everything in
\* their pgrps is dead" (ltp-pan.1:51-52; the exit test at 615 and the orphan
\* loop at 625-644).
NoneLeftBehind ==
    pc \in {"exit", "exit1"} => \A p \in Pids : ~ GroupExists(p)

\* The active file (zoo_mark at 1137 and 884, zoo_clear at 876, 1321 and 646)
\* has an entry for pan, for every active command and for every orphaned group,
\* and no other; when pan ends none is left.
ActiveFile ==
    IF pc = "exit" THEN zoo = {} ELSE zoo = {Self} \cup Tracked \cup orphans

\* What is left of this whatever interrupts pan and with ltp-bump at work.
\* ltp-bump takes an entry out only when the process is dead (ltp-bump.c:97-107),
\* so a running command that pan knows of can be found.  The exception is a
\* command that has got the line of the one ltp-bump looked up, after that: the
\* search of zoo_clear() goes by an old buffer (zoolib.c:210-230).  And no child is
\* counted twice, so pan never waits for a command that does not exist.
LiveListed ==
    /\ Tracked \cap Alive \subseteq zoo \cup strayed
    /\ num_active <= Cardinality(Active)

\* After a signal, or after a failure with -A or -y, no command is started
\* before every command that was active then has ended: rec_signal, go_idle and
\* stop hand over to each other without a gap (527, 580-592, 604-621).
QuiesceFirst == [][StartChild => doomed \cap Children = {}]_vars

\* With -e the exit status of pan (673), of which a parent sees eight bits, is
\* not zero if a command has exited non-zero ("Pan will exit non-zero if any of
\* its commands exited non-zero", ltp-pan.1:98).
ExitStatus ==
    pc = "exit" /\ opt.track_exit_stats /\ failed => exit_stat % 256 # 0

\* With a finite number of starts pan ends by itself, whatever the commands
\* leave behind: the orphan loop climbs the ratchet to SIGKILL (625-644).  The
\* exception is a pan that has lost count of its children for good, as it may
\* when a signal interrupts run_child() (1071-1118): the test at 615 then never
\* sees zero.
Termination ==
    opt.starts # 0 =>
        <>(pc \in Ended) \/ <>[](num_active # Cardinality(Active))

\* A signal other than SIGUSR2 is passed on to the active commands, whenever
\* it comes ("If ltp-pan is signaled it will kill any active commands",
\* ltp-pan.1:44-45).
SignalsPropagated == owed ~> (~ owed \/ pc \in Ended)
============================================================================
