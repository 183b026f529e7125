-------------------------------- MODULE Zoo --------------------------------
(***************************************************************************)
(* The active file (src/pan/zoolib.c), shared by several test drivers      *)
(* (ltp-pan.c) and by ltp-bump.  It is a sequence of lines of one size: an *)
(* entry for a pid, or a blank that starts with '#'.  zoo_mark() writes an *)
(* entry into the first blank, or appends one; zoo_clear() blanks the first *)
(* entry of a pid; zoo_getpid() looks a pid up by its tag.  Each of them    *)
(* takes a lock on the file, searches it from the start, writes at most one *)
(* line with fflush(), and gives the lock back, unless fseek() fails.       *)
(*                                                                          *)
(* The searches read through a stdio stream.  rewind() keeps what the       *)
(* stream has buffered, unless the search ran into the end of the file or   *)
(* was followed by a write: the next search of the same process then reads  *)
(* the buffer and not the file.                                             *)
(*                                                                          *)
(* Which pid a tag stands for is a choice, and the file is taken to fit     *)
(* into one stdio buffer.                                                   *)
(***************************************************************************)
EXTENDS Naturals, Sequences, FiniteSets

CONSTANTS
    Pans,           \* the drivers
    Bumps,          \* the runs of ltp-bump
    Pids,           \* the process ids of the commands
    None,           \* no process, no pid, no buffer
    Blank,          \* a line that starts with '#'
    Reserved,       \* blanks the drivers have allocated at their start
    MaxStarts,      \* bound on the commands started
    MaxLookups,     \* bound on the tags looked up
    MaxCrashes,     \* bound on the drivers killed
    MaxErrors       \* bound on the seek errors

ASSUME NamesAssumption ==
    /\ None \notin Pans \cup Bumps \cup Pids /\ Blank \notin Pids \cup {None}
    /\ Pans \cap Bumps = {}
ASSUME BoundsAssumption ==
    /\ IsFiniteSet(Pids) /\ Reserved \in Nat /\ MaxStarts \in Nat
    /\ MaxLookups \in Nat /\ MaxCrashes \in Nat /\ MaxErrors \in Nat

Procs == Pans \cup Bumps

VARIABLES
    file,           \* the lines, as they are on the disk
    lock,           \* who holds the lock
    buffer,         \* the lines a process has buffered, or None
    stage,          \* where a process is: see Stages
    op, arg,        \* the operation it is in, and the pid that is about
    pos,            \* the line it is going to write, or 0
    owner,          \* the driver that has a pid among its commands or orphans
    orphans,        \* the pids that are listed for what is left of their group
    proc,           \* pids of a process that exists, a zombie included
    starts, lookups, crashes, errors, \* counters of the bounds
    fresh,          \* history: bumps whose file is as it was at the lookup
    bumped,         \* history: has an ltp-bump cleared anything?
    peak            \* history: the most entries the file has had

disk == <<file, lock>>
step == <<buffer, stage, op, arg, pos>>
cmds == <<owner, orphans, proc>>
bounds == <<starts, lookups, crashes, errors>>
history == <<fresh, bumped, peak>>
vars == <<disk, step, cmds, bounds, history>>

Lines == Pids \cup {Blank}
\* idle; about to lock; to search; to write; to unlock; ltp-bump about to
\* call kill(); a process that has ended.
Stages == {"idle", "lock", "search", "write", "unlock", "kill", "gone"}
Ops == {"mark", "clear", "getpid"}

LinesOf(f, q) == {i \in DOMAIN f : f[i] = q}
Entries == {i \in DOMAIN file : file[i] # Blank}
Listed(q) == LinesOf(file, q) # {}

Init ==
    /\ file = [i \in 1..Reserved |-> Blank] /\ lock = None
    /\ buffer = [p \in Procs |-> None] /\ stage = [p \in Procs |-> "idle"]
    /\ op = [p \in Procs |-> "mark"] /\ arg = [p \in Procs |-> None]
    /\ pos = [p \in Procs |-> 0]
    /\ owner = [q \in Pids |-> None] /\ orphans = {} /\ proc = {}
    /\ starts = 0 /\ lookups = 0 /\ crashes = 0 /\ errors = 0
    /\ fresh = {} /\ bumped = FALSE /\ peak = 0

----------------------------------------------------------------------------
(* An operation of zoolib, step by step.                                     *)
Begin(p, o, q) ==
    /\ stage' = [stage EXCEPT ![p] = "lock"]
    /\ op' = [op EXCEPT ![p] = o]
    /\ arg' = [arg EXCEPT ![p] = q]
    /\ pos' = [pos EXCEPT ![p] = 0]
    /\ UNCHANGED buffer

\* The operation is over, and its local variables are forgotten.
Finish(p, st) ==
    /\ stage' = [stage EXCEPT ![p] = st]
    /\ op' = [op EXCEPT ![p] = "mark"]
    /\ arg' = [arg EXCEPT ![p] = None]
    /\ pos' = [pos EXCEPT ![p] = 0]

LockBusy(p) ==              \* mutant: F_SETLK, and its result is not looked at
    /\ stage[p] = "lock"
    /\ lock' = p
    /\ stage' = [stage EXCEPT ![p] = "search"]
    /\ UNCHANGED <<file, buffer, op, arg, pos, cmds, bounds, history>>

\* zoo_lock(): fcntl(F_SETLKW), called again when it is interrupted.  It succeeds
\* for a process that has the lock already.
Lock(p) ==
    /\ stage[p] = "lock" /\ lock \in {None, p}
    /\ lock' = p
    /\ stage' = [stage EXCEPT ![p] = "search"]
    /\ UNCHANGED <<file, buffer, op, arg, pos, cmds, bounds, history>>

\* What fgets() reads from the start on: what is buffered, and what the file
\* has behind it.
Kept(p) == IF buffer[p] = None THEN file ELSE buffer[p]
View(p) == [i \in DOMAIN file |-> IF i \in DOMAIN Kept(p) THEN Kept(p)[i] ELSE file[i]]

IsFirst(i, f, q) == i \in LinesOf(f, q) /\ \A j \in LinesOf(f, q) : i <= j

SearchMarkEnd(p) ==         \* mutant: every entry is appended
    /\ stage[p] = "search" /\ op[p] = "mark"
    /\ pos' = [pos EXCEPT ![p] = Len(file) + 1]
    /\ stage' = [stage EXCEPT ![p] = "write"]
    /\ buffer' = [buffer EXCEPT ![p] = None]
    /\ UNCHANGED <<disk, op, arg, cmds, bounds, history>>

\* zoo_mark(): the first blank; without one, fseek() to the end of the file.
SearchMark(p) ==
    /\ stage[p] = "search" /\ op[p] = "mark"
    /\ \/ \E i \in DOMAIN View(p) :
            IsFirst(i, View(p), Blank) /\ pos' = [pos EXCEPT ![p] = i]
       \/ /\ LinesOf(View(p), Blank) = {}
          /\ pos' = [pos EXCEPT ![p] = Len(file) + 1]
    /\ stage' = [stage EXCEPT ![p] = "write"]
    /\ buffer' = [buffer EXCEPT ![p] = None]
    /\ UNCHANGED <<disk, op, arg, cmds, bounds, history>>

\* zoo_clear(): the first entry of the pid.
SearchClear(p) ==
    /\ stage[p] = "search" /\ op[p] = "clear"
    /\ \/ /\ \E i \in DOMAIN View(p) :
                IsFirst(i, View(p), arg[p]) /\ pos' = [pos EXCEPT ![p] = i]
          /\ stage' = [stage EXCEPT ![p] = "write"]
       \/ /\ LinesOf(View(p), arg[p]) = {}
          /\ pos' = [pos EXCEPT ![p] = 0]
          /\ stage' = [stage EXCEPT ![p] = "unlock"]
    /\ buffer' = [buffer EXCEPT ![p] = None]
    /\ UNCHANGED <<disk, op, arg, cmds, bounds, history>>

\* zoo_getpid(): an entry whose tag matches, which leaves what is buffered for
\* later, unless it was behind that; or none up to the end of the file.
SearchGetpid(p) ==
    /\ stage[p] = "search" /\ op[p] = "getpid"
    /\ \/ \E i \in DOMAIN View(p) :
            /\ View(p)[i] # Blank
            /\ arg' = [arg EXCEPT ![p] = View(p)[i]]
            /\ buffer' = [buffer EXCEPT ![p] = IF i \in DOMAIN Kept(p) THEN Kept(p) ELSE None]
            /\ fresh' = IF buffer[p] = None \/ i \notin DOMAIN Kept(p)
                        THEN fresh \cup {p} ELSE fresh
       \/ /\ arg' = [arg EXCEPT ![p] = None]
          /\ buffer' = [buffer EXCEPT ![p] = None]
          /\ fresh' = fresh \ {p}
    /\ pos' = [pos EXCEPT ![p] = 0]
    /\ stage' = [stage EXCEPT ![p] = "unlock"]
    /\ UNCHANGED <<disk, op, cmds, bounds, bumped, peak>>

NewLineEmpty(p) == IF op[p] = "mark" THEN arg[p] ELSE None \* mutant: "" for "#"

NewLine(p) == IF op[p] = "mark" THEN arg[p] ELSE Blank

\* fflush(): the line at pos, or a line behind the last one.
Write(p) ==
    /\ stage[p] = "write"
    /\ file' = IF pos[p] > Len(file) THEN Append(file, NewLine(p))
               ELSE [file EXCEPT ![pos[p]] = NewLine(p)]
    /\ stage' = [stage EXCEPT ![p] = "unlock"]
    /\ fresh' = {}
    /\ bumped' = (bumped \/ p \in Bumps)
    /\ peak' = IF Cardinality(Entries') > peak THEN Cardinality(Entries') ELSE peak
    /\ UNCHANGED <<lock, buffer, op, arg, pos, cmds, bounds>>

Unlock(p) == stage[p] = "unlock" /\ lock' = None

\* fseek() fails, to the line found or to the end of the file: zoo_mark() and
\* zoo_clear() return without zoo_unlock().
SeekError(p) ==
    /\ stage[p] = "search" /\ op[p] # "getpid" /\ errors < MaxErrors
    /\ op[p] = "clear" => LinesOf(View(p), arg[p]) # {}
    /\ errors' = errors + 1

----------------------------------------------------------------------------
(* The drivers: an entry for every command, from after its fork() until it  *)
(* has been waited for, and one more while its process group has members.   *)

\* run_child(): fork(), exec(), zoo_mark_cmdline().
Start(p, q) ==
    /\ stage[p] = "idle" /\ starts < MaxStarts
    /\ owner[q] = None /\ q \notin proc
    /\ owner' = [owner EXCEPT ![q] = p]
    /\ proc' = proc \cup {q}
    /\ starts' = starts + 1
    /\ Begin(p, "mark", q)
    /\ UNCHANGED <<disk, orphans, lookups, crashes, errors, history>>

\* check_pids(): wait() has returned q, or check_orphans(): the group of q is
\* empty; zoo_clear().
End(p, q) ==
    /\ stage[p] = "idle" /\ owner[q] = p
    /\ proc' = proc \ {q}
    /\ Begin(p, "clear", q)
    /\ UNCHANGED <<disk, owner, orphans, bounds, history>>

PanMarked(p) ==
    /\ Unlock(p) /\ op[p] = "mark"
    /\ Finish(p, "idle")
    /\ UNCHANGED <<file, buffer, cmds, bounds, history>>

\* zoo_clear() is back and the group is empty.
PanCleared(p) ==
    /\ Unlock(p) /\ op[p] = "clear" /\ (pos[p] # 0 \/ arg[p] \in orphans)
    /\ Finish(p, "idle")
    /\ owner' = [owner EXCEPT ![arg[p]] = None]
    /\ orphans' = orphans \ {arg[p]}
    /\ UNCHANGED <<file, buffer, proc, bounds, history>>

PanOrphanUnmarked(p) ==     \* mutant: only mark_orphan() is called
    /\ Unlock(p) /\ op[p] = "clear" /\ pos[p] # 0 /\ arg[p] \notin orphans
    /\ orphans' = orphans \cup {arg[p]}
    /\ Finish(p, "idle")
    /\ UNCHANGED <<file, buffer, owner, proc, bounds, history>>

\* There are processes left in the group: a new entry, "panorphan".
PanOrphan(p) ==
    /\ Unlock(p) /\ op[p] = "clear" /\ pos[p] # 0 /\ arg[p] \notin orphans
    /\ orphans' = orphans \cup {arg[p]}
    /\ Begin(p, "mark", arg[p])
    /\ UNCHANGED <<file, owner, proc, bounds, history>>

Gone(p) ==
    /\ Finish(p, "gone")
    /\ owner' = [q \in Pids |-> IF owner[q] = p THEN None ELSE owner[q]]
    /\ orphans' = {q \in orphans : owner[q] # p}
    /\ UNCHANGED <<file, buffer, proc>>

PanFailsKept(p) ==          \* mutant: zoo_clear() returns without unlocking
    /\ stage[p] = "unlock" /\ op[p] = "clear" /\ pos[p] = 0 /\ arg[p] \notin orphans
    /\ Finish(p, "idle")
    /\ UNCHANGED <<disk, buffer, cmds, bounds, history>>

\* zoo_clear() of a command did not find its entry: exit(1).
PanFails(p) ==
    /\ Unlock(p) /\ op[p] = "clear" /\ pos[p] = 0 /\ arg[p] \notin orphans
    /\ Gone(p)
    /\ UNCHANGED <<bounds, history>>

\* After a seek error exit(1), which drops the lock.
PanSeekFails(p) ==
    /\ SeekError(p) /\ (op[p] = "mark" \/ arg[p] \notin orphans)
    /\ lock' = None
    /\ Gone(p)
    /\ UNCHANGED <<starts, lookups, crashes, history>>

\* But check_orphans() only prints a message, forgets the group, and goes on.
PanKeepsLock(p) ==
    /\ SeekError(p) /\ op[p] = "clear" /\ arg[p] \in orphans
    /\ Finish(p, "idle")
    /\ owner' = [owner EXCEPT ![arg[p]] = None]
    /\ orphans' = orphans \ {arg[p]}
    /\ UNCHANGED <<disk, buffer, proc, starts, lookups, crashes, history>>

\* The driver is killed; the kernel drops its lock.
Crash(p) ==
    /\ stage[p] # "gone" /\ crashes < MaxCrashes
    /\ crashes' = crashes + 1
    /\ lock' = IF lock = p THEN None ELSE lock
    /\ Gone(p)
    /\ UNCHANGED <<starts, lookups, errors, history>>

PanStep(p) ==
    \/ Lock(p) \/ SearchMark(p) \/ SearchClear(p) \/ Write(p)
    \/ PanMarked(p) \/ PanCleared(p) \/ PanOrphan(p) \/ PanFails(p)
    \/ PanSeekFails(p) \/ PanKeepsLock(p)

\* A command that no driver waits for ends.
Die(q) ==
    /\ q \in proc /\ owner[q] = None
    /\ proc' = proc \ {q}
    /\ UNCHANGED <<disk, step, owner, orphans, bounds, history>>

----------------------------------------------------------------------------
(* ltp-bump, for each of its tags: zoo_getpid(), kill(), and zoo_clear() when *)
(* there is no such process any more.                                        *)
Bump(b) ==
    /\ stage[b] = "idle" /\ lookups < MaxLookups
    /\ lookups' = lookups + 1
    /\ Begin(b, "getpid", None)
    /\ UNCHANGED <<disk, cmds, starts, crashes, errors, history>>

BumpUnlock(b) ==
    /\ Unlock(b)
    /\ IF op[b] = "getpid" /\ arg[b] # None
       THEN stage' = [stage EXCEPT ![b] = "kill"] /\ UNCHANGED <<op, arg, pos>>
       ELSE Finish(b, "idle")
    /\ UNCHANGED <<file, buffer, cmds, bounds, history>>

BumpKillBlind(b) ==         \* mutant: errno is not looked at
    /\ stage[b] = "kill"
    /\ Begin(b, "clear", arg[b])
    /\ UNCHANGED <<disk, cmds, bounds, history>>

BumpKill(b) ==
    /\ stage[b] = "kill"
    /\ IF arg[b] \in proc
       THEN Finish(b, "idle") /\ UNCHANGED buffer
       ELSE Begin(b, "clear", arg[b])
    /\ UNCHANGED <<disk, cmds, bounds, history>>

\* A seek error of zoo_clear(): a message, and on to the next tag.
BumpSeekFails(b) ==
    /\ SeekError(b)
    /\ Finish(b, "idle")
    /\ UNCHANGED buffer \/ buffer' = [buffer EXCEPT ![b] = None]
    /\ UNCHANGED <<disk, cmds, starts, lookups, crashes, history>>

\* After the last tag: zoo_close(), exit(0).
BumpExit(b) ==
    /\ stage[b] = "idle"
    /\ lock' = IF lock = b THEN None ELSE lock
    /\ Finish(b, "gone")
    /\ UNCHANGED <<file, buffer, cmds, bounds, history>>

BumpStep(b) ==
    \/ Lock(b) \/ SearchGetpid(b) \/ SearchClear(b) \/ Write(b)
    \/ BumpUnlock(b) \/ BumpKill(b) \/ BumpSeekFails(b) \/ BumpExit(b)

----------------------------------------------------------------------------
Next ==
    \/ \E p \in Pans : PanStep(p) \/ Crash(p) \/ \E q \in Pids : Start(p, q) \/ End(p, q)
    \/ \E b \in Bumps : BumpStep(b) \/ Bump(b)
    \/ \E q \in Pids : Die(q)

Spec == Init /\ [][Next]_vars

(* Every process that can take a step takes one.  That a waiting process gets *)
(* the lock then follows from the bounds: it is asked for finitely often.     *)
FairSpec ==
    /\ Spec
    /\ \A p \in Pans : WF_vars(PanStep(p))
    /\ \A b \in Bumps : WF_vars(BumpStep(b))

----------------------------------------------------------------------------
Types ==
    /\ file \in Seq(Lines) /\ lock \in Procs \cup {None}
    /\ buffer \in [Procs -> Seq(Lines) \cup {None}]
    /\ stage \in [Procs -> Stages] /\ op \in [Procs -> Ops]
    /\ arg \in [Procs -> Pids \cup {None}] /\ pos \in [Procs -> Nat]
    /\ owner \in [Pids -> Pans \cup {None}]
    /\ orphans \subseteq Pids /\ proc \subseteq Pids
    /\ starts \in 0..MaxStarts /\ lookups \in 0..MaxLookups /\ crashes \in 0..MaxCrashes
    /\ errors \in 0..MaxErrors
    /\ fresh \subseteq Procs /\ bumped \in BOOLEAN

TypeOK == Types /\ peak \in Nat

(* The driver of q is between two operations on its entry.                   *)
Recorded(q) ==
    /\ owner[q] # None
    /\ LET p == owner[q] IN arg[p] # q \/ stage[p] = "idle"

(* Nobody but its own driver takes the entry of a command out of the file:   *)
(* while no ltp-bump has cleared an entry, every command and every orphaned  *)
(* group that a driver has recorded is in the file, also when other drivers  *)
(* are killed, and the zoo_clear() of a driver, whose failure would end it   *)
(* (ltp-pan.c:876-880), finds it.                                            *)
RecordedListed ==
    ~ bumped =>
        /\ \A q \in Pids : Recorded(q) => Listed(q)
        /\ \A p \in Pans : stage[p] = "unlock" /\ op[p] = "clear" => pos[p] # 0

(* ltp-bump takes the entry of a process that exists only if the file was    *)
(* written since it read it: it clears a line of its old buffer              *)
(* (zoolib.c:221-246 after 276-291, ltp-bump.c:93-103).                      *)
OnlyStaleBumps ==
    [][\A q \in proc : Recorded(q) /\ Listed(q) /\ ~ Listed(q)' =>
          \E b \in Bumps \ fresh : stage[b] = "write"]_vars

(* The file does not grow beyond the most entries it ever had to hold:       *)
(* zoo_mark() appends only if there is no blank, whoever blanked it, and     *)
(* whatever crashed drivers have left (zoolib.c:146-179).                    *)
Compact == Len(file) <= Reserved \/ Len(file) <= peak

(* The operations of any number of processes on the lines of the file        *)
(* implement those on a bag, each taking effect at its fflush().             *)
Bag == INSTANCE ZooBag WITH entries <- [q \in Pids |-> Cardinality(LinesOf(file, q))]
BagSpec == Bag!Spec

(* A driver waits for its commands with the file locked, since a seek error. *)
KeepsLock(p) == lock = p /\ stage[p] = "idle" /\ errors > 0

(* Whoever asks for the lock gets it and finishes, or ends: no death of a    *)
(* process leaves the file locked, and neither does a path of an operation   *)
(* (zoolib.c:298-368), not even the seek errors that return without          *)
(* unlocking (154-160, 171-176, 232-238), because the process exits or soon  *)
(* locks and unlocks again.  The exception is a driver whose check_orphans() *)
(* has met one (ltp-pan.c:1321-1326) and which calls zoolib no more.         *)
OperationsEnd ==
    (\A r \in Pans : []<> ~ KeepsLock(r)) =>
        \A p \in Procs : stage[p] = "lock" ~> stage[p] \in {"idle", "gone"}
============================================================================
