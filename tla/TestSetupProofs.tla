-------------------------- MODULE TestSetupProofs --------------------------
(***************************************************************************)
(* Proofs of the properties of TestSetup, for any number of tests, loop     *)
(* devices, filesystems and failing calls, and any requests of the tests.   *)
(*                                                                          *)
(* The inductive invariant has three parts.  Local relates the flags of one *)
(* test to what it holds and to how far it has come.  Owner is about the    *)
(* loop devices, which the tests share, and Config about the configuration. *)
(***************************************************************************)
EXTENDS TestSetup, TLAPS

\* Leaves are for Zenon, unless they name another prover.
USE ZenonT(30)

\* What must be true before a test can come to these steps.
Early == {"ipc", "tmpdir", "save", "mkdir", "devfs"}
Checked == {"devfs", "rofs", "find", "attach", "status", "mkfs", "mount", "overlay", "last",
            "run", "next"}
HasPath == {"attach", "status", "mkfs", "mount"}
Prepared == {"overlay", "last"}
AfterUmountOvl == {"umount", "release", "rmdir", "restore", "clock", "unipc", "exited"}
AfterUmount == {"release", "rmdir", "restore", "clock", "unipc", "exited"}
AfterRelease == {"rmdir", "restore", "clock", "unipc", "exited"}
AfterRmdir == {"restore", "clock", "unipc", "exited"}
AfterRestore == {"clock", "unipc", "exited"}

\* Nothing is held without its flag, and after its turn in do_cleanup()
\* not without a warning.
Flags(t) ==
    /\ pc[t] = "exited" /\ "shm" \in held[t] => "shm" \in warned[t]
    /\ "dir" \in held[t] => testdir[t]
    /\ pc[t] \in AfterRmdir /\ "dir" \in held[t] => "dir" \in warned[t]
    /\ "mnt" \in held[t] => mntpoint_mounted[t] \/ "mnt" \in warned[t]
    /\ pc[t] \in AfterUmount /\ "mnt" \in held[t] => "mnt" \in warned[t]
    /\ "ovl" \in held[t] => ovl_mounted[t]
    /\ pc[t] \in AfterUmountOvl => "ovl" \notin held[t]
    /\ device_acquired[t] => opt[t].device /\ tries[t] < MaxClears /\ path[t] \in Devices

\* How often do_exit() is called.
Depth(t) ==
    /\ pc[t] \in SetupSteps => depth[t] = 0 /\ tries[t] = 0
    /\ pc[t] \in SetupSteps \/ depth[t] > 0
    /\ clock_saved[t] => depth[t] <= 1 \/ opt[t].overlay
    /\ depth[t] <= 2 \/ opt[t].overlay
    /\ ovl_mounted[t] => opt[t].overlay

\* How the requests o of a test lead to what it has before step s.
Provided(s, o, dev, has, mounted, acquired) ==
    /\ (o.mount => o.device) /\ (o.allfs => o.device)
    /\ s \in Checked /\ (o.mount \/ o.allfs) => ~ o.rofs /\ ~ o.devfs
    /\ s \in {"devfs", "rofs"} => ~ Conflict(o)
    /\ s \in Early => ~ mounted
    /\ s = "rofs" /\ mounted => o.devfs
    /\ s = "find" /\ o.device => ~ mounted
    /\ s \in HasPath => dev \in Devices
    /\ s \in {"mkfs", "mount", "overlay", "last", "run", "next"} /\ o.device => acquired
    /\ s \in Checked \ {"devfs", "rofs"} /\ o.rofs => "mnt" \in has \/ o.device
    /\ s \in {"attach", "status", "overlay"} /\ o.allfs => ~ mounted
    /\ s \in Prepared /\ o.mount /\ ~ o.allfs => "mnt" \in has
    /\ s = "run" /\ o.mount => "mnt" \in has
    /\ s \in {"last", "run", "next"} /\ o.overlay => "ovl" \in has
    /\ s \in {"last", "mkfs", "mount", "run", "next"} /\ o.allfs => ~ o.overlay
    /\ s \in Early \cup {"rofs", "find"} => dev = None
    /\ s \in HasPath => o.device
    /\ s = "next" => o.allfs
Asked(t) ==
    Provided(pc[t], opt[t], path[t], held[t], mntpoint_mounted[t], device_acquired[t])

\* The loop devices: one that is attached is in the books of its test, ...
Owned(u, d) ==
    loop[d] = u =>
        /\ path[u] = d
        /\ pc[u] = "status" \/ device_acquired[u] \/ "dev" \in warned[u]
        /\ pc[u] \in AfterRelease => "dev" \in warned[u]
\* ... one in the books is attached, until the test begins to release it, ...
Untaken(u) ==
    device_acquired[u] \/ pc[u] = "status" =>
        (u \notin stolen /\ tries[u] = 0 => loop[path[u]] = u)
\* ... and the test that it belongs to, or another one, has asked for an
\* automatic release.
Pending(d) ==
    d \in auto => loop[d] \in Tests /\ (loop[d] \notin stolen => tries[loop[d]] > 0)
Owner ==
    /\ \A u \in Tests : Untaken(u) /\ \A d \in Devices : Owned(u, d)
    /\ \A d \in Devices : Pending(d)

\* The configuration.
Config ==
    /\ \A t \in Tests : pc[t] \in Checked \cup {"mkdir"} /\ opt[t].conf => saved[t] # None
    /\ ~ dirty => \A t \in Tests : saved[t] # Changed
    /\ ~ dirty /\ conf = Changed =>
           \E t \in Tests : saved[t] # None /\ (pc[t] \notin AfterRestore \/ "conf" \in warned[t])

Local == \A t \in Tests : Flags(t) /\ Depth(t) /\ Asked(t)
IInv == TypeOK /\ Local /\ Owner /\ Config


----------------------------------------------------------------------------
\* The type invariant in parts that the provers can take one by one.
StepTypes ==
    /\ pc \in [Tests -> SetupSteps \cup CleanupSteps \cup {"exited", "overflow"}]
    /\ opt \in [Tests -> OptionType]
FlagTypes ==
    /\ testdir \in [Tests -> BOOLEAN] /\ mntpoint_mounted \in [Tests -> BOOLEAN]
    /\ ovl_mounted \in [Tests -> BOOLEAN] /\ device_acquired \in [Tests -> BOOLEAN]
    /\ clock_saved \in [Tests -> BOOLEAN]
NumberTypes ==
    /\ path \in [Tests -> Devices \cup {None}] /\ saved \in [Tests -> {Orig, Changed, None}]
    /\ fs \in [Tests -> 0..Filesystems] /\ tries \in [Tests -> 0..MaxClears]
    /\ depth \in [Tests -> 0..MaxDepth] /\ faults \in 0..MaxFaults
ResourceTypes == held \in [Tests -> SUBSET Resources]
WarningTypes == warned \in [Tests -> SUBSET (Resources \cup {"dev", "conf"})]
SystemTypes ==
    loop \in [Devices -> Tests \cup {None}] /\ auto \subseteq Devices /\ conf \in {Orig, Changed}
HistoryTypes == stolen \subseteq Tests /\ dirty \in BOOLEAN

\* They make up the type invariant of the set-up and clean-up code.
LEMMA TypeParts ==
    TypeOK <=> /\ StepTypes /\ FlagTypes /\ NumberTypes /\ ResourceTypes /\ WarningTypes
               /\ SystemTypes /\ HistoryTypes
BY DEF TypeOK, StepTypes, FlagTypes, NumberTypes, ResourceTypes, WarningTypes, SystemTypes,
       HistoryTypes

\* The same of the state after a step.
LEMMA TypePartsNext ==
    ASSUME StepTypes', FlagTypes', NumberTypes', ResourceTypes', WarningTypes', SystemTypes',
           HistoryTypes'
    PROVE  TypeOK'
BY DEF TypeOK, StepTypes, FlagTypes, NumberTypes, ResourceTypes, WarningTypes, SystemTypes,
       HistoryTypes

----------------------------------------------------------------------------
\* In the initial state (tst_test.c:48-79) a test has nothing.
LEMMA InitInvariant == Init => IInv
<1> SUFFICES ASSUME Init PROVE IInv
  OBVIOUS
<1> USE NumbersAssumption, NamesAssumption, OptionsAssumption DEF Init
<1>1. TypeOK
  <2>1. opt \in [Tests -> OptionType]
    OBVIOUS
  <2>2. pc \in [Tests -> SetupSteps \cup CleanupSteps \cup {"exited", "overflow"}]
    BY DEF SetupSteps
  <2>3. /\ path \in [Tests -> Devices \cup {None}] /\ saved \in [Tests -> {Orig, Changed, None}]
        /\ fs \in [Tests -> 0..Filesystems] /\ tries \in [Tests -> 0..MaxClears]
        /\ depth \in [Tests -> 0..MaxDepth]
        /\ loop \in [Devices -> Tests \cup {None}] /\ auto \subseteq Devices
    BY SMTT(30)
  <2>4. /\ held \in [Tests -> SUBSET Resources]
        /\ warned \in [Tests -> SUBSET (Resources \cup {"dev", "conf"})]
    OBVIOUS
  <2>5. HistoryTypes /\ FlagTypes
    BY DEF HistoryTypes, FlagTypes
  <2> QED
    BY <2>1, <2>2, <2>3, <2>4, <2>5, TypeParts, SMTT(30)
       DEF StepTypes, NumberTypes, ResourceTypes, WarningTypes, SystemTypes
<1>2. Local
  BY SMTT(30) DEF Local, Flags, Depth, Asked, Provided, SetupSteps, Checked, HasPath, Prepared, Early,
         AfterUmountOvl, AfterUmount, AfterRmdir, OptionType
<1>3. Owner
  BY DEF Owner, Owned, Untaken, Pending
<1>4. Config
  BY DEF Config, Checked
<1> QED
  BY <1>1, <1>2, <1>3, <1>4 DEF IInv

\* The variables of one test are not touched by a step of another one.
Kept(u) ==
    /\ pc'[u] = pc[u] /\ opt'[u] = opt[u] /\ path'[u] = path[u] /\ saved'[u] = saved[u]
    /\ testdir'[u] = testdir[u] /\ mntpoint_mounted'[u] = mntpoint_mounted[u]
    /\ ovl_mounted'[u] = ovl_mounted[u] /\ device_acquired'[u] = device_acquired[u]
    /\ clock_saved'[u] = clock_saved[u] /\ fs'[u] = fs[u] /\ tries'[u] = tries[u]
    /\ depth'[u] = depth[u] /\ held'[u] = held[u] /\ warned'[u] = warned[u]

LEMMA Others ==
    ASSUME TypeOK, NEW t \in Tests, NEW u \in Tests \ {t}, Setup(t) \/ Run(t) \/ Cleanup(t)
    PROVE  Kept(u)
<1>0. StepTypes /\ FlagTypes /\ NumberTypes /\ ResourceTypes /\ WarningTypes
  BY TypeParts
<1>a. /\ \A s : Set(pc, t, s) => pc'[u] = pc[u]
      /\ \A v : Set(opt, t, v) => opt'[u] = opt[u]
  BY <1>0 DEF StepTypes, Set
<1>b. \A v : Set(depth, t, v) => depth'[u] = depth[u]
  BY <1>0 DEF NumberTypes, Set
<1>c. \A s : Go(t, s) => pc'[u] = pc[u] /\ depth'[u] = depth[u]
  BY <1>a DEF Go
<1>d. DoExit(t) => pc'[u] = pc[u] /\ depth'[u] = depth[u]
  BY <1>a, <1>b, <1>c DEF DoExit
<1>e. \A s : Attempt(t, s) => pc'[u] = pc[u] /\ depth'[u] = depth[u]
  BY <1>c, <1>d DEF Attempt
<1>f. \A r : Hold(t, r) \/ Drop(t, r) => held'[u] = held[u]
  BY <1>0 DEF ResourceTypes, Hold, Drop, Set
<1>g. /\ \A v : Set(warned, t, v) => warned'[u] = warned[u]
      /\ \A r : Warn(t, r) => warned'[u] = warned[u]
  BY <1>0 DEF WarningTypes, Warn, Set
<1>h. /\ \A v : Set(testdir, t, v) => testdir'[u] = testdir[u]
      /\ \A v : Set(mntpoint_mounted, t, v) => mntpoint_mounted'[u] = mntpoint_mounted[u]
      /\ \A v : Set(ovl_mounted, t, v) => ovl_mounted'[u] = ovl_mounted[u]
  BY <1>0 DEF FlagTypes, Set
<1>i. /\ \A v : Set(device_acquired, t, v) => device_acquired'[u] = device_acquired[u]
      /\ \A v : Set(clock_saved, t, v) => clock_saved'[u] = clock_saved[u]
  BY <1>0 DEF FlagTypes, Set
<1>j. /\ \A v : Set(path, t, v) => path'[u] = path[u]
      /\ \A v : Set(saved, t, v) => saved'[u] = saved[u]
      /\ \A v : Set(fs, t, v) => fs'[u] = fs[u]
      /\ \A v : Set(tries, t, v) => tries'[u] = tries[u]
  BY <1>0 DEF NumberTypes, Set
<1> USE <1>a, <1>c, <1>d, <1>e, <1>f, <1>g, <1>h, <1>i, <1>j DEF Kept, memory, flags, devices, history
<1>1. CASE Setup(t)
  <2>1. CASE SetupIpc(t)
    BY <2>1 DEF SetupIpc
  <2>2. CASE Tmpdir(t)
    BY <2>2 DEF Tmpdir
  <2>3. CASE Save(t)
    BY <2>3 DEF Save
  <2>4. CASE Mkdir(t)
    BY <2>4 DEF Mkdir
  <2>5. CASE DevFs(t)
    BY <2>5 DEF DevFs, Mounted
  <2>6. CASE RoFs(t)
    BY <2>6 DEF RoFs, Mounted
  <2>7. CASE Find(t)
    BY <2>7 DEF Find
  <2>8. CASE Attach(t)
    BY <2>8 DEF Attach
  <2>9. CASE SetStatus(t)
    BY <1>0, <2>9 DEF SetStatus, Go, Set, StepTypes
  <2>10. CASE Mkfs(t)
    BY <2>10 DEF Mkfs
  <2>11. CASE MountDevice(t)
    BY <1>0, <2>11 DEF MountDevice, Mounted, Go, Set, StepTypes
  <2>12. CASE Overlay(t)
    BY <2>12 DEF Overlay
  <2>13. CASE Last(t)
    BY <1>0, <2>13 DEF Last, Go, Set, StepTypes
  <2> QED
    BY <1>1, <2>1, <2>2, <2>3, <2>4, <2>5, <2>6, <2>7, <2>8, <2>9, <2>10, <2>11, <2>12, <2>13 DEF Setup
<1>2. CASE Run(t)
  <2>1. CASE RunChanges(t)
    BY <2>1 DEF RunChanges
  <2>2. CASE RunEnds(t)
    BY <2>2 DEF RunEnds
  <2>3. CASE NextFs(t)
    BY <2>3 DEF NextFs, Unmounted, StaysMounted
  <2> QED
    BY <1>2, <2>1, <2>2, <2>3 DEF Run
<1>3. CASE Cleanup(t)
  <2>1. CASE UmountOverlay(t)
    BY <2>1 DEF UmountOverlay
  <2>2. CASE Umount(t)
    BY <2>2 DEF Umount, Unmounted, StaysMounted
  <2>3. CASE NothingToRelease(t)
    BY <2>3 DEF NothingToRelease
  <2>4. CASE Release(t)
    BY <2>4 DEF Release, Released, ClearDevice
  <2>5. CASE Rmdir(t)
    BY <2>5 DEF Rmdir
  <2>6. CASE Restore(t)
    BY <2>6 DEF Restore
  <2>7. CASE RestoreClock(t)
    BY <2>7 DEF RestoreClock
  <2>8. CASE CleanupIpc(t)
    BY <2>8 DEF CleanupIpc
  <2> QED
    BY <1>3, <2>1, <2>2, <2>3, <2>4, <2>5, <2>6, <2>7, <2>8 DEF Cleanup
<1> QED
  BY <1>1, <1>2, <1>3

----------------------------------------------------------------------------
\* The fallback of needs_rofs (tst_test.c:1003-1008) is a request like others.
LEMMA FallbackType ==
    ASSUME NEW o \in OptionType
    PROVE  Fallback(o) \in OptionType
BY DEF Fallback, OptionType

\* Each step keeps the types (tst_detach_device_by_fd() stops after so many
\* calls, tst_device.c:196).
LEMMA TypeStep ==
    ASSUME TypeOK, Local, NEW t \in Tests, Setup(t) \/ Run(t) \/ Cleanup(t)
    PROVE  TypeOK'
<1>0. /\ StepTypes /\ FlagTypes /\ NumberTypes /\ ResourceTypes /\ WarningTypes
      /\ SystemTypes /\ HistoryTypes
  BY TypeParts
<1>1. StepTypes'
  <2> USE DEF memory, Set, Go, DoExit, Attempt, SetupSteps, CleanupSteps, StepTypes
  <2>1. CASE SetupIpc(t) \/ Tmpdir(t) \/ Save(t) \/ Mkdir(t)
    BY <1>0, <2>1 DEF SetupIpc, Tmpdir, Save, Mkdir
  <2>2. CASE DevFs(t) \/ RoFs(t) \/ Find(t)
    BY <1>0, <2>2, FallbackType, SMTT(30) DEF DevFs, RoFs, Find
  <2>3. CASE Attach(t) \/ SetStatus(t)
    BY <1>0, <2>3 DEF Attach, SetStatus
  <2>4. CASE Mkfs(t) \/ MountDevice(t)
    BY <1>0, <2>4 DEF Mkfs, MountDevice
  <2>5. CASE Overlay(t) \/ Last(t)
    BY <1>0, <2>5 DEF Overlay, Last
  <2>6. CASE RunChanges(t) \/ RunEnds(t) \/ NextFs(t)
    BY <1>0, <2>6 DEF RunChanges, RunEnds, NextFs
  <2>7. CASE UmountOverlay(t) \/ Umount(t) \/ NothingToRelease(t)
    BY <1>0, <2>7 DEF UmountOverlay, Umount, NothingToRelease
  <2>8. CASE Release(t)
    BY <1>0, <2>8 DEF Release, Released
  <2>9. CASE Rmdir(t) \/ Restore(t) \/ RestoreClock(t) \/ CleanupIpc(t)
    BY <1>0, <2>9 DEF Rmdir, Restore, RestoreClock, CleanupIpc
  <2> QED
    BY <2>1, <2>2, <2>3, <2>4, <2>5, <2>6, <2>7, <2>8, <2>9 DEF Setup, Run, Cleanup
<1>2. FlagTypes'
  <2> USE DEF memory, flags, Set, FlagTypes
  <2>1. CASE SetupIpc(t) \/ Tmpdir(t) \/ Save(t) \/ Mkdir(t)
    BY <1>0, <2>1 DEF SetupIpc, Tmpdir, Save, Mkdir
  <2>2. CASE DevFs(t) \/ RoFs(t) \/ Find(t)
    BY <1>0, <2>2 DEF DevFs, RoFs, Find, Mounted
  <2>3. CASE Attach(t) \/ SetStatus(t)
    BY <1>0, <2>3 DEF Attach, SetStatus
  <2>4. CASE Mkfs(t) \/ MountDevice(t)
    BY <1>0, <2>4 DEF Mkfs, MountDevice, Mounted
  <2>5. CASE Overlay(t) \/ Last(t)
    BY <1>0, <2>5 DEF Overlay, Last, StepTypes, OptionType
  <2>6. CASE RunChanges(t) \/ RunEnds(t) \/ NextFs(t)
    BY <1>0, <2>6 DEF RunChanges, RunEnds, NextFs
  <2>7. CASE UmountOverlay(t) \/ Umount(t) \/ NothingToRelease(t)
    BY <1>0, <2>7 DEF UmountOverlay, Umount, NothingToRelease
  <2>8. CASE Release(t)
    BY <1>0, <2>8 DEF Release, Released
  <2>9. CASE Rmdir(t) \/ Restore(t) \/ RestoreClock(t) \/ CleanupIpc(t)
    BY <1>0, <2>9 DEF Rmdir, Restore, RestoreClock, CleanupIpc
  <2> QED
    BY <2>1, <2>2, <2>3, <2>4, <2>5, <2>6, <2>7, <2>8, <2>9 DEF Setup, Run, Cleanup
<1>3. NumberTypes'
  <2> USE DEF memory, Set, Go, DoExit, Works, Fails, Attempt, NumberTypes
  <2>1. CASE SetupIpc(t) \/ Tmpdir(t) \/ Save(t) \/ Mkdir(t)
    BY <1>0, <2>1, NumbersAssumption, SMTT(30) DEF SetupIpc, Tmpdir, Save, Mkdir, SystemTypes
  <2>2. CASE DevFs(t) \/ RoFs(t) \/ Find(t)
    BY <1>0, <2>2, NumbersAssumption, SMTT(30) DEF DevFs, RoFs, Find, Mounted
  <2>3. CASE Attach(t) \/ SetStatus(t)
    BY <1>0, <2>3, NumbersAssumption, SMTT(30) DEF Attach, SetStatus
  <2>4. CASE Mkfs(t) \/ MountDevice(t)
    BY <1>0, <2>4, NumbersAssumption, SMTT(30) DEF Mkfs, MountDevice, Mounted
  <2>5. CASE Overlay(t) \/ Last(t)
    BY <1>0, <2>5, NumbersAssumption, SMTT(30) DEF Overlay, Last
  <2>6. CASE RunChanges(t) \/ RunEnds(t) \/ NextFs(t)
    BY <1>0, <2>6, NumbersAssumption, SMTT(30) DEF RunChanges, RunEnds, NextFs, Unmounted,
       StaysMounted
  <2>7. CASE UmountOverlay(t) \/ Umount(t) \/ NothingToRelease(t)
    BY <1>0, <2>7, NumbersAssumption, SMTT(30) DEF UmountOverlay, Umount, NothingToRelease, Unmounted,
       StaysMounted
  <2>8. CASE Release(t)
    <3>1. tries[t] \in 0..MaxClears /\ tries[t] < MaxClears
      BY <1>0, <2>8 DEF Release, Local, Flags
    <3>2. tries' = tries \/ tries' = [tries EXCEPT ![t] = tries[t] + 1]
      BY <2>8 DEF Release
    <3>3. tries' \in [Tests -> 0..MaxClears]
      BY <1>0, <3>1, <3>2, NumbersAssumption, SMTT(30)
    <3>4. depth' = depth /\ path' = path /\ saved' = saved /\ fs' = fs
      BY <2>8 DEF Release, Released
    <3>5. faults' \in 0..MaxFaults
      BY <1>0, <2>8, NumbersAssumption, SMTT(30) DEF Release, ClearDevice
    <3> QED
      BY <1>0, <3>3, <3>4, <3>5
  <2>9. CASE Rmdir(t) \/ Restore(t)
    BY <1>0, <2>9, NumbersAssumption, SMTT(30) DEF Rmdir, Restore
  <2>10. CASE RestoreClock(t) \/ CleanupIpc(t)
    BY <1>0, <2>10, NumbersAssumption, SMTT(30) DEF RestoreClock, CleanupIpc
  <2> QED
    BY <2>1, <2>2, <2>3, <2>4, <2>5, <2>6, <2>7, <2>8, <2>9, <2>10 DEF Setup, Run, Cleanup
<1>4. ResourceTypes'
  <2> USE DEF Set, Hold, Drop, Resources, ResourceTypes
  <2>1. CASE SetupIpc(t) \/ Tmpdir(t) \/ Save(t) \/ Mkdir(t)
    BY <1>0, <2>1 DEF SetupIpc, Tmpdir, Save, Mkdir
  <2>2. CASE DevFs(t) \/ RoFs(t) \/ Find(t)
    BY <1>0, <2>2 DEF DevFs, RoFs, Find, Mounted
  <2>3. CASE Attach(t) \/ SetStatus(t)
    BY <1>0, <2>3 DEF Attach, SetStatus
  <2>4. CASE Mkfs(t) \/ MountDevice(t)
    BY <1>0, <2>4 DEF Mkfs, MountDevice, Mounted
  <2>5. CASE Overlay(t)
    BY <1>0, <2>5, SMTT(30) DEF Overlay
  <2>10. CASE Last(t)
    BY <1>0, <2>10 DEF Last
  <2>6. CASE RunChanges(t) \/ RunEnds(t) \/ NextFs(t)
    BY <1>0, <2>6 DEF RunChanges, RunEnds, NextFs, Unmounted, StaysMounted
  <2>7. CASE UmountOverlay(t) \/ Umount(t) \/ NothingToRelease(t)
    BY <1>0, <2>7 DEF UmountOverlay, Umount, NothingToRelease, Unmounted, StaysMounted
  <2>8. CASE Release(t)
    BY <1>0, <2>8 DEF Release, Released
  <2>9. CASE Rmdir(t) \/ Restore(t) \/ RestoreClock(t) \/ CleanupIpc(t)
    BY <1>0, <2>9 DEF Rmdir, Restore, RestoreClock, CleanupIpc
  <2> QED
    BY <2>1, <2>2, <2>3, <2>4, <2>5, <2>6, <2>7, <2>8, <2>9, <2>10 DEF Setup, Run, Cleanup
<1>5. WarningTypes'
  <2> USE DEF history, Set, Warn, Resources, WarningTypes
  <2>1. CASE SetupIpc(t) \/ Tmpdir(t) \/ Save(t) \/ Mkdir(t)
    BY <1>0, <2>1 DEF SetupIpc, Tmpdir, Save, Mkdir
  <2>2. CASE DevFs(t) \/ RoFs(t) \/ Find(t)
    BY <1>0, <2>2 DEF DevFs, RoFs, Find
  <2>3. CASE Attach(t) \/ SetStatus(t)
    BY <1>0, <2>3 DEF Attach, SetStatus
  <2>4. CASE Mkfs(t) \/ MountDevice(t)
    BY <1>0, <2>4 DEF Mkfs, MountDevice
  <2>5. CASE Overlay(t) \/ Last(t)
    BY <1>0, <2>5 DEF Overlay, Last
  <2>6. CASE RunChanges(t) \/ RunEnds(t) \/ NextFs(t)
    BY <1>0, <2>6 DEF RunChanges, RunEnds, NextFs, Unmounted, StaysMounted
  <2>7. CASE UmountOverlay(t) \/ Umount(t) \/ NothingToRelease(t)
    BY <1>0, <2>7 DEF UmountOverlay, Umount, NothingToRelease, Unmounted, StaysMounted
  <2>8. CASE Release(t)
    BY <1>0, <2>8 DEF Release, Released, ClearDevice
  <2>9. CASE Rmdir(t) \/ Restore(t) \/ RestoreClock(t) \/ CleanupIpc(t)
    BY <1>0, <2>9 DEF Rmdir, Restore, RestoreClock, CleanupIpc
  <2> QED
    BY <2>1, <2>2, <2>3, <2>4, <2>5, <2>6, <2>7, <2>8, <2>9 DEF Setup, Run, Cleanup
<1>6. SystemTypes'
  <2> USE DEF devices, Set, SystemTypes
  <2>1. CASE SetupIpc(t) \/ Tmpdir(t) \/ Save(t) \/ Mkdir(t)
    BY <1>0, <2>1 DEF SetupIpc, Tmpdir, Save, Mkdir
  <2>2. CASE DevFs(t) \/ RoFs(t) \/ Find(t)
    BY <1>0, <2>2 DEF DevFs, RoFs, Find
  <2>3. CASE Attach(t) \/ SetStatus(t)
    BY <1>0, <2>3 DEF Attach, SetStatus
  <2>4. CASE Mkfs(t) \/ MountDevice(t)
    BY <1>0, <2>4 DEF Mkfs, MountDevice
  <2>5. CASE Overlay(t) \/ Last(t)
    BY <1>0, <2>5 DEF Overlay, Last
  <2>6. CASE RunChanges(t) \/ RunEnds(t) \/ NextFs(t)
    BY <1>0, <2>6 DEF RunChanges, RunEnds, NextFs, Unmounted, StaysMounted
  <2>7. CASE UmountOverlay(t) \/ Umount(t) \/ NothingToRelease(t)
    BY <1>0, <2>7 DEF UmountOverlay, Umount, NothingToRelease, Unmounted, StaysMounted
  <2>8. CASE Release(t)
    <3>1. path[t] \in Devices
      BY <2>8 DEF Release, Local, Flags
    <3>2. CASE ClearDevice(t) /\ conf' = conf
      <4>1. \/ auto' = auto \cup {path[t]} /\ loop' = loop
            \/ auto' = auto \ {path[t]} /\ loop' = [loop EXCEPT ![path[t]] = None]
        BY <3>2 DEF ClearDevice
      <4> QED
        BY <1>0, <3>1, <3>2, <4>1
    <3>3. CASE UNCHANGED <<loop, auto, conf>>
      BY <1>0, <3>3
    <3> QED
      BY <2>8, <3>2, <3>3 DEF Release
  <2>9. CASE Rmdir(t) \/ Restore(t) \/ RestoreClock(t) \/ CleanupIpc(t)
    BY <1>0, <2>9 DEF Rmdir, Restore, RestoreClock, CleanupIpc, NumberTypes
  <2> QED
    BY <2>1, <2>2, <2>3, <2>4, <2>5, <2>6, <2>7, <2>8, <2>9 DEF Setup, Run, Cleanup
<1>7. HistoryTypes'
  <2> USE DEF history, Warn, HistoryTypes
  <2>1. CASE SetupIpc(t) \/ Tmpdir(t) \/ Mkdir(t)
    BY <1>0, <2>1 DEF SetupIpc, Tmpdir, Mkdir
  <2>10. CASE Save(t)
    BY <1>0, <2>10 DEF Save
  <2>2. CASE DevFs(t) \/ RoFs(t) \/ Find(t)
    BY <1>0, <2>2 DEF DevFs, RoFs, Find
  <2>3. CASE Attach(t) \/ SetStatus(t)
    BY <1>0, <2>3 DEF Attach, SetStatus
  <2>4. CASE Mkfs(t) \/ MountDevice(t)
    BY <1>0, <2>4 DEF Mkfs, MountDevice
  <2>5. CASE Overlay(t) \/ Last(t)
    BY <1>0, <2>5 DEF Overlay, Last
  <2>6. CASE RunChanges(t) \/ RunEnds(t) \/ NextFs(t)
    BY <1>0, <2>6 DEF RunChanges, RunEnds, NextFs, Unmounted, StaysMounted
  <2>7. CASE UmountOverlay(t) \/ Umount(t) \/ NothingToRelease(t)
    BY <1>0, <2>7 DEF UmountOverlay, Umount, NothingToRelease, Unmounted, StaysMounted
  <2>8. CASE Release(t)
    <3>0. path[t] \in Devices
      BY <2>8 DEF Release, Local, Flags
    <3>1. stolen' = stolen \/ (~ Free(path[t]) /\ stolen' = stolen \cup ({loop[path[t]]} \ {t}))
      BY <2>8 DEF Release, ClearDevice
    <3>2. dirty' = dirty
      BY <2>8 DEF Release, ClearDevice
    <3>4. Free(path[t]) \/ loop[path[t]] \in Tests
      BY <1>0, <3>0 DEF Free, SystemTypes
    <3>5. stolen \subseteq Tests
      BY <1>0
    <3>3. stolen' \subseteq Tests
      BY <3>1, <3>4, <3>5
    <3> QED
      BY <1>0, <3>2, <3>3
  <2>9. CASE Rmdir(t) \/ Restore(t) \/ RestoreClock(t) \/ CleanupIpc(t)
    BY <1>0, <2>9 DEF Rmdir, Restore, RestoreClock, CleanupIpc
  <2> QED
    BY <2>1, <2>2, <2>3, <2>4, <2>5, <2>6, <2>7, <2>8, <2>9, <2>10 DEF Setup, Run, Cleanup
<1> QED
  BY <1>1, <1>2, <1>3, <1>4, <1>5, <1>6, <1>7, TypePartsNext

----------------------------------------------------------------------------
\* What holds for a test that is not involved goes on to do so.
LEMMA LocalOthers ==
    ASSUME TypeOK, Local, NEW t \in Tests, NEW u \in Tests \ {t},
           Setup(t) \/ Run(t) \/ Cleanup(t)
    PROVE  Flags(u)' /\ Depth(u)' /\ Asked(u)'
<1>1. Kept(u)
  BY Others
<1>2. Flags(u) /\ Depth(u) /\ Asked(u)
  BY DEF Local
<1>3. Flags(u)'
  BY <1>1, <1>2 DEF Kept, Flags
<1>4. Depth(u)'
  BY <1>1, <1>2 DEF Kept, Depth
<1>5. Asked(u)'
  <2>1. /\ pc'[u] = pc[u] /\ opt'[u] = opt[u] /\ path'[u] = path[u] /\ held'[u] = held[u]
        /\ mntpoint_mounted'[u] = mntpoint_mounted[u] /\ device_acquired'[u] = device_acquired[u]
    BY <1>1 DEF Kept
  <2> QED
    BY <1>2, <2>1 DEF Asked
<1> QED
  BY <1>3, <1>4, <1>5

\* prepare_and_mount_ro_fs() changes the request only by the fallback.
LEMMA RoFsRequest ==
    ASSUME TypeOK, NEW t \in Tests, RoFs(t)
    PROVE  LET o == opt[t]  n == opt'[t]
           IN  /\ n.mount = o.mount /\ n.allfs = o.allfs /\ n.rofs = o.rofs
               /\ n.devfs = o.devfs /\ n.overlay = o.overlay /\ n.conf = o.conf
               /\ n.clock = o.clock /\ (n = o \/ n.device) /\ Fallback(o).device
<1>1. opt[t] \in OptionType
  BY DEF TypeOK
<1>2. opt'[t] = opt[t] \/ opt'[t] = Fallback(opt[t])
  BY DEF TypeOK, RoFs, Set
<1> QED
  BY <1>1, <1>2 DEF OptionType, Fallback

\* do_cleanup() (tst_test.c:1079-1102) gives back, or warns about, what has a flag.
LEMMA FlagsStep ==
    ASSUME TypeOK, Local, NEW t \in Tests, Setup(t) \/ Run(t) \/ Cleanup(t)
    PROVE  Flags(t)'
<1>0. Flags(t) /\ Depth(t) /\ Asked(t)
  BY DEF Local
<1> USE NumbersAssumption
    DEF TypeOK, memory, flags, history, Set, Go, Hold, Drop, Warn, DoExit, Attempt, Flags,
        AfterUmountOvl, AfterUmount, AfterRmdir
<1>1. CASE Setup(t)
  <2>1. CASE SetupIpc(t)
    BY <1>0, <2>1, SMTT(30) DEF SetupIpc
  <2>2. CASE Tmpdir(t)
    BY <1>0, <2>2, SMTT(30) DEF Tmpdir
  <2>3. CASE Save(t) \/ Mkdir(t)
    BY <1>0, <2>3, SMTT(30) DEF Save, Mkdir
  <2>4. CASE DevFs(t)
    BY <1>0, <2>4, SMTT(30) DEF DevFs, Mounted
  <2>5. CASE RoFs(t)
    <3>1. opt[t].device => opt'[t].device
      BY <2>5, RoFsRequest
    <3> QED
      BY <1>0, <2>5, <3>1, SMTT(30) DEF RoFs, Mounted
  <2>6. CASE Find(t)
    BY <1>0, <2>6, SMTT(30) DEF Find
  <2>11. CASE Attach(t)
    BY <1>0, <2>11, SMTT(30) DEF Attach
  <2>7. CASE SetStatus(t)
    <3>1. opt[t].device /\ tries[t] = 0 /\ path[t] \in Devices
      BY <1>0, <2>7 DEF SetStatus, Depth, SetupSteps, Asked, Provided, HasPath
    <3> QED
      BY <1>0, <2>7, <3>1, SMTT(30) DEF SetStatus
  <2>8. CASE Mkfs(t)
    BY <1>0, <2>8, SMTT(30) DEF Mkfs
  <2>9. CASE MountDevice(t)
    <3>1. /\ UNCHANGED <<warned, testdir, ovl_mounted, device_acquired, tries, path, opt>>
          /\ pc'[t] \in {"run", "overlay", "ovl", "overflow"}
      BY <2>9, SMTT(30) DEF MountDevice
    <3>2. \/ UNCHANGED <<mntpoint_mounted, held>>
          \/ mntpoint_mounted'[t] /\ held'[t] = held[t] \cup {"mnt"}
      BY <2>9, SMTT(30) DEF MountDevice, Mounted
    <3> QED
      BY <1>0, <3>1, <3>2
  <2>10. CASE Overlay(t)
    <3>1. /\ UNCHANGED <<warned, testdir, mntpoint_mounted, device_acquired, tries, path, opt>>
          /\ pc'[t] \in {"last", "ovl", "overflow"}
      BY <2>10 DEF Overlay
    <3>2. \/ UNCHANGED <<ovl_mounted, held>>
          \/ ovl_mounted'[t] /\ held'[t] = held[t] \cup {"ovl"}
      BY <2>10 DEF Overlay
    <3> QED
      BY <1>0, <3>1, <3>2
  <2>12. CASE Last(t)
    <3>1. /\ UNCHANGED <<warned, testdir, mntpoint_mounted, ovl_mounted, held>>
          /\ UNCHANGED <<device_acquired, tries, path, opt>>
          /\ pc'[t] \in {"mkfs", "run", "ovl", "overflow"}
      BY <2>12 DEF Last
    <3> QED
      BY <1>0, <3>1
  <2> QED
    BY <1>1, <2>1, <2>2, <2>3, <2>4, <2>5, <2>6, <2>7, <2>8, <2>9, <2>10,
       <2>11, <2>12 DEF Setup
<1>2. CASE Run(t)
  <2>1. CASE RunChanges(t) \/ RunEnds(t)
    BY <1>0, <2>1, SMTT(30) DEF RunChanges, RunEnds
  <2>2. CASE NextFs(t)
    BY <1>0, <2>2, SMTT(30) DEF NextFs, Unmounted, StaysMounted
  <2> QED
    BY <1>2, <2>1, <2>2 DEF Run
<1>3. CASE Cleanup(t)
  <2>1. CASE UmountOverlay(t) \/ NothingToRelease(t)
    BY <1>0, <2>1, SMTT(30) DEF UmountOverlay, NothingToRelease
  <2>2. CASE Umount(t)
    BY <1>0, <2>2, SMTT(30) DEF Umount, Unmounted, StaysMounted
  <2>3. CASE Release(t)
    BY <1>0, <2>3, SMTT(30) DEF Release, Released, ClearDevice
  <2>4. CASE Rmdir(t) \/ Restore(t)
    BY <1>0, <2>4, SMTT(30) DEF Rmdir, Restore
  <2>5. CASE RestoreClock(t) \/ CleanupIpc(t)
    BY <1>0, <2>5, SMTT(30) DEF RestoreClock, CleanupIpc
  <2> QED
    BY <1>3, <2>1, <2>2, <2>3, <2>4, <2>5 DEF Cleanup
<1> QED
  BY <1>1, <1>2, <1>3

\* During do_setup() do_exit() has not been called; a tst_brk() calls it once.
Breaks(t) ==
    /\ \/ pc'[t] \in SetupSteps /\ depth'[t] = 0
       \/ pc'[t] = "ovl" /\ depth'[t] = 1
    /\ tries'[t] = tries[t] /\ opt'[t].overlay = opt[t].overlay
    /\ ovl_mounted'[t] => ovl_mounted[t] \/ opt[t].overlay

LEMMA SetupBreaks ==
    ASSUME TypeOK, NEW t \in Tests, depth[t] = 0, Setup(t)
    PROVE  Breaks(t)
<1>0. StepTypes /\ NumberTypes /\ FlagTypes
  BY TypeParts
<1> USE <1>0, NumbersAssumption
    DEF memory, flags, Set, Go, DoExit, Attempt, Breaks, SetupSteps, StepTypes, NumberTypes,
        FlagTypes
<1>1. CASE SetupIpc(t)
  BY <1>1, SMTT(30) DEF SetupIpc
<1>2. CASE Tmpdir(t)
  BY <1>2, SMTT(30) DEF Tmpdir
<1>3. CASE Save(t)
  BY <1>3, SMTT(30) DEF Save
<1>4. CASE Mkdir(t)
  BY <1>4, SMTT(30) DEF Mkdir
<1>5. CASE DevFs(t)
  BY <1>5, SMTT(30) DEF DevFs
<1>6. CASE RoFs(t)
  <2>1. opt'[t].overlay = opt[t].overlay
    BY <1>6, RoFsRequest
  <2> QED
    BY <1>6, <2>1, SMTT(30) DEF RoFs
<1>7. CASE Find(t)
  BY <1>7, SMTT(30) DEF Find
<1>8. CASE Attach(t)
  BY <1>8, SMTT(30) DEF Attach
<1>9. CASE SetStatus(t)
  BY <1>9, SMTT(30) DEF SetStatus
<1>10. CASE Mkfs(t)
  BY <1>10, SMTT(30) DEF Mkfs
<1>11. CASE MountDevice(t)
  BY <1>11, SMTT(30) DEF MountDevice
<1>12. CASE Overlay(t)
  BY <1>12, SMTT(30) DEF Overlay
<1>13. CASE Last(t)
  BY <1>13, SMTT(30) DEF Last
<1> QED
  BY <1>1, <1>2, <1>3, <1>4, <1>5, <1>6, <1>7, <1>8, <1>9, <1>10, <1>11, <1>12, <1>13
     DEF Setup

\* Only tst_wallclock_restore() and a failing umount call do_exit() again.
LEMMA DepthStep ==
    ASSUME TypeOK, Local, NEW t \in Tests, Setup(t) \/ Run(t) \/ Cleanup(t)
    PROVE  Depth(t)'
<1>0. Depth(t)
  BY DEF Local
<1>1. CASE Setup(t)
  <2>1. pc[t] \in SetupSteps
    BY <1>1 DEF Setup, SetupIpc, Tmpdir, Save, Mkdir, DevFs, RoFs, Find, Attach, SetStatus,
       Mkfs, MountDevice, Overlay, Last, SetupSteps
  <2>2. depth[t] = 0 /\ tries[t] = 0 /\ (ovl_mounted[t] => opt[t].overlay)
    BY <1>0, <2>1 DEF Depth
  <2>3. Breaks(t)
    BY <1>1, <2>2, SetupBreaks
  <2> QED
    BY <2>2, <2>3, SMTT(30) DEF Depth, Breaks, SetupSteps
<1> USE NumbersAssumption
    DEF TypeOK, memory, flags, Set, Go, DoExit, Depth, SetupSteps
<1>2. CASE Run(t)
  <2>1. CASE RunChanges(t) \/ RunEnds(t)
    BY <1>0, <2>1, SMTT(30) DEF RunChanges, RunEnds
  <2>2. CASE NextFs(t)
    BY <1>0, <2>2, SMTT(30) DEF NextFs
  <2> QED
    BY <1>2, <2>1, <2>2 DEF Run
<1>3. CASE Cleanup(t)
  <2>1. CASE UmountOverlay(t) \/ NothingToRelease(t)
    BY <1>0, <2>1, SMTT(30) DEF UmountOverlay, NothingToRelease
  <2>2. CASE Umount(t)
    BY <1>0, <2>2 DEF Umount
  <2>3. CASE Release(t)
    BY <1>0, <2>3, SMTT(30) DEF Release, Released
  <2>4. CASE Rmdir(t) \/ Restore(t)
    BY <1>0, <2>4, SMTT(30) DEF Rmdir, Restore
  <2>5. CASE RestoreClock(t) \/ CleanupIpc(t)
    BY <1>0, <2>5, SMTT(30) DEF RestoreClock, CleanupIpc
  <2> QED
    BY <1>3, <2>1, <2>2, <2>3, <2>4, <2>5 DEF Cleanup
<1> QED
  BY <1>1, <1>2, <1>3

\* The requests lead to nothing once do_exit() is called (tst_test.c:717).
LEMMA AskedOutside ==
    ASSUME NEW t \in Tests, Asked(t), pc'[t] \notin SetupSteps, opt'[t] = opt[t]
    PROVE  Asked(t)'
BY DEF Asked, Provided, SetupSteps, Early, Checked, HasPath, Prepared

\* Each step of do_setup() (tst_test.c:905-1048) leads to the next with what this needs.
LEMMA AskedSetup ==
    ASSUME TypeOK, Local, NEW t \in Tests, Setup(t)
    PROVE  Asked(t)'
<1>0. Flags(t) /\ Asked(t)
  BY DEF Local
<1> USE DEF TypeOK, memory, flags, Set, Go, Hold, DoExit, Attempt
<1>1. CASE SetupIpc(t)
  <2>1. /\ pc[t] = "ipc" /\ pc'[t] \in {"tmpdir", "ovl", "overflow"}
        /\ opt'[t] = opt[t] /\ path'[t] = path[t]
        /\ mntpoint_mounted'[t] = mntpoint_mounted[t]
    BY <1>1 DEF SetupIpc
  <2> QED
    BY <1>0, <2>1 DEF Asked, Provided, Early, Checked, HasPath, Prepared
<1>2. CASE Tmpdir(t)
  <2>1. /\ pc[t] = "tmpdir" /\ pc'[t] \in {"save", "ovl", "overflow"}
        /\ opt'[t] = opt[t] /\ path'[t] = path[t]
        /\ mntpoint_mounted'[t] = mntpoint_mounted[t]
    BY <1>2, SMTT(30) DEF Tmpdir
  <2> QED
    BY <1>0, <2>1 DEF Asked, Provided, Early, Checked, HasPath, Prepared
<1>3. CASE Save(t)
  <2>1. /\ pc[t] = "save" /\ pc'[t] \in {"mkdir", "ovl", "overflow"}
        /\ opt'[t] = opt[t] /\ path'[t] = path[t]
        /\ mntpoint_mounted'[t] = mntpoint_mounted[t]
    BY <1>3 DEF Save
  <2> QED
    BY <1>0, <2>1 DEF Asked, Provided, Early, Checked, HasPath, Prepared
<1>4. CASE Mkdir(t)
  <2>1. /\ pc[t] = "mkdir" /\ pc'[t] \in {"devfs", "ovl", "overflow"}
        /\ pc'[t] = "devfs" => ~ Conflict(opt[t])
        /\ opt'[t] = opt[t] /\ path'[t] = path[t]
        /\ mntpoint_mounted'[t] = mntpoint_mounted[t]
    BY <1>4 DEF Mkdir
  <2> QED
    BY <1>0, <2>1 DEF Asked, Provided, Early, Checked, HasPath, Prepared, Conflict
<1>5. CASE DevFs(t)
  <2>1. /\ pc[t] = "devfs" /\ pc'[t] \in {"rofs", "ovl", "overflow"}
        /\ mntpoint_mounted'[t] => mntpoint_mounted[t] \/ opt[t].devfs
        /\ opt'[t] = opt[t] /\ path'[t] = path[t]
    BY <1>5 DEF DevFs, Mounted
  <2> QED
    BY <1>0, <2>1 DEF Asked, Provided, Early, Checked, HasPath, Prepared, Conflict
<1>6. CASE RoFs(t)
  <2>1. /\ pc[t] = "rofs" /\ pc'[t] \in {"find", "ovl", "overflow"}
        /\ pc'[t] = "find" =>
            \/ opt'[t] = opt[t] /\ opt[t].rofs /\ "mnt" \in held'[t]
            \/ opt'[t] = opt[t] /\ ~ opt[t].rofs /\ mntpoint_mounted'[t] = mntpoint_mounted[t]
            \/ opt'[t] = Fallback(opt[t]) /\ mntpoint_mounted'[t] = mntpoint_mounted[t] /\ opt[t].rofs
        /\ path'[t] = path[t]
    BY <1>6, SMTT(30) DEF RoFs, Mounted
  <2>2. /\ opt'[t].mount = opt[t].mount /\ opt'[t].allfs = opt[t].allfs
        /\ opt'[t].rofs = opt[t].rofs /\ opt'[t].devfs = opt[t].devfs
        /\ opt'[t] = opt[t] \/ opt'[t].device
        /\ opt'[t] = Fallback(opt[t]) => opt'[t].device
    BY <1>6, RoFsRequest
  <2> HIDE DEF TypeOK, memory, flags, Set, Go, Hold, DoExit, Attempt
  <2> QED
    BY <1>0, <2>1, <2>2 DEF Asked, Provided, Early, Checked, HasPath, Prepared, Conflict
<1>7. CASE Find(t)
  <2>1. /\ pc[t] = "find" /\ pc'[t] \in {"attach", "overlay", "ovl", "overflow"}
        /\ pc'[t] = "attach" => path'[t] \in Devices /\ opt[t].device
        /\ pc'[t] = "overlay" => ~ opt[t].device \/ mntpoint_mounted[t]
        /\ opt'[t] = opt[t] /\ mntpoint_mounted'[t] = mntpoint_mounted[t]
        /\ held'[t] = held[t] /\ device_acquired'[t] = device_acquired[t]
    BY <1>7, SMTT(30) DEF Find
  <2> QED
    BY <1>0, <2>1 DEF Asked, Provided, Early, Checked, HasPath, Prepared
<1>8. CASE Attach(t)
  <2>1. /\ pc[t] = "attach" /\ pc'[t] \in {"status", "ovl", "overflow"}
        /\ opt'[t] = opt[t] /\ mntpoint_mounted'[t] = mntpoint_mounted[t]
        /\ held'[t] = held[t] /\ device_acquired'[t] = device_acquired[t]
        /\ path'[t] = path[t]
    BY <1>8 DEF Attach
  <2> QED
    BY <1>0, <2>1 DEF Asked, Provided, Early, Checked, HasPath, Prepared
<1>9. CASE SetStatus(t)
  <2>1. /\ pc[t] = "status" /\ pc'[t] \in {"mkfs", "overlay", "ovl", "overflow"}
        /\ pc'[t] = "mkfs" => ~ opt[t].allfs /\ device_acquired'[t]
        /\ pc'[t] = "overlay" => opt[t].allfs /\ device_acquired'[t]
        /\ opt'[t] = opt[t] /\ mntpoint_mounted'[t] = mntpoint_mounted[t]
        /\ held'[t] = held[t] /\ path'[t] = path[t]
    BY <1>9, SMTT(30) DEF SetStatus
  <2> QED
    BY <1>0, <2>1 DEF Asked, Provided, Early, Checked, HasPath, Prepared
<1>10. CASE Mkfs(t)
  <2>1. /\ pc[t] = "mkfs" /\ pc'[t] \in {"mount", "ovl", "overflow"}
        /\ opt'[t] = opt[t] /\ mntpoint_mounted'[t] = mntpoint_mounted[t]
        /\ held'[t] = held[t] /\ device_acquired'[t] = device_acquired[t]
        /\ path'[t] = path[t]
    BY <1>10 DEF Mkfs
  <2> QED
    BY <1>0, <2>1 DEF Asked, Provided, Early, Checked, HasPath, Prepared
<1>11. CASE MountDevice(t)
  <2>1. /\ pc[t] = "mount" /\ pc'[t] \in {"run", "overlay", "ovl", "overflow"}
        /\ pc'[t] = "run" <=> opt[t].allfs /\ pc'[t] \notin {"ovl", "overflow"}
        /\ pc'[t] \in {"run", "overlay"} /\ opt[t].mount =>
               "mnt" \in held'[t] \/ opt[t].rofs
        /\ opt'[t] = opt[t] /\ path'[t] = path[t]
        /\ device_acquired'[t] = device_acquired[t]
    BY <1>11, SMTT(30) DEF MountDevice, Mounted
  <2> QED
    BY <1>0, <2>1 DEF Asked, Provided, Early, Checked, HasPath, Prepared
<1>12. CASE Overlay(t)
  <2>1. /\ pc[t] = "overlay" /\ pc'[t] \in {"last", "ovl", "overflow"}
        /\ pc'[t] = "last" /\ opt[t].overlay => mntpoint_mounted[t] /\ "ovl" \in held'[t]
        /\ "mnt" \in held[t] => "mnt" \in held'[t]
        /\ opt'[t] = opt[t] /\ path'[t] = path[t]
        /\ device_acquired'[t] = device_acquired[t]
    BY <1>12, SMTT(30) DEF Overlay
  <2> QED
    BY <1>0, <2>1 DEF Asked, Provided, Early, Checked, HasPath, Prepared
<1>13. CASE Last(t)
  <2>1. /\ pc[t] = "last" /\ pc'[t] \in {"mkfs", "run", "ovl", "overflow"}
        /\ pc'[t] = "mkfs" => opt[t].allfs
        /\ pc'[t] = "run" => ~ opt[t].allfs
        /\ opt'[t] = opt[t] /\ path'[t] = path[t]
        /\ device_acquired'[t] = device_acquired[t] /\ held'[t] = held[t]
    BY <1>13, SMTT(30) DEF Last
  <2> QED
    BY <1>0, <2>1 DEF Asked, Provided, Early, Checked, HasPath, Prepared, Flags
<1> QED
  BY <1>1, <1>2, <1>3, <1>4, <1>5, <1>6, <1>7,
     <1>8, <1>9, <1>10, <1>11, <1>12, <1>13 DEF Setup

\* The same of the other steps.
LEMMA AskedStep ==
    ASSUME TypeOK, Local, NEW t \in Tests, Setup(t) \/ Run(t) \/ Cleanup(t)
    PROVE  Asked(t)'
<1>0. Flags(t) /\ Asked(t)
  BY DEF Local
<1>1. CASE Setup(t)
  BY <1>1, AskedSetup
<1> USE DEF TypeOK, memory, flags, Set, Go, DoExit
<1>2. CASE Run(t)
  <2>1. CASE RunChanges(t)
    BY <1>0, <2>1 DEF RunChanges, Asked, Provided
  <2>2. CASE RunEnds(t)
    <3>1. /\ pc[t] = "run" /\ pc'[t] \in {"next", "ovl", "overflow"} /\ opt'[t] = opt[t]
          /\ pc'[t] = "next" => opt[t].allfs
          /\ held'[t] = held[t] /\ device_acquired'[t] = device_acquired[t]
      BY <2>2 DEF RunEnds
    <3> QED
      BY <1>0, <3>1 DEF Asked, Provided, Early, Checked, HasPath, Prepared
  <2>3. CASE NextFs(t)
    <3>1. /\ pc[t] = "next" /\ pc'[t] \in {"mkfs", "ovl", "overflow"} /\ opt'[t] = opt[t]
          /\ path'[t] = path[t] /\ device_acquired'[t] = device_acquired[t]
      BY <2>3 DEF NextFs
    <3> QED
      BY <1>0, <3>1 DEF Asked, Provided, Early, Checked, HasPath, Prepared, Flags
  <2> QED
    BY <1>2, <2>1, <2>2, <2>3 DEF Run
<1>3. CASE Cleanup(t)
  <2>1. opt'[t] = opt[t]
    BY <1>3 DEF Cleanup, UmountOverlay, Umount, NothingToRelease, Release, Rmdir, Restore,
                RestoreClock, CleanupIpc
  <2>2. pc'[t] \notin SetupSteps
    <3> USE DEF SetupSteps
    <3>1. CASE UmountOverlay(t) \/ Umount(t) \/ NothingToRelease(t)
      BY <3>1, SMTT(30) DEF UmountOverlay, Umount, NothingToRelease
    <3>2. CASE Release(t)
      BY <3>2 DEF Release, Released
    <3>3. CASE Rmdir(t) \/ Restore(t)
      BY <3>3 DEF Rmdir, Restore
    <3>4. CASE RestoreClock(t) \/ CleanupIpc(t)
      BY <3>4, SMTT(30) DEF RestoreClock, CleanupIpc
    <3> QED
      BY <1>3, <3>1, <3>2, <3>3, <3>4 DEF Cleanup
  <2> QED
    BY <1>0, <2>1, <2>2, AskedOutside
<1> QED
  BY <1>1, <1>2, <1>3
============================================================================
