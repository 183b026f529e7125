------------------------- MODULE TestSetupTheorems -------------------------
(***************************************************************************)
(* The shared part of the invariant of TestSetupProofs, and the theorems.   *)
(* A step that concerns neither the loop devices nor the configuration is   *)
(* "quiet" for them; what remains is one lemma for each way in which a      *)
(* device is attached or cleared, and three steps with the configuration.   *)
(***************************************************************************)
EXTENDS TestSetupProofs

\* Leaves are for Zenon, unless they name another prover.
USE ZenonT(30)

\* A step of a test that has nothing to do with its loop device.
DevicesQuiet(t) ==
    /\ loop' = loop /\ auto' = auto /\ stolen' = stolen
    /\ path'[t] = path[t] /\ tries'[t] = tries[t] /\ device_acquired'[t] = device_acquired[t]
    /\ warned[t] \subseteq warned'[t]
    /\ pc[t] # "status" /\ pc'[t] # "status"
    /\ pc'[t] \in AfterRelease => pc[t] \in AfterRelease

\* A step of a test that has nothing to do with the configuration.
ConfQuiet(t) ==
    /\ conf' = conf /\ dirty' = dirty /\ saved' = saved
    /\ opt'[t].conf = opt[t].conf /\ warned[t] \subseteq warned'[t]
    /\ pc[t] # "save"
    /\ pc'[t] \in Checked \cup {"mkdir"} => pc[t] \in Checked \cup {"mkdir"}
    /\ pc'[t] \in AfterRestore => pc[t] \in AfterRestore

\* These steps of do_setup() and do_cleanup() are quiet for the device.
LEMMA DevicesQuietSteps ==
    ASSUME TypeOK, NEW t \in Tests,
           \/ SetupIpc(t) \/ Tmpdir(t) \/ Save(t) \/ Mkdir(t) \/ DevFs(t) \/ RoFs(t)
           \/ Mkfs(t) \/ MountDevice(t) \/ Overlay(t) \/ Last(t) \/ RunChanges(t)
           \/ RunEnds(t) \/ UmountOverlay(t) \/ Rmdir(t) \/ Restore(t) \/ RestoreClock(t)
           \/ CleanupIpc(t)
    PROVE  DevicesQuiet(t)
<1>0. StepTypes /\ WarningTypes
  BY TypeParts
<1> USE <1>0 DEF memory, flags, devices, history, Set, Go, Warn, DoExit, Attempt, StepTypes,
        WarningTypes, DevicesQuiet, AfterRelease
<1>1. CASE SetupIpc(t)
  BY <1>1 DEF SetupIpc
<1>2. CASE Tmpdir(t)
  BY <1>2 DEF Tmpdir
<1>3. CASE Save(t)
  BY <1>3 DEF Save
<1>4. CASE Mkdir(t)
  BY <1>4 DEF Mkdir
<1>5. CASE DevFs(t)
  BY <1>5 DEF DevFs
<1>6. CASE RoFs(t)
  BY <1>6 DEF RoFs
<1>7. CASE Mkfs(t)
  BY <1>7 DEF Mkfs
<1>8. CASE MountDevice(t)
  BY <1>8 DEF MountDevice
<1>9. CASE Overlay(t)
  BY <1>9 DEF Overlay
<1>10. CASE Last(t)
  BY <1>10 DEF Last
<1>11. CASE RunChanges(t)
  BY <1>11 DEF RunChanges
<1>12. CASE RunEnds(t)
  BY <1>12 DEF RunEnds
<1>13. CASE UmountOverlay(t)
  BY <1>13 DEF UmountOverlay
<1>14. CASE Rmdir(t)
  BY <1>14 DEF Rmdir
<1>15. CASE Restore(t)
  BY <1>15 DEF Restore
<1>16. CASE RestoreClock(t)
  BY <1>16 DEF RestoreClock
<1>17. CASE CleanupIpc(t)
  BY <1>17 DEF CleanupIpc
<1> QED
  BY <1>1, <1>2, <1>3, <1>4, <1>5, <1>6, <1>7, <1>8, <1>9, <1>10, <1>11, <1>12, <1>13,
     <1>14, <1>15, <1>16, <1>17

\* And these for the configuration.
LEMMA ConfQuietSteps ==
    ASSUME TypeOK, NEW t \in Tests,
           \/ SetupIpc(t) \/ Tmpdir(t) \/ Mkdir(t) \/ DevFs(t) \/ RoFs(t) \/ Find(t)
           \/ Attach(t) \/ SetStatus(t) \/ Mkfs(t) \/ MountDevice(t) \/ Overlay(t)
           \/ Last(t) \/ RunEnds(t) \/ NextFs(t) \/ UmountOverlay(t) \/ Umount(t)
           \/ NothingToRelease(t) \/ Release(t) \/ Rmdir(t) \/ RestoreClock(t)
           \/ CleanupIpc(t)
    PROVE  ConfQuiet(t)
<1>0. StepTypes /\ WarningTypes
  BY TypeParts
<1> USE <1>0 DEF memory, flags, devices, history, Set, Go, Warn, DoExit, Attempt, StepTypes,
        WarningTypes, ConfQuiet, AfterRestore, Checked
<1>1. CASE SetupIpc(t)
  BY <1>1 DEF SetupIpc
<1>2. CASE Tmpdir(t)
  BY <1>2 DEF Tmpdir
<1>3. CASE Mkdir(t)
  BY <1>3 DEF Mkdir
<1>4. CASE DevFs(t)
  BY <1>4 DEF DevFs
<1>5. CASE RoFs(t)
  <2>1. opt'[t].conf = opt[t].conf
    BY <1>5, RoFsRequest
  <2> QED
    BY <1>5, <2>1 DEF RoFs
<1>6. CASE Find(t)
  BY <1>6 DEF Find
<1>7. CASE Attach(t)
  BY <1>7 DEF Attach
<1>8. CASE SetStatus(t)
  BY <1>8 DEF SetStatus
<1>9. CASE Mkfs(t)
  BY <1>9 DEF Mkfs
<1>10. CASE MountDevice(t)
  BY <1>10 DEF MountDevice
<1>11. CASE Overlay(t)
  BY <1>11 DEF Overlay
<1>12. CASE Last(t)
  BY <1>12 DEF Last
<1>13. CASE RunEnds(t)
  BY <1>13 DEF RunEnds
<1>14. CASE NextFs(t)
  BY <1>14 DEF NextFs, Unmounted, StaysMounted
<1>15. CASE UmountOverlay(t)
  BY <1>15 DEF UmountOverlay
<1>16. CASE Umount(t)
  BY <1>16 DEF Umount, Unmounted, StaysMounted
<1>17. CASE NothingToRelease(t)
  BY <1>17 DEF NothingToRelease
<1>18. CASE Release(t)
  <2>1. conf' = conf /\ dirty' = dirty /\ saved' = saved /\ opt' = opt /\ pc[t] = "release"
    BY <1>18 DEF Release, ClearDevice
  <2>2. warned[t] \subseteq warned'[t]
    BY <1>18 DEF Release
  <2>3. pc'[t] \in {"release", "rmdir"}
    BY <1>18, <2>1 DEF Release, Released
  <2> QED
    BY <2>1, <2>2, <2>3
<1>19. CASE Rmdir(t)
  BY <1>19 DEF Rmdir
<1>20. CASE RestoreClock(t)
  BY <1>20 DEF RestoreClock
<1>21. CASE CleanupIpc(t)
  BY <1>21 DEF CleanupIpc
<1> QED
  BY <1>1, <1>2, <1>3, <1>4, <1>5, <1>6, <1>7, <1>8, <1>9, <1>10, <1>11, <1>12, <1>13,
     <1>14, <1>15, <1>16, <1>17, <1>18, <1>19, <1>20, <1>21

----------------------------------------------------------------------------
\* A step that leaves the devices and history alone.
LEMMA OwnerQuiet ==
    ASSUME TypeOK, Owner, NEW t \in Tests, UNCHANGED <<loop, auto, stolen>>,
           \A u \in Tests \ {t} : Kept(u),
           path'[t] = path[t] \/ (path[t] = None /\ ~ device_acquired'[t]),
           tries'[t] = tries[t],
           device_acquired'[t] => device_acquired[t] \/ pc[t] = "status",
           pc'[t] # "status",
           warned[t] \subseteq warned'[t],
           pc[t] = "status" => device_acquired'[t] \/ "dev" \in warned'[t] \/ Free(path[t]),
           pc[t] = "status" => pc'[t] \notin AfterRelease,
           device_acquired[t] /\ ~ device_acquired'[t] => "dev" \in warned'[t] \/ Free(path[t]),
           pc'[t] \in AfterRelease =>
               \/ pc[t] \in AfterRelease \/ ~ device_acquired[t] \/ "dev" \in warned'[t]
               \/ Free(path[t])
    PROVE  Owner'
<1>1. ASSUME NEW u \in Tests PROVE Untaken(u)'
  BY <1>1, SMTT(30) DEF Owner, Untaken, Kept
<1>2. ASSUME NEW u \in Tests, NEW d \in Devices PROVE Owned(u, d)'
  <2>1. CASE u # t
    BY <2>1 DEF Owner, Owned, Kept
  <2>2. CASE u = t
    <3> SUFFICES ASSUME loop[d] = t PROVE Owned(t, d)'
      BY <2>2 DEF Owned
    <3>1. Owned(t, d) /\ path[t] = d /\ path'[t] = d /\ ~ Free(path[t])
      BY NamesAssumption DEF Owner, Owned, Free
    <3> QED
      BY <3>1 DEF Owned
  <2> QED
    BY <2>1, <2>2
<1>3. ASSUME NEW d \in Devices PROVE Pending(d)'
  BY <1>3 DEF Owner, Pending, Kept
<1> QED
  BY <1>1, <1>2, <1>3 DEF Owner

\* LOOP_SET_FD (tst_device.c:162) takes a free device.
LEMMA OwnerAttach ==
    ASSUME TypeOK, Local, Owner, NEW t \in Tests, \A u \in Tests \ {t} : Kept(u),
           Attach(t), Free(path[t]), Set(loop, path[t], t), Go(t, "status")
    PROVE  Owner'
<1>1. path[t] \in Devices
  BY DEF Attach, Local, Asked, Provided, HasPath
<1>2. /\ path' = path /\ tries' = tries /\ warned' = warned /\ auto' = auto /\ stolen' = stolen
      /\ device_acquired' = device_acquired /\ pc'[t] = "status"
      /\ loop' = [loop EXCEPT ![path[t]] = t]
  BY DEF Attach, Set, Go, TypeOK, memory, flags, history
<1>3. ASSUME NEW u \in Tests PROVE Untaken(u)'
  BY <1>1, <1>2, NamesAssumption, SMTT(30) DEF Owner, Untaken, Kept, Free, TypeOK
<1>4. ASSUME NEW u \in Tests, NEW d \in Devices PROVE Owned(u, d)'
  <2>1. CASE d = path[t]
    BY <1>1, <1>2, <2>1 DEF Owned, TypeOK, AfterRelease
  <2>2. CASE d # path[t]
    <3>1. loop'[d] = loop[d] /\ Owned(u, d)
      BY <1>1, <1>2, <2>2 DEF Owner, TypeOK
    <3>2. CASE u = t
      <4>1. pc[t] = "attach"
        BY DEF Attach
      <4> QED
        BY <1>2, <3>1, <3>2, <4>1 DEF Owned, AfterRelease
    <3>3. CASE u # t
      BY <1>2, <3>1, <3>3 DEF Owned, Kept
    <3> QED
      BY <3>2, <3>3
  <2> QED
    BY <2>1, <2>2
<1>5. ASSUME NEW d \in Devices PROVE Pending(d)'
  BY <1>1, <1>2, NamesAssumption DEF Owner, Pending, Free, TypeOK
<1> QED
  BY <1>3, <1>4, <1>5 DEF Owner

\* umount() (tst_device.c:376) releases a device only if its test has begun to.
LEMMA OwnerUnmounted ==
    ASSUME TypeOK, Local, Owner, NEW t \in Tests, \A u \in Tests \ {t} : Kept(u),
           path[t] \in auto, Set(loop, path[t], None), auto' = auto \ {path[t]},
           UNCHANGED <<path, tries, warned, stolen, device_acquired>>,
           pc'[t] \notin AfterRelease, pc[t] # "status", pc'[t] # "status"
    PROVE  Owner'
<1>1. path[t] \in Devices /\ loop' = [loop EXCEPT ![path[t]] = None]
  BY DEF TypeOK, Set
<1>2. ASSUME NEW u \in Tests PROVE Untaken(u)'
  <2>1. device_acquired'[u] \/ pc'[u] = "status" => device_acquired[u] \/ pc[u] = "status"
    BY DEF Kept
  <2>2. Untaken(u) /\ Pending(path[t])
    BY <1>1 DEF Owner
  <2>5. device_acquired[u] \/ pc[u] = "status" => path[u] \in Devices
    BY DEF Local, Flags, Asked, Provided, HasPath
  <2>3. CASE path[u] = path[t]
    BY <1>1, <2>1, <2>2, <2>3, SMTT(30) DEF Untaken, Pending
  <2>4. CASE path[u] # path[t]
    <3>1. path[u] \in Devices => loop'[path[u]] = loop[path[u]]
      BY <1>1, <2>4 DEF TypeOK
    <3> QED
      BY <2>1, <2>2, <2>5, <3>1 DEF Untaken
  <2> QED
    BY <2>3, <2>4
<1>3. ASSUME NEW u \in Tests, NEW d \in Devices PROVE Owned(u, d)'
  <2>1. Owned(u, d)
    BY DEF Owner
  <2>2. loop'[d] = u => loop[d] = u
    BY <1>1, NamesAssumption DEF TypeOK
  <2>3. u # t => Kept(u)
    OBVIOUS
  <2> QED
    BY <2>1, <2>2, <2>3 DEF Owned, Kept
<1>4. ASSUME NEW d \in Devices PROVE Pending(d)'
  BY <1>1 DEF Owner, Pending, TypeOK
<1> QED
  BY <1>2, <1>3, <1>4 DEF Owner

\* LOOP_CLR_FD (tst_device.c:197), the last one or not.
LEMMA OwnerClear ==
    ASSUME TypeOK, Local, Owner, NEW t \in Tests, \A u \in Tests \ {t} : Kept(u),
           Release(t), ClearDevice(t), Set(tries, t, tries[t] + 1),
           \/ UNCHANGED <<pc, device_acquired, warned>>
           \/ "dev" \in warned'[t] /\ warned[t] \subseteq warned'[t] /\ pc'[t] # "status"
    PROVE  Owner'
<1>1. path[t] \in Devices /\ pc[t] = "release" /\ device_acquired[t]
  BY DEF Release, Local, Flags
<1>2. path' = path /\ tries'[t] > 0
  BY NumbersAssumption, SMTT(30) DEF Release, TypeOK, Set
<1>3. /\ loop[path[t]] \in Tests /\ stolen \subseteq stolen'
      /\ loop[path[t]] \in stolen' \/ loop[path[t]] = t
  BY <1>1 DEF ClearDevice, Free, TypeOK
<1>4. \/ auto' = auto \cup {path[t]} /\ loop' = loop
      \/ auto' = auto \ {path[t]} /\ loop' = [loop EXCEPT ![path[t]] = None]
  BY DEF ClearDevice, Set
<1>5. ASSUME NEW u \in Tests PROVE Untaken(u)'
  <2>1. CASE u = t
    BY <1>2, <2>1, NumbersAssumption, SMTT(30) DEF Untaken
  <2>2. CASE u # t
    <3>1. path[u] \in Devices => loop'[path[u]] = loop[path[u]] \/ path[u] = path[t]
      BY <1>4 DEF TypeOK
    <3>2. device_acquired[u] \/ pc[u] = "status" => path[u] \in Devices
      BY DEF Local, Flags, Asked, Provided, HasPath
    <3>3. Untaken(u) /\ Kept(u)
      BY <2>2 DEF Owner
    <3> QED
      BY <1>3, <2>2, <3>1, <3>2, <3>3 DEF Untaken, Kept
  <2> QED
    BY <2>1, <2>2
<1>6. ASSUME NEW u \in Tests, NEW d \in Devices PROVE Owned(u, d)'
  <2>1. CASE u # t
    <3>1. Owned(u, d) /\ (loop'[d] = u => loop[d] = u)
      BY <1>4, NamesAssumption, SMTT(30) DEF Owner, TypeOK
    <3>2. Kept(u)
      BY <2>1
    <3> QED
      BY <3>1, <3>2 DEF Owned, Kept
  <2>2. CASE u = t
    <3>1. Owned(t, d) /\ (loop'[d] = t => loop[d] = t)
      BY <1>4, NamesAssumption, SMTT(30) DEF Owner, TypeOK
    <3>2. CASE UNCHANGED <<pc, device_acquired, warned>>
      BY <1>1, <1>2, <2>2, <3>1, <3>2 DEF Owned
    <3>3. CASE "dev" \in warned'[t]
      BY <1>2, <2>2, <3>1, <3>3 DEF Owned
    <3> QED
      BY <3>2, <3>3
  <2> QED
    BY <2>1, <2>2
<1>7. ASSUME NEW d \in Devices PROVE Pending(d)'
  <2>1. Pending(d) /\ loop \in [Devices -> Tests \cup {None}]
    BY DEF Owner, TypeOK
  <2>2. \A u \in Tests : tries[u] > 0 => tries'[u] > 0
    BY <1>2 DEF Kept
  <2>3. CASE d = path[t]
    BY <1>2, <1>3, <1>4, <2>2, <2>3 DEF Pending
  <2>4. CASE d # path[t]
    <3>1. (d \in auto' => d \in auto) /\ loop'[d] = loop[d]
      BY <1>1, <1>4, <2>1, <2>4
    <3> QED
      BY <1>3, <2>1, <2>2, <3>1 DEF Pending
  <2> QED
    BY <2>3, <2>4
<1> QED
  BY <1>5, <1>6, <1>7 DEF Owner

\* The loop devices and their tests stay together in each step.
LEMMA OwnerStep ==
    ASSUME TypeOK, Local, Owner, NEW t \in Tests, Setup(t) \/ Run(t) \/ Cleanup(t)
    PROVE  Owner'
<1>0. \A u \in Tests \ {t} : Kept(u)
  BY Others
<1>1. Flags(t) /\ Depth(t) /\ Asked(t)
  BY DEF Local
<1>2. StepTypes /\ FlagTypes /\ NumberTypes /\ WarningTypes
  BY TypeParts
<1>3. CASE DevicesQuiet(t)
  <2>1. UNCHANGED <<loop, auto, stolen>>
    BY <1>3 DEF DevicesQuiet
  <2> QED
    BY <1>0, <1>3, <2>1, OwnerQuiet DEF DevicesQuiet
<1>4. CASE Find(t)
  <2>1. /\ UNCHANGED <<loop, auto, stolen>> /\ path[t] = None /\ ~ device_acquired'[t]
        /\ tries' = tries /\ warned' = warned /\ pc[t] = "find"
        /\ pc'[t] \in {"attach", "overlay", "ovl", "overflow"}
    BY <1>1, <1>2, <1>4, NamesAssumption
       DEF Find, Asked, Provided, Flags, StepTypes, memory, flags, devices, history, Set, Go, DoExit
  <2> QED
    BY <1>0, <1>1, <2>1, OwnerQuiet, NamesAssumption DEF AfterRelease, Flags
<1>5. CASE Attach(t)
  <2>1. CASE Free(path[t]) /\ Set(loop, path[t], t) /\ Go(t, "status")
    BY <1>0, <1>5, <2>1, OwnerAttach
  <2>2. CASE DoExit(t) /\ UNCHANGED loop
    <3>1. /\ UNCHANGED <<loop, auto, stolen>> /\ path' = path
          /\ device_acquired' = device_acquired
          /\ tries' = tries /\ warned' = warned /\ pc[t] = "attach"
          /\ pc'[t] \in {"ovl", "overflow"}
      BY <1>2, <1>5, <2>2
         DEF Attach, StepTypes, memory, flags, devices, history, Set, Go, DoExit
    <3> QED
      BY <1>0, <3>1, OwnerQuiet DEF AfterRelease
  <2> QED
    BY <1>5, <2>1, <2>2 DEF Attach
<1>6. CASE SetStatus(t)
  <2>1. /\ UNCHANGED <<loop, auto, stolen>> /\ path' = path
        /\ tries' = tries /\ warned[t] \subseteq warned'[t] /\ pc[t] = "status"
        /\ pc'[t] \in {"overlay", "mkfs", "ovl", "overflow"}
    BY <1>2, <1>6
       DEF SetStatus, StepTypes, WarningTypes, memory, flags, devices, history, Set, Go, Warn,
           DoExit
  <2>2. device_acquired'[t] \/ (device_acquired' = device_acquired /\ "dev" \in warned'[t])
    BY <1>2, <1>6 DEF SetStatus, FlagTypes, WarningTypes, Set, Warn
  <2> QED
    BY <1>0, <2>1, <2>2, OwnerQuiet DEF AfterRelease
<1>7. CASE NextFs(t) \/ Umount(t)
  <2>1. /\ path' = path /\ tries' = tries /\ device_acquired' = device_acquired
        /\ stolen' = stolen /\ warned[t] \subseteq warned'[t]
    BY <1>2, <1>7
       DEF NextFs, Umount, Unmounted, StaysMounted, WarningTypes, memory, flags, history, Set,
           Warn
  <2>2. pc[t] \in {"next", "umount"} /\ pc'[t] \in {"mkfs", "release", "ovl", "overflow"}
    BY <1>2, <1>7 DEF NextFs, Umount, StepTypes, Set, Go, DoExit
  <2>3. CASE UNCHANGED <<loop, auto, stolen>>
    BY <1>0, <2>1, <2>2, <2>3, OwnerQuiet DEF AfterRelease
  <2>4. CASE /\ path[t] \in auto /\ Set(loop, path[t], None) /\ auto' = auto \ {path[t]}
             /\ UNCHANGED history
    <3>1. UNCHANGED <<path, tries, warned, stolen, device_acquired>>
      BY <2>1, <2>4 DEF history
    <3> QED
      BY <1>0, <2>2, <2>4, <3>1, OwnerUnmounted DEF AfterRelease
  <2>5. \/ UNCHANGED <<loop, auto>>
        \/ /\ path[t] \in auto /\ Set(loop, path[t], None) /\ auto' = auto \ {path[t]}
           /\ UNCHANGED history
    BY <1>7 DEF NextFs, Umount, Unmounted, StaysMounted, devices
  <2> QED
    BY <2>1, <2>3, <2>4, <2>5
<1>8. CASE NothingToRelease(t)
  <2>1. /\ UNCHANGED <<loop, auto, stolen>> /\ path' = path /\ ~ device_acquired[t]
        /\ device_acquired' = device_acquired
        /\ tries' = tries /\ warned' = warned /\ pc[t] = "release" /\ pc'[t] = "rmdir"
    BY <1>1, <1>2, <1>8
       DEF NothingToRelease, Flags, StepTypes, memory, flags, devices, history, Set, Go
  <2> QED
    BY <1>0, <2>1, OwnerQuiet
<1>9. CASE Release(t)
  <2>1. CASE ClearDevice(t) /\ Set(tries, t, tries[t] + 1)
    <3>1. \/ UNCHANGED <<pc, device_acquired, warned>>
          \/ "dev" \in warned'[t] /\ warned[t] \subseteq warned'[t] /\ pc'[t] # "status"
      BY <1>2, <1>9, <2>1, NumbersAssumption, SMTT(30)
         DEF Release, Released, StepTypes, NumberTypes, WarningTypes, Set, Go, Warn
    <3> QED
      BY <1>0, <1>9, <2>1, <3>1, OwnerClear
  <2>2. CASE /\ Released(t) /\ UNCHANGED <<tries, loop, auto, stolen>>
             /\ (Free(path[t]) /\ UNCHANGED warned) \/ Warn(t, "dev")
    <3>1. /\ path' = path /\ pc[t] = "release" /\ pc'[t] = "rmdir" /\ ~ device_acquired'[t]
          /\ warned[t] \subseteq warned'[t] /\ (Free(path[t]) \/ "dev" \in warned'[t])
      BY <1>2, <1>9, <2>2, SMTT(30)
         DEF Release, Released, StepTypes, FlagTypes, WarningTypes, Set, Go, Warn
    <3> QED
      BY <1>0, <2>2, <3>1, OwnerQuiet
  <2>3. \/ ClearDevice(t) /\ Set(tries, t, tries[t] + 1)
        \/ /\ Released(t) /\ UNCHANGED <<tries, loop, auto, stolen>>
           /\ (Free(path[t]) /\ UNCHANGED warned) \/ Warn(t, "dev")
    BY <1>9 DEF Release, devices, history, Warn
  <2> QED
    BY <2>1, <2>2, <2>3
<1> QED
  BY <1>3, <1>4, <1>5, <1>6, <1>7, <1>8, <1>9, DevicesQuietSteps DEF Setup, Run, Cleanup

----------------------------------------------------------------------------
\* The configuration: tst_sys_conf_save() and tst_sys_conf_restore() are the only
\* ones to look at it.
LEMMA ConfigQuiet ==
    ASSUME TypeOK, Config, NEW t \in Tests, \A u \in Tests \ {t} : Kept(u),
           UNCHANGED <<conf, dirty, saved>>, warned[t] \subseteq warned'[t],
           opt'[t].conf = opt[t].conf, pc[t] # "save",
           pc'[t] \in Checked \cup {"mkdir"} => pc[t] \in Checked \cup {"mkdir"},
           pc'[t] \in AfterRestore => pc[t] \in AfterRestore
    PROVE  Config'
<1>1. \A u \in Tests : pc'[u] \in Checked \cup {"mkdir"} /\ opt'[u].conf => saved[u] # None
  BY DEF Config, Kept
<1>2. ~ dirty => \A u \in Tests : saved[u] # Changed
  BY DEF Config
<1>3. ASSUME ~ dirty, conf = Changed
      PROVE  \E u \in Tests :
                 saved[u] # None /\ (pc'[u] \notin AfterRestore \/ "conf" \in warned'[u])
  <2>1. PICK u \in Tests :
            saved[u] # None /\ (pc[u] \notin AfterRestore \/ "conf" \in warned[u])
    BY <1>3 DEF Config
  <2>2. pc'[u] \notin AfterRestore \/ "conf" \in warned'[u]
    BY <2>1 DEF Kept
  <2> QED
    BY <2>1, <2>2
<1> QED
  BY <1>1, <1>2, <1>3 DEF Config

\* The configuration in each step.
LEMMA ConfigStep ==
    ASSUME TypeOK, Local, Config, NEW t \in Tests, Setup(t) \/ Run(t) \/ Cleanup(t)
    PROVE  Config'
<1>0. \A u \in Tests \ {t} : Kept(u)
  BY Others
<1>1. StepTypes /\ NumberTypes /\ WarningTypes /\ SystemTypes /\ HistoryTypes
  BY TypeParts
<1>2. CASE ConfQuiet(t)
  <2>1. UNCHANGED <<conf, dirty, saved>>
    BY <1>2 DEF ConfQuiet
  <2> QED
    BY <1>0, <1>2, <2>1, ConfigQuiet DEF ConfQuiet
<1>3. CASE Save(t)
  <2>1. /\ pc'[t] \in {"mkdir", "ovl", "overflow"} /\ pc[t] = "save" /\ opt' = opt
        /\ conf' = conf /\ warned' = warned
    BY <1>1, <1>3 DEF Save, StepTypes, Set, Go, DoExit
  <2>0. \/ saved' = saved /\ dirty' = dirty /\ (pc'[t] = "mkdir" => ~ opt[t].conf)
        \/ saved' = [saved EXCEPT ![t] = conf] /\ dirty' = (dirty \/ conf # Orig)
    BY <1>1, <1>3 DEF Save, StepTypes, Set, Go, DoExit
  <2>2. /\ dirty => dirty'
        /\ \/ saved' = saved /\ (pc'[t] = "mkdir" => ~ opt[t].conf)
           \/ saved' = [saved EXCEPT ![t] = conf] /\ (conf # Orig => dirty')
    <3>1. CASE saved' = saved /\ dirty' = dirty /\ (pc'[t] = "mkdir" => ~ opt[t].conf)
      BY <3>1
    <3>2. CASE saved' = [saved EXCEPT ![t] = conf] /\ dirty' = (dirty \/ conf # Orig)
      <4>1. (dirty => dirty') /\ (conf # Orig => dirty')
        BY <3>2
      <4> QED
        BY <3>2, <4>1
    <3> QED
      BY <2>0, <3>1, <3>2
  <2>3. ASSUME NEW u \in Tests, pc'[u] \in Checked \cup {"mkdir"}, opt'[u].conf
        PROVE  saved'[u] # None
    <3>1. CASE u = t
      BY <1>1, <2>1, <2>2, <2>3, <3>1, NamesAssumption
         DEF Checked, NumberTypes, SystemTypes
    <3>2. CASE u # t
      <4>1. pc'[u] = pc[u] /\ opt'[u] = opt[u] /\ saved'[u] = saved[u]
        BY <1>0, <3>2 DEF Kept
      <4>2. pc[u] \in Checked \cup {"mkdir"} /\ opt[u].conf => saved[u] # None
        BY DEF Config
      <4> QED
        BY <2>3, <4>1, <4>2
    <3> QED
      BY <3>1, <3>2
  <2>4. ~ dirty' => \A u \in Tests : saved'[u] # Changed
    BY <1>1, <2>2, NamesAssumption DEF Config, NumberTypes
  <2>5. ASSUME ~ dirty', conf' = Changed
        PROVE  \E u \in Tests :
                   saved'[u] # None /\ (pc'[u] \notin AfterRestore \/ "conf" \in warned'[u])
    <3>0. conf = Changed /\ conf # Orig
      BY <2>1, <2>5, NamesAssumption
    <3>1. ~ dirty /\ conf = Changed /\ saved' = saved
      BY <2>2, <2>5, <3>0
    <3>2. PICK u \in Tests :
              saved[u] # None /\ (pc[u] \notin AfterRestore \/ "conf" \in warned[u])
      BY <3>1 DEF Config
    <3>3. pc'[u] \notin AfterRestore \/ "conf" \in warned'[u]
      BY <1>0, <2>1, <3>2 DEF Kept, AfterRestore
    <3> QED
      BY <3>1, <3>2, <3>3
  <2> QED
    BY <2>3, <2>4, <2>5 DEF Config
<1>4. CASE RunChanges(t)
  <2>1. /\ pc' = pc /\ saved' = saved /\ dirty' = dirty /\ warned' = warned
        /\ opt' = opt /\ pc[t] = "run" /\ opt[t].conf
    BY <1>4 DEF RunChanges, memory, history
  <2>2. saved'[t] # None /\ pc'[t] \notin AfterRestore
    BY <2>1 DEF Config, Checked, AfterRestore
  <2> QED
    BY <2>1, <2>2 DEF Config
<1>5. CASE Restore(t)
  <2>1. /\ pc[t] = "restore" /\ pc'[t] = "clock" /\ saved' = saved /\ dirty' = dirty
        /\ opt' = opt /\ warned[t] \subseteq warned'[t]
    BY <1>1, <1>5 DEF Restore, StepTypes, WarningTypes, memory, Set, Go
  <2>2. \/ conf' = conf /\ (saved[t] = None \/ "conf" \in warned'[t])
        \/ conf' = saved[t] /\ saved[t] # None
    BY <1>1, <1>5 DEF Restore, WarningTypes, Set
  <2>3. ASSUME NEW u \in Tests, pc'[u] \in Checked \cup {"mkdir"}, opt'[u].conf
        PROVE  saved'[u] # None
    <3>1. u # t
      BY <2>1, <2>3 DEF Checked
    <3>2. pc'[u] = pc[u] /\ opt'[u] = opt[u] /\ saved'[u] = saved[u]
      BY <1>0, <3>1 DEF Kept
    <3>3. pc[u] \in Checked \cup {"mkdir"} /\ opt[u].conf => saved[u] # None
      BY DEF Config
    <3> QED
      BY <2>3, <3>2, <3>3
  <2>4. ~ dirty' => \A u \in Tests : saved'[u] # Changed
    BY <2>1 DEF Config
  <2>5. ASSUME ~ dirty', conf' = Changed
        PROVE  \E u \in Tests :
                   saved'[u] # None /\ (pc'[u] \notin AfterRestore \/ "conf" \in warned'[u])
    <3>1. conf = Changed /\ (saved[t] = None \/ "conf" \in warned'[t])
      BY <2>1, <2>2, <2>5 DEF Config
    <3>2. PICK u \in Tests :
              saved[u] # None /\ (pc[u] \notin AfterRestore \/ "conf" \in warned[u])
      BY <2>1, <2>5, <3>1 DEF Config
    <3>3. pc'[u] \notin AfterRestore \/ "conf" \in warned'[u]
      BY <1>0, <2>1, <3>1, <3>2 DEF Kept
    <3> QED
      BY <2>1, <3>2, <3>3
  <2> QED
    BY <2>3, <2>4, <2>5 DEF Config
<1> QED
  BY <1>2, <1>3, <1>4, <1>5, ConfQuietSteps DEF Setup, Run, Cleanup

----------------------------------------------------------------------------
\* Nothing changes in a stuttering step.
LEMMA StutterStep == IInv /\ UNCHANGED vars => IInv'
<1> SUFFICES ASSUME IInv, UNCHANGED vars PROVE IInv'
  OBVIOUS
<1> USE DEF vars, memory, flags, devices, history
<1>1. TypeOK'
  BY DEF IInv, TypeOK
<1>2. Local'
  <2>1. ASSUME NEW t \in Tests PROVE Flags(t)' /\ Depth(t)'
    BY <2>1 DEF IInv, Local, Flags, Depth
  <2>2. ASSUME NEW t \in Tests PROVE Asked(t)'
    BY <2>2 DEF IInv, Local, Asked
  <2> QED
    BY <2>1, <2>2 DEF Local
<1>3. Owner'
  BY DEF IInv, Owner, Owned, Untaken, Pending
<1>4. Config'
  BY DEF IInv, Config
<1> QED
  BY <1>1, <1>2, <1>3, <1>4 DEF IInv

\* The set-up and clean-up of any number of tests keep the invariant.
THEOREM Invariance == Spec => []IInv
<1>1. Init => IInv
  BY InitInvariant
<1>2. IInv /\ [Next]_vars => IInv'
  <2> SUFFICES ASSUME IInv, [Next]_vars PROVE IInv'
    OBVIOUS
  <2>1. CASE Next
    <3>1. PICK t \in Tests : Setup(t) \/ Run(t) \/ Cleanup(t)
      BY <2>1 DEF Next
    <3>2. TypeOK'
      BY <3>1, TypeStep DEF IInv
    <3>3. Flags(t)' /\ Depth(t)' /\ Asked(t)'
      BY <3>1, FlagsStep, DepthStep, AskedStep DEF IInv
    <3>4. \A u \in Tests \ {t} : Flags(u)' /\ Depth(u)' /\ Asked(u)'
      BY <3>1, LocalOthers DEF IInv
    <3>5. Local'
      BY <3>3, <3>4 DEF Local
    <3>6. Owner'
      BY <3>1, OwnerStep DEF IInv
    <3>7. Config'
      BY <3>1, ConfigStep DEF IInv
    <3> QED
      BY <3>2, <3>5, <3>6, <3>7 DEF IInv
  <2>2. CASE UNCHANGED vars
    BY <2>2, StutterStep
  <2> QED
    BY <2>1, <2>2
<1> QED
  BY <1>1, <1>2, PTL DEF Spec

\* The variables keep their types.
THEOREM TypeCorrect == Spec => []TypeOK
<1>1. IInv => TypeOK
  BY DEF IInv
<1> QED
  BY <1>1, Invariance, PTL

\* When a test exits, what is left of it in the system has been warned about
\* (do_cleanup, tst_test.c:1079-1102), but for a directory for whose name there was
\* no memory (tst_tmpdir.c:275-279).
THEOREM NoSilentLeftovers == Spec => []LeftoversWarned
<1>1. IInv => LeftoversWarned
  <2> SUFFICES ASSUME IInv, NEW t \in Tests, pc[t] = "exited"
               PROVE  /\ held[t] \ {"unnamed"} \subseteq warned[t]
                      /\ (\E d \in Devices : loop[d] = t) => "dev" \in warned[t]
    BY DEF LeftoversWarned
  <2>1. held[t] \ {"unnamed"} \subseteq warned[t]
    <3>1. Flags(t) /\ held[t] \subseteq Resources
      BY DEF IInv, Local, TypeOK
    <3> QED
      BY <3>1 DEF Flags, Resources, AfterRmdir, AfterUmount, AfterUmountOvl
  <2>2. ASSUME NEW d \in Devices, loop[d] = t PROVE "dev" \in warned[t]
    BY <2>2 DEF IInv, Owner, Owned, AfterRelease
  <2> QED
    BY <2>1, <2>2
<1> QED
  BY <1>1, Invariance, PTL

\* A test function runs only with what the test has asked for (do_setup(),
\* tst_test.c:905-1048).
THEOREM Ready == Spec => []ReadyToRun
<1>1. IInv => ReadyToRun
  <2> SUFFICES ASSUME IInv, NEW t \in Tests, pc[t] = "run"
               PROVE  /\ opt[t].device /\ t \notin stolen => loop[path[t]] = t
                      /\ opt[t].mount => "mnt" \in held[t]
                      /\ opt[t].overlay => "ovl" \in held[t]
                      /\ opt[t].rofs => "mnt" \in held[t] \/ opt[t].device
    BY DEF ReadyToRun
  <2>1. Depth(t) /\ Asked(t) /\ Untaken(t)
    BY DEF IInv, Local, Owner
  <2> QED
    BY <2>1 DEF Depth, Asked, Provided, Untaken, SetupSteps, Checked
<1> QED
  BY <1>1, Invariance, PTL

\* When all tests are over the configuration is as before, unless a test has
\* saved what another one had changed (tst_sys_conf.c:41-104).
THEOREM Restored == Spec => []ConfRestored
<1>1. IInv => ConfRestored
  <2> SUFFICES ASSUME IInv, \A t \in Tests : pc[t] = "exited" /\ "conf" \notin warned[t],
                      ~ dirty
               PROVE  conf = Orig
    BY DEF ConfRestored
  <2> QED
    BY DEF IInv, TypeOK, Config, AfterRestore
<1> QED
  BY <1>1, Invariance, PTL

\* Without an overlay do_cleanup() is called at most twice (tst_test.c:1099).
THEOREM Bounded == Spec => []CleanupBounded
<1>1. IInv => CleanupBounded
  BY DEF IInv, Local, Depth, CleanupBounded
<1> QED
  BY <1>1, Invariance, PTL

\* A LOOP_CLR_FD that hits the device of another test is a repeated one, or that of
\* a test which has lost its own device so (tst_device.c:194-214).
THEOREM FirstClearIsOwn == Spec => OnlyRetriesSteal
<1> DEFINE A == \A t \in Tests :
                    tries'[t] # tries[t] /\ loop[path[t]] # t => tries[t] > 0 \/ t \in stolen
<1>1. IInv /\ [Next]_vars => [A]_vars
  <2> SUFFICES ASSUME IInv, Next, NEW t \in Tests, tries'[t] # tries[t], loop[path[t]] # t,
                      t \notin stolen
               PROVE  tries[t] > 0
    BY DEF A
  <2>1. PICK u \in Tests : Setup(u) \/ Run(u) \/ Cleanup(u)
    BY DEF Next
  <2>2. u = t
    <3>1. TypeOK
      BY DEF IInv
    <3>2. u # t => Kept(t)
      BY <2>1, <3>1, Others
    <3> QED
      BY <3>2 DEF Kept
  <2>3. Release(t)
    <3>1. CASE Setup(t)
      <4>1. SetupIpc(t) \/ Tmpdir(t) \/ Save(t) \/ Mkdir(t) => tries' = tries
        BY DEF SetupIpc, Tmpdir, Save, Mkdir, memory
      <4>2. DevFs(t) \/ RoFs(t) \/ Find(t) \/ Attach(t) \/ SetStatus(t) => tries' = tries
        BY DEF DevFs, RoFs, Find, Attach, SetStatus, memory
      <4>3. Mkfs(t) \/ MountDevice(t) \/ Overlay(t) \/ Last(t) => tries' = tries
        BY DEF Mkfs, MountDevice, Overlay, Last, memory
      <4> QED
        BY <3>1, <4>1, <4>2, <4>3 DEF Setup
    <3>2. CASE Run(t)
      BY <3>2 DEF Run, RunChanges, RunEnds, NextFs, memory
    <3>3. CASE Cleanup(t)
      BY <3>3 DEF Cleanup, UmountOverlay, Umount, NothingToRelease, Rmdir, Restore, RestoreClock,
                  CleanupIpc, memory
    <3> QED
      BY <2>1, <2>2, <3>1, <3>2, <3>3
  <2>4. Untaken(t) /\ tries[t] \in Nat
    BY NumbersAssumption, SMTT(30) DEF IInv, Owner, TypeOK
  <2>5. tries[t] # 0
    BY <2>3, <2>4 DEF Release, Untaken
  <2> QED
    BY <2>4, <2>5, SMTT(30)
<1> QED
  BY <1>1, Invariance, PTL DEF Spec, OnlyRetriesSteal
============================================================================
