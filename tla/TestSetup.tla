----------------------------- MODULE TestSetup -----------------------------
(***************************************************************************)
(* What a test of the library acquires before it runs and gives back        *)
(* afterwards: do_setup() and do_cleanup() of src/lib/tst_test.c, with the  *)
(* loop devices (tst_device.c), the temporary directory (tst_tmpdir.c), the *)
(* saved system configuration (tst_sys_conf.c) and the saved wall clock     *)
(* (tst_wallclock.c).  Any call may fail.  A failure of a SAFE_ call is a   *)
(* tst_brk(), which in the library process is do_exit() and do_cleanup(),   *)
(* also when it is do_cleanup() that calls it.                              *)
(*                                                                          *)
(* Several tests run at once, each in a library process of its own.  They   *)
(* share the loop devices and one file of the system configuration.  What   *)
(* the test itself does, and the exit value, are the subject of TstTest.    *)
(***************************************************************************)
EXTENDS Naturals, FiniteSets

CONSTANTS
    Tests,          \* the library processes
    Devices,        \* the minors of the loop devices
    Options,        \* the requests a test may make: see OptionType
    Filesystems,    \* the rounds of .all_filesystems, over all variants
    None, Orig, Changed,    \* no device or value; values of the configuration
    MaxClears,      \* LOOP_CLR_FD calls before giving up: 40 in the code
    MaxDepth,       \* nested calls of do_exit() that the stack has room for
    MaxFaults       \* bound on the calls that fail

ASSUME NumbersAssumption ==
    /\ Devices \subseteq Nat /\ Filesystems \in Nat \ {0}
    /\ MaxClears \in Nat \ {0} /\ MaxDepth \in Nat /\ MaxDepth > 2 /\ MaxFaults \in Nat
ASSUME NamesAssumption ==
    None \notin Tests \cup Devices \cup {Orig, Changed} /\ Orig # Changed

\* The fields of struct tst_test that matter here; do_setup() has derived
\* format_device from mount_device, and needs_device from format_device and
\* all_filesystems.
OptionType ==
    [device : BOOLEAN, format : BOOLEAN, mount : BOOLEAN, allfs : BOOLEAN,
     rofs : BOOLEAN, devfs : BOOLEAN, overlay : BOOLEAN, conf : BOOLEAN,
     clock : BOOLEAN, reinit : BOOLEAN]
ASSUME OptionsAssumption ==
    /\ Options \subseteq OptionType
    /\ \A o \in Options : (o.mount => o.format) /\ (o.format \/ o.allfs => o.device)

VARIABLES
    pc, opt,        \* the next step of a test; its requests
    testdir, mntpoint_mounted, ovl_mounted, device_acquired, clock_saved,
                    \* the flags of the library, per test
    path,           \* dev_path
    saved,          \* save_restore_data
    fs, tries, depth, \* filesystems done; LOOP_CLR_FDs; calls of do_exit()
    held,           \* what a test has in the system, see Resources
    loop, auto,     \* the test whose file a device has; LO_FLAGS_AUTOCLEAR
    conf,           \* the file of the system configuration
    warned,         \* history: what a test has printed a TWARN about
    stolen,         \* history: the tests whose device another one has cleared
    dirty,          \* history: a test has saved what another one has changed
    faults          \* the calls that have failed

flags == <<testdir, mntpoint_mounted, ovl_mounted, device_acquired, clock_saved>>
memory == <<opt, flags, path, saved, fs, tries>>
devices == <<loop, auto>>
history == <<warned, stolen, dirty>>
vars == <<pc, memory, depth, held, devices, conf, history, faults>>

\* "unnamed" is a temporary directory whose name the library has not kept.
Resources == {"shm", "dir", "unnamed", "mnt", "ovl"}
SetupSteps ==
    {"ipc", "tmpdir", "save", "mkdir", "devfs", "rofs", "find", "attach", "status",
     "mkfs", "mount", "overlay", "last", "run", "next"}
CleanupSteps == {"ovl", "umount", "release", "rmdir", "restore", "clock", "unipc"}

TypeOK ==
    /\ pc \in [Tests -> SetupSteps \cup CleanupSteps \cup {"exited", "overflow"}]
    /\ opt \in [Tests -> OptionType]
    /\ testdir \in [Tests -> BOOLEAN] /\ mntpoint_mounted \in [Tests -> BOOLEAN]
    /\ ovl_mounted \in [Tests -> BOOLEAN] /\ device_acquired \in [Tests -> BOOLEAN]
    /\ clock_saved \in [Tests -> BOOLEAN]
    /\ path \in [Tests -> Devices \cup {None}]
    /\ saved \in [Tests -> {Orig, Changed, None}]
    /\ fs \in [Tests -> 0..Filesystems] /\ tries \in [Tests -> 0..MaxClears]
    /\ depth \in [Tests -> 0..MaxDepth]
    /\ held \in [Tests -> SUBSET Resources]
    /\ loop \in [Devices -> Tests \cup {None}] /\ auto \subseteq Devices
    /\ conf \in {Orig, Changed}
    /\ warned \in [Tests -> SUBSET (Resources \cup {"dev", "conf"})]
    /\ stolen \subseteq Tests /\ dirty \in BOOLEAN /\ faults \in 0..MaxFaults

Init ==
    /\ pc = [t \in Tests |-> "ipc"] /\ opt \in [Tests -> Options]
    /\ testdir = [t \in Tests |-> FALSE] /\ mntpoint_mounted = testdir
    /\ ovl_mounted = testdir /\ device_acquired = testdir /\ clock_saved = testdir
    /\ path = [t \in Tests |-> None] /\ saved = path
    /\ fs = [t \in Tests |-> 0] /\ tries = fs /\ depth = fs
    /\ held = [t \in Tests |-> {}] /\ warned = held
    /\ loop = [d \in Devices |-> None] /\ auto = {} /\ conf = Orig
    /\ stolen = {} /\ dirty = FALSE /\ faults = 0

----------------------------------------------------------------------------
Set(f, t, v) == f' = [f EXCEPT ![t] = v]
Go(t, s) == Set(pc, t, s) /\ UNCHANGED depth
Hold(t, r) == Set(held, t, held[t] \cup {r})
Drop(t, r) == Set(held, t, held[t] \ {r})
Warn(t, r) == Set(warned, t, warned[t] \cup {r}) /\ UNCHANGED <<stolen, dirty>>

\* do_exit(), from the end of the run or from a tst_brk().
DoExit(t) ==
    IF depth[t] = MaxDepth THEN Go(t, "overflow")
    ELSE Set(pc, t, "ovl") /\ Set(depth, t, depth[t] + 1)

Works == UNCHANGED faults
Fails == faults < MaxFaults /\ faults' = faults + 1

\* A call that leaves things as they are: it works, or the test breaks.
Attempt(t, s) == (Works /\ Go(t, s)) \/ (Fails /\ DoExit(t))

----------------------------------------------------------------------------
(* do_setup().                                                               *)

\* setup_ipc(): the file stays for tests whose children are started by exec().
SetupIpc(t) ==
    /\ pc[t] = "ipc"
    /\ \/ /\ Works /\ Go(t, "tmpdir")
          /\ IF opt[t].reinit THEN Hold(t, "shm") ELSE UNCHANGED held
       \/ Fails /\ DoExit(t) /\ (Hold(t, "shm") \/ UNCHANGED held)
    /\ UNCHANGED <<memory, devices, conf, history>>

NeedsTmpdir(o) == o.device \/ o.rofs \/ o.devfs \/ o.reinit

TmpdirLate(t) ==            \* mutant: TESTDIR is set when everything has worked
    /\ pc[t] = "tmpdir"
    /\ \/ ~ NeedsTmpdir(opt[t]) /\ Works /\ Go(t, "save") /\ UNCHANGED <<testdir, held>>
       \/ /\ NeedsTmpdir(opt[t])
          /\ \/ Works /\ Go(t, "save") /\ Set(testdir, t, TRUE) /\ Hold(t, "dir")
             \/ /\ Fails /\ DoExit(t)
                /\ Hold(t, "dir") /\ UNCHANGED testdir
    /\ UNCHANGED <<opt, mntpoint_mounted, ovl_mounted, device_acquired, clock_saved, path,
                   saved, fs, tries, devices, conf, history>>

\* tst_tmpdir().  It may fail before there is a directory; when there is one, but
\* strdup() has no memory for its name; later on, which leaves the directory; or
\* in chdir(), and the directory is removed again.
Tmpdir(t) ==
    /\ pc[t] = "tmpdir"
    /\ \/ ~ NeedsTmpdir(opt[t]) /\ Works /\ Go(t, "save") /\ UNCHANGED <<testdir, held>>
       \/ /\ NeedsTmpdir(opt[t])
          /\ \/ Works /\ Go(t, "save") /\ Set(testdir, t, TRUE) /\ Hold(t, "dir")
             \/ /\ Fails /\ DoExit(t)
                /\ \/ UNCHANGED testdir /\ (Hold(t, "unnamed") \/ UNCHANGED held)
                   \/ Set(testdir, t, TRUE) /\ (Hold(t, "dir") \/ UNCHANGED held)
    /\ UNCHANGED <<opt, mntpoint_mounted, ovl_mounted, device_acquired, clock_saved, path,
                   saved, fs, tries, devices, conf, history>>

\* tst_sys_conf_save(), of a path without '?'.
Save(t) ==
    /\ pc[t] = "save"
    /\ \/ /\ Works /\ Go(t, "mkdir")
          /\ IF opt[t].conf
             THEN Set(saved, t, conf) /\ dirty' = (dirty \/ conf # Orig)
             ELSE UNCHANGED <<saved, dirty>>
       \/ opt[t].conf /\ Fails /\ DoExit(t) /\ UNCHANGED <<saved, dirty>>
    /\ UNCHANGED <<opt, flags, path, fs, tries, held, devices, conf, warned, stolen>>

Conflict(o) ==
    (o.rofs /\ o.devfs) \/ (o.rofs /\ o.device) \/ (o.devfs /\ o.device)

\* The mount point, and the check of the requests.
Mkdir(t) ==
    /\ pc[t] = "mkdir"
    /\ IF Conflict(opt[t]) THEN Works /\ DoExit(t) ELSE Attempt(t, "devfs")
    /\ UNCHANGED <<memory, held, devices, conf, history>>

Mounted(t) == Set(mntpoint_mounted, t, TRUE) /\ Hold(t, "mnt")

\* prepare_and_mount_dev_fs(): a tmpfs, if TMPDIR is mounted nodev.
DevFs(t) ==
    /\ pc[t] = "devfs"
    /\ \/ Works /\ Go(t, "rofs") /\ UNCHANGED <<mntpoint_mounted, held>>
       \/ opt[t].devfs /\ Works /\ Go(t, "rofs") /\ Mounted(t)
       \/ opt[t].devfs /\ Fails /\ DoExit(t) /\ UNCHANGED <<mntpoint_mounted, held>>
    /\ UNCHANGED <<opt, testdir, ovl_mounted, device_acquired, clock_saved, path, saved, fs,
                   tries, devices, conf, history>>

Fallback(o) == [o EXCEPT !.device = TRUE, !.format = TRUE]

\* prepare_and_mount_ro_fs() with a tmpfs; a device if it cannot be mounted.
RoFs(t) ==
    /\ pc[t] = "rofs"
    /\ \/ ~ opt[t].rofs /\ Works /\ Go(t, "find") /\ UNCHANGED <<opt, mntpoint_mounted, held>>
       \/ /\ opt[t].rofs
          /\ \/ Works /\ Go(t, "find") /\ Mounted(t) /\ UNCHANGED opt
             \/ Fails /\ DoExit(t) /\ Mounted(t) /\ UNCHANGED opt
             \/ /\ Fails /\ Go(t, "find") /\ UNCHANGED <<mntpoint_mounted, held>>
                /\ Set(opt, t, Fallback(opt[t]))
    /\ UNCHANGED <<testdir, ovl_mounted, device_acquired, clock_saved, path, saved, fs, tries,
                   devices, conf, history>>

Free(d) == loop[d] = None
LowestFree(d) == Free(d) /\ \A e \in Devices : Free(e) => d <= e

FindAcquires(t) ==          \* mutant: device_acquired is set before the device is
    /\ pc[t] = "find"
    /\ \/ /\ ~ opt[t].device \/ mntpoint_mounted[t]
          /\ Works /\ Go(t, "overlay") /\ UNCHANGED <<path, device_acquired>>
       \/ /\ opt[t].device /\ ~ mntpoint_mounted[t]
          /\ \E d \in Devices : LowestFree(d) /\ Set(path, t, d) /\ Works /\ Go(t, "attach")
          /\ Set(device_acquired, t, TRUE)
    /\ UNCHANGED <<opt, testdir, mntpoint_mounted, ovl_mounted, clock_saved, saved, fs, tries,
                   held, devices, conf, history>>

\* tst_acquire_loop_device(): the image file, and tst_find_free_loopdev().
Find(t) ==
    /\ pc[t] = "find"
    /\ \/ /\ ~ opt[t].device \/ mntpoint_mounted[t]
          /\ Works /\ Go(t, "overlay") /\ UNCHANGED path
       \/ /\ opt[t].device /\ ~ mntpoint_mounted[t]
          /\ \/ \E d \in Devices : LowestFree(d) /\ Set(path, t, d) /\ Works /\ Go(t, "attach")
             \/ (\A d \in Devices : ~ Free(d)) /\ Works /\ DoExit(t) /\ UNCHANGED path
             \/ Fails /\ DoExit(t) /\ UNCHANGED path
    /\ UNCHANGED <<opt, flags, saved, fs, tries, held, devices, conf, history>>

AttachBusy(t) ==            \* mutant: LOOP_SET_FD on a device that is not free
    /\ pc[t] = "attach"
    /\ Works /\ Go(t, "status") /\ Set(loop, path[t], t)
    /\ UNCHANGED <<memory, held, auto, conf, history>>

\* tst_attach_device(), up to LOOP_SET_FD.
Attach(t) ==
    /\ pc[t] = "attach"
    /\ \/ Free(path[t]) /\ Works /\ Go(t, "status") /\ Set(loop, path[t], t)
       \/ ~ Free(path[t]) /\ Works /\ DoExit(t) /\ UNCHANGED loop
       \/ Fails /\ DoExit(t) /\ UNCHANGED loop
    /\ UNCHANGED <<memory, held, auto, conf, history>>

\* LOOP_SET_STATUS; if it fails the device stays attached.
SetStatus(t) ==
    /\ pc[t] = "status"
    /\ \/ /\ ~ Free(path[t]) /\ Works
          /\ Set(device_acquired, t, TRUE)
          /\ Go(t, IF opt[t].allfs THEN "overlay" ELSE "mkfs")
          /\ UNCHANGED history
       \/ /\ IF Free(path[t]) THEN Works ELSE Fails
          /\ DoExit(t) /\ Warn(t, "dev")
          /\ UNCHANGED device_acquired
    /\ UNCHANGED <<opt, testdir, mntpoint_mounted, ovl_mounted, clock_saved, path, saved, fs,
                   tries, held, devices, conf>>

InUse(d, users) == \E t \in users : path[t] = d /\ "mnt" \in held[t]

\* prepare_device(): mkfs ...
Mkfs(t) ==
    /\ pc[t] = "mkfs"
    /\ IF opt[t].format /\ (Free(path[t]) \/ InUse(path[t], Tests))
       THEN Works /\ DoExit(t)
       ELSE Attempt(t, "mount")
    /\ UNCHANGED <<memory, held, devices, conf, history>>

\* ... and mount.  What prepare_and_mount_ro_fs() returns is not looked at.
MountDevice(t) ==
    LET next == IF opt[t].allfs THEN "run" ELSE "overlay"
    IN  /\ pc[t] = "mount"
        /\ \/ /\ ~ opt[t].rofs /\ ~ opt[t].mount
              /\ Works /\ Go(t, next) /\ UNCHANGED <<mntpoint_mounted, held>>
           \/ /\ opt[t].rofs \/ opt[t].mount
              /\ ~ Free(path[t]) /\ Works /\ Go(t, next) /\ Mounted(t)
           \/ /\ opt[t].rofs
              /\ \/ Fails /\ DoExit(t) /\ Mounted(t)
                 \/ /\ IF Free(path[t]) THEN Works ELSE Fails
                    /\ Go(t, next) /\ UNCHANGED <<mntpoint_mounted, held>>
           \/ /\ ~ opt[t].rofs /\ opt[t].mount
              /\ IF Free(path[t]) THEN Works ELSE Fails
              /\ DoExit(t) /\ UNCHANGED <<mntpoint_mounted, held>>
        /\ UNCHANGED <<opt, testdir, ovl_mounted, device_acquired, clock_saved, path, saved, fs,
                       tries, devices, conf, history>>

\* SAFE_MOUNT_OVERLAY(), on a mount point that is mounted.
Overlay(t) ==
    /\ pc[t] = "overlay"
    /\ \/ ~ opt[t].overlay /\ Works /\ Go(t, "last") /\ UNCHANGED <<ovl_mounted, held>>
       \/ /\ opt[t].overlay
          /\ IF opt[t].mount /\ mntpoint_mounted[t]
             THEN \/ Works /\ Go(t, "last") /\ Set(ovl_mounted, t, TRUE) /\ Hold(t, "ovl")
                  \/ Fails /\ DoExit(t) /\ UNCHANGED <<ovl_mounted, held>>
             ELSE Works /\ DoExit(t) /\ UNCHANGED <<ovl_mounted, held>>
    /\ UNCHANGED <<opt, testdir, mntpoint_mounted, device_acquired, clock_saved, path, saved, fs,
                   tries, devices, conf, history>>

\* copy_resources(), tst_wallclock_save() and tst_taint_init(), which breaks the
\* test when the clock has been saved.
Last(t) ==
    /\ pc[t] = "last"
    /\ \/ /\ Fails /\ DoExit(t)
          /\ UNCHANGED clock_saved \/ Set(clock_saved, t, opt[t].clock)
       \/ /\ Works /\ Set(clock_saved, t, opt[t].clock)
          /\ Go(t, IF opt[t].allfs THEN "mkfs" ELSE "run")
    /\ UNCHANGED <<opt, testdir, mntpoint_mounted, ovl_mounted, device_acquired, path, saved, fs,
                   tries, held, devices, conf, history>>

----------------------------------------------------------------------------
(* The test.                                                                 *)

\* The test changes the system configuration, ...
RunChanges(t) ==
    /\ pc[t] = "run" /\ opt[t].conf
    /\ conf' = Changed
    /\ UNCHANGED <<pc, memory, depth, held, devices, history, faults>>

\* ... and ends: fork_testrun() returns, or calls tst_brk().
RunEnds(t) ==
    /\ pc[t] = "run"
    /\ Works
    /\ DoExit(t) \/ (opt[t].allfs /\ Go(t, "next"))
    /\ UNCHANGED <<memory, held, devices, conf, history>>

\* tst_umount() of the mount point.  A device that is to be cleared when nobody
\* uses it any more is.
Unmounted(t) ==
    /\ Works /\ Drop(t, "mnt")
    /\ IF path[t] \in auto /\ ~ InUse(path[t], Tests \ {t})
       THEN Set(loop, path[t], None) /\ auto' = auto \ {path[t]}
       ELSE UNCHANGED devices
    /\ UNCHANGED history
StaysMounted(t) ==
    Fails /\ Warn(t, "mnt") /\ UNCHANGED <<held, devices>>

\* The end of the loop of run_tcases_per_fs(): there is another round, or not, or
\* the test has failed.
NextFs(t) ==
    /\ pc[t] = "next"
    /\ IF mntpoint_mounted[t]
       THEN Unmounted(t) \/ StaysMounted(t)
       ELSE Works /\ UNCHANGED <<held, devices, history>>
    /\ Set(mntpoint_mounted, t, FALSE)
    /\ \/ fs[t] + 1 < Filesystems /\ Set(fs, t, fs[t] + 1) /\ Go(t, "mkfs")
       \/ UNCHANGED fs /\ DoExit(t)
    /\ UNCHANGED <<opt, testdir, ovl_mounted, device_acquired, clock_saved, path, saved, tries,
                   conf>>

----------------------------------------------------------------------------
(* do_cleanup().                                                             *)

\* SAFE_UMOUNT() breaks the test again, and ovl_mounted stays set.
UmountOverlay(t) ==
    /\ pc[t] = "ovl"
    /\ \/ ~ ovl_mounted[t] /\ Works /\ Go(t, "umount") /\ UNCHANGED held
       \/ /\ ovl_mounted[t]
          /\ IF "ovl" \in held[t]
             THEN \/ Works /\ Go(t, "umount") /\ Drop(t, "ovl")
                  \/ Fails /\ DoExit(t) /\ UNCHANGED held
             ELSE Works /\ DoExit(t) /\ UNCHANGED held
    /\ UNCHANGED <<memory, devices, conf, history>>

\* tst_umount() only warns, also about what is not mounted any more.
Umount(t) ==
    /\ pc[t] = "umount"
    /\ Go(t, "release")
    /\ IF mntpoint_mounted[t]
       THEN IF "mnt" \in held[t] THEN Unmounted(t) \/ StaysMounted(t)
            ELSE Works /\ Warn(t, "mnt") /\ UNCHANGED <<held, devices>>
       ELSE Works /\ UNCHANGED <<held, devices, history>>
    /\ UNCHANGED <<memory, conf>>

NothingToRelease(t) ==
    /\ pc[t] = "release" /\ ~ (opt[t].device /\ device_acquired[t])
    /\ Works /\ Go(t, "rmdir")
    /\ UNCHANGED <<memory, held, devices, conf, history>>

\* tst_release_device() returns.
Released(t) ==
    Set(device_acquired, t, FALSE) /\ Go(t, "rmdir")

\* LOOP_CLR_FD in tst_detach_device_by_fd().  A device that is mounted is cleared
\* later; one that another process has just open is, too, which is the same here.
ClearDevice(t) ==
    /\ ~ Free(path[t]) /\ Works
    /\ IF InUse(path[t], Tests) THEN auto' = auto \cup {path[t]} /\ UNCHANGED loop
       ELSE auto' = auto \ {path[t]} /\ Set(loop, path[t], None)
    /\ stolen' = stolen \cup ({loop[path[t]]} \ {t})
    /\ UNCHANGED dirty

ReleaseForever(t) ==        \* mutant: one call too many
    /\ pc[t] = "release" /\ opt[t].device /\ device_acquired[t]
    /\ \/ Free(path[t]) /\ Works /\ Released(t) /\ UNCHANGED <<tries, devices, history>>
       \/ /\ ClearDevice(t) /\ Set(tries, t, tries[t] + 1)
          /\ IF tries[t] = MaxClears
             THEN Released(t) /\ Set(warned, t, warned[t] \cup {"dev"})
             ELSE UNCHANGED <<pc, depth, device_acquired, warned>>
    /\ UNCHANGED <<opt, testdir, mntpoint_mounted, ovl_mounted, clock_saved, path, saved, fs,
                   held, conf>>

\* One round of the loop there, until the device is free (ENXIO).
Release(t) ==
    /\ pc[t] = "release" /\ opt[t].device /\ device_acquired[t]
    /\ \/ /\ Free(path[t]) /\ Works /\ Released(t)
          /\ UNCHANGED <<tries, devices, history>>
       \/ /\ ClearDevice(t) /\ Set(tries, t, tries[t] + 1)
          /\ IF tries[t] + 1 = MaxClears
             THEN Released(t) /\ Set(warned, t, warned[t] \cup {"dev"})
             ELSE UNCHANGED <<pc, depth, device_acquired, warned>>
       \/ /\ Fails /\ Released(t) /\ Warn(t, "dev")
          /\ UNCHANGED <<tries, devices>>
    /\ UNCHANGED <<opt, testdir, mntpoint_mounted, ovl_mounted, clock_saved, path, saved, fs,
                   held, conf>>

\* tst_rmdir(), which does not get past something that is mounted.
Rmdir(t) ==
    /\ pc[t] = "rmdir"
    /\ Go(t, "restore")
    /\ \/ ~ testdir[t] /\ Works /\ UNCHANGED <<held, history>>
       \/ /\ testdir[t]
          /\ IF "dir" \in held[t] /\ "mnt" \notin held[t]
             THEN \/ Works /\ Drop(t, "dir") /\ UNCHANGED history
                  \/ Fails /\ Warn(t, "dir") /\ UNCHANGED held
             ELSE Works /\ Warn(t, "dir") /\ UNCHANGED held
    /\ UNCHANGED <<memory, devices, conf>>

RestoreWithClock(t) ==      \* mutant: restored only if the wall clock is, too
    /\ pc[t] = "restore"
    /\ Works /\ Go(t, "clock")
    /\ IF saved[t] = None \/ ~ opt[t].clock THEN UNCHANGED conf ELSE conf' = saved[t]
    /\ UNCHANGED <<memory, held, devices, history>>

\* tst_sys_conf_restore()
Restore(t) ==
    /\ pc[t] = "restore"
    /\ Go(t, "clock")
    /\ \/ /\ Works /\ UNCHANGED warned
          /\ IF saved[t] = None THEN UNCHANGED conf ELSE conf' = saved[t]
       \/ /\ saved[t] # None /\ Fails /\ UNCHANGED conf
          /\ Set(warned, t, warned[t] \cup {"conf"})
    /\ UNCHANGED <<memory, held, devices, stolen, dirty>>

RestoreClockKept(t) ==      \* mutant: clock_saved is cleared at the end
    /\ pc[t] = "clock"
    /\ \/ Works /\ Go(t, "unipc") /\ Set(clock_saved, t, FALSE)
       \/ clock_saved[t] /\ Fails /\ DoExit(t) /\ UNCHANGED clock_saved
    /\ UNCHANGED <<opt, testdir, mntpoint_mounted, ovl_mounted, device_acquired, path, saved,
                   fs, tries, held, devices, conf, history>>

\* tst_wallclock_restore(), which may break the test.
RestoreClock(t) ==
    /\ pc[t] = "clock"
    /\ Set(clock_saved, t, FALSE)
    /\ \/ Works /\ Go(t, "unipc")
       \/ clock_saved[t] /\ Fails /\ DoExit(t)
    /\ UNCHANGED <<opt, testdir, mntpoint_mounted, ovl_mounted, device_acquired, path, saved,
                   fs, tries, held, devices, conf, history>>

\* cleanup_ipc(), exit()
CleanupIpc(t) ==
    /\ pc[t] = "unipc"
    /\ Go(t, "exited")
    /\ \/ Works /\ Drop(t, "shm") /\ UNCHANGED history
       \/ "shm" \in held[t] /\ Fails /\ Warn(t, "shm") /\ UNCHANGED held
    /\ UNCHANGED <<memory, devices, conf>>

----------------------------------------------------------------------------
Setup(t) ==
    \/ SetupIpc(t) \/ Tmpdir(t) \/ Save(t) \/ Mkdir(t) \/ DevFs(t) \/ RoFs(t) \/ Find(t)
    \/ Attach(t) \/ SetStatus(t) \/ Mkfs(t) \/ MountDevice(t) \/ Overlay(t) \/ Last(t)
Run(t) == RunChanges(t) \/ RunEnds(t) \/ NextFs(t)
Cleanup(t) ==
    \/ UmountOverlay(t) \/ Umount(t) \/ NothingToRelease(t) \/ Release(t) \/ Rmdir(t)
    \/ Restore(t) \/ RestoreClock(t) \/ CleanupIpc(t)

Next == \E t \in Tests : Setup(t) \/ Run(t) \/ Cleanup(t)

Spec == Init /\ [][Next]_vars

----------------------------------------------------------------------------
(* Properties.                                                               *)

\* However far the set-up came, which calls fail and whatever the other tests do:
\* when a test exits, what is left of it in the system has been warned about
\* (do_cleanup, tst_test.c:1079-1102).  The exception is the directory for whose
\* name tst_tmpdir() had no memory (tst_tmpdir.c:275-279): TESTDIR is NULL then,
\* and tst_rmdir() is not called.
LeftoversWarned ==
    \A t \in Tests :
        pc[t] = "exited" =>
            /\ held[t] \ {"unnamed"} \subseteq warned[t]
            /\ (\E d \in Devices : loop[d] = t) => "dev" \in warned[t]

\* A test function runs only with what the test has asked for: a device with its
\* own file, a mount point that is mounted, the overlay (do_setup, 905-1048).
\* There are two exceptions: this device has been cleared by another test, and
\* needs_rofs with a device that cannot be mounted (893).
ReadyToRun ==
    \A t \in Tests :
        pc[t] = "run" =>
            /\ opt[t].device /\ t \notin stolen => loop[path[t]] = t
            /\ opt[t].mount => "mnt" \in held[t]
            /\ opt[t].overlay => "ovl" \in held[t]
            /\ opt[t].rofs => "mnt" \in held[t] \/ opt[t].device

\* The first LOOP_CLR_FD of a release is for the test's own device.  A test takes
\* the device of another one away, which has attached it in between, only when it
\* repeats the call or has itself lost its device in this way before
\* (tst_detach_device_by_fd, tst_device.c:194-214).
OnlyRetriesSteal ==
    [][\A t \in Tests :
          tries'[t] # tries[t] /\ loop[path[t]] # t => tries[t] > 0 \/ t \in stolen]_vars

\* When all tests are over the configuration is as it was before, unless one
\* of them has saved what another one had changed (tst_sys_conf.c:41-104).
ConfRestored ==
    (\A t \in Tests : pc[t] = "exited" /\ "conf" \notin warned[t]) /\ ~ dirty => conf = Orig

\* do_cleanup() is called again at most once, by tst_wallclock_restore(), unless
\* an overlay cannot be unmounted (tst_test.c:1081-1082, 1099).
CleanupBounded ==
    \A t \in Tests : depth[t] <= 2 \/ opt[t].overlay
============================================================================
