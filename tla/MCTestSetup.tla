---------------------------- MODULE MCTestSetup ----------------------------
(***************************************************************************)
(* Requests of tests, and a symmetry set, for checking TestSetup with TLC.  *)
(***************************************************************************)
EXTENDS TestSetup, TLC

CONSTANTS t1, t2

MCTests == {t1, t2}
Perms == Permutations(MCTests)

Request(fields) == [f \in {"device", "format", "mount", "allfs", "rofs", "devfs", "overlay",
                           "conf", "clock", "reinit"} |-> f \in fields]

\* .mount_device with an overlay, .all_filesystems, .needs_rofs, .needs_devfs,
\* and two that are refused
MCOptions ==
    {Request({"device", "format", "mount", "overlay", "clock"}),
     Request({"device", "format", "mount", "allfs", "conf"}),
     Request({"rofs", "conf"}), Request({"devfs", "reinit", "clock"}),
     Request({"device", "rofs"}), Request({"device", "overlay"})}
============================================================================
