------------------------------- MODULE MCPan -------------------------------
(***************************************************************************)
(* Option records and a symmetry set for checking Pan with TLC.             *)
(***************************************************************************)
EXTENDS Pan, TLC

CONSTANTS p1, p2, p3

MCPids2 == {p1, p2}
MCPids3 == {p1, p2, p3}
Perms3 == Permutations(MCPids3)

Opt(seq, s, brakes, track, y) ==
    [sequential |-> seq, timed |-> FALSE, starts |-> s, has_brakes |-> brakes,
     track_exit_stats |-> track, fork_in_road |-> y]

\* -S -s 3 with -e, with -A and with -A -y; -s 3 with random choice; and -S -s 0,
\* which runs for ever
MCOptions ==
    {Opt(TRUE, 3, FALSE, TRUE, FALSE), Opt(TRUE, 3, TRUE, TRUE, FALSE),
     Opt(TRUE, 3, TRUE, TRUE, TRUE), Opt(FALSE, 3, FALSE, FALSE, FALSE),
     Opt(TRUE, 0, FALSE, FALSE, FALSE)}

\* -S -s 4 -y: go idle on a signal; -S -A
MCHarsh == {Opt(TRUE, 4, FALSE, FALSE, TRUE), Opt(TRUE, -1, TRUE, TRUE, FALSE)}

\* -S -s 256 -e
MCMany == {Opt(TRUE, 256, FALSE, TRUE, FALSE)}

\* -S -e
MCPlain == {Opt(TRUE, -1, FALSE, TRUE, FALSE)}
============================================================================
