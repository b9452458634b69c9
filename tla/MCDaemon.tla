------------------------------ MODULE MCDaemon ------------------------------
(* Daemon with few pids.  Pids are interchangeable.                        *)
EXTENDS Daemon, TLC
CONSTANTS p1, p2, p3
ThreePids == {p1, p2, p3}
Symmetry  == Permutations(ThreePids)
=============================================================================
