--------------------------- MODULE MCCleanupJobs ---------------------------
(* Two places, one job (the locks of different jobs share nothing) and      *)
(* enough identities for two restarts.                                      *)
EXTENDS CleanupJobs

CONSTANTS p1, p2, ghosts, i1, i2, i3, i4

MCProcs == {p1, p2}
MCJobs  == {ghosts}
MCIds   == {i1, i2, i3, i4}
=============================================================================
