---------------------------- MODULE MCRoomGhosts ----------------------------
(* The Watcher, a session that comes and goes beside it, and two requests   *)
(* of one user that may overlap.  There is a counter per session, and one   *)
(* connector: a first subscriber waits until the closing one is gone.       *)
EXTENDS RoomGhosts, TLC

Symmetry == Permutations(Counters) \cup Permutations(Sinks) \cup Permutations(Requests)
=============================================================================
