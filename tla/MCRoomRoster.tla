---------------------------- MODULE MCRoomRoster ----------------------------
(* The Watcher and a session that comes and goes beside it, both with       *)
(* captions; one HTTP thread and two connectors, the closing one and the    *)
(* open one, emit audience events.                                          *)
EXTENDS RoomRoster, TLC

Symmetry == Permutations(Counters) \cup Permutations(Connectors) \cup Permutations(Sinks)

\* What follows a collision is not continued: the properties of run room_hub
\* say nothing about it.  Run room_ghosts continues it.
UntilCollision == ~collided /\ ~overtaken
=============================================================================
