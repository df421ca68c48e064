-------------------------- MODULE MCGmRoomSession --------------------------
(* Small instances of GmRoomSession for TLC. *)
EXTENDS GmRoomSession

\* No time and the most a timer can hold.  The times between are never set,
\* only reached by counting down: there a step that gains or loses time
\* cannot pass for the start of a new game.
MCDurations == {0, UINT32_MAX}
\* Take more than most timers hold, give one, give until the timer saturates.
MCDeltas == {-3, 1, UINT32_MAX}
=============================================================================
