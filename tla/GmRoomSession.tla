--------------------------- MODULE GmRoomSession ---------------------------
(***************************************************************************)
(* The room session table of gm_core (session/gm_room_session.c and        *)
(* gm_room_session_game.c): a fixed array of slots, each with the life     *)
(* cycle of one room's game, its countdown timer, hint and selection.      *)
(*                                                                         *)
(* Every API function takes the session mutex, does its work and releases  *)
(* it, so one call is one action.  Its now_ms argument was read by the     *)
(* caller before it waited for the mutex: any reading at most SKEW old.    *)
(* A call that returns an error before changing anything is a stutter and  *)
(* has no action.  The scenario side of a session is in GmScenario.        *)
(***************************************************************************)
EXTENDS GmTimer, FiniteSets

CONSTANTS Rooms,           \* room ids callers use
          NoRoom,          \* the empty room_id of a free slot
          MAX_ROOMS,       \* GM_SESSION_MAX_ROOMS
          Durations,       \* durations callers pass
          Deltas,          \* add_time amounts callers pass
          SKEW,            \* bound: age of a clock reading when it is used
          UPTIME_MAX,      \* bound: the model stops the clock here
          GENERATION_MOD   \* the session generation is counted modulo this

ASSUME SessionAssumption ==
    /\ NoRoom \notin Rooms
    /\ MAX_ROOMS \in Nat \ {0}
    /\ Durations \subseteq 0 .. UINT32_MAX
    /\ Deltas \subseteq Int
    /\ SKEW \in Nat
    /\ UPTIME_MAX \in Nat
    /\ GENERATION_MOD \in Nat \ {0, 1}

VARIABLES sessions,    \* g_gm_room_sessions[MAX_ROOMS]
          now,         \* the 64-bit millisecond clock (esp_timer)
          generation   \* s_generation

vars == <<sessions, now, generation>>

Slots == 1 .. MAX_ROOMS

Session == [room : Rooms \cup {NoRoom},
            state : TimerState,
            timer : Timer,
            hint : BOOLEAN,
            profile_ms : 0 .. UINT32_MAX]

\* A slot as memset leaves it; NoRoom stands for in_use = false.
FreeSlot == [room |-> NoRoom, state |-> "IDLE", timer |-> timer_reset(0, 0),
             hint |-> FALSE, profile_ms |-> 0]

-----------------------------------------------------------------------------
(* Helpers *)

\* The clock readings a call that runs now may carry.
Stamps == {t \in 0 .. now : now - t <= SKEW}

\* gm_room_session_scenario_now_ms: the scenario runtime's 32-bit clock.
scenario_now(t) == t % (UINT32_MAX + 1)

\* Slot i is what find_session_mutable_locked(r) returns.
Found(r, i) ==
    /\ sessions[i].room = r
    /\ \A j \in Slots : j < i => sessions[j].room # r

AllocatedSkipsLookup(r, i) ==
    /\ sessions[i].room = NoRoom
    /\ \A j \in Slots : j < i => sessions[j].room # NoRoom

\* Slot i is what alloc_session_locked(r) returns: the room's own slot, else
\* the first free one.
Allocated(r, i) ==
    \/ Found(r, i)
    \/ /\ \A j \in Slots : sessions[j].room # r
       /\ sessions[i].room = NoRoom
       /\ \A j \in Slots : j < i => sessions[j].room # NoRoom

\* gm_room_session_mark_session_changed_locked: one new generation number per
\* lock section that changes a session.
mark_changed == generation' = (generation + 1) % GENERATION_MOD

\* The end of an action that changed slot i to s.
Changed(i, s) == /\ sessions' = [sessions EXCEPT ![i] = s]
                 /\ mark_changed
                 /\ UNCHANGED now

-----------------------------------------------------------------------------
(* Operations *)

\* gm_room_session_start
start(r, d, t) ==
    \E i \in Slots :
      /\ Allocated(r, i)
      /\ Changed(i, [sessions[i] EXCEPT !.room = r, !.state = "RUNNING",
                                        !.hint = FALSE,
                                        !.timer = timer_start(d, t)])

\* gm_room_session_pause: the session state is written before the timer is
\* asked, and a timer that refuses leaves the change unannounced.
pause(r, t) ==
    \E i \in Slots :
      /\ Found(r, i)
      /\ sessions[i].state = "RUNNING"
      /\ IF sessions[i].timer.state = "RUNNING"
         THEN Changed(i, [sessions[i] EXCEPT
                            !.state = "PAUSED",
                            !.timer = timer_pause(sessions[i].timer, t)])
         ELSE /\ sessions' = [sessions EXCEPT ![i].state = "PAUSED"]
              /\ UNCHANGED <<now, generation>>

\* gm_room_session_resume
resume(r, t) ==
    \E i \in Slots :
      /\ Found(r, i)
      /\ sessions[i].state = "PAUSED"
      /\ IF sessions[i].timer.state = "PAUSED"
         THEN Changed(i, [sessions[i] EXCEPT
                            !.state = "RUNNING",
                            !.timer = timer_resume(sessions[i].timer, t)])
         ELSE /\ sessions' = [sessions EXCEPT ![i].state = "RUNNING"]
              /\ UNCHANGED <<now, generation>>

finish_unmarked(r, t) ==
    \E i \in Slots :
      /\ Found(r, i)
      /\ sessions' = [sessions EXCEPT
                        ![i].state = "FINISHED",
                        ![i].timer = timer_finish(sessions[i].timer, t)]
      /\ UNCHANGED <<now, generation>>

\* gm_room_session_finish: from any state.
finish(r, t) ==
    \E i \in Slots :
      /\ Found(r, i)
      /\ Changed(i, [sessions[i] EXCEPT
                       !.state = "FINISHED",
                       !.timer = timer_finish(sessions[i].timer, t)])

\* finish_game_without_audio_locked, reached by an END_GAME step with the
\* runtime's 32-bit clock, widened again to the timer's 64 bits.
end_game(r, t) ==
    \E i \in Slots :
      /\ Found(r, i)
      /\ Changed(i, [sessions[i] EXCEPT
                       !.state = "FINISHED",
                       !.timer = timer_finish(sessions[i].timer,
                                              scenario_now(t))])

\* gm_room_session_reset
reset(r, d, t) ==
    \E i \in Slots :
      /\ Found(r, i)
      /\ Changed(i, [sessions[i] EXCEPT !.state = "IDLE", !.hint = FALSE,
                                        !.timer = timer_reset(d, t)])

add_time_timer_only(r, delta, t) ==
    \E i \in Slots :
      /\ Found(r, i)
      /\ Changed(i, [sessions[i] EXCEPT
                       !.timer = timer_add_time(sessions[i].timer, delta, t)])

\* gm_room_session_add_time: the session takes over the timer's new state.
add_time(r, delta, t) ==
    \E i \in Slots :
      LET tm == timer_add_time(sessions[i].timer, delta, t)
      IN  /\ Found(r, i)
          /\ Changed(i, [sessions[i] EXCEPT !.timer = tm, !.state = tm.state])

\* gm_room_session_set_hint
set_hint(r) ==
    \E i \in Slots :
      /\ Allocated(r, i)
      /\ Changed(i, [sessions[i] EXCEPT !.room = r, !.hint = TRUE])

\* gm_room_session_clear_hint
clear_hint(r) ==
    \E i \in Slots :
      /\ Found(r, i)
      /\ Changed(i, [sessions[i] EXCEPT !.hint = FALSE])

\* gm_room_session_select_profile_prepared: reads the clock under the lock.
select_profile(r, d) ==
    \E i \in Slots :
      /\ d # 0
      /\ Allocated(r, i)
      /\ Changed(i, [sessions[i] EXCEPT !.room = r, !.state = "IDLE",
                                        !.profile_ms = d,
                                        !.timer = timer_reset(d, now)])

\* gm_room_session_select_scenario_prepared: timer and state are left alone.
select_scenario(r) ==
    \E i \in Slots :
      /\ Allocated(r, i)
      /\ Changed(i, [sessions[i] EXCEPT !.room = r, !.profile_ms = 0])

\* Real time passes.
ClockTick == /\ now < UPTIME_MAX
             /\ now' = now + 1
             /\ UNCHANGED <<sessions, generation>>

-----------------------------------------------------------------------------

\* gm_room_session_init and reset_all, at boot.
Init == /\ sessions = [i \in Slots |-> FreeSlot]
        /\ now = 0
        /\ generation = 0

Operation(r) ==
    \/ \E t \in Stamps :
         \/ pause(r, t)
         \/ resume(r, t)
         \/ finish(r, t)
         \/ end_game(r, t)
         \/ \E d \in Durations : start(r, d, t)
         \/ \E d \in Durations : reset(r, d, t)
         \/ \E delta \in Deltas : add_time(r, delta, t)
    \/ set_hint(r)
    \/ clear_hint(r)
    \/ \E d \in Durations : select_profile(r, d)
    \/ select_scenario(r)

Next == ClockTick \/ \E r \in Rooms : Operation(r)

Spec == Init /\ [][Next]_vars

-----------------------------------------------------------------------------
(* Properties *)

\* Every variable has its type, and no timer was updated in the future: the
\* elapsed time gm_timer_get_remaining subtracts is never negative.
TypeOK == /\ sessions \in [Slots -> Session]
          /\ now \in Nat
          /\ generation \in 0 .. GENERATION_MOD - 1
          /\ \A i \in Slots : sessions[i].timer.last <= now

\* The session state and the timer state, which the API functions write one
\* after the other, agree whenever the session lock is free: the error path
\* of pause and resume that would leave them apart is never taken.
SessionAgreesWithTimer ==
    \A i \in Slots : sessions[i].state = sessions[i].timer.state

\* alloc_session_locked never gives a room a second slot, and the slots fill
\* from the front, so a lookup that stops at the first hit sees the only one.
OneSlotPerRoom ==
    \A i, j \in Slots :
        /\ sessions[i].room = sessions[j].room /\ i # j
               => sessions[i].room = NoRoom
        /\ sessions[j].room # NoRoom /\ i < j => sessions[i].room # NoRoom

\* Read models decide whether to rebuild by comparing session generations:
\* no session changes without the generation changing.
GenerationTracksChange ==
    [][sessions' # sessions => generation' # generation]_vars

\* END_GAME freezes what was left: the finished game never shows more time
\* than it had when END_GAME read the clock (up to SKEW ago).
EndGameFreezesRemaining ==
    [][\A i \in Slots :
         /\ sessions[i].state # "FINISHED" /\ sessions'[i].state = "FINISHED"
         => get_remaining(sessions'[i].timer, now)
              <= get_remaining(sessions[i].timer, now) + SKEW]_vars

\* The refinement mapping: a room shows its slot's state and computed time;
\* a room with no slot shows an idle, empty clock.
SlotOf(r) == {i \in Slots : sessions[i].room = r}
ShownPhase(r) == IF SlotOf(r) = {} THEN "IDLE"
                 ELSE sessions[CHOOSE i \in SlotOf(r) : TRUE].state
ShownLeft(r) == IF SlotOf(r) = {} THEN 0
                ELSE get_remaining(sessions[CHOOSE i \in SlotOf(r) : TRUE].timer,
                                   now)

GC == INSTANCE GameClock WITH phase <- [r \in Rooms |-> ShownPhase(r)],
                              left <- [r \in Rooms |-> ShownLeft(r)]

\* The lazily computed timers of the session table implement the ticking game
\* clocks: pausing, resuming, adding time and finishing lose or grant no time
\* beyond the staleness of the caller's clock reading.
ImplementsGameClock == GC!CSpec
=============================================================================
