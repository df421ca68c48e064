------------------------------ MODULE GmTimer ------------------------------
(***************************************************************************)
(* The room countdown timer of gm_core (timer/gm_timer.c).                 *)
(*                                                                         *)
(* A timer is a value: the C functions that mutate a gm_timer_t are        *)
(* operators from the old record to the new one.  The timer is lazy: a     *)
(* RUNNING timer stores what was left at last_updated_ms and what is left  *)
(* now is computed by get_remaining; nothing ever ticks it.  started_at_ms *)
(* and paused_at_ms are only displayed and are left out.                   *)
(***************************************************************************)
EXTENDS Integers

CONSTANT UINT32_MAX  \* largest value of a uint32_t (2^32 - 1 in the firmware)

ASSUME UInt32MaxAssumption == UINT32_MAX \in Nat \ {0}

TimerState == {"IDLE", "RUNNING", "PAUSED", "FINISHED"}

\* gm_timer_t; last is last_updated_ms, a 64-bit millisecond clock that does
\* not wrap in the life of the device.
Timer == [state : TimerState,
          duration : 0 .. UINT32_MAX,
          remaining : 0 .. UINT32_MAX,
          last : Nat]

clamp_remaining_no_floor(v) == IF v > UINT32_MAX THEN UINT32_MAX ELSE v

\* gm_timer_clamp_remaining: a signed 64-bit amount saturated to a uint32_t.
clamp_remaining(v) ==
    IF v <= 0 THEN 0 ELSE IF v > UINT32_MAX THEN UINT32_MAX ELSE v

\* gm_timer_get_remaining: only a RUNNING timer loses time, and a clock
\* reading that is not after last_updated_ms takes nothing off.
get_remaining(tm, now) ==
    IF tm.state = "RUNNING" /\ now > tm.last
    THEN clamp_remaining(tm.remaining - (now - tm.last))
    ELSE tm.remaining

timer_reset(d, now) ==
    [state |-> "IDLE", duration |-> d, remaining |-> d, last |-> now]

timer_start(d, now) == [timer_reset(d, now) EXCEPT !.state = "RUNNING"]

\* gm_timer_pause past its guard (state RUNNING).
timer_pause(tm, now) ==
    [tm EXCEPT !.remaining = get_remaining(tm, now),
               !.state = "PAUSED",
               !.last = now]

timer_resume_keeps_last(tm, now) == [tm EXCEPT !.state = "RUNNING"]

\* gm_timer_resume past its guard (state PAUSED).
timer_resume(tm, now) == [tm EXCEPT !.state = "RUNNING", !.last = now]

timer_finish(tm, now) ==
    [tm EXCEPT !.remaining = get_remaining(tm, now),
               !.state = "FINISHED",
               !.last = now]

\* gm_timer_add_time: running out finishes any timer but an idle one; a
\* finished timer that gets time back is left paused, never restarted.
timer_add_time(tm, delta, now) ==
    LET left == clamp_remaining(get_remaining(tm, now) + delta)
    IN  [tm EXCEPT
           !.remaining = left,
           !.state = IF left = 0 /\ tm.state # "IDLE" THEN "FINISHED"
                     ELSE IF tm.state = "FINISHED" /\ left > 0 THEN "PAUSED"
                     ELSE tm.state,
           !.last = now]
=============================================================================
