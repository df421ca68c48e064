----------------------------- MODULE GameClock -----------------------------
(***************************************************************************)
(* What a room's game clock promises, with no stored timestamps: a clock   *)
(* per room that visibly counts down once per millisecond while its game   *)
(* is running and at no other time.                                        *)
(*                                                                         *)
(* The callers of gm_core read the millisecond clock before they wait for  *)
(* the session lock, so an operation may act on a reading that is up to    *)
(* SKEW old.  The promise is that each operation moves the clock by at     *)
(* most SKEW from what it should show, and that nothing else moves it.     *)
(***************************************************************************)
EXTENDS Integers

CONSTANTS Rooms, UINT32_MAX, SKEW, Durations, Deltas

VARIABLES phase,  \* phase[r]: IDLE, RUNNING, PAUSED or FINISHED
          left    \* left[r]: the milliseconds the players see

cvars == <<phase, left>>

Floor(v) == IF v <= 0 THEN 0 ELSE v
Saturate(v) == IF v > UINT32_MAX THEN UINT32_MAX ELSE Floor(v)

\* What a running clock may show when it was last set to v by a stale reading.
Behind(v) == {x \in 0 .. v : x >= v - SKEW}
\* What an operation with a stale reading may believe room r has left.
Believed(r) ==
    IF phase[r] = "RUNNING"
    THEN {x \in 0 .. UINT32_MAX : left[r] <= x /\ x <= left[r] + SKEW}
    ELSE {left[r]}

Show(r, p, x) == /\ phase' = [phase EXCEPT ![r] = p]
                 /\ left' = [left EXCEPT ![r] = x]

Start(r) == \E d \in Durations : \E x \in Behind(d) : Show(r, "RUNNING", x)

Load(r) == \E d \in Durations : Show(r, "IDLE", d)

Pause(r) == /\ phase[r] = "RUNNING"
            /\ \E x \in Believed(r) : Show(r, "PAUSED", x)

Resume(r) == /\ phase[r] = "PAUSED"
             /\ \E x \in Behind(left[r]) : Show(r, "RUNNING", x)

Finish(r) == \E x \in Believed(r) : Show(r, "FINISHED", x)

\* Taking the last of the time ends the game; giving time to a finished game
\* leaves it paused, so that a person resumes it.
AddTime(r) ==
    \E delta \in Deltas, x \in Believed(r) :
        LET total == Saturate(x + delta)
            p == IF total = 0 /\ phase[r] # "IDLE" THEN "FINISHED"
                 ELSE IF phase[r] = "FINISHED" /\ total > 0 THEN "PAUSED"
                 ELSE phase[r]
        IN  \E y \in (IF p = "RUNNING" THEN Behind(total) ELSE {total}) :
                Show(r, p, y)

Tick == /\ left' = [r \in Rooms |-> IF phase[r] = "RUNNING"
                                    THEN Floor(left[r] - 1) ELSE left[r]]
        /\ UNCHANGED phase

CInit == /\ phase = [r \in Rooms |-> "IDLE"]
         /\ left = [r \in Rooms |-> 0]

CNext == \/ Tick
         \/ \E r \in Rooms : \/ Start(r) \/ Load(r) \/ Pause(r)
                             \/ Resume(r) \/ Finish(r) \/ AddTime(r)

CSpec == CInit /\ [][CNext]_cvars
=============================================================================
