------------------------ MODULE GmRoomSession_proofs ------------------------
(* Proofs about the room session table, for every number of rooms, slots and *)
(* clock values.                                                             *)
EXTENDS GmRoomSession, TLAPS

-----------------------------------------------------------------------------
(* Arithmetic of the 32-bit and generation counters *)

\* Reducing a clock reading to the 32-bit scenario clock never moves it into
\* the future, and keeps it when it fits.
LEMMA WrapFacts ==
    ASSUME NEW t \in Nat
    PROVE  /\ scenario_now(t) \in Nat
           /\ scenario_now(t) <= t
           /\ t <= UINT32_MAX => scenario_now(t) = t
  BY UInt32MaxAssumption DEF scenario_now

\* Counting on modulo GENERATION_MOD always yields another generation.
LEMMA GenerationFacts ==
    ASSUME NEW g \in 0 .. GENERATION_MOD - 1
    PROVE  /\ (g + 1) % GENERATION_MOD \in 0 .. GENERATION_MOD - 1
           /\ (g + 1) % GENERATION_MOD # g
  <1>1. CASE g + 1 < GENERATION_MOD
    BY <1>1, SessionAssumption
  <1>2. CASE g + 1 = GENERATION_MOD
    BY <1>2, SessionAssumption
  <1> QED
    BY <1>1, <1>2, SessionAssumption

-----------------------------------------------------------------------------
(* The timer operators return timers *)

\* gm_timer_clamp_remaining returns a uint32_t for every 64-bit amount.
LEMMA ClampType == ASSUME NEW v \in Int PROVE clamp_remaining(v) \in 0 .. UINT32_MAX
  BY UInt32MaxAssumption DEF clamp_remaining

\* gm_timer_get_remaining returns a uint32_t at any clock reading.
LEMMA RemainingType ==
    ASSUME NEW tm \in Timer, NEW t \in Nat
    PROVE  get_remaining(tm, t) \in 0 .. UINT32_MAX
  <1>1. /\ tm.remaining \in 0 .. UINT32_MAX
        /\ tm.last \in Nat
    BY DEF Timer
  <1>2. tm.remaining - (t - tm.last) \in Int
    BY <1>1, UInt32MaxAssumption
  <1>3. clamp_remaining(tm.remaining - (t - tm.last)) \in 0 .. UINT32_MAX
    BY <1>2, ClampType
  <1> QED
    BY <1>1, <1>3 DEF get_remaining

\* A new timer is a timer, and its clock is the one it was given.
LEMMA NewTimerType ==
    ASSUME NEW d \in 0 .. UINT32_MAX, NEW t \in Nat
    PROVE  /\ timer_reset(d, t) \in Timer
           /\ timer_reset(d, t).state = "IDLE"
           /\ timer_reset(d, t).remaining = d
           /\ timer_reset(d, t).last = t
           /\ timer_start(d, t) \in Timer
           /\ timer_start(d, t).state = "RUNNING"
           /\ timer_start(d, t).remaining = d
           /\ timer_start(d, t).last = t
  BY DEF timer_reset, timer_start, Timer, TimerState

\* A timer that is paused, resumed or finished stays a timer.
LEMMA PauseType ==
    ASSUME NEW tm \in Timer, NEW t \in Nat
    PROVE  /\ timer_pause(tm, t) \in Timer
           /\ timer_pause(tm, t).state = "PAUSED"
           /\ timer_pause(tm, t).remaining = get_remaining(tm, t)
           /\ timer_pause(tm, t).last = t
  BY RemainingType DEF timer_pause, Timer, TimerState

\* gm_timer_resume changes the state and the clock, not what is left.
LEMMA ResumeType ==
    ASSUME NEW tm \in Timer, NEW t \in Nat
    PROVE  /\ timer_resume(tm, t) \in Timer
           /\ timer_resume(tm, t).state = "RUNNING"
           /\ timer_resume(tm, t).remaining = tm.remaining
           /\ timer_resume(tm, t).last = t
  BY DEF timer_resume, Timer, TimerState

\* gm_timer_finish stores what is left at the reading it was given.
LEMMA FinishType ==
    ASSUME NEW tm \in Timer, NEW t \in Nat
    PROVE  /\ timer_finish(tm, t) \in Timer
           /\ timer_finish(tm, t).state = "FINISHED"
           /\ timer_finish(tm, t).remaining = get_remaining(tm, t)
           /\ timer_finish(tm, t).last = t
  BY RemainingType DEF timer_finish, Timer, TimerState

\* What gm_timer_add_time leaves behind.
LEMMA AddTimeType ==
    ASSUME NEW tm \in Timer, NEW t \in Nat, NEW delta \in Int
    PROVE  LET new == timer_add_time(tm, delta, t)
           IN  /\ new \in Timer
               /\ new.last = t
               /\ new.remaining = clamp_remaining(get_remaining(tm, t) + delta)
               /\ new.state = IF new.remaining = 0 /\ tm.state # "IDLE"
                              THEN "FINISHED"
                              ELSE IF tm.state = "FINISHED" /\ new.remaining > 0
                              THEN "PAUSED" ELSE tm.state
  <1>1. get_remaining(tm, t) + delta \in Int
    BY RemainingType, UInt32MaxAssumption
  <1>2. clamp_remaining(get_remaining(tm, t) + delta) \in 0 .. UINT32_MAX
    BY <1>1, ClampType
  <1> QED
    BY <1>2 DEF timer_add_time, Timer, TimerState

-----------------------------------------------------------------------------
(* What any operation does to the table *)

\* What an API call may do to a timer.
TimerMove(old, new) ==
    \/ new = old
    \/ \E t \in Stamps :
         \/ old.state = "RUNNING" /\ new = timer_pause(old, t)
         \/ old.state = "PAUSED" /\ new = timer_resume(old, t)
         \/ new = timer_finish(old, t)
         \/ new = timer_finish(old, scenario_now(t))
         \/ \E d \in Durations : new = timer_start(d, t) \/ new = timer_reset(d, t)
         \/ \E delta \in Deltas : new = timer_add_time(old, delta, t)

\* The new content s of slot i is a session of room r whose two states agree
\* and whose timer made a move and is not ahead of the clock; the slot is the
\* one alloc_session_locked gives to r.
Good(r, i, s) == /\ s \in Session
                 /\ s.room = r
                 /\ s.state = s.timer.state
                 /\ s.timer.last <= now
                 /\ TimerMove(sessions[i].timer, s.timer)
                 /\ Allocated(r, i)

\* Every API call is one good change of one slot.  The error paths of pause
\* and resume, which would change a session without announcing it, need a
\* session and a timer that disagree.
LEMMA OperationShape ==
    ASSUME TypeOK, SessionAgreesWithTimer, NEW r \in Rooms, Operation(r)
    PROVE  \E i \in Slots : \E s : Good(r, i, s) /\ Changed(i, s)
  <1> USE DEF Found
  <1>a. \A i \in Slots : /\ sessions[i] \in Session
                         /\ sessions[i].timer \in Timer
                         /\ sessions[i].hint \in BOOLEAN
                         /\ sessions[i].profile_ms \in 0 .. UINT32_MAX
                         /\ sessions[i].state = sessions[i].timer.state
                         /\ sessions[i].timer.last <= now
    BY DEF TypeOK, SessionAgreesWithTimer, Session
  <1>b. \A t \in Stamps : t \in Nat /\ t <= now
    BY DEF TypeOK, Stamps
  <1>c. now \in Nat /\ now \in Stamps /\ 0 \in 0 .. UINT32_MAX
    BY UInt32MaxAssumption, SessionAssumption DEF TypeOK, Stamps
  <1>1. ASSUME NEW t \in Stamps, pause(r, t)
        PROVE  \E i \in Slots : \E s : Good(r, i, s) /\ Changed(i, s)
    <2>1. PICK i \in Slots :
            /\ Found(r, i)
            /\ sessions[i].timer.state = "RUNNING"
            /\ Changed(i, [sessions[i] EXCEPT
                !.state = "PAUSED", !.timer = timer_pause(sessions[i].timer, t)])
      BY <1>1, <1>a DEF pause
    <2>2. /\ timer_pause(sessions[i].timer, t) \in Timer
          /\ timer_pause(sessions[i].timer, t).last <= now
          /\ timer_pause(sessions[i].timer, t).state = "PAUSED"
      <3>1. sessions[i].timer \in Timer /\ t \in Nat /\ t <= now
        BY <1>a, <1>b
      <3> QED
        BY <3>1, PauseType
    <2>3. Good(r, i, [sessions[i] EXCEPT
                !.state = "PAUSED", !.timer = timer_pause(sessions[i].timer, t)])
      BY <1>1, <1>a, <2>1, <2>2
      DEF Good, Session, TimerState, TimerMove, Allocated
    <2> QED
      BY <2>1, <2>3
  <1>2. ASSUME NEW t \in Stamps, resume(r, t)
        PROVE  \E i \in Slots : \E s : Good(r, i, s) /\ Changed(i, s)
    <2>1. PICK i \in Slots :
            /\ Found(r, i)
            /\ sessions[i].timer.state = "PAUSED"
            /\ Changed(i, [sessions[i] EXCEPT
                !.state = "RUNNING", !.timer = timer_resume(sessions[i].timer, t)])
      BY <1>2, <1>a DEF resume
    <2>2. /\ timer_resume(sessions[i].timer, t) \in Timer
          /\ timer_resume(sessions[i].timer, t).last <= now
          /\ timer_resume(sessions[i].timer, t).state = "RUNNING"
      <3>1. sessions[i].timer \in Timer /\ t \in Nat /\ t <= now
        BY <1>a, <1>b
      <3> QED
        BY <3>1, ResumeType
    <2>3. Good(r, i, [sessions[i] EXCEPT
                !.state = "RUNNING", !.timer = timer_resume(sessions[i].timer, t)])
      BY <1>2, <1>a, <2>1, <2>2
      DEF Good, Session, TimerState, TimerMove, Allocated
    <2> QED
      BY <2>1, <2>3
  <1>3. ASSUME NEW t \in Stamps, finish(r, t)
        PROVE  \E i \in Slots : \E s : Good(r, i, s) /\ Changed(i, s)
    <2>1. PICK i \in Slots :
            /\ Found(r, i)
            /\ Changed(i, [sessions[i] EXCEPT
                !.state = "FINISHED", !.timer = timer_finish(sessions[i].timer, t)])
      BY <1>3, <1>a DEF finish
    <2>2. /\ timer_finish(sessions[i].timer, t) \in Timer
          /\ timer_finish(sessions[i].timer, t).last <= now
          /\ timer_finish(sessions[i].timer, t).state = "FINISHED"
      <3>1. sessions[i].timer \in Timer /\ t \in Nat /\ t <= now
        BY <1>a, <1>b
      <3> QED
        BY <3>1, FinishType
    <2>3. Good(r, i, [sessions[i] EXCEPT
                !.state = "FINISHED", !.timer = timer_finish(sessions[i].timer, t)])
      BY <1>3, <1>a, <2>1, <2>2
      DEF Good, Session, TimerState, TimerMove, Allocated
    <2> QED
      BY <2>1, <2>3
  <1>4. ASSUME NEW t \in Stamps, end_game(r, t)
        PROVE  \E i \in Slots : \E s : Good(r, i, s) /\ Changed(i, s)
    <2>1. PICK i \in Slots :
            /\ Found(r, i)
            /\ Changed(i, [sessions[i] EXCEPT
                !.state = "FINISHED",
                !.timer = timer_finish(sessions[i].timer, scenario_now(t))])
      BY <1>4, <1>a DEF end_game
    <2>2. /\ timer_finish(sessions[i].timer, scenario_now(t)) \in Timer
          /\ timer_finish(sessions[i].timer, scenario_now(t)).last <= now
          /\ timer_finish(sessions[i].timer, scenario_now(t)).state = "FINISHED"
      <3>1. /\ sessions[i].timer \in Timer
            /\ scenario_now(t) \in Nat
            /\ scenario_now(t) <= now
        <4>1. t \in Nat /\ t <= now /\ now \in Nat
          BY <1>b, <1>c
        <4>2. scenario_now(t) \in Nat /\ scenario_now(t) <= t
          BY <4>1, WrapFacts
        <4> QED
          BY <1>a, <4>1, <4>2
      <3> QED
        BY <3>1, FinishType
    <2>3. Good(r, i, [sessions[i] EXCEPT
                !.state = "FINISHED",
                !.timer = timer_finish(sessions[i].timer, scenario_now(t))])
      BY <1>4, <1>a, <2>1, <2>2
      DEF Good, Session, TimerState, TimerMove, Allocated
    <2> QED
      BY <2>1, <2>3
  <1>5. ASSUME NEW t \in Stamps, NEW d \in Durations, start(r, d, t)
        PROVE  \E i \in Slots : \E s : Good(r, i, s) /\ Changed(i, s)
    <2>1. PICK i \in Slots :
            /\ Allocated(r, i)
            /\ Changed(i, [sessions[i] EXCEPT
                !.room = r, !.state = "RUNNING", !.hint = FALSE,
                !.timer = timer_start(d, t)])
      BY <1>5, <1>a DEF start
    <2>2. /\ timer_start(d, t) \in Timer
          /\ timer_start(d, t).last <= now
          /\ timer_start(d, t).state = "RUNNING"
      BY <1>b, NewTimerType, SessionAssumption
    <2>3. Good(r, i, [sessions[i] EXCEPT
                !.room = r, !.state = "RUNNING", !.hint = FALSE,
                !.timer = timer_start(d, t)])
      BY <1>5, <1>a, <2>1, <2>2
      DEF Good, Session, TimerState, TimerMove, Allocated
    <2> QED
      BY <2>1, <2>3
  <1>6. ASSUME NEW t \in Stamps, NEW d \in Durations, reset(r, d, t)
        PROVE  \E i \in Slots : \E s : Good(r, i, s) /\ Changed(i, s)
    <2>1. PICK i \in Slots :
            /\ Found(r, i)
            /\ Changed(i, [sessions[i] EXCEPT
                !.state = "IDLE", !.hint = FALSE, !.timer = timer_reset(d, t)])
      BY <1>6, <1>a DEF reset
    <2>2. /\ timer_reset(d, t) \in Timer
          /\ timer_reset(d, t).last <= now
          /\ timer_reset(d, t).state = "IDLE"
      BY <1>b, NewTimerType, SessionAssumption
    <2>3. Good(r, i, [sessions[i] EXCEPT
                !.state = "IDLE", !.hint = FALSE, !.timer = timer_reset(d, t)])
      BY <1>6, <1>a, <2>1, <2>2
      DEF Good, Session, TimerState, TimerMove, Allocated
    <2> QED
      BY <2>1, <2>3
  <1>7. ASSUME NEW t \in Stamps, NEW delta \in Deltas, add_time(r, delta, t)
        PROVE  \E i \in Slots : \E s : Good(r, i, s) /\ Changed(i, s)
    <2>1. PICK i \in Slots :
            /\ Found(r, i)
            /\ Changed(i, [sessions[i] EXCEPT
                !.timer = timer_add_time(sessions[i].timer, delta, t),
                !.state = timer_add_time(sessions[i].timer, delta, t).state])
      BY <1>7, <1>a DEF add_time
    <2>2. /\ timer_add_time(sessions[i].timer, delta, t) \in Timer
          /\ timer_add_time(sessions[i].timer, delta, t).last <= now
          /\ timer_add_time(sessions[i].timer, delta, t).state \in TimerState
      <3>1. delta \in Int
        BY SessionAssumption
      <3>2. timer_add_time(sessions[i].timer, delta, t) \in Timer
        BY <1>a, <1>b, <3>1, AddTimeType
      <3>3. timer_add_time(sessions[i].timer, delta, t).last = t
        BY <1>a, <1>b, <3>1, AddTimeType
      <3> QED
        BY <1>b, <3>2, <3>3 DEF Timer
    <2>3. Good(r, i, [sessions[i] EXCEPT
                !.timer = timer_add_time(sessions[i].timer, delta, t),
                !.state = timer_add_time(sessions[i].timer, delta, t).state])
      BY <1>7, <1>a, <2>1, <2>2
      DEF Good, Session, TimerState, TimerMove, Allocated
    <2> QED
      BY <2>1, <2>3
  <1>8. ASSUME set_hint(r)
        PROVE  \E i \in Slots : \E s : Good(r, i, s) /\ Changed(i, s)
    <2>1. PICK i \in Slots :
            /\ Allocated(r, i)
            /\ Changed(i, [sessions[i] EXCEPT !.room = r, !.hint = TRUE])
      BY <1>8, <1>a DEF set_hint
    <2>3. Good(r, i, [sessions[i] EXCEPT !.room = r, !.hint = TRUE])
      BY <1>8, <1>a, <2>1
      DEF Good, Session, TimerState, TimerMove, Allocated
    <2> QED
      BY <2>1, <2>3
  <1>9. ASSUME clear_hint(r)
        PROVE  \E i \in Slots : \E s : Good(r, i, s) /\ Changed(i, s)
    <2>1. PICK i \in Slots :
            /\ Found(r, i)
            /\ Changed(i, [sessions[i] EXCEPT !.hint = FALSE])
      BY <1>9, <1>a DEF clear_hint
    <2>3. Good(r, i, [sessions[i] EXCEPT !.hint = FALSE])
      BY <1>9, <1>a, <2>1
      DEF Good, Session, TimerState, TimerMove, Allocated
    <2> QED
      BY <2>1, <2>3
  <1>10. ASSUME NEW d \in Durations, select_profile(r, d)
        PROVE  \E i \in Slots : \E s : Good(r, i, s) /\ Changed(i, s)
    <2>1. PICK i \in Slots :
            /\ Allocated(r, i)
            /\ Changed(i, [sessions[i] EXCEPT
                !.room = r, !.state = "IDLE", !.profile_ms = d,
                !.timer = timer_reset(d, now)])
      BY <1>10, <1>a DEF select_profile
    <2>2. /\ timer_reset(d, now) \in Timer
          /\ timer_reset(d, now).last <= now
          /\ timer_reset(d, now).state = "IDLE"
      BY <1>c, NewTimerType, SessionAssumption
    <2>3. Good(r, i, [sessions[i] EXCEPT
                !.room = r, !.state = "IDLE", !.profile_ms = d,
                !.timer = timer_reset(d, now)])
      BY <1>10, <1>a, <1>c, <2>1, <2>2, SessionAssumption
      DEF Good, Session, TimerState, TimerMove, Allocated
    <2> QED
      BY <2>1, <2>3
  <1>11. ASSUME select_scenario(r)
        PROVE  \E i \in Slots : \E s : Good(r, i, s) /\ Changed(i, s)
    <2>1. PICK i \in Slots :
            /\ Allocated(r, i)
            /\ Changed(i, [sessions[i] EXCEPT !.room = r, !.profile_ms = 0])
      BY <1>11, <1>a DEF select_scenario
    <2>3. Good(r, i, [sessions[i] EXCEPT !.room = r, !.profile_ms = 0])
      BY <1>11, <1>a, <1>c, <2>1
      DEF Good, Session, TimerState, TimerMove, Allocated
    <2> QED
      BY <2>1, <2>3
  <1> QED
    BY <1>1, <1>2, <1>3, <1>4, <1>5, <1>6, <1>7, <1>8, <1>9, <1>10, <1>11
    DEF Operation

-----------------------------------------------------------------------------
(* Safety *)

\* A slot nobody uses still holds what memset left there.
FreeSlotsClear == \A i \in Slots : sessions[i].room = NoRoom =>
                     sessions[i].timer.remaining = 0 /\ sessions[i].state = "IDLE"

\* The inductive invariant: types and agreement lean on each other, because
\* the error paths of pause and resume are closed only by the agreement.
Inv == /\ TypeOK
       /\ SessionAgreesWithTimer
       /\ OneSlotPerRoom
       /\ FreeSlotsClear
       /\ now <= UPTIME_MAX

\* gm_room_session_init clears the table.
LEMMA InitInv == Init => Inv
  <1> SUFFICES ASSUME Init PROVE Inv
    OBVIOUS
  <1>1. 0 \in 0 .. UINT32_MAX
    BY UInt32MaxAssumption
  <1>2. /\ timer_reset(0, 0) \in Timer
        /\ timer_reset(0, 0).state = "IDLE"
        /\ timer_reset(0, 0).last = 0
        /\ timer_reset(0, 0).remaining = 0
    BY <1>1, NewTimerType
  <1>3. /\ FreeSlot \in Session
        /\ FreeSlot.state = FreeSlot.timer.state
        /\ FreeSlot.timer.last = 0
        /\ FreeSlot.room = NoRoom
        /\ FreeSlot.timer.remaining = 0
        /\ FreeSlot.state = "IDLE"
    BY <1>1, <1>2 DEF FreeSlot, Session, TimerState
  <1>4. TypeOK
    BY <1>3, SessionAssumption DEF Init, TypeOK
  <1>5. SessionAgreesWithTimer
    BY <1>3 DEF Init, SessionAgreesWithTimer
  <1>6. OneSlotPerRoom
    BY <1>3 DEF Init, OneSlotPerRoom
  <1>7. FreeSlotsClear
    BY <1>3 DEF Init, FreeSlotsClear
  <1> QED
    BY <1>4, <1>5, <1>6, <1>7, SessionAssumption DEF Inv, Init

\* A good change of one slot keeps the invariant.
LEMMA ChangeInv ==
    ASSUME Inv, NEW r \in Rooms, NEW i \in Slots, NEW s,
           Good(r, i, s), Changed(i, s)
    PROVE  Inv'
  <1> USE DEF Changed
  <1>1. /\ sessions \in [Slots -> Session]
        /\ sessions' = [sessions EXCEPT ![i] = s]
        /\ s \in Session
    BY DEF Inv, TypeOK, Good
  <1>2. /\ sessions'[i] = s
        /\ \A j \in Slots : j # i => sessions'[j] = sessions[j]
    BY <1>1
  <1>3. TypeOK'
    <2>1. sessions' \in [Slots -> Session]
      BY <1>1
    <2>2. generation' \in 0 .. GENERATION_MOD - 1
      BY GenerationFacts DEF Inv, TypeOK, mark_changed
    <2>3. \A j \in Slots : sessions'[j].timer.last <= now'
      BY <1>2 DEF Inv, TypeOK, Good
    <2> QED
      BY <2>1, <2>2, <2>3 DEF Inv, TypeOK
  <1>4. SessionAgreesWithTimer'
    BY <1>2 DEF Inv, SessionAgreesWithTimer, Good
  <1>5. OneSlotPerRoom'
    <2>1. CASE sessions[i].room = r
      <3>1. \A j \in Slots : sessions'[j].room = sessions[j].room
        BY <1>2, <2>1 DEF Good
      <3> QED
        BY <3>1 DEF Inv, OneSlotPerRoom
    <2>2. CASE sessions[i].room # r
      <3>1. /\ sessions[i].room = NoRoom
            /\ \A j \in Slots : sessions[j].room # r
            /\ \A j \in Slots : j < i => sessions[j].room # NoRoom
        BY <2>2 DEF Good, Allocated, Found
      <3>2. r # NoRoom
        BY SessionAssumption
      <3>3. i \in Int /\ \A j \in Slots : j \in Int
        BY SessionAssumption DEF Slots
      <3>4. \A j \in Slots : i < j => sessions[j].room = NoRoom
        BY <3>1 DEF Inv, OneSlotPerRoom
      <3>5. s.room = r
        BY DEF Good
      <3> QED
        BY <1>2, <3>1, <3>2, <3>3, <3>4, <3>5 DEF Inv, OneSlotPerRoom
    <2> QED
      BY <2>1, <2>2
  <1>6. FreeSlotsClear'
    BY <1>2, SessionAssumption DEF Inv, FreeSlotsClear, Good
  <1> QED
    BY <1>3, <1>4, <1>5, <1>6 DEF Inv

\* Every step keeps the invariant.
LEMMA NextInv == Inv /\ [Next]_vars => Inv'
  <1> SUFFICES ASSUME Inv, [Next]_vars PROVE Inv'
    OBVIOUS
  <1>1. CASE ClockTick
    <2>1. TypeOK'
      BY <1>1 DEF Inv, TypeOK, ClockTick, Session, Timer
    <2>2. SessionAgreesWithTimer' /\ OneSlotPerRoom' /\ FreeSlotsClear'
      BY <1>1 DEF Inv, ClockTick, SessionAgreesWithTimer, OneSlotPerRoom,
                  FreeSlotsClear
    <2>3. (now <= UPTIME_MAX)'
      BY <1>1, SessionAssumption DEF Inv, TypeOK, ClockTick
    <2> QED
      BY <2>1, <2>2, <2>3 DEF Inv
  <1>2. CASE \E r \in Rooms : Operation(r)
    BY <1>2, OperationShape, ChangeInv DEF Inv
  <1>3. CASE UNCHANGED vars
    BY <1>3 DEF Inv, TypeOK, SessionAgreesWithTimer, OneSlotPerRoom,
                FreeSlotsClear, vars
  <1> QED
    BY <1>1, <1>2, <1>3 DEF Next

\* The invariant holds in every reachable state.
LEMMA Invariance == Spec => []Inv
  BY InitInv, NextInv, PTL DEF Spec

\* The session table keeps its types, and no timer's last_updated_ms ever lies
\* in the future, so gm_timer_get_remaining never grants time.
THEOREM TypeCorrect == Spec => []TypeOK
  <1>1. Inv => TypeOK
    BY DEF Inv
  <1> QED
    BY Invariance, <1>1, PTL

\* Session state and timer state agree between any two lock sections.
THEOREM StatesAgree == Spec => []SessionAgreesWithTimer
  <1>1. Inv => SessionAgreesWithTimer
    BY DEF Inv
  <1> QED
    BY Invariance, <1>1, PTL

\* alloc_session_locked gives no room two slots, whatever the table's size.
THEOREM SlotsUnique == Spec => []OneSlotPerRoom
  <1>1. Inv => OneSlotPerRoom
    BY DEF Inv
  <1> QED
    BY Invariance, <1>1, PTL

\* No session changes without gm_room_session_mark_session_changed_locked:
\* this rests on StatesAgree, which closes the unannounced error paths.
THEOREM GenerationAdvances == Spec => GenerationTracksChange
  <1>1. Inv /\ [Next]_vars
          => [sessions' # sessions => generation' # generation]_vars
    <2> SUFFICES ASSUME Inv, [Next]_vars, sessions' # sessions
                 PROVE  generation' # generation
      OBVIOUS
    <2>1. CASE ClockTick
      BY <2>1 DEF ClockTick
    <2>2. CASE \E r \in Rooms : Operation(r)
      <3>1. mark_changed
        BY <2>2, OperationShape DEF Inv, Changed
      <3> QED
        BY <3>1, GenerationFacts DEF Inv, TypeOK, mark_changed
    <2>3. CASE UNCHANGED vars
      BY <2>3 DEF vars
    <2> QED
      BY <2>1, <2>2, <2>3 DEF Next
  <1> QED
    BY <1>1, Invariance, PTL DEF Spec, GenerationTracksChange

-----------------------------------------------------------------------------
(* The session table implements the game clocks *)

\* A reading at most SKEW old sees at most SKEW too much time on a running
\* timer, and the truth on any other.
LEMMA StaleReading ==
    ASSUME NEW tm \in Timer, now \in Nat, tm.last <= now, NEW t \in Stamps
    PROVE  /\ tm.state # "RUNNING" => get_remaining(tm, t) = get_remaining(tm, now)
           /\ get_remaining(tm, now) <= get_remaining(tm, t)
           /\ get_remaining(tm, t) <= get_remaining(tm, now) + SKEW
  <1>1. /\ tm.remaining \in 0 .. UINT32_MAX
        /\ tm.last \in Nat
    BY DEF Timer
  <1>2. t \in Nat /\ t <= now /\ now - t <= SKEW
    BY DEF Stamps
  <1> QED
    BY <1>1, <1>2, UInt32MaxAssumption, SessionAssumption
    DEF get_remaining, clamp_remaining

\* A timer set running by a stale reading is at most SKEW behind.
LEMMA RunningBehind ==
    ASSUME NEW tm \in Timer, now \in Nat, tm.last \in Stamps
    PROVE  /\ get_remaining(tm, now) \in GC!Behind(tm.remaining)
           /\ tm.state # "RUNNING" => get_remaining(tm, now) = tm.remaining
  <1>1. tm.remaining \in 0 .. UINT32_MAX
    BY DEF Timer
  <1>2. tm.last \in Nat /\ tm.last <= now /\ now - tm.last <= SKEW
    BY DEF Stamps
  <1> QED
    BY <1>1, <1>2, UInt32MaxAssumption, SessionAssumption
    DEF get_remaining, clamp_remaining, GC!Behind

\* A millisecond takes one from a running timer that has one.
LEMMA TickTakesOne ==
    ASSUME NEW tm \in Timer, now \in Nat, tm.last <= now
    PROVE  get_remaining(tm, now + 1)
             = IF tm.state = "RUNNING" THEN GC!Floor(get_remaining(tm, now) - 1)
               ELSE get_remaining(tm, now)
  <1>1. /\ tm.remaining \in 0 .. UINT32_MAX
        /\ tm.last \in Nat
    BY DEF Timer
  <1> QED
    BY <1>1, UInt32MaxAssumption DEF get_remaining, clamp_remaining, GC!Floor

\* What a room shows is what its slot holds, and an empty clock without one.
ShownRight ==
    \A r \in Rooms :
      /\ \A i \in Slots : sessions[i].room = r =>
           /\ ShownPhase(r) = sessions[i].state
           /\ ShownLeft(r) = get_remaining(sessions[i].timer, now)
      /\ (\A i \in Slots : sessions[i].room # r) =>
           ShownPhase(r) = "IDLE" /\ ShownLeft(r) = 0

\* The refinement mapping shows a room's only slot, or an idle clock.
LEMMA Shown == Inv => ShownRight
  <1> SUFFICES ASSUME Inv, NEW r \in Rooms
               PROVE  /\ \A i \in Slots : sessions[i].room = r =>
                           /\ ShownPhase(r) = sessions[i].state
                           /\ ShownLeft(r) = get_remaining(sessions[i].timer, now)
                      /\ (\A i \in Slots : sessions[i].room # r) =>
                           ShownPhase(r) = "IDLE" /\ ShownLeft(r) = 0
    BY DEF ShownRight
  <1>1. ASSUME NEW i \in Slots, sessions[i].room = r
        PROVE  /\ ShownPhase(r) = sessions[i].state
               /\ ShownLeft(r) = get_remaining(sessions[i].timer, now)
    <2>1. SlotOf(r) = {i}
      BY <1>1, SessionAssumption DEF SlotOf, Inv, OneSlotPerRoom
    <2>2. (CHOOSE j \in SlotOf(r) : TRUE) = i
      BY <2>1
    <2> QED
      BY <2>1, <2>2 DEF ShownPhase, ShownLeft
  <1>2. ASSUME \A i \in Slots : sessions[i].room # r
        PROVE  ShownPhase(r) = "IDLE" /\ ShownLeft(r) = 0
    <2>1. SlotOf(r) = {}
      BY <1>2 DEF SlotOf
    <2> QED
      BY <2>1 DEF ShownPhase, ShownLeft
  <1> QED
    BY <1>1, <1>2

\* A good change shows the room it is for as the new slot content says, and
\* changes no other room.
LEMMA ChangeShown ==
    ASSUME Inv, NEW r \in Rooms, NEW i \in Slots, NEW s,
           Good(r, i, s), Changed(i, s)
    PROVE  /\ ShownPhase(r) = sessions[i].state
           /\ ShownLeft(r) = get_remaining(sessions[i].timer, now)
           /\ GC!Show(r, s.state, get_remaining(s.timer, now))
  <1>1. ShownRight
    BY Shown
  <1>2. ShownRight'
    <2>1. Inv'
      BY ChangeInv
    <2>2. Inv' => ShownRight'
      BY Shown, PTL
    <2> QED
      BY <2>1, <2>2
  <1>3. /\ sessions'[i] = s
        /\ \A j \in Slots : j # i => sessions'[j] = sessions[j]
        /\ now' = now
        /\ s.room = r
    BY DEF Inv, TypeOK, Good, Changed
  <1>4. \/ sessions[i].room = r
        \/ sessions[i].room = NoRoom /\ \A j \in Slots : sessions[j].room # r
    BY DEF Good, Allocated, Found
  <1>5. /\ ShownPhase(r) = sessions[i].state
        /\ ShownLeft(r) = get_remaining(sessions[i].timer, now)
    <2>1. CASE sessions[i].room = r
      BY <1>1, <2>1 DEF ShownRight
    <2>2. CASE sessions[i].room = NoRoom /\ \A j \in Slots : sessions[j].room # r
      <3>1. /\ sessions[i].state = "IDLE"
            /\ sessions[i].timer.state = "IDLE"
            /\ sessions[i].timer.remaining = 0
        BY <2>2 DEF Inv, FreeSlotsClear, SessionAgreesWithTimer
      <3> QED
        BY <1>1, <2>2, <3>1 DEF ShownRight, get_remaining
    <2> QED
      BY <1>4, <2>1, <2>2
  <1>6. /\ ShownPhase(r)' = s.state
        /\ ShownLeft(r)' = get_remaining(s.timer, now)
    BY <1>2, <1>3 DEF ShownRight
  <1>7. ASSUME NEW q \in Rooms, q # r
        PROVE  ShownPhase(q)' = ShownPhase(q) /\ ShownLeft(q)' = ShownLeft(q)
    <2>1. \A j \in Slots : sessions[j].room = q <=> sessions'[j].room = q
      BY <1>3, <1>4, <1>7, SessionAssumption
    <2>2. CASE \E j \in Slots : sessions[j].room = q
      <3>1. PICK j \in Slots : sessions[j].room = q
        BY <2>2
      <3>2. sessions'[j] = sessions[j]
        BY <1>3, <1>4, <1>7, <3>1, SessionAssumption
      <3> QED
        BY <1>1, <1>2, <1>3, <2>1, <3>1, <3>2 DEF ShownRight
    <2>3. CASE \A j \in Slots : sessions[j].room # q
      BY <1>1, <1>2, <2>1, <2>3 DEF ShownRight
    <2> QED
      BY <2>2, <2>3
  <1>8. GC!Show(r, s.state, get_remaining(s.timer, now))
    BY <1>6, <1>7 DEF GC!Show
  <1> QED
    BY <1>5, <1>8

\* Each timer move is a step of the room's game clock.  Up to here uptime
\* was unbounded; END_GAME is exact only while the scenario clock has not
\* wrapped (the uptime run shows what happens after).
LEMMA MoveImplements ==
    ASSUME now \in Nat, now <= UINT32_MAX, NEW r \in Rooms,
           NEW tm \in Timer, NEW new \in Timer, tm.last <= now,
           TimerMove(tm, new),
           ShownPhase(r) = tm.state,
           ShownLeft(r) = get_remaining(tm, now),
           GC!Show(r, new.state, get_remaining(new, now))
    PROVE  GC!CNext \/ UNCHANGED GC!cvars
  <1> DEFINE P == [q \in Rooms |-> ShownPhase(q)]
             L == [q \in Rooms |-> ShownLeft(q)]
             left == get_remaining(tm, now)
             x == get_remaining(new, now)
  <1>a. P[r] = tm.state /\ L[r] = left
    OBVIOUS
  <1>b. left \in 0 .. UINT32_MAX /\ x \in 0 .. UINT32_MAX
    BY RemainingType
  <1>c. \A t \in Stamps : t \in Nat /\ t <= now /\ scenario_now(t) = t
    BY WrapFacts, UInt32MaxAssumption DEF Stamps
  <1>d. \A t \in Stamps : /\ get_remaining(tm, t) \in GC!Believed(r)
                          /\ get_remaining(tm, t) \in 0 .. UINT32_MAX
    BY <1>a, <1>b, <1>c, RemainingType, StaleReading, UInt32MaxAssumption,
       SessionAssumption DEF GC!Believed
  <1>1. CASE new = tm
    BY <1>1, <1>a DEF GC!Show, GC!cvars
  <1>2. ASSUME NEW t \in Stamps, tm.state = "RUNNING", new = timer_pause(tm, t)
        PROVE  GC!CNext
    <2>1. x = get_remaining(tm, t) /\ new.state = "PAUSED"
      BY <1>2, <1>c, PauseType DEF get_remaining
    <2> QED
      BY <1>2, <1>a, <1>d, <2>1 DEF GC!CNext, GC!Pause
  <1>3. ASSUME NEW t \in Stamps, tm.state = "PAUSED", new = timer_resume(tm, t)
        PROVE  GC!CNext
    <2>1. /\ new.state = "RUNNING" /\ new.remaining = tm.remaining
          /\ new.last = t
      BY <1>3, <1>c, ResumeType
    <2>2. left = tm.remaining
      BY <1>3 DEF get_remaining
    <2>3. x \in GC!Behind(left)
      BY <1>3, <2>1, <2>2, RunningBehind
    <2> QED
      BY <1>3, <1>a, <2>1, <2>3 DEF GC!CNext, GC!Resume
  <1>4. ASSUME NEW t \in Stamps,
               new = timer_finish(tm, t) \/ new = timer_finish(tm, scenario_now(t))
        PROVE  GC!CNext
    <2>1. new = timer_finish(tm, t)
      BY <1>4, <1>c
    <2>2. x = get_remaining(tm, t) /\ new.state = "FINISHED"
      BY <2>1, <1>c, FinishType DEF get_remaining
    <2> QED
      BY <1>d, <2>2 DEF GC!CNext, GC!Finish
  <1>5. ASSUME NEW t \in Stamps, NEW d \in Durations, new = timer_start(d, t)
        PROVE  GC!CNext
    <2>0. d \in 0 .. UINT32_MAX
      BY SessionAssumption
    <2>1. new.state = "RUNNING" /\ new.remaining = d /\ new.last = t
      BY <1>5, <1>c, <2>0, NewTimerType
    <2>2. x \in GC!Behind(d)
      BY <1>5, <2>1, RunningBehind
    <2> QED
      BY <1>5, <2>1, <2>2 DEF GC!CNext, GC!Start
  <1>6. ASSUME NEW t \in Stamps, NEW d \in Durations, new = timer_reset(d, t)
        PROVE  GC!CNext
    <2>1. new.state = "IDLE" /\ new.remaining = d
      BY <1>6, <1>c, NewTimerType, SessionAssumption
    <2>2. x = d
      BY <2>1 DEF get_remaining
    <2> QED
      BY <1>6, <2>1, <2>2 DEF GC!CNext, GC!Load
  <1>7. ASSUME NEW t \in Stamps, NEW delta \in Deltas,
               new = timer_add_time(tm, delta, t)
        PROVE  GC!CNext
    <2> DEFINE v == get_remaining(tm, t)
    <2>0. delta \in Int
      BY SessionAssumption
    <2>1. /\ new.last = t
          /\ new.remaining = clamp_remaining(v + delta)
          /\ new.state = IF new.remaining = 0 /\ tm.state # "IDLE" THEN "FINISHED"
                         ELSE IF tm.state = "FINISHED" /\ new.remaining > 0
                         THEN "PAUSED" ELSE tm.state
      <3>1. t \in Nat /\ tm \in Timer
        BY <1>c
      <3> HIDE DEF v
      <3>2. LET nw == timer_add_time(tm, delta, t)
            IN  /\ nw.last = t
                /\ nw.remaining = clamp_remaining(get_remaining(tm, t) + delta)
                /\ nw.state = IF nw.remaining = 0 /\ tm.state # "IDLE"
                              THEN "FINISHED"
                              ELSE IF tm.state = "FINISHED" /\ nw.remaining > 0
                              THEN "PAUSED" ELSE tm.state
        BY ONLY <2>0, <3>1, AddTimeType
      <3> QED
        BY <1>7, <3>2, Zenon DEF v
    <2>2. new.remaining = GC!Saturate(v + delta)
      BY <1>d, <2>0, <2>1, UInt32MaxAssumption
      DEF clamp_remaining, GC!Saturate, GC!Floor
    <2>3. x \in (IF new.state = "RUNNING" THEN GC!Behind(new.remaining)
                                          ELSE {new.remaining})
      BY <1>7, <2>1, RunningBehind
    <2>4. GC!AddTime(r)
      BY <1>7, <1>a, <1>d, <2>1, <2>2, <2>3 DEF GC!AddTime
    <2> QED
      BY <2>4 DEF GC!CNext
  <1> QED
    BY <1>1, <1>2, <1>3, <1>4, <1>5, <1>6, <1>7 DEF TimerMove

\* The session table implements the abstract game clocks while uptime fits
\* the 32-bit scenario clock: pausing, resuming, finishing and adding time
\* move the time a room shows by no more than the age of a clock reading.
THEOREM RefinesGameClock ==
    ASSUME UPTIME_MAX <= UINT32_MAX
    PROVE  Spec => ImplementsGameClock
  <1>1. Init => GC!CInit
    <2> SUFFICES ASSUME Init PROVE GC!CInit
      OBVIOUS
    <2>1. ShownRight
      BY InitInv, Shown
    <2>2. \A i \in Slots : sessions[i].room = NoRoom
      BY DEF Init, FreeSlot
    <2> QED
      BY <2>1, <2>2, SessionAssumption DEF GC!CInit, ShownRight
  <1>2. Inv /\ [Next]_vars => [GC!CNext]_(GC!cvars)
    <2> SUFFICES ASSUME Inv, [Next]_vars
                 PROVE  GC!CNext \/ UNCHANGED GC!cvars
      OBVIOUS
    <2>1. CASE ClockTick
      <3>1. ShownRight /\ ShownRight'
        <4>1. Inv'
          BY NextInv
        <4>2. Inv' => ShownRight'
          BY Shown, PTL
        <4> QED
          BY <4>1, <4>2, Shown
      <3>2. ASSUME NEW r \in Rooms
            PROVE  /\ ShownPhase(r)' = ShownPhase(r)
                   /\ ShownLeft(r)' = IF ShownPhase(r) = "RUNNING"
                                      THEN GC!Floor(ShownLeft(r) - 1)
                                      ELSE ShownLeft(r)
        <4>1. CASE \E i \in Slots : sessions[i].room = r
          <5>1. PICK i \in Slots : sessions[i].room = r
            BY <4>1
          <5>2. /\ sessions[i].timer \in Timer
                /\ sessions[i].timer.last <= now
                /\ sessions[i].state = sessions[i].timer.state
                /\ now \in Nat
            BY DEF Inv, TypeOK, SessionAgreesWithTimer, Session
          <5>3. /\ ShownPhase(r) = sessions[i].state
                /\ ShownLeft(r) = get_remaining(sessions[i].timer, now)
                /\ ShownPhase(r)' = sessions[i].state
                /\ ShownLeft(r)' = get_remaining(sessions[i].timer, now + 1)
            BY <2>1, <3>1, <5>1 DEF ShownRight, ClockTick
          <5> QED
            BY <5>2, <5>3, TickTakesOne
        <4>2. CASE \A i \in Slots : sessions[i].room # r
          BY <2>1, <3>1, <4>2 DEF ShownRight, ClockTick
        <4> QED
          BY <4>1, <4>2
      <3>3. GC!Tick
        BY <3>2 DEF GC!Tick
      <3> QED
        BY <3>3 DEF GC!CNext
    <2>2. CASE \E r \in Rooms : Operation(r)
      <3>1. PICK r \in Rooms : Operation(r)
        BY <2>2
      <3>2. PICK i \in Slots : \E s : Good(r, i, s) /\ Changed(i, s)
        BY <3>1, OperationShape DEF Inv
      <3>3. PICK s : Good(r, i, s) /\ Changed(i, s)
        BY <3>2
      <3>4. /\ ShownPhase(r) = sessions[i].state
            /\ ShownLeft(r) = get_remaining(sessions[i].timer, now)
            /\ GC!Show(r, s.state, get_remaining(s.timer, now))
        BY <3>3, ChangeShown
      <3>5. /\ sessions[i].timer \in Timer
            /\ sessions[i].timer.last <= now
            /\ sessions[i].state = sessions[i].timer.state
            /\ now \in Nat
            /\ now <= UINT32_MAX
        BY UInt32MaxAssumption, SessionAssumption
        DEF Inv, TypeOK, SessionAgreesWithTimer, Session
      <3>6. /\ s.timer \in Timer
            /\ s.state = s.timer.state
            /\ TimerMove(sessions[i].timer, s.timer)
        BY <3>3 DEF Good, Session
      <3> QED
        BY <3>4, <3>5, <3>6, MoveImplements
    <2>3. CASE UNCHANGED vars
      BY <2>3 DEF vars, GC!cvars, ShownPhase, ShownLeft, SlotOf
    <2> QED
      BY <2>1, <2>2, <2>3 DEF Next
  <1> QED
    BY <1>1, <1>2, Invariance, PTL DEF Spec, ImplementsGameClock, GC!CSpec

=============================================================================
