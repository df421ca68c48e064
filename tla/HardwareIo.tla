----------------------------- MODULE HardwareIo -----------------------------
(***************************************************************************)
(* The controller's own outputs and inputs (hardware_io/): a relay, a      *)
(* MOSFET and a GPIO line, each with the timers that end a pulse, move a   *)
(* fade or step an effect.                                                 *)
(*                                                                         *)
(* Every operation runs under one lock.  The callbacks of all timers run   *)
(* on one task: it takes a timer that is due off the list, and its         *)
(* callback then waits for the lock.  esp_timer_stop does not recall that  *)
(* callback: an operation that holds the lock in between is followed by it.*)
(* A timer that is armed may be due at any moment.                         *)
(***************************************************************************)
EXTENDS Integers, Sequences, FiniteSets

CONSTANTS DutyLevels,   \* duty values of a MOSFET, 0 among them
          RepeatCounts, \* repeat counts, 0 for "until stopped"
          CONFIG_SCENEHUB_GPIO_DEBOUNCE_MS, \* in polls of the input
          ActiveLow,    \* CONFIG_SCENEHUB_GPIO_ACTIVE_LOW
          MAX_OPERATIONS, MAX_EDGES, \* bounds
          NoTimer

ASSUME HardwareAssumption ==
    /\ DutyLevels \subseteq Nat /\ 0 \in DutyLevels /\ RepeatCounts \subseteq Nat
    /\ ActiveLow \in BOOLEAN
    /\ \A t \in {"relay_pulse", "relay_fx", "mosfet_pulse", "mosfet_fade", "mosfet_fx",
                 "io_pulse", "io_fx", "io_poll"} : NoTimer # t

VARIABLES s_relay, s_mosfet, s_line,
          running,   \* the timers that are armed
          waiting,   \* the timer whose callback waits for the lock, or NoTimer
          pin,       \* the level at the input
          events,    \* what io_publish_change posted, the newest last
          rest_at,   \* what the last operation leaves each output at
          overtaken, \* outputs operated on while a callback of theirs waited
          stopped,   \* hardware_io_safe_off_all was the last operation
          allowance

hardware_vars == <<s_relay, s_mosfet, s_line, running, waiting, pin, events, rest_at,
                   overtaken, stopped, allowance>>
ios == <<s_line, pin, events>>

NoEffect == [active |-> FALSE, on |-> FALSE, left |-> 0, final |-> 0, level |-> 0,
             mode |-> "none", low |-> 0, hold |-> FALSE]
Endless == -1      \* UINT32_MAX
Repeat(count) == IF count = 0 THEN Endless ELSE count

HardwareInit ==
    /\ s_relay = [on |-> FALSE, fx |-> NoEffect]
    /\ s_mosfet = [value |-> 0, restore |-> 0, from |-> 0, target |-> 0, fx |-> NoEffect]
    /\ s_line = [mode |-> "output", enabled |-> TRUE, active |-> FALSE,
                 high |-> ActiveLow, restore |-> FALSE, fx |-> NoEffect,
                 candidate |-> ActiveLow, age |-> 0]
    /\ running = {} /\ waiting = NoTimer /\ pin = ActiveLow /\ events = <<>>
    /\ rest_at = [relay |-> FALSE, mosfet |-> 0, line |-> FALSE]
    /\ overtaken = {} /\ stopped = FALSE
    /\ allowance = [commands |-> MAX_OPERATIONS, edges |-> MAX_EDGES]

\* the timers of an output
HubTimers == [relay |-> {"relay_pulse", "relay_fx"},
              mosfet |-> {"mosfet_pulse", "mosfet_fade", "mosfet_fx"},
              line |-> {"io_pulse", "io_fx"}]
-----------------------------------------------------------------------------
\* An operation on output o under the lock: its timers are stopped, then start
\* is armed (nothing when start is NoTimer), and value is where it ends up.
Operation(o, start, value) ==
    /\ allowance.commands > 0
    /\ allowance' = [allowance EXCEPT !.commands = @ - 1]
    /\ running' = (running \ HubTimers[o]) \cup (IF start = NoTimer THEN {} ELSE {start})
    /\ overtaken' = IF waiting \in HubTimers[o] THEN overtaken \cup {o}
                    ELSE overtaken \ {o}
    /\ rest_at' = [rest_at EXCEPT ![o] = value]
    /\ stopped' = FALSE
    /\ UNCHANGED waiting

\* an effect begins: a blink at its level, a breath at its low end
NewEffect(mode, level, low, count, final) ==
    [active |-> TRUE, on |-> TRUE, left |-> Repeat(count), final |-> final,
     level |-> level, mode |-> mode, low |-> low, hold |-> FALSE]
Blink(level, count, final) == NewEffect("blink", level, 0, count, final)
Breathe(low, high, count, final) == NewEffect("breathe", high, low, count, final)

\* one step of a blink: on to off, off to on, or the end
CountDown(left) == IF left > 0 THEN left - 1 ELSE left
NextBlink(fx, off) ==
    IF fx.on THEN [fx |-> [fx EXCEPT !.on = FALSE], value |-> off, again |-> TRUE]
    ELSE IF CountDown(fx.left) = 0
    THEN [fx |-> [fx EXCEPT !.active = FALSE, !.left = 0, !.mode = "none"],
          value |-> fx.final, again |-> FALSE]
    ELSE [fx |-> [fx EXCEPT !.on = TRUE, !.left = CountDown(@)], value |-> fx.level,
          again |-> TRUE]
-----------------------------------------------------------------------------
(* Relay *)

OnRelay(start, on, fx, end) ==
    /\ Operation("relay", start, end)
    /\ s_relay' = [on |-> on, fx |-> fx]
    /\ UNCHANGED <<s_mosfet, ios>>

hardware_io_relay_set == \E on \in BOOLEAN : OnRelay(NoTimer, on, NoEffect, on)
hardware_io_relay_toggle == OnRelay(NoTimer, ~s_relay.on, NoEffect, ~s_relay.on)
\* the timer may fail to start: the relay is off again
hardware_io_relay_pulse == \/ OnRelay("relay_pulse", TRUE, NoEffect, FALSE)
                           \/ OnRelay(NoTimer, FALSE, NoEffect, FALSE)
hardware_io_relay_blink ==
    \E n \in RepeatCounts, final \in BOOLEAN :
      \/ OnRelay("relay_fx", TRUE, Blink(TRUE, n, final), final)
      \/ OnRelay(NoTimer, final, NoEffect, final)
-----------------------------------------------------------------------------
(* MOSFET *)

OnMosfet(start, m, end) ==
    /\ Operation("mosfet", start, end)
    /\ s_mosfet' = m
    /\ UNCHANGED <<s_relay, ios>>

\* the bug leaves the fade running
mosfet_set_fading ==
    \E v \in DutyLevels :
      OnMosfet(IF "mosfet_fade" \in running THEN "mosfet_fade" ELSE NoTimer,
               [s_mosfet EXCEPT !.value = v, !.fx = NoEffect], v)

hardware_io_mosfet_set ==
    \E v \in DutyLevels :
      OnMosfet(NoTimer, [s_mosfet EXCEPT !.value = v, !.fx = NoEffect], v)

hardware_io_mosfet_fade ==
    \E v \in DutyLevels :
      OnMosfet("mosfet_fade", [s_mosfet EXCEPT !.from = s_mosfet.value, !.target = v,
                                             !.fx = NoEffect], v)

\* what is restored is the value of this moment, in a pulse the pulse's
hardware_io_mosfet_pulse ==
    \E v \in DutyLevels :
      \/ OnMosfet("mosfet_pulse",
                  [s_mosfet EXCEPT !.restore = s_mosfet.value, !.value = v, !.fx = NoEffect],
                  s_mosfet.value)
      \/ OnMosfet(NoTimer,
                  [s_mosfet EXCEPT !.restore = s_mosfet.value, !.fx = NoEffect],
                  s_mosfet.value)

hardware_io_mosfet_effect_blink ==
    \E v, final \in DutyLevels, n \in RepeatCounts :
      \/ OnMosfet("mosfet_fx", [s_mosfet EXCEPT !.value = v, !.fx = Blink(v, n, final)],
                  final)
      \/ OnMosfet(NoTimer, [s_mosfet EXCEPT !.value = final, !.fx = NoEffect], final)

hardware_io_mosfet_effect_breathe ==
    \E low, high, final \in DutyLevels, n \in RepeatCounts :
      /\ low <= high
      /\ \/ OnMosfet("mosfet_fx",
                     [s_mosfet EXCEPT !.value = low, !.fx = Breathe(low, high, n, final)],
                     final)
         \/ OnMosfet(NoTimer, [s_mosfet EXCEPT !.value = final, !.fx = NoEffect], final)

hardware_io_mosfet_all_off ==
    OnMosfet(NoTimer, [s_mosfet EXCEPT !.value = 0, !.fx = NoEffect], 0)
-----------------------------------------------------------------------------
(* GPIO line *)

level_from_active(active) == active # ActiveLow

OnLine(start, l, end) ==
    /\ Operation("line", start, end)
    /\ s_line' = l
    /\ UNCHANGED <<s_relay, s_mosfet, pin, events>>

\* a write to a line that is no output is refused; its timers are stopped
Written(l, active) ==
    IF l.enabled /\ l.mode = "output"
    THEN [l EXCEPT !.active = active, !.high = level_from_active(active)] ELSE l
IsOutput == s_line.enabled /\ s_line.mode = "output"
Still(l) == [l EXCEPT !.fx = NoEffect]

hardware_io_io_set ==
    \E a \in BOOLEAN :
      OnLine(NoTimer, Written(Still(s_line), a), IF IsOutput THEN a ELSE s_line.active)
hardware_io_io_toggle ==
    OnLine(NoTimer, Written(Still(s_line), ~s_line.active),
           IF IsOutput THEN ~s_line.active ELSE s_line.active)
hardware_io_io_pulse ==
    \E a \in BOOLEAN :
      /\ IsOutput
      /\ \/ OnLine("io_pulse", [Written(Still(s_line), a) EXCEPT !.restore = s_line.active],
                   s_line.active)
         \/ OnLine(NoTimer, [Still(s_line) EXCEPT !.restore = s_line.active], s_line.active)
hardware_io_io_blink ==
    \E n \in RepeatCounts, final \in BOOLEAN :
      /\ IsOutput
      /\ \/ OnLine("io_fx", [Written(s_line, TRUE) EXCEPT !.fx = Blink(TRUE, n, final)],
                   final)
         \/ OnLine(NoTimer, Written(Still(s_line), final), final)

\* io_configure_channel_locked
Configured(mode) ==
    LET off == [Written(Still(s_line), FALSE) EXCEPT !.mode = mode, !.enabled = TRUE]
    IN  CASE mode = "disabled" ->
               [off EXCEPT !.enabled = FALSE, !.active = FALSE, !.high = FALSE,
                           !.candidate = FALSE, !.age = 0]
          [] mode = "output" ->
               [off EXCEPT !.active = FALSE, !.high = level_from_active(FALSE),
                           !.candidate = level_from_active(FALSE), !.age = 0]
          [] mode = "input" ->
               [off EXCEPT !.high = pin, !.active = (pin # ActiveLow),
                           !.candidate = pin, !.age = 0]

\* the poll timer runs while there is an input
hardware_io_io_set_mode ==
    \E mode \in {"disabled", "input", "output"} :
      /\ allowance.commands > 0
      /\ allowance' = [allowance EXCEPT !.commands = @ - 1]
      /\ s_line' = Configured(mode)
      /\ running' = (running \ (HubTimers["line"] \cup {"io_poll"}))
                      \cup (IF mode = "input" THEN {"io_poll"} ELSE {})
      /\ overtaken' = IF waiting \in HubTimers["line"] THEN overtaken \cup {"line"}
                      ELSE overtaken \ {"line"}
      /\ rest_at' = [rest_at EXCEPT !.line = s_line'.active]
      /\ stopped' = FALSE
      /\ UNCHANGED <<s_relay, s_mosfet, waiting, pin, events>>

pin_edge ==
    /\ allowance.edges > 0 /\ s_line.mode = "input"
    /\ allowance' = [allowance EXCEPT !.edges = @ - 1]
    /\ pin' = ~pin
    /\ UNCHANGED <<s_relay, s_mosfet, s_line, running, waiting, events, rest_at,
                   overtaken, stopped>>
-----------------------------------------------------------------------------
\* hardware_io_safe_off_all: one lock section for all outputs
hardware_io_safe_off_all ==
    /\ allowance.commands > 0
    /\ allowance' = [allowance EXCEPT !.commands = @ - 1]
    /\ s_relay' = [on |-> FALSE, fx |-> NoEffect]
    /\ s_mosfet' = [s_mosfet EXCEPT !.value = 0, !.fx = NoEffect]
    /\ s_line' = IF IsOutput THEN Written(Still(s_line), FALSE) ELSE s_line
    /\ running' = running \ (HubTimers["relay"] \cup HubTimers["mosfet"]
                              \cup (IF IsOutput THEN HubTimers["line"] ELSE {}))
    /\ rest_at' = [relay |-> FALSE, mosfet |-> 0, line |-> s_line'.active]
    /\ overtaken' = { o \in DOMAIN HubTimers : waiting \in HubTimers[o] }
    /\ stopped' = TRUE
    /\ UNCHANGED <<waiting, pin, events>>
-----------------------------------------------------------------------------
(* The timer task *)

PeriodicTimers == {"mosfet_fade", "io_poll"} \cup
                  (IF s_mosfet.fx.mode = "breathe" THEN {"mosfet_fx"} ELSE {})

hardware_timer_due ==
    /\ waiting = NoTimer
    /\ \E t \in running :
         /\ waiting' = t
         /\ running' = IF t \in PeriodicTimers THEN running ELSE running \ {t}
    /\ UNCHANGED <<s_relay, s_mosfet, ios, rest_at, overtaken, stopped, allowance>>

\* the callback runs: done with its turn
CallbackRan(t) ==
    /\ waiting = t /\ waiting' = NoTimer
    /\ UNCHANGED <<rest_at, overtaken, stopped, allowance, pin>>
Again(t, again) == running' = IF again THEN running \cup {t} ELSE running

relay_pulse_timer ==
    /\ CallbackRan("relay_pulse") /\ s_relay' = [s_relay EXCEPT !.on = FALSE]
    /\ UNCHANGED <<s_mosfet, s_line, events, running>>

relay_effect_timer ==
    /\ CallbackRan("relay_fx")
    /\ LET s == NextBlink(s_relay.fx, FALSE)
       IN  IF s_relay.fx.active
           THEN s_relay' = [on |-> s.value, fx |-> s.fx] /\ Again("relay_fx", s.again)
           ELSE UNCHANGED <<s_relay, running>>
    /\ UNCHANGED <<s_mosfet, s_line, events>>

mosfet_pulse_timer ==
    /\ CallbackRan("mosfet_pulse")
    /\ s_mosfet' = [s_mosfet EXCEPT !.value = s_mosfet.restore]
    /\ UNCHANGED <<s_relay, s_line, events, running>>

Midway(a, b) == { v \in DutyLevels : (a <= v /\ v <= b) \/ (b <= v /\ v <= a) }

\* an intermediate value, or the target once the duration is over
mosfet_fade_timer ==
    /\ CallbackRan("mosfet_fade")
    /\ \/ /\ s_mosfet' = [s_mosfet EXCEPT !.value = s_mosfet.target]
          /\ running' = running \ {"mosfet_fade"}
       \/ /\ \E v \in Midway(s_mosfet.from, s_mosfet.target) :
               s_mosfet' = [s_mosfet EXCEPT !.value = v]
          /\ UNCHANGED running
    /\ UNCHANGED <<s_relay, s_line, events>>

\* a breath: fade up or down, hold, turn; the last one ends the effect
NextBreath(m) ==
    LET fx == m.fx
        top == IF fx.on THEN fx.level ELSE fx.low
    IN  { [m EXCEPT !.value = v] :
            v \in IF fx.hold THEN {m.value} ELSE Midway(fx.low, fx.level) }
        \cup (IF ~fx.hold THEN { [m EXCEPT !.value = top, !.fx = [fx EXCEPT !.hold = TRUE]] }
              ELSE IF ~fx.on /\ CountDown(fx.left) = 0
              THEN { [m EXCEPT !.value = fx.final,
                               !.fx = [fx EXCEPT !.active = FALSE, !.left = 0,
                                                 !.mode = "none"]] }
              ELSE { [m EXCEPT !.fx = [fx EXCEPT !.on = ~fx.on, !.hold = FALSE,
                                                 !.left = IF fx.on THEN @
                                                          ELSE CountDown(@)]] })

\* the periodic timer of a breath goes on after the last one, to no effect
mosfet_effect_timer ==
    /\ CallbackRan("mosfet_fx")
    /\ IF ~s_mosfet.fx.active THEN UNCHANGED <<s_mosfet, running>>
       ELSE \/ /\ s_mosfet.fx.mode = "blink"
               /\ LET s == NextBlink(s_mosfet.fx, 0)
                  IN  /\ s_mosfet' = [s_mosfet EXCEPT !.value = s.value, !.fx = s.fx]
                      /\ Again("mosfet_fx", s.again)
            \/ /\ s_mosfet.fx.mode = "breathe"
               /\ s_mosfet' \in NextBreath(s_mosfet)
               /\ UNCHANGED running
    /\ UNCHANGED <<s_relay, s_line, events>>

io_pulse_timer ==
    /\ CallbackRan("io_pulse") /\ s_line' = Written(s_line, s_line.restore)
    /\ UNCHANGED <<s_relay, s_mosfet, events, running>>

io_effect_timer ==
    /\ CallbackRan("io_fx")
    /\ LET s == NextBlink(s_line.fx, FALSE)
       IN  IF s_line.fx.active
           THEN /\ s_line' = [Written(s_line, s.value) EXCEPT !.fx = s.fx]
                /\ Again("io_fx", s.again)
           ELSE UNCHANGED <<s_line, running>>
    /\ UNCHANGED <<s_relay, s_mosfet, events>>

\* debounce, then the change is posted with the lock given up: the level, and
\* the logical state if that changed
poll_sample(l) ==
    IF pin # l.candidate THEN [l EXCEPT !.candidate = pin, !.age = 0]
    ELSE IF pin = l.high THEN l
    ELSE IF l.age + 1 < CONFIG_SCENEHUB_GPIO_DEBOUNCE_MS THEN [l EXCEPT !.age = @ + 1]
    ELSE [l EXCEPT !.high = pin, !.active = (pin # ActiveLow)]

io_poll_timer ==
    /\ CallbackRan("io_poll")
    /\ s_line' = IF s_line.enabled /\ s_line.mode = "input" THEN poll_sample(s_line)
                 ELSE s_line
    /\ events' = IF s_line'.high = s_line.high THEN events
                 ELSE Append(events, s_line'.high)
    /\ UNCHANGED <<s_relay, s_mosfet, running>>

Operations ==
    \/ hardware_io_relay_set \/ hardware_io_relay_toggle
    \/ hardware_io_relay_pulse \/ hardware_io_relay_blink
    \/ hardware_io_mosfet_set \/ hardware_io_mosfet_fade \/ hardware_io_mosfet_pulse
    \/ hardware_io_mosfet_effect_blink \/ hardware_io_mosfet_effect_breathe
    \/ hardware_io_mosfet_all_off
    \/ hardware_io_io_set \/ hardware_io_io_toggle \/ hardware_io_io_pulse
    \/ hardware_io_io_blink \/ hardware_io_io_set_mode
    \/ hardware_io_safe_off_all

Callbacks == \/ relay_pulse_timer \/ relay_effect_timer
             \/ mosfet_pulse_timer \/ mosfet_fade_timer \/ mosfet_effect_timer
             \/ io_pulse_timer \/ io_effect_timer \/ io_poll_timer

HardwareNext == Operations \/ Callbacks \/ hardware_timer_due \/ pin_edge

HardwareSpec == HardwareInit /\ [][HardwareNext]_hardware_vars
-----------------------------------------------------------------------------
(* Properties *)

Quiet(o) == running \cap HubTimers[o] = {} /\ waiting \notin HubTimers[o]
Value == [relay |-> s_relay.on, mosfet |-> s_mosfet.value, line |-> s_line.active]

\* When the timers of an output are quiet it is where its last operation
\* leaves it, whatever operations came in between and whichever of their
\* timers failed to start.  Not so when a callback was waiting for the lock
\* while the operation held it (esp_timer_stop does not recall it).
OutputsSettle ==
    \A o \in DOMAIN HubTimers :
      \/ o \in overtaken
      \/ o = "line" /\ s_line.mode = "input"
      \/ Quiet(o) => Value[o] = rest_at[o]

\* README.md: "`Stop game` and `Reset game` also force built-in relay/MOSFET/
\* GPIO outputs off".  They are off until the next operation.  The code does not
\* keep this: a callback that waits for the lock still acts.
SafeOffHolds ==
    stopped => /\ ~s_relay.on /\ s_mosfet.value = 0
               /\ IsOutput => ~s_line.active
=============================================================================
