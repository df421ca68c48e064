----------------------------- MODULE NodeOutputs ----------------------------
(***************************************************************************)
(* The outputs of a node (node_hardware_io/): a relay, a MOSFET, a plain   *)
(* output and an LED strip.  All commands come from the control task, one  *)
(* after the other: a command is a list of steps, each under the lock of   *)
(* its output, with delays in which the task does nothing else.  Timers    *)
(* step relay and MOSFET from the timer task, whose callback may wait for  *)
(* the lock while a command holds it.  A task of its own draws the strip:  *)
(* it looks whether its effect is cancelled, then takes the lock again and *)
(* draws the next frame.                                                   *)
(***************************************************************************)
EXTENDS Integers, FiniteSets, NodeLedEffects

CONSTANTS Levels,    \* duty values, 0 and 255 among them as 0 and the largest
          Counts,    \* repeat counts, 0 for "until stopped"
          Effects,   \* the LED effects that are commanded
          MAX_COMMANDS, MAX_FAULTS, \* bounds
          None

\* A strip has a pixel (node_board.c gives one of none 30) and a size of 0 in
\* a configuration stands for the default of its effect.
ASSUME OutputsAssumption ==
    /\ PIXELS \in Nat \ {0} /\ SIZE \in Nat \ {0}
    /\ Counts \subseteq Nat /\ Effects \subseteq DOMAIN EffectFrames
    /\ MAX_FAULTS \in Nat
    /\ None \notin {"relay_fx", "mosfet_pulse", "mosfet_fade", "mosfet_fx"}

VARIABLES relay, mosfet, line, strip,
          worker,    \* led_effect_task
          notified,  \* its task notification
          todo,      \* the steps left of the command that is carried out
          armed, callback, \* running timers; the callback that waits
          goal,      \* where the last operation leaves each output
          raced,     \* outputs operated on while a callback of theirs waited
          stale,     \* frames drawn of an effect that was cancelled
          budget

vars == <<relay, mosfet, line, strip, worker, notified, todo, armed, callback, goal,
          raced, stale, budget>>
led == <<strip, worker, notified, stale>>

NoFx == [active |-> FALSE, on |-> FALSE, left |-> 0, final |-> 0, level |-> 0,
         mode |-> "none", low |-> 0, hold |-> FALSE]
Forever == -1
MAX_VALUE == CHOOSE v \in Levels : \A w \in Levels : w <= v
Resting == [at |-> "idle", seq |-> 0, effect |-> None, count |-> 0, k |-> 0]

Init == /\ relay = [on |-> 0, broken |-> FALSE]
        /\ mosfet = [value |-> 0, restore |-> 0, from |-> 0, target |-> 0, fx |-> NoFx]
        /\ line = 0
        /\ strip = [show |-> Fill("dark"), active |-> FALSE, seq |-> 0, effect |-> None,
                    count |-> 0]
        /\ worker = Resting /\ notified = FALSE /\ todo = <<>>
        /\ armed = {} /\ callback = None
        /\ goal = [relay |-> 0, mosfet |-> 0, led |-> {Fill("dark")}]
        /\ raced = {} /\ stale = 0
        /\ budget = [commands |-> MAX_COMMANDS, faults |-> MAX_FAULTS]

TimersOf == [relay |-> {"relay_fx"}, mosfet |-> {"mosfet_pulse", "mosfet_fade", "mosfet_fx"}]
-----------------------------------------------------------------------------
(* The commands, as steps *)

Step(op, v) == [op |-> op, value |-> v, what |-> None, count |-> 0, final |-> 0, low |-> 0]
Led(op, what) == [Step(op, 0) EXCEPT !.what = what]
Wait == Step("delay", 0)
Times(n, steps) == [i \in 1..(n * Len(steps)) |-> steps[((i - 1) % Len(steps)) + 1]]

node_hw_relay_all_off == <<Step("relay", 0)>>
node_hw_mosfet_all_off == <<Step("mosfet", 0)>>
node_hw_universal_output_all_off == <<Step("line", 0)>>
node_hw_led_off == <<Led("stop", None), Led("fill", "dark")>>
node_hw_led_solid == <<Led("stop", None), Led("fill", "color")>>
node_hw_led_run_effect == { <<[Led("activate", e) EXCEPT !.count = n], Led("notify", None)>> :
                              e \in Effects, n \in Counts }
node_hardware_io_set_output ==
    { <<Step("relay", b)>> : b \in 0..1 } \cup { <<Step("line", b)>> : b \in 0..1 }
      \cup { <<Step("mosfet", v)>> : v \in Levels }

\* the task sleeps while the output is on
node_hardware_io_pulse_output ==
    { <<Step("relay", 1), Wait, Step("relay", 0)>>,
      <<Step("line", 1), Wait, Step("line", 0)>>,
      <<Step("pulse", MAX_VALUE), Wait>> }
\* the first output there is, a relay here, a number of times
node_hardware_io_identify ==
    { Times(n, <<Step("relay", 1), Wait, Step("relay", 0)>>) : n \in 1..2 }
node_hardware_io_mosfet ==
    { <<Step(op, v)>> : op \in {"fade", "pulse", "broken"}, v \in Levels }
      \cup { <<[Step("blink", v) EXCEPT !.count = n, !.final = f]>> :
               v \in Levels, f \in Levels, n \in Counts }
      \cup { <<[Step("breathe", v) EXCEPT !.count = n, !.final = f]>> :
               v \in Levels \ {0}, f \in Levels, n \in Counts }
node_hardware_io_node_all_off ==
    node_hw_relay_all_off \o node_hw_mosfet_all_off \o node_hw_universal_output_all_off
      \o node_hw_led_off

Commands == {node_hw_led_off, node_hw_led_solid, <<Step("relay_broken", 1)>>,
             node_hardware_io_node_all_off}
            \cup node_hw_led_run_effect \cup node_hardware_io_set_output
            \cup node_hardware_io_pulse_output \cup node_hardware_io_identify
            \cup node_hardware_io_mosfet

command ==
    /\ todo = <<>> /\ budget.commands > 0
    /\ budget' = [budget EXCEPT !.commands = @ - 1]
    /\ todo' \in Commands
    /\ UNCHANGED <<relay, mosfet, line, led, armed, callback, goal, raced>>
-----------------------------------------------------------------------------
(* One step of a command *)

On(op) == todo # <<>> /\ Head(todo).op = op
Done == todo' = Tail(todo) /\ UNCHANGED <<callback, budget>>

\* an operation under the lock of output o stops its timers and may arm one
Operate(o, start, value) ==
    /\ armed' = (armed \ TimersOf[o]) \cup (IF start = None THEN {} ELSE {start})
    /\ raced' = IF callback \in TimersOf[o] THEN raced \cup {o} ELSE raced \ {o}
    /\ goal' = [goal EXCEPT ![o] = value]
    /\ Done

node_hw_relay_set ==
    /\ On("relay") /\ Operate("relay", None, Head(todo).value)
    /\ relay' = [on |-> Head(todo).value, broken |-> FALSE]
    /\ UNCHANGED <<mosfet, line, led>>

\* the timer may fail to start
node_hw_relay_broken_fluorescent ==
    /\ On("relay_broken")
    /\ \/ Operate("relay", "relay_fx", 1) /\ relay' = [on |-> 1, broken |-> TRUE]
       \/ Operate("relay", None, 0) /\ relay' = [on |-> 0, broken |-> FALSE]
    /\ UNCHANGED <<mosfet, line, led>>

node_hw_universal_output_set ==
    /\ On("line") /\ line' = Head(todo).value /\ Done
    /\ UNCHANGED <<relay, mosfet, led, armed, goal, raced>>

delay == /\ On("delay") /\ Done
         /\ UNCHANGED <<relay, mosfet, line, led, armed, goal, raced>>

MosfetOp(op, start, m, end) ==
    /\ On(op) /\ Operate("mosfet", start, end)
    /\ mosfet' = m
    /\ UNCHANGED <<relay, line, led>>

\* the bug leaves the effect active for its timer
mosfet_set_keeps_effect ==
    /\ On("mosfet")
    /\ armed' = armed \ {"mosfet_pulse", "mosfet_fade"}
    /\ raced' = raced \ {"mosfet"} /\ goal' = [goal EXCEPT !.mosfet = Head(todo).value]
    /\ Done /\ mosfet' = [mosfet EXCEPT !.value = Head(todo).value]
    /\ UNCHANGED <<relay, line, led>>

node_hw_mosfet_set_value ==
    LET v == Head(todo).value
    IN  MosfetOp("mosfet", None, [mosfet EXCEPT !.value = v, !.fx = NoFx], v)
node_hw_mosfet_fade ==
    LET v == Head(todo).value
    IN  MosfetOp("fade", "mosfet_fade",
                 [mosfet EXCEPT !.from = mosfet.value, !.target = v, !.fx = NoFx], v)
node_hw_mosfet_pulse ==
    LET m == [mosfet EXCEPT !.restore = mosfet.value, !.fx = NoFx]
    IN  \/ MosfetOp("pulse", "mosfet_pulse", [m EXCEPT !.value = Head(todo).value], m.value)
        \/ MosfetOp("pulse", None, m, m.value)

Effect(mode, s) == [NoFx EXCEPT !.active = TRUE, !.on = TRUE, !.mode = mode,
                                !.level = s.value, !.final = s.final, !.low = s.low,
                                !.left = IF s.count = 0 THEN Forever ELSE s.count]
Begin(op, first) ==
    LET s == Head(todo)
    IN  \/ MosfetOp(op, "mosfet_fx", [mosfet EXCEPT !.value = first, !.fx = Effect(op, s)],
                    s.final)
        \/ MosfetOp(op, None, [mosfet EXCEPT !.value = s.final, !.fx = NoFx], s.final)
node_hw_mosfet_blink == Begin("blink", Head(todo).value)
node_hw_mosfet_breathe == Begin("breathe", Head(todo).low)
node_hw_mosfet_broken_fluorescent == Begin("broken", Head(todo).value)
-----------------------------------------------------------------------------
(* The timer task *)

Periodic == {"mosfet_fade"} \cup (IF mosfet.fx.mode = "breathe" THEN {"mosfet_fx"} ELSE {})

timer_due ==
    /\ callback = None
    /\ \E t \in armed : /\ callback' = t
                        /\ armed' = IF t \in Periodic THEN armed ELSE armed \ {t}
    /\ UNCHANGED <<relay, mosfet, line, led, todo, goal, raced, budget>>

\* a callback has a step of no command under way: it gets the lock
Ran(t) == /\ callback = t /\ callback' = None
          /\ UNCHANGED <<line, led, todo, goal, raced, budget>>

node_hw_relay_effect_timer ==
    /\ Ran("relay_fx")
    /\ IF relay.broken THEN relay' = [relay EXCEPT !.on = 1 - @] /\ armed' = armed \cup {"relay_fx"}
       ELSE UNCHANGED <<relay, armed>>
    /\ UNCHANGED mosfet

node_hw_mosfet_pulse_timer ==
    /\ Ran("mosfet_pulse") /\ mosfet' = [mosfet EXCEPT !.value = mosfet.restore]
    /\ UNCHANGED <<relay, armed>>

Between(a, b) == { v \in Levels : (a <= v /\ v <= b) \/ (b <= v /\ v <= a) }

node_hw_mosfet_fade_timer ==
    /\ Ran("mosfet_fade")
    /\ \/ /\ mosfet' = [mosfet EXCEPT !.value = mosfet.target]
          /\ armed' = armed \ {"mosfet_fade"}
       \/ /\ \E v \in Between(mosfet.from, mosfet.target) : mosfet' = [mosfet EXCEPT !.value = v]
          /\ UNCHANGED armed
    /\ UNCHANGED relay

Dec(left) == IF left > 0 THEN left - 1 ELSE left
Over(m) == [m EXCEPT !.value = m.fx.final, !.fx = [m.fx EXCEPT !.active = FALSE, !.left = 0,
                                                               !.mode = "none"]]
Turn(m, on, value) == [m EXCEPT !.value = value, !.fx.on = on]

BlinkStep(m) ==
    IF m.fx.on THEN Turn(m, FALSE, 0)
    ELSE IF Dec(m.fx.left) = 0 THEN Over(m)
    ELSE [Turn(m, TRUE, m.fx.level) EXCEPT !.fx.left = Dec(@)]

\* fade, hold at the end of it, turn; the last hold below ends the effect
BreatheStep(m) ==
    LET fx == m.fx
    IN  IF ~fx.hold
        THEN { [m EXCEPT !.value = v] : v \in Between(fx.low, fx.level) }
             \cup { [m EXCEPT !.value = IF fx.on THEN fx.level ELSE fx.low, !.fx.hold = TRUE] }
        ELSE { m, IF ~fx.on /\ Dec(fx.left) = 0 THEN Over(m)
                  ELSE [m EXCEPT !.fx.on = ~fx.on, !.fx.hold = FALSE,
                                 !.fx.left = IF fx.on THEN @ ELSE Dec(@)] }

node_hw_mosfet_effect_timer ==
    /\ Ran("mosfet_fx")
    /\ \/ ~mosfet.fx.active /\ UNCHANGED <<mosfet, armed>>
       \/ /\ mosfet.fx.active /\ mosfet.fx.mode = "blink"
          /\ mosfet' = BlinkStep(mosfet)
          /\ armed' = IF mosfet'.fx.active THEN armed \cup {"mosfet_fx"} ELSE armed
       \/ /\ mosfet.fx.active /\ mosfet.fx.mode = "broken"
          /\ mosfet' = Turn(mosfet, ~mosfet.fx.on, IF mosfet.fx.on THEN 0 ELSE mosfet.fx.level)
          /\ armed' = armed \cup {"mosfet_fx"}
       \/ /\ mosfet.fx.active /\ mosfet.fx.mode = "breathe"
          /\ mosfet' \in BreatheStep(mosfet) /\ UNCHANGED armed
    /\ UNCHANGED relay
-----------------------------------------------------------------------------
(* The LED strip *)

LedOp(op, s, end) ==
    /\ On(op) /\ Done /\ strip' = s /\ goal' = [goal EXCEPT !.led = end]
    /\ UNCHANGED <<relay, mosfet, line, armed, raced, worker>>

stop_effect ==
    /\ LedOp("stop", [strip EXCEPT !.active = FALSE, !.seq = @ + 1], goal.led)
    /\ stale' = 0 /\ UNCHANGED notified
fill_strip_locked ==
    /\ LedOp("fill", [strip EXCEPT !.show = Fill(Head(todo).what)], {Fill(Head(todo).what)})
    /\ UNCHANGED <<notified, stale>>
activate_effect ==
    /\ LedOp("activate", [strip EXCEPT !.active = TRUE, !.seq = @ + 1,
                                       !.effect = Head(todo).what, !.count = Head(todo).count],
             LET e == Head(todo).what
                 n == Head(todo).count
             IN  IF n = 0 THEN {} ELSE Frame(e, n, Draws(e, n) - 1))
    /\ stale' = 0 /\ UNCHANGED notified
run_notify == LedOp("notify", strip, goal.led) /\ notified' = TRUE /\ UNCHANGED stale

Working(w) == worker' = w /\ UNCHANGED <<relay, mosfet, line, todo, armed, callback, goal, raced>>

\* the snapshot under the lock, of whatever is commanded by now
led_effect_task ==
    /\ worker.at = "idle" /\ notified
    /\ notified' = FALSE
    /\ Working([at |-> "check", seq |-> strip.seq, effect |-> strip.effect,
                count |-> strip.count, k |-> 0])
    /\ UNCHANGED <<strip, stale, budget>>

Cancelled == strip.seq # worker.seq \/ ~strip.active

\* the effect is over: cancelled, or its last frame drawn
effect_cancelled ==
    /\ worker.at = "check"
    /\ \/ Cancelled /\ Working(Resting) /\ UNCHANGED strip
       \/ /\ ~Cancelled /\ worker.count > 0 /\ worker.k = Draws(worker.effect, worker.count)
          /\ Working(Resting) /\ strip' = [strip EXCEPT !.active = FALSE]
       \/ /\ ~Cancelled /\ (worker.count > 0 => worker.k < Draws(worker.effect, worker.count))
          /\ Working([worker EXCEPT !.at = "draw"]) /\ UNCHANGED strip
    /\ UNCHANGED <<notified, stale, budget>>

\* the delay after a frame ends with another look; the bug draws on without one
delay_unchecked == "draw"
delay_effect_ms == "check"

\* a frame under the lock, whatever has happened since the look; the driver
\* may fail, which ends the effect
draw ==
    /\ worker.at = "draw"
    /\ \/ /\ \E f \in Frame(worker.effect, worker.count, worker.k) :
               strip' = [strip EXCEPT !.show = f]
          /\ Working([worker EXCEPT !.at = IF worker.count > 0
                                              /\ worker.k + 1 >= Draws(worker.effect, worker.count)
                                           THEN "check" ELSE delay_effect_ms,
                                    !.k = IF worker.count > 0 THEN @ + 1
                                          ELSE (@ + 1) % Len(EffectFrames[worker.effect])])
          /\ stale' = IF Cancelled THEN stale + 1 ELSE stale
          /\ UNCHANGED budget
       \/ /\ budget.faults > 0 /\ budget' = [budget EXCEPT !.faults = @ - 1]
          /\ Working(Resting)
          /\ strip' = [strip EXCEPT !.active = IF strip.seq = worker.seq THEN FALSE ELSE @]
          /\ UNCHANGED stale
    /\ UNCHANGED notified

Next == \/ command
        \/ node_hw_relay_set \/ node_hw_relay_broken_fluorescent
        \/ node_hw_universal_output_set \/ delay
        \/ node_hw_mosfet_set_value \/ node_hw_mosfet_fade \/ node_hw_mosfet_pulse
        \/ node_hw_mosfet_blink \/ node_hw_mosfet_breathe
        \/ node_hw_mosfet_broken_fluorescent
        \/ timer_due \/ node_hw_relay_effect_timer \/ node_hw_mosfet_pulse_timer
        \/ node_hw_mosfet_fade_timer \/ node_hw_mosfet_effect_timer
        \/ stop_effect \/ fill_strip_locked \/ activate_effect \/ run_notify
        \/ led_effect_task \/ effect_cancelled \/ draw

Spec == Init /\ [][Next]_vars
-----------------------------------------------------------------------------
(* Properties *)

Idle(o) == armed \cap TimersOf[o] = {} /\ callback \notin TimersOf[o]

\* Once its timers are quiet an output is where its last operation leaves it,
\* however pulses, fades and effects replaced each other.  The callback of a
\* MOSFET timer that waited for the lock while the operation had it may still
\* undo the operation; the relay's callback looks first.
TimedOutputsSettle ==
    /\ Idle("relay") => relay.on = goal.relay
    /\ "mosfet" \in raced \/ (Idle("mosfet") => mosfet.value = goal.mosfet)

\* scenehub_node_v1/docs/plans/LED_REMAINING.md: "`led.off` cancels running
\* effects immediately".  The worker looks and draws in two lock sections, so
\* one frame of a cancelled effect may still be drawn; never a second one, and
\* with none drawn the strip ends up showing what its last command asked for.
LedStopsInOneFrame ==
    /\ stale <= 1
    /\ (stale = 0 /\ worker.at = "idle" /\ ~notified /\ todo = <<>>
          /\ budget.faults = MAX_FAULTS) => strip.show \in goal.led
=============================================================================
