------------------------- MODULE Periphery_proofs -------------------------
(* Proofs about the outputs of a node and of the controller, for any duty   *)
(* values, repeat counts and LED effects, any number of commands and strips *)
(* of any length; about the stores on the controller's card, for any number *)
(* of entries, requests, failing file operations and power losses; about    *)
(* its cache of audio files, for files of any chunks; and about its audio   *)
(* player, for any commands.                                                *)
EXTENDS NodeOutputs, HardwareIo, HubStores, AudioPlayer, AudioAssets, SeqLemmas,
        FiniteSetTheorems, TLAPS

-----------------------------------------------------------------------------
(* The inductive invariant of the timed outputs *)

\* A timer that runs, or whose callback waits for the lock.
Pending(t) == t \in armed \/ callback = t

OutputShape ==
    /\ DOMAIN relay = {"on", "broken"} /\ relay.broken \in BOOLEAN
    /\ DOMAIN mosfet = {"value", "restore", "from", "target", "fx"}
    /\ DOMAIN mosfet.fx = {"active", "on", "left", "final", "level", "mode", "low", "hold"}
    /\ mosfet.fx.active \in BOOLEAN
    /\ DOMAIN goal = {"relay", "mosfet", "led"}

\* A relay that flickers has its timer, one that does not is where it belongs,
\* whether or not a callback waited: the callback looks whether it flickers.
RelaySettles ==
    /\ relay.broken => Pending("relay_fx")
    /\ ~relay.broken => relay.on = goal.relay

\* A pulse is alone and comes back to the goal.
PulseReturns ==
    Pending("mosfet_pulse") =>
        /\ ~mosfet.fx.active /\ mosfet.restore = goal.mosfet
        /\ ~Pending("mosfet_fade") /\ ~Pending("mosfet_fx")

\* A fade is alone, ends at the goal, and its timer runs on until it is there.
FadeArrives ==
    Pending("mosfet_fade") =>
        /\ ~mosfet.fx.active /\ mosfet.target = goal.mosfet
        /\ ~Pending("mosfet_fx") /\ "mosfet_fade" \in armed

\* An effect has its timer, which runs on by itself for the breathing one only,
\* and leaves the goal behind.
EffectEnds ==
    mosfet.fx.active =>
        /\ Pending("mosfet_fx") /\ mosfet.fx.final = goal.mosfet
        /\ mosfet.fx.mode \in {"blink", "broken", "breathe"}
        /\ mosfet.fx.mode = "breathe" => "mosfet_fx" \in armed

MosfetRests ==
    ~Pending("mosfet_pulse") /\ ~Pending("mosfet_fade") /\ ~mosfet.fx.active =>
        mosfet.value = goal.mosfet

MosfetSettles == PulseReturns /\ FadeArrives /\ EffectEnds /\ MosfetRests

TimedInv == OutputShape /\ RelaySettles /\ ("mosfet" \in raced \/ MosfetSettles)
-----------------------------------------------------------------------------
(* The inductive invariant of the LED strip *)

Ops == {"relay", "relay_broken", "mosfet", "pulse", "fade", "blink", "breathe", "broken",
        "line", "delay", "stop", "fill", "activate", "notify"}
Steps == [op : Ops, value : Levels \cup {0, 1, MAX_VALUE},
          what : Effects \cup {None, "dark", "color"}, count : Counts \cup {0},
          final : Levels \cup {0}, low : {0}]

\* A fill follows the stop of the effect, and a start is followed by the
\* notification of the worker.
Tidy(s) ==
    /\ s \in Seq(Steps)
    /\ \A i \in 1 .. Len(s) :
         /\ s[i].op = "activate" => /\ s[i].what \in Effects /\ s[i].count \in Counts
                                    /\ i < Len(s) /\ s[i + 1].op = "notify"
         /\ s[i].op = "stop" => i < Len(s) /\ s[i + 1].op = "fill"
         /\ s[i].op = "fill" /\ i > 1 => s[i - 1].op = "stop"

\* A command that begins is not in the middle of a stop.
Fresh(s) == Tidy(s) /\ (s # <<>> => Head(s).op # "fill")

Filling == On("fill")

LedShape ==
    /\ DOMAIN strip = {"show", "active", "seq", "effect", "count"}
    /\ strip.active \in BOOLEAN /\ strip.seq \in Nat
    /\ DOMAIN worker = {"at", "seq", "effect", "count", "k"}
    /\ worker.at \in {"idle", "check", "draw"}
    /\ worker.seq \in Nat /\ worker.seq <= strip.seq
    /\ worker.count > 0 => worker.k \in Nat
    /\ DOMAIN goal = {"relay", "mosfet", "led"}
    /\ notified \in BOOLEAN
    /\ DOMAIN budget = {"commands", "faults"}
    /\ budget.faults \in 0 .. MAX_FAULTS
    /\ Tidy(todo) /\ (Filling => ~strip.active)

\* One frame of a cancelled effect at most, and none before the worker that
\* looked too early has drawn.
OneStaleFrame ==
    /\ stale \in {0, 1}
    /\ worker.at = "draw" /\ Cancelled => stale = 0

\* An effect under way has a worker, or one that is about to be told.
Attended ==
    strip.active => \/ On("notify") \/ notified
                    \/ worker.at # "idle" /\ worker.seq = strip.seq

\* The goal of an effect is its last frame.
LastFrame ==
    strip.active =>
        /\ strip.effect \in Effects /\ strip.count \in Counts
        /\ goal.led = IF strip.count = 0 THEN {}
                      ELSE Frame(strip.effect, strip.count, Draws(strip.effect, strip.count) - 1)

\* The worker draws the effect that was commanded, and the strip shows the
\* frame before the one it comes to.
InStep ==
    worker.at # "idle" /\ ~Cancelled =>
        /\ worker.effect = strip.effect /\ worker.count = strip.count
        /\ worker.count > 0 /\ worker.k > 0 =>
             strip.show \in Frame(worker.effect, worker.count, worker.k - 1)

StripRests ==
    stale = 0 /\ budget.faults = MAX_FAULTS /\ ~strip.active /\ ~Filling =>
        strip.show \in goal.led

LedInv == LedShape /\ OneStaleFrame /\ Attended /\ LastFrame /\ InStep /\ StripRests
-----------------------------------------------------------------------------
(* The timed outputs: what a step may leave alone, then the operations *)

Timers == {"relay_fx", "mosfet_pulse", "mosfet_fade", "mosfet_fx"}

\* Of output o nothing changes but what other outputs own.
Untouched(o) ==
    /\ \A t \in TimersOf[o] : (t \in armed' <=> t \in armed) /\ (callback' = t <=> callback = t)
    /\ goal'[o] = goal[o] /\ (o \in raced' <=> o \in raced)

\* What does not touch the relay keeps its part of the invariant.
LEMMA RelayKept ==
    ASSUME TimedInv, relay' = relay, Untouched("relay")
    PROVE  RelaySettles'
  BY DEF TimedInv, Untouched, RelaySettles, Pending, TimersOf

\* What does not touch the MOSFET keeps its part.
LEMMA MosfetKept ==
    ASSUME TimedInv, mosfet' = mosfet, Untouched("mosfet")
    PROVE  "mosfet" \in raced' \/ MosfetSettles'
  <1> SUFFICES ASSUME "mosfet" \notin raced' PROVE MosfetSettles'
    OBVIOUS
  <1>1. /\ \A t \in {"mosfet_pulse", "mosfet_fade", "mosfet_fx"} : Pending(t)' <=> Pending(t)
        /\ \A t \in {"mosfet_pulse", "mosfet_fade", "mosfet_fx"} : t \in armed' <=> t \in armed
        /\ goal'.mosfet = goal.mosfet /\ MosfetSettles
    BY DEF TimedInv, Untouched, TimersOf, Pending
  <1> QED
    BY <1>1 DEF MosfetSettles, PulseReturns, FadeArrives, EffectEnds, MosfetRests

\* The strip, the plain output and the delays leave both alone.
LEMMA OthersKept ==
    ASSUME TimedInv, UNCHANGED <<relay, mosfet, armed, callback, raced>>,
           DOMAIN goal' = DOMAIN goal, goal'.relay = goal.relay, goal'.mosfet = goal.mosfet
    PROVE  TimedInv'
  <1>1. Untouched("relay") /\ Untouched("mosfet")
    BY DEF Untouched
  <1>2. OutputShape'
    BY DEF TimedInv, OutputShape
  <1> QED
    BY <1>1, <1>2, RelayKept, MosfetKept DEF TimedInv

\* An operation on o with the lock and no callback waiting has the timer it
\* starts and no other.
LEMMA OperateFacts ==
    ASSUME TimedInv, NEW o \in {"relay", "mosfet"}, NEW start \in TimersOf[o] \cup {None},
           NEW value, Operate(o, start, value)
    PROVE  /\ callback' = callback
           /\ goal' = [goal EXCEPT ![o] = value]
           /\ goal'[o] = value /\ DOMAIN goal' = {"relay", "mosfet", "led"}
           /\ \A t \in TimersOf[o] : t \in armed' <=> t = start
           /\ o \in raced' \/ \A t \in TimersOf[o] : Pending(t)' <=> t = start
           /\ o = "relay" => Untouched("mosfet")
           /\ o = "mosfet" => Untouched("relay")
  <1>1. /\ callback' = callback /\ goal' = [goal EXCEPT ![o] = value]
        /\ DOMAIN goal = {"relay", "mosfet", "led"}
    BY DEF Operate, Done, TimedInv, OutputShape
  <1>2. \A x \in {"relay_fx", "mosfet_pulse", "mosfet_fade", "mosfet_fx"} : x # None
    BY OutputsAssumption
  <1>3. \A t \in TimersOf[o] : t \in armed' <=> t = start
    BY <1>2 DEF Operate, TimersOf
  <1>4. o \in raced' \/ callback \notin TimersOf[o]
    BY DEF Operate
  <1>5. o \in raced' \/ \A t \in TimersOf[o] : Pending(t)' <=> t = start
    BY <1>1, <1>3, <1>4 DEF Pending
  <1>6. /\ o = "relay" => Untouched("mosfet")
        /\ o = "mosfet" => Untouched("relay")
    <2>1. CASE o = "relay"
      BY <1>1, <2>1 DEF Operate, Untouched, TimersOf
    <2>2. CASE o = "mosfet"
      BY <1>1, <2>2 DEF Operate, Untouched, TimersOf
    <2> QED
      BY <2>1, <2>2
  <1> QED
    BY <1>1, <1>3, <1>5, <1>6

\* The relay flickers with its timer armed, or is at the goal.
LEMMA RelayOperation ==
    ASSUME TimedInv, NEW start \in {"relay_fx", None}, NEW value,
           Operate("relay", start, value),
           relay' = [on |-> value, broken |-> start = "relay_fx"], UNCHANGED mosfet
    PROVE  TimedInv'
  <1>1. /\ goal'.relay = value /\ DOMAIN goal' = {"relay", "mosfet", "led"}
        /\ "relay_fx" \in armed' <=> start = "relay_fx"
        /\ Untouched("mosfet")
    BY OperateFacts, "relay" \in {"relay", "mosfet"} DEF TimersOf
  <1>2. OutputShape'
    BY <1>1 DEF TimedInv, OutputShape
  <1>3. RelaySettles'
    BY <1>1 DEF RelaySettles, Pending
  <1> QED
    BY <1>1, <1>2, <1>3, MosfetKept DEF TimedInv

\* node_hw_relay_set: no timer, and the relay is where it was set.
LEMMA RelaySet == ASSUME TimedInv, node_hw_relay_set PROVE TimedInv'
  <1>1. None # "relay_fx"
    BY OutputsAssumption
  <1> QED
    BY <1>1, RelayOperation DEF node_hw_relay_set

\* The relay effect ends where its operation said.
LEMMA RelayBroken == ASSUME TimedInv, node_hw_relay_broken_fluorescent PROVE TimedInv'
  <1>1. None # "relay_fx"
    BY OutputsAssumption
  <1>2. CASE Operate("relay", "relay_fx", 1) /\ relay' = [on |-> 1, broken |-> TRUE]
    BY <1>2, RelayOperation DEF node_hw_relay_broken_fluorescent
  <1>3. CASE Operate("relay", None, 0) /\ relay' = [on |-> 0, broken |-> FALSE]
    BY <1>1, <1>3, RelayOperation DEF node_hw_relay_broken_fluorescent
  <1> QED
    BY <1>2, <1>3 DEF node_hw_relay_broken_fluorescent

\* What the callback of the relay finds is either a flicker or nothing to do.
LEMMA RelayTimer == ASSUME TimedInv, node_hw_relay_effect_timer PROVE TimedInv'
  <1>1. /\ callback = "relay_fx" /\ callback' = None
        /\ UNCHANGED <<goal, raced, mosfet>>
    BY DEF node_hw_relay_effect_timer, Ran
  <1>2. \A x \in {"relay_fx", "mosfet_pulse", "mosfet_fade", "mosfet_fx"} : x # None
    BY OutputsAssumption
  <1>3. Untouched("mosfet") /\ OutputShape' /\ RelaySettles'
    <2>1. CASE relay.broken
      BY <1>1, <1>2, <2>1 DEF node_hw_relay_effect_timer, TimedInv, OutputShape, RelaySettles,
                              Untouched, TimersOf, Pending
    <2>2. CASE ~relay.broken
      BY <1>1, <1>2, <2>2 DEF node_hw_relay_effect_timer, TimedInv, OutputShape, RelaySettles,
                              Untouched, TimersOf, Pending
    <2> QED
      BY <2>1, <2>2
  <1> QED
    BY <1>1, <1>3, MosfetKept DEF TimedInv

-----------------------------------------------------------------------------
(* The MOSFET *)

FxShape(fx) ==
    /\ DOMAIN fx = {"active", "on", "left", "final", "level", "mode", "low", "hold"}
    /\ fx.active \in BOOLEAN
MosfetShape(m) ==
    /\ DOMAIN m = {"value", "restore", "from", "target", "fx"}
    /\ FxShape(m.fx)

\* A MOSFET without an effect
LEMMA NoFxFacts == FxShape(NoFx) /\ ~NoFx.active
  BY DEF NoFx, FxShape

\* Where an operation that starts a timer, or none, leaves the output.
Started(start, m, end) ==
    /\ m.fx.active <=> start = "mosfet_fx"
    /\ start = "mosfet_pulse" => m.restore = end
    /\ start = "mosfet_fade" => m.target = end
    /\ start = "mosfet_fx" => m.fx.final = end /\ m.fx.mode \in {"blink", "broken", "breathe"}
    /\ start = None => m.value = end

\* An operation of the MOSFET that starts one timer, or none, whose callbacks end
\* at the value promised
LEMMA MosfetOperation ==
    ASSUME TimedInv, NEW op, NEW start \in {"mosfet_pulse", "mosfet_fade", "mosfet_fx", None},
           NEW m, NEW end, MosfetOp(op, start, m, end), MosfetShape(m), Started(start, m, end)
    PROVE  TimedInv'
  <1>1. /\ Operate("mosfet", start, end) /\ mosfet' = m /\ UNCHANGED relay
    BY DEF MosfetOp
  <1>2. start \in TimersOf["mosfet"] \cup {None}
    BY DEF TimersOf
  <1>3. /\ goal'.mosfet = end /\ DOMAIN goal' = {"relay", "mosfet", "led"}
        /\ \A t \in {"mosfet_pulse", "mosfet_fade", "mosfet_fx"} : t \in armed' <=> t = start
        /\ \/ "mosfet" \in raced'
           \/ \A t \in {"mosfet_pulse", "mosfet_fade", "mosfet_fx"} : Pending(t)' <=> t = start
        /\ Untouched("relay")
    <2>1. "mosfet" \in {"relay", "mosfet"}
      OBVIOUS
    <2> QED
      BY <1>1, <1>2, <2>1, OperateFacts DEF TimersOf
  <1>4. OutputShape'
    BY <1>1, <1>3 DEF TimedInv, OutputShape, MosfetShape, FxShape
  <1>5. \A x \in {"relay_fx", "mosfet_pulse", "mosfet_fade", "mosfet_fx"} : x # None
    BY OutputsAssumption
  <1>6. "mosfet" \in raced' \/ MosfetSettles'
    <2> SUFFICES ASSUME "mosfet" \notin raced' PROVE MosfetSettles'
      OBVIOUS
    <2>1. \A t \in {"mosfet_pulse", "mosfet_fade", "mosfet_fx"} : Pending(t)' <=> t = start
      BY <1>3
    <2>2. PulseReturns'
      BY <1>1, <1>3, <2>1 DEF PulseReturns, Started
    <2>3. FadeArrives'
      BY <1>1, <1>3, <2>1 DEF FadeArrives, Started
    <2>4. EffectEnds'
      BY <1>1, <1>3, <2>1 DEF EffectEnds, Started
    <2>5. MosfetRests'
      <3>1. SUFFICES ASSUME start # "mosfet_pulse", start # "mosfet_fade", ~m.fx.active
                     PROVE  m.value = end
        BY <1>1, <1>3, <2>1 DEF MosfetRests
      <3> QED
        BY <3>1 DEF Started
    <2> QED
      BY <2>2, <2>3, <2>4, <2>5 DEF MosfetSettles
  <1> QED
    BY <1>1, <1>3, <1>4, <1>6, RelayKept DEF TimedInv

\* node_hw_mosfet_set_value
LEMMA MosfetSet == ASSUME TimedInv, node_hw_mosfet_set_value PROVE TimedInv'
  <1> DEFINE v == Head(todo).value
             m == [mosfet EXCEPT !.value = v, !.fx = NoFx]
  <1>1. MosfetOp("mosfet", None, m, v)
    BY DEF node_hw_mosfet_set_value
  <1>2. None \notin {"mosfet_pulse", "mosfet_fade", "mosfet_fx"}
    BY OutputsAssumption
  <1>3. m.value = v /\ m.fx = NoFx /\ MosfetShape(m)
    BY NoFxFacts DEF TimedInv, OutputShape, MosfetShape
  <1>4. Started(None, m, v)
    BY <1>2, <1>3, NoFxFacts DEF Started
  <1> QED
    BY <1>1, <1>3, <1>4, MosfetOperation

\* node_hw_mosfet_fade
LEMMA MosfetFade == ASSUME TimedInv, node_hw_mosfet_fade PROVE TimedInv'
  <1> DEFINE v == Head(todo).value
             m == [mosfet EXCEPT !.from = mosfet.value, !.target = v, !.fx = NoFx]
  <1>1. MosfetOp("fade", "mosfet_fade", m, v)
    BY DEF node_hw_mosfet_fade
  <1>2. None # "mosfet_fade"
    BY OutputsAssumption
  <1>3. m.target = v /\ m.fx = NoFx /\ MosfetShape(m)
    BY NoFxFacts DEF TimedInv, OutputShape, MosfetShape
  <1>4. Started("mosfet_fade", m, v)
    BY <1>2, <1>3, NoFxFacts DEF Started
  <1> QED
    BY <1>1, <1>3, <1>4, MosfetOperation

\* node_hw_mosfet_pulse
LEMMA MosfetPulse == ASSUME TimedInv, node_hw_mosfet_pulse PROVE TimedInv'
  <1> DEFINE v == Head(todo).value
             m == [mosfet EXCEPT !.restore = mosfet.value, !.fx = NoFx]
             n == [m EXCEPT !.value = v]
  <1>1. MosfetOp("pulse", "mosfet_pulse", n, m.value) \/ MosfetOp("pulse", None, m, m.value)
    BY DEF node_hw_mosfet_pulse
  <1>2. None \notin {"mosfet_pulse", "mosfet_fade", "mosfet_fx"}
    BY OutputsAssumption
  <1>3. /\ m.restore = m.value /\ m.fx = NoFx /\ MosfetShape(m)
        /\ n.restore = m.value /\ n.fx = NoFx /\ MosfetShape(n)
    BY NoFxFacts DEF TimedInv, OutputShape, MosfetShape
  <1>4. Started("mosfet_pulse", n, m.value) /\ Started(None, m, m.value)
    BY <1>2, <1>3, NoFxFacts DEF Started
  <1> HIDE DEF m, n
  <1> QED
    BY <1>1, <1>3, <1>4, MosfetOperation

\* The record of an effect that was just started
LEMMA EffectFacts ==
    ASSUME NEW mode, NEW s
    PROVE  /\ FxShape(Effect(mode, s))
           /\ Effect(mode, s).active /\ Effect(mode, s).mode = mode
           /\ Effect(mode, s).final = s.final
  BY DEF Effect, NoFx, FxShape

\* An effect begins, or the output goes to where it would have ended.
LEMMA MosfetBegin ==
    ASSUME TimedInv, NEW op \in {"blink", "broken", "breathe"}, NEW first, Begin(op, first)
    PROVE  TimedInv'
  <1> DEFINE s == Head(todo)
             m == [mosfet EXCEPT !.value = first, !.fx = Effect(op, s)]
             n == [mosfet EXCEPT !.value = s.final, !.fx = NoFx]
  <1>1. MosfetOp(op, "mosfet_fx", m, s.final) \/ MosfetOp(op, None, n, s.final)
    BY DEF Begin
  <1>2. None \notin {"mosfet_pulse", "mosfet_fade", "mosfet_fx"}
    BY OutputsAssumption
  <1>3. /\ m.fx = Effect(op, s) /\ MosfetShape(m)
        /\ n.value = s.final /\ n.fx = NoFx /\ MosfetShape(n)
    BY NoFxFacts, EffectFacts DEF TimedInv, OutputShape, MosfetShape
  <1>4. Started("mosfet_fx", m, s.final) /\ Started(None, n, s.final)
    BY <1>2, <1>3, NoFxFacts, EffectFacts DEF Started
  <1> HIDE DEF m, n
  <1> QED
    BY <1>1, <1>3, <1>4, MosfetOperation

\* The three effects of the MOSFET
LEMMA MosfetEffects ==
    ASSUME TimedInv,
           \/ node_hw_mosfet_blink \/ node_hw_mosfet_breathe
           \/ node_hw_mosfet_broken_fluorescent
    PROVE  TimedInv'
  BY MosfetBegin DEF node_hw_mosfet_blink, node_hw_mosfet_breathe,
                     node_hw_mosfet_broken_fluorescent

-----------------------------------------------------------------------------
(* The timer task *)

\* A timer that is due makes its callback wait; the output stays busy.
LEMMA TimerDue == ASSUME TimedInv, timer_due PROVE TimedInv'
  <1> USE DEF Timers
  <1>1. /\ callback = None /\ UNCHANGED <<relay, mosfet, goal, raced>>
    BY DEF timer_due
  <1>2. PICK t \in armed : /\ callback' = t
                           /\ armed' = IF t \in Periodic THEN armed ELSE armed \ {t}
    BY DEF timer_due
  <1>3. \A x \in Timers : x # None
    BY OutputsAssumption
  <1>4. \A x \in Timers : Pending(x)' <=> Pending(x)
    BY <1>1, <1>2, <1>3 DEF Pending
  <1>5. /\ "mosfet_fade" \in armed => "mosfet_fade" \in armed'
        /\ mosfet.fx.mode = "breathe" /\ "mosfet_fx" \in armed => "mosfet_fx" \in armed'
    BY <1>2 DEF Periodic
  <1>6. OutputShape' /\ RelaySettles'
    BY <1>1, <1>4 DEF TimedInv, OutputShape, RelaySettles
  <1>7. ASSUME MosfetSettles PROVE MosfetSettles'
    BY <1>1, <1>4, <1>5, <1>7 DEF MosfetSettles, PulseReturns, FadeArrives, EffectEnds, MosfetRests
  <1> QED
    BY <1>1, <1>6, <1>7 DEF TimedInv

\* A callback of the MOSFET that waited takes the lock: no other timer of the
\* output is pending any more than before, and the relay is left alone.
LEMMA RanFacts ==
    ASSUME TimedInv, NEW t \in {"mosfet_pulse", "mosfet_fade", "mosfet_fx"}, Ran(t),
           UNCHANGED relay, "relay_fx" \in armed' <=> "relay_fx" \in armed
    PROVE  /\ goal' = goal /\ raced' = raced
           /\ \A x : Pending(x)' <=> x \in armed' \/ x = None
           /\ RelaySettles'
  <1>1. /\ callback = t /\ callback' = None /\ goal' = goal /\ raced' = raced
    BY DEF Ran
  <1>2. \A x \in {"relay_fx", "mosfet_pulse", "mosfet_fade", "mosfet_fx"} : x # None
    BY OutputsAssumption
  <1>3. Untouched("relay")
    BY <1>1, <1>2 DEF Untouched, TimersOf
  <1>4. \A x : Pending(x)' <=> x \in armed' \/ x = None
    BY <1>1 DEF Pending
  <1> QED
    BY <1>1, <1>3, <1>4, RelayKept

\* The end of a pulse
LEMMA PulseTimer == ASSUME TimedInv, node_hw_mosfet_pulse_timer PROVE TimedInv'
  <1>1. /\ Ran("mosfet_pulse") /\ mosfet' = [mosfet EXCEPT !.value = mosfet.restore]
        /\ UNCHANGED <<relay, armed>>
    BY DEF node_hw_mosfet_pulse_timer
  <1>2. /\ goal' = goal /\ raced' = raced /\ RelaySettles'
        /\ \A x : Pending(x)' <=> x \in armed' \/ x = None
    BY <1>1, RanFacts
  <1>3. \A x \in {"relay_fx", "mosfet_pulse", "mosfet_fade", "mosfet_fx"} : x # None
    BY OutputsAssumption
  <1>4. /\ mosfet'.value = mosfet.restore /\ mosfet'.restore = mosfet.restore
        /\ mosfet'.fx = mosfet.fx /\ DOMAIN mosfet' = DOMAIN mosfet
    BY <1>1 DEF TimedInv, OutputShape
  <1>5. OutputShape'
    BY <1>1, <1>2, <1>4 DEF TimedInv, OutputShape
  <1>6. ASSUME MosfetSettles PROVE MosfetSettles'
    <2>1. Pending("mosfet_pulse")
      BY <1>1 DEF Ran, Pending
    <2>2. /\ ~mosfet.fx.active /\ mosfet.restore = goal.mosfet
          /\ ~Pending("mosfet_fade") /\ ~Pending("mosfet_fx")
      BY <1>6, <2>1 DEF MosfetSettles, PulseReturns
    <2>3. ~Pending("mosfet_fade")' /\ ~Pending("mosfet_fx")'
      BY <1>1, <1>2, <1>3, <2>2 DEF Pending
    <2> QED
      BY <1>2, <1>4, <2>2, <2>3
         DEF MosfetSettles, PulseReturns, FadeArrives, EffectEnds, MosfetRests
  <1> QED
    BY <1>2, <1>5, <1>6 DEF TimedInv

\* A step of a fade, or its end
LEMMA FadeTimer == ASSUME TimedInv, node_hw_mosfet_fade_timer PROVE TimedInv'
  <1>1. /\ Ran("mosfet_fade") /\ UNCHANGED relay
        /\ \E v : /\ mosfet' = [mosfet EXCEPT !.value = v]
                  /\ \/ v = mosfet.target /\ armed' = armed \ {"mosfet_fade"}
                     \/ UNCHANGED armed
    BY DEF node_hw_mosfet_fade_timer
  <1>2. PICK v : /\ mosfet' = [mosfet EXCEPT !.value = v]
                 /\ \/ v = mosfet.target /\ armed' = armed \ {"mosfet_fade"}
                    \/ UNCHANGED armed
    BY <1>1
  <1>3. \A x \in {"relay_fx", "mosfet_pulse", "mosfet_fade", "mosfet_fx"} : x # None
    BY OutputsAssumption
  <1>4. "relay_fx" \in armed' <=> "relay_fx" \in armed
    BY <1>2
  <1>5. /\ goal' = goal /\ raced' = raced /\ RelaySettles'
        /\ \A x : Pending(x)' <=> x \in armed' \/ x = None
    BY <1>1, <1>4, RanFacts
  <1>6. /\ mosfet'.value = v /\ mosfet'.restore = mosfet.restore
        /\ mosfet'.target = mosfet.target
        /\ mosfet'.fx = mosfet.fx /\ DOMAIN mosfet' = DOMAIN mosfet
    BY <1>2 DEF TimedInv, OutputShape
  <1>7. OutputShape'
    BY <1>1, <1>5, <1>6 DEF TimedInv, OutputShape
  <1>8. ASSUME MosfetSettles PROVE MosfetSettles'
    <2>1. Pending("mosfet_fade")
      BY <1>1 DEF Ran, Pending
    <2>2. /\ ~mosfet.fx.active /\ mosfet.target = goal.mosfet
          /\ ~Pending("mosfet_pulse") /\ ~Pending("mosfet_fx")
          /\ "mosfet_fade" \in armed
      BY <1>8, <2>1 DEF MosfetSettles, PulseReturns, FadeArrives
    <2>3. /\ ~Pending("mosfet_pulse")' /\ ~Pending("mosfet_fx")'
          /\ Pending("mosfet_fade")' <=> "mosfet_fade" \in armed'
      BY <1>2, <1>3, <1>5, <2>2 DEF Pending
    <2>4. "mosfet_fade" \notin armed' => v = goal.mosfet
      BY <1>2, <2>2
    <2> QED
      BY <1>5, <1>6, <2>2, <2>3, <2>4
         DEF MosfetSettles, PulseReturns, FadeArrives, EffectEnds, MosfetRests
  <1> QED
    BY <1>5, <1>7, <1>8 DEF TimedInv

\* A step of an effect goes on with it, or ends it with the value it leaves.
GoesOn(m, n) ==
    /\ MosfetShape(n)
    /\ \/ n.fx.active /\ n.fx.final = m.fx.final /\ n.fx.mode = m.fx.mode
       \/ ~n.fx.active /\ n.value = m.fx.final

\* A turn of an effect leaves it going towards the same end.
LEMMA TurnGoesOn ==
    ASSUME NEW m, MosfetShape(m), m.fx.active, NEW on, NEW value
    PROVE  GoesOn(m, Turn(m, on, value)) /\ Turn(m, on, value).fx.active
  BY DEF GoesOn, Turn, MosfetShape, FxShape

\* The last turn reaches that end.
LEMMA OverGoesOn ==
    ASSUME NEW m, MosfetShape(m)
    PROVE  GoesOn(m, Over(m))
  BY DEF GoesOn, Over, MosfetShape, FxShape

\* So does each step of a blink
LEMMA BlinkGoesOn ==
    ASSUME NEW m, MosfetShape(m), m.fx.active
    PROVE  GoesOn(m, BlinkStep(m))
  <1>1. CASE m.fx.on
    BY <1>1, TurnGoesOn DEF BlinkStep
  <1>2. CASE ~m.fx.on /\ Dec(m.fx.left) = 0
    BY <1>2, OverGoesOn DEF BlinkStep
  <1>3. CASE ~m.fx.on /\ Dec(m.fx.left) # 0
    <2> DEFINE u == Turn(m, TRUE, m.fx.level)
               n == [u EXCEPT !.fx.left = Dec(@)]
    <2>1. GoesOn(m, u) /\ u.fx.active
      BY TurnGoesOn
    <2>2. BlinkStep(m) = n
      BY <1>3 DEF BlinkStep
    <2> HIDE DEF u
    <2>3. GoesOn(m, n)
      BY <2>1 DEF GoesOn, MosfetShape, FxShape
    <2> QED
      BY <2>2, <2>3
  <1> QED
    BY <1>1, <1>2, <1>3

\* and each step of breathe.
LEMMA BreatheGoesOn ==
    ASSUME NEW m, MosfetShape(m), m.fx.active, NEW n \in BreatheStep(m)
    PROVE  GoesOn(m, n)
  <1> DEFINE fx == m.fx
  <1>1. CASE ~fx.hold
    <2>1. \/ \E v : n = [m EXCEPT !.value = v]
          \/ \E v : n = [m EXCEPT !.value = v, !.fx.hold = TRUE]
      BY <1>1 DEF BreatheStep
    <2>2. ASSUME NEW v, n = [m EXCEPT !.value = v] PROVE GoesOn(m, n)
      BY <2>2 DEF GoesOn, MosfetShape, FxShape
    <2>3. ASSUME NEW v, n = [m EXCEPT !.value = v, !.fx.hold = TRUE] PROVE GoesOn(m, n)
      BY <2>3 DEF GoesOn, MosfetShape, FxShape
    <2> QED
      BY <2>1, <2>2, <2>3
  <1>2. CASE fx.hold
    <2>1. \/ n = m \/ n = Over(m)
          \/ \E a, b : n = [m EXCEPT !.fx.on = a, !.fx.hold = FALSE, !.fx.left = b]
      BY <1>2 DEF BreatheStep
    <2>2. CASE n = m
      BY <2>2 DEF GoesOn
    <2>3. CASE n = Over(m)
      BY <2>3, OverGoesOn
    <2>4. ASSUME NEW a, NEW b, n = [m EXCEPT !.fx.on = a, !.fx.hold = FALSE, !.fx.left = b]
          PROVE  GoesOn(m, n)
      BY <2>4 DEF GoesOn, MosfetShape, FxShape
    <2> QED
      BY <2>1, <2>2, <2>3, <2>4
  <1> QED
    BY <1>1, <1>2

\* A callback of the effect arms the timer again or has reached the end.
LEMMA EffectTimer == ASSUME TimedInv, node_hw_mosfet_effect_timer PROVE TimedInv'
  <1>1. Ran("mosfet_fx") /\ UNCHANGED relay /\ MosfetShape(mosfet)
    BY DEF node_hw_mosfet_effect_timer, TimedInv, OutputShape, MosfetShape, FxShape
  <1>2. \/ ~mosfet.fx.active /\ UNCHANGED <<mosfet, armed>>
        \/ /\ mosfet.fx.active /\ GoesOn(mosfet, mosfet')
           /\ \/ mosfet'.fx.active /\ armed' = armed \cup {"mosfet_fx"}
              \/ ~mosfet'.fx.active /\ armed' = armed
              \/ mosfet.fx.mode = "breathe" /\ armed' = armed
    <2>1. CASE ~mosfet.fx.active
      BY <2>1 DEF node_hw_mosfet_effect_timer
    <2>2. CASE mosfet.fx.active /\ mosfet' = BlinkStep(mosfet)
               /\ armed' = IF mosfet'.fx.active THEN armed \cup {"mosfet_fx"} ELSE armed
      <3>1. GoesOn(mosfet, mosfet')
        BY <1>1, <2>2, BlinkGoesOn
      <3> QED
        BY <2>2, <3>1
    <2>3. CASE /\ mosfet.fx.active
               /\ mosfet' = Turn(mosfet, ~mosfet.fx.on,
                                 IF mosfet.fx.on THEN 0 ELSE mosfet.fx.level)
               /\ armed' = armed \cup {"mosfet_fx"}
      <3>1. GoesOn(mosfet, mosfet') /\ mosfet'.fx.active
        BY <1>1, <2>3, TurnGoesOn
      <3> QED
        BY <2>3, <3>1
    <2>4. CASE /\ mosfet.fx.active /\ mosfet.fx.mode = "breathe"
               /\ mosfet' \in BreatheStep(mosfet) /\ UNCHANGED armed
      <3>1. GoesOn(mosfet, mosfet')
        BY <1>1, <2>4, BreatheGoesOn
      <3> QED
        BY <2>4, <3>1
    <2> QED
      BY <2>1, <2>2, <2>3, <2>4 DEF node_hw_mosfet_effect_timer
  <1>3. \A x \in {"relay_fx", "mosfet_pulse", "mosfet_fade", "mosfet_fx"} : x # None
    BY OutputsAssumption
  <1>4. \A x \in {"relay_fx", "mosfet_pulse", "mosfet_fade"} : x \in armed' <=> x \in armed
    BY <1>2
  <1>5. /\ goal' = goal /\ raced' = raced /\ RelaySettles'
        /\ \A x : Pending(x)' <=> x \in armed' \/ x = None
    BY <1>1, <1>4, RanFacts
  <1>6. MosfetShape(mosfet')
    BY <1>1, <1>2 DEF GoesOn
  <1>7. OutputShape'
    BY <1>1, <1>5, <1>6 DEF TimedInv, OutputShape, MosfetShape, FxShape
  <1>8. ASSUME MosfetSettles PROVE MosfetSettles'
    <2>1. Pending("mosfet_fx")
      BY <1>1 DEF Ran, Pending
    <2>2. ~Pending("mosfet_pulse") /\ ~Pending("mosfet_fade")
      BY <1>8, <2>1 DEF MosfetSettles, PulseReturns, FadeArrives
    <2>3. ~Pending("mosfet_pulse")' /\ ~Pending("mosfet_fade")'
      BY <1>3, <1>4, <1>5, <2>2 DEF Pending
    <2>4. CASE ~mosfet.fx.active /\ UNCHANGED <<mosfet, armed>>
      BY <1>5, <1>8, <2>2, <2>3, <2>4
         DEF MosfetSettles, PulseReturns, FadeArrives, EffectEnds, MosfetRests
    <2>5. CASE mosfet.fx.active /\ GoesOn(mosfet, mosfet') /\ ~mosfet'.fx.active
      <3>1. mosfet'.value = goal'.mosfet
        BY <1>5, <1>8, <2>5 DEF GoesOn, MosfetSettles, EffectEnds
      <3> QED
        BY <2>3, <2>5, <3>1 DEF MosfetSettles, PulseReturns, FadeArrives, EffectEnds, MosfetRests
    <2>6. CASE mosfet.fx.active /\ GoesOn(mosfet, mosfet') /\ mosfet'.fx.active
      <3>1. /\ mosfet'.fx.final = goal'.mosfet
            /\ mosfet'.fx.mode = mosfet.fx.mode
            /\ mosfet.fx.mode \in {"blink", "broken", "breathe"}
        BY <1>5, <1>8, <2>6 DEF GoesOn, MosfetSettles, EffectEnds
      <3>2. "mosfet_fx" \in armed'
        BY <1>2, <1>8, <2>6 DEF MosfetSettles, EffectEnds
      <3>3. Pending("mosfet_fx")'
        BY <1>5, <3>2
      <3> QED
        BY <2>3, <2>6, <3>1, <3>2, <3>3
           DEF MosfetSettles, PulseReturns, FadeArrives, EffectEnds, MosfetRests
    <2> QED
      BY <1>2, <2>4, <2>5, <2>6
  <1> QED
    BY <1>5, <1>7, <1>8 DEF TimedInv
-----------------------------------------------------------------------------
\* The outputs start at rest.
LEMMA TimedInit == Init => TimedInv
  <1> SUFFICES ASSUME Init PROVE TimedInv
    OBVIOUS
  <1>1. \A x \in {"relay_fx", "mosfet_pulse", "mosfet_fade", "mosfet_fx"} : ~Pending(x)
    BY OutputsAssumption DEF Init, Pending
  <1>2. OutputShape /\ ~mosfet.fx.active
    BY DEF Init, OutputShape, NoFx
  <1> QED
    BY <1>1, <1>2 DEF Init, TimedInv, RelaySettles, MosfetSettles, PulseReturns, FadeArrives,
                      EffectEnds, MosfetRests

\* Every step keeps the invariant of the timed outputs.
LEMMA TimedNext == TimedInv /\ [Next]_vars => TimedInv'
  <1> SUFFICES ASSUME TimedInv, [Next]_vars PROVE TimedInv'
    OBVIOUS
  <1> USE DEF led
  <1>1. CASE command
    BY <1>1, OthersKept DEF command
  <1>2. CASE node_hw_universal_output_set \/ delay
    BY <1>2, OthersKept DEF node_hw_universal_output_set, delay, Done
  <1>3. CASE stop_effect \/ fill_strip_locked \/ activate_effect \/ run_notify
    <2>1. /\ UNCHANGED <<relay, mosfet, armed, callback, raced>>
          /\ \E e : goal' = [goal EXCEPT !.led = e]
      BY <1>3 DEF stop_effect, fill_strip_locked, activate_effect, run_notify, LedOp, Done
    <2>2. /\ DOMAIN goal' = DOMAIN goal /\ goal'.relay = goal.relay
          /\ goal'.mosfet = goal.mosfet
      BY <2>1 DEF TimedInv, OutputShape
    <2> QED
      BY <2>1, <2>2, OthersKept
  <1>4. CASE led_effect_task \/ effect_cancelled \/ draw
    <2>1. UNCHANGED <<relay, mosfet, armed, callback, raced, goal>>
      BY <1>4 DEF led_effect_task, effect_cancelled, draw, Working
    <2> QED
      BY <2>1, OthersKept
  <1>5. CASE UNCHANGED vars
    BY <1>5, OthersKept DEF vars
  <1> QED
    BY <1>1, <1>2, <1>3, <1>4, <1>5, RelaySet, RelayBroken, RelayTimer, MosfetSet, MosfetFade,
       MosfetPulse, MosfetEffects, TimerDue, PulseTimer, FadeTimer, EffectTimer DEF Next

\* node_hw_relay.c, node_hw_mosfet.c: whatever pulses, fades and effects are
\* commanded over each other, an output whose timers are quiet is where its last
\* operation leaves it; the MOSFET unless a callback waited for the lock meanwhile.
THEOREM OutputsComeToRest == Spec => []TimedOutputsSettle
  <1>1. TimedInv => TimedOutputsSettle
    <2> SUFFICES ASSUME TimedInv PROVE TimedOutputsSettle
      OBVIOUS
    <2>1. Idle("relay") => relay.on = goal.relay
      BY DEF TimedInv, OutputShape, RelaySettles, Idle, Pending, TimersOf
    <2>2. "mosfet" \in raced \/ (Idle("mosfet") => mosfet.value = goal.mosfet)
      <3> SUFFICES ASSUME MosfetSettles, Idle("mosfet") PROVE mosfet.value = goal.mosfet
        BY DEF TimedInv
      <3>1. ~Pending("mosfet_pulse") /\ ~Pending("mosfet_fade") /\ ~Pending("mosfet_fx")
        BY DEF Idle, Pending, TimersOf
      <3> QED
        BY <3>1 DEF MosfetSettles, EffectEnds, MosfetRests
    <2> QED
      BY <2>1, <2>2 DEF TimedOutputsSettle
  <1> QED
    BY <1>1, TimedInit, TimedNext, PTL DEF Spec

-----------------------------------------------------------------------------
(* What the effects draw: every effect has a frame *)

\* One cycle of a list of frames has a frame.
LEMMA OneLen ==
    ASSUME NEW S, NEW f \in Seq(S), f # <<>>
    PROVE  Len(One(f)) \in Nat \ {0}
  <1>1. DOMAIN f = 1 .. Len(f) /\ Len(f) \in Nat \ {0}
    OBVIOUS
  <1>2. One(f) \in Seq({ {x} : x \in S })
    BY <1>1 DEF One
  <1> QED
    BY <1>1, <1>2 DEF One

\* The same for the lists written out
LEMMA TupleLen ==
    ASSUME NEW a, NEW b, NEW c
    PROVE  /\ Len(One(<<a>>)) \in Nat \ {0}
           /\ Len(One(<<a, b>>)) \in Nat \ {0}
           /\ Len(One(<<a, b, c>>)) \in Nat \ {0}
  <1>1. /\ <<a>> \in Seq({a, b, c}) /\ <<a>> # <<>>
        /\ <<a, b>> \in Seq({a, b, c}) /\ <<a, b>> # <<>>
        /\ <<a, b, c>> \in Seq({a, b, c}) /\ <<a, b, c>> # <<>>
    OBVIOUS
  <1> QED
    BY <1>1, OneLen

Colours == {"dark", "color", "dim", "background", "second", "mix"}
Frames == [Pixel -> Colours]

\* A function from 1 .. n is a list of n frames.
LEMMA FramesLen ==
    ASSUME NEW n \in Nat \ {0}, NEW f \in [1 .. n -> Frames]
    PROVE  /\ f \in Seq(Frames) /\ f # <<>> /\ Len(f) = n
           /\ Len(One(f)) \in Nat \ {0}
  <1>1. f \in Seq(Frames) /\ Len(f) = n
    OBVIOUS
  <1>2. f # <<>>
    BY <1>1
  <1> QED
    BY <1>1, <1>2, OneLen

\* Lists joined
LEMMA ConcatLen ==
    ASSUME NEW a \in Seq(Frames), NEW b \in Seq(Frames), a # <<>>
    PROVE  Len(One(a \o b)) \in Nat \ {0}
  <1>1. a \o b \in Seq(Frames) /\ a \o b # <<>>
    OBVIOUS
  <1> QED
    BY <1>1, OneLen

\* Pixels lit on a dark strip are a frame
LEMMA Only_Frames == ASSUME NEW lit, NEW c \in Colours PROVE Only(lit, c) \in Frames
  BY DEF Only, Frames, Colours
\* and so is one colour.
LEMMA Fill_Frames == ASSUME NEW c \in Colours PROVE Fill(c) \in Frames
  BY DEF Fill, Frames

\* run_color_wipe draws at least one frame a cycle.
LEMMA WipeLen == Len(run_color_wipe) \in Nat \ {0}
  <1> DEFINE b == [k \in 1..PIXELS |-> [p \in Pixel |-> IF p < k THEN "color" ELSE "dark"]]
  <1>1. PIXELS \in Nat \ {0}
    BY OutputsAssumption
  <1>2. b \in [1 .. PIXELS -> Frames]
    BY DEF Frames, Colours
  <1>3. b \in Seq(Frames)
    BY <1>1, <1>2, FramesLen
  <1>4. <<Fill("dark")>> \in Seq(Frames) /\ <<Fill("dark")>> # <<>>
    BY Fill_Frames DEF Colours
  <1> QED
    BY <1>3, <1>4, ConcatLen DEF run_color_wipe

\* run_scanner does.
LEMMA ScannerLen == Len(run_scanner) \in Nat \ {0}
  <1> DEFINE a == [k \in 1..PIXELS |-> Only({k - 1}, "color")]
             b == [k \in 1..(PIXELS - 1) |-> Only({PIXELS - 1 - k}, "color")]
  <1>1. PIXELS \in Nat \ {0}
    BY OutputsAssumption
  <1>2. a \in [1 .. PIXELS -> Frames] /\ b \in [1 .. (PIXELS - 1) -> Frames]
    BY Only_Frames DEF Colours
  <1>3. PIXELS - 1 \in Nat /\ b \in Seq(Frames)
    BY <1>1, <1>2
  <1>4. a \in Seq(Frames) /\ a # <<>>
    BY <1>1, <1>2, FramesLen
  <1> QED
    BY <1>3, <1>4, ConcatLen DEF run_scanner

\* run_comet, with and without bounce
LEMMA CometLen == ASSUME NEW bounce \in BOOLEAN PROVE Len(run_comet(bounce)) \in Nat \ {0}
  <1> DEFINE path == PIXELS + SIZE
             there == [h \in 1..path |->
                         Only({p \in Pixel : \E t \in 0..(TAIL - 1) : p + t = h - 1}, "mix")]
             back == [h \in 1..path |->
                        Only({p \in Pixel : \E t \in 0..(TAIL - 1) :
                                p + (TAIL - 1) = path - h + t}, "mix")]
  <1>1. path \in Nat \ {0}
    BY OutputsAssumption
  <1>2. there \in [1 .. path -> Frames] /\ back \in [1 .. path -> Frames]
    BY Only_Frames DEF Colours
  <1>3. run_comet(bounce) = One(IF bounce THEN there \o back ELSE there)
    BY DEF run_comet
  <1> HIDE DEF path, there, back
  <1>4. /\ there \in Seq(Frames) /\ back \in Seq(Frames) /\ there # <<>>
        /\ Len(One(there)) \in Nat \ {0}
    BY <1>1, <1>2, FramesLen
  <1>5. Len(One(there \o back)) \in Nat \ {0}
    BY <1>4, ConcatLen
  <1> QED
    BY <1>3, <1>4, <1>5

\* run_chase_common, single and dual
LEMMA ChaseLen == ASSUME NEW dual \in BOOLEAN PROVE Len(run_chase_common(dual)) \in Nat \ {0}
  <1> DEFINE bands == IF dual THEN 3 ELSE 2
             colour(band) == IF band = 0 THEN "color"
                             ELSE IF dual /\ band = 1 THEN "second" ELSE "background"
             f == [o \in 1..(SIZE * bands) |->
                     [p \in Pixel |-> colour(((p + o - 1) \div SIZE) % bands)]]
  <1>1. SIZE * bands \in Nat \ {0}
    <2>1. SIZE \in Nat \ {0}
      BY OutputsAssumption
    <2>2. SIZE * 3 \in Nat \ {0} /\ SIZE * 2 \in Nat \ {0}
      BY <2>1
    <2> QED
      BY <2>2
  <1>2. \A band : colour(band) \in Colours
    BY DEF Colours
  <1>3. run_chase_common(dual) = One(f)
    BY DEF run_chase_common
  <1> HIDE DEF bands, colour
  <1>4. f \in [1 .. (SIZE * bands) -> Frames]
    BY <1>2 DEF Frames
  <1> HIDE DEF f
  <1> QED
    BY <1>1, <1>3, <1>4, FramesLen

\* run_pulse and run_fade_in_out
LEMMA PulseLen == Len(run_pulse) \in Nat \ {0} /\ Len(run_fade_in_out) \in Nat \ {0}
  <1> DEFINE w == triangle_wave_u8
             f == [i \in 1..3 |-> Fill(w[i])]
             g == [i \in 1..3 |-> Fill(IF w[i] = "dark" THEN "dim" ELSE w[i])]
  <1>1. \A i \in 1 .. 3 : w[i] \in Colours
    BY DEF triangle_wave_u8, Colours
  <1>2. f \in [1 .. 3 -> Frames] /\ g \in [1 .. 3 -> Frames]
    BY <1>1, Fill_Frames DEF Colours
  <1>3. run_pulse = One(f) /\ run_fade_in_out = One(g)
    BY DEF run_pulse, run_fade_in_out
  <1> HIDE DEF f, g
  <1> QED
    BY <1>2, <1>3, FramesLen, 3 \in Nat \ {0}

\* run_theater
LEMMA TheaterLen == Len(run_theater) \in Nat \ {0}
  <1> DEFINE f == [k \in 1..3 |-> Only({p \in Pixel : p % 3 = k - 1}, "color")]
  <1>1. f \in [1 .. 3 -> Frames]
    BY Only_Frames DEF Colours
  <1>2. run_theater = One(f)
    BY DEF run_theater
  <1> HIDE DEF f
  <1> QED
    BY <1>1, <1>2, FramesLen, 3 \in Nat \ {0}

\* The effects whose frames do not depend on the length of the strip
LEMMA OtherLens ==
    /\ Len(run_blink) \in Nat \ {0} /\ Len(run_breathe) \in Nat \ {0}
    /\ Len(run_strobe) \in Nat \ {0} /\ Len(run_rainbow) \in Nat \ {0}
    /\ Len(run_rainbow_cycle) \in Nat \ {0} /\ Len(run_running_lights) \in Nat \ {0}
    /\ Len(run_breath_wave) \in Nat \ {0} /\ Len(run_fire_flicker) \in Nat \ {0}
    /\ Len(run_twinkle_common) \in Nat \ {0}
  <1>1. /\ Len(run_blink) \in Nat \ {0} /\ Len(run_breathe) \in Nat \ {0}
        /\ Len(run_strobe) \in Nat \ {0} /\ Len(run_rainbow) \in Nat \ {0}
    BY TupleLen DEF run_blink, run_breathe, run_strobe, run_rainbow
  <1>2. /\ Len(run_rainbow_cycle) \in Nat \ {0} /\ Len(run_running_lights) \in Nat \ {0}
        /\ Len(run_breath_wave) \in Nat \ {0} /\ Len(run_fire_flicker) \in Nat \ {0}
    BY TupleLen DEF run_rainbow_cycle, run_running_lights, run_breath_wave, run_fire_flicker
  <1>3. Len(run_twinkle_common) \in Nat \ {0}
    BY DEF run_twinkle_common
  <1> QED
    BY <1>1, <1>2, <1>3

\* No effect of the worker's switch has an empty cycle.
LEMMA CycleLen ==
    ASSUME NEW e \in DOMAIN EffectFrames
    PROVE  Len(EffectFrames[e]) \in Nat \ {0}
  <1>1. /\ Len(run_comet(TRUE)) \in Nat \ {0} /\ Len(run_comet(FALSE)) \in Nat \ {0}
        /\ Len(run_chase_common(TRUE)) \in Nat \ {0}
        /\ Len(run_chase_common(FALSE)) \in Nat \ {0}
    BY CometLen, ChaseLen
  <1>2. e \in {"blink", "breathe", "rainbow", "rainbow_cycle", "color_wipe", "scanner",
               "theater_chase", "strobe", "pulse", "fade_in_out", "twinkle", "twinkle_random",
               "sparkle", "glitter", "comet", "larson", "bounce", "running_lights",
               "fire_flicker", "chase_dual", "chase_single", "breath_wave"}
    BY DEF EffectFrames
  <1>3. /\ EffectFrames["blink"] = run_blink /\ EffectFrames["breathe"] = run_breathe
        /\ EffectFrames["rainbow"] = run_rainbow
        /\ EffectFrames["rainbow_cycle"] = run_rainbow_cycle
        /\ EffectFrames["color_wipe"] = run_color_wipe /\ EffectFrames["scanner"] = run_scanner
        /\ EffectFrames["theater_chase"] = run_theater /\ EffectFrames["strobe"] = run_strobe
        /\ EffectFrames["pulse"] = run_pulse /\ EffectFrames["fade_in_out"] = run_fade_in_out
    BY DEF EffectFrames
  <1>4. /\ EffectFrames["twinkle"] = run_twinkle_common
        /\ EffectFrames["twinkle_random"] = run_twinkle_common
        /\ EffectFrames["sparkle"] = run_twinkle_common
        /\ EffectFrames["glitter"] = run_twinkle_common
        /\ EffectFrames["comet"] = run_comet(FALSE) /\ EffectFrames["larson"] = run_comet(TRUE)
        /\ EffectFrames["bounce"] = run_comet(TRUE)
    BY DEF EffectFrames
  <1>5. /\ EffectFrames["running_lights"] = run_running_lights
        /\ EffectFrames["fire_flicker"] = run_fire_flicker
        /\ EffectFrames["chase_dual"] = run_chase_common(TRUE)
        /\ EffectFrames["chase_single"] = run_chase_common(FALSE)
        /\ EffectFrames["breath_wave"] = run_breath_wave
    BY DEF EffectFrames
  <1> QED
    BY <1>1, <1>2, <1>3, <1>4, <1>5, OtherLens, WipeLen, ScannerLen, PulseLen, TheaterLen

\* An effect that is to be repeated draws at least one frame.
LEMMA DrawsPositive ==
    ASSUME NEW e \in Effects, NEW n \in Nat \ {0}
    PROVE  Draws(e, n) \in Nat \ {0}
  <1>1. Len(EffectFrames[e]) \in Nat \ {0}
    BY CycleLen, OutputsAssumption
  <1>2. Len(Final(e)) \in Nat
    <2>1. Len(One(<<Fill("background")>>)) \in Nat
      BY TupleLen
    <2>2. Len(<<>>) \in Nat
      OBVIOUS
    <2> QED
      BY <2>1, <2>2 DEF Final
  <1>3. \A a, b \in Nat \ {0}, c \in Nat : a * b + c \in Nat \ {0}
    OBVIOUS
  <1> QED
    BY <1>1, <1>2, <1>3 DEF Draws
-----------------------------------------------------------------------------
(* The commands *)

\* The records of a command: a step of an output
LEMMA StepFacts ==
    ASSUME NEW op \in Ops, NEW v \in Levels \cup {0, 1, MAX_VALUE}
    PROVE  Step(op, v) \in Steps /\ Step(op, v).op = op
  BY DEF Step, Steps

\* and a step of the strip.
LEMMA LedFacts ==
    ASSUME NEW op \in Ops, NEW what \in {None, "dark", "color"}
    PROVE  Led(op, what) \in Steps /\ Led(op, what).op = op
  BY DEF Led, Step, Steps

\* A step that needs no other before or after it.
Alone(x) == x \in Steps /\ x.op \notin {"activate", "stop", "fill"}

\* A command of steps that may stand alone is well-formed.
LEMMA PlainCommand ==
    ASSUME NEW s, s \in Seq(Steps), \A i \in 1 .. Len(s) : Alone(s[i])
    PROVE  Fresh(s)
  BY DEF Fresh, Tidy, Alone

\* Commands of one such step
LEMMA Single == ASSUME NEW x, Alone(x) PROVE Fresh(<<x>>)
  <1>1. <<x>> \in Seq(Steps) /\ Len(<<x>>) = 1 /\ <<x>>[1] = x
    BY DEF Alone
  <1>2. \A i \in 1 .. Len(<<x>>) : Alone(<<x>>[i])
    BY <1>1
  <1> QED
    BY <1>1, <1>2, PlainCommand

\* of two
LEMMA Pair == ASSUME NEW x, NEW y, Alone(x), Alone(y) PROVE Fresh(<<x, y>>)
  <1>1. <<x, y>> \in Seq(Steps) /\ Len(<<x, y>>) = 2 /\ <<x, y>>[1] = x /\ <<x, y>>[2] = y
    BY DEF Alone
  <1> QED
    BY <1>1, PlainCommand

\* and of three.
LEMMA Triple ==
    ASSUME NEW x, NEW y, NEW z, Alone(x), Alone(y), Alone(z)
    PROVE  Fresh(<<x, y, z>>)
  <1> DEFINE s == <<x, y, z>>
  <1>1. s \in Seq(Steps) /\ Len(s) = 3 /\ s[1] = x /\ s[2] = y /\ s[3] = z
    BY DEF Alone
  <1> QED
    BY <1>1, PlainCommand

\* A stop is followed by its fill.
LEMMA StopFill ==
    ASSUME NEW c \in {"dark", "color"}
    PROVE  Fresh(<<Led("stop", None), Led("fill", c)>>)
  <1> DEFINE a == Led("stop", None)
             b == Led("fill", c)
             s == <<a, b>>
  <1>1. a \in Steps /\ a.op = "stop" /\ b \in Steps /\ b.op = "fill"
    BY LedFacts DEF Ops
  <1> HIDE DEF a, b
  <1>2. s \in Seq(Steps) /\ Len(s) = 2 /\ s[1] = a /\ s[2] = b /\ Head(s) = a
    BY <1>1
  <1> HIDE DEF s
  <1>3. Fresh(s)
    BY <1>1, <1>2 DEF Fresh, Tidy
  <1> QED
    BY <1>3 DEF s, a, b

\* An activation is followed by its notification.
LEMMA RunEffect ==
    ASSUME NEW e \in Effects, NEW n \in Counts
    PROVE  Fresh(<<[Led("activate", e) EXCEPT !.count = n], Led("notify", None)>>)
  <1> DEFINE a == [Led("activate", e) EXCEPT !.count = n]
             b == Led("notify", None)
             s == <<a, b>>
  <1>1. a \in Steps /\ a.op = "activate" /\ a.what = e /\ a.count = n
    BY DEF Led, Step, Steps, Ops
  <1>2. b \in Steps /\ b.op = "notify"
    BY LedFacts DEF Ops
  <1> HIDE DEF a, b
  <1>3. s \in Seq(Steps) /\ Len(s) = 2 /\ s[1] = a /\ s[2] = b /\ Head(s) = a
    BY <1>1, <1>2
  <1> HIDE DEF s
  <1>4. Fresh(s)
    BY <1>1, <1>2, <1>3 DEF Fresh, Tidy
  <1> QED
    BY <1>4 DEF s, a, b

\* The steps of two lists joined
LEMMA ConcatFacts ==
    ASSUME NEW q \in Seq(Steps), NEW r \in Seq(Steps)
    PROVE  /\ q \o r \in Seq(Steps) /\ Len(q \o r) = Len(q) + Len(r)
           /\ Len(q) \in Nat /\ Len(r) \in Nat
           /\ \A i \in 1 .. Len(q) : (q \o r)[i] = q[i]
           /\ \A i \in 1 .. Len(r) : (q \o r)[Len(q) + i] = r[i]
  OBVIOUS

\* node_all_off: every output and the strip, one after the other
LEMMA AllOff == Fresh(node_hardware_io_node_all_off)
  <1> DEFINE a == Step("relay", 0)
             b == Step("mosfet", 0)
             c == Step("line", 0)
             d == Led("stop", None)
             e == Led("fill", "dark")
             q == <<a>> \o <<b>>
             r == q \o <<c>>
             t == <<d, e>>
             s == r \o t
  <1>1. /\ a \in Steps /\ a.op = "relay" /\ b \in Steps /\ b.op = "mosfet"
        /\ c \in Steps /\ c.op = "line"
    BY StepFacts DEF Ops
  <1>2. d \in Steps /\ d.op = "stop" /\ e \in Steps /\ e.op = "fill"
    BY LedFacts DEF Ops
  <1>3. node_hardware_io_node_all_off = s
    BY DEF node_hardware_io_node_all_off, node_hw_relay_all_off, node_hw_mosfet_all_off,
           node_hw_universal_output_all_off, node_hw_led_off
  <1> HIDE DEF a, b, c, d, e
  <1>4. /\ <<a>> \in Seq(Steps) /\ Len(<<a>>) = 1 /\ <<a>>[1] = a
        /\ <<b>> \in Seq(Steps) /\ Len(<<b>>) = 1 /\ <<b>>[1] = b
        /\ <<c>> \in Seq(Steps) /\ Len(<<c>>) = 1 /\ <<c>>[1] = c
        /\ t \in Seq(Steps) /\ Len(t) = 2 /\ t[1] = d /\ t[2] = e
    BY <1>1, <1>2
  <1> HIDE DEF t
  <1>5. q \in Seq(Steps) /\ Len(q) = 2 /\ q[1] = a /\ q[1 + 1] = b
    BY <1>4, ConcatFacts
  <1> HIDE DEF q
  <1>6. r \in Seq(Steps) /\ Len(r) = 3 /\ r[1] = a /\ r[2] = b /\ r[2 + 1] = c
    BY <1>4, <1>5, ConcatFacts
  <1> HIDE DEF r
  <1>7. /\ s \in Seq(Steps) /\ Len(s) = 5
        /\ s[1] = a /\ s[2] = b /\ s[3] = c /\ s[3 + 1] = d /\ s[3 + 2] = e
    <2>1. /\ s \in Seq(Steps) /\ Len(s) = Len(r) + Len(t)
          /\ \A i \in 1 .. Len(r) : s[i] = r[i]
          /\ \A i \in 1 .. Len(t) : s[Len(r) + i] = t[i]
      BY <1>4, <1>6, ConcatFacts
    <2> HIDE DEF s
    <2> QED
      BY <1>4, <1>6, <2>1
  <1> HIDE DEF s
  <1>8. Tidy(s)
    <2>1. \A i \in 1 .. 5 : i = 1 \/ i = 2 \/ i = 3 \/ i = 4 \/ i = 5
      OBVIOUS
    <2> QED
      BY <1>1, <1>2, <1>7, <2>1 DEF Tidy
  <1>9. Fresh(s)
    BY <1>1, <1>7, <1>8 DEF Fresh
  <1> QED
    BY <1>3, <1>9

\* The identify command
LEMMA Identify ==
    ASSUME NEW n \in 1 .. 2
    PROVE  Fresh(Times(n, <<Step("relay", 1), Wait, Step("relay", 0)>>))
  <1> DEFINE p == <<Step("relay", 1), Wait, Step("relay", 0)>>
             s == Times(n, p)
  <1>1. Len(p) = 3 /\ \A i \in 1 .. 3 : Alone(p[i])
    BY StepFacts DEF Alone, Wait, Ops
  <1> HIDE DEF p
  <1>2. /\ s = [i \in 1 .. (n * 3) |-> p[((i - 1) % 3) + 1]] /\ n * 3 \in Nat
        /\ \A i \in 1 .. (n * 3) : ((i - 1) % 3) + 1 \in 1 .. 3
    BY <1>1 DEF Times
  <1>3. /\ \A i \in 1 .. (n * 3) : s[i] \in Steps /\ Alone(s[i])
        /\ s = [i \in 1 .. (n * 3) |-> s[i]]
    BY <1>1, <1>2 DEF Alone
  <1> HIDE DEF s
  <1>4. s \in [1 .. (n * 3) -> Steps]
    BY <1>3
  <1>5. s \in Seq(Steps) /\ Len(s) = n * 3
    BY <1>2, <1>4
  <1>6. Fresh(s)
    BY <1>3, <1>5, PlainCommand
  <1> QED
    BY <1>6 DEF s, p

\* Steps that are not of the strip may stand alone.
LEMMA AloneFacts ==
    ASSUME NEW op \in Ops \ {"activate", "stop", "fill"}, NEW v \in Levels \cup {0, 1, MAX_VALUE}
    PROVE  /\ Alone(Step(op, v))
           /\ \A n \in Counts, f \in Levels :
                Alone([Step(op, v) EXCEPT !.count = n, !.final = f])
  BY DEF Alone, Step, Steps, Ops

\* Every command is in order.
LEMMA CommandsFresh == ASSUME NEW c \in Commands PROVE Fresh(c)
  <1> USE DEF Ops
  <1>1. CASE c \in {node_hw_led_off, node_hw_led_solid}
    BY <1>1, StopFill DEF node_hw_led_off, node_hw_led_solid
  <1>2. CASE c = <<Step("relay_broken", 1)>>
    BY <1>2, AloneFacts, Single
  <1>3. CASE c = node_hardware_io_node_all_off
    BY <1>3, AllOff
  <1>4. CASE c \in node_hw_led_run_effect
    BY <1>4, RunEffect DEF node_hw_led_run_effect
  <1>5. CASE c \in node_hardware_io_set_output
    <2>1. \A b \in 0 .. 1 : b \in Levels \cup {0, 1, MAX_VALUE}
      OBVIOUS
    <2>2. \E op \in {"relay", "line", "mosfet"}, v \in Levels \cup {0, 1, MAX_VALUE} :
            c = <<Step(op, v)>>
      BY <1>5, <2>1 DEF node_hardware_io_set_output
    <2> QED
      BY <2>2, AloneFacts, Single
  <1>6. CASE c \in node_hardware_io_pulse_output
    <2>1. /\ Alone(Step("relay", 1)) /\ Alone(Step("relay", 0)) /\ Alone(Wait)
          /\ Alone(Step("line", 1)) /\ Alone(Step("line", 0)) /\ Alone(Step("pulse", MAX_VALUE))
      BY AloneFacts DEF Wait
    <2> QED
      BY <1>6, <2>1, Pair, Triple DEF node_hardware_io_pulse_output
  <1>7. CASE c \in node_hardware_io_identify
    BY <1>7, Identify DEF node_hardware_io_identify
  <1>8. CASE c \in node_hardware_io_mosfet
    <2> DEFINE X(op, v, n, f) == [Step(op, v) EXCEPT !.count = n, !.final = f]
               A == { <<Step(op, v)>> : op \in {"fade", "pulse", "broken"}, v \in Levels }
               B == { <<X("blink", v, n, f)>> :
                        v \in Levels, f \in Levels, n \in Counts }
               C == { <<X("breathe", v, n, f)>> :
                        v \in Levels \ {0}, f \in Levels, n \in Counts }
    <2>1. CASE c \in A
      <3>1. PICK op \in {"fade", "pulse", "broken"}, v \in Levels :
              c = <<Step(op, v)>>
        BY <2>1
      <3>2. Alone(Step(op, v))
        BY AloneFacts
      <3> QED
        BY <3>1, <3>2, Single
    <2>2. CASE c \in B
      <3>1. PICK v \in Levels, f \in Levels, n \in Counts :
              c = <<X("blink", v, n, f)>>
        <4> HIDE DEF X
        <4> QED BY <2>2
      <3>2. Alone(X("blink", v, n, f))
        BY AloneFacts
      <3> QED
        BY <3>1, <3>2, Single
    <2>3. CASE c \in C
      <3>1. PICK v \in Levels \ {0}, f \in Levels, n \in Counts :
              c = <<X("breathe", v, n, f)>>
        <4> HIDE DEF X
        <4> QED BY <2>3
      <3>2. Alone(X("breathe", v, n, f))
        BY AloneFacts
      <3> QED
        BY <3>1, <3>2, Single
    <2>4. node_hardware_io_mosfet = A \cup B \cup C
      BY DEF node_hardware_io_mosfet
    <2> HIDE DEF A, B, C
    <2> QED
      BY <1>8, <2>1, <2>2, <2>3, <2>4
  <1> QED
    BY <1>1, <1>2, <1>3, <1>4, <1>5, <1>6, <1>7, <1>8 DEF Commands

\* A step of a command done, the rest of it is in order.
LEMMA RestTidy ==
    ASSUME Tidy(todo), todo # <<>>
    PROVE  /\ Tidy(Tail(todo)) /\ Head(todo) \in Steps
           /\ Head(todo).op = "activate" =>
                /\ Head(todo).what \in Effects /\ Head(todo).count \in Counts
                /\ Tail(todo) # <<>> /\ Head(Tail(todo)).op = "notify"
           /\ Head(todo).op = "stop" => Tail(todo) # <<>> /\ Head(Tail(todo)).op = "fill"
           /\ Tail(todo) # <<>> /\ Head(Tail(todo)).op = "fill" => Head(todo).op = "stop"
  <1> DEFINE n == Len(todo)
             s == Tail(todo)
  <1>1. /\ n \in Nat \ {0} /\ s \in Seq(Steps) /\ Len(s) = n - 1
        /\ Head(todo) = todo[1] /\ Head(todo) \in Steps
        /\ \A i \in 1 .. n - 1 : s[i] = todo[i + 1]
    BY DEF Tidy
  <1>2. /\ s # <<>> => n > 1 /\ Head(s) = s[1]
        /\ n > 1 => s # <<>> /\ Head(s) = s[1]
    <2> HIDE DEF s
    <2>1. Len(s) \in Nat /\ (s = <<>> <=> Len(s) = 0) /\ (s # <<>> => Head(s) = s[1])
      BY <1>1
    <2> HIDE DEF n
    <2> QED
      BY <1>1, <2>1
  <1> HIDE DEF s
  <1>3. Tidy(s)
    <2> SUFFICES ASSUME NEW i \in 1 .. Len(s)
                 PROVE  /\ s[i].op = "activate" =>
                             /\ s[i].what \in Effects /\ s[i].count \in Counts
                             /\ i < Len(s) /\ s[i + 1].op = "notify"
                        /\ s[i].op = "stop" => i < Len(s) /\ s[i + 1].op = "fill"
                        /\ s[i].op = "fill" /\ i > 1 => s[i - 1].op = "stop"
      BY <1>1 DEF Tidy
    <2>1. /\ i + 1 \in 1 .. n /\ s[i] = todo[i + 1]
          /\ i < Len(s) => s[i + 1] = todo[i + 2] /\ i + 1 < n
          /\ i + 1 < n => i < Len(s)
          /\ i > 1 => s[i - 1] = todo[i]
          /\ (i + 1) + 1 = i + 2 /\ (i + 1) - 1 = i /\ i + 1 > 1
      BY <1>1
    <2>2. /\ todo[i + 1].op = "activate" =>
               /\ todo[i + 1].what \in Effects /\ todo[i + 1].count \in Counts
               /\ i + 1 < n /\ todo[i + 2].op = "notify"
          /\ todo[i + 1].op = "stop" => i + 1 < n /\ todo[i + 2].op = "fill"
          /\ todo[i + 1].op = "fill" => todo[i].op = "stop"
      BY <2>1 DEF Tidy
    <2> QED
      BY <2>1, <2>2
  <1>4. /\ todo[1].op = "activate" => /\ todo[1].what \in Effects /\ todo[1].count \in Counts
                                      /\ n > 1 /\ todo[2].op = "notify"
        /\ todo[1].op = "stop" => n > 1 /\ todo[2].op = "fill"
        /\ n > 1 /\ todo[2].op = "fill" => todo[1].op = "stop"
    <2>1. /\ 1 \in 1 .. n /\ 1 + 1 = 2 /\ (n > 1 <=> 1 < n)
          /\ n > 1 => 2 \in 1 .. n /\ 2 > 1 /\ 2 - 1 = 1
      BY <1>1
    <2> QED
      BY <2>1 DEF Tidy
  <1>5. n > 1 => s[1] = todo[2]
    BY <1>1
  <1> QED
    BY <1>1, <1>2, <1>3, <1>4, <1>5 DEF s

-----------------------------------------------------------------------------
(* The strip: steps that leave it alone, the operations, the worker *)

\* What leaves strip and worker alone keeps the invariant of the strip.
LEMMA LedKept ==
    ASSUME LedInv, UNCHANGED <<strip, worker, notified, stale>>,
           DOMAIN goal' = DOMAIN goal, goal'.led = goal.led,
           DOMAIN budget' = DOMAIN budget, budget'.faults = budget.faults,
           Tidy(todo'), On("notify") => On("notify")', Filling' <=> Filling
    PROVE  LedInv'
  <1>1. LedShape'
    BY DEF LedInv, LedShape, Tidy
  <1>2. OneStaleFrame' /\ LastFrame' /\ InStep'
    BY DEF LedInv, OneStaleFrame, LastFrame, InStep, Cancelled
  <1>3. Attended' /\ StripRests'
    BY DEF LedInv, Attended, StripRests
  <1> QED
    BY <1>1, <1>2, <1>3 DEF LedInv

\* A step of a command for another output.
LEMMA OtherStep ==
    ASSUME LedInv, Done, todo # <<>>, Head(todo).op \notin {"stop", "fill", "activate", "notify"},
           UNCHANGED <<strip, worker, notified, stale>>,
           DOMAIN goal' = DOMAIN goal, goal'.led = goal.led
    PROVE  LedInv'
  <1>1. todo' = Tail(todo) /\ budget' = budget /\ Tidy(todo)
    BY DEF Done, LedInv, LedShape
  <1>2. /\ Tidy(Tail(todo))
        /\ ~(Tail(todo) # <<>> /\ Head(Tail(todo)).op = "fill")
    BY <1>1, RestTidy
  <1>3. Tidy(todo') /\ ~Filling' /\ ~Filling /\ ~On("notify")
    BY <1>1, <1>2 DEF Filling, On
  <1> QED
    BY <1>1, <1>3, LedKept

\* An operation of another output does
LEMMA OperateOther ==
    ASSUME LedInv, NEW o \in {"relay", "mosfet"}, NEW start, NEW value, Operate(o, start, value)
    PROVE  Done /\ DOMAIN goal' = DOMAIN goal /\ goal'.led = goal.led
  BY DEF Operate, LedInv, LedShape

\* also one of the MOSFET.
LEMMA MosfetOther ==
    ASSUME LedInv, NEW op \in Ops \ {"stop", "fill", "activate", "notify"}, NEW start, NEW m,
           NEW end, MosfetOp(op, start, m, end)
    PROVE  LedInv'
  <1>1. Operate("mosfet", start, end) /\ todo # <<>> /\ Head(todo).op = op /\ UNCHANGED led
    BY DEF MosfetOp, On
  <1>2. Done /\ DOMAIN goal' = DOMAIN goal /\ goal'.led = goal.led
    BY <1>1, OperateOther
  <1> QED
    BY <1>1, <1>2, OtherStep DEF led

\* All operations of the other outputs
LEMMA OutputsKeepStrip ==
    ASSUME LedInv,
           \/ node_hw_relay_set \/ node_hw_relay_broken_fluorescent
           \/ node_hw_universal_output_set \/ delay
           \/ node_hw_mosfet_set_value \/ node_hw_mosfet_fade \/ node_hw_mosfet_pulse
           \/ node_hw_mosfet_blink \/ node_hw_mosfet_breathe
           \/ node_hw_mosfet_broken_fluorescent
    PROVE  LedInv'
  <1> USE DEF Ops
  <1>1. CASE node_hw_relay_set \/ node_hw_relay_broken_fluorescent
    <2>1. /\ \E start, value : Operate("relay", start, value)
          /\ todo # <<>> /\ Head(todo).op \in {"relay", "relay_broken"} /\ UNCHANGED led
      BY <1>1 DEF node_hw_relay_set, node_hw_relay_broken_fluorescent, On
    <2>2. Done /\ DOMAIN goal' = DOMAIN goal /\ goal'.led = goal.led
      BY <2>1, OperateOther
    <2> QED
      BY <2>1, <2>2, OtherStep DEF led
  <1>2. CASE node_hw_universal_output_set \/ delay
    BY <1>2, OtherStep DEF node_hw_universal_output_set, delay, On, led
  <1>3. CASE node_hw_mosfet_set_value
    BY <1>3, MosfetOther DEF node_hw_mosfet_set_value
  <1>4. CASE node_hw_mosfet_fade
    BY <1>4, MosfetOther DEF node_hw_mosfet_fade
  <1>5. CASE node_hw_mosfet_pulse
    BY <1>5, MosfetOther DEF node_hw_mosfet_pulse
  <1>6. CASE node_hw_mosfet_blink \/ node_hw_mosfet_breathe \/ node_hw_mosfet_broken_fluorescent
    BY <1>6, MosfetOther DEF node_hw_mosfet_blink, node_hw_mosfet_breathe,
                             node_hw_mosfet_broken_fluorescent, Begin
  <1> QED
    BY <1>1, <1>2, <1>3, <1>4, <1>5, <1>6

\* All timers and their callbacks
LEMMA TimersKeepStrip ==
    ASSUME LedInv,
           \/ timer_due \/ node_hw_relay_effect_timer \/ node_hw_mosfet_pulse_timer
           \/ node_hw_mosfet_fade_timer \/ node_hw_mosfet_effect_timer \/ UNCHANGED vars
    PROVE  LedInv'
  <1>1. UNCHANGED <<led, todo, goal, budget>>
    BY DEF timer_due, node_hw_relay_effect_timer, node_hw_mosfet_pulse_timer,
           node_hw_mosfet_fade_timer, node_hw_mosfet_effect_timer, Ran, vars, led
  <1>2. Tidy(todo') /\ (On("notify") => On("notify")') /\ (Filling' <=> Filling)
    BY <1>1 DEF LedInv, LedShape, On, Filling
  <1> QED
    BY <1>1, <1>2, LedKept DEF led

\* A new command begins when the last has been carried out.
LEMMA CommandKeepsStrip == ASSUME LedInv, command PROVE LedInv'
  <1>1. /\ todo = <<>> /\ todo' \in Commands /\ UNCHANGED <<led, goal>>
        /\ budget' = [budget EXCEPT !.commands = @ - 1]
    BY DEF command
  <1>2. Fresh(todo')
    BY <1>1, CommandsFresh
  <1>3. Tidy(todo') /\ ~On("notify") /\ ~Filling /\ ~Filling'
    BY <1>1, <1>2 DEF Fresh, On, Filling
  <1>4. DOMAIN budget' = DOMAIN budget /\ budget'.faults = budget.faults
    BY <1>1 DEF LedInv, LedShape
  <1> QED
    BY <1>1, <1>3, <1>4, LedKept DEF led

\* What every step of a command to the strip has in common
LEMMA LedOpFacts ==
    ASSUME LedInv, NEW op, NEW s, NEW end, LedOp(op, s, end)
    PROVE  /\ todo # <<>> /\ Head(todo).op = op /\ todo' = Tail(todo) /\ Tidy(todo) /\ Tidy(todo')
           /\ strip' = s /\ worker' = worker /\ budget' = budget
           /\ DOMAIN goal' = DOMAIN goal /\ goal'.led = end
           /\ On(op)
  <1>1. /\ todo # <<>> /\ Head(todo).op = op /\ todo' = Tail(todo) /\ Tidy(todo)
        /\ strip' = s /\ worker' = worker /\ budget' = budget
        /\ goal' = [goal EXCEPT !.led = end] /\ On(op)
    BY DEF LedOp, On, Done, LedInv, LedShape
  <1>2. Tidy(todo')
    BY <1>1, RestTidy
  <1> QED
    BY <1>1, <1>2 DEF LedInv, LedShape

\* stop_effect: the sequence number makes the running effect stale.
LEMMA StopKeeps == ASSUME LedInv, stop_effect PROVE LedInv'
  <1> DEFINE s == [strip EXCEPT !.active = FALSE, !.seq = @ + 1]
  <1>1. LedOp("stop", s, goal.led) /\ stale' = 0 /\ notified' = notified
    BY DEF stop_effect
  <1>2. /\ todo # <<>> /\ Head(todo).op = "stop" /\ todo' = Tail(todo) /\ Tidy(todo)
        /\ Tidy(todo') /\ strip' = s /\ worker' = worker /\ budget' = budget
        /\ DOMAIN goal' = DOMAIN goal /\ goal'.led = goal.led
    BY <1>1, LedOpFacts
  <1>3. Filling'
    BY <1>2, RestTidy DEF Filling, On
  <1>4. /\ DOMAIN strip' = DOMAIN strip /\ ~strip'.active /\ strip'.active \in BOOLEAN
        /\ strip'.seq = strip.seq + 1
    BY <1>2 DEF LedInv, LedShape
  <1>5. LedShape'
    BY <1>1, <1>2, <1>4 DEF LedInv, LedShape
  <1> QED
    BY <1>1, <1>3, <1>4, <1>5
       DEF LedInv, OneStaleFrame, Attended, LastFrame, InStep, StripRests, Cancelled

\* fill_strip_locked draws over what the stale effect left.
LEMMA FillKeeps == ASSUME LedInv, fill_strip_locked PROVE LedInv'
  <1> DEFINE f == Fill(Head(todo).what)
             s == [strip EXCEPT !.show = f]
  <1>1. LedOp("fill", s, {f}) /\ stale' = stale /\ notified' = notified
    BY DEF fill_strip_locked
  <1>2. /\ todo # <<>> /\ Head(todo).op = "fill" /\ todo' = Tail(todo) /\ Tidy(todo)
        /\ Tidy(todo') /\ strip' = s /\ worker' = worker /\ budget' = budget
        /\ DOMAIN goal' = DOMAIN goal /\ goal'.led = {f} /\ Filling
    BY <1>1, LedOpFacts DEF Filling
  <1>3. ~strip.active
    BY <1>2 DEF LedInv, LedShape
  <1>4. /\ DOMAIN strip' = DOMAIN strip /\ ~strip'.active /\ strip'.active \in BOOLEAN
        /\ strip'.seq = strip.seq /\ strip'.show = f
    BY <1>2, <1>3 DEF LedInv, LedShape
  <1>5. LedShape'
    BY <1>1, <1>2, <1>4 DEF LedInv, LedShape
  <1> HIDE DEF f
  <1> QED
    BY <1>1, <1>2, <1>3, <1>4, <1>5
       DEF LedInv, OneStaleFrame, Attended, LastFrame, InStep, StripRests, Cancelled

\* activate_effect: a new number, and the worker is not yet told.
LEMMA ActivateKeeps == ASSUME LedInv, activate_effect PROVE LedInv'
  <1> DEFINE e == Head(todo).what
             n == Head(todo).count
             s == [strip EXCEPT !.active = TRUE, !.seq = @ + 1, !.effect = e, !.count = n]
             end == IF n = 0 THEN {} ELSE Frame(e, n, Draws(e, n) - 1)
  <1>1. LedOp("activate", s, end) /\ stale' = 0 /\ notified' = notified
    BY DEF activate_effect
  <1>2. /\ todo # <<>> /\ Head(todo).op = "activate" /\ todo' = Tail(todo) /\ Tidy(todo)
        /\ Tidy(todo') /\ strip' = s /\ worker' = worker /\ budget' = budget
        /\ DOMAIN goal' = DOMAIN goal /\ goal'.led = end
    BY <1>1, LedOpFacts
  <1>3. e \in Effects /\ n \in Counts /\ On("notify")' /\ ~Filling'
    BY <1>2, RestTidy DEF Filling, On
  <1>4. /\ DOMAIN strip' = DOMAIN strip /\ strip'.active /\ strip'.active \in BOOLEAN
        /\ strip'.seq = strip.seq + 1 /\ strip'.effect = e /\ strip'.count = n
    BY <1>2 DEF LedInv, LedShape
  <1>5. LastFrame'
    BY <1>2, <1>3, <1>4 DEF LastFrame
  <1> HIDE DEF e, n, end
  <1>6. LedShape'
    BY <1>1, <1>2, <1>3, <1>4 DEF LedInv, LedShape
  <1>7. strip'.seq # worker'.seq /\ Cancelled'
    BY <1>2, <1>4 DEF LedInv, LedShape, Cancelled
  <1> QED
    BY <1>1, <1>3, <1>4, <1>5, <1>6, <1>7
       DEF LedInv, OneStaleFrame, Attended, InStep, StripRests

\* The notification: the worker will look.
LEMMA NotifyKeeps == ASSUME LedInv, run_notify PROVE LedInv'
  <1>1. LedOp("notify", strip, goal.led) /\ stale' = stale /\ notified' = TRUE
    BY DEF run_notify
  <1>2. /\ todo # <<>> /\ Head(todo).op = "notify" /\ todo' = Tail(todo) /\ Tidy(todo)
        /\ Tidy(todo') /\ strip' = strip /\ worker' = worker /\ budget' = budget
        /\ DOMAIN goal' = DOMAIN goal /\ goal'.led = goal.led
    BY <1>1, LedOpFacts
  <1>3. ~Filling /\ ~Filling'
    BY <1>2, RestTidy DEF Filling, On
  <1>4. LedShape'
    BY <1>1, <1>2, <1>3 DEF LedInv, LedShape
  <1> QED
    BY <1>1, <1>2, <1>3, <1>4
       DEF LedInv, OneStaleFrame, Attended, LastFrame, InStep, StripRests, Cancelled

\* The worker leaves the commands alone.
LEMMA WorkingFacts ==
    ASSUME LedInv, NEW w, Working(w)
    PROVE  /\ worker' = w /\ goal' = goal /\ todo' = todo /\ Tidy(todo')
           /\ (Filling' <=> Filling) /\ (On("notify")' <=> On("notify"))
  <1>1. worker' = w /\ goal' = goal /\ todo' = todo
    BY DEF Working
  <1> QED
    BY <1>1 DEF LedInv, LedShape, Filling, On

\* The worker at rest
LEMMA RestingFacts ==
    /\ DOMAIN Resting = {"at", "seq", "effect", "count", "k"}
    /\ Resting.at = "idle" /\ Resting.seq = 0 /\ Resting.k = 0
  BY DEF Resting

\* led_effect_task takes the effect that is current.
LEMMA SnapshotKeeps == ASSUME LedInv, led_effect_task PROVE LedInv'
  <1> DEFINE w == [at |-> "check", seq |-> strip.seq, effect |-> strip.effect,
                   count |-> strip.count, k |-> 0]
  <1>1. /\ notified /\ notified' = FALSE /\ Working(w) /\ UNCHANGED <<strip, stale, budget>>
    BY DEF led_effect_task
  <1>2. /\ worker' = w /\ goal' = goal /\ todo' = todo /\ Tidy(todo')
        /\ (Filling' <=> Filling) /\ (On("notify")' <=> On("notify"))
    BY <1>1, WorkingFacts
  <1>3. LedShape'
    <2>1. /\ DOMAIN worker' = {"at", "seq", "effect", "count", "k"} /\ worker'.at = "check"
          /\ worker'.seq = strip.seq /\ worker'.k = 0
      BY <1>2
    <2>2. strip.seq \in Nat /\ strip.seq <= strip.seq
      BY DEF LedInv, LedShape
    <2> QED
      BY <1>1, <1>2, <2>1, <2>2 DEF LedInv, LedShape
  <1> QED
    BY <1>1, <1>2, <1>3
       DEF LedInv, OneStaleFrame, Attended, LastFrame, InStep, StripRests, Cancelled

\* The worker looks: its effect is cancelled, has been drawn to the end, or
\* goes on.
LEMMA LookKeeps == ASSUME LedInv, effect_cancelled PROVE LedInv'
  <1>1. worker.at = "check" /\ UNCHANGED <<notified, stale, budget>>
    BY DEF effect_cancelled
  <1>2. CASE Cancelled /\ Working(Resting) /\ UNCHANGED strip
    <2>1. /\ worker' = Resting /\ goal' = goal /\ todo' = todo /\ Tidy(todo')
          /\ (Filling' <=> Filling) /\ (On("notify")' <=> On("notify"))
      BY <1>2, WorkingFacts
    <2>2. LedShape'
      BY <1>1, <1>2, <2>1, RestingFacts DEF LedInv, LedShape
    <2> QED
      BY <1>1, <1>2, <2>1, <2>2, RestingFacts
         DEF LedInv, OneStaleFrame, Attended, LastFrame, InStep, StripRests, Cancelled
  <1>3. CASE /\ ~Cancelled /\ worker.count > 0
             /\ worker.k = Draws(worker.effect, worker.count)
             /\ Working(Resting) /\ strip' = [strip EXCEPT !.active = FALSE]
    <2>1. /\ worker' = Resting /\ goal' = goal /\ todo' = todo /\ Tidy(todo')
          /\ (Filling' <=> Filling) /\ (On("notify")' <=> On("notify"))
      BY <1>3, WorkingFacts
    <2>2. /\ DOMAIN strip' = DOMAIN strip /\ ~strip'.active /\ strip'.active \in BOOLEAN
          /\ strip'.seq = strip.seq /\ strip'.show = strip.show
      BY <1>3 DEF LedInv, LedShape
    <2>3. LedShape'
      BY <1>1, <2>1, <2>2, RestingFacts DEF LedInv, LedShape
    <2>4. /\ strip.active /\ worker.effect = strip.effect /\ worker.count = strip.count
          /\ strip.effect \in Effects /\ strip.count \in Counts
      BY <1>1, <1>3 DEF LedInv, InStep, LastFrame, Cancelled
    <2>5. worker.count \in Nat \ {0}
      BY <1>3, <2>4, OutputsAssumption
    <2>6. worker.k \in Nat \ {0}
      BY <1>3, <2>4, <2>5, DrawsPositive
    <2>7. strip.show \in Frame(worker.effect, worker.count, worker.k - 1)
      BY <1>1, <1>3, <2>6 DEF LedInv, InStep
    <2>8. goal.led = Frame(strip.effect, strip.count, Draws(strip.effect, strip.count) - 1)
      BY <2>4, <2>5 DEF LedInv, LastFrame
    <2>9. strip'.show \in goal'.led
      BY <1>3, <2>1, <2>2, <2>4, <2>7, <2>8
    <2> QED
      BY <1>1, <2>1, <2>2, <2>3, <2>9, RestingFacts
         DEF LedInv, OneStaleFrame, Attended, LastFrame, InStep, StripRests
  <1>4. CASE ~Cancelled /\ Working([worker EXCEPT !.at = "draw"]) /\ UNCHANGED strip
    <2> DEFINE w == [worker EXCEPT !.at = "draw"]
    <2>1. /\ worker' = w /\ goal' = goal /\ todo' = todo /\ Tidy(todo')
          /\ (Filling' <=> Filling) /\ (On("notify")' <=> On("notify"))
      BY <1>4, WorkingFacts
    <2>2. /\ DOMAIN worker' = DOMAIN worker /\ worker'.at = "draw" /\ worker'.seq = worker.seq
          /\ worker'.k = worker.k /\ worker'.effect = worker.effect
          /\ worker'.count = worker.count
      BY <2>1 DEF LedInv, LedShape
    <2>3. LedShape'
      BY <1>1, <1>4, <2>1, <2>2 DEF LedInv, LedShape
    <2> QED
      BY <1>1, <1>4, <2>1, <2>2, <2>3
         DEF LedInv, OneStaleFrame, Attended, LastFrame, InStep, StripRests, Cancelled
  <1> QED
    BY <1>2, <1>3, <1>4 DEF effect_cancelled

\* A frame is drawn of the effect the worker began with, cancelled or not; a
\* fault ends the effect, if it is still the one commanded.
LEMMA DrawKeeps == ASSUME LedInv, draw PROVE LedInv'
  <1>1. worker.at = "draw" /\ notified' = notified
    BY DEF draw
  <1>2. CASE /\ \E f \in Frame(worker.effect, worker.count, worker.k) :
                  strip' = [strip EXCEPT !.show = f]
             /\ Working([worker EXCEPT !.at = IF worker.count > 0
                                                 /\ worker.k + 1 >= Draws(worker.effect, worker.count)
                                              THEN "check" ELSE delay_effect_ms,
                                       !.k = IF worker.count > 0 THEN @ + 1
                                             ELSE (@ + 1) % Len(EffectFrames[worker.effect])])
             /\ stale' = IF Cancelled THEN stale + 1 ELSE stale
             /\ UNCHANGED budget
    <2>1. PICK f \in Frame(worker.effect, worker.count, worker.k) :
                 strip' = [strip EXCEPT !.show = f]
      BY <1>2
    <2>2. \E k : /\ Working([worker EXCEPT !.at = "check", !.k = k])
                 /\ worker.count > 0 => k = worker.k + 1
                 /\ ~(worker.count > 0) => k = (worker.k + 1) % Len(EffectFrames[worker.effect])
      BY <1>2 DEF delay_effect_ms
    <2>3. PICK k : /\ Working([worker EXCEPT !.at = "check", !.k = k])
                   /\ worker.count > 0 => k = worker.k + 1
                   /\ ~(worker.count > 0) => k = (worker.k + 1) % Len(EffectFrames[worker.effect])
      BY <2>2
    <2> DEFINE w == [worker EXCEPT !.at = "check", !.k = k]
    <2>4. /\ worker' = w /\ goal' = goal /\ todo' = todo /\ Tidy(todo')
          /\ (Filling' <=> Filling) /\ (On("notify")' <=> On("notify"))
      BY <2>3, WorkingFacts
    <2>5. /\ DOMAIN worker' = DOMAIN worker /\ worker'.at = "check" /\ worker'.seq = worker.seq
          /\ worker'.k = k /\ worker'.effect = worker.effect /\ worker'.count = worker.count
      BY <2>4 DEF LedInv, LedShape
    <2>6. /\ DOMAIN strip' = DOMAIN strip /\ strip'.active = strip.active
          /\ strip'.seq = strip.seq /\ strip'.show = f /\ strip'.effect = strip.effect
          /\ strip'.count = strip.count
      BY <2>1 DEF LedInv, LedShape
    <2>7. worker.count > 0 => k \in Nat
      BY <2>3 DEF LedInv, LedShape
    <2>8. LedShape'
      BY <1>1, <1>2, <2>4, <2>5, <2>6, <2>7 DEF LedInv, LedShape
    <2>9. Cancelled' <=> Cancelled
      BY <2>5, <2>6 DEF Cancelled
    <2>10. OneStaleFrame'
      BY <1>1, <1>2, <2>5 DEF LedInv, OneStaleFrame
    <2>11. InStep'
      <3>1. worker.count > 0 => k - 1 = worker.k
        BY <2>3 DEF LedInv, LedShape
      <3>2. worker.count > 0 => strip'.show \in Frame(worker'.effect, worker'.count, worker'.k - 1)
        BY <2>1, <2>5, <2>6, <3>1
      <3> QED
        BY <1>1, <2>5, <2>6, <2>9, <3>2 DEF LedInv, InStep
    <2>12. Attended' /\ LastFrame'
      BY <1>1, <2>4, <2>5, <2>6 DEF LedInv, Attended, LastFrame
    <2>13. StripRests'
      <3>1. CASE Cancelled
        BY <1>2, <3>1 DEF LedInv, OneStaleFrame, StripRests
      <3>2. CASE ~Cancelled
        BY <2>6, <3>2 DEF StripRests, Cancelled
      <3> QED
        BY <3>1, <3>2
    <2> QED
      BY <2>8, <2>10, <2>11, <2>12, <2>13 DEF LedInv
  <1>3. CASE /\ budget.faults > 0 /\ budget' = [budget EXCEPT !.faults = @ - 1]
             /\ Working(Resting)
             /\ strip' = [strip EXCEPT !.active = IF strip.seq = worker.seq THEN FALSE ELSE @]
             /\ UNCHANGED stale
    <2>1. /\ worker' = Resting /\ goal' = goal /\ todo' = todo /\ Tidy(todo')
          /\ (Filling' <=> Filling) /\ (On("notify")' <=> On("notify"))
      BY <1>3, WorkingFacts
    <2>2. /\ DOMAIN strip' = DOMAIN strip /\ strip'.active \in BOOLEAN
          /\ strip'.active => strip.active /\ strip.seq # worker.seq
          /\ strip'.seq = strip.seq /\ strip'.effect = strip.effect
          /\ strip'.count = strip.count
      BY <1>3 DEF LedInv, LedShape
    <2>3. MAX_FAULTS \in Nat
      BY OutputsAssumption
    <2>4. /\ DOMAIN budget' = DOMAIN budget /\ budget'.faults \in 0 .. MAX_FAULTS
          /\ budget'.faults # MAX_FAULTS
      BY <1>3, <2>3 DEF LedInv, LedShape
    <2>5. LedShape'
      BY <1>1, <2>1, <2>2, <2>4, RestingFacts DEF LedInv, LedShape
    <2> QED
      BY <1>1, <1>3, <2>1, <2>2, <2>4, <2>5, RestingFacts
         DEF LedInv, OneStaleFrame, Attended, LastFrame, InStep, StripRests
  <1> QED
    BY <1>2, <1>3 DEF draw
-----------------------------------------------------------------------------
\* The strip starts dark, the worker idle.
LEMMA LedInit == Init => LedInv
  <1> SUFFICES ASSUME Init PROVE LedInv
    OBVIOUS
  <1>1. MAX_FAULTS \in Nat
    BY OutputsAssumption
  <1>2. todo = <<>> /\ Tidy(todo) /\ ~Filling
    BY DEF Init, Tidy, Filling, On
  <1>3. /\ DOMAIN strip = {"show", "active", "seq", "effect", "count"} /\ ~strip.active
        /\ strip.active \in BOOLEAN /\ strip.seq = 0
        /\ DOMAIN goal = {"relay", "mosfet", "led"}
        /\ DOMAIN budget = {"commands", "faults"} /\ budget.faults = MAX_FAULTS
    BY DEF Init
  <1>4. worker = Resting /\ notified = FALSE /\ budget.faults \in 0 .. MAX_FAULTS
    BY <1>1, <1>3 DEF Init
  <1>5. LedShape
    <2>1. /\ DOMAIN worker = {"at", "seq", "effect", "count", "k"} /\ worker.at = "idle"
          /\ worker.seq = 0 /\ worker.k = 0
      BY <1>4, RestingFacts
    <2>2. notified \in BOOLEAN
      BY <1>4
    <2>3. /\ strip.seq \in Nat /\ worker.seq \in Nat /\ worker.seq <= strip.seq
          /\ worker.at \in {"idle", "check", "draw"} /\ (worker.count > 0 => worker.k \in Nat)
      BY <1>3, <2>1
    <2>4. /\ budget.faults \in 0 .. MAX_FAULTS /\ Tidy(todo) /\ (Filling => ~strip.active)
      BY <1>2, <1>4
    <2> QED
      BY <1>3, <2>1, <2>2, <2>3, <2>4 DEF LedShape
  <1> QED
    BY <1>3, <1>5, RestingFacts
       DEF Init, LedInv, OneStaleFrame, Attended, LastFrame, InStep, StripRests

\* Every step keeps the invariant of the strip.
LEMMA LedNext == LedInv /\ [Next]_vars => LedInv'
  BY OutputsKeepStrip, TimersKeepStrip, CommandKeepsStrip, StopKeeps, FillKeeps, ActivateKeeps,
     NotifyKeeps, SnapshotKeeps, LookKeeps, DrawKeeps DEF Next

\* node_hw_led_worker.c: however commands, frames and faults interleave, at most
\* one frame of a cancelled effect is drawn, and with none drawn and no fault a
\* strip at rest shows what its last command asked for: the colour, or the last
\* frame of the effect, whichever of the effects it is and whatever its count.
THEOREM StripStopsInOneFrame == Spec => []LedStopsInOneFrame
  <1>1. LedInv => LedStopsInOneFrame
    <2> SUFFICES ASSUME LedInv PROVE LedStopsInOneFrame
      OBVIOUS
    <2>1. stale <= 1
      BY DEF LedInv, OneStaleFrame
    <2>2. todo = <<>> => ~Filling /\ ~On("notify")
      BY DEF Filling, On
    <2> QED
      BY <2>1, <2>2 DEF LedInv, LedStopsInOneFrame, Attended, StripRests
  <1> QED
    BY <1>1, LedInit, LedNext, PTL DEF Spec
-----------------------------------------------------------------------------
(* The outputs of the controller: the inductive invariant *)

\* A timer of the controller that runs, or whose callback waits for the lock.
HubPending(t) == t \in running \/ waiting = t

FxFields == {"active", "on", "left", "final", "level", "mode", "low", "hold"}
LineFields == {"mode", "enabled", "active", "high", "restore", "fx", "candidate", "age"}
HasFx(x) == DOMAIN x.fx = FxFields /\ x.fx.active \in BOOLEAN

IsRelay(r) == DOMAIN r = {"on", "fx"} /\ HasFx(r)
IsMosfet(m) == DOMAIN m = {"value", "restore", "from", "target", "fx"} /\ HasFx(m)
IsLine(l) == /\ DOMAIN l = LineFields /\ HasFx(l)
             /\ l.mode \in {"disabled", "input", "output"}
             /\ l.enabled = (l.mode # "disabled")

HardwareShape ==
    /\ IsRelay(s_relay) /\ IsMosfet(s_mosfet) /\ IsLine(s_line)
    /\ DOMAIN rest_at = {"relay", "mosfet", "line"}

\* Who brings an output to where it ends: a pulse or a fade alone, an effect fx
\* with its timer, or nobody, and it is there.
Settles(pulse, fade, timer, fx, value, restore, target, end) ==
    /\ pulse => ~fx.active /\ restore = end /\ ~fade /\ ~timer
    /\ fade => ~fx.active /\ target = end /\ ~timer
    /\ fx.active => timer /\ fx.final = end
    /\ ~pulse /\ ~fade /\ ~fx.active => value = end

HubRelaySettles ==
    Settles(HubPending("relay_pulse"), FALSE, HubPending("relay_fx"),
            s_relay.fx, s_relay.on, FALSE, FALSE, rest_at.relay)

\* Fade and breath have timers that run on by themselves.
HubMosfetSettles ==
    /\ Settles(HubPending("mosfet_pulse"), HubPending("mosfet_fade"),
               HubPending("mosfet_fx"), s_mosfet.fx, s_mosfet.value, s_mosfet.restore,
               s_mosfet.target, rest_at.mosfet)
    /\ waiting = "mosfet_fade" => "mosfet_fade" \in running
    /\ s_mosfet.fx.active =>
         /\ s_mosfet.fx.mode \in {"blink", "breathe"}
         /\ s_mosfet.fx.mode = "breathe" => "mosfet_fx" \in running

HubLineSettles ==
    s_line.mode # "input" =>
        /\ Settles(HubPending("io_pulse"), FALSE, HubPending("io_fx"), s_line.fx,
                   s_line.active, s_line.restore, FALSE, rest_at.line)
        /\ HubPending("io_pulse") => s_line.mode = "output"

\* A line that is no output has no timers, not even after a late callback.
LineAtRest ==
    s_line.mode # "output" =>
        ~s_line.fx.active /\ "io_pulse" \notin running /\ "io_fx" \notin running

HardwareInv ==
    /\ HardwareShape /\ LineAtRest
    /\ "relay" \in overtaken \/ HubRelaySettles
    /\ "mosfet" \in overtaken \/ HubMosfetSettles
    /\ "line" \in overtaken \/ HubLineSettles
-----------------------------------------------------------------------------
(* What a step leaves alone *)

\* The timers, the callback and the promise of output o stay as they are.
HubUntouched(o) ==
    /\ \A t \in HubTimers[o] : (t \in running' <=> t \in running) /\ (waiting' = t <=> waiting = t)
    /\ rest_at'[o] = rest_at[o] /\ (o \in overtaken' <=> o \in overtaken)

\* A step that does not touch the relay keeps its part of the invariant.
LEMMA HubRelayKept ==
    ASSUME HardwareInv, s_relay' = s_relay, HubUntouched("relay")
    PROVE  "relay" \in overtaken' \/ HubRelaySettles'
  BY DEF HardwareInv, HubUntouched, HubRelaySettles, HubPending, HubTimers, Settles

\* A step that does not touch the MOSFET keeps its part.
LEMMA HubMosfetKept ==
    ASSUME HardwareInv, s_mosfet' = s_mosfet, HubUntouched("mosfet")
    PROVE  "mosfet" \in overtaken' \/ HubMosfetSettles'
  <1> SUFFICES ASSUME "mosfet" \notin overtaken' PROVE HubMosfetSettles'
    OBVIOUS
  <1>1. /\ \A t \in {"mosfet_pulse", "mosfet_fade", "mosfet_fx"} :
             /\ HubPending(t)' <=> HubPending(t)
             /\ t \in running' <=> t \in running
             /\ waiting' = t <=> waiting = t
        /\ rest_at'.mosfet = rest_at.mosfet /\ HubMosfetSettles
    BY DEF HardwareInv, HubUntouched, HubTimers, HubPending
  <1> QED
    BY <1>1 DEF HubMosfetSettles, Settles

\* A step that does not touch the line keeps its parts.
LEMMA HubLineKept ==
    ASSUME HardwareInv, s_line' = s_line, HubUntouched("line")
    PROVE  ("line" \in overtaken' \/ HubLineSettles') /\ LineAtRest'
  <1>1. LineAtRest'
    BY DEF HardwareInv, HubUntouched, HubTimers, LineAtRest
  <1>2. "line" \in overtaken' \/ HubLineSettles'
    <2> SUFFICES ASSUME "line" \notin overtaken' PROVE HubLineSettles'
      OBVIOUS
    <2>1. /\ \A t \in {"io_pulse", "io_fx"} : HubPending(t)' <=> HubPending(t)
          /\ rest_at'.line = rest_at.line /\ HubLineSettles
      BY DEF HardwareInv, HubUntouched, HubTimers, HubPending
    <2> QED
      BY <2>1 DEF HubLineSettles, Settles
  <1> QED
    BY <1>1, <1>2

\* An operation on o runs with no timer of o but the one it starts, and a
\* callback of o that waits marks the output.
LEMMA OperationFacts ==
    ASSUME HardwareInv, NEW o \in {"relay", "mosfet", "line"},
           NEW start \in HubTimers[o] \cup {NoTimer}, NEW value, Operation(o, start, value)
    PROVE  /\ rest_at'[o] = value /\ DOMAIN rest_at' = {"relay", "mosfet", "line"}
           /\ \A t \in HubTimers[o] : t \in running' <=> t = start
           /\ o \in overtaken' \/ \A t \in HubTimers[o] :
                                     (HubPending(t)' <=> t = start) /\ waiting' # t
           /\ \A p \in {"relay", "mosfet", "line"} : p # o => HubUntouched(p)
  <1>1. /\ waiting' = waiting /\ rest_at' = [rest_at EXCEPT ![o] = value]
        /\ DOMAIN rest_at = {"relay", "mosfet", "line"}
    BY DEF Operation, HardwareInv, HardwareShape
  <1>2. \A t \in HubTimers[o] : t # NoTimer
    BY HardwareAssumption DEF HubTimers
  <1>3. \A t \in HubTimers[o] : t \in running' <=> t = start
    BY <1>2 DEF Operation
  <1>4. o \in overtaken' \/ waiting \notin HubTimers[o]
    BY DEF Operation
  <1>5. ASSUME NEW p \in {"relay", "mosfet", "line"}, p # o PROVE HubUntouched(p)
    <2>1. HubTimers[p] \cap HubTimers[o] = {}
      BY <1>5 DEF HubTimers
    <2>2. \A t \in HubTimers[p] : t # start
      BY <2>1, <1>2, HardwareAssumption, <1>5 DEF HubTimers
    <2>3. \A t \in HubTimers[p] : t \in running' <=> t \in running
      BY <2>1, <2>2 DEF Operation
    <2>4. p \in overtaken' <=> p \in overtaken
      BY <1>5 DEF Operation
    <2> QED
      BY <1>1, <1>5, <2>3, <2>4 DEF HubUntouched
  <1> QED
    BY <1>1, <1>3, <1>4, <1>5 DEF HubPending

\* An output without an effect, and one with a new one.
LEMMA NoEffectFacts == DOMAIN NoEffect = FxFields /\ NoEffect.active = FALSE
  BY DEF NoEffect, FxFields
-----------------------------------------------------------------------------
(* The relay *)

\* What an operation leaves behind: one timer that will end at the value
\* promised, or none and the value.
LEMMA OnRelayKeeps ==
    ASSUME HardwareInv, NEW start \in {"relay_pulse", "relay_fx", NoTimer},
           NEW on, NEW fx, NEW end, OnRelay(start, on, fx, end),
           DOMAIN fx = FxFields, fx.active \in BOOLEAN,
           fx.active <=> start = "relay_fx", fx.active => fx.final = end,
           start = "relay_pulse" => end = FALSE,
           start = NoTimer => on = end
    PROVE  HardwareInv'
  <1>1. /\ Operation("relay", start, end) /\ s_relay' = [on |-> on, fx |-> fx]
        /\ s_mosfet' = s_mosfet /\ s_line' = s_line
    BY DEF OnRelay, ios
  <1>2. start \in HubTimers["relay"] \cup {NoTimer}
    BY DEF HubTimers
  <1>3. /\ rest_at'.relay = end /\ DOMAIN rest_at' = {"relay", "mosfet", "line"}
        /\ \/ "relay" \in overtaken'
           \/ \A t \in {"relay_pulse", "relay_fx"} : HubPending(t)' <=> t = start
        /\ HubUntouched("mosfet") /\ HubUntouched("line")
    BY <1>1, <1>2, OperationFacts, "relay" \in {"relay", "mosfet", "line"} DEF HubTimers
  <1>4. HardwareShape'
    BY <1>1, <1>3 DEF HardwareInv, HardwareShape, IsRelay, IsMosfet, IsLine, HasFx
  <1>5. "relay" \in overtaken' \/ HubRelaySettles'
    <2> SUFFICES ASSUME "relay" \notin overtaken' PROVE HubRelaySettles'
      OBVIOUS
    <2>1. /\ HubPending("relay_pulse")' <=> start = "relay_pulse"
          /\ HubPending("relay_fx")' <=> start = "relay_fx"
      BY <1>3
    <2>2. s_relay'.fx = fx /\ s_relay'.on = on
      BY <1>1
    <2> QED
      BY <1>3, <2>1, <2>2 DEF HubRelaySettles, Settles
  <1> QED
    BY <1>1, <1>3, <1>4, <1>5, HubMosfetKept, HubLineKept DEF HardwareInv

\* The four operations of the relay.
LEMMA RelayOperations ==
    ASSUME HardwareInv,
           \/ hardware_io_relay_set \/ hardware_io_relay_toggle
           \/ hardware_io_relay_pulse \/ hardware_io_relay_blink
    PROVE  HardwareInv'
  <1>0. NoTimer \notin {"relay_pulse", "relay_fx"}
    BY HardwareAssumption
  <1>1. ASSUME NEW on, OnRelay(NoTimer, on, NoEffect, on) PROVE HardwareInv'
    BY <1>0, <1>1, NoEffectFacts, OnRelayKeeps
  <1>2. ASSUME OnRelay("relay_pulse", TRUE, NoEffect, FALSE) PROVE HardwareInv'
    BY <1>0, <1>2, NoEffectFacts, OnRelayKeeps
  <1>3. ASSUME NEW n, NEW final, OnRelay("relay_fx", TRUE, Blink(TRUE, n, final), final)
        PROVE  HardwareInv'
    <2>1. PICK fx : fx = Blink(TRUE, n, final)
      OBVIOUS
    <2>2. DOMAIN fx = FxFields /\ fx.active = TRUE /\ fx.final = final
      BY <2>1 DEF Blink, NewEffect, FxFields
    <2>3. OnRelay("relay_fx", TRUE, fx, final)
      BY <1>3, <2>1
    <2> QED
      BY <1>0, <2>2, <2>3, OnRelayKeeps
  <1>4. CASE hardware_io_relay_set
    BY <1>4, <1>1 DEF hardware_io_relay_set
  <1>5. CASE hardware_io_relay_toggle
    BY <1>5, <1>1 DEF hardware_io_relay_toggle
  <1>6. CASE hardware_io_relay_pulse
    BY <1>6, <1>1, <1>2 DEF hardware_io_relay_pulse
  <1>7. CASE hardware_io_relay_blink
    BY <1>7, <1>1, <1>3 DEF hardware_io_relay_blink
  <1> QED
    BY <1>4, <1>5, <1>6, <1>7
-----------------------------------------------------------------------------
(* The MOSFET *)

\* What an operation of the MOSFET leaves behind.
LEMMA OnMosfetKeeps ==
    ASSUME HardwareInv,
           NEW start \in {"mosfet_pulse", "mosfet_fade", "mosfet_fx", NoTimer},
           NEW m, NEW end, OnMosfet(start, m, end), IsMosfet(m),
           m.fx.active <=> start = "mosfet_fx",
           m.fx.active => m.fx.final = end /\ m.fx.mode \in {"blink", "breathe"},
           start = "mosfet_pulse" => m.restore = end,
           start = "mosfet_fade" => m.target = end,
           start = NoTimer => m.value = end
    PROVE  HardwareInv'
  <1>1. /\ Operation("mosfet", start, end) /\ s_mosfet' = m
        /\ s_relay' = s_relay /\ s_line' = s_line
    BY DEF OnMosfet, ios
  <1>2. start \in HubTimers["mosfet"] \cup {NoTimer}
    BY DEF HubTimers
  <1>3. /\ rest_at'.mosfet = end /\ DOMAIN rest_at' = {"relay", "mosfet", "line"}
        /\ \A t \in {"mosfet_pulse", "mosfet_fade", "mosfet_fx"} : t \in running' <=> t = start
        /\ \/ "mosfet" \in overtaken'
           \/ \A t \in {"mosfet_pulse", "mosfet_fade", "mosfet_fx"} :
                (HubPending(t)' <=> t = start) /\ waiting' # t
        /\ HubUntouched("relay") /\ HubUntouched("line")
    BY <1>1, <1>2, OperationFacts, "mosfet" \in {"relay", "mosfet", "line"} DEF HubTimers
  <1>4. HardwareShape'
    BY <1>1, <1>3 DEF HardwareInv, HardwareShape, IsRelay, IsMosfet, IsLine, HasFx
  <1>5. "mosfet" \in overtaken' \/ HubMosfetSettles'
    <2> SUFFICES ASSUME "mosfet" \notin overtaken' PROVE HubMosfetSettles'
      OBVIOUS
    <2>1. /\ HubPending("mosfet_pulse")' <=> start = "mosfet_pulse"
          /\ HubPending("mosfet_fade")' <=> start = "mosfet_fade"
          /\ HubPending("mosfet_fx")' <=> start = "mosfet_fx"
          /\ waiting' # "mosfet_fade"
          /\ start = "mosfet_fx" => "mosfet_fx" \in running'
      BY <1>3
    <2> QED
      BY <1>1, <1>3, <2>1 DEF HubMosfetSettles, Settles
  <1> QED
    BY <1>1, <1>3, <1>4, <1>5, HubRelayKept, HubLineKept DEF HardwareInv

\* Without an effect: the MOSFET is set, or a pulse or a fade begins.
LEMMA MosfetPlain ==
    ASSUME HardwareInv,
           NEW start \in {"mosfet_pulse", "mosfet_fade", NoTimer}, NEW m, NEW end,
           OnMosfet(start, m, end), DOMAIN m = DOMAIN s_mosfet, m.fx = NoEffect,
           start = "mosfet_pulse" => m.restore = end,
           start = "mosfet_fade" => m.target = end,
           start = NoTimer => m.value = end
    PROVE  HardwareInv'
  <1>1. NoTimer \notin {"mosfet_pulse", "mosfet_fade", "mosfet_fx"}
    BY HardwareAssumption
  <1>2. IsMosfet(m) /\ m.fx.active = FALSE
    BY NoEffectFacts DEF HardwareInv, HardwareShape, IsMosfet, HasFx
  <1> QED
    BY <1>1, <1>2, OnMosfetKeeps

\* With an effect.
LEMMA MosfetEffect ==
    ASSUME HardwareInv, NEW v, NEW fx, NEW end,
           OnMosfet("mosfet_fx", [s_mosfet EXCEPT !.value = v, !.fx = fx], end),
           DOMAIN fx = FxFields, fx.active = TRUE, fx.final = end,
           fx.mode \in {"blink", "breathe"}
    PROVE  HardwareInv'
  <1>1. PICK m : m = [s_mosfet EXCEPT !.value = v, !.fx = fx]
    OBVIOUS
  <1>2. DOMAIN m = DOMAIN s_mosfet /\ m.fx = fx
    BY <1>1 DEF HardwareInv, HardwareShape, IsMosfet
  <1>3. IsMosfet(m) /\ m.fx.active = TRUE
    BY <1>2 DEF HardwareInv, HardwareShape, IsMosfet, HasFx
  <1>4. OnMosfet("mosfet_fx", m, end)
    BY <1>1
  <1>5. NoTimer # "mosfet_fx"
    BY HardwareAssumption
  <1> QED
    BY <1>2, <1>3, <1>4, <1>5, OnMosfetKeeps

\* The operations of the MOSFET.
LEMMA MosfetOperations ==
    ASSUME HardwareInv,
           \/ hardware_io_mosfet_set \/ hardware_io_mosfet_fade \/ hardware_io_mosfet_pulse
           \/ hardware_io_mosfet_effect_blink \/ hardware_io_mosfet_effect_breathe
           \/ hardware_io_mosfet_all_off
    PROVE  HardwareInv'
  <1>0. /\ DOMAIN s_mosfet = {"value", "restore", "from", "target", "fx"}
        /\ NoTimer \notin {"mosfet_pulse", "mosfet_fade", "mosfet_fx"}
    BY HardwareAssumption DEF HardwareInv, HardwareShape, IsMosfet
  <1>1. ASSUME NEW v, OnMosfet(NoTimer, [s_mosfet EXCEPT !.value = v, !.fx = NoEffect], v)
        PROVE  HardwareInv'
    <2>1. PICK m : m = [s_mosfet EXCEPT !.value = v, !.fx = NoEffect]
      OBVIOUS
    <2>2. DOMAIN m = DOMAIN s_mosfet /\ m.fx = NoEffect /\ m.value = v
      BY <1>0, <2>1
    <2>3. OnMosfet(NoTimer, m, v)
      BY <1>1, <2>1
    <2> QED
      BY <1>0, <2>2, <2>3, MosfetPlain
  <1>2. CASE hardware_io_mosfet_set
    BY <1>1, <1>2 DEF hardware_io_mosfet_set
  <1>3. CASE hardware_io_mosfet_all_off
    BY <1>1, <1>3 DEF hardware_io_mosfet_all_off
  <1>4. CASE hardware_io_mosfet_fade
    <2>1. PICK v, m : /\ m = [s_mosfet EXCEPT !.from = s_mosfet.value, !.target = v,
                                              !.fx = NoEffect]
                      /\ OnMosfet("mosfet_fade", m, v)
      BY <1>4 DEF hardware_io_mosfet_fade
    <2>2. DOMAIN m = DOMAIN s_mosfet /\ m.fx = NoEffect /\ m.target = v
      BY <1>0, <2>1
    <2> QED
      BY <1>0, <2>1, <2>2, MosfetPlain
  <1>5. CASE hardware_io_mosfet_pulse
    <2>1. ASSUME NEW v, OnMosfet("mosfet_pulse",
                  [s_mosfet EXCEPT !.restore = s_mosfet.value, !.value = v, !.fx = NoEffect],
                  s_mosfet.value)
          PROVE  HardwareInv'
      <3>1. PICK m : m = [s_mosfet EXCEPT !.restore = s_mosfet.value, !.value = v,
                                          !.fx = NoEffect]
        OBVIOUS
      <3>2. DOMAIN m = DOMAIN s_mosfet /\ m.fx = NoEffect /\ m.restore = s_mosfet.value
        BY <1>0, <3>1
      <3>3. OnMosfet("mosfet_pulse", m, s_mosfet.value)
        BY <2>1, <3>1
      <3> QED
        BY <1>0, <3>2, <3>3, MosfetPlain
    <2>2. ASSUME OnMosfet(NoTimer,
                  [s_mosfet EXCEPT !.restore = s_mosfet.value, !.fx = NoEffect],
                  s_mosfet.value)
          PROVE  HardwareInv'
      <3>1. PICK m : m = [s_mosfet EXCEPT !.restore = s_mosfet.value, !.fx = NoEffect]
        OBVIOUS
      <3>2. DOMAIN m = DOMAIN s_mosfet /\ m.fx = NoEffect /\ m.value = s_mosfet.value
        BY <1>0, <3>1
      <3>3. OnMosfet(NoTimer, m, s_mosfet.value)
        BY <2>2, <3>1
      <3> QED
        BY <1>0, <3>2, <3>3, MosfetPlain
    <2> QED
      BY <1>5, <2>1, <2>2 DEF hardware_io_mosfet_pulse
  <1>6. CASE hardware_io_mosfet_effect_blink
    <2>1. ASSUME NEW v, NEW n, NEW final,
                 OnMosfet("mosfet_fx", [s_mosfet EXCEPT !.value = v, !.fx = Blink(v, n, final)],
                          final)
          PROVE  HardwareInv'
      <3>1. PICK fx : fx = Blink(v, n, final)
        OBVIOUS
      <3>2. OnMosfet("mosfet_fx", [s_mosfet EXCEPT !.value = v, !.fx = fx], final)
        BY <2>1, <3>1
      <3>3. DOMAIN fx = FxFields /\ fx.active = TRUE /\ fx.final = final /\ fx.mode = "blink"
        BY <3>1 DEF Blink, NewEffect, FxFields
      <3> QED
        BY <3>2, <3>3, MosfetEffect
    <2> QED
      BY <1>1, <1>6, <2>1 DEF hardware_io_mosfet_effect_blink
  <1>7. CASE hardware_io_mosfet_effect_breathe
    <2>1. ASSUME NEW low, NEW high, NEW n, NEW final,
                 OnMosfet("mosfet_fx",
                          [s_mosfet EXCEPT !.value = low, !.fx = Breathe(low, high, n, final)],
                          final)
          PROVE  HardwareInv'
      <3>1. PICK fx : fx = Breathe(low, high, n, final)
        OBVIOUS
      <3>2. OnMosfet("mosfet_fx", [s_mosfet EXCEPT !.value = low, !.fx = fx], final)
        BY <2>1, <3>1
      <3>3. DOMAIN fx = FxFields /\ fx.active = TRUE /\ fx.final = final /\ fx.mode = "breathe"
        BY <3>1 DEF Breathe, NewEffect, FxFields
      <3> QED
        BY <3>2, <3>3, MosfetEffect
    <2> QED
      BY <1>1, <1>7, <2>1 DEF hardware_io_mosfet_effect_breathe
  <1> QED
    BY <1>2, <1>3, <1>4, <1>5, <1>6, <1>7
-----------------------------------------------------------------------------
(* The line *)

\* What a write leaves alone.
LEMMA WrittenFacts ==
    ASSUME NEW l, IsLine(l), NEW a, NEW k, k = Written(l, a)
    PROVE  /\ IsLine(k) /\ k.fx = l.fx /\ k.mode = l.mode /\ k.restore = l.restore
           /\ l.mode = "output" => k.active = a
           /\ l.mode # "output" => k = l
  <1>1. CASE l.enabled /\ l.mode = "output"
    BY <1>1 DEF Written, IsLine, HasFx, LineFields
  <1>2. CASE ~(l.enabled /\ l.mode = "output")
    BY <1>2 DEF Written, IsLine
  <1> QED
    BY <1>1, <1>2

\* A line whose effect was stopped.
LEMMA StillFacts ==
    ASSUME HardwareInv, NEW l, l = Still(s_line)
    PROVE  /\ IsLine(l) /\ l.fx.active = FALSE /\ l.mode = s_line.mode
           /\ l.active = s_line.active /\ l.fx = NoEffect
  <1>1. IsLine(s_line)
    BY DEF HardwareInv, HardwareShape
  <1>2. /\ DOMAIN l = LineFields /\ l.fx = NoEffect /\ l.mode = s_line.mode
        /\ l.active = s_line.active /\ l.enabled = s_line.enabled
    BY <1>1 DEF Still, IsLine, LineFields
  <1> QED
    BY <1>1, <1>2, NoEffectFacts DEF IsLine, HasFx

\* What an operation of the line leaves behind.
LEMMA OnLineKeeps ==
    ASSUME HardwareInv, NEW start \in {"io_pulse", "io_fx", NoTimer},
           NEW l, NEW end, OnLine(start, l, end), IsLine(l),
           start # NoTimer => l.mode = "output",
           l.fx.active <=> start = "io_fx", l.fx.active => l.fx.final = end,
           start = "io_pulse" => l.restore = end,
           start = NoTimer => l.active = end
    PROVE  HardwareInv'
  <1>1. /\ Operation("line", start, end) /\ s_line' = l
        /\ s_relay' = s_relay /\ s_mosfet' = s_mosfet
    BY DEF OnLine
  <1>2. start \in HubTimers["line"] \cup {NoTimer}
    BY DEF HubTimers
  <1>3. /\ rest_at'.line = end /\ DOMAIN rest_at' = {"relay", "mosfet", "line"}
        /\ \A t \in {"io_pulse", "io_fx"} : t \in running' <=> t = start
        /\ \/ "line" \in overtaken'
           \/ \A t \in {"io_pulse", "io_fx"} : HubPending(t)' <=> t = start
        /\ HubUntouched("relay") /\ HubUntouched("mosfet")
    BY <1>1, <1>2, OperationFacts, "line" \in {"relay", "mosfet", "line"} DEF HubTimers
  <1>4. HardwareShape'
    BY <1>1, <1>3 DEF HardwareInv, HardwareShape, IsRelay, IsMosfet, IsLine, HasFx
  <1>5. NoTimer \notin {"io_pulse", "io_fx"}
    BY HardwareAssumption
  <1>6. LineAtRest'
    BY <1>1, <1>3, <1>5 DEF LineAtRest
  <1>7. "line" \in overtaken' \/ HubLineSettles'
    <2> SUFFICES ASSUME "line" \notin overtaken' PROVE HubLineSettles'
      OBVIOUS
    <2>1. /\ HubPending("io_pulse")' <=> start = "io_pulse"
          /\ HubPending("io_fx")' <=> start = "io_fx"
      BY <1>3
    <2> QED
      BY <1>1, <1>3, <1>5, <2>1 DEF HubLineSettles, Settles
  <1> QED
    BY <1>1, <1>3, <1>4, <1>6, <1>7, HubRelayKept, HubMosfetKept DEF HardwareInv

\* set, toggle, pulse and blink of the line.
LEMMA LineOperations ==
    ASSUME HardwareInv,
           \/ hardware_io_io_set \/ hardware_io_io_toggle
           \/ hardware_io_io_pulse \/ hardware_io_io_blink
    PROVE  HardwareInv'
  <1>0. /\ IsLine(s_line) /\ (IsOutput <=> s_line.mode = "output")
        /\ NoTimer \notin {"io_pulse", "io_fx"}
    BY HardwareAssumption DEF HardwareInv, HardwareShape, IsLine, IsOutput
  <1>1. ASSUME NEW a, NEW end, IsOutput => end = a, ~IsOutput => end = s_line.active,
               OnLine(NoTimer, Written(Still(s_line), a), end)
        PROVE  HardwareInv'
    <2>1. PICK l, k : l = Still(s_line) /\ k = Written(l, a)
      OBVIOUS
    <2>2. /\ IsLine(l) /\ l.fx.active = FALSE /\ l.mode = s_line.mode
          /\ l.active = s_line.active
      BY <2>1, StillFacts
    <2>3. IsLine(k) /\ k.fx.active = FALSE /\ k.active = end
      BY <1>0, <1>1, <2>1, <2>2, WrittenFacts
    <2>4. OnLine(NoTimer, k, end)
      BY <1>1, <2>1
    <2> QED
      BY <1>0, <2>3, <2>4, OnLineKeeps
  <1>2. CASE hardware_io_io_set
    <2>1. PICK a \in BOOLEAN :
            OnLine(NoTimer, Written(Still(s_line), a), IF IsOutput THEN a ELSE s_line.active)
      BY <1>2 DEF hardware_io_io_set
    <2> QED
      BY <1>1, <2>1
  <1>3. CASE hardware_io_io_toggle
    BY <1>1, <1>3 DEF hardware_io_io_toggle
  <1>4. CASE hardware_io_io_pulse
    <2>1. ASSUME NEW a, IsOutput,
                 OnLine("io_pulse", [Written(Still(s_line), a) EXCEPT !.restore = s_line.active],
                        s_line.active)
          PROVE  HardwareInv'
      <3>1. PICK l, k, m : /\ l = Still(s_line) /\ k = Written(l, a)
                           /\ m = [k EXCEPT !.restore = s_line.active]
        OBVIOUS
      <3>2. IsLine(l) /\ l.fx.active = FALSE /\ l.mode = "output"
        BY <1>0, <2>1, <3>1, StillFacts
      <3>3. IsLine(k) /\ k.fx.active = FALSE /\ k.mode = "output"
        BY <3>1, <3>2, WrittenFacts
      <3>4. /\ IsLine(m) /\ m.fx.active = FALSE /\ m.mode = "output"
            /\ m.restore = s_line.active
        BY <3>1, <3>3 DEF IsLine, HasFx, LineFields
      <3>5. OnLine("io_pulse", m, s_line.active)
        BY <2>1, <3>1
      <3> QED
        BY <1>0, <3>4, <3>5, OnLineKeeps
    <2>2. ASSUME OnLine(NoTimer, [Still(s_line) EXCEPT !.restore = s_line.active], s_line.active)
          PROVE  HardwareInv'
      <3>1. PICK l, m : l = Still(s_line) /\ m = [l EXCEPT !.restore = s_line.active]
        OBVIOUS
      <3>2. IsLine(l) /\ l.fx.active = FALSE /\ l.active = s_line.active
        BY <3>1, StillFacts
      <3>3. IsLine(m) /\ m.fx.active = FALSE /\ m.active = s_line.active
        BY <3>1, <3>2 DEF IsLine, HasFx, LineFields
      <3>4. OnLine(NoTimer, m, s_line.active)
        BY <2>2, <3>1
      <3> QED
        BY <1>0, <3>3, <3>4, OnLineKeeps
    <2> QED
      BY <1>4, <2>1, <2>2 DEF hardware_io_io_pulse
  <1>5. CASE hardware_io_io_blink
    <2>1. ASSUME NEW n, NEW final, IsOutput,
                 OnLine("io_fx", [Written(s_line, TRUE) EXCEPT !.fx = Blink(TRUE, n, final)], final)
          PROVE  HardwareInv'
      <3>1. PICK fx, k, m : /\ fx = Blink(TRUE, n, final) /\ k = Written(s_line, TRUE)
                            /\ m = [k EXCEPT !.fx = fx]
        OBVIOUS
      <3>2. IsLine(k) /\ k.mode = "output"
        BY <1>0, <2>1, <3>1 DEF Written, IsLine, HasFx, LineFields
      <3>3. DOMAIN fx = FxFields /\ fx.active = TRUE /\ fx.final = final
        BY <3>1 DEF Blink, NewEffect, FxFields
      <3>4. IsLine(m) /\ m.fx.active = TRUE /\ m.mode = "output" /\ m.fx.final = final
        BY <3>1, <3>2, <3>3 DEF IsLine, HasFx, LineFields
      <3>5. OnLine("io_fx", m, final)
        BY <2>1, <3>1
      <3> QED
        BY <1>0, <3>4, <3>5, OnLineKeeps
    <2> QED
      BY <1>1, <1>5, <2>1 DEF hardware_io_io_blink
  <1> QED
    BY <1>2, <1>3, <1>4, <1>5

\* A line that is set up anew has no effect, and is no output without being one.
LEMMA ConfiguredFacts ==
    ASSUME HardwareInv, NEW mode \in {"disabled", "input", "output"}, NEW l, l = Configured(mode)
    PROVE  IsLine(l) /\ l.fx.active = FALSE /\ l.mode = mode
  <1>1. PICK k, w, off : /\ k = Still(s_line) /\ w = Written(k, FALSE)
                         /\ off = [w EXCEPT !.mode = mode, !.enabled = TRUE]
    OBVIOUS
  <1>2. IsLine(k) /\ k.fx = NoEffect
    BY <1>1, StillFacts
  <1>3. DOMAIN w = LineFields /\ w.fx = NoEffect
    BY <1>1, <1>2 DEF Written, IsLine, LineFields
  <1>4. /\ DOMAIN off = LineFields /\ off.fx = NoEffect /\ off.mode = mode
        /\ off.enabled = TRUE
    BY <1>1, <1>3 DEF LineFields
  <1>5. /\ DOMAIN l = LineFields /\ l.fx = NoEffect /\ l.mode = mode
        /\ l.enabled = (mode # "disabled")
    <2>1. l = CASE mode = "disabled" ->
                     [off EXCEPT !.enabled = FALSE, !.active = FALSE, !.high = FALSE,
                                 !.candidate = FALSE, !.age = 0]
                [] mode = "output" ->
                     [off EXCEPT !.active = FALSE, !.high = level_from_active(FALSE),
                                 !.candidate = level_from_active(FALSE), !.age = 0]
                [] mode = "input" ->
                     [off EXCEPT !.high = pin, !.active = (pin # ActiveLow),
                                 !.candidate = pin, !.age = 0]
      BY <1>1 DEF Configured
    <2>2. CASE mode = "disabled"
      BY <1>4, <2>1, <2>2 DEF LineFields
    <2>3. CASE mode = "output"
      BY <1>4, <2>1, <2>3 DEF LineFields
    <2>4. CASE mode = "input"
      BY <1>4, <2>1, <2>4 DEF LineFields
    <2> QED
      BY <2>2, <2>3, <2>4
  <1> QED
    BY <1>5, NoEffectFacts DEF IsLine, HasFx

\* The mode of the line changes.
LEMMA ModeKeeps == ASSUME HardwareInv, hardware_io_io_set_mode PROVE HardwareInv'
  <1>1. PICK mode \in {"disabled", "input", "output"} :
          /\ s_line' = Configured(mode)
          /\ running' = (running \ (HubTimers["line"] \cup {"io_poll"}))
                          \cup (IF mode = "input" THEN {"io_poll"} ELSE {})
          /\ overtaken' = IF waiting \in HubTimers["line"] THEN overtaken \cup {"line"}
                          ELSE overtaken \ {"line"}
          /\ rest_at' = [rest_at EXCEPT !.line = s_line'.active]
          /\ UNCHANGED <<s_relay, s_mosfet, waiting>>
    BY DEF hardware_io_io_set_mode
  <1>2. IsLine(s_line') /\ s_line'.fx.active = FALSE /\ s_line'.mode = mode
    BY <1>1, ConfiguredFacts
  <1>3. DOMAIN rest_at = {"relay", "mosfet", "line"}
    BY DEF HardwareInv, HardwareShape
  <1>4. /\ "io_pulse" \notin running' /\ "io_fx" \notin running'
        /\ "line" \in overtaken' \/ (waiting' # "io_pulse" /\ waiting' # "io_fx")
        /\ rest_at'.line = s_line'.active
    BY <1>1, <1>3 DEF HubTimers
  <1>5. HubUntouched("relay")
    BY <1>1, <1>3 DEF HubUntouched, HubTimers
  <1>6. HubUntouched("mosfet")
    BY <1>1, <1>3 DEF HubUntouched, HubTimers
  <1>7. HardwareShape'
    BY <1>1, <1>2, <1>3 DEF HardwareInv, HardwareShape, IsRelay, IsMosfet, IsLine, HasFx
  <1>8. LineAtRest'
    BY <1>2, <1>4 DEF LineAtRest
  <1>9. "line" \in overtaken' \/ HubLineSettles'
    BY <1>2, <1>4 DEF HubLineSettles, Settles, HubPending
  <1> QED
    BY <1>1, <1>5, <1>6, <1>7, <1>8, <1>9, HubRelayKept, HubMosfetKept DEF HardwareInv

\* All outputs are forced off in one lock section.
LEMMA SafeOffKeeps == ASSUME HardwareInv, hardware_io_safe_off_all PROVE HardwareInv'
  <1>1. /\ s_relay' = [on |-> FALSE, fx |-> NoEffect]
        /\ s_mosfet' = [s_mosfet EXCEPT !.value = 0, !.fx = NoEffect]
        /\ s_line' = IF IsOutput THEN Written(Still(s_line), FALSE) ELSE s_line
        /\ running' = running \ (HubTimers["relay"] \cup HubTimers["mosfet"]
                                  \cup (IF IsOutput THEN HubTimers["line"] ELSE {}))
        /\ rest_at' = [relay |-> FALSE, mosfet |-> 0, line |-> s_line'.active]
        /\ overtaken' = { o \in DOMAIN HubTimers : waiting \in HubTimers[o] }
        /\ waiting' = waiting
    BY DEF hardware_io_safe_off_all
  <1>2. /\ IsMosfet(s_mosfet) /\ IsLine(s_line) /\ LineAtRest
        /\ IsOutput <=> s_line.mode = "output"
    BY DEF HardwareInv, HardwareShape, IsLine, IsOutput
  <1>3. /\ s_relay'.on = FALSE /\ s_relay'.fx = NoEffect /\ IsRelay(s_relay)'
        /\ s_mosfet'.value = 0 /\ s_mosfet'.fx = NoEffect /\ IsMosfet(s_mosfet)'
    BY <1>1, <1>2, NoEffectFacts DEF IsRelay, IsMosfet, HasFx
  <1>4. IsLine(s_line)' /\ s_line'.fx.active = FALSE /\ s_line'.mode = s_line.mode
    <2>1. CASE IsOutput
      <3>1. PICK l, k : l = Still(s_line) /\ k = Written(l, FALSE) /\ s_line' = k
        BY <1>1, <2>1
      <3>2. IsLine(l) /\ l.fx.active = FALSE /\ l.mode = s_line.mode
        BY <3>1, StillFacts
      <3> QED
        BY <3>1, <3>2 DEF Written, IsLine, HasFx, LineFields
    <2>2. CASE ~IsOutput
      BY <1>1, <1>2, <2>2 DEF LineAtRest, IsLine, HasFx
    <2> QED
      BY <2>1, <2>2
  <1>5. /\ \A o \in {"relay", "mosfet"} :
             \A t \in HubTimers[o] : t \notin running'
        /\ "io_pulse" \notin running' /\ "io_fx" \notin running'
    BY <1>1, <1>2 DEF HubTimers, LineAtRest
  <1>6. \A o \in {"relay", "mosfet", "line"} :
          o \in overtaken' \/ \A t \in HubTimers[o] : ~HubPending(t)'
    BY <1>1, <1>5 DEF HubTimers, HubPending
  <1>7. HardwareShape' /\ LineAtRest'
    BY <1>1, <1>3, <1>4, <1>5 DEF HardwareShape, LineAtRest
  <1>8. "relay" \in overtaken' \/ HubRelaySettles'
    BY <1>1, <1>3, <1>6, NoEffectFacts DEF HubRelaySettles, Settles, HubTimers
  <1>9. "mosfet" \in overtaken' \/ HubMosfetSettles'
    <2>1. rest_at'.mosfet = 0 /\ s_mosfet'.fx.active = FALSE
      BY <1>1, <1>3, NoEffectFacts
    <2>2. \/ "mosfet" \in overtaken'
          \/ /\ ~HubPending("mosfet_pulse")' /\ ~HubPending("mosfet_fade")'
             /\ ~HubPending("mosfet_fx")' /\ waiting' # "mosfet_fade"
      BY <1>1, <1>6 DEF HubTimers, HubPending
    <2> QED
      BY <1>3, <2>1, <2>2 DEF HubMosfetSettles, Settles
  <1>10. "line" \in overtaken' \/ HubLineSettles'
    BY <1>1, <1>4, <1>6 DEF HubLineSettles, Settles, HubTimers
  <1> QED
    BY <1>7, <1>8, <1>9, <1>10 DEF HardwareInv
-----------------------------------------------------------------------------
(* The timer task *)

\* A timer is due: its callback waits, and only the periodic ones run on.
LEMMA DueKeeps == ASSUME HardwareInv, hardware_timer_due PROVE HardwareInv'
  <1>1. PICK t \in running :
          /\ waiting = NoTimer /\ waiting' = t
          /\ running' = IF t \in PeriodicTimers THEN running ELSE running \ {t}
          /\ UNCHANGED <<s_relay, s_mosfet, s_line, rest_at, overtaken>>
    BY DEF hardware_timer_due, ios
  <1>2. \A u \in {"relay_pulse", "relay_fx", "mosfet_pulse", "mosfet_fade", "mosfet_fx",
                  "io_pulse", "io_fx"} : HubPending(u)' <=> HubPending(u)
    BY <1>1, HardwareAssumption DEF HubPending
  <1>3. /\ HardwareShape' /\ LineAtRest'
    BY <1>1 DEF HardwareInv, HardwareShape, LineAtRest, IsRelay, IsMosfet, IsLine, HasFx
  <1>4. "relay" \in overtaken' \/ HubRelaySettles'
    BY <1>1, <1>2 DEF HardwareInv, HubRelaySettles, Settles
  <1>5. "mosfet" \in overtaken' \/ HubMosfetSettles'
    <2> SUFFICES ASSUME "mosfet" \notin overtaken' PROVE HubMosfetSettles'
      OBVIOUS
    <2>1. HubMosfetSettles
      BY <1>1 DEF HardwareInv
    <2>2. waiting' = "mosfet_fade" => "mosfet_fade" \in running'
      BY <1>1 DEF PeriodicTimers
    <2>3. s_mosfet.fx.mode = "breathe" /\ "mosfet_fx" \in running => "mosfet_fx" \in running'
      BY <1>1 DEF PeriodicTimers
    <2> QED
      BY <1>1, <1>2, <2>1, <2>2, <2>3 DEF HubMosfetSettles, Settles
  <1>6. "line" \in overtaken' \/ HubLineSettles'
    BY <1>1, <1>2 DEF HardwareInv, HubLineSettles, Settles
  <1> QED
    BY <1>3, <1>4, <1>5, <1>6 DEF HardwareInv

\* A callback of o that ran touches no other timer of o and no other output.
LEMMA CallbackFacts ==
    ASSUME HardwareInv, NEW o \in {"relay", "mosfet", "line"}, NEW t \in HubTimers[o],
           CallbackRan(t), \A u : u # t => (u \in running' <=> u \in running)
    PROVE  /\ UNCHANGED <<rest_at, overtaken>>
           /\ DOMAIN rest_at' = {"relay", "mosfet", "line"}
           /\ \A u \in HubTimers[o] : /\ u # t => (HubPending(u)' <=> HubPending(u))
                                      /\ waiting' # u
           /\ HubPending(t) /\ (HubPending(t)' <=> t \in running')
           /\ \A p \in {"relay", "mosfet", "line"} : p # o => HubUntouched(p)
  <1>1. /\ waiting = t /\ waiting' = NoTimer /\ UNCHANGED <<rest_at, overtaken>>
    BY DEF CallbackRan
  <1>2. \A p \in {"relay", "mosfet", "line"} : \A u \in HubTimers[p] : u # NoTimer
    BY HardwareAssumption DEF HubTimers
  <1>3. \A p \in {"relay", "mosfet", "line"} : p # o => t \notin HubTimers[p]
    BY DEF HubTimers
  <1>4. \A p \in {"relay", "mosfet", "line"} : p # o => HubUntouched(p)
    BY <1>1, <1>2, <1>3 DEF HubUntouched
  <1>5. DOMAIN rest_at' = {"relay", "mosfet", "line"}
    BY <1>1 DEF HardwareInv, HardwareShape
  <1> QED
    BY <1>1, <1>2, <1>4, <1>5 DEF HubPending

\* An effect that runs, and what a step of it leaves: it goes on, or the final
\* value is reached.
Runs(fx) == DOMAIN fx = FxFields /\ fx.active = TRUE
StepsOn(fx, s) ==
    /\ DOMAIN s.fx = FxFields /\ s.fx.active \in BOOLEAN
    /\ s.fx.final = fx.final
    /\ s.again <=> s.fx.active
    /\ s.fx.active => s.fx.mode = fx.mode
    /\ ~s.fx.active => s.value = fx.final

\* So does a step of a blink.
LEMMA NextBlinkFacts ==
    ASSUME NEW fx, Runs(fx), NEW off PROVE StepsOn(fx, NextBlink(fx, off))
  <1>0. DOMAIN fx = FxFields /\ fx.active = TRUE
    BY DEF Runs
  <1>1. CASE fx.on
    BY <1>0, <1>1 DEF NextBlink, FxFields, StepsOn
  <1>2. CASE ~fx.on /\ CountDown(fx.left) = 0
    BY <1>0, <1>2 DEF NextBlink, FxFields, StepsOn
  <1>3. CASE ~fx.on /\ CountDown(fx.left) # 0
    BY <1>0, <1>3 DEF NextBlink, FxFields, StepsOn
  <1> QED
    BY <1>1, <1>2, <1>3

\* The callback of the relay's pulse switches it off, which is where it ends.
LEMMA RelayPulseKeeps == ASSUME HardwareInv, relay_pulse_timer PROVE HardwareInv'
  <1>1. /\ CallbackRan("relay_pulse") /\ s_relay' = [s_relay EXCEPT !.on = FALSE]
        /\ UNCHANGED <<s_mosfet, s_line, running>>
    BY DEF relay_pulse_timer
  <1>2. /\ UNCHANGED <<rest_at, overtaken>> /\ DOMAIN rest_at' = {"relay", "mosfet", "line"}
        /\ HubPending("relay_fx")' <=> HubPending("relay_fx")
        /\ HubPending("relay_pulse")
        /\ HubUntouched("mosfet") /\ HubUntouched("line")
    <2>1. "relay_pulse" \in HubTimers["relay"] /\ "relay_fx" \in HubTimers["relay"]
      BY DEF HubTimers
    <2> QED
      BY <1>1, <2>1, CallbackFacts, "relay" \in {"relay", "mosfet", "line"}
  <1>3. /\ s_relay'.fx = s_relay.fx /\ s_relay'.on = FALSE /\ IsRelay(s_relay)'
        /\ IsMosfet(s_mosfet)' /\ IsLine(s_line)'
    BY <1>1 DEF HardwareInv, HardwareShape, IsRelay, HasFx, IsMosfet, IsLine
  <1>4. "relay" \in overtaken' \/ HubRelaySettles'
    BY <1>2, <1>3 DEF HardwareInv, HubRelaySettles, Settles
  <1> QED
    BY <1>1, <1>2, <1>3, <1>4, HubMosfetKept, HubLineKept DEF HardwareInv, HardwareShape

\* The callback of the relay's blink.
LEMMA RelayEffectKeeps == ASSUME HardwareInv, relay_effect_timer PROVE HardwareInv'
  <1>0. PICK fx, off : fx = s_relay.fx /\ off = FALSE
    OBVIOUS
  <1>1. PICK s : s = NextBlink(fx, off)
    OBVIOUS
  <1>2. /\ CallbackRan("relay_fx") /\ UNCHANGED <<s_mosfet, s_line>>
        /\ s_relay.fx.active => s_relay' = [on |-> s.value, fx |-> s.fx]
                                /\ Again("relay_fx", s.again)
        /\ ~s_relay.fx.active => UNCHANGED <<s_relay, running>>
    BY <1>0, <1>1 DEF relay_effect_timer
  <1>3. \A u : u # "relay_fx" => (u \in running' <=> u \in running)
    BY <1>2 DEF Again, HardwareInv, HardwareShape, IsRelay, HasFx
  <1>4. /\ UNCHANGED <<rest_at, overtaken>> /\ DOMAIN rest_at' = {"relay", "mosfet", "line"}
        /\ HubPending("relay_pulse")' <=> HubPending("relay_pulse")
        /\ HubPending("relay_fx") /\ (HubPending("relay_fx")' <=> "relay_fx" \in running')
        /\ HubUntouched("mosfet") /\ HubUntouched("line")
    <2>1. "relay_pulse" \in HubTimers["relay"] /\ "relay_fx" \in HubTimers["relay"]
      BY DEF HubTimers
    <2> QED
      BY <1>2, <1>3, <2>1, CallbackFacts, "relay" \in {"relay", "mosfet", "line"}
  <1>5. IsRelay(s_relay) /\ IsMosfet(s_mosfet)' /\ IsLine(s_line)'
    BY <1>2 DEF HardwareInv, HardwareShape, IsMosfet, IsLine, HasFx
  <1>6. IsRelay(s_relay)' /\ ("relay" \in overtaken' \/ HubRelaySettles')
    <2>1. CASE s_relay.fx.active
      <3>1. /\ DOMAIN s.fx = FxFields /\ s.fx.active \in BOOLEAN
            /\ s.fx.final = s_relay.fx.final
            /\ s.again <=> s.fx.active
            /\ ~s.fx.active => s.value = s_relay.fx.final
        <4>1. fx = s_relay.fx /\ Runs(fx)
          BY <1>0, <1>5, <2>1 DEF IsRelay, HasFx, Runs
        <4>2. StepsOn(fx, s)
          BY <1>1, <4>1, NextBlinkFacts
        <4> QED
          BY <4>1, <4>2 DEF StepsOn
      <3>2. /\ s_relay'.on = s.value /\ s_relay'.fx = s.fx /\ IsRelay(s_relay)'
            /\ s.fx.active => "relay_fx" \in running'
        BY <1>2, <2>1, <3>1 DEF IsRelay, HasFx, Again
      <3> QED
        BY <1>4, <2>1, <3>1, <3>2 DEF HardwareInv, HubRelaySettles, Settles
    <2>2. CASE ~s_relay.fx.active
      BY <1>2, <1>4, <1>5, <2>2 DEF HardwareInv, HubRelaySettles, Settles, IsRelay, HasFx
    <2> QED
      BY <2>1, <2>2
  <1> QED
    BY <1>2, <1>4, <1>5, <1>6, HubMosfetKept, HubLineKept DEF HardwareInv, HardwareShape

\* The callback of the line's pulse writes what was there before.
LEMMA LinePulseKeeps == ASSUME HardwareInv, io_pulse_timer PROVE HardwareInv'
  <1>1. /\ CallbackRan("io_pulse") /\ s_line' = Written(s_line, s_line.restore)
        /\ UNCHANGED <<s_relay, s_mosfet, running>>
    BY DEF io_pulse_timer
  <1>2. /\ UNCHANGED <<rest_at, overtaken>> /\ DOMAIN rest_at' = {"relay", "mosfet", "line"}
        /\ HubPending("io_fx")' <=> HubPending("io_fx")
        /\ HubPending("io_pulse")
        /\ HubUntouched("relay") /\ HubUntouched("mosfet")
    <2>1. "io_pulse" \in HubTimers["line"] /\ "io_fx" \in HubTimers["line"]
      BY DEF HubTimers
    <2> QED
      BY <1>1, <2>1, CallbackFacts, "line" \in {"relay", "mosfet", "line"}
  <1>3. IsLine(s_line) /\ IsRelay(s_relay)' /\ IsMosfet(s_mosfet)'
    BY <1>1 DEF HardwareInv, HardwareShape, IsRelay, IsMosfet, HasFx
  <1>4. /\ IsLine(s_line') /\ s_line'.fx = s_line.fx /\ s_line'.mode = s_line.mode
        /\ s_line'.restore = s_line.restore
        /\ s_line.mode = "output" => s_line'.active = s_line.restore
        /\ s_line.mode # "output" => s_line' = s_line
    BY <1>1, <1>3, WrittenFacts
  <1>5. LineAtRest'
    BY <1>1, <1>4 DEF HardwareInv, LineAtRest
  <1>6. "line" \in overtaken' \/ HubLineSettles'
    <2>1. CASE s_line.mode = "output"
      BY <1>2, <1>4, <2>1 DEF HardwareInv, HubLineSettles, Settles
    <2>2. CASE s_line.mode # "output"
      BY <1>2, <1>4, <2>2 DEF HardwareInv, HubLineSettles, Settles
    <2> QED
      BY <2>1, <2>2
  <1> QED
    BY <1>1, <1>2, <1>3, <1>4, <1>5, <1>6, HubMosfetKept, HubRelayKept
    DEF HardwareInv, HardwareShape

\* The callback of the line's blink.
LEMMA LineEffectKeeps == ASSUME HardwareInv, io_effect_timer PROVE HardwareInv'
  <1>0. PICK fx, off : fx = s_line.fx /\ off = FALSE
    OBVIOUS
  <1>1. PICK s : s = NextBlink(fx, off)
    OBVIOUS
  <1>2. /\ CallbackRan("io_fx") /\ UNCHANGED <<s_relay, s_mosfet>>
        /\ s_line.fx.active => s_line' = [Written(s_line, s.value) EXCEPT !.fx = s.fx]
                               /\ Again("io_fx", s.again)
        /\ ~s_line.fx.active => UNCHANGED <<s_line, running>>
    BY <1>0, <1>1 DEF io_effect_timer
  <1>3. \A u : u # "io_fx" => (u \in running' <=> u \in running)
    BY <1>2 DEF Again, HardwareInv, HardwareShape, IsLine, HasFx
  <1>4. /\ UNCHANGED <<rest_at, overtaken>> /\ DOMAIN rest_at' = {"relay", "mosfet", "line"}
        /\ HubPending("io_pulse")' <=> HubPending("io_pulse")
        /\ HubPending("io_fx") /\ (HubPending("io_fx")' <=> "io_fx" \in running')
        /\ HubUntouched("relay") /\ HubUntouched("mosfet")
    <2>1. "io_pulse" \in HubTimers["line"] /\ "io_fx" \in HubTimers["line"]
      BY DEF HubTimers
    <2> QED
      BY <1>2, <1>3, <2>1, CallbackFacts, "line" \in {"relay", "mosfet", "line"}
  <1>5. IsLine(s_line) /\ IsRelay(s_relay)' /\ IsMosfet(s_mosfet)' /\ LineAtRest
    BY <1>2 DEF HardwareInv, HardwareShape, IsMosfet, IsRelay, HasFx
  <1>6. IsLine(s_line)' /\ LineAtRest' /\ ("line" \in overtaken' \/ HubLineSettles')
    <2>1. CASE s_line.fx.active
      <3>1. /\ DOMAIN s.fx = FxFields /\ s.fx.active \in BOOLEAN
            /\ s.fx.final = s_line.fx.final
            /\ s.again <=> s.fx.active
            /\ ~s.fx.active => s.value = s_line.fx.final
        <4>1. fx = s_line.fx /\ Runs(fx)
          BY <1>0, <1>5, <2>1 DEF IsLine, HasFx, Runs
        <4>2. StepsOn(fx, s)
          BY <1>1, <4>1, NextBlinkFacts
        <4> QED
          BY <4>1, <4>2 DEF StepsOn
      <3>2. s_line.mode = "output"
        BY <1>5, <2>1 DEF LineAtRest
      <3>3. PICK k : k = Written(s_line, s.value)
        OBVIOUS
      <3>4. IsLine(k) /\ k.mode = "output" /\ k.active = s.value
        BY <1>5, <3>2, <3>3, WrittenFacts
      <3>5. /\ s_line'.active = s.value /\ s_line'.fx = s.fx /\ s_line'.mode = "output"
            /\ IsLine(s_line')
        BY <1>2, <2>1, <3>1, <3>3, <3>4 DEF IsLine, HasFx, LineFields
      <3>6. s.fx.active => "io_fx" \in running'
        BY <1>2, <2>1, <3>1 DEF Again
      <3> QED
        BY <1>4, <2>1, <3>1, <3>2, <3>5, <3>6 DEF HardwareInv, HubLineSettles, Settles, LineAtRest
    <2>2. CASE ~s_line.fx.active
      BY <1>2, <1>4, <1>5, <2>2 DEF HardwareInv, HubLineSettles, Settles, IsLine, HasFx, LineAtRest
    <2> QED
      BY <2>1, <2>2
  <1> QED
    BY <1>2, <1>4, <1>5, <1>6, HubMosfetKept, HubRelayKept DEF HardwareInv, HardwareShape

\* The poll of the input changes an input only.
LEMMA PollKeeps == ASSUME HardwareInv, io_poll_timer PROVE HardwareInv'
  <1>1. /\ waiting = "io_poll" /\ waiting' = NoTimer
        /\ UNCHANGED <<s_relay, s_mosfet, running, rest_at, overtaken>>
        /\ s_line' = IF s_line.enabled /\ s_line.mode = "input" THEN poll_sample(s_line)
                     ELSE s_line
    BY DEF io_poll_timer, CallbackRan
  <1>2. \A o \in {"relay", "mosfet", "line"} : HubUntouched(o)
    BY <1>1, HardwareAssumption DEF HubUntouched, HubTimers
  <1>3. IsLine(s_line) /\ IsRelay(s_relay)' /\ IsMosfet(s_mosfet)' /\ LineAtRest
    BY <1>1 DEF HardwareInv, HardwareShape, IsMosfet, IsRelay, HasFx
  <1>4. /\ IsLine(s_line)' /\ LineAtRest' /\ ("line" \in overtaken' \/ HubLineSettles')
    <2>1. CASE s_line.mode = "input"
      <3>1. DOMAIN s_line' = LineFields /\ s_line'.fx = s_line.fx
            /\ s_line'.mode = "input" /\ s_line'.enabled = s_line.enabled
        BY <1>1, <1>3, <2>1 DEF poll_sample, IsLine, LineFields
      <3> QED
        BY <1>1, <1>3, <2>1, <3>1 DEF IsLine, HasFx, LineAtRest, HubLineSettles
    <2>2. CASE s_line.mode # "input"
      BY <1>1, <1>2, <1>3, <2>2, HubLineKept DEF IsLine, HasFx
    <2> QED
      BY <2>1, <2>2
  <1> QED
    BY <1>1, <1>2, <1>3, <1>4, HubMosfetKept, HubRelayKept DEF HardwareInv, HardwareShape
-----------------------------------------------------------------------------
(* The callbacks of the MOSFET *)

\* What the callback with timer t of the MOSFET finds and leaves alone.
LEMMA MosfetCallback ==
    ASSUME HardwareInv, NEW t \in {"mosfet_pulse", "mosfet_fade", "mosfet_fx"},
           CallbackRan(t), \A u : u # t => (u \in running' <=> u \in running),
           UNCHANGED <<s_relay, s_line>>, IsMosfet(s_mosfet'),
           "mosfet" \notin overtaken => HubMosfetSettles'
    PROVE  HardwareInv'
  <1>1. /\ UNCHANGED <<rest_at, overtaken>> /\ DOMAIN rest_at' = {"relay", "mosfet", "line"}
        /\ HubUntouched("relay") /\ HubUntouched("line")
    <2>1. t \in HubTimers["mosfet"]
      BY DEF HubTimers
    <2> QED
      BY <2>1, CallbackFacts, "mosfet" \in {"relay", "mosfet", "line"}
  <1>2. HardwareShape'
    BY <1>1 DEF HardwareInv, HardwareShape, IsRelay, IsLine, HasFx
  <1> QED
    BY <1>1, <1>2, HubRelayKept, HubLineKept DEF HardwareInv

\* What is pending when the callback of t has run.
LEMMA MosfetPending ==
    ASSUME HardwareInv, NEW t \in {"mosfet_pulse", "mosfet_fade", "mosfet_fx"},
           CallbackRan(t), \A u : u # t => (u \in running' <=> u \in running)
    PROVE  /\ HubPending(t) /\ (HubPending(t)' <=> t \in running')
           /\ \A u \in {"mosfet_pulse", "mosfet_fade", "mosfet_fx"} :
                /\ u # t => (HubPending(u)' <=> HubPending(u)) /\ waiting # u
                /\ waiting' # u
           /\ rest_at' = rest_at
  <1>1. waiting = t /\ waiting' = NoTimer /\ rest_at' = rest_at
    BY DEF CallbackRan
  <1>2. \A u \in {"mosfet_pulse", "mosfet_fade", "mosfet_fx"} : u # NoTimer
    BY HardwareAssumption
  <1> QED
    BY <1>1, <1>2 DEF HubPending

\* The pulse ends at what it restores.
LEMMA MosfetPulseKeeps == ASSUME HardwareInv, mosfet_pulse_timer PROVE HardwareInv'
  <1>1. /\ CallbackRan("mosfet_pulse")
        /\ s_mosfet' = [s_mosfet EXCEPT !.value = s_mosfet.restore]
        /\ UNCHANGED <<s_relay, s_line, running>>
    BY DEF mosfet_pulse_timer
  <1>2. IsMosfet(s_mosfet)
    BY DEF HardwareInv, HardwareShape
  <1>3. /\ s_mosfet'.fx = s_mosfet.fx /\ s_mosfet'.value = s_mosfet.restore
        /\ s_mosfet'.restore = s_mosfet.restore /\ s_mosfet'.target = s_mosfet.target
        /\ IsMosfet(s_mosfet')
    BY <1>1, <1>2 DEF IsMosfet, HasFx
  <1>4. /\ HubPending("mosfet_pulse")
        /\ HubPending("mosfet_fade")' <=> HubPending("mosfet_fade")
        /\ HubPending("mosfet_fx")' <=> HubPending("mosfet_fx")
        /\ waiting' # "mosfet_fade" /\ rest_at' = rest_at
    BY <1>1, MosfetPending
  <1>5. "mosfet" \notin overtaken => HubMosfetSettles'
    BY <1>1, <1>3, <1>4 DEF HardwareInv, HubMosfetSettles, Settles
  <1> QED
    BY <1>1, <1>3, <1>5, MosfetCallback

\* The fade goes on with its timer, or has arrived and stops it.
LEMMA MosfetFadeKeeps == ASSUME HardwareInv, mosfet_fade_timer PROVE HardwareInv'
  <1>1. /\ CallbackRan("mosfet_fade") /\ UNCHANGED <<s_relay, s_line>>
        /\ \/ /\ s_mosfet' = [s_mosfet EXCEPT !.value = s_mosfet.target]
              /\ running' = running \ {"mosfet_fade"}
           \/ /\ \E v : s_mosfet' = [s_mosfet EXCEPT !.value = v]
              /\ running' = running
    BY DEF mosfet_fade_timer
  <1>2. IsMosfet(s_mosfet)
    BY DEF HardwareInv, HardwareShape
  <1>3. /\ s_mosfet'.fx = s_mosfet.fx
        /\ s_mosfet'.restore = s_mosfet.restore /\ s_mosfet'.target = s_mosfet.target
        /\ IsMosfet(s_mosfet')
        /\ \/ s_mosfet'.value = s_mosfet.target /\ "mosfet_fade" \notin running'
           \/ running' = running
    BY <1>1, <1>2 DEF IsMosfet, HasFx
  <1>4. \A u : u # "mosfet_fade" => (u \in running' <=> u \in running)
    BY <1>1
  <1>5. /\ HubPending("mosfet_fade") /\ waiting = "mosfet_fade"
        /\ HubPending("mosfet_fade")' <=> "mosfet_fade" \in running'
        /\ HubPending("mosfet_pulse")' <=> HubPending("mosfet_pulse")
        /\ HubPending("mosfet_fx")' <=> HubPending("mosfet_fx")
        /\ waiting' # "mosfet_fade" /\ rest_at' = rest_at
    BY <1>1, <1>4, MosfetPending DEF CallbackRan
  <1>6. "mosfet" \notin overtaken => HubMosfetSettles'
    BY <1>3, <1>4, <1>5 DEF HardwareInv, HubMosfetSettles, Settles
  <1> QED
    BY <1>1, <1>3, <1>4, <1>6, MosfetCallback

\* A step of a breath goes on as a breath, or leaves the final value.
LEMMA NextBreathFacts ==
    ASSUME NEW m, IsMosfet(m), m.fx.active = TRUE, NEW n \in NextBreath(m)
    PROVE  /\ IsMosfet(n) /\ n.restore = m.restore /\ n.target = m.target
           /\ n.fx.active => n.fx.mode = m.fx.mode /\ n.fx.final = m.fx.final
           /\ ~n.fx.active => n.value = m.fx.final
  <1>0. /\ DOMAIN m = {"value", "restore", "from", "target", "fx"}
        /\ DOMAIN m.fx = FxFields
    BY DEF IsMosfet, HasFx
  <1>1. PICK fx : fx = m.fx
    OBVIOUS
  <1>2. CASE \E v : n = [m EXCEPT !.value = v]
    BY <1>0, <1>2 DEF IsMosfet, HasFx
  <1>3. ASSUME NEW v, n = [m EXCEPT !.value = v, !.fx = [fx EXCEPT !.hold = TRUE]]
        PROVE  IsMosfet(n) /\ n.restore = m.restore /\ n.target = m.target
               /\ n.fx.active = TRUE /\ n.fx.mode = m.fx.mode /\ n.fx.final = m.fx.final
    BY <1>0, <1>1, <1>3 DEF IsMosfet, HasFx, FxFields
  <1>4. CASE n = [m EXCEPT !.value = fx.final,
                           !.fx = [fx EXCEPT !.active = FALSE, !.left = 0, !.mode = "none"]]
    BY <1>0, <1>1, <1>4 DEF IsMosfet, HasFx, FxFields
  <1>5. ASSUME n = [m EXCEPT !.fx = [fx EXCEPT !.on = ~fx.on, !.hold = FALSE,
                                               !.left = IF fx.on THEN @ ELSE CountDown(@)]]
        PROVE  IsMosfet(n) /\ n.restore = m.restore /\ n.target = m.target
               /\ n.fx.active = TRUE /\ n.fx.mode = m.fx.mode /\ n.fx.final = m.fx.final
    BY <1>0, <1>1, <1>5 DEF IsMosfet, HasFx, FxFields
  <1>6. \/ \E v : n = [m EXCEPT !.value = v]
        \/ \E v : n = [m EXCEPT !.value = v, !.fx = [fx EXCEPT !.hold = TRUE]]
        \/ n = [m EXCEPT !.value = fx.final,
                         !.fx = [fx EXCEPT !.active = FALSE, !.left = 0, !.mode = "none"]]
        \/ n = [m EXCEPT !.fx = [fx EXCEPT !.on = ~fx.on, !.hold = FALSE,
                                           !.left = IF fx.on THEN @ ELSE CountDown(@)]]
    BY <1>1, Zenon DEF NextBreath
  <1> QED
    BY <1>2, <1>3, <1>4, <1>5, <1>6

\* A step of the effect, of either kind.
LEMMA MosfetEffectKeeps == ASSUME HardwareInv, mosfet_effect_timer PROVE HardwareInv'
  <1>0. PICK fx, s : fx = s_mosfet.fx /\ s = NextBlink(fx, 0)
    OBVIOUS
  <1>1. /\ CallbackRan("mosfet_fx") /\ UNCHANGED <<s_relay, s_line>>
        /\ \/ ~fx.active /\ UNCHANGED <<s_mosfet, running>>
           \/ /\ fx.active /\ fx.mode = "blink"
              /\ s_mosfet' = [s_mosfet EXCEPT !.value = s.value, !.fx = s.fx]
              /\ Again("mosfet_fx", s.again)
           \/ /\ fx.active /\ fx.mode = "breathe"
              /\ s_mosfet' \in NextBreath(s_mosfet) /\ running' = running
    BY <1>0 DEF mosfet_effect_timer
  <1>2. IsMosfet(s_mosfet) /\ DOMAIN fx = FxFields /\ fx.active \in BOOLEAN
    BY <1>0 DEF HardwareInv, HardwareShape, IsMosfet, HasFx
  <1>3. \A u : u # "mosfet_fx" => (u \in running' <=> u \in running)
    BY <1>1 DEF Again
  <1>4. /\ HubPending("mosfet_fx")' <=> "mosfet_fx" \in running'
        /\ HubPending("mosfet_fade")' <=> HubPending("mosfet_fade")
        /\ HubPending("mosfet_pulse")' <=> HubPending("mosfet_pulse")
        /\ waiting' # "mosfet_fade" /\ rest_at' = rest_at
    BY <1>1, <1>3, MosfetPending
  <1>5. IsMosfet(s_mosfet') /\ ("mosfet" \notin overtaken => HubMosfetSettles')
    <2>1. CASE ~fx.active /\ UNCHANGED <<s_mosfet, running>>
      <3>1. s_mosfet' = s_mosfet /\ ~s_mosfet.fx.active
        BY <1>0, <2>1
      <3>2. IsMosfet(s_mosfet')
        BY <1>2, <3>1
      <3>3. "mosfet" \notin overtaken => HubMosfetSettles'
        BY <1>4, <2>1, <3>1 DEF HardwareInv, HubMosfetSettles, Settles, HubPending
      <3> QED
        BY <3>2, <3>3
    <2>2. CASE /\ fx.active /\ fx.mode = "blink"
               /\ s_mosfet' = [s_mosfet EXCEPT !.value = s.value, !.fx = s.fx]
               /\ Again("mosfet_fx", s.again)
      <3>1. StepsOn(fx, s)
        BY <1>0, <1>2, <2>2, NextBlinkFacts DEF Runs
      <3>2. /\ IsMosfet(s_mosfet') /\ s_mosfet'.restore = s_mosfet.restore
            /\ s_mosfet'.target = s_mosfet.target
            /\ s_mosfet'.value = s.value /\ s_mosfet'.fx = s.fx
        BY <1>2, <2>2, <3>1 DEF IsMosfet, HasFx, StepsOn
      <3>3. /\ s.fx.active => "mosfet_fx" \in running' /\ s.fx.mode = "blink"
            /\ s.fx.active => s.fx.final = s_mosfet.fx.final
            /\ ~s.fx.active => s.value = s_mosfet.fx.final
        BY <1>0, <2>2, <3>1 DEF StepsOn, Again
      <3>4. s_mosfet.fx.active
        BY <1>0, <2>2
      <3> QED
        BY <1>4, <3>2, <3>3, <3>4 DEF HardwareInv, HubMosfetSettles, Settles
    <2>3. CASE /\ fx.active /\ fx.mode = "breathe"
               /\ s_mosfet' \in NextBreath(s_mosfet) /\ running' = running
      <3>0. s_mosfet.fx.active = TRUE /\ s_mosfet.fx.mode = "breathe"
        BY <1>0, <1>2, <2>3
      <3>1. PICK n \in NextBreath(s_mosfet) : s_mosfet' = n
        BY <2>3
      <3>2. /\ IsMosfet(n) /\ n.restore = s_mosfet.restore /\ n.target = s_mosfet.target
            /\ n.fx.active => n.fx.mode = s_mosfet.fx.mode /\ n.fx.final = s_mosfet.fx.final
            /\ ~n.fx.active => n.value = s_mosfet.fx.final
        BY <1>2, <3>0, NextBreathFacts
      <3> QED
        BY <1>4, <2>3, <3>0, <3>1, <3>2 DEF HardwareInv, HubMosfetSettles, Settles
    <2> QED
      BY <1>1, <2>1, <2>2, <2>3
  <1> QED
    BY <1>1, <1>3, <1>5, MosfetCallback
-----------------------------------------------------------------------------
(* The theorem *)

\* The invariant holds at the start.
LEMMA HardwareStarts == HardwareInit => HardwareInv
  <1> SUFFICES ASSUME HardwareInit PROVE HardwareInv
    OBVIOUS
  <1>1. HardwareShape /\ LineAtRest
    BY NoEffectFacts DEF HardwareInit, HardwareShape, LineAtRest, IsRelay, IsMosfet, IsLine,
                         HasFx, LineFields
  <1>2. \A t \in {"relay_pulse", "relay_fx", "mosfet_pulse", "mosfet_fade", "mosfet_fx",
                  "io_pulse", "io_fx"} : ~HubPending(t) /\ waiting # t
    BY HardwareAssumption DEF HardwareInit, HubPending
  <1>3. HubRelaySettles /\ HubLineSettles
    BY <1>2, NoEffectFacts DEF HardwareInit, HubRelaySettles, HubLineSettles, Settles
  <1>4. HubMosfetSettles
    BY <1>2, NoEffectFacts DEF HardwareInit, HubMosfetSettles, Settles
  <1> QED
    BY <1>1, <1>3, <1>4 DEF HardwareInv

\* Every step keeps it.
LEMMA HardwareKeeps == HardwareInv /\ [HardwareNext]_hardware_vars => HardwareInv'
  <1> SUFFICES ASSUME HardwareInv, [HardwareNext]_hardware_vars PROVE HardwareInv'
    OBVIOUS
  <1>1. CASE \/ UNCHANGED hardware_vars \/ pin_edge
    <2>1. UNCHANGED <<s_relay, s_mosfet, s_line, running, waiting, rest_at, overtaken>>
      BY <1>1 DEF hardware_vars, pin_edge
    <2>2. \A o \in {"relay", "mosfet", "line"} : HubUntouched(o)
      BY <2>1 DEF HubUntouched
    <2>3. HardwareShape'
      BY <2>1 DEF HardwareInv, HardwareShape, IsRelay, IsMosfet, IsLine, HasFx
    <2> QED
      BY <2>1, <2>2, <2>3, HubRelayKept, HubMosfetKept, HubLineKept DEF HardwareInv
  <1>2. CASE Operations
    BY <1>2, RelayOperations, MosfetOperations, LineOperations, ModeKeeps, SafeOffKeeps
    DEF Operations
  <1>3. CASE Callbacks
    BY <1>3, RelayPulseKeeps, RelayEffectKeeps, LinePulseKeeps, LineEffectKeeps, PollKeeps,
       MosfetPulseKeeps, MosfetFadeKeeps, MosfetEffectKeeps
    DEF Callbacks
  <1>4. CASE hardware_timer_due
    BY <1>4, DueKeeps
  <1> QED
    BY <1>1, <1>2, <1>3, <1>4 DEF HardwareNext

\* When the timers of an output of the controller are quiet, the output is where
\* its last operation leaves it, for all operations, values and repeat counts,
\* unless a callback of it was waiting for the lock during that operation.
THEOREM HubOutputsComeToRest == HardwareSpec => []OutputsSettle
  <1>1. HardwareInv => OutputsSettle
    <2> SUFFICES ASSUME HardwareInv, NEW o \in DOMAIN HubTimers, o \notin overtaken,
                        ~(o = "line" /\ s_line.mode = "input"), Quiet(o)
                 PROVE  Value[o] = rest_at[o]
      BY DEF OutputsSettle
    <2>1. \A t \in HubTimers[o] : ~HubPending(t)
      BY DEF Quiet, HubPending
    <2>2. CASE o = "relay"
      BY <2>1, <2>2 DEF HardwareInv, HubRelaySettles, Settles, HubTimers, Value
    <2>3. CASE o = "mosfet"
      BY <2>1, <2>3 DEF HardwareInv, HubMosfetSettles, Settles, HubTimers, Value
    <2>4. CASE o = "line"
      BY <2>1, <2>4 DEF HardwareInv, HubLineSettles, Settles, HubTimers, Value
    <2> QED
      BY <2>2, <2>3, <2>4 DEF HubTimers
  <1> QED
    BY <1>1, HardwareStarts, HardwareKeeps, PTL DEF HardwareSpec

-----------------------------------------------------------------------------
(* The stores: the inductive invariant *)

Good(k, t) == t \in Tables(k) /\ Fits(k, t)

\* Entries of a deleted room are profiles and scenarios.
Entries == {"profiles", "scenarios"} \X (ProfileIds \cup ScenarioIds)

StoresShape ==
    /\ DOMAIN ram = Stores /\ DOMAIN file = Stores
    /\ \A k \in Stores : DOMAIN file[k] = {"main", "tmp"}
    /\ boot \in Seq(Stores)

\* The tables in memory and on the card are tables of their store.
TablesFit ==
    \A k \in Stores : /\ Good(k, ram[k])
                      /\ file[k].main = Nothing \/ Good(k, file[k].main)

Saving == serving.pc \in {"open", "write", "unlink", "rename"}

\* The HTTP task is idle, saves a store, or goes through a deleted room.
OneRequest ==
    /\ DOMAIN serving = {"pc", "k", "after", "room", "todo", "first"}
    /\ serving.todo \in Seq(Entries)
    /\ serving = NoRequest \/ Saving \/ (serving.pc = "next" /\ serving.after = "next")
    /\ serving.after \in {"answer", "contents", "next"}
    /\ Saving => /\ serving.k \in Stores
                 /\ serving.after = "contents" => serving.k = "rooms"
                 /\ serving.after = "next" => serving.k \in {"profiles", "scenarios"}
    /\ boot # <<>> => serving = NoRequest
    /\ serving # NoRequest \/ boot # <<>> => result = NoResult

\* What is about to be renamed is what is in memory.
TmpIsWritten == serving.pc \in {"unlink", "rename"} => file[serving.k].tmp = ram[serving.k]

\* While the contents of a room go, the room itself is gone from the card.
RoomIsGone == serving.after = "next" /\ serving.first # Nothing =>
                  serving.first = "rooms" /\ file["rooms"].main = ram["rooms"]

StoresInv == StoresShape /\ TablesFit /\ OneRequest /\ TmpIsWritten /\ RoomIsGone
             /\ AcknowledgedIsStored

-----------------------------------------------------------------------------
(* Tables and lists *)

\* What a table of a store is.
LEMMA GoodTable ==
    ASSUME NEW k \in Stores, NEW t, Good(k, t)
    PROVE  /\ DOMAIN t \subseteq IdsOf(k) /\ IsFiniteSet(DOMAIN t)
           /\ Cardinality(DOMAIN t) \in Nat
           /\ t = [x \in DOMAIN t |-> t[x]]
           /\ \A x \in DOMAIN t : t[x] \in Candidates(k)
  <1>1. PICK ids \in SUBSET IdsOf(k) : t \in [ids -> Candidates(k)]
    BY DEF Good, Tables
  <1>2. IsFiniteSet(IdsOf(k))
    BY StoresAssumption
  <1>3. IsFiniteSet(ids)
    BY <1>1, <1>2, FS_Subset
  <1> QED
    BY <1>1, <1>3, FS_CardinalityType

\* A function from ids to entries is a table.
LEMMA IsTable ==
    ASSUME NEW k \in Stores, NEW t, NEW ids, ids \subseteq IdsOf(k),
           t \in [ids -> Candidates(k)]
    PROVE  t \in Tables(k)
  BY DEF Tables

\* The empty table fits every store.
LEMMA EmptyFits == \A k \in Stores : Good(k, Empty)
  <1> SUFFICES ASSUME NEW k \in Stores PROVE Good(k, Empty)
    OBVIOUS
  <1>1. Empty \in [{} -> Candidates(k)] /\ DOMAIN Empty = {}
    BY DEF Empty
  <1>2. Empty \in Tables(k)
    BY <1>1, IsTable
  <1>3. Cardinality(DOMAIN Empty) <= MAX[k]
    BY <1>1, FS_EmptySet, StoresAssumption
  <1> QED
    BY <1>1, <1>2, <1>3 DEF Good, Fits

\* An entry leaves the table.
LEMMA DropFits ==
    ASSUME NEW k \in Stores, NEW t, Good(k, t), NEW id
    PROVE  Good(k, Drop(t, id))
  <1>0. PICK u : u = Drop(t, id)
    OBVIOUS
  <1>1. DOMAIN u = DOMAIN t \ {id} /\ \A x \in DOMAIN u : u[x] = t[x]
    BY <1>0 DEF Drop
  <1>2. u \in [DOMAIN t \ {id} -> Candidates(k)]
    BY <1>0, GoodTable DEF Drop
  <1>3. u \in Tables(k)
    BY <1>2, GoodTable, IsTable
  <1>4. Cardinality(DOMAIN u) <= Cardinality(DOMAIN t)
    BY <1>1, GoodTable, FS_Subset
  <1>5. Cardinality(DOMAIN u) \in Nat /\ MAX[k] \in Nat
    <2>1. IsFiniteSet(DOMAIN u)
      BY <1>1, GoodTable, FS_Subset
    <2> QED
      BY <2>1, FS_CardinalityType, StoresAssumption
  <1>6. Fits(k, t)
    BY DEF Good
  <1>7. Cardinality(DOMAIN u) <= MAX[k]
    BY <1>4, <1>5, <1>6, GoodTable DEF Fits
  <1> QED
    BY <1>0, <1>1, <1>3, <1>6, <1>7 DEF Good, Fits

\* A whole entry comes in, or takes the place of another.
LEMMA PutFits ==
    ASSUME NEW k \in Stores, NEW t, Good(k, t), NEW id \in IdsOf(k),
           NEW e \in Candidates(k), e.whole,
           id \in DOMAIN t \/ ~(Cardinality(DOMAIN t) >= MAX[k]),
           k = "devices" => id # SystemDevice /\ ~qd_client_id_in_use(t, e.client, id)
    PROVE  Good(k, Put(t, id, e))
  <1>0. PICK u : u = Put(t, id, e)
    OBVIOUS
  <1>1. /\ DOMAIN u = DOMAIN t \cup {id} /\ u[id] = e
        /\ \A x \in DOMAIN t : x # id => u[x] = t[x]
    BY <1>0 DEF Put
  <1>2. u \in [DOMAIN t \cup {id} -> Candidates(k)]
    BY <1>0, GoodTable DEF Put
  <1>3. u \in Tables(k)
    BY <1>2, GoodTable, IsTable
  <1>4. Cardinality(DOMAIN u) = IF id \in DOMAIN t THEN Cardinality(DOMAIN t)
                                ELSE Cardinality(DOMAIN t) + 1
    BY <1>1, GoodTable, FS_AddElement
  <1>6. Fits(k, t) /\ MAX[k] \in Nat /\ Cardinality(DOMAIN t) \in Nat
    BY GoodTable, StoresAssumption DEF Good
  <1>7. Cardinality(DOMAIN u) <= MAX[k]
    BY <1>4, <1>6 DEF Fits
  <1>8. \A x \in DOMAIN u : u[x].whole
    BY <1>1, <1>6 DEF Fits
  <1>9. ASSUME k = "devices"
        PROVE  /\ SystemDevice \notin DOMAIN u
               /\ \A i, j \in DOMAIN u : i # j => u[i].client # u[j].client
    BY <1>1, <1>6, <1>9 DEF Fits, qd_client_id_in_use
  <1> QED
    BY <1>0, <1>3, <1>7, <1>8, <1>9 DEF Good, Fits

\* A list of n entries of a store.
Rows(k, n, list) == list \in [1 .. n -> IdsOf(k) \X Candidates(k)]

\* A table with the ids and entries of a list.
Holds(u, n, list) ==
    /\ \A x : x \in DOMAIN u <=> \E i \in 1 .. n : x = list[i][1]
    /\ \A i \in 1 .. n : u[list[i][1]] = list[i][2]

\* A list that an import accepts.
Listed(k, n, list) ==
    /\ Rows(k, n, list)
    /\ Distinct(list) /\ ~(Len(list) > MAX[k])
    /\ \A i \in 1 .. Len(list) : list[i][2].whole
    /\ k = "devices" =>
         /\ \A i \in 1 .. Len(list) : list[i][1] # SystemDevice
         /\ \A i, j \in 1 .. Len(list) : i # j => list[i][2].client # list[j][2].client

\* The table of a list has its ids and its entries.
LEMMA TableOfFacts ==
    ASSUME NEW k, NEW n \in Nat, NEW list, Rows(k, n, list), Distinct(list)
    PROVE  Len(list) = n /\ Holds(TableOf(list), n, list)
  <1>1. Len(list) = n
    BY ListFacts DEF Rows
  <1>2. \A x : x \in DOMAIN TableOf(list) <=> \E i \in 1 .. n : x = list[i][1]
    BY <1>1 DEF TableOf
  <1>3. ASSUME NEW i \in 1 .. n
        PROVE  TableOf(list)[list[i][1]] = list[i][2]
    <2>1. PICK j : j = CHOOSE m \in 1 .. Len(list) : list[m][1] = list[i][1]
      OBVIOUS
    <2>2. j \in 1 .. n /\ list[j][1] = list[i][1]
      BY <1>1, <2>1
    <2>3. j = i
      BY <1>1, <2>2 DEF Distinct
    <2>4. TableOf(list)[list[i][1]] = list[CHOOSE m \in 1 .. Len(list) : list[m][1] = list[i][1]][2]
      BY <1>1 DEF TableOf
    <2> QED
      BY <2>1, <2>3, <2>4
  <1> QED
    BY <1>1, <1>2, <1>3 DEF Holds

\* An accepted list becomes a table of the store.
LEMMA ListFits ==
    ASSUME NEW k \in Stores, NEW n \in Nat, NEW list, Listed(k, n, list)
    PROVE  Good(k, TableOf(list))
  <1>0. PICK u : u = TableOf(list)
    OBVIOUS
  <1>h. Len(list) = n /\ Holds(u, n, list)
    BY <1>0, TableOfFacts DEF Listed
  <1>1. /\ Len(list) = n
        /\ \A x : x \in DOMAIN u <=> \E i \in 1 .. n : x = list[i][1]
        /\ \A i \in 1 .. n : u[list[i][1]] = list[i][2]
    BY <1>h DEF Holds
  <1>l. \A i \in 1 .. n : list[i][1] \in IdsOf(k) /\ list[i][2] \in Candidates(k)
    BY DEF Listed, Rows
  <1>a. u = [x \in DOMAIN u |-> u[x]]
    BY <1>0 DEF TableOf
  <1>2. u \in [DOMAIN u -> Candidates(k)]
    BY <1>1, <1>a, <1>l
  <1>3. u \in Tables(k)
    BY <1>1, <1>2, <1>l, IsTable
  <1>4. Cardinality(DOMAIN u) <= n
    <2>1. [i \in 1 .. n |-> list[i][1]] \in Surjection(1 .. n, DOMAIN u)
      BY <1>1 DEF Surjection
    <2>2. IsFiniteSet(1 .. n) /\ Cardinality(1 .. n) = n
      BY FS_Interval
    <2> QED
      BY <2>1, <2>2, FS_Surjection
  <1>5. n <= MAX[k]
    BY <1>1, StoresAssumption DEF Listed
  <1>6. Cardinality(DOMAIN u) <= MAX[k]
    <2>1. IsFiniteSet(DOMAIN u)
      BY <1>1, <1>l, StoresAssumption, FS_Subset
    <2>2. Cardinality(DOMAIN u) \in Nat /\ MAX[k] \in Nat
      BY <2>1, FS_CardinalityType, StoresAssumption
    <2> QED
      BY <2>2, <1>4, <1>5
  <1>7. \A x \in DOMAIN u : u[x].whole
    BY <1>1 DEF Listed
  <1>8. ASSUME k = "devices"
        PROVE  /\ SystemDevice \notin DOMAIN u
               /\ \A i, j \in DOMAIN u : i # j => u[i].client # u[j].client
    BY <1>1, <1>8 DEF Listed
  <1> QED
    BY <1>0, <1>3, <1>6, <1>7, <1>8 DEF Good, Fits

\* SetToSeq lists every element once.
LEMMA SetToSeqFacts ==
    ASSUME NEW S, IsFiniteSet(S)
    PROVE  /\ Cardinality(S) \in Nat
           /\ SetToSeq(S) \in [1 .. Cardinality(S) -> S]
           /\ \A i, j \in 1 .. Cardinality(S) : SetToSeq(S)[i] = SetToSeq(S)[j] => i = j
           /\ \A x \in S : \E i \in 1 .. Cardinality(S) : SetToSeq(S)[i] = x
  <1>0. PICK n : n = Cardinality(S)
    OBVIOUS
  <1>1. n \in Nat /\ ExistsBijection(1 .. n, S)
    BY <1>0, FS_CardinalityType
  <1>2. \E f \in [1 .. n -> S] : IsInjective(f)
    BY <1>1 DEF ExistsBijection, Bijection, Injection
  <1>3. SetToSeq(S) \in [1 .. n -> S] /\ IsInjective(SetToSeq(S))
    BY <1>0, <1>2 DEF SetToSeq
  <1>4. SetToSeq(S) \in Injection(1 .. n, S)
    BY <1>3 DEF Injection
  <1>5. IsFiniteSet(1 .. n) /\ Cardinality(1 .. n) = n
    BY <1>1, FS_Interval
  <1>6. SetToSeq(S) \in Surjection(1 .. n, S)
    BY <1>0, <1>4, <1>5, FS_Injection
  <1> QED
    BY <1>0, <1>1, <1>3, <1>6 DEF Surjection, IsInjective

\* The file of a table gives the table back.
LEMMA ReadsBack ==
    ASSUME NEW k \in Stores, NEW t, Good(k, t)
    PROVE  /\ Listed(k, Cardinality(DOMAIN t), ListOf(t))
           /\ Cardinality(DOMAIN t) \in Nat
           /\ TableOf(ListOf(t)) = t
  <1>0. PICK n, s, l : n = Cardinality(DOMAIN t) /\ s = SetToSeq(DOMAIN t) /\ l = ListOf(t)
    OBVIOUS
  <1>1. /\ n \in Nat /\ s \in [1 .. n -> DOMAIN t]
        /\ \A i, j \in 1 .. n : s[i] = s[j] => i = j
        /\ \A x \in DOMAIN t : \E i \in 1 .. n : s[i] = x
    BY <1>0, GoodTable, SetToSeqFacts
  <1>2. l = [i \in 1 .. n |-> <<s[i], t[s[i]]>>]
    BY <1>0 DEF ListOf
  <1>3. Rows(k, n, l)
    BY <1>1, <1>2, GoodTable DEF Rows
  <1>4. Len(l) = n
    BY <1>1, <1>3, ListFacts DEF Rows
  <1>5. \A i \in 1 .. n : l[i][1] = s[i] /\ l[i][2] = t[s[i]]
    BY <1>2
  <1>6. Distinct(l)
    BY <1>1, <1>4, <1>5 DEF Distinct
  <1>7. Fits(k, t)
    BY DEF Good
  <1>8. ~(Len(l) > MAX[k])
    BY <1>0, <1>1, <1>4, <1>7, StoresAssumption DEF Fits
  <1>9. Listed(k, n, l)
    <2>1. \A i \in 1 .. n : l[i][2].whole
      BY <1>1, <1>5, <1>7 DEF Fits
    <2>2. ASSUME k = "devices"
          PROVE  /\ \A i \in 1 .. n : l[i][1] # SystemDevice
                 /\ \A i, j \in 1 .. n : i # j => l[i][2].client # l[j][2].client
      BY <1>1, <1>5, <1>7, <2>2 DEF Fits
    <2> QED
      BY <1>3, <1>4, <1>6, <1>8, <2>1, <2>2 DEF Listed
  <1>10. Holds(TableOf(l), n, l)
    BY <1>1, <1>3, <1>6, TableOfFacts
  <1>11. DOMAIN TableOf(l) = DOMAIN t
    <2>1. \A x : x \in DOMAIN TableOf(l) <=> \E i \in 1 .. n : x = s[i]
      BY <1>5, <1>10 DEF Holds
    <2>2. \A x : x \in DOMAIN TableOf(l) <=> x \in DOMAIN t
      BY <1>1, <2>1
    <2> QED
      BY <2>2
  <1>12. \A x \in DOMAIN t : TableOf(l)[x] = t[x]
    BY <1>1, <1>5, <1>10 DEF Holds
  <1>13. TableOf(l) = [x \in DOMAIN TableOf(l) |-> TableOf(l)[x]]
    BY DEF TableOf
  <1>14. TableOf(l) = t
    BY <1>11, <1>12, <1>13, GoodTable
  <1> QED
    BY <1>0, <1>1, <1>9, <1>14

-----------------------------------------------------------------------------
(* The operations on a table *)

\* The outcome of an operation on a table: a table of the store, and the same
\* table if the operation failed.
Outcome(k, t, out) ==
    /\ Good(k, out.table)
    /\ out.err # "ok" => out.table = t

\* The four upserts, with their checks.
LEMMA UpsertFits ==
    ASSUME NEW k \in Stores, k # "presets", Good(k, ram[k]),
           NEW id \in IdsOf(k), NEW e \in Candidates(k)
    PROVE  Outcome(k, ram[k], upsert(k, id, e))
  <1>0. PICK t : t = ram[k]
    OBVIOUS
  <1>1. CASE k = "devices"
    <2>1. upsert(k, id, e) = quest_device_upsert(t, id, e)
      BY <1>0, <1>1 DEF upsert
    <2>2. CASE ~qd_device_valid(id, e) \/ qd_client_id_in_use(t, e.client, id)
      BY <1>0, <2>1, <2>2 DEF quest_device_upsert, Outcome, Error
    <2>3. CASE /\ ~(~qd_device_valid(id, e) \/ qd_client_id_in_use(t, e.client, id))
               /\ id \notin DOMAIN t /\ Cardinality(DOMAIN t) >= MAX["devices"]
      BY <1>0, <2>1, <2>3 DEF quest_device_upsert, Outcome, Error
    <2>4. CASE /\ ~(~qd_device_valid(id, e) \/ qd_client_id_in_use(t, e.client, id))
               /\ ~(id \notin DOMAIN t /\ Cardinality(DOMAIN t) >= MAX["devices"])
      <3>1. Good(k, Put(t, id, e))
        BY <1>0, <1>1, <2>4, PutFits DEF qd_device_valid
      <3>2. upsert(k, id, e) = Accepted(Put(t, id, e))
        BY <2>1, <2>4 DEF quest_device_upsert
      <3> QED
        BY <3>1, <3>2 DEF Outcome, Accepted
    <2> QED
      BY <2>2, <2>3, <2>4
  <1>2. CASE k = "rooms"
    <2>1. upsert(k, id, e) = room_catalog_upsert(t, id, e)
      BY <1>0, <1>2 DEF upsert
    <2>2. ASSUME e.whole, id \in DOMAIN t \/ ~(Cardinality(DOMAIN t) >= MAX[k])
          PROVE  Good(k, Put(t, id, e))
      BY <1>0, <1>2, <2>2, PutFits
    <2> QED
      BY <1>0, <1>2, <2>1, <2>2 DEF room_catalog_upsert, Outcome, Error, Accepted
  <1>3. CASE k = "scenarios"
    <2>1. upsert(k, id, e) = room_scenario_add(t, id, e)
      BY <1>0, <1>3 DEF upsert
    <2>2. ASSUME e.whole, id \in DOMAIN t \/ ~(Cardinality(DOMAIN t) >= MAX[k])
          PROVE  Good(k, Put(t, id, e))
      BY <1>0, <1>3, <2>2, PutFits
    <2> QED
      BY <1>0, <1>3, <2>1, <2>2 DEF room_scenario_add, Outcome, Error, Accepted
  <1>4. CASE k = "profiles"
    <2>1. CASE gm_game_profile_validate_reference(e) # "ok"
      <3>1. upsert(k, id, e) = Error(gm_game_profile_validate_reference(e), t)
        BY <1>0, <1>4, <2>1 DEF upsert
      <3> QED
        BY <1>0, <3>1 DEF Outcome, Error
    <2>2. CASE gm_game_profile_validate_reference(e) = "ok"
      <3>1. upsert(k, id, e) = gm_game_profile_upsert(t, id, e)
        BY <1>0, <1>4, <2>2 DEF upsert
      <3>2. ASSUME e.whole, id \in DOMAIN t \/ ~(Cardinality(DOMAIN t) >= MAX[k])
            PROVE  Good(k, Put(t, id, e))
        BY <1>0, <1>4, <3>2, PutFits
      <3> QED
        BY <1>0, <1>4, <3>1, <3>2
        DEF gm_game_profile_upsert, gm_game_profile_valid, Outcome, Error, Accepted
    <2> QED
      BY <2>1, <2>2
  <1> QED
    BY <1>1, <1>2, <1>3, <1>4 DEF Stores

\* The four deletions.
LEMMA DeleteFits ==
    ASSUME NEW k \in Stores, k # "presets", Good(k, ram[k]), NEW id
    PROVE  Outcome(k, ram[k], delete(k, id))
  <1>0. Good(k, Drop(ram[k], id))
    BY DropFits
  <1>1. CASE k = "devices"
    BY <1>0, <1>1 DEF delete, quest_device_delete, Outcome, Error, Accepted
  <1>2. CASE k = "rooms"
    BY <1>0, <1>2 DEF delete, room_catalog_delete, Outcome, Error, Accepted
  <1>3. CASE k = "scenarios"
    BY <1>0, <1>3 DEF delete, room_scenario_delete, Outcome, Error, Accepted
  <1>4. CASE k = "profiles"
    BY <1>0, <1>4 DEF delete, gm_game_profile_delete, Outcome, Error, Accepted
  <1> QED
    BY <1>1, <1>2, <1>3, <1>4 DEF Stores

\* The five imports accept a list or leave the table as it is.
LEMMA ImportAccepts ==
    ASSUME NEW k \in Stores, NEW n \in Nat, NEW list, Rows(k, n, list)
    PROVE  \/ import(k, list) = Accepted(TableOf(list)) /\ Listed(k, n, list)
           \/ /\ import(k, list).err # "ok" /\ import(k, list).table = ram[k]
              /\ k # "presets" => ~Listed(k, n, list)
  <1>0. Len(list) = n
    BY ListFacts DEF Rows
  <1>1. CASE k = "devices"
    BY <1>0, <1>1 DEF import, quest_device_replace_all, qd_device_valid, Listed, Error, Accepted
  <1>2. CASE k = "rooms"
    BY <1>0, <1>2 DEF import, room_catalog_import_json, Listed, Error, Accepted
  <1>3. CASE k = "scenarios"
    BY <1>0, <1>3 DEF import, room_scenario_store_import_json, Listed, Error, Accepted
  <1>4. CASE k = "profiles"
    BY <1>0, <1>4 DEF import, gm_game_profile_import_json, gm_game_profile_valid, Listed, Error, Accepted
  <1>5. CASE k = "presets"
    BY <1>0, <1>5 DEF import, gm_sidebar_preset_import_json, gm_sidebar_preset_validate_one,
       Listed, Error, Accepted
  <1> QED
    BY <1>1, <1>2, <1>3, <1>4, <1>5 DEF Stores

\* An import of whatever list.
LEMMA ImportFits ==
    ASSUME NEW k \in Stores, Good(k, ram[k]), NEW n \in Nat, NEW list, Rows(k, n, list)
    PROVE  Outcome(k, ram[k], import(k, list))
  <1>1. CASE import(k, list) = Accepted(TableOf(list)) /\ Listed(k, n, list)
    BY <1>1, ListFits DEF Outcome, Accepted
  <1>2. CASE import(k, list).err # "ok" /\ import(k, list).table = ram[k]
    BY <1>2 DEF Outcome
  <1> QED
    BY <1>1, <1>2, ImportAccepts

\* What a file that holds a table of its store reads as.
LEMMA FileImports ==
    ASSUME NEW k \in Stores, NEW t, Good(k, t)
    PROVE  \/ import(k, ListOf(t)) = Accepted(t)
           \/ /\ import(k, ListOf(t)).err # "ok" /\ import(k, ListOf(t)).table = ram[k]
              /\ k = "presets"
  <1>0. PICK n, l : n = Cardinality(DOMAIN t) /\ l = ListOf(t)
    OBVIOUS
  <1>1. n \in Nat /\ Listed(k, n, l) /\ TableOf(l) = t
    BY <1>0, ReadsBack
  <1>2. Rows(k, n, l)
    BY <1>1 DEF Listed
  <1> QED
    BY <1>0, <1>1, <1>2, ImportAccepts

\* Reading a file: the table of the file, or nothing happens.
LEMMA LoadFits ==
    ASSUME NEW k \in Stores, TablesFit
    PROVE  /\ Outcome(k, ram[k], load(k))
           /\ load(k).err = "ok" => load(k).table = file[k].main
  <1>0. Good(k, ram[k])
    BY DEF TablesFit
  <1>1. CASE file[k].main = Nothing
    BY <1>0, <1>1 DEF load, Outcome, Error
  <1>2. CASE file[k].main # Nothing
    <2>1. Good(k, file[k].main)
      BY <1>2 DEF TablesFit
    <2>2. file[k].main # Torn
      BY <2>1, StoresAssumption DEF Good
    <2>3. load(k) = import(k, ListOf(file[k].main))
      BY <1>2, <2>2 DEF load
    <2>4. \/ load(k) = Accepted(file[k].main)
          \/ load(k).err # "ok" /\ load(k).table = ram[k]
      BY <2>1, <2>3, FileImports
    <2> QED
      BY <1>0, <2>1, <2>4 DEF Outcome, Accepted
  <1> QED
    BY <1>1, <1>2

\* The entries of a deleted room.
LEMMA ContentsListed ==
    ASSUME TablesFit, NEW r
    PROVE  RoomContents(r) \in Seq(Entries)
  <1>0. PICK P, S : /\ P = gm_game_profile_list_by_room(ram["profiles"], r)
                    /\ S = room_scenario_list_by_room(ram["scenarios"], r)
    OBVIOUS
  <1>1. P \subseteq ProfileIds /\ IsFiniteSet(P)
    <2>1. Good("profiles", ram["profiles"]) /\ "profiles" \in Stores
      BY DEF TablesFit, Stores
    <2>2. DOMAIN ram["profiles"] \subseteq ProfileIds /\ IsFiniteSet(DOMAIN ram["profiles"])
      BY <2>1, GoodTable DEF IdsOf
    <2>3. P \subseteq DOMAIN ram["profiles"]
      BY <1>0 DEF gm_game_profile_list_by_room
    <2> QED
      BY <2>2, <2>3, FS_Subset
  <1>2. S \subseteq ScenarioIds /\ IsFiniteSet(S)
    <2>1. Good("scenarios", ram["scenarios"]) /\ "scenarios" \in Stores
      BY DEF TablesFit, Stores
    <2>2. DOMAIN ram["scenarios"] \subseteq ScenarioIds /\ IsFiniteSet(DOMAIN ram["scenarios"])
      BY <2>1, GoodTable DEF IdsOf
    <2>3. S \subseteq DOMAIN ram["scenarios"]
      BY <1>0 DEF room_scenario_list_by_room
    <2> QED
      BY <2>2, <2>3, FS_Subset
  <1>3. PICK a : a = [i \in 1 .. Cardinality(P) |-> <<"profiles", SetToSeq(P)[i]>>]
    OBVIOUS
  <1>4. PICK b : b = [i \in 1 .. Cardinality(S) |-> <<"scenarios", SetToSeq(S)[i]>>]
    OBVIOUS
  <1>5. a \in Seq(Entries)
    <2>1. a \in [1 .. Cardinality(P) -> Entries] /\ Cardinality(P) \in Nat
      BY <1>1, <1>3, SetToSeqFacts DEF Entries
    <2> QED
      BY <2>1
  <1>6. b \in Seq(Entries)
    <2>1. b \in [1 .. Cardinality(S) -> Entries] /\ Cardinality(S) \in Nat
      BY <1>2, <1>4, SetToSeqFacts DEF Entries
    <2> QED
      BY <2>1
  <1>7. RoomContents(r) = a \o b
    BY <1>0, <1>3, <1>4 DEF RoomContents
  <1> QED
    BY <1>5, <1>6, <1>7

-----------------------------------------------------------------------------
(* The steps *)

\* Only ok is reported as done.
LEMMA OkIsDone == \A err : status_of(err) = "done" <=> err = "ok"
  BY DEF status_of

\* A table replaced in memory by another of the store.
LEMMA ApplyKeeps ==
    ASSUME StoresShape, TablesFit, NEW k \in Stores, NEW out, Outcome(k, ram[k], out),
           Apply(k, out), file' = file
    PROVE  /\ DOMAIN ram' = Stores /\ TablesFit'
           /\ ram'[k] = out.table
           /\ \A j \in Stores : j # k => ram'[j] = ram[j]
           /\ out.err # "ok" => \A j \in Stores : ram'[j] = ram[j]
  <1>1. /\ DOMAIN ram' = Stores /\ ram'[k] = out.table
        /\ \A j \in Stores : j # k => ram'[j] = ram[j]
    BY DEF Apply, StoresShape
  <1>2. TablesFit'
    BY <1>1 DEF TablesFit, Outcome
  <1>3. ASSUME out.err # "ok" PROVE \A j \in Stores : ram'[j] = ram[j]
    BY <1>1, <1>3 DEF Outcome
  <1> QED
    BY <1>1, <1>2, <1>3

\* The HTTP task has nothing else to do.
LEMMA IdleFacts ==
    /\ NoRequest.pc = "idle" /\ NoRequest.after = "answer" /\ NoRequest.todo = <<>>
    /\ DOMAIN NoRequest = {"pc", "k", "after", "room", "todo", "first"}
    /\ NoResult.status = "none"
  BY DEF NoRequest, NoResult, Doing

\* A request that ends in its first step, with a result that is either not a
\* success, about no store, or about a store whose file was read.
LEMMA EndsAtOnce ==
    ASSUME StoresShape, TablesFit', DOMAIN ram' = Stores, file' = file,
           serving' = NoRequest, boot' = <<>>,
           result'.status = "done" /\ result'.k # Nothing =>
               file'[result'.k].main = ram'[result'.k]
    PROVE  StoresInv'
  <1>1. StoresShape'
    BY DEF StoresShape
  <1>2. OneRequest'
    BY IdleFacts DEF OneRequest, Saving
  <1>3. TmpIsWritten' /\ RoomIsGone'
    BY IdleFacts DEF TmpIsWritten, RoomIsGone
  <1>4. AcknowledgedIsStored'
    BY DEF AcknowledgedIsStored
  <1> QED
    BY <1>1, <1>2, <1>3, <1>4 DEF StoresInv

\* A request on one store.
LEMMA RequestKeeps ==
    ASSUME StoresInv, NEW k \in Stores, NEW out, Outcome(k, ram[k], out), Request(k, out)
    PROVE  StoresInv'
  <1> USE DEF StoresInv
  <1>1. Apply(k, out) /\ file' = file /\ boot' = boot /\ boot = <<>>
    BY DEF Request, BeginRequest
  <1>2. /\ DOMAIN ram' = Stores /\ TablesFit'
    BY <1>1, ApplyKeeps
  <1>3. CASE out.err = "ok"
    <2>1. serving' = Doing("open", k, "answer", Nothing, <<>>, Nothing) /\ result' = NoResult
      BY <1>3 DEF Request
    <2>2. StoresShape'
      BY <1>1, <1>2 DEF StoresShape
    <2>3. /\ serving'.pc = "open" /\ serving'.k = k /\ serving'.after = "answer" /\ serving'.todo = <<>>
          /\ DOMAIN serving' = {"pc", "k", "after", "room", "todo", "first"} /\ serving' # NoRequest
      BY <2>1 DEF Doing, NoRequest
    <2>4. OneRequest'
      <3>1. <<>> \in Seq(Entries)
        OBVIOUS
      <3> QED
        BY <1>1, <2>1, <2>3, <3>1 DEF OneRequest, Saving
    <2>5. TmpIsWritten' /\ RoomIsGone' /\ AcknowledgedIsStored'
      BY <2>3 DEF TmpIsWritten, RoomIsGone, AcknowledgedIsStored
    <2> QED
      BY <1>2, <2>2, <2>4, <2>5
  <1>4. CASE out.err # "ok"
    <2>1. serving' = NoRequest /\ result'.status # "done"
      BY <1>4, OkIsDone DEF Request, Answer
    <2> QED
      BY <1>1, <1>2, <2>1, EndsAtOnce
  <1> QED
    BY <1>3, <1>4

\* A file is read again: at the operator's request, or at the first listing.
LEMMA LoadKeeps ==
    ASSUME StoresInv, NEW k \in Stores, LoadRequest(k)
    PROVE  StoresInv'
  <1> USE DEF StoresInv
  <1>1. PICK out : out = load(k)
    OBVIOUS
  <1>2. /\ Apply(k, out) /\ Answer(k, out.err) /\ file' = file
        /\ boot' = <<>> /\ serving' = NoRequest
    BY <1>1 DEF LoadRequest, BeginRequest
  <1>3. Outcome(k, ram[k], out) /\ (out.err = "ok" => out.table = file[k].main)
    BY <1>1, LoadFits
  <1>4. DOMAIN ram' = Stores /\ TablesFit' /\ ram'[k] = out.table
    BY <1>2, <1>3, ApplyKeeps
  <1>5. result'.k = k /\ (result'.status = "done" => out.err = "ok")
    BY <1>2, OkIsDone DEF Answer
  <1> QED
    BY <1>2, <1>3, <1>4, <1>5, EndsAtOnce

\* The presets are read at their first listing.
LEMMA EnsureLoadedKeeps == StoresInv /\ ensure_loaded => StoresInv'
  <1> SUFFICES ASSUME StoresInv, ensure_loaded PROVE StoresInv'
    OBVIOUS
  <1> USE DEF StoresInv
  <1>0. "presets" \in Stores
    BY DEF Stores
  <1>1. PICK out : out = load("presets")
    OBVIOUS
  <1>2. /\ Apply("presets", out) /\ file' = file /\ boot' = <<>> /\ serving' = NoRequest
        /\ result'.k = Nothing
    BY <1>1 DEF ensure_loaded, BeginRequest, Answer
  <1>3. Outcome("presets", ram["presets"], out)
    BY <1>0, <1>1, LoadFits
  <1>4. DOMAIN ram' = Stores /\ TablesFit'
    BY <1>0, <1>2, <1>3, ApplyKeeps
  <1> QED
    BY <1>2, <1>4, EndsAtOnce

\* At boot nothing is acknowledged.
LEMMA BootKeeps == StoresInv /\ boot_load => StoresInv'
  <1> SUFFICES ASSUME StoresInv, boot_load PROVE StoresInv'
    OBVIOUS
  <1> USE DEF StoresInv
  <1>0. PICK k, out : k = Head(boot) /\ out = load(Head(boot))
    OBVIOUS
  <1>1. k \in Stores /\ Tail(boot) \in Seq(Stores)
    BY <1>0 DEF StoresShape, boot_load
  <1>2. /\ Apply(k, out) /\ file' = file /\ boot' = Tail(boot) /\ serving' = serving /\ result' = result
        /\ serving = NoRequest /\ result = NoResult
    BY <1>0 DEF boot_load, OneRequest
  <1>3. Outcome(k, ram[k], out)
    BY <1>0, <1>1, LoadFits
  <1>4. DOMAIN ram' = Stores /\ TablesFit'
    BY <1>1, <1>2, <1>3, ApplyKeeps
  <1>5. StoresShape'
    BY <1>1, <1>2, <1>4 DEF StoresShape
  <1>6. OneRequest'
    BY <1>2, IdleFacts DEF OneRequest, Saving
  <1>7. TmpIsWritten' /\ RoomIsGone' /\ AcknowledgedIsStored'
    BY <1>2, IdleFacts DEF TmpIsWritten, RoomIsGone, AcknowledgedIsStored
  <1> QED
    BY <1>4, <1>5, <1>6, <1>7

\* After a loss of power only the card is left.
LEMMA PowerLossKeeps == StoresInv /\ power_loss => StoresInv'
  <1> SUFFICES ASSUME StoresInv, power_loss PROVE StoresInv'
    OBVIOUS
  <1> USE DEF StoresInv
  <1>1. /\ ram' = [k \in Stores |-> Empty] /\ boot' = StoreOrder /\ file' = file
        /\ serving' = NoRequest /\ result' = NoResult
    BY DEF power_loss
  <1>2. TablesFit'
    BY <1>1, EmptyFits DEF TablesFit
  <1>3. StoreOrder \in Seq(Stores)
    BY DEF StoreOrder, Stores
  <1>4. StoresShape'
    BY <1>1, <1>3 DEF StoresShape
  <1>6. OneRequest'
    BY <1>1, IdleFacts DEF OneRequest, Saving
  <1>7. TmpIsWritten' /\ RoomIsGone' /\ AcknowledgedIsStored'
    BY <1>1, IdleFacts DEF TmpIsWritten, RoomIsGone, AcknowledgedIsStored
  <1> QED
    BY <1>2, <1>4, <1>6, <1>7

\* What may be used by hand is no matter of the files.
LEMMA DescribeKeeps == ASSUME StoresInv, NEW d, describe(d) PROVE StoresInv'
  <1> USE DEF StoresInv
  <1>1. UNCHANGED <<ram, file, boot, serving, result>>
    BY DEF describe
  <1>2. StoresShape' /\ OneRequest' /\ TmpIsWritten' /\ RoomIsGone' /\ AcknowledgedIsStored'
    BY <1>1 DEF StoresShape, OneRequest, Saving, TmpIsWritten, RoomIsGone, AcknowledgedIsStored
  <1>3. TablesFit'
    BY <1>1 DEF TablesFit
  <1> QED
    BY <1>2, <1>3

\* A room is deleted, with what belongs to it to follow.
LEMMA DeleteRoomKeeps == ASSUME StoresInv, NEW r, delete_room(r) PROVE StoresInv'
  <1> USE DEF StoresInv
  <1>0. "rooms" \in Stores
    BY DEF Stores
  <1>1. PICK out : out = delete("rooms", r)
    OBVIOUS
  <1>2. /\ Apply("rooms", out) /\ file' = file /\ boot' = <<>> /\ boot = <<>>
        /\ serving' = CASE out.err = "ok" -> Doing("open", "rooms", "contents", r, <<>>, Nothing)
                   [] out.err = "not_found" ->
                        Doing("next", Nothing, "next", Nothing, RoomContents(r), Nothing)
                   [] OTHER -> NoRequest
        /\ IF out.err \in {"ok", "not_found"} THEN result' = NoResult
           ELSE Answer("rooms", out.err)
    BY <1>1 DEF delete_room, BeginRequest
  <1>3. Outcome("rooms", ram["rooms"], out)
    <2>1. Good("rooms", ram["rooms"])
      BY <1>0 DEF TablesFit
    <2> QED
      BY <1>0, <1>1, <2>1, DeleteFits
  <1>4. DOMAIN ram' = Stores /\ TablesFit'
    BY <1>0, <1>2, <1>3, ApplyKeeps
  <1>5. StoresShape'
    BY <1>2, <1>4 DEF StoresShape
  <1>6. RoomContents(r) \in Seq(Entries) /\ <<>> \in Seq(Entries)
    BY ContentsListed
  <1>7. CASE out.err = "ok"
    <2>1. serving' = Doing("open", "rooms", "contents", r, <<>>, Nothing) /\ result' = NoResult
      BY <1>2, <1>7
    <2>2. /\ serving'.pc = "open" /\ serving'.k = "rooms" /\ serving'.after = "contents" /\ serving'.todo = <<>>
          /\ DOMAIN serving' = {"pc", "k", "after", "room", "todo", "first"} /\ serving' # NoRequest
      BY <2>1 DEF Doing, NoRequest
    <2>3. OneRequest'
      BY <1>0, <1>2, <1>6, <2>1, <2>2 DEF OneRequest, Saving
    <2>4. TmpIsWritten' /\ RoomIsGone' /\ AcknowledgedIsStored'
      BY <2>2 DEF TmpIsWritten, RoomIsGone, AcknowledgedIsStored
    <2> QED
      BY <1>4, <1>5, <2>3, <2>4
  <1>8. CASE out.err = "not_found"
    <2>1. /\ serving' = Doing("next", Nothing, "next", Nothing, RoomContents(r), Nothing)
          /\ result' = NoResult
      BY <1>2, <1>8
    <2>2. /\ serving'.pc = "next" /\ serving'.after = "next" /\ serving'.todo = RoomContents(r)
          /\ serving'.first = Nothing
          /\ DOMAIN serving' = {"pc", "k", "after", "room", "todo", "first"} /\ serving' # NoRequest
      BY <2>1 DEF Doing, NoRequest
    <2>3. OneRequest'
      BY <1>2, <1>6, <2>1, <2>2 DEF OneRequest, Saving
    <2>4. TmpIsWritten' /\ RoomIsGone' /\ AcknowledgedIsStored'
      BY <2>2 DEF TmpIsWritten, RoomIsGone, AcknowledgedIsStored
    <2> QED
      BY <1>4, <1>5, <2>3, <2>4
  <1>9. CASE out.err \notin {"ok", "not_found"}
    <2>1. serving' = NoRequest /\ result'.status # "done"
      BY <1>2, <1>9, OkIsDone DEF Answer
    <2> QED
      BY <1>2, <1>4, <2>1, EndsAtOnce
  <1> QED
    BY <1>7, <1>8, <1>9

\* One entry of the room goes, or the request ends.
LEMMA DeleteNextKeeps == StoresInv /\ delete_next => StoresInv'
  <1> SUFFICES ASSUME StoresInv, delete_next PROVE StoresInv'
    OBVIOUS
  <1> USE DEF StoresInv
  <1>1. serving.pc = "next" /\ file' = file /\ boot' = boot
    BY DEF delete_next
  <1>2. /\ serving # NoRequest /\ serving.after = "next" /\ boot = <<>> /\ result = NoResult
        /\ serving.todo \in Seq(Entries) /\ DOMAIN serving = {"pc", "k", "after", "room", "todo", "first"}
    BY <1>1, IdleFacts DEF OneRequest, Saving
  <1>3. CASE serving.todo = <<>>
    <2>1. serving' = NoRequest /\ Answer(serving.first, "ok") /\ ram' = ram
      BY <1>3 DEF delete_next
    <2>2. result'.k = serving.first
      BY <2>1 DEF Answer
    <2>3. serving.first # Nothing => serving.first = "rooms" /\ file["rooms"].main = ram["rooms"]
      BY <1>2 DEF RoomIsGone
    <2>4. DOMAIN ram' = Stores /\ TablesFit'
      BY <1>1, <2>1 DEF StoresShape, TablesFit
    <2> QED
      BY <1>1, <1>2, <2>1, <2>2, <2>3, <2>4, EndsAtOnce
  <1>4. CASE serving.todo # <<>>
    <2>1. PICK k, out : k = serving.todo[1][1] /\ out = delete(serving.todo[1][1], serving.todo[1][2])
      OBVIOUS
    <2>2. /\ Apply(k, out) /\ result' = result
          /\ serving' = [serving EXCEPT !.pc = "open", !.k = k, !.todo = Tail(@)]
      BY <1>4, <2>1 DEF delete_next
    <2>3. serving.todo[1] \in Entries /\ Tail(serving.todo) \in Seq(Entries)
      BY <1>2, <1>4, SeqOfFacts
    <2>4. k \in {"profiles", "scenarios"} /\ k \in Stores /\ k # "rooms"
      BY <2>1, <2>3 DEF Entries, Stores
    <2>5. Outcome(k, ram[k], out)
      <3>1. Good(k, ram[k])
        BY <2>4 DEF TablesFit
      <3> QED
        BY <2>1, <2>4, <3>1, DeleteFits
    <2>6. DOMAIN ram' = Stores /\ TablesFit' /\ \A j \in Stores : j # k => ram'[j] = ram[j]
      BY <1>1, <2>2, <2>4, <2>5, ApplyKeeps
    <2>7. /\ serving'.pc = "open" /\ serving'.k = k /\ serving'.after = "next" /\ serving'.todo = Tail(serving.todo)
          /\ serving'.first = serving.first
          /\ DOMAIN serving' = {"pc", "k", "after", "room", "todo", "first"}
      BY <1>2, <2>2
    <2>8. StoresShape'
      BY <1>1, <2>6 DEF StoresShape
    <2>9. OneRequest'
      BY <1>1, <1>2, <2>2, <2>3, <2>4, <2>7 DEF OneRequest, Saving
    <2>10. RoomIsGone'
      <3>1. ram'["rooms"] = ram["rooms"]
        BY <2>4, <2>6 DEF Stores
      <3> QED
        BY <1>1, <1>2, <2>7, <3>1 DEF RoomIsGone
    <2>11. TmpIsWritten' /\ AcknowledgedIsStored'
      BY <2>7, IdleFacts DEF TmpIsWritten, AcknowledgedIsStored
    <2> QED
      BY <2>6, <2>8, <2>9, <2>10, <2>11
  <1> QED
    BY <1>3, <1>4

\* A step of a save touches the files of its store alone.
Touches(k) ==
    /\ UNCHANGED <<ram, boot>>
    /\ DOMAIN file' = Stores /\ DOMAIN file'[k] = {"main", "tmp"}
    /\ \A j \in Stores : j # k => file'[j] = file[j]

\* What such a step keeps.
LEMMA TouchKeeps ==
    ASSUME StoresInv, Saving, Touches(serving.k),
           file'[serving.k].main \in {Nothing, file[serving.k].main, ram[serving.k]}
    PROVE  StoresShape' /\ TablesFit'
  <1> USE DEF StoresInv
  <1>1. serving.k \in Stores
    BY DEF OneRequest
  <1>2. StoresShape'
    BY <1>1 DEF StoresShape, Touches
  <1>3. TablesFit'
    BY <1>1 DEF TablesFit, Touches
  <1> QED
    BY <1>2, <1>3

\* The save goes on.
LEMMA GoesOnKeeps ==
    ASSUME StoresInv, Saving, Touches(serving.k),
           file'[serving.k].main \in {Nothing, file[serving.k].main, ram[serving.k]},
           NEW pc \in {"write", "unlink", "rename"}, serving' = [serving EXCEPT !.pc = pc],
           result' = result,
           pc \in {"unlink", "rename"} => file'[serving.k].tmp = ram[serving.k]
    PROVE  StoresInv'
  <1> USE DEF StoresInv
  <1>1. StoresShape' /\ TablesFit'
    BY TouchKeeps
  <1>2. /\ serving.k \in Stores /\ DOMAIN serving = {"pc", "k", "after", "room", "todo", "first"}
        /\ boot = <<>> /\ result = NoResult
        /\ serving.after = "next" => serving.k \in {"profiles", "scenarios"}
    BY IdleFacts DEF OneRequest, Saving
  <1>3. /\ serving'.pc = pc /\ serving'.k = serving.k /\ serving'.after = serving.after /\ serving'.todo = serving.todo
        /\ serving'.first = serving.first
        /\ DOMAIN serving' = {"pc", "k", "after", "room", "todo", "first"}
    BY <1>2
  <1>4. UNCHANGED <<ram, boot>>
    BY DEF Touches
  <1>5. OneRequest'
    BY <1>2, <1>3, <1>4 DEF OneRequest, Saving
  <1>6. TmpIsWritten'
    BY <1>3, <1>4 DEF TmpIsWritten
  <1>7. RoomIsGone'
    <2>1. serving.after = "next" => file'["rooms"] = file["rooms"]
      BY <1>2 DEF Touches, Stores
    <2> QED
      BY <1>3, <1>4, <2>1 DEF RoomIsGone
  <1>8. AcknowledgedIsStored'
    BY <1>3, IdleFacts DEF AcknowledgedIsStored
  <1> QED
    BY <1>1, <1>5, <1>6, <1>7, <1>8

\* The save ends, well or not.
LEMMA SavedKeeps ==
    ASSUME StoresInv, Saving, Touches(serving.k),
           file'[serving.k].main \in {Nothing, file[serving.k].main, ram[serving.k]},
           NEW err \in {"ok", "fail"}, Saved(err),
           err = "ok" => file'[serving.k].main = ram[serving.k]
    PROVE  StoresInv'
  <1> USE DEF StoresInv
  <1>1. StoresShape' /\ TablesFit'
    BY TouchKeeps
  <1>2. /\ serving.k \in Stores /\ DOMAIN serving = {"pc", "k", "after", "room", "todo", "first"}
        /\ boot = <<>> /\ result = NoResult /\ serving.todo \in Seq(Entries)
        /\ serving.after = "next" => serving.k \in {"profiles", "scenarios"}
        /\ serving.after = "contents" => serving.k = "rooms"
    BY IdleFacts DEF OneRequest, Saving
  <1>4. UNCHANGED <<ram, boot>>
    BY DEF Touches
  <1>5. CASE serving.after = "next"
    <2>1. serving' = [serving EXCEPT !.pc = "next", !.k = Nothing] /\ result' = result
      BY <1>5 DEF Saved
    <2>2. /\ serving'.pc = "next" /\ serving'.after = "next" /\ serving'.todo = serving.todo
          /\ serving'.first = serving.first
          /\ DOMAIN serving' = {"pc", "k", "after", "room", "todo", "first"}
      BY <1>2, <1>5, <2>1
    <2>3. OneRequest'
      BY <1>2, <1>4, <2>1, <2>2 DEF OneRequest, Saving
    <2>4. file'["rooms"] = file["rooms"]
      BY <1>2, <1>5 DEF Touches, Stores
    <2>5. RoomIsGone'
      BY <1>4, <1>5, <2>2, <2>4 DEF RoomIsGone
    <2>6. TmpIsWritten' /\ AcknowledgedIsStored'
      BY <2>2, IdleFacts DEF TmpIsWritten, AcknowledgedIsStored
    <2> QED
      BY <1>1, <2>3, <2>5, <2>6
  <1>6. CASE serving.after = "contents" /\ err = "ok"
    <2>1. /\ serving' = Doing("next", Nothing, "next", Nothing, RoomContents(serving.room), "rooms")
          /\ result' = result
      BY <1>6 DEF Saved
    <2>2. /\ serving'.pc = "next" /\ serving'.after = "next" /\ serving'.todo = RoomContents(serving.room)
          /\ serving'.first = "rooms"
          /\ DOMAIN serving' = {"pc", "k", "after", "room", "todo", "first"}
      BY <2>1 DEF Doing
    <2>3. RoomContents(serving.room) \in Seq(Entries)
      BY ContentsListed
    <2>4. OneRequest'
      BY <1>2, <1>4, <2>1, <2>2, <2>3 DEF OneRequest, Saving
    <2>5. RoomIsGone'
      BY <1>2, <1>4, <1>6, <2>2 DEF RoomIsGone
    <2>6. TmpIsWritten' /\ AcknowledgedIsStored'
      BY <2>2, IdleFacts DEF TmpIsWritten, AcknowledgedIsStored
    <2> QED
      BY <1>1, <2>4, <2>5, <2>6
  <1>7. CASE serving.after # "next" /\ ~(serving.after = "contents" /\ err = "ok")
    <2>1. serving' = NoRequest /\ Answer(serving.k, err)
      BY <1>7 DEF Saved
    <2>2. result'.k = serving.k /\ (result'.status = "done" => err = "ok")
      BY <2>1, OkIsDone DEF Answer
    <2>3. OneRequest'
      BY <1>2, <1>4, <2>1, IdleFacts DEF OneRequest, Saving
    <2>4. TmpIsWritten' /\ RoomIsGone'
      BY <2>1, IdleFacts DEF TmpIsWritten, RoomIsGone
    <2>5. AcknowledgedIsStored'
      BY <1>4, <2>2 DEF AcknowledgedIsStored
    <2> QED
      BY <1>1, <2>3, <2>4, <2>5
  <1> QED
    BY <1>5, <1>6, <1>7

\* The four steps of a save, each of which may fail but the removal.
LEMMA SaveKeeps == ASSUME StoresInv, NEW k, SaveStep(k) PROVE StoresInv'
  <1>1. Saving /\ serving.k = k
    BY DEF SaveStep, Saving
  <1>2. /\ serving.k \in Stores /\ DOMAIN file = Stores /\ DOMAIN file[serving.k] = {"main", "tmp"}
    BY <1>1 DEF StoresInv, OneRequest, StoresShape
  <1>3. ASSUME save_open PROVE StoresInv'
    <2>1. UNCHANGED <<ram, boot>>
      BY <1>3 DEF save_open, Rest
    <2>2. CASE /\ file' = [file EXCEPT ![serving.k].tmp = Torn] /\ serving' = [serving EXCEPT !.pc = "write"]
               /\ result' = result
      <3>1. Touches(serving.k) /\ file'[serving.k].main = file[serving.k].main
        BY <1>2, <2>1, <2>2 DEF Touches
      <3> QED
        BY <1>1, <2>2, <3>1, GoesOnKeeps
    <2>3. CASE file' = file /\ Saved("fail")
      <3>1. Touches(serving.k) /\ file'[serving.k].main = file[serving.k].main
        BY <1>2, <2>1, <2>3 DEF Touches
      <3> QED
        BY <1>1, <2>3, <3>1, SavedKeeps
    <2> QED
      BY <1>3, <2>2, <2>3 DEF save_open
  <1>4. ASSUME save_write PROVE StoresInv'
    <2>1. UNCHANGED <<ram, boot>>
      BY <1>4 DEF save_write, Rest
    <2>2. CASE /\ file' = [file EXCEPT ![serving.k].tmp = ram[serving.k]] /\ serving' = [serving EXCEPT !.pc = "unlink"]
               /\ result' = result
      <3>1. /\ Touches(serving.k) /\ file'[serving.k].main = file[serving.k].main
            /\ file'[serving.k].tmp = ram[serving.k]
        BY <1>2, <2>1, <2>2 DEF Touches
      <3> QED
        BY <1>1, <2>2, <3>1, GoesOnKeeps
    <2>3. CASE file' = [file EXCEPT ![serving.k].tmp = Nothing] /\ Saved("fail")
      <3>1. Touches(serving.k) /\ file'[serving.k].main = file[serving.k].main
        BY <1>2, <2>1, <2>3 DEF Touches
      <3> QED
        BY <1>1, <2>3, <3>1, SavedKeeps
    <2> QED
      BY <1>4, <2>2, <2>3 DEF save_write
  <1>5. ASSUME save_unlink PROVE StoresInv'
    <2>1. /\ UNCHANGED <<ram, boot>> /\ file' = [file EXCEPT ![serving.k].main = Nothing]
          /\ serving' = [serving EXCEPT !.pc = "rename"] /\ result' = result /\ serving.pc = "unlink"
      BY <1>5 DEF save_unlink, Rest
    <2>2. /\ Touches(serving.k) /\ file'[serving.k].main = Nothing /\ file'[serving.k].tmp = file[serving.k].tmp
      BY <1>2, <2>1 DEF Touches
    <2>3. file'[serving.k].tmp = ram[serving.k]
      BY <2>1, <2>2 DEF StoresInv, TmpIsWritten
    <2> QED
      BY <1>1, <2>1, <2>2, <2>3, GoesOnKeeps
  <1>6. ASSUME save_rename PROVE StoresInv'
    <2>1. UNCHANGED <<ram, boot>> /\ serving.pc = "rename"
      BY <1>6 DEF save_rename, Rest
    <2>2. CASE /\ file' = [file EXCEPT ![serving.k] = [main |-> @.tmp, tmp |-> Nothing]]
               /\ Saved("ok")
      <3>1. Touches(serving.k) /\ file'[serving.k].main = file[serving.k].tmp
        BY <1>2, <2>1, <2>2 DEF Touches
      <3>2. file'[serving.k].main = ram[serving.k]
        BY <2>1, <3>1 DEF StoresInv, TmpIsWritten
      <3> QED
        BY <1>1, <2>2, <3>1, <3>2, SavedKeeps
    <2>3. CASE file' = [file EXCEPT ![serving.k].tmp = Nothing] /\ Saved("fail")
      <3>1. Touches(serving.k) /\ file'[serving.k].main = file[serving.k].main
        BY <1>2, <2>1, <2>3 DEF Touches
      <3> QED
        BY <1>1, <2>3, <3>1, SavedKeeps
    <2> QED
      BY <1>6, <2>2, <2>3 DEF save_rename
  <1> QED
    BY <1>3, <1>4, <1>5, <1>6 DEF SaveStep

-----------------------------------------------------------------------------
(* The theorems *)

\* The stores start with the card's tables and empty memory.
LEMMA StoresStart == StoresInit => StoresInv
  <1> SUFFICES ASSUME StoresInit PROVE StoresInv
    OBVIOUS
  <1>1. PICK card \in FirstCards : file = [k \in Stores |-> [main |-> card[k], tmp |-> Nothing]]
    BY DEF StoresInit
  <1>2. /\ ram = [k \in Stores |-> Empty] /\ boot = StoreOrder
        /\ serving = NoRequest /\ result = NoResult
    BY DEF StoresInit
  <1>3. TablesFit
    <2>1. \A k \in Stores : card[k] = Nothing \/ Good(k, card[k])
      BY <1>1, StoresAssumption DEF Good
    <2> QED
      BY <1>1, <1>2, <2>1, EmptyFits DEF TablesFit
  <1>4. StoreOrder \in Seq(Stores)
    BY DEF StoreOrder, Stores
  <1>5. StoresShape
    BY <1>1, <1>2, <1>4 DEF StoresShape
  <1>6. OneRequest
    BY <1>2, IdleFacts DEF OneRequest, Saving
  <1>7. TmpIsWritten /\ RoomIsGone /\ AcknowledgedIsStored
    BY <1>2, IdleFacts DEF TmpIsWritten, RoomIsGone, AcknowledgedIsStored
  <1> QED
    BY <1>3, <1>5, <1>6, <1>7 DEF StoresInv

\* The requests of one store, each an operation with an outcome that fits.
LEMMA RequestsKeep ==
    ASSUME StoresInv, NEW k \in Stores
    PROVE  /\ Save(k) /\ k # "presets" => StoresInv'
           /\ Delete(k) /\ k # "presets" => StoresInv'
           /\ Import(k) => StoresInv'
           /\ StoreSave(k) => StoresInv'
  <1>0. Good(k, ram[k])
    BY DEF StoresInv, TablesFit
  <1>1. ASSUME Save(k), k # "presets" PROVE StoresInv'
    <2>1. PICK id \in IdsOf(k), e \in Candidates(k) : Request(k, upsert(k, id, e))
      BY <1>1 DEF Save
    <2>2. Outcome(k, ram[k], upsert(k, id, e))
      BY <1>0, <1>1, UpsertFits
    <2> QED
      BY <2>1, <2>2, RequestKeeps
  <1>2. ASSUME Delete(k), k # "presets" PROVE StoresInv'
    <2>1. PICK id \in IdsOf(k) : Request(k, delete(k, id))
      BY <1>2 DEF Delete
    <2>2. Outcome(k, ram[k], delete(k, id))
      BY <1>0, <1>2, DeleteFits
    <2> QED
      BY <2>1, <2>2, RequestKeeps
  <1>3. ASSUME Import(k) PROVE StoresInv'
    <2>1. PICK n \in 0 .. MAX_LIST : \E list \in [1 .. n -> IdsOf(k) \X Candidates(k)] :
                 Request(k, import(k, list))
      BY <1>3 DEF Import
    <2>2. PICK list \in [1 .. n -> IdsOf(k) \X Candidates(k)] : Request(k, import(k, list))
      BY <2>1
    <2>3. n \in Nat /\ Rows(k, n, list)
      BY StoresAssumption DEF Rows
    <2>4. Outcome(k, ram[k], import(k, list))
      BY <1>0, <2>3, ImportFits
    <2> QED
      BY <2>2, <2>4, RequestKeeps
  <1>4. ASSUME StoreSave(k) PROVE StoresInv'
    <2>1. Outcome(k, ram[k], Accepted(ram[k]))
      BY <1>0 DEF Outcome, Accepted
    <2> QED
      BY <1>4, <2>1, RequestKeeps DEF StoreSave
  <1> QED
    BY <1>1, <1>2, <1>3, <1>4

\* Every step of the stores keeps the invariant.
LEMMA StoresStep == StoresInv /\ [StoresNext]_store_vars => StoresInv'
  <1> SUFFICES ASSUME StoresInv, [StoresNext]_store_vars PROVE StoresInv'
    OBVIOUS
  <1>0. /\ "devices" \in Stores /\ "rooms" \in Stores /\ "scenarios" \in Stores
        /\ "profiles" \in Stores /\ "presets" \in Stores
    BY DEF Stores
  <1>1. CASE UNCHANGED store_vars
    <2>1. UNCHANGED <<ram, file, boot, serving, result>>
      BY <1>1 DEF store_vars
    <2>2. StoresShape' /\ OneRequest' /\ TmpIsWritten' /\ RoomIsGone' /\ AcknowledgedIsStored'
      BY <2>1 DEF StoresInv, StoresShape, OneRequest, Saving, TmpIsWritten, RoomIsGone,
         AcknowledgedIsStored
    <2>3. TablesFit'
      BY <2>1 DEF StoresInv, TablesFit
    <2> QED
      BY <2>2, <2>3 DEF StoresInv
  <1>2. CASE save_device \/ save_room \/ save_scenario \/ save_profile
    BY <1>0, <1>2, RequestsKeep DEF save_device, save_room, save_scenario, save_profile
  <1>3. CASE delete_device \/ delete_scenario \/ delete_profile
    BY <1>0, <1>3, RequestsKeep DEF delete_device, delete_scenario, delete_profile
  <1>4. CASE import_devices \/ import_scenarios \/ import_profiles \/ save_sidebar_presets
    BY <1>0, <1>4, RequestsKeep
    DEF import_devices, import_scenarios, import_profiles, save_sidebar_presets
  <1>5. CASE save_devices_store \/ save_scenarios_store \/ save_profiles_store
    BY <1>0, <1>5, RequestsKeep DEF save_devices_store, save_scenarios_store, save_profiles_store
  <1>6. CASE load_devices \/ load_scenarios \/ load_profiles \/ load_sidebar_presets
    BY <1>0, <1>6, LoadKeeps
    DEF load_devices, load_scenarios, load_profiles, load_sidebar_presets
  <1>7. CASE \E r \in IdsOf("rooms") : delete_room(r)
    BY <1>7, DeleteRoomKeeps
  <1>8. CASE \/ quest_device_save_to_path_locked \/ room_catalog_save_to_path_locked
             \/ room_scenario_store_save_to_path_locked \/ gm_game_profile_save_to_path_locked
             \/ gm_sidebar_preset_save_to_path_locked
    BY <1>8, SaveKeeps
    DEF quest_device_save_to_path_locked, room_catalog_save_to_path_locked,
        room_scenario_store_save_to_path_locked, gm_game_profile_save_to_path_locked,
        gm_sidebar_preset_save_to_path_locked
  <1>9. CASE \E d \in DeviceIds : describe(d)
    BY <1>9, DescribeKeeps
  <1> QED
    BY <1>1, <1>2, <1>3, <1>4, <1>5, <1>6, <1>7, <1>8, <1>9,
       DeleteNextKeeps, BootKeeps, EnsureLoadedKeeps, PowerLossKeeps DEF StoresNext

\* For every size of the stores and any number of faults: what a store wrote
\* to the card it reads back as it was, unless the card has no file of it.
THEOREM StoresReload == StoresSpec => []FilesReload
  <1>1. StoresInv => FilesReload
    <2> SUFFICES ASSUME StoresInv, NEW k \in Stores
                 PROVE  /\ DOMAIN ram[k] \subseteq IdsOf(k) /\ Cardinality(DOMAIN ram[k]) <= MAX[k]
                        /\ file[k].main # Nothing =>
                             /\ file[k].main # Torn
                             /\ k # "presets" =>
                                  import(k, ListOf(file[k].main)) = Accepted(file[k].main)
      BY DEF FilesReload
    <2>1. Good(k, ram[k]) /\ (file[k].main = Nothing \/ Good(k, file[k].main))
      BY DEF StoresInv, TablesFit
    <2>2. DOMAIN ram[k] \subseteq IdsOf(k) /\ Cardinality(DOMAIN ram[k]) <= MAX[k]
      BY <2>1, GoodTable DEF Good, Fits
    <2>3. ASSUME file[k].main # Nothing
          PROVE  /\ file[k].main # Torn
                 /\ k # "presets" => import(k, ListOf(file[k].main)) = Accepted(file[k].main)
      <3>1. Good(k, file[k].main)
        BY <2>1, <2>3
      <3>2. file[k].main # Torn
        BY <3>1, StoresAssumption DEF Good
      <3> QED
        BY <3>1, <3>2, FileImports
    <2> QED
      BY <2>2, <2>3
  <1> QED
    BY <1>1, StoresStart, StoresStep, PTL DEF StoresSpec

\* What the operator was told is saved is on the card, whatever file operation
\* failed before and wherever power was lost.
THEOREM AcknowledgedIsOnCard == StoresSpec => []AcknowledgedIsStored
  <1>1. StoresInv => AcknowledgedIsStored
    BY DEF StoresInv
  <1> QED
    BY <1>1, StoresStart, StoresStep, PTL DEF StoresSpec

-----------------------------------------------------------------------------
(* The audio files: the two parsers.                                        *)

\* What one round of the asset's parser makes of its state p and a chunk.
ReadChunk(p, c) ==
    IF p.verdict # 0 THEN p
    ELSE IF c.id = "fmt" THEN [fmt |-> TRUE, verdict |-> IF c.size < 16 \/ ~AcceptedFormat(c) THEN 2 ELSE 0]
    ELSE IF c.id = "data" THEN [fmt |-> p.fmt, verdict |-> IF ~p.fmt \/ c.size = 0 THEN 2 ELSE 1]
    ELSE p

FirstState == [fmt |-> FALSE, verdict |-> 0]

\* g lists the states of the parser over the first n chunks.
Parses(ch, n, g) == /\ DOMAIN g = 0 .. n /\ g[0] = FirstState
                    /\ \A i \in 1 .. n : g[i] = ReadChunk(g[i - 1], ch[i])

\* The parser's loop can be carried through.
LEMMA ParsesExist ==
    ASSUME NEW ch, NEW m \in Nat
    PROVE  \E g : Parses(ch, m, g)
  <1> DEFINE S == {n \in Nat : \E g : Parses(ch, n, g)}
  <1>1. 0 \in S
    <2>1. Parses(ch, 0, [i \in 0 .. 0 |-> FirstState])
      BY DEF Parses
    <2> QED
      BY <2>1
  <1>2. ASSUME NEW n \in Nat, n \in S
        PROVE  n + 1 \in S
    <2>1. PICK g : Parses(ch, n, g)
      BY <1>2
    <2> DEFINE h == [i \in 0 .. n + 1 |-> IF i = n + 1 THEN ReadChunk(g[n], ch[n + 1]) ELSE g[i]]
    <2>2. Parses(ch, n + 1, h)
      BY <2>1 DEF Parses
    <2> QED
      BY <2>2
  <1>3. Nat \subseteq S
    <2> HIDE DEF S
    <2> QED
      BY <1>1, <1>2, SetInduction
  <1> QED
    BY <1>3

\* The recursive function of the asset's parser is such a list.
LEMMA ParserLoop ==
    ASSUME NEW f, Len(f.chunks) \in Nat
    PROVE  \E g : /\ Parses(f.chunks, Len(f.chunks), g)
                  /\ asset_parse_wav(f) <=> f.magic = "RIFF" /\ g[Len(f.chunks)].verdict = 1
  <1> DEFINE n == Len(f.chunks)
             s == CHOOSE h : h = [i \in 0 .. n |-> IF i = 0 THEN FirstState
                                                   ELSE ReadChunk(h[i - 1], f.chunks[i])]
  <1>1. \E h : h = [i \in 0 .. n |-> IF i = 0 THEN FirstState ELSE ReadChunk(h[i - 1], f.chunks[i])]
    <2>1. PICK g : Parses(f.chunks, n, g)
      BY ParsesExist
    <2> DEFINE h == [i \in 0 .. n |-> g[i]]
    <2>2. \A i \in 0 .. n : h[i] = IF i = 0 THEN FirstState ELSE ReadChunk(h[i - 1], f.chunks[i])
      BY <2>1 DEF Parses
    <2>3. h = [i \in 0 .. n |-> IF i = 0 THEN FirstState ELSE ReadChunk(h[i - 1], f.chunks[i])]
      BY <2>2
    <2> QED
      BY <2>3
  <1>2. s = [i \in 0 .. n |-> IF i = 0 THEN FirstState ELSE ReadChunk(s[i - 1], f.chunks[i])]
    BY <1>1
  <1>3. asset_parse_wav(f) <=> f.magic = "RIFF" /\ s[n].verdict = 1
    BY DEF asset_parse_wav, ReadChunk, FirstState
  <1> HIDE DEF s
  <1>4. Parses(f.chunks, n, s)
    BY <1>2 DEF Parses
  <1> QED
    BY <1>3, <1>4

\* What the reader's parser asks of the chunks before the data.
GoodFmt(c) == c.size >= 16 /\ AcceptedFormat(c)
Clean(ch, n) == \A j \in 1 .. n : ch[j].id # "data" /\ (ch[j].id = "fmt" => GoodFmt(ch[j]))
HasFmt(ch, n) == \E j \in 1 .. n : ch[j].id = "fmt"
Playable(ch, i) == /\ ch[i].id = "data" /\ ch[i].size # 0
                   /\ Clean(ch, i - 1) /\ HasFmt(ch, i - 1)
PlayableIn(ch, n) == \E i \in 1 .. n : Playable(ch, i)

\* One chunk more.
LEMMA OneMore ==
    ASSUME NEW ch, NEW n \in Nat
    PROVE  /\ Clean(ch, n + 1) <=> Clean(ch, n) /\ ch[n + 1].id # "data"
                                   /\ (ch[n + 1].id = "fmt" => GoodFmt(ch[n + 1]))
           /\ HasFmt(ch, n + 1) <=> HasFmt(ch, n) \/ ch[n + 1].id = "fmt"
           /\ PlayableIn(ch, n + 1) <=> PlayableIn(ch, n) \/ Playable(ch, n + 1)
           /\ Clean(ch, n) => ~PlayableIn(ch, n)
           /\ Playable(ch, n + 1) <=> ch[n + 1].id = "data" /\ ch[n + 1].size # 0
                                      /\ Clean(ch, n) /\ HasFmt(ch, n)
  <1>1. /\ \A j \in 1 .. n + 1 : j \in 1 .. n \/ j = n + 1
        /\ \A j \in 1 .. n : j \in 1 .. n + 1
        /\ n + 1 \in 1 .. n + 1 /\ (n + 1) - 1 = n
    OBVIOUS
  <1>2. Clean(ch, n + 1) <=> Clean(ch, n) /\ ch[n + 1].id # "data"
                             /\ (ch[n + 1].id = "fmt" => GoodFmt(ch[n + 1]))
    BY <1>1, Zenon DEF Clean
  <1>3. HasFmt(ch, n + 1) <=> HasFmt(ch, n) \/ ch[n + 1].id = "fmt"
    BY <1>1, Zenon DEF HasFmt
  <1>4. PlayableIn(ch, n + 1) <=> PlayableIn(ch, n) \/ Playable(ch, n + 1)
    BY <1>1, Zenon DEF PlayableIn
  <1>5. Clean(ch, n) => ~PlayableIn(ch, n)
    BY Zenon DEF Clean, PlayableIn, Playable
  <1>6. Playable(ch, n + 1) <=> ch[n + 1].id = "data" /\ ch[n + 1].size # 0
                                /\ Clean(ch, n) /\ HasFmt(ch, n)
    BY <1>1, Zenon DEF Playable
  <1> QED
    BY <1>2, <1>3, <1>4, <1>5, <1>6

\* State v of the asset's parser after n chunks, in the words of the reader's.
Says(ch, n, v) == /\ v.verdict \in {0, 1, 2}
                  /\ v.verdict = 0 <=> Clean(ch, n)
                  /\ v.verdict = 0 => (v.fmt <=> HasFmt(ch, n))
                  /\ v.verdict = 1 <=> PlayableIn(ch, n)

\* The asset's parser goes on saying what the reader's will.
LEMMA SaysMore ==
    ASSUME NEW ch, NEW n \in Nat, NEW p, NEW q, Says(ch, n, p),
           ch[n + 1].size \in Nat, q = ReadChunk(p, ch[n + 1])
    PROVE  Says(ch, n + 1, q)
  <1> DEFINE c == ch[n + 1]
  <1>1. CASE p.verdict # 0
    <2>1. q = p
      BY <1>1 DEF ReadChunk
    <2> QED
      BY <1>1, <2>1, OneMore DEF Says
  <1>2. CASE p.verdict = 0 /\ c.id = "fmt"
    <2>1. q.fmt = TRUE /\ q.verdict = IF c.size < 16 \/ ~AcceptedFormat(c) THEN 2 ELSE 0
      BY <1>2 DEF ReadChunk
    <2>2. GoodFmt(c) <=> ~(c.size < 16 \/ ~AcceptedFormat(c))
      BY DEF GoodFmt
    <2>3. (q.verdict = 0 <=> GoodFmt(c)) /\ q.verdict \in {0, 2}
      BY <2>1, <2>2
    <2> QED
      BY <1>2, <2>1, <2>3, OneMore DEF Says
  <1>3. CASE p.verdict = 0 /\ c.id = "data"
    <2>1. q.verdict = IF ~p.fmt \/ c.size = 0 THEN 2 ELSE 1
      BY <1>3 DEF ReadChunk
    <2>2. (q.verdict = 1 <=> p.fmt /\ c.size # 0) /\ q.verdict \in {1, 2}
      BY <2>1
    <2> QED
      BY <1>3, <2>2, OneMore DEF Says
  <1>4. CASE p.verdict = 0 /\ c.id # "fmt" /\ c.id # "data"
    <2>1. q = p
      BY <1>4 DEF ReadChunk
    <2> QED
      BY <1>4, <2>1, OneMore DEF Says
  <1> QED
    BY <1>1, <1>2, <1>3, <1>4

ChunkSet == [id : STRING, size : Nat, pcm : Nat, rate : Nat, channels : Nat, bits : Nat, align : Nat]

\* The two parsers accept the same files.
LEMMA ParsersAgree ==
    ASSUME NEW f, f.chunks \in Seq(ChunkSet)
    PROVE  asset_parse_wav(f) <=> parse_wav_header(f)
  <1>1. PICK ch : ch = f.chunks
    OBVIOUS
  <1>2. PICK m : m = Len(ch)
    OBVIOUS
  <1>3. m \in Nat /\ DOMAIN ch = 1 .. m /\ \A i \in 1 .. m : ch[i].size \in Nat
    <2>1. ch \in Seq(ChunkSet)
      BY <1>1
    <2>2. m \in Nat /\ DOMAIN ch = 1 .. m /\ \A i \in 1 .. m : ch[i] \in ChunkSet
      BY <1>2, <2>1
    <2>3. \A c \in ChunkSet : c.size \in Nat
      BY DEF ChunkSet
    <2> QED
      BY <2>2, <2>3
  <1>4. PICK g : /\ Parses(ch, m, g)
                 /\ asset_parse_wav(f) <=> f.magic = "RIFF" /\ g[m].verdict = 1
    BY <1>1, <1>2, <1>3, ParserLoop
  <1> DEFINE S == {n \in Nat : n <= m => Says(ch, n, g[n])}
  <1>5. 0 \in S
    <2>1. g[0].fmt = FALSE /\ g[0].verdict = 0
      BY <1>4 DEF Parses, FirstState
    <2>2. Clean(ch, 0) /\ ~HasFmt(ch, 0) /\ ~PlayableIn(ch, 0)
      BY DEF Clean, HasFmt, PlayableIn
    <2> QED
      BY <2>1, <2>2 DEF Says
  <1>6. ASSUME NEW n \in Nat, n \in S
        PROVE  n + 1 \in S
    <2> SUFFICES ASSUME n + 1 <= m PROVE Says(ch, n + 1, g[n + 1])
      OBVIOUS
    <2>1. n + 1 \in 1 .. m /\ (n + 1) - 1 = n /\ n <= m
      BY <1>3
    <2>2. g[n + 1] = ReadChunk(g[n], ch[n + 1])
      BY <1>4, <2>1 DEF Parses
    <2>3. Says(ch, n, g[n])
      BY <1>6, <2>1
    <2> QED
      BY <1>3, <2>1, <2>2, <2>3, SaysMore
  <1>7. Says(ch, m, g[m])
    <2>1. Nat \subseteq S
      <3> HIDE DEF S
      <3> QED
        BY <1>5, <1>6, SetInduction
    <2> QED
      BY <1>3, <2>1
  <1>8. parse_wav_header(f) <=> f.magic = "RIFF" /\ PlayableIn(ch, m)
    <2>1. \A i \in 1 .. m : Playable(ch, i) <=>
             /\ ch[i].id = "data" /\ ch[i].size # 0
             /\ \A j \in 1 .. (i - 1) : ch[j].id # "data"
             /\ \E j \in 1 .. (i - 1) : ch[j].id = "fmt"
             /\ \A j \in 1 .. (i - 1) : ch[j].id = "fmt" => ch[j].size >= 16 /\ AcceptedFormat(ch[j])
      BY Zenon DEF Playable, Clean, HasFmt, GoodFmt
    <2>2. parse_wav_header(f) <=> f.magic = "RIFF" /\ \E i \in DOMAIN ch :
             /\ ch[i].id = "data" /\ ch[i].size # 0
             /\ \A j \in 1 .. (i - 1) : ch[j].id # "data"
             /\ \E j \in 1 .. (i - 1) : ch[j].id = "fmt"
             /\ \A j \in 1 .. (i - 1) : ch[j].id = "fmt" => ch[j].size >= 16 /\ AcceptedFormat(ch[j])
      BY <1>1 DEF parse_wav_header
    <2> QED
      BY <1>3, <2>1, <2>2, Zenon DEF PlayableIn
  <1> QED
    BY <1>4, <1>7, <1>8 DEF Says

-----------------------------------------------------------------------------
(* The audio files: the cache.                                              *)
AnyContent == Contents \cup {Missing}
EntryOk(e) == e.file \in AnyContent /\ e.status = StatusOf(e.file)

AssetsInv ==
    /\ DOMAIN disk = Paths /\ \A p \in Paths : disk[p] \in AnyContent
    /\ IsSeq(cache) /\ Len(cache) <= CACHE_MAX /\ next \in Nat
    /\ \A i \in 1 .. Len(cache) : EntryOk(cache[i])
    /\ \A i, j \in 1 .. Len(cache) : cache[i].path = cache[j].path => i = j

\* What the status of an asset says of its file.
LEMMA StatusTells ==
    ASSUME NEW f \in AnyContent, detect_format(f) = "WAV"
    PROVE  StatusOf(f) = "READY" <=> parse_wav_header(f)
  <1>1. f # Missing
    BY DEF detect_format, Missing
  <1>2. f.chunks \in Seq(ChunkSet)
    BY <1>1, AssetsAssumption DEF AnyContent, ChunkSet
  <1>3. StatusOf(f) = IF asset_parse_wav(f) THEN "READY" ELSE "BAD_HEADER"
    BY <1>1 DEF StatusOf
  <1> QED
    BY <1>2, <1>3, ParsersAgree

IsReplaced(u, s, k, x) == /\ IsSeq(u) /\ Len(u) = Len(s) /\ u[k] = x
                          /\ \A i \in 1 .. Len(s) : i # k => u[i] = s[i]

\* A sequence with one entry replaced.
LEMMA Replaced ==
    ASSUME NEW s, IsSeq(s), NEW k \in 1 .. Len(s), NEW x
    PROVE  IsReplaced([s EXCEPT ![k] = x], s, k, x)
  <1>1. PICK S, u : s \in Seq(S) /\ u = [s EXCEPT ![k] = x]
    BY DEF IsSeq
  <1>2. s \in Seq(S \cup {x}) /\ x \in S \cup {x}
    BY <1>1
  <1>3. u \in Seq(S \cup {x}) /\ Len(u) = Len(s)
    BY <1>1, <1>2
  <1>4. IsReplaced(u, s, k, x)
    BY <1>1, <1>3 DEF IsSeq, IsReplaced
  <1> QED
    BY <1>1, <1>4

\* Where an asset goes: over its own entry, or where no entry is its own.
LEMMA SlotFacts ==
    ASSUME AssetsInv, NEW p, NEW s, s = asset_cache_slot(p)
    PROVE  /\ s.next \in Nat /\ s.i \in Nat /\ s.i >= 1
           /\ s.i <= Len(cache) \/ (s.i = Len(cache) + 1 /\ Len(cache) < CACHE_MAX)
           /\ \A j \in 1 .. Len(cache) : cache[j].path = p => j = s.i
  <1>1. Len(cache) \in Nat /\ DOMAIN cache = 1 .. Len(cache) /\ Len(cache) <= CACHE_MAX
    BY SeqFacts DEF AssetsInv
  <1>2. CACHE_MAX \in Nat \ {0} /\ next \in Nat
    BY AssetsAssumption DEF AssetsInv
  <1>3. \A j : j \in asset_find(p) <=> j \in 1 .. Len(cache) /\ cache[j].path = p
    BY <1>1 DEF asset_find
  <1>4. CASE asset_find(p) # {}
    <2>1. PICK k \in asset_find(p) : TRUE
      BY <1>4
    <2>2. k \in 1 .. Len(cache) /\ \A j \in asset_find(p) : j = k
      BY <1>3, <2>1 DEF AssetsInv
    <2>3. \E i \in asset_find(p) : \A j \in asset_find(p) : i <= j
      BY <1>1, <2>1, <2>2
    <2>4. PICK i : i = CHOOSE e \in asset_find(p) : \A j \in asset_find(p) : e <= j
      OBVIOUS
    <2>5. i = k
      BY <2>2, <2>3, <2>4
    <2>6. s.i = i /\ s.next = next
      BY <1>4, <2>4 DEF asset_cache_slot
    <2> QED
      BY <1>1, <1>2, <1>3, <2>2, <2>5, <2>6
  <1>5. CASE asset_find(p) = {} /\ Len(cache) < CACHE_MAX
    <2>1. s.i = Len(cache) + 1 /\ s.next = next
      BY <1>5 DEF asset_cache_slot
    <2> QED
      BY <1>1, <1>2, <1>3, <1>5, <2>1
  <1>6. CASE asset_find(p) = {} /\ ~(Len(cache) < CACHE_MAX)
    <2>1. s.i = (next % CACHE_MAX) + 1 /\ s.next = (next + 1) % (2 * CACHE_MAX)
      BY <1>6 DEF asset_cache_slot
    <2>2. \A n, m \in Nat : m # 0 => n % m \in 0 .. m - 1
      OBVIOUS
    <2>3. 2 * CACHE_MAX \in Nat /\ 2 * CACHE_MAX # 0 /\ next + 1 \in Nat
      BY <1>2
    <2>4. next % CACHE_MAX \in 0 .. CACHE_MAX - 1 /\ s.next \in 0 .. 2 * CACHE_MAX - 1
      BY <1>2, <2>1, <2>2, <2>3
    <2>5. PICK r : r = next % CACHE_MAX
      OBVIOUS
    <2>6. s.next \in Nat /\ s.i \in Nat /\ s.i >= 1 /\ s.i <= Len(cache)
      BY <1>1, <1>2, <1>6, <2>1, <2>3, <2>4, <2>5
    <2> QED
      BY <1>3, <1>6, <2>6
  <1> QED
    BY <1>4, <1>5, <1>6

\* Preparing an asset keeps one entry per path, and its status true.
LEMMA PrepareKeeps ==
    ASSUME AssetsInv, NEW p \in Paths, prepare_path(p)
    PROVE  AssetsInv'
  <1>1. PICK s, info : /\ s = asset_cache_slot(p)
                       /\ info = [path |-> p, status |-> StatusOf(disk[p]), file |-> disk[p]]
    OBVIOUS
  <1>2. /\ cache' = IF s.i > Len(cache) THEN Append(cache, info) ELSE [cache EXCEPT ![s.i] = info]
        /\ next' = s.next /\ UNCHANGED disk
    BY <1>1 DEF prepare_path
  <1>3. EntryOk(info) /\ info.path = p
    BY <1>1 DEF AssetsInv, EntryOk
  <1>4. /\ s.next \in Nat /\ s.i \in Nat /\ s.i >= 1
        /\ s.i <= Len(cache) \/ (s.i = Len(cache) + 1 /\ Len(cache) < CACHE_MAX)
        /\ \A j \in 1 .. Len(cache) : cache[j].path = p => j = s.i
    BY <1>1, SlotFacts
  <1>5. Len(cache) \in Nat /\ IsSeq(cache) /\ CACHE_MAX \in Nat
    BY SeqFacts, AssetsAssumption DEF AssetsInv
  <1>6. /\ IsSeq(cache') /\ Len(cache') <= CACHE_MAX
        /\ \A i \in 1 .. Len(cache') : \/ i = s.i /\ cache'[i] = info
                                       \/ i # s.i /\ i \in 1 .. Len(cache) /\ cache'[i] = cache[i]
    <2>1. CASE s.i > Len(cache)
      <3>1. s.i = Len(cache) + 1 /\ Len(cache) < CACHE_MAX /\ cache' = Append(cache, info)
        BY <1>2, <1>4, <1>5, <2>1
      <3>2. /\ IsSeq(cache') /\ Len(cache') = Len(cache) + 1 /\ cache'[Len(cache) + 1] = info
            /\ \A i \in 1 .. Len(cache) : cache'[i] = cache[i]
        BY <1>5, <3>1, SeqFacts
      <3> QED
        BY <1>5, <3>1, <3>2
    <2>2. CASE ~(s.i > Len(cache))
      <3>1. s.i \in 1 .. Len(cache) /\ cache' = [cache EXCEPT ![s.i] = info]
        BY <1>2, <1>4, <1>5, <2>2
      <3>2. PICK k, u : k = s.i /\ u = [cache EXCEPT ![k] = info]
        OBVIOUS
      <3>3. k \in 1 .. Len(cache) /\ u = cache'
        BY <3>1, <3>2
      <3>4. /\ IsSeq(u) /\ Len(u) = Len(cache) /\ u[k] = info
            /\ \A i \in 1 .. Len(cache) : i # k => u[i] = cache[i]
        <4>1. IsReplaced([cache EXCEPT ![k] = info], cache, k, info)
          BY <1>5, <3>3, Replaced, Zenon
        <4>2. IsReplaced(u, cache, k, info)
          BY <3>2, <4>1, Zenon
        <4> QED
          BY <4>2 DEF IsReplaced
      <3> QED
        BY <3>2, <3>3, <3>4 DEF AssetsInv
    <2> QED
      BY <2>1, <2>2
  <1>7. \A i \in 1 .. Len(cache') : EntryOk(cache'[i])
    BY <1>3, <1>6 DEF AssetsInv
  <1>8. \A i, j \in 1 .. Len(cache') : cache'[i].path = cache'[j].path => i = j
    BY <1>3, <1>4, <1>6 DEF AssetsInv
  <1> QED
    BY <1>2, <1>4, <1>6, <1>7, <1>8 DEF AssetsInv, EntryOk

\* The invariant is inductive.
LEMMA AssetsInductive ==
    /\ AssetsInit => AssetsInv
    /\ AssetsInv /\ [AssetsNext]_asset_vars => AssetsInv'
  <1>1. ASSUME AssetsInit
        PROVE  AssetsInv
    <2>1. IsSeq(<<>>) /\ Len(<<>>) = 0
      BY DEF IsSeq
    <2> QED
      BY <1>1, <2>1, AssetsAssumption DEF AssetsInit, AssetsInv, AnyContent
  <1>2. ASSUME AssetsInv, [AssetsNext]_asset_vars
        PROVE  AssetsInv'
    <2>1. CASE asset_cache_clear
      <3>1. IsSeq(<<>>) /\ Len(<<>>) = 0
        BY DEF IsSeq
      <3> QED
        BY <1>2, <2>1, <3>1, AssetsAssumption DEF asset_cache_clear, AssetsInv, EntryOk
    <2>2. ASSUME NEW p \in Paths, prepare_path(p)
          PROVE  AssetsInv'
      BY <1>2, <2>2, PrepareKeeps
    <2>3. ASSUME NEW p \in Paths, write_file(p)
          PROVE  AssetsInv'
      <3>1. PICK c \in AnyContent : disk' = [disk EXCEPT ![p] = c]
        BY <2>3 DEF write_file, AnyContent
      <3>2. UNCHANGED <<cache, next>>
        BY <2>3 DEF write_file
      <3> QED
        BY <1>2, <3>1, <3>2 DEF AssetsInv, EntryOk
    <2>4. CASE UNCHANGED asset_vars
      BY <1>2, <2>4 DEF asset_vars, AssetsInv, EntryOk
    <2> QED
      BY <1>2, <2>1, <2>2, <2>3, <2>4 DEF AssetsNext
  <1> QED
    BY <1>1, <1>2

\* However files are prepared, replaced and the cache is cleared or runs
\* over: a path has one entry, and an entry for a WAV file of whatever chunks
\* says READY exactly when the reader's own parser accepts the file it was
\* made from (audio_player_prepare_path, parse_wav_header).
THEOREM CacheTellsTheReader == AssetsSpec => []AssetsAgree
  <1>1. AssetsInv => AssetsAgree
    <2> SUFFICES ASSUME AssetsInv PROVE AssetsAgree
      OBVIOUS
    <2>1. DOMAIN cache = 1 .. Len(cache)
      BY SeqFacts DEF AssetsInv
    <2>2. \A i, j \in DOMAIN cache : cache[i].path = cache[j].path => i = j
      BY <2>1 DEF AssetsInv
    <2>3. ASSUME NEW i \in DOMAIN cache, detect_format(cache[i].file) = "WAV"
          PROVE  cache[i].status = "READY" <=> parse_wav_header(cache[i].file)
      <3>1. EntryOk(cache[i])
        BY <2>1 DEF AssetsInv
      <3> QED
        BY <2>3, <3>1, StatusTells DEF EntryOk
    <2> QED
      BY <2>2, <2>3 DEF AssetsAgree
  <1> QED
    BY <1>1, AssetsInductive, PTL DEF AssetsSpec

-----------------------------------------------------------------------------
(* The audio player: the inductive invariant.                               *)
MixFields == {"on", "audible", "primed", "fading", "muted", "tail", "pcm"}
MixOk(m) == DOMAIN m = MixFields /\ m.pcm \in Nat
ReaderOk(r) == DOMAIN r = {"pc", "file", "left"}

SlotsOk ==
    /\ DOMAIN mix = Slots /\ DOMAIN reader = Slots /\ DOMAIN heard = Slots
    /\ \A s \in Slots : MixOk(mix[s]) /\ ReaderOk(reader[s]) /\ heard[s] \in Nat

\* After a stop the stream is off, and what is in it, on its way into it or
\* already heard is one chunk.
Sending(r) == IF r.pc = "send" THEN 1 ELSE 0
Few(h, m, r) == h # Uncounted => ~m.on /\ h + m.pcm + Sending(r) <= 1
FewChunks == \A s \in Slots : Few(heard[s], mix[s], reader[s])

ActiveOk == /\ active \in Background
            /\ background = NoFile \/ background = active

OpNames == {"fade", "faded", "stop", "stop!", "ask", "ask!", "drop", "drop!",
            "wait", "wait!", "start", "started", "prime", "keep", "switch",
            "idle", "error"}

\* Operations that silence their slot; those that give up the command when
\* the reader does not end.
Silencing == {"fade", "stop", "ask", "drop", "wait"}
GivingUp == {"stop!", "ask!", "drop!", "wait!"}

OpOk(x) == /\ DOMAIN x = {"op", "s", "file", "audible"}
           /\ x.op \in OpNames /\ x.s \in Slots /\ x.audible \in BOOLEAN

\* The command of operations t, while slot a is active, is a switch to the
\* other slot, or a restart of the active one.
LastOf(t) == t[Len(t)]
Switching(t) == t # <<>> /\ LastOf(t).op = "switch"
Restarting(t, a) == t # <<>> /\ LastOf(t).op = "start" /\ LastOf(t).s = a
Primes(t) == \E i \in 1 .. Len(t) : t[i].op = "prime"

\* What the i-th operation of a command is, while the active slot is a and
\* the background b.
Placed(t, i, a, b) ==
    /\ OpOk(t[i])
    /\ t[i].op \in GivingUp => t[i].s = "E" /\ ~Switching(t) /\ ~Restarting(t, a)
    /\ t[i].op = "switch" => i = Len(t) /\ t[i].s \in Background /\ t[i].s # a
    /\ t[i].op = "prime" => /\ Switching(t) /\ t[i].s = LastOf(t).s
                            /\ i = 1 \/ (i = 2 /\ t[1].op \in {"start", "started"})
    /\ t[i].op = "start" =>
          \/ i = Len(t) /\ (t[i].s = "E" \/ (t[i].s = a /\ t[i].audible))
          \/ /\ i = 1 /\ ~t[i].audible /\ t[i].s \in Background /\ t[i].s # a
             /\ Switching(t) /\ t[i].s = LastOf(t).s /\ Primes(t)
    /\ t[i].op \in Silencing /\ t[i].s = a =>
          b = NoFile \/ Switching(t) \/ Restarting(t, a)
    /\ t[i].op \in Silencing /\ Switching(t) => t[i].s = a

TodoOk(t, a, b) == IsSeq(t) /\ \A i \in 1 .. Len(t) : Placed(t, i, a, b)

LivePcs == {"created", "started", "open", "read", "send"}
StreamRuns(m, r) == r.pc \in LivePcs => m.on /\ ~m.muted /\ ~m.fading
Plays(m, r) == r.pc \in LivePcs => m.on /\ ~m.muted /\ ~m.fading /\ m.audible

\* The background plays on until its successor is primed; the successor runs.
Spared(t, a, b) == b # NoFile /\ ~Restarting(t, a) /\ (Switching(t) => Primes(t))
Follows(t) == Switching(t) /\ t[1].op # "start"
BackgroundPlays == Spared(player_todo, active, background) => Plays(mix[background], reader[background])
SuccessorRuns == Follows(player_todo) =>
    LET s == LastOf(player_todo).s IN StreamRuns(mix[s], reader[s])

PlayerInv == /\ SlotsOk /\ FewChunks /\ ActiveOk
             /\ TodoOk(player_todo, active, background) /\ BackgroundPlays /\ SuccessorRuns

USE DEF NoFile

-----------------------------------------------------------------------------
(* The audio player: streams and readers.                                   *)

\* One pass of the mixer takes at most one chunk, and neither mutes nor
\* closes a stream that no fade was started for.
LEMMA PassFacts ==
    ASSUME NEW m, MixOk(m), NEW r, r = channel_should_read(m),
           NEW got, got = (r.read /\ m.pcm > 0),
           NEW n, n = apply_fade_out(receive_pcm(r.then, r.read), got \/ r.then.fading)
    PROVE  /\ MixOk(n)
           /\ got => n.pcm + 1 = m.pcm
           /\ ~got => n.pcm = m.pcm
           /\ ~m.on => ~n.on
           /\ m.on => n.on /\ n.audible = m.audible
           /\ m.on /\ ~m.muted /\ ~m.fading => ~n.muted /\ ~n.fading
  <1> DEFINE p == IF r.read /\ r.then.pcm > 0 THEN [r.then EXCEPT !.pcm = r.then.pcm - 1] ELSE r.then
  <1>1. DOMAIN r.then = MixFields /\ r.then.pcm = m.pcm
    BY DEF MixOk, MixFields, channel_should_read, SilentMix
  <1>2. /\ ~m.on => ~r.then.on
        /\ m.on => r.then.on /\ r.then.audible = m.audible
        /\ m.on /\ ~m.muted /\ ~m.fading => ~r.then.muted /\ ~r.then.fading
    BY DEF MixOk, MixFields, channel_should_read, SilentMix
  <1>3. p = receive_pcm(r.then, r.read)
    BY DEF receive_pcm
  <1>4. /\ DOMAIN p = MixFields
        /\ p.pcm = IF r.read /\ m.pcm > 0 THEN m.pcm - 1 ELSE m.pcm
        /\ p.on = r.then.on /\ p.audible = r.then.audible
        /\ p.muted = r.then.muted /\ p.fading = r.then.fading
    <2>1. CASE r.read /\ r.then.pcm > 0
      BY <1>1, <2>1 DEF MixFields
    <2>2. CASE ~(r.read /\ r.then.pcm > 0)
      BY <1>1, <2>2 DEF MixFields
    <2> QED
      BY <2>1, <2>2
  <1> HIDE DEF p
  <1>5. n = IF p.fading /\ (got \/ r.then.fading) THEN [p EXCEPT !.fading = FALSE, !.muted = TRUE] ELSE p
    BY <1>3 DEF apply_fade_out
  <1>6. /\ DOMAIN n = MixFields /\ n.pcm = p.pcm /\ n.on = p.on /\ n.audible = p.audible
        /\ ~p.fading => n.muted = p.muted /\ n.fading = p.fading
    BY <1>4, <1>5 DEF MixFields
  <1>7. n.pcm \in Nat /\ (got => n.pcm + 1 = m.pcm) /\ (~got => n.pcm = m.pcm)
    <2>1. CASE r.read /\ m.pcm > 0
      <3>1. got
        BY <2>1
      <3>2. n.pcm = m.pcm - 1
        BY <1>4, <1>6, <2>1
      <3>3. \A k \in Nat : \A j : k > 0 /\ j = k - 1 => j \in Nat /\ j + 1 = k
        OBVIOUS
      <3>4. m.pcm \in Nat
        BY DEF MixOk
      <3>5. n.pcm \in Nat /\ n.pcm + 1 = m.pcm
        BY <2>1, <3>2, <3>3, <3>4, Zenon
      <3> QED
        BY <3>1, <3>5, Zenon
    <2>2. CASE ~(r.read /\ m.pcm > 0)
      <3>1. ~got
        BY <2>2
      <3>2. n.pcm = m.pcm
        BY <1>4, <1>6, <2>2
      <3> QED
        BY <3>1, <3>2 DEF MixOk
    <2> QED
      BY <2>1, <2>2
  <1> QED
    BY <1>2, <1>4, <1>6, <1>7 DEF MixOk

\* What a slot's stream and reader may come to without the runtime task.
Moved(h, m, r, k, n, q) ==
    /\ MixOk(n) /\ ReaderOk(q) /\ k \in Nat /\ Few(k, n, q)
    /\ StreamRuns(m, r) => StreamRuns(n, q)
    /\ Plays(m, r) => Plays(n, q)

\* An action that moves one slot so, and leaves the runtime task alone.
LEMMA MovedKeeps ==
    ASSUME PlayerInv, NEW s \in Slots,
           UNCHANGED <<player_todo, active, background>>,
           DOMAIN mix' = Slots, DOMAIN reader' = Slots, DOMAIN heard' = Slots,
           \A z \in Slots : z # s => /\ mix'[z] = mix[z] /\ reader'[z] = reader[z]
                                     /\ heard'[z] = heard[z],
           Moved(heard[s], mix[s], reader[s], heard'[s], mix'[s], reader'[s])
    PROVE  PlayerInv'
  <1>1. SlotsOk' /\ FewChunks'
    BY DEF PlayerInv, SlotsOk, FewChunks, Moved
  <1>2. ActiveOk' /\ TodoOk(player_todo, active, background)'
    BY DEF PlayerInv, ActiveOk
  <1>3. \A z \in Slots : /\ StreamRuns(mix[z], reader[z]) => StreamRuns(mix'[z], reader'[z])
                         /\ Plays(mix[z], reader[z]) => Plays(mix'[z], reader'[z])
    BY DEF Moved
  <1>4. ASSUME Spared(player_todo, active, background)
        PROVE  Plays(mix'[background], reader'[background])
    <2>1. background \in Slots
      BY <1>4 DEF Spared, PlayerInv, ActiveOk, Slots
    <2> QED
      BY <1>3, <1>4, <2>1 DEF PlayerInv, BackgroundPlays
  <1>5. ASSUME Follows(player_todo)
        PROVE  StreamRuns(mix'[LastOf(player_todo).s], reader'[LastOf(player_todo).s])
    <2>1. Len(player_todo) \in 1 .. Len(player_todo)
      BY <1>5, SeqFacts DEF Follows, Switching, PlayerInv, TodoOk
    <2>2. Placed(player_todo, Len(player_todo), active, background)
      BY <2>1 DEF PlayerInv, TodoOk
    <2>3. LastOf(player_todo).s \in Slots
      BY <2>2 DEF Placed, OpOk, LastOf
    <2> QED
      BY <1>3, <1>5, <2>3 DEF PlayerInv, SuccessorRuns
  <1> QED
    BY <1>1, <1>2, <1>4, <1>5 DEF PlayerInv, BackgroundPlays, SuccessorRuns

\* An action that touches neither streams, readers nor the runtime task.
LEMMA PlayerSame ==
    ASSUME PlayerInv,
           UNCHANGED <<player_todo, active, background, mix, reader, heard>>
    PROVE  PlayerInv'
  BY DEF PlayerInv, SlotsOk, FewChunks, ActiveOk, BackgroundPlays, SuccessorRuns

\* The mixer task keeps the invariant.
LEMMA MixerKeeps ==
    ASSUME PlayerInv, mixer_task
    PROVE  PlayerInv'
  <1>1. CASE mixer_idle
    BY <1>1, PlayerSame DEF mixer_idle, rt
  <1>2. CASE mixer_start_output_if_needed
    BY <1>2, PlayerSame DEF mixer_start_output_if_needed, rt
  <1>3. ASSUME NEW s \in Slots, mixer_pass(s)
        PROVE  PlayerInv'
    <2>1. PICK r, got, n : /\ r = channel_should_read(mix[s])
                           /\ got = (r.read /\ mix[s].pcm > 0)
                           /\ n = apply_fade_out(receive_pcm(r.then, r.read), got \/ r.then.fading)
      OBVIOUS
    <2>2. /\ mix' = [mix EXCEPT ![s] = n]
          /\ heard' = [heard EXCEPT ![s] = IF got /\ heard[s] # Uncounted THEN heard[s] + 1 ELSE heard[s]]
          /\ UNCHANGED <<player_todo, active, background, reader>>
      BY <1>3, <2>1 DEF mixer_pass, rt
    <2>3. MixOk(mix[s]) /\ ReaderOk(reader[s]) /\ heard[s] \in Nat /\ Few(heard[s], mix[s], reader[s])
      BY DEF PlayerInv, SlotsOk, FewChunks
    <2>4. /\ MixOk(n)
          /\ got => n.pcm + 1 = mix[s].pcm
          /\ ~got => n.pcm = mix[s].pcm
          /\ ~mix[s].on => ~n.on
          /\ mix[s].on => n.on /\ n.audible = mix[s].audible
          /\ mix[s].on /\ ~mix[s].muted /\ ~mix[s].fading => ~n.muted /\ ~n.fading
      BY <2>1, <2>3, PassFacts
    <2>5. PICK h : h = IF got /\ heard[s] # Uncounted THEN heard[s] + 1 ELSE heard[s]
      OBVIOUS
    <2>6. h \in Nat /\ Few(h, n, reader[s])
      BY <2>3, <2>4, <2>5 DEF Few, Sending, MixOk, Uncounted
    <2>7. Moved(heard[s], mix[s], reader[s], h, n, reader[s])
      BY <2>3, <2>4, <2>6 DEF Moved, StreamRuns, Plays
    <2>8. /\ DOMAIN mix' = Slots /\ DOMAIN reader' = Slots /\ DOMAIN heard' = Slots
          /\ mix'[s] = n /\ heard'[s] = h /\ reader'[s] = reader[s]
          /\ \A z \in Slots : z # s => /\ mix'[z] = mix[z] /\ reader'[z] = reader[z]
                                       /\ heard'[z] = heard[z]
      BY <2>2, <2>5 DEF PlayerInv, SlotsOk
    <2> QED
      BY <2>2, <2>7, <2>8, MovedKeeps
  <1> QED
    BY <1>1, <1>2, <1>3 DEF mixer_task

\* The reader task of a slot keeps the invariant.
LEMMA ReaderKeeps ==
    ASSUME PlayerInv, NEW s \in Slots, reader_task(s)
    PROVE  PlayerInv'
  <1>1. /\ MixOk(mix[s]) /\ ReaderOk(reader[s]) /\ heard[s] \in Nat
        /\ Few(heard[s], mix[s], reader[s])
    BY DEF PlayerInv, SlotsOk, FewChunks
  <1>2. DOMAIN mix = Slots /\ DOMAIN reader = Slots /\ DOMAIN heard = Slots
    BY DEF PlayerInv, SlotsOk
  <1>3. ASSUME UNCHANGED <<player_todo, active, background, heard>>,
               NEW m, mix' = [mix EXCEPT ![s] = m] \/ (mix' = mix /\ m = mix[s]),
               NEW q, reader' = [reader EXCEPT ![s] = q],
               Moved(heard[s], mix[s], reader[s], heard[s], m, q)
        PROVE  PlayerInv'
    <2>1. /\ DOMAIN mix' = Slots /\ DOMAIN reader' = Slots /\ DOMAIN heard' = Slots
          /\ mix'[s] = m /\ heard'[s] = heard[s] /\ reader'[s] = q
          /\ \A z \in Slots : z # s => /\ mix'[z] = mix[z] /\ reader'[z] = reader[z]
                                       /\ heard'[z] = heard[z]
      BY <1>2, <1>3
    <2> QED
      BY <1>3, <2>1, MovedKeeps
  <1>5. ASSUME NEW pc, Goto(s, pc), UNCHANGED <<player_todo, active, background, heard, mix>>,
               pc \in LivePcs => reader[s].pc \in LivePcs,
               pc = "send" => mix[s].on
        PROVE  PlayerInv'
    <2>1. PICK q : q = [reader[s] EXCEPT !.pc = pc]
      OBVIOUS
    <2>2. ReaderOk(q) /\ q.pc = pc
      BY <1>1, <2>1 DEF ReaderOk
    <2>3. Few(heard[s], mix[s], q)
      BY <1>1, <1>5, <2>2 DEF Few, Sending, MixOk
    <2>4. Moved(heard[s], mix[s], reader[s], heard[s], mix[s], q)
      BY <1>1, <1>5, <2>2, <2>3 DEF Moved, StreamRuns, Plays
    <2>5. reader' = [reader EXCEPT ![s] = q]
      BY <1>5, <2>1 DEF Goto
    <2> QED
      BY <1>3, <1>5, <2>4, <2>5
  <1>6. CASE reader_clear_stop(s)
    BY <1>5, <1>6 DEF reader_clear_stop, At, rt, LivePcs
  <1>7. CASE reader_started(s)
    BY <1>5, <1>7 DEF reader_started, At, rt, LivePcs
  <1>8. CASE reader_open(s)
    <2>1. At(s, "open") /\ UNCHANGED <<player_todo, active, background, heard, mix>>
      BY <1>8 DEF reader_open, rt
    <2>2. Goto(s, "ended") \/ Goto(s, "read")
      BY <1>8 DEF reader_open
    <2> QED
      BY <1>5, <2>1, <2>2 DEF At, LivePcs
  <1>9. CASE decode_step(s)
    <2>1. At(s, "read") /\ UNCHANGED <<player_todo, active, background, heard, mix>>
      BY <1>9 DEF decode_step, rt
    <2>2. Goto(s, "ended") \/ (Goto(s, "send") /\ mix[s].on)
      BY <1>9 DEF decode_step
    <2> QED
      BY <1>5, <2>1, <2>2 DEF At, LivePcs
  <1>10. CASE mixer_write(s)
    <2>1. PICK m, q : /\ m = [mix[s] EXCEPT !.pcm = mix[s].pcm + 1]
                      /\ q = [reader[s] EXCEPT !.pc = "read",
                                !.left = IF reader[s].file = "loop" THEN reader[s].left ELSE reader[s].left - 1]
      OBVIOUS
    <2>2. /\ MixOk(m) /\ m.pcm = mix[s].pcm + 1 /\ m.on = mix[s].on
          /\ m.audible = mix[s].audible /\ m.muted = mix[s].muted /\ m.fading = mix[s].fading
      BY <1>1, <2>1 DEF MixOk, MixFields
    <2>3. ReaderOk(q) /\ q.pc = "read"
      BY <1>1, <2>1 DEF ReaderOk
    <2>4. reader[s].pc = "send"
      BY <1>10 DEF mixer_write, At
    <2>5. Few(heard[s], m, q)
      BY <1>1, <2>2, <2>3, <2>4 DEF Few, Sending, MixOk
    <2>6. Moved(heard[s], mix[s], reader[s], heard[s], m, q)
      BY <1>1, <2>2, <2>3, <2>4, <2>5 DEF Moved, StreamRuns, Plays, LivePcs
    <2>7. mix' = [mix EXCEPT ![s] = m] /\ reader' = [reader EXCEPT ![s] = q]
      BY <1>10, <2>1 DEF mixer_write
    <2>8. UNCHANGED <<player_todo, active, background, heard>>
      BY <1>10 DEF mixer_write, rt
    <2> QED
      BY <1>3, <2>6, <2>7, <2>8
  <1>11. CASE reader_ended(s)
    <2>1. PICK m, q : /\ m = finish_stream(mix[s])
                      /\ q = [reader[s] EXCEPT !.pc = "finish"]
      OBVIOUS
    <2>2. MixOk(m) /\ m.pcm = mix[s].pcm /\ ~m.on
      BY <1>1, <2>1 DEF MixOk, MixFields, finish_stream, SilentMix
    <2>3. ReaderOk(q) /\ q.pc = "finish"
      BY <1>1, <2>1 DEF ReaderOk
    <2>4. reader[s].pc = "ended"
      BY <1>11 DEF reader_ended, At
    <2>5. Few(heard[s], m, q)
      BY <1>1, <2>2, <2>3, <2>4 DEF Few, Sending, MixOk
    <2>6. Moved(heard[s], mix[s], reader[s], heard[s], m, q)
      BY <1>1, <2>2, <2>3, <2>4, <2>5 DEF Moved, StreamRuns, Plays, LivePcs
    <2>7. mix' = [mix EXCEPT ![s] = m] /\ reader' = [reader EXCEPT ![s] = q]
      BY <1>11, <2>1 DEF reader_ended, Goto
    <2>8. UNCHANGED <<player_todo, active, background, heard>>
      BY <1>11 DEF reader_ended, rt
    <2> QED
      BY <1>3, <2>6, <2>7, <2>8
  <1>12. CASE reader_finished(s)
    <2>1. ReaderOk(NoReader) /\ NoReader.pc = "none"
      BY DEF ReaderOk, NoReader
    <2>2. reader[s].pc = "finish"
      BY <1>12 DEF reader_finished, At
    <2>3. Few(heard[s], mix[s], NoReader)
      BY <1>1, <2>1, <2>2 DEF Few, Sending, MixOk
    <2>4. Moved(heard[s], mix[s], reader[s], heard[s], mix[s], NoReader)
      BY <1>1, <2>1, <2>2, <2>3 DEF Moved, StreamRuns, Plays, LivePcs
    <2>5. mix' = mix /\ reader' = [reader EXCEPT ![s] = NoReader]
      BY <1>12 DEF reader_finished
    <2>6. UNCHANGED <<player_todo, active, background, heard>>
      BY <1>12 DEF reader_finished, rt
    <2> QED
      BY <1>3, <2>4, <2>5, <2>6
  <1> QED
    BY <1>6, <1>7, <1>8, <1>9, <1>10, <1>11, <1>12 DEF reader_task

-----------------------------------------------------------------------------
(* The audio player: the operations of a command.                           *)

\* What is left of a list of operations.
LEMMA PopFacts ==
    ASSUME NEW t, IsSeq(t), t # <<>>
    PROVE  /\ IsSeq(Tail(t)) /\ Len(t) \in Nat /\ Len(t) > 0
           /\ Head(t) = t[1] /\ Len(Tail(t)) = Len(t) - 1
           /\ \A i \in 1 .. Len(t) - 1 : Tail(t)[i] = t[i + 1]
           /\ Len(t) > 1 => Tail(t) # <<>> /\ LastOf(Tail(t)) = LastOf(t)
           /\ Len(t) = 1 => Tail(t) = <<>> /\ LastOf(t) = t[1]
  <1>1. PICK S : t \in Seq(S)
    BY DEF IsSeq
  <1>2. /\ IsSeq(Tail(t)) /\ Len(t) \in Nat /\ Len(t) > 0
        /\ Head(t) = t[1] /\ Len(Tail(t)) = Len(t) - 1
        /\ \A i \in 1 .. Len(t) - 1 : Tail(t)[i] = t[i + 1]
    BY <1>1 DEF IsSeq
  <1>3. ASSUME Len(t) > 1
        PROVE  Tail(t) # <<>> /\ LastOf(Tail(t)) = LastOf(t)
    <2>1. Len(t) - 1 \in 1 .. Len(t) - 1 /\ (Len(t) - 1) + 1 = Len(t)
      BY <1>2, <1>3
    <2>2. Tail(t)[Len(t) - 1] = t[Len(t)]
      BY <1>2, <2>1
    <2>3. Len(Tail(t)) # 0
      BY <1>2, <1>3
    <2>4. Len(<<>>) = 0
      OBVIOUS
    <2>5. Tail(t) # <<>>
      BY <2>3, <2>4, Zenon
    <2> QED
      BY <1>2, <2>2, <2>5 DEF LastOf
  <1>4. ASSUME Len(t) = 1
        PROVE  Tail(t) = <<>> /\ LastOf(t) = t[1]
    <2>1. Tail(t) \in Seq(S) /\ Len(Tail(t)) = 0
      BY <1>1, <1>2, <1>4
    <2>2. \A q \in Seq(S) : Len(q) = 0 => q = <<>>
      OBVIOUS
    <2>3. Tail(t) = <<>>
      BY <2>1, <2>2
    <2> QED
      BY <1>4, <2>3 DEF LastOf
  <1> QED
    BY <1>2, <1>3, <1>4

Headed(u, x, t) == /\ IsSeq(u) /\ u # <<>> /\ Len(u) = Len(t) /\ u[1] = x
                   /\ \A i \in 2 .. Len(t) : u[i] = t[i]
                   /\ Len(t) > 1 => LastOf(u) = LastOf(t)
                   /\ Len(t) = 1 => LastOf(u) = x

\* The list with another head.
LEMMA SwapFacts ==
    ASSUME NEW t, IsSeq(t), t # <<>>, NEW x
    PROVE  Headed(<<x>> \o Tail(t), x, t)
  <1>1. PICK S : t \in Seq(S)
    BY DEF IsSeq
  <1>2. PICK u : u = <<x>> \o Tail(t)
    OBVIOUS
  <1>3. Tail(t) \in Seq(S \cup {x}) /\ <<x>> \in Seq(S \cup {x})
    BY <1>1
  <1>4. u \in Seq(S \cup {x}) /\ Len(u) = Len(t) /\ u[1] = x
    BY <1>1, <1>2, <1>3, PopFacts
  <1>5. \A i \in 2 .. Len(t) : u[i] = t[i]
    BY <1>1, <1>2, <1>3, <1>4, PopFacts
  <1>6. Len(t) \in Nat /\ Len(t) > 0
    BY PopFacts
  <1>7. Headed(u, x, t)
    BY <1>4, <1>5, <1>6 DEF IsSeq, LastOf, Headed
  <1> QED
    BY <1>2, <1>7

SameMode(u, t, a) == /\ Switching(u) <=> Switching(t)
                     /\ Restarting(u, a) <=> Restarting(t, a)
                     /\ Primes(u) <=> Primes(t)
                     /\ Switching(t) => LastOf(u) = LastOf(t)

\* The rest of a command is placed as the command was.
LEMMA PopKeeps ==
    ASSUME NEW t, NEW a, NEW b, TodoOk(t, a, b), t # <<>>
    PROVE  /\ TodoOk(Tail(t), a, b)
           /\ t[1].op \notin {"prime", "switch", "start"} => SameMode(Tail(t), t, a)
  <1> DEFINE u == Tail(t)
  <1>1. /\ IsSeq(t) /\ IsSeq(u) /\ Len(t) \in Nat /\ Len(t) > 0 /\ Len(u) = Len(t) - 1
        /\ \A i \in 1 .. Len(t) - 1 : u[i] = t[i + 1]
        /\ Len(t) > 1 => u # <<>> /\ LastOf(u) = LastOf(t)
        /\ Len(t) = 1 => u = <<>> /\ LastOf(t) = t[1]
    BY PopFacts DEF TodoOk
  <1> HIDE DEF u
  <1>2. ASSUME NEW i \in 1 .. Len(u)
        PROVE  Placed(u, i, a, b)
    <2>1. /\ i + 1 \in 1 .. Len(t) /\ Len(t) > 1 /\ u[i] = t[i + 1] /\ i >= 1
          /\ i + 1 = Len(t) => i = Len(u)
      BY <1>1, <1>2
    <2>2. Placed(t, i + 1, a, b)
      BY <2>1 DEF TodoOk
    <2>3. (Switching(u) <=> Switching(t)) /\ (Restarting(u, a) <=> Restarting(t, a)) /\ LastOf(u) = LastOf(t)
      BY <1>1, <2>1 DEF Switching, Restarting
    <2>4. i + 1 # 1 /\ (i + 1 = 2 => i = 1)
      BY <1>1, <1>2
    <2> QED
      BY <2>1, <2>2, <2>3, <2>4 DEF Placed
  <1>3. ASSUME t[1].op \notin {"prime", "switch", "start"}
        PROVE  SameMode(u, t, a)
    <2>1. Primes(u) => Primes(t)
      <3> SUFFICES ASSUME Primes(u) PROVE Primes(t)
        OBVIOUS
      <3>1. PICK i \in 1 .. Len(u) : u[i].op = "prime"
        BY DEF Primes
      <3>2. i + 1 \in 1 .. Len(t) /\ i \in 1 .. Len(t) - 1
        BY <1>1, <3>1
      <3> QED
        BY <1>1, <3>1, <3>2 DEF Primes
    <2>2. Primes(t) => Primes(u)
      <3> SUFFICES ASSUME Primes(t) PROVE Primes(u)
        OBVIOUS
      <3>1. PICK i \in 1 .. Len(t) : t[i].op = "prime"
        BY DEF Primes
      <3>2. i # 1
        BY <1>3, <3>1
      <3>3. i - 1 \in 1 .. Len(u) /\ i - 1 \in 1 .. Len(t) - 1 /\ (i - 1) + 1 = i
        BY <1>1, <3>2
      <3>4. u[i - 1] = t[i]
        BY <1>1, <3>3
      <3> QED
        BY <3>1, <3>3, <3>4 DEF Primes
    <2>3. CASE Len(t) > 1
      BY <1>1, <2>1, <2>2, <2>3 DEF SameMode, Switching, Restarting
    <2>4. CASE Len(t) = 1
      <3>1. ~Switching(t) /\ ~Restarting(t, a)
        BY <1>1, <1>3, <2>4 DEF Switching, Restarting
      <3>2. ~Switching(u) /\ ~Restarting(u, a)
        BY <1>1, <2>4 DEF Switching, Restarting
      <3> QED
        BY <2>1, <2>2, <3>1, <3>2 DEF SameMode
    <2> QED
      BY <1>1, <2>3, <2>4
  <1> QED
    BY <1>1, <1>2, <1>3 DEF TodoOk, u

\* The operation that takes the place of the first one of a command.
Turns(x, y) ==
    /\ OpOk(y) /\ y.s = x.s
    /\ x.op \notin {"prime", "switch"} /\ y.op \notin {"prime", "switch", "start"}
    /\ x.op \in {"start", "started"} => y.op = "started"
    /\ y.op \in GivingUp => x.op \in GivingUp
    /\ y.op \in Silencing => x.op \in Silencing

\* A command whose first operation turns into its next part is placed as it
\* was.
LEMMA SwapKeeps ==
    ASSUME NEW t, NEW a, NEW b, TodoOk(t, a, b), t # <<>>,
           NEW y, Turns(t[1], y), NEW u, u = <<y>> \o Tail(t)
    PROVE  /\ TodoOk(u, a, b) /\ u # <<>> /\ u[1] = y
           /\ Len(t) > 1 \/ t[1].op # "start" => SameMode(u, t, a)
  <1>10. IsSeq(t)
    BY DEF TodoOk
  <1>11. Len(t) \in Nat /\ Len(t) > 0 /\ (Len(t) = 1 => LastOf(t) = t[1])
    BY <1>10, PopFacts
  <1>12. /\ IsSeq(u) /\ Len(u) = Len(t) /\ u # <<>> /\ u[1] = y
         /\ \A i \in 2 .. Len(t) : u[i] = t[i]
         /\ Len(t) > 1 => LastOf(u) = LastOf(t)
         /\ Len(t) = 1 => LastOf(u) = y
    BY <1>10, SwapFacts DEF Headed
  <1>1. /\ IsSeq(t) /\ IsSeq(u) /\ Len(t) \in Nat /\ Len(t) > 0 /\ Len(u) = Len(t)
        /\ u # <<>> /\ u[1] = y
        /\ \A i \in 2 .. Len(t) : u[i] = t[i]
        /\ Len(t) > 1 => LastOf(u) = LastOf(t)
        /\ Len(t) = 1 => LastOf(u) = y /\ LastOf(t) = t[1]
    BY <1>10, <1>11, <1>12
  <1>2. Primes(u) <=> Primes(t)
    <2>1. u[1].op # "prime" /\ t[1].op # "prime"
      BY <1>1 DEF Turns
    <2>2. \A i \in 1 .. Len(t) : i = 1 \/ i \in 2 .. Len(t)
      BY <1>1
    <2> QED
      BY <1>1, <2>1, <2>2 DEF Primes
  <1>3. Switching(u) <=> Switching(t)
    <2>1. CASE Len(t) > 1
      BY <1>1, <2>1 DEF Switching
    <2>2. CASE Len(t) = 1
      BY <1>1, <2>2 DEF Switching, Turns
    <2> QED
      BY <1>1, <2>1, <2>2
  <1>4. Switching(t) => Len(t) > 1 /\ LastOf(u) = LastOf(t)
    <2>1. CASE Len(t) = 1
      BY <1>1, <2>1 DEF Switching, Turns
    <2> QED
      BY <1>1, <2>1
  <1>5. Restarting(u, a) => Restarting(t, a)
    <2>1. CASE Len(t) > 1
      BY <1>1, <2>1 DEF Restarting
    <2>2. CASE Len(t) = 1
      BY <1>1, <2>2 DEF Restarting, Turns
    <2> QED
      BY <1>1, <2>1, <2>2
  <1>6. Len(t) > 1 \/ t[1].op # "start" => (Restarting(u, a) <=> Restarting(t, a))
    <2>1. CASE Len(t) > 1
      BY <1>1, <2>1 DEF Restarting
    <2>2. CASE Len(t) = 1
      BY <1>1, <2>2, <1>5 DEF Restarting
    <2> QED
      BY <1>1, <2>1, <2>2
  <1>7. ASSUME NEW i \in 2 .. Len(t)
        PROVE  Placed(u, i, a, b)
    <2>1. i \in 1 .. Len(t) /\ Len(t) > 1 /\ i # 1
      BY <1>1
    <2>0. u[i] = t[i] /\ (i = Len(t) => i = Len(u))
      BY <1>1, Zenon
    <2>2. Placed(t, i, a, b)
      BY <2>1 DEF TodoOk
    <2>3. LastOf(u) = LastOf(t) /\ (Restarting(u, a) <=> Restarting(t, a))
      BY <1>1, <1>6, <2>1
    <2>4. t[1].op \in {"start", "started"} => u[1].op \in {"start", "started"}
      BY <1>1 DEF Turns
    <2> QED
      BY <1>2, <1>3, <2>0, <2>1, <2>2, <2>3, <2>4 DEF Placed
  <1>8. Placed(u, 1, a, b)
    <2>1. Placed(t, 1, a, b)
      BY <1>1 DEF TodoOk
    <2>2. y.op \in Silencing => (Restarting(u, a) <=> Restarting(t, a))
      BY <1>6 DEF Turns, Silencing
    <2> QED
      BY <1>1, <1>3, <1>4, <1>5, <2>1, <2>2 DEF Placed, Turns
  <1> QED
    <2>1. \A i \in 1 .. Len(u) : i = 1 \/ i \in 2 .. Len(t)
      BY <1>1
    <2>2. TodoOk(u, a, b)
      BY <1>1, <1>7, <1>8, <2>1 DEF TodoOk
    <2> QED
      BY <1>1, <1>2, <1>3, <1>4, <1>6, <2>2 DEF SameMode

\* What silences a slot spares the background while it is to be kept, and the
\* slot a switch leads to.
LEMMA SilencedIsSpared ==
    ASSUME NEW t, NEW a \in Background, NEW b, b = NoFile \/ b = a, TodoOk(t, a, b), t # <<>>,
           t[1].op \in Silencing \cup GivingUp
    PROVE  /\ Spared(t, a, b) => t[1].s # b
           /\ Switching(t) => t[1].s # LastOf(t).s
  <1>1. Len(t) \in Nat /\ Len(t) > 0
    BY PopFacts DEF TodoOk
  <1>2. Placed(t, 1, a, b) /\ Placed(t, Len(t), a, b)
    BY <1>1 DEF TodoOk
  <1>3. "E" \notin Background
    BY DEF Background
  <1>4. ~Primes(t)
    <2> SUFFICES ASSUME Primes(t) PROVE FALSE
      OBVIOUS
    <2>1. PICK i \in 1 .. Len(t) : t[i].op = "prime"
      BY DEF Primes
    <2>2. Placed(t, i, a, b)
      BY DEF TodoOk
    <2>3. i = 1 \/ t[1].op \in {"start", "started"}
      BY <2>1, <2>2 DEF Placed
    <2> QED
      BY <2>1, <2>3 DEF Silencing, GivingUp
  <1>5. Spared(t, a, b) => t[1].s # b
    <2>1. CASE t[1].op \in GivingUp
      BY <1>2, <1>3, <2>1 DEF Placed, Spared
    <2>2. CASE t[1].op \in Silencing
      BY <1>2, <1>4, <2>2 DEF Placed, Spared
    <2> QED
      BY <2>1, <2>2
  <1>6. Switching(t) => t[1].s # LastOf(t).s
    <2>1. CASE t[1].op \in GivingUp
      BY <1>2, <2>1 DEF Placed
    <2>2. CASE t[1].op \in Silencing
      BY <1>2, <2>2 DEF Placed, Switching, LastOf
    <2> QED
      BY <2>1, <2>2
  <1> QED
    BY <1>5, <1>6

\* The first operation of the command is one of the invariant's.
LEMMA HeadOk ==
    ASSUME PlayerInv, player_todo # <<>>
    PROVE  /\ Placed(player_todo, 1, active, background) /\ Head(player_todo) = player_todo[1]
           /\ OpOk(player_todo[1]) /\ Slot = player_todo[1].s /\ Slot \in Slots
           /\ IsSeq(player_todo) /\ Len(player_todo) \in Nat /\ Len(player_todo) > 0
           /\ \A name : AtOp(name) <=> player_todo[1].op = name
  <1>1. IsSeq(player_todo)
    BY DEF PlayerInv, TodoOk
  <1>2. Head(player_todo) = player_todo[1] /\ Len(player_todo) \in Nat /\ Len(player_todo) > 0
    BY <1>1, PopFacts
  <1>3. Placed(player_todo, 1, active, background)
    BY <1>2 DEF PlayerInv, TodoOk
  <1> QED
    BY <1>1, <1>2, <1>3 DEF Placed, OpOk, Slot, AtOp

\* An operation that may change the stream of its slot, of a command that
\* stays what it is.
LEMMA StepKeeps ==
    ASSUME PlayerInv, player_todo # <<>>, player_todo[1].op # "start",
           UNCHANGED <<active, background, reader>>,
           TodoOk(player_todo', active, background),
           SameMode(player_todo', player_todo, active),
           DOMAIN mix' = Slots, DOMAIN heard' = Slots,
           \A z \in Slots : z # Slot => mix'[z] = mix[z] /\ heard'[z] = heard[z],
           MixOk(mix'[Slot]), heard'[Slot] \in Nat, Few(heard'[Slot], mix'[Slot], reader[Slot]),
           mix'[Slot] = mix[Slot] \/ player_todo[1].op \in Silencing \cup GivingUp
    PROVE  PlayerInv'
  <1>1. /\ Slot \in Slots /\ Slot = player_todo[1].s /\ active \in Background
        /\ background = NoFile \/ background = active
        /\ TodoOk(player_todo, active, background)
    BY HeadOk DEF PlayerInv, ActiveOk
  <1>2. SlotsOk' /\ FewChunks'
    BY <1>1 DEF PlayerInv, SlotsOk, FewChunks
  <1>3. ActiveOk'
    BY DEF PlayerInv, ActiveOk
  <1>4. ASSUME Spared(player_todo', active, background)
        PROVE  Plays(mix'[background], reader[background])
    <2>1. Spared(player_todo, active, background)
      BY <1>4 DEF Spared, SameMode
    <2>2. Plays(mix[background], reader[background]) /\ background \in Slots
      BY <1>1, <2>1 DEF PlayerInv, BackgroundPlays, Spared, Slots
    <2>3. mix'[background] = mix[background]
      <3>1. CASE mix'[Slot] = mix[Slot]
        BY <2>2, <3>1
      <3>2. CASE player_todo[1].op \in Silencing \cup GivingUp
        <4>1. player_todo[1].s # background
          BY <1>1, <2>1, <3>2, SilencedIsSpared
        <4> QED
          BY <1>1, <2>2, <4>1
      <3> QED
        BY <3>1, <3>2
    <2> QED
      BY <2>2, <2>3
  <1>5. ASSUME Follows(player_todo')
        PROVE  StreamRuns(mix'[LastOf(player_todo').s], reader[LastOf(player_todo').s])
    <2>1. Switching(player_todo) /\ LastOf(player_todo') = LastOf(player_todo)
      BY <1>5 DEF Follows, SameMode
    <2>2. PICK z : z = LastOf(player_todo).s
      OBVIOUS
    <2>3. StreamRuns(mix[z], reader[z])
      BY <2>1, <2>2 DEF PlayerInv, SuccessorRuns, Follows
    <2>4. Placed(player_todo, Len(player_todo), active, background)
      BY HeadOk DEF PlayerInv, TodoOk
    <2>5. z \in Slots
      BY <2>2, <2>4 DEF Placed, OpOk, LastOf
    <2>6. mix'[z] = mix[z]
      <3>1. CASE mix'[Slot] = mix[Slot]
        BY <2>5, <3>1
      <3>2. CASE player_todo[1].op \in Silencing \cup GivingUp
        <4>1. player_todo[1].s # z
          BY <1>1, <2>1, <2>2, <3>2, SilencedIsSpared
        <4> QED
          BY <1>1, <2>5, <4>1
      <3> QED
        BY <3>1, <3>2
    <2> QED
      BY <2>1, <2>2, <2>3, <2>6
  <1> QED
    BY <1>2, <1>3, <1>4, <1>5 DEF PlayerInv, BackgroundPlays, SuccessorRuns

\* The same when no stream changes.
LEMMA StepSame ==
    ASSUME PlayerInv, player_todo # <<>>, player_todo[1].op # "start",
           UNCHANGED <<active, background, reader, mix, heard>>,
           TodoOk(player_todo', active, background),
           SameMode(player_todo', player_todo, active)
    PROVE  PlayerInv'
  <1>1. Slot \in Slots
    BY HeadOk
  <1>2. /\ DOMAIN mix' = Slots /\ DOMAIN heard' = Slots
        /\ MixOk(mix'[Slot]) /\ heard'[Slot] \in Nat
        /\ Few(heard'[Slot], mix'[Slot], reader[Slot]) /\ mix'[Slot] = mix[Slot]
        /\ \A z \in Slots : mix'[z] = mix[z] /\ heard'[z] = heard[z]
    BY <1>1 DEF PlayerInv, SlotsOk, FewChunks
  <1> QED
    BY <1>2, StepKeeps

\* An operation that is done and changed no stream.
LEMMA DoneSame ==
    ASSUME PlayerInv, player_todo # <<>>, OpDone,
           player_todo[1].op \notin {"prime", "switch", "start"},
           UNCHANGED <<active, background, reader, mix, heard>>
    PROVE  PlayerInv'
  <1>1. TodoOk(player_todo', active, background) /\ SameMode(player_todo', player_todo, active)
    BY PopKeeps DEF PlayerInv, OpDone
  <1> QED
    BY <1>1, StepSame

\* An operation that turns into its next part and changed no stream.
LEMMA TurnSame ==
    ASSUME PlayerInv, player_todo # <<>>,
           player_todo[1].op \notin {"prime", "switch", "start"},
           NEW y, Turns(player_todo[1], y), player_todo' = <<y>> \o Tail(player_todo),
           UNCHANGED <<active, background, reader, mix, heard>>
    PROVE  PlayerInv'
  <1>1. TodoOk(player_todo', active, background) /\ SameMode(player_todo', player_todo, active)
    BY SwapKeeps DEF PlayerInv
  <1> QED
    BY <1>1, StepSame

\* The part of an operation that follows it.
LEMMA TurnFacts ==
    ASSUME NEW x, OpOk(x), NEW name \in OpNames \ {"prime", "switch", "start"},
           NEW y, y = [x EXCEPT !.op = name],
           x.op \notin {"prime", "switch", "start", "started"},
           name \in GivingUp => x.op \in GivingUp,
           name \in Silencing => x.op \in Silencing
    PROVE  Turns(x, y)
  <1>1. DOMAIN y = DOMAIN x /\ y.op = name /\ y.s = x.s /\ y.audible = x.audible
    BY DEF OpOk
  <1> QED
    BY <1>1 DEF Turns, OpOk

\* Fading out a slot.
LEMMA FadeKeeps ==
    ASSUME PlayerInv, start_slot_fade_out
    PROVE  PlayerInv'
  <1>1. /\ player_todo # <<>> /\ player_todo[1].op = "fade" /\ Slot \in Slots
        /\ OpDone /\ mix' = [mix EXCEPT ![Slot] = fade_out_stream(mix[Slot])]
        /\ UNCHANGED <<active, background, reader, heard>>
    BY HeadOk DEF start_slot_fade_out, AtOp
  <1>2. TodoOk(player_todo', active, background) /\ SameMode(player_todo', player_todo, active)
    BY <1>1, PopKeeps DEF PlayerInv, OpDone
  <1>3. /\ MixOk(mix[Slot]) /\ heard[Slot] \in Nat /\ Few(heard[Slot], mix[Slot], reader[Slot])
        /\ DOMAIN mix = Slots /\ DOMAIN heard = Slots
    BY <1>1 DEF PlayerInv, SlotsOk, FewChunks
  <1>4. PICK m : m = fade_out_stream(mix[Slot])
    OBVIOUS
  <1>5. MixOk(m) /\ m.pcm = mix[Slot].pcm /\ m.on = mix[Slot].on
    BY <1>3, <1>4 DEF MixOk, MixFields, fade_out_stream
  <1>6. Few(heard[Slot], m, reader[Slot])
    BY <1>3, <1>5 DEF Few
  <1>7. /\ DOMAIN mix' = Slots /\ mix'[Slot] = m
        /\ \A z \in Slots : z # Slot => mix'[z] = mix[z]
    BY <1>1, <1>3, <1>4
  <1>8. player_todo[1].op \in Silencing \cup GivingUp /\ player_todo[1].op # "start"
    BY <1>1 DEF Silencing
  <1> QED
    BY <1>1, <1>2, <1>3, <1>5, <1>6, <1>7, <1>8, StepKeeps

\* Asking a reader to stop: the stream is reset.
LEMMA StopRequestKeeps ==
    ASSUME PlayerInv, stop_reader_request
    PROVE  PlayerInv'
  <1>1. /\ player_todo # <<>> /\ player_todo[1].op \in {"stop", "stop!"} /\ Slot \in Slots
        /\ OpOk(player_todo[1]) /\ Head(player_todo) = player_todo[1]
        /\ mix' = [mix EXCEPT ![Slot] = stop_stream(mix[Slot])]
        /\ heard' = [heard EXCEPT ![Slot] = 0]
        /\ UNCHANGED <<active, background, reader>>
    BY HeadOk DEF stop_reader_request, AtOp
  <1>2. PICK name, y : /\ name = IF player_todo[1].op = "stop" THEN "ask" ELSE "ask!"
                       /\ y = [player_todo[1] EXCEPT !.op = name]
    OBVIOUS
  <1>3. player_todo' = <<y>> \o Tail(player_todo)
    BY <1>1, <1>2 DEF stop_reader_request
  <1>4. Turns(player_todo[1], y)
    <2>1. name \in OpNames \ {"prime", "switch", "start"}
      BY <1>2 DEF OpNames
    <2>2. /\ name \in GivingUp => player_todo[1].op \in GivingUp
          /\ name \in Silencing => player_todo[1].op \in Silencing
      BY <1>1, <1>2 DEF GivingUp, Silencing
    <2> QED
      BY <1>1, <1>2, <2>1, <2>2, TurnFacts
  <1>5. TodoOk(player_todo', active, background) /\ SameMode(player_todo', player_todo, active)
    BY <1>1, <1>3, <1>4, SwapKeeps DEF PlayerInv
  <1>6. DOMAIN mix = Slots /\ DOMAIN heard = Slots
    BY DEF PlayerInv, SlotsOk
  <1>7. /\ DOMAIN mix' = Slots /\ mix'[Slot] = SilentMix
        /\ DOMAIN heard' = Slots /\ heard'[Slot] = 0
        /\ \A z \in Slots : z # Slot => mix'[z] = mix[z] /\ heard'[z] = heard[z]
    BY <1>1, <1>6 DEF stop_stream
  <1>8. MixOk(SilentMix) /\ Few(0, SilentMix, reader[Slot])
    BY DEF MixOk, MixFields, SilentMix, Few, Sending
  <1>9. player_todo[1].op \in Silencing \cup GivingUp /\ player_todo[1].op # "start"
    BY <1>1 DEF Silencing, GivingUp
  <1> QED
    BY <1>1, <1>5, <1>7, <1>8, <1>9, StepKeeps

\* Giving up a command leaves no operation, and the background as it is.
LEMMA AbortKeeps ==
    ASSUME PlayerInv, Abort, UNCHANGED <<active, background, reader, mix, heard>>,
           ~Restarting(player_todo, active), Switching(player_todo) => Primes(player_todo)
    PROVE  PlayerInv'
  <1>1. TodoOk(<<>>, active, background)
    <2>1. IsSeq(<<>>) /\ Len(<<>>) = 0
      BY DEF IsSeq
    <2> QED
      BY <2>1 DEF TodoOk
  <1>2. ~Follows(<<>>) /\ ~Restarting(<<>>, active) /\ ~Switching(<<>>)
    BY DEF Follows, Switching, Restarting
  <1>3. SlotsOk' /\ FewChunks' /\ ActiveOk'
    BY DEF PlayerInv, SlotsOk, FewChunks, ActiveOk
  <1>4. BackgroundPlays'
    BY DEF PlayerInv, BackgroundPlays, Spared
  <1> QED
    BY <1>1, <1>2, <1>3, <1>4 DEF PlayerInv, Abort, SuccessorRuns

\* The rest of the stop: the lock section, and the wait.
LEMMA WaitKeeps ==
    ASSUME PlayerInv,
           stop_reader_lock \/ stop_reader_drop_notification \/ stop_reader_wait
    PROVE  PlayerInv'
  <1>1. CASE stop_reader_lock
    <2>1. /\ player_todo # <<>> /\ player_todo[1].op \in {"ask", "ask!"}
          /\ OpOk(player_todo[1]) /\ Head(player_todo) = player_todo[1]
          /\ UNCHANGED <<active, background, reader, mix, heard>>
      BY <1>1, HeadOk DEF stop_reader_lock, AtOp
    <2>2. PICK name, y : /\ name = IF player_todo[1].op = "ask" THEN "drop" ELSE "drop!"
                         /\ y = [player_todo[1] EXCEPT !.op = name]
      OBVIOUS
    <2>3. \/ player_todo' = <<y>> \o Tail(player_todo)
          \/ player_todo' = <<>> \o Tail(player_todo)
      BY <1>1, <2>1, <2>2 DEF stop_reader_lock
    <2>4. Turns(player_todo[1], y)
      <3>1. name \in OpNames \ {"prime", "switch", "start"}
        BY <2>2 DEF OpNames
      <3>2. /\ name \in GivingUp => player_todo[1].op \in GivingUp
            /\ name \in Silencing => player_todo[1].op \in Silencing
        BY <2>1, <2>2 DEF GivingUp, Silencing
      <3> QED
        BY <2>1, <2>2, <3>1, <3>2, TurnFacts
    <2>5. <<>> \o Tail(player_todo) = Tail(player_todo)
      <3>1. PICK S : Tail(player_todo) \in Seq(S)
        BY <2>1, PopFacts DEF PlayerInv, TodoOk, IsSeq
      <3> QED
        BY <3>1
    <2>6. CASE player_todo' = <<y>> \o Tail(player_todo)
      BY <2>1, <2>4, <2>6, TurnSame
    <2>7. CASE player_todo' = <<>> \o Tail(player_todo)
      BY <2>1, <2>5, <2>7, DoneSame DEF OpDone
    <2> QED
      BY <2>3, <2>6, <2>7
  <1>2. CASE stop_reader_drop_notification
    <2>1. /\ player_todo # <<>> /\ player_todo[1].op \in {"drop", "drop!"}
          /\ OpOk(player_todo[1]) /\ Head(player_todo) = player_todo[1]
          /\ UNCHANGED <<active, background, reader, mix, heard>>
      BY <1>2, HeadOk DEF stop_reader_drop_notification, AtOp
    <2>2. PICK name, y : /\ name = IF player_todo[1].op = "drop" THEN "wait" ELSE "wait!"
                         /\ y = [player_todo[1] EXCEPT !.op = name]
      OBVIOUS
    <2>3. player_todo' = <<y>> \o Tail(player_todo)
      BY <1>2, <2>1, <2>2 DEF stop_reader_drop_notification
    <2>4. Turns(player_todo[1], y)
      <3>1. name \in OpNames \ {"prime", "switch", "start"}
        BY <2>2 DEF OpNames
      <3>2. /\ name \in GivingUp => player_todo[1].op \in GivingUp
            /\ name \in Silencing => player_todo[1].op \in Silencing
        BY <2>1, <2>2 DEF GivingUp, Silencing
      <3> QED
        BY <2>1, <2>2, <3>1, <3>2, TurnFacts
    <2> QED
      BY <2>1, <2>3, <2>4, TurnSame
  <1>3. CASE stop_reader_wait
    <2>1. /\ player_todo # <<>> /\ player_todo[1].op \in {"wait", "wait!"}
          /\ UNCHANGED <<active, background, reader, mix, heard>>
          /\ OpDone \/ (player_todo[1].op = "wait!" /\ Abort)
      BY <1>3, HeadOk DEF stop_reader_wait, AtOp
    <2>2. CASE OpDone
      BY <2>1, <2>2, DoneSame
    <2>3. CASE player_todo[1].op = "wait!" /\ Abort
      <3>1. ~Switching(player_todo) /\ ~Restarting(player_todo, active)
        BY <2>1, <2>3, HeadOk DEF Placed, GivingUp
      <3> QED
        BY <2>1, <2>3, <3>1, AbortKeeps
    <2> QED
      BY <2>1, <2>2, <2>3
  <1> QED
    BY <1>1, <1>2, <1>3

\* No operation.
LEMMA EmptyTodo ==
    ASSUME NEW a, NEW b
    PROVE  /\ TodoOk(<<>>, a, b) /\ ~Follows(<<>>)
           /\ ~Switching(<<>>) /\ ~Restarting(<<>>, a)
  <1>1. IsSeq(<<>>) /\ Len(<<>>) = 0
    BY DEF IsSeq
  <1> QED
    BY <1>1 DEF TodoOk, Follows, Switching, Restarting

\* An operation.
LEMMA OpFacts ==
    ASSUME NEW name \in OpNames, NEW s \in Slots
    PROVE  OpOk(Op(name, s)) /\ Op(name, s).op = name /\ Op(name, s).s = s
  BY DEF OpOk, Op

\* A single operation that only records a start.
LEMMA OneStarted ==
    ASSUME NEW u, IsSeq(u), Len(u) = 1, OpOk(u[1]), u[1].op = "started", NEW a, NEW b
    PROVE  TodoOk(u, a, b) /\ ~Follows(u) /\ ~Switching(u) /\ ~Restarting(u, a)
  <1>1. \A i \in 1 .. Len(u) : i = 1
    OBVIOUS
  <1>2. ~Switching(u) /\ ~Restarting(u, a)
    BY DEF Switching, Restarting, LastOf
  <1>3. Placed(u, 1, a, b)
    BY DEF Placed, GivingUp, Silencing
  <1> QED
    BY <1>1, <1>2, <1>3 DEF TodoOk, Follows

\* One slot was started or stopped anew.
LEMMA AnewKeeps ==
    ASSUME PlayerInv, NEW s \in Slots,
           DOMAIN mix' = Slots, DOMAIN reader' = Slots, DOMAIN heard' = Slots,
           \A z \in Slots : z # s => /\ mix'[z] = mix[z] /\ reader'[z] = reader[z]
                                     /\ heard'[z] = heard[z],
           MixOk(mix'[s]), ReaderOk(reader'[s]), heard'[s] = Uncounted
    PROVE  SlotsOk' /\ FewChunks'
  BY DEF PlayerInv, SlotsOk, FewChunks, Few, Uncounted

\* A start is that of the active slot, the last operation of a restart; of
\* the effects, the last operation too; or silent, the first of a switch.
LEMMA StartMode ==
    ASSUME PlayerInv, player_todo # <<>>, player_todo[1].op = "start"
    PROVE  \/ Len(player_todo) = 1 /\ Slot = active /\ player_todo[1].audible = TRUE
           \/ /\ (Slot # active /\ Slot \notin Background) \/ player_todo[1].audible = FALSE
              /\ background # NoFile => Spared(player_todo, active, background)
              /\ Len(player_todo) = 1 \/ (Switching(player_todo) /\ Slot = LastOf(player_todo).s)
  <1> DEFINE t == player_todo
  <1>1. /\ Placed(t, 1, active, background) /\ Slot = t[1].s /\ Len(t) \in Nat /\ Len(t) > 0
        /\ t[1].audible \in BOOLEAN /\ active \in Background /\ "E" \notin Background
    BY HeadOk DEF OpOk, PlayerInv, ActiveOk, Background
  <1>2. CASE Len(t) = 1 /\ t[1].s = "E"
    <2>1. LastOf(t) = t[1]
      BY <1>2 DEF LastOf
    <2>2. ~Switching(t) /\ ~Restarting(t, active)
      BY <1>1, <1>2, <2>1 DEF Switching, Restarting
    <2>3. background # NoFile => Spared(t, active, background)
      BY <2>2 DEF Spared
    <2>4. Slot # active /\ Slot \notin Background
      BY <1>1, <1>2
    <2> QED
      BY <1>2, <2>3, <2>4, Zenon
  <1>3. CASE Len(t) = 1 /\ t[1].s = active /\ t[1].audible
    BY <1>1, <1>3
  <1>4. CASE /\ ~t[1].audible /\ t[1].s \in Background /\ t[1].s # active
             /\ Switching(t) /\ t[1].s = LastOf(t).s /\ Primes(t)
    BY <1>1, <1>4 DEF Spared, Switching, Restarting
  <1> QED
    BY <1>1, <1>2, <1>3, <1>4 DEF Placed

\* Starting a reader.
LEMMA StartKeeps ==
    ASSUME PlayerInv, start_reader_slot
    PROVE  PlayerInv'
  <1>1. /\ player_todo # <<>> /\ player_todo[1].op = "start" /\ Slot \in Slots
        /\ OpOk(player_todo[1]) /\ Slot = player_todo[1].s /\ Head(player_todo) = player_todo[1]
        /\ IsSeq(player_todo) /\ Len(player_todo) \in Nat /\ Len(player_todo) > 0
        /\ UNCHANGED active
    BY HeadOk DEF start_reader_slot, AtOp
  <1>2. PICK s : s = Slot
    OBVIOUS
  <1>3. /\ DOMAIN mix = Slots /\ DOMAIN heard = Slots /\ DOMAIN reader = Slots
        /\ ReaderOk(reader[s]) /\ s \in Slots
        /\ active \in Background /\ active \in Slots /\ "E" \notin Background
        /\ background = NoFile \/ background = active
    BY <1>1, <1>2 DEF PlayerInv, SlotsOk, ActiveOk, Slots, Background
  <1>4. PICK audible : audible = player_todo[1].audible
    OBVIOUS
  <1>5. \/ Len(player_todo) = 1 /\ s = active /\ audible = TRUE
        \/ /\ s \notin Background \/ audible = FALSE
           /\ s # active
           /\ background # NoFile => Spared(player_todo, active, background)
           /\ Len(player_todo) = 1 \/ (Switching(player_todo) /\ s = LastOf(player_todo).s)
    <2>1. audible = FALSE => s # active
      BY <1>1, <1>2, <1>3, <1>4, HeadOk DEF Placed
    <2> QED
      BY <1>1, <1>2, <1>3, <1>4, <2>1, StartMode
  <1>6. CASE /\ Abort /\ UNCHANGED <<mix, reader, heard>>
             /\ background' = IF s = background THEN NoFile ELSE background
    <2>1. SlotsOk' /\ FewChunks'
      BY <1>6 DEF PlayerInv, SlotsOk, FewChunks
    <2>2. ActiveOk'
      BY <1>1, <1>3, <1>6 DEF ActiveOk
    <2>3. background' # NoFile => Plays(mix[background'], reader[background'])
      BY <1>3, <1>5, <1>6 DEF PlayerInv, BackgroundPlays
    <2> QED
      BY <1>6, <2>1, <2>2, <2>3, EmptyTodo DEF PlayerInv, Abort, BackgroundPlays, SuccessorRuns, Spared
  <1>7. CASE /\ heard' = [heard EXCEPT ![s] = Uncounted]
             /\ mix' = [mix EXCEPT ![s] = SilentMix] /\ UNCHANGED reader /\ Abort
             /\ background' = IF s \in Background /\ audible # FALSE THEN NoFile ELSE background
    <2>1. /\ DOMAIN mix' = Slots /\ DOMAIN heard' = Slots /\ DOMAIN reader' = Slots
          /\ \A z \in Slots : z # s => /\ mix'[z] = mix[z] /\ reader'[z] = reader[z]
                                       /\ heard'[z] = heard[z]
          /\ mix'[s] = SilentMix /\ reader'[s] = reader[s] /\ heard'[s] = Uncounted
      BY <1>3, <1>7
    <2>2. MixOk(SilentMix)
      BY DEF MixOk, MixFields, SilentMix
    <2>3. SlotsOk' /\ FewChunks'
      BY <1>3, <2>1, <2>2, AnewKeeps
    <2>4. ActiveOk'
      BY <1>1, <1>3, <1>7 DEF ActiveOk
    <2>5. background' # NoFile => Plays(mix'[background'], reader'[background'])
      <3> SUFFICES ASSUME background' # NoFile
                   PROVE  Plays(mix'[background'], reader'[background'])
        OBVIOUS
      <3>1. background' = background /\ background = active /\ s # active
        BY <1>3, <1>5, <1>7
      <3>2. Plays(mix[background], reader[background])
        BY <1>5, <3>1 DEF PlayerInv, BackgroundPlays
      <3> QED
        BY <1>3, <2>1, <3>1, <3>2
    <2> QED
      BY <1>7, <2>3, <2>4, <2>5, EmptyTodo DEF PlayerInv, Abort, BackgroundPlays, SuccessorRuns, Spared
  <1>12. \/ Len(player_todo) = 1
         \/ Len(player_todo) > 1 /\ Len(player_todo) # 1
    <2>1. \A n \in Nat : n > 0 => n = 1 \/ (n > 1 /\ n # 1)
      OBVIOUS
    <2> QED
      BY <1>1, <2>1, Zenon
  <1>8. ASSUME NEW q, ReaderOk(q),
               heard' = [heard EXCEPT ![s] = Uncounted],
               mix' = [mix EXCEPT ![s] = start_stream(audible)],
               reader' = [reader EXCEPT ![s] = q],
               player_todo' = <<Op("started", s)>> \o Tail(player_todo),
               background' = IF s \in Background /\ audible # FALSE THEN s ELSE background
        PROVE  PlayerInv'
    <2>1. PICK m, y : m = start_stream(audible) /\ y = Op("started", s)
      OBVIOUS
    <2>2. MixOk(m) /\ m.on /\ ~m.muted /\ ~m.fading /\ m.audible = audible
      BY <2>1 DEF MixOk, MixFields, SilentMix, start_stream
    <2>3. /\ DOMAIN mix' = Slots /\ DOMAIN heard' = Slots /\ DOMAIN reader' = Slots
          /\ \A z \in Slots : z # s => /\ mix'[z] = mix[z] /\ reader'[z] = reader[z]
                                       /\ heard'[z] = heard[z]
          /\ mix'[s] = m /\ reader'[s] = q /\ heard'[s] = Uncounted
      BY <1>3, <1>8, <2>1
    <2>4. SlotsOk' /\ FewChunks'
      BY <1>3, <1>8, <2>2, <2>3, AnewKeeps
    <2>5. ActiveOk'
      BY <1>1, <1>3, <1>5, <1>8 DEF ActiveOk
    <2>6. OpOk(y) /\ y.op = "started" /\ y.s = s
      BY <1>3, <2>1, OpFacts DEF OpNames
    <2>7. Headed(player_todo', y, player_todo)
      BY <1>1, <1>8, <2>1, SwapFacts
    <2>8. CASE Len(player_todo) = 1
      <3>1. /\ TodoOk(player_todo', active, background') /\ ~Follows(player_todo')
        BY <2>6, <2>7, <2>8, OneStarted DEF Headed
      <3>2. background' # NoFile => Plays(mix'[background'], reader'[background'])
        <4>1. CASE background' = s
          BY <1>3, <1>5, <1>8, <2>2, <2>3, <4>1 DEF Plays
        <4>2. CASE background' # s
          <5> SUFFICES ASSUME background' # NoFile
                       PROVE  Plays(mix'[background'], reader'[background'])
            OBVIOUS
          <5>1. background' = background /\ background = active /\ s # active
            BY <1>3, <1>5, <1>8, <4>2
          <5>2. Plays(mix[background], reader[background])
            BY <1>5, <5>1 DEF PlayerInv, BackgroundPlays
          <5> QED
            BY <1>3, <2>3, <5>1, <5>2
        <4> QED
          BY <4>1, <4>2
      <3> QED
        BY <1>1, <2>4, <2>5, <3>1, <3>2 DEF PlayerInv, BackgroundPlays, SuccessorRuns, Spared
    <2>9. CASE Len(player_todo) > 1 /\ Len(player_todo) # 1
      <3>7. Len(player_todo) # 1
        BY <2>9
      <3>8. s \notin Background \/ audible = FALSE
        BY <1>5, <3>7
      <3>9. background' = background
        BY <1>8, <3>8
      <3>1. /\ s # active /\ (background # NoFile => Spared(player_todo, active, background))
            /\ Switching(player_todo) /\ s = LastOf(player_todo).s
            /\ background' = background
        BY <1>5, <3>7, <3>9
      <3>2. Turns(player_todo[1], y)
        BY <1>1, <1>2, <2>6 DEF Turns, GivingUp, Silencing
      <3>3. TodoOk(player_todo', active, background) /\ SameMode(player_todo', player_todo, active)
        BY <1>1, <1>8, <2>1, <2>9, <3>2, SwapKeeps DEF PlayerInv
      <3>4. background # NoFile => Plays(mix'[background], reader'[background])
        <4> SUFFICES ASSUME background # NoFile
                     PROVE  Plays(mix'[background], reader'[background])
          OBVIOUS
        <4>1. Plays(mix[background], reader[background]) /\ background = active
          BY <1>3, <3>1 DEF PlayerInv, BackgroundPlays
        <4> QED
          BY <1>3, <2>3, <3>1, <4>1
      <3>5. LastOf(player_todo').s = s
        BY <3>1, <3>3 DEF SameMode
      <3>6. StreamRuns(mix'[s], reader'[s])
        BY <2>2, <2>3 DEF StreamRuns
      <3> QED
        BY <1>1, <2>4, <2>5, <3>1, <3>3, <3>4, <3>5, <3>6
           DEF PlayerInv, BackgroundPlays, SuccessorRuns, Spared
    <2> QED
      BY <1>12, <2>8, <2>9
  <1>9. PICK q : q = [pc |-> "created", file |-> Head(player_todo).file,
                      left |-> IF Head(player_todo).file = "loop" THEN 1 ELSE PREROLL + 1]
    OBVIOUS
  <1>10. ReaderOk(q)
    BY <1>9 DEF ReaderOk
  <1>11. /\ Head(player_todo).audible = audible /\ Head(player_todo) = player_todo[1]
    BY <1>1, <1>4
  <1> QED
    BY <1>1, <1>2, <1>6, <1>7, <1>8, <1>9, <1>10, <1>11 DEF start_reader_slot, stop_stream

\* A list that neither starts nor switches, and silences nothing that is to
\* be kept.
Harmless(x, a, b) ==
    /\ OpOk(x) /\ x.op \in {"fade", "faded", "stop", "keep", "idle", "error"}
    /\ x.op \in {"fade", "stop"} => x.s # a \/ b = NoFile

\* Such a list is placed as a command is.
LEMMA PlainTodo ==
    ASSUME NEW u, IsSeq(u), NEW a, NEW b, \A i \in 1 .. Len(u) : Harmless(u[i], a, b)
    PROVE  TodoOk(u, a, b) /\ ~Follows(u) /\ ~Switching(u) /\ ~Restarting(u, a)
  <1>1. ~Switching(u) /\ ~Restarting(u, a)
    <2>1. u # <<>> => Len(u) \in 1 .. Len(u)
      BY SeqFacts
    <2> QED
      BY <2>1 DEF Switching, Restarting, LastOf, Harmless
  <1>2. ASSUME NEW i \in 1 .. Len(u)
        PROVE  Placed(u, i, a, b)
    <2>1. Harmless(u[i], a, b)
      OBVIOUS
    <2> QED
      BY <1>1, <2>1 DEF Placed, Harmless, GivingUp, Silencing
  <1> QED
    BY <1>1, <1>2 DEF TodoOk, Follows

\* The wait for the new background to be primed.
LEMMA PrimeKeeps ==
    ASSUME PlayerInv, wait_mixer_primed
    PROVE  PlayerInv'
  <1>1. /\ player_todo # <<>> /\ player_todo[1].op = "prime" /\ Slot \in Slots
        /\ Slot = player_todo[1].s
        /\ Placed(player_todo, 1, active, background)
        /\ IsSeq(player_todo) /\ Len(player_todo) \in Nat /\ Len(player_todo) > 0
        /\ UNCHANGED <<active, background, reader, mix, heard>>
    BY HeadOk DEF wait_mixer_primed, AtOp
  <1>2. Switching(player_todo) /\ Slot = LastOf(player_todo).s
    BY <1>1 DEF Placed
  <1>3. Placed(player_todo, Len(player_todo), active, background)
    BY <1>1 DEF PlayerInv, TodoOk
  <1>4. Slot # active /\ ~Restarting(player_todo, active) /\ Primes(player_todo)
    <2>1. Primes(player_todo)
      BY <1>1 DEF Primes
    <2> QED
      BY <1>2, <1>3, <2>1 DEF Placed, Switching, Restarting, LastOf
  <1>5. SlotsOk' /\ FewChunks' /\ ActiveOk'
    BY <1>1 DEF PlayerInv, SlotsOk, FewChunks, ActiveOk
  <1>6. CASE OpDone
    <2>1. TodoOk(Tail(player_todo), active, background)
      BY <1>1, PopKeeps DEF PlayerInv
    <2>2. Len(player_todo) > 1
      <3>1. Len(player_todo) # 1
        BY <1>1, <1>2 DEF Switching, LastOf
      <3>2. \A n \in Nat : n > 0 /\ n # 1 => n > 1
        OBVIOUS
      <3> QED
        BY <1>1, <3>1, <3>2, Zenon
    <2>3. /\ Tail(player_todo) # <<>> /\ LastOf(Tail(player_todo)) = LastOf(player_todo)
          /\ Len(Tail(player_todo)) = Len(player_todo) - 1
          /\ \A i \in 1 .. Len(player_todo) - 1 : Tail(player_todo)[i] = player_todo[i + 1]
      BY <1>1, <2>2, PopFacts
    <2>4. ~Primes(Tail(player_todo))
      <3> SUFFICES ASSUME Primes(Tail(player_todo)) PROVE FALSE
        OBVIOUS
      <3>1. PICK i \in 1 .. Len(player_todo) - 1 : Tail(player_todo)[i].op = "prime"
        BY <2>3 DEF Primes
      <3>2. i + 1 \in 1 .. Len(player_todo) /\ i + 1 # 1
        BY <1>1
      <3>3. player_todo[i + 1].op = "prime"
        BY <2>3, <3>1
      <3>4. Placed(player_todo, i + 1, active, background)
        BY <3>2 DEF PlayerInv, TodoOk
      <3>5. player_todo[1].op \in {"start", "started"}
        BY <3>2, <3>3, <3>4 DEF Placed
      <3> QED
        BY <1>1, <3>5
    <2>5. Switching(Tail(player_todo))
      BY <1>2, <2>3 DEF Switching
    <2>6. StreamRuns(mix[Slot], reader[Slot])
      BY <1>1, <1>2 DEF PlayerInv, SuccessorRuns, Follows
    <2> QED
      BY <1>1, <1>2, <1>5, <1>6, <2>1, <2>3, <2>4, <2>5, <2>6
         DEF PlayerInv, BackgroundPlays, SuccessorRuns, Spared, OpDone
  <1>7. CASE player_todo' = <<Op("stop", Slot), Op("keep", Slot)>>
    <2>1. PICK x, y, u : x = Op("stop", Slot) /\ y = Op("keep", Slot) /\ u = <<x, y>>
      OBVIOUS
    <2>2. Harmless(x, active, background) /\ Harmless(y, active, background)
      BY <1>1, <1>4, <2>1, OpFacts DEF Harmless, OpNames
    <2>3. IsSeq(u) /\ Len(u) = 2 /\ u[1] = x /\ u[2] = y
      <3>1. u \in Seq({x, y})
        BY <2>1
      <3> QED
        BY <2>1, <3>1 DEF IsSeq
    <2>4. \A i \in 1 .. Len(u) : Harmless(u[i], active, background)
      <3>1. \A i \in 1 .. Len(u) : i = 1 \/ i = 2
        BY <2>3
      <3> QED
        BY <2>2, <2>3, <3>1
    <2>5. TodoOk(u, active, background) /\ ~Follows(u)
      BY <2>3, <2>4, PlainTodo
    <2>6. background # NoFile => Plays(mix[background], reader[background])
      BY <1>4 DEF PlayerInv, BackgroundPlays, Spared
    <2> QED
      BY <1>1, <1>5, <1>7, <2>1, <2>5, <2>6 DEF PlayerInv, BackgroundPlays, SuccessorRuns, Spared
  <1> QED
    BY <1>6, <1>7 DEF wait_mixer_primed

\* The switch to the new background.
LEMMA SwitchKeeps ==
    ASSUME PlayerInv, switch_background
    PROVE  PlayerInv'
  <1>1. /\ player_todo # <<>> /\ player_todo[1].op = "switch" /\ Slot \in Slots
        /\ Slot = player_todo[1].s
        /\ Placed(player_todo, 1, active, background)
        /\ IsSeq(player_todo)
        /\ UNCHANGED <<reader, heard>>
        /\ active' = Slot /\ background' = Slot
        /\ mix' = [mix EXCEPT ![Slot] = set_stream_audible(mix[Slot])]
    BY HeadOk DEF switch_background, AtOp
  <1>2. Len(player_todo) = 1 /\ Slot \in Background
    BY <1>1 DEF Placed
  <1>3. LastOf(player_todo) = player_todo[1] /\ Tail(player_todo) = <<>>
    BY <1>1, <1>2, PopFacts
  <1>4. StreamRuns(mix[Slot], reader[Slot])
    BY <1>1, <1>3 DEF PlayerInv, SuccessorRuns, Follows, Switching
  <1>5. PICK m : m = set_stream_audible(mix[Slot])
    OBVIOUS
  <1>6. /\ MixOk(mix[Slot]) /\ Few(heard[Slot], mix[Slot], reader[Slot])
        /\ DOMAIN mix = Slots
    BY <1>1 DEF PlayerInv, SlotsOk, FewChunks
  <1>7. /\ MixOk(m) /\ m.pcm = mix[Slot].pcm /\ m.on = mix[Slot].on
        /\ m.muted = mix[Slot].muted /\ m.fading = mix[Slot].fading
        /\ mix[Slot].on => m.audible
    BY <1>5, <1>6 DEF MixOk, MixFields, set_stream_audible
  <1>8. /\ DOMAIN mix' = Slots /\ mix'[Slot] = m
        /\ \A z \in Slots : z # Slot => mix'[z] = mix[z]
    BY <1>1, <1>5, <1>6
  <1>9. Few(heard[Slot], m, reader[Slot]) /\ Plays(m, reader[Slot])
    BY <1>4, <1>6, <1>7 DEF Few, Plays, StreamRuns
  <1>10. SlotsOk' /\ FewChunks'
    BY <1>1, <1>7, <1>8, <1>9 DEF PlayerInv, SlotsOk, FewChunks
  <1>11. player_todo' = <<>>
    BY <1>3 DEF switch_background, OpDone
  <1> QED
    BY <1>1, <1>2, <1>8, <1>9, <1>10, <1>11, EmptyTodo
       DEF PlayerInv, ActiveOk, BackgroundPlays, SuccessorRuns

-----------------------------------------------------------------------------
(* The audio player: the commands.                                          *)

\* A new command that spares the background, or comes after the background
\* was given up.
LEMMA CommandKeeps ==
    ASSUME PlayerInv, player_todo = <<>>,
           UNCHANGED <<active, mix, reader, heard>>,
           background' = background \/ background' = NoFile,
           TodoOk(player_todo', active, background'), ~Follows(player_todo')
    PROVE  PlayerInv'
  <1>1. SlotsOk' /\ FewChunks' /\ ActiveOk'
    BY DEF PlayerInv, SlotsOk, FewChunks, ActiveOk
  <1>2. ~Switching(player_todo) /\ ~Restarting(player_todo, active)
    BY DEF Switching, Restarting
  <1>3. background # NoFile => Plays(mix[background], reader[background])
    BY <1>2 DEF PlayerInv, BackgroundPlays, Spared
  <1> QED
    BY <1>1, <1>3 DEF PlayerInv, BackgroundPlays, SuccessorRuns, Spared

\* Playing the next background while one plays.
LEMMA PlayNext ==
    ASSUME NEW a \in Background, NEW b, NEW z \in Background, z # a, NEW piece,
           NEW u, u = <<Start(z, piece, FALSE), Op("prime", z), Op("fade", a), Op("faded", a),
                        Op("stop", a), Op("switch", z)>>
    PROVE  TodoOk(u, a, b) /\ ~Follows(u)
  <1>1. a \in Slots /\ z \in Slots
    BY DEF Slots
  <1>2. PICK x : x = Start(z, piece, FALSE)
    OBVIOUS
  <1>3. OpOk(x) /\ x.op = "start" /\ x.s = z /\ x.audible = FALSE
    BY <1>1, <1>2 DEF OpOk, Start, OpNames
  <1>4. PICK y2, y3, y4, y5, y6 : /\ y2 = Op("prime", z) /\ y3 = Op("fade", a)
                                  /\ y4 = Op("faded", a) /\ y5 = Op("stop", a)
                                  /\ y6 = Op("switch", z)
    OBVIOUS
  <1>5. /\ OpOk(y2) /\ OpOk(y3) /\ OpOk(y4) /\ OpOk(y5) /\ OpOk(y6)
        /\ y2.op = "prime" /\ y2.s = z /\ y3.op = "fade" /\ y3.s = a
        /\ y4.op = "faded" /\ y5.op = "stop" /\ y5.s = a
        /\ y6.op = "switch" /\ y6.s = z
    BY <1>1, <1>4, OpFacts DEF OpNames
  <1>7. /\ IsSeq(u) /\ Len(u) = 6 /\ u[1] = x /\ u[2] = y2 /\ u[3] = y3 /\ u[4] = y4
        /\ u[5] = y5 /\ u[6] = y6
    <2>1. u \in Seq({u[1], u[2], u[3], u[4], u[5], u[6]})
      OBVIOUS
    <2>2. /\ Len(u) = 6 /\ u[1] = Start(z, piece, FALSE) /\ u[2] = Op("prime", z)
          /\ u[3] = Op("fade", a) /\ u[4] = Op("faded", a)
          /\ u[5] = Op("stop", a) /\ u[6] = Op("switch", z)
      OBVIOUS
    <2> QED
      BY <1>2, <1>4, <2>1, <2>2 DEF IsSeq
  <1>8. Switching(u) /\ LastOf(u) = y6 /\ ~Restarting(u, a) /\ Primes(u)
    <2>1. u # <<>> /\ 2 \in 1 .. Len(u)
      BY <1>7
    <2> QED
      BY <1>5, <1>7, <2>1 DEF Switching, Restarting, Primes, LastOf
  <1>9. \A i \in 1 .. Len(u) : i = 1 \/ i = 2 \/ i = 3 \/ i = 4 \/ i = 5 \/ i = 6
    BY <1>7
  <1>10. Placed(u, 1, a, b)
    BY <1>3, <1>5, <1>7, <1>8 DEF Placed, GivingUp, Silencing
  <1>11. Placed(u, 2, a, b)
    BY <1>3, <1>5, <1>7, <1>8 DEF Placed, GivingUp, Silencing
  <1>12. Placed(u, 3, a, b) /\ Placed(u, 4, a, b) /\ Placed(u, 5, a, b)
    BY <1>5, <1>7, <1>8 DEF Placed, GivingUp, Silencing
  <1>13. Placed(u, 6, a, b)
    BY <1>5, <1>7, <1>8 DEF Placed, GivingUp, Silencing
  <1>14. \A i \in 1 .. Len(u) : Placed(u, i, a, b)
    BY <1>9, <1>10, <1>11, <1>12, <1>13
  <1> QED
    BY <1>3, <1>7, <1>14 DEF TodoOk, Follows

\* Playing a background when none plays.
LEMMA PlayFirst ==
    ASSUME NEW a \in Background, NEW b, NEW piece,
           NEW u, u = <<Op("stop", a), Start(a, piece, TRUE)>>
    PROVE  TodoOk(u, a, b) /\ ~Follows(u)
  <1>1. a \in Slots
    BY DEF Slots
  <1>2. PICK x, y : x = Start(a, piece, TRUE) /\ y = Op("stop", a)
    OBVIOUS
  <1>3. /\ OpOk(x) /\ x.op = "start" /\ x.s = a /\ x.audible = TRUE
        /\ OpOk(y) /\ y.op = "stop" /\ y.s = a
    BY <1>1, <1>2, OpFacts DEF OpOk, Start, OpNames
  <1>4. IsSeq(u) /\ Len(u) = 2 /\ u[1] = y /\ u[2] = x
    <2>1. u \in Seq({x, y})
      BY <1>2
    <2> QED
      BY <1>2, <2>1 DEF IsSeq
  <1>5. ~Switching(u) /\ Restarting(u, a)
    <2>1. u # <<>>
      BY <1>4
    <2> QED
      BY <1>3, <1>4, <2>1 DEF Switching, Restarting, LastOf
  <1>6. Placed(u, 1, a, b) /\ Placed(u, 2, a, b)
    BY <1>3, <1>4, <1>5 DEF Placed, GivingUp, Silencing
  <1>7. \A i \in 1 .. Len(u) : i = 1 \/ i = 2
    BY <1>4
  <1> QED
    BY <1>4, <1>5, <1>6, <1>7 DEF TodoOk, Follows

\* Playing an effect.
LEMMA PlayEffect ==
    ASSUME NEW a \in Background, NEW b, NEW piece,
           NEW u, u = <<Op("fade", "E"), Op("faded", "E"), Op("stop!", "E"), Start("E", piece, TRUE)>>
    PROVE  TodoOk(u, a, b) /\ ~Follows(u)
  <1>1. "E" \in Slots /\ a # "E"
    BY DEF Slots, Background
  <1>2. PICK x, y1, y2, y3 : /\ x = Start("E", piece, TRUE) /\ y1 = Op("fade", "E")
                             /\ y2 = Op("faded", "E") /\ y3 = Op("stop!", "E")
    OBVIOUS
  <1>3. /\ OpOk(x) /\ x.op = "start" /\ x.s = "E"
        /\ OpOk(y1) /\ y1.op = "fade" /\ y1.s = "E"
        /\ OpOk(y2) /\ y2.op = "faded" /\ y2.s = "E"
        /\ OpOk(y3) /\ y3.op = "stop!" /\ y3.s = "E"
    BY <1>1, <1>2, OpFacts DEF OpOk, Start, OpNames
  <1>4. IsSeq(u) /\ Len(u) = 4 /\ u[1] = y1 /\ u[2] = y2 /\ u[3] = y3 /\ u[4] = x
    <2>1. u \in Seq({x, y1, y2, y3})
      BY <1>2
    <2> QED
      BY <1>2, <2>1 DEF IsSeq
  <1>5. ~Switching(u) /\ ~Restarting(u, a)
    BY <1>1, <1>3, <1>4 DEF Switching, Restarting, LastOf
  <1>6. Placed(u, 1, a, b) /\ Placed(u, 2, a, b)
    BY <1>1, <1>3, <1>4, <1>5 DEF Placed, GivingUp, Silencing
  <1>7. Placed(u, 3, a, b) /\ Placed(u, 4, a, b)
    BY <1>1, <1>3, <1>4, <1>5 DEF Placed, GivingUp, Silencing
  <1>8. \A i \in 1 .. Len(u) : i = 1 \/ i = 2 \/ i = 3 \/ i = 4
    BY <1>4
  <1> QED
    BY <1>4, <1>5, <1>6, <1>7, <1>8 DEF TodoOk, Follows

\* An operation of such a list.
LEMMA PlainOp ==
    ASSUME NEW name \in {"fade", "faded", "stop", "idle", "error"}, NEW s \in Slots,
           NEW a, NEW b, s # a \/ b = NoFile
    PROVE  Harmless(Op(name, s), a, b)
  BY OpFacts DEF Harmless, OpNames

\* The lists of the stop commands, and of a card that is missing.
LEMMA StopLists ==
    ASSUME NEW a \in Background, NEW b
    PROVE  /\ TodoOk(handle_stop, a, NoFile) /\ ~Follows(handle_stop)
           /\ TodoOk(handle_stop_channel(TRUE), a, NoFile) /\ ~Follows(handle_stop_channel(TRUE))
           /\ TodoOk(handle_stop_channel(FALSE), a, b) /\ ~Follows(handle_stop_channel(FALSE))
           /\ TodoOk(<<Op("error", "E")>>, a, b) /\ ~Follows(<<Op("error", "E")>>)
  <1>1. "A" \in Slots /\ "B" \in Slots /\ "E" \in Slots /\ a # "E"
    BY DEF Slots, Background
  <1>2. \A name \in {"fade", "faded", "stop", "idle", "error"} : \A s \in Slots :
           Harmless(Op(name, s), a, NoFile) /\ Harmless(Op(name, "E"), a, b)
    BY <1>1, PlainOp
  <1>3. TodoOk(handle_stop, a, NoFile) /\ ~Follows(handle_stop)
    <2>1. PICK u : u = handle_stop
      OBVIOUS
    <2>2. /\ IsSeq(u) /\ Len(u) = 10
          /\ u[1] = Op("fade", "A") /\ u[2] = Op("fade", "B") /\ u[3] = Op("fade", "E")
          /\ u[4] = Op("faded", "A") /\ u[5] = Op("faded", "B") /\ u[6] = Op("faded", "E")
          /\ u[7] = Op("stop", "A") /\ u[8] = Op("stop", "B") /\ u[9] = Op("stop", "E")
          /\ u[10] = Op("idle", "E")
      <3>1. u \in Seq({u[1], u[2], u[3], u[4], u[5], u[6], u[7], u[8], u[9], u[10]})
        BY <2>1 DEF handle_stop
      <3> QED
        BY <2>1, <3>1 DEF handle_stop, IsSeq
    <2>3. \A i \in 1 .. Len(u) : i = 1 \/ i = 2 \/ i = 3 \/ i = 4 \/ i = 5 \/ i = 6 \/ i = 7
                                 \/ i = 8 \/ i = 9 \/ i = 10
      BY <2>2
    <2>4. \A i \in 1 .. Len(u) : Harmless(u[i], a, NoFile)
      BY <1>1, <1>2, <2>2, <2>3
    <2> QED
      BY <2>1, <2>2, <2>4, PlainTodo
  <1>4. TodoOk(handle_stop_channel(TRUE), a, NoFile) /\ ~Follows(handle_stop_channel(TRUE))
    <2>1. PICK u : u = handle_stop_channel(TRUE)
      OBVIOUS
    <2>2. /\ IsSeq(u) /\ Len(u) = 7
          /\ u[1] = Op("fade", "A") /\ u[2] = Op("faded", "A") /\ u[3] = Op("fade", "B")
          /\ u[4] = Op("faded", "B") /\ u[5] = Op("stop", "A") /\ u[6] = Op("stop", "B")
          /\ u[7] = Op("idle", "A")
      <3>1. u \in Seq({u[1], u[2], u[3], u[4], u[5], u[6], u[7]})
        BY <2>1 DEF handle_stop_channel
      <3> QED
        BY <2>1, <3>1 DEF handle_stop_channel, IsSeq
    <2>3. \A i \in 1 .. Len(u) : i = 1 \/ i = 2 \/ i = 3 \/ i = 4 \/ i = 5 \/ i = 6 \/ i = 7
      BY <2>2
    <2>4. \A i \in 1 .. Len(u) : Harmless(u[i], a, NoFile)
      BY <1>1, <1>2, <2>2, <2>3
    <2> QED
      BY <2>1, <2>2, <2>4, PlainTodo
  <1>5. TodoOk(handle_stop_channel(FALSE), a, b) /\ ~Follows(handle_stop_channel(FALSE))
    <2>1. PICK u : u = handle_stop_channel(FALSE)
      OBVIOUS
    <2>2. /\ IsSeq(u) /\ Len(u) = 4
          /\ u[1] = Op("fade", "E") /\ u[2] = Op("faded", "E") /\ u[3] = Op("stop", "E")
          /\ u[4] = Op("idle", "E")
      <3>1. u \in Seq({u[1], u[2], u[3], u[4]})
        BY <2>1 DEF handle_stop_channel
      <3> QED
        BY <2>1, <3>1 DEF handle_stop_channel, IsSeq
    <2>3. \A i \in 1 .. Len(u) : i = 1 \/ i = 2 \/ i = 3 \/ i = 4
      BY <2>2
    <2>4. \A i \in 1 .. Len(u) : Harmless(u[i], a, b)
      BY <1>1, <1>2, <2>2, <2>3
    <2> QED
      BY <2>1, <2>2, <2>4, PlainTodo
  <1>6. TodoOk(<<Op("error", "E")>>, a, b) /\ ~Follows(<<Op("error", "E")>>)
    <2>1. PICK u : u = <<Op("error", "E")>>
      OBVIOUS
    <2>2. IsSeq(u) /\ Len(u) = 1 /\ u[1] = Op("error", "E")
      <3>1. u \in Seq({u[1]})
        BY <2>1
      <3> QED
        BY <2>1, <3>1 DEF IsSeq
    <2>3. \A i \in 1 .. Len(u) : Harmless(u[i], a, b)
      <3>1. \A i \in 1 .. Len(u) : i = 1
        BY <2>2
      <3> QED
        BY <1>1, <1>2, <2>2, <3>1
    <2> QED
      BY <2>1, <2>2, <2>3, PlainTodo
  <1> QED
    BY <1>3, <1>4, <1>5, <1>6

\* Taking a command from the queue.
LEMMA TakeKeeps ==
    ASSUME PlayerInv, audio_runtime_task
    PROVE  PlayerInv'
  <1>1. /\ player_todo = <<>> /\ UNCHANGED <<active, mix, reader, heard>>
        /\ active \in Background
    BY DEF audio_runtime_task, PlayerInv, ActiveOk
  <1>2. PICK c : c = Head(queue)
    OBVIOUS
  <1>3. background' = IF c.type \in {"stop", "stop_background"} THEN NoFile ELSE background
    BY <1>2 DEF audio_runtime_task
  <1>4. \/ /\ c.type \in {"play", "play_effect", "seek", "play_background"}
           /\ \E sd \in BOOLEAN : player_todo' = handle_play(c, sd)
        \/ c.type = "stop" /\ player_todo' = handle_stop
        \/ c.type = "stop_background" /\ player_todo' = handle_stop_channel(TRUE)
        \/ c.type = "stop_effect" /\ player_todo' = handle_stop_channel(FALSE)
        \/ player_todo' = <<>>
    BY <1>2 DEF audio_runtime_task
  <1>5. CASE player_todo' = <<>>
    BY <1>1, <1>3, <1>5, CommandKeeps, EmptyTodo
  <1>6. CASE c.type = "stop" /\ player_todo' = handle_stop
    BY <1>1, <1>3, <1>6, CommandKeeps, StopLists
  <1>7. CASE c.type = "stop_background" /\ player_todo' = handle_stop_channel(TRUE)
    BY <1>1, <1>3, <1>7, CommandKeeps, StopLists
  <1>8. CASE c.type = "stop_effect" /\ player_todo' = handle_stop_channel(FALSE)
    BY <1>1, <1>3, <1>8, CommandKeeps, StopLists
  <1>9. ASSUME c.type \in {"play", "play_effect", "seek", "play_background"},
               NEW sd \in BOOLEAN, player_todo' = handle_play(c, sd)
        PROVE  PlayerInv'
    <2>1. background' = background
      BY <1>3, <1>9
    <2>2. PICK z : z = alternate_background_slot
      OBVIOUS
    <2>3. z \in Background /\ z # active
      BY <1>1, <2>2 DEF alternate_background_slot, Background
    <2>4. \/ player_todo' = <<Op("error", "E")>>
          \/ player_todo' = <<Start(z, c.file, FALSE), Op("prime", z), Op("fade", active),
                              Op("faded", active), Op("stop", active), Op("switch", z)>>
          \/ player_todo' = <<Op("stop", active), Start(active, c.file, TRUE)>>
          \/ player_todo' = <<Op("fade", "E"), Op("faded", "E"), Op("stop!", "E"),
                              Start("E", c.file, TRUE)>>
      BY <1>9, <2>2, Zenon DEF handle_play
    <2>5. PICK u : u = player_todo'
      OBVIOUS
    <2>6. TodoOk(u, active, background) /\ ~Follows(u)
      <3>1. CASE u = <<Op("error", "E")>>
        BY <1>1, <3>1, StopLists
      <3>2. CASE u = <<Start(z, c.file, FALSE), Op("prime", z), Op("fade", active),
                       Op("faded", active), Op("stop", active), Op("switch", z)>>
        BY <1>1, <2>3, <3>2, PlayNext
      <3>3. CASE u = <<Op("stop", active), Start(active, c.file, TRUE)>>
        BY <1>1, <3>3, PlayFirst
      <3>4. CASE u = <<Op("fade", "E"), Op("faded", "E"), Op("stop!", "E"),
                       Start("E", c.file, TRUE)>>
        BY <1>1, <3>4, PlayEffect
      <3> QED
        BY <2>4, <2>5, <3>1, <3>2, <3>3, <3>4, Zenon
    <2> QED
      BY <1>1, <2>1, <2>5, <2>6, CommandKeeps
  <1> QED
    BY <1>4, <1>5, <1>6, <1>7, <1>8, <1>9

\* Every operation of the runtime task keeps the invariant.
LEMMA RuntimeKeeps ==
    ASSUME PlayerInv, runtime_task
    PROVE  PlayerInv'
  <1>1. CASE wait_slot_fade_out_complete
    <2>1. /\ player_todo # <<>> /\ player_todo[1].op = "faded" /\ OpDone
          /\ UNCHANGED <<active, background, reader, mix, heard>>
      BY <1>1, HeadOk DEF wait_slot_fade_out_complete, AtOp
    <2> QED
      BY <2>1, DoneSame
  <1>2. CASE start_reader_record
    <2>1. /\ player_todo # <<>> /\ player_todo[1].op = "started" /\ OpDone
          /\ UNCHANGED <<active, background, reader, mix, heard>>
      BY <1>2, HeadOk DEF start_reader_record, AtOp
    <2> QED
      BY <2>1, DoneSame
  <1>3. CASE switch_keep
    <2>1. /\ player_todo # <<>> /\ player_todo[1].op = "keep" /\ OpDone
          /\ UNCHANGED <<active, background, reader, mix, heard>>
      BY <1>3, HeadOk DEF switch_keep, AtOp
    <2> QED
      BY <2>1, DoneSame
  <1>4. CASE handler_end
    <2>1. /\ player_todo # <<>> /\ player_todo[1].op \in {"idle", "error"} /\ OpDone
          /\ UNCHANGED <<active, background, reader, mix, heard>>
      BY <1>4, HeadOk DEF handler_end, AtOp
    <2> QED
      BY <2>1, DoneSame
  <1> QED
    BY <1>1, <1>2, <1>3, <1>4, TakeKeeps, FadeKeeps, StopRequestKeeps, WaitKeeps, StartKeeps,
       PrimeKeeps, SwitchKeeps DEF runtime_task

\* The invariant is inductive.
LEMMA PlayerInductive ==
    /\ PlayerInit => PlayerInv
    /\ PlayerInv /\ [PlayerNext]_player_vars => PlayerInv'
  <1>1. ASSUME PlayerInit
        PROVE  PlayerInv
    <2>1. MixOk(SilentMix) /\ ReaderOk(NoReader) /\ Uncounted \in Nat
      BY DEF MixOk, MixFields, SilentMix, ReaderOk, NoReader, Uncounted
    <2>2. /\ mix = [s \in Slots |-> SilentMix] /\ reader = [s \in Slots |-> NoReader]
          /\ heard = [s \in Slots |-> Uncounted] /\ player_todo = <<>>
          /\ active = "A" /\ background = NoFile
      BY <1>1 DEF PlayerInit
    <2>3. SlotsOk /\ FewChunks
      BY <2>1, <2>2 DEF SlotsOk, FewChunks, Few
    <2>4. ActiveOk
      BY <2>2 DEF ActiveOk, Background
    <2> QED
      BY <2>2, <2>3, <2>4, EmptyTodo DEF PlayerInv, BackgroundPlays, SuccessorRuns, Spared
  <1>2. ASSUME PlayerInv, [PlayerNext]_player_vars
        PROVE  PlayerInv'
    <2>1. CASE runtime_task
      BY <1>2, <2>1, RuntimeKeeps
    <2>2. CASE mixer_task
      BY <1>2, <2>2, MixerKeeps
    <2>3. ASSUME NEW s \in Slots, reader_task(s)
          PROVE  PlayerInv'
      BY <1>2, <2>3, ReaderKeeps
    <2>4. CASE Callers
      <3>1. UNCHANGED <<player_todo, active, background, mix, reader, heard>>
        BY <2>4 DEF Callers, play_background, play_effect, control, seek, runtime_enqueue
      <3> QED
        BY <1>2, <3>1, PlayerSame
    <2>5. CASE UNCHANGED player_vars
      <3>1. UNCHANGED <<player_todo, active, background, mix, reader, heard>>
        BY <2>5 DEF player_vars
      <3> QED
        BY <1>2, <3>1, PlayerSame
    <2> QED
      BY <1>2, <2>1, <2>2, <2>3, <2>4, <2>5 DEF PlayerNext
  <1> QED
    BY <1>1, <1>2

\* However commands, readers and the mixer interleave, and whichever writes,
\* starts and waits fail: after a slot was stopped at most the one chunk its
\* reader was writing is still played (stop_reader_slot).
THEOREM StopsAreNear == PlayerSpec => []StopIsNear
  <1>1. PlayerInv => StopIsNear
    <2> SUFFICES ASSUME PlayerInv, NEW s \in Slots
                 PROVE  heard[s] \in {0, 1, Uncounted}
      BY DEF StopIsNear
    <2>1. /\ MixOk(mix[s]) /\ heard[s] \in Nat /\ Few(heard[s], mix[s], reader[s])
      BY DEF PlayerInv, SlotsOk, FewChunks
    <2> QED
      BY <2>1 DEF Few, Sending, MixOk
  <1> QED
    BY <1>1, PlayerInductive, PTL DEF PlayerSpec

\* Between two commands the background the last one left playing is the
\* active slot, and while its reader goes on its stream is open, audible and
\* not muted, whichever switches were given up or broken off (handle_play).
THEOREM BackgroundGoesOn == PlayerSpec => []BackgroundKept
  <1>1. PlayerInv => BackgroundKept
    <2> SUFFICES ASSUME PlayerInv, player_todo = <<>>, background # NoFile
                 PROVE  /\ active = background
                        /\ reader[background].pc \in {"read", "send"} =>
                             mix[background].on /\ mix[background].audible /\ ~mix[background].muted
      BY DEF BackgroundKept
    <2>1. Spared(player_todo, active, background)
      BY EmptyTodo DEF Spared
    <2> QED
      BY <2>1 DEF PlayerInv, ActiveOk, BackgroundPlays, Plays, LivePcs
  <1> QED
    BY <1>1, PlayerInductive, PTL DEF PlayerSpec
=============================================================================
