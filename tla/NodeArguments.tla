---------------------------- MODULE NodeArguments ----------------------------
(***************************************************************************)
(* One command of the hub with its arguments, carried out by a node's       *)
(* control task: how long the outputs can be kept busy by it, whatever the  *)
(* timing is put together from.                                             *)
(***************************************************************************)
EXTENDS NodeCommands

CONSTANT Samples    \* the commands with their arguments

VARIABLES sample,   \* the command to carry out
          outcome   \* what came of it, or None

\* the numbers among the arguments, and the times and counts of the
\* configuration
NumberKeys == {"duration_ms", "on_ms", "off_ms", "fade_ms", "hold_ms", "step_ms",
               "count", "repeat", "times"}
MosfetKeys == {"fade_ms", "pulse_ms", "on_ms", "off_ms", "blinks", "breathe_ms",
               "hold_ms", "breaths"}
LedKeys == {"on_ms", "off_ms", "blinks", "cycle_ms", "step_ms", "breaths"}

\* node_control_internal.h: a single pulse or fade may take less than an effect.
ASSUME ArgumentsAssumption ==
    /\ WORD \in Nat \ {0}
    /\ NODE_CONTROL_MAX_MOSFET_EFFECT_MS \in Nat /\ NODE_CONTROL_MAX_LED_EFFECT_MS \in Nat
    /\ NODE_CONTROL_MAX_MOSFET_PULSE_MS \in 0 .. NODE_CONTROL_MAX_MOSFET_EFFECT_MS
    /\ NODE_CONTROL_MAX_MOSFET_FADE_MS \in 0 .. NODE_CONTROL_MAX_MOSFET_EFFECT_MS
    /\ \A c \in BOOLEAN : /\ \A k \in MosfetKeys : MosfetDefaults[c][k] \in Nat
                          /\ \A k \in LedKeys : LedDefaults[c][k] \in Nat
    /\ \A s \in Samples, k \in NumberKeys : Has(s.args, k) => s.args[k] \in Int

ArgumentsInit == sample \in Samples /\ outcome = None

\* The control task, for a command of the hub.
execute_sample ==
    /\ outcome = None
    /\ outcome' = node_control_execute_inline(sample.command, "hub", sample.args, "unknown")
    /\ UNCHANGED sample

ArgumentsSpec == ArgumentsInit /\ [][execute_sample]_<<sample, outcome>>

EffectLimit(kind) == IF kind = "led" THEN NODE_CONTROL_MAX_LED_EFFECT_MS
                     ELSE NODE_CONTROL_MAX_MOSFET_EFFECT_MS

\* node_control_internal.h, NODE_CONTROL_MAX_MOSFET_EFFECT_MS and
\* NODE_CONTROL_MAX_LED_EFFECT_MS: no command that is accepted and takes
\* effect keeps an output busy for longer, in whichever executor the timing
\* is put together from arguments, presets and defaults. Left out are effects
\* that were asked to run until they are stopped (their count is 0), times
\* whose sum does not fit in 32 bits and negative counts (the code's sum wraps,
\* and mosfet.blink takes a negative count), relays and the LED effects other
\* than strobe (they have no limit).
EffectsBounded ==
    outcome # None =>
      LET e == outcome.effect
      IN  \/ e = None \/ e.kind \notin {"mosfet", "led"}
          \/ sample.command \in {"led.effect", "led.preview.effect"} /\ sample.args.effect # "strobe"
          \/ e.on + e.off >= WORD
          \/ Has(sample.args, "count") /\ sample.args.count < 0
          \/ e.count * (e.on + e.off) <= EffectLimit(e.kind)
=============================================================================
