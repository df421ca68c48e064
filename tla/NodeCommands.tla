---------------------------- MODULE NodeCommands ----------------------------
(***************************************************************************)
(* What a node's control task makes of a command: the executors of         *)
(* node_control/.  The arguments of a command are a function from the keys *)
(* that are there to their values; what an executor decides is a record:   *)
(* the status and the error code of the result, and the effect it started  *)
(* on the outputs (None when it started nothing).                          *)
(*                                                                         *)
(* Numbers keep their widths: WORD stands for 2^32 and BYTE for 2^8.       *)
(***************************************************************************)
EXTENDS Integers, Sequences, FiniteSets

CONSTANTS WORD, BYTE,
          NODE_CONTROL_MAX_MOSFET_PULSE_MS,
          NODE_CONTROL_MAX_MOSFET_FADE_MS,
          NODE_CONTROL_MAX_MOSFET_EFFECT_MS,
          NODE_CONTROL_MAX_LED_STEP_MS,
          NODE_CONTROL_MAX_LED_DURATION_MS,
          NODE_CONTROL_MAX_LED_EFFECT_MS,
          Outputs,   \* Outputs[kind]: the channels that are configured
          MosfetDefaults, \* what a configured MOSFET starts from
          LedDefaults,    \* the presets of a configured strip
          LedEffects,     \* the advanced effects, with the extra colours of each
          None

Rejected(code) == [status |-> "rejected", error |-> code, effect |-> None]
Done(effect) == [status |-> "done", error |-> None, effect |-> effect]
Started(effect) == [status |-> "started", error |-> None, effect |-> effect]

\* an effect on an output: every on/off cycle takes on + off, count cycles are
\* run and 0 stands for "until it is stopped"
Effect(kind, channel, on, off, count) ==
    [kind |-> kind, channel |-> channel, on |-> on, off |-> off, count |-> count]
Plain(kind, channel) == Effect(kind, channel, 0, 0, 1)
-----------------------------------------------------------------------------
(* Reading arguments *)

Has(a, key) == key \in DOMAIN a
json_has_any_key(a, keys) == keys \cap DOMAIN a # {}

read_int_arg(a, key, default) == IF Has(a, key) THEN a[key] ELSE default
\* %u: a negative number wraps
read_u32_arg(a, key, default) == IF Has(a, key) THEN a[key] % WORD ELSE default
\* (int) of an unsigned number
AsInt(u) == IF u < WORD \div 2 THEN u ELSE u - WORD
read_pwm_arg(a, key) == Has(a, key) /\ a[key] \in 0 .. BYTE - 1
\* the optional one fails only on a value that is there and out of range
read_optional_pwm_arg(a, key) == Has(a, key) => a[key] \in 0 .. BYTE - 1
read_color_arg(a, key) == Has(a, key) /\ a[key] # "bad"
read_optional_color_arg(a, key) == Has(a, key) => a[key] # "bad"

\* (uint8_t)channel, then the driver's table
Channel(a) == a.channel % BYTE
Configured(kind, a) == Channel(a) \in Outputs[kind]
reject_missing(kind, a, result) ==
    IF Configured(kind, a) THEN result ELSE Rejected("not_configured")
-----------------------------------------------------------------------------
(* Relays, universal I/O *)

execute_output_set(kind, a) ==
    IF ~Has(a, "channel") THEN Rejected("missing_channel")
    ELSE IF ~Has(a, "on") THEN Rejected("missing_on")
    ELSE reject_missing(kind, a, Started(Plain(kind, Channel(a))))

\* blocks its caller for the duration
execute_output_pulse(kind, a) ==
    IF ~Has(a, "channel") THEN Rejected("missing_channel")
    ELSE IF read_u32_arg(a, "duration_ms", 0) = 0 THEN Rejected("missing_duration_ms")
    ELSE reject_missing(kind, a, Started(Effect(kind, Channel(a),
                              read_u32_arg(a, "duration_ms", 0), 0, 1)))

execute_relay_effect(a) ==
    IF ~Has(a, "channel") THEN Rejected("missing_channel")
    ELSE IF ~Has(a, "effect") THEN Rejected("missing_effect")
    ELSE IF a.effect # "broken_fluorescent" THEN Rejected("invalid_args")
    ELSE reject_missing("relay", a, Started(Effect("relay", Channel(a), 0, 0, 0)))

execute_output_all_off(kind) == Started(Plain(kind, 0))
execute_node_all_off == Started(Plain("node", 0))
-----------------------------------------------------------------------------
(* MOSFETs *)

MosfetDefault(a, key) == MosfetDefaults[Configured("mosfet", a)][key]

execute_mosfet_set(a) ==
    IF ~Has(a, "channel") THEN Rejected("missing_channel")
    ELSE IF ~read_pwm_arg(a, "value") THEN Rejected("missing_value")
    ELSE reject_missing("mosfet", a, Started(Plain("mosfet", Channel(a))))

execute_mosfet_fade(a) ==
    LET duration == read_u32_arg(a, "duration_ms", MosfetDefault(a, "fade_ms")) IN
    IF ~Has(a, "channel") THEN Rejected("missing_channel")
    ELSE IF \/ ~read_optional_pwm_arg(a, "target")
            \/ duration > NODE_CONTROL_MAX_MOSFET_FADE_MS
         THEN Rejected("invalid_args")
    ELSE reject_missing("mosfet", a,
                        Started(Effect("mosfet", Channel(a), duration, 0, 1)))

execute_mosfet_pulse(a) ==
    LET duration == read_u32_arg(a, "duration_ms", MosfetDefault(a, "pulse_ms")) IN
    IF ~Has(a, "channel") THEN Rejected("missing_channel")
    ELSE IF \/ ~read_optional_pwm_arg(a, "value")
            \/ duration \notin 1 .. NODE_CONTROL_MAX_MOSFET_PULSE_MS
         THEN Rejected("invalid_args")
    ELSE reject_missing("mosfet", a,
                        Started(Effect("mosfet", Channel(a), duration, 0, 1)))

\* the sum of the two is taken in 32 bits, the product in 64
FitsEffect(on, off, count, limit) ==
    count > 0 => ((on + off) % WORD) * count <= limit

\* the bug leaves the limit out
execute_mosfet_blink_endless(a) ==
    LET on == read_u32_arg(a, "on_ms", MosfetDefault(a, "on_ms"))
        off == read_u32_arg(a, "off_ms", MosfetDefault(a, "off_ms"))
    IN  IF ~Has(a, "channel") THEN Rejected("missing_channel")
        ELSE IF on = 0 \/ off = 0 THEN Rejected("invalid_args")
        ELSE reject_missing("mosfet", a,
                 Started(Effect("mosfet", Channel(a), on, off,
                                read_int_arg(a, "count", MosfetDefault(a, "blinks"))
                                  % WORD)))

execute_mosfet_blink(a) ==
    LET on == read_u32_arg(a, "on_ms", MosfetDefault(a, "on_ms"))
        off == read_u32_arg(a, "off_ms", MosfetDefault(a, "off_ms"))
        count == read_int_arg(a, "count", MosfetDefault(a, "blinks"))
    IN  IF ~Has(a, "channel") THEN Rejected("missing_channel")
        ELSE IF \/ ~read_optional_pwm_arg(a, "value")
                \/ ~read_optional_pwm_arg(a, "final_value")
                \/ on = 0 \/ off = 0
                \/ ~FitsEffect(on, off, count, NODE_CONTROL_MAX_MOSFET_EFFECT_MS)
             THEN Rejected("invalid_args")
        ELSE reject_missing("mosfet", a,
                 Started(Effect("mosfet", Channel(a), on, off, count % WORD)))

execute_mosfet_breathe(a) ==
    LET fade == read_u32_arg(a, "fade_ms", MosfetDefault(a, "breathe_ms"))
        hold == read_u32_arg(a, "hold_ms", MosfetDefault(a, "hold_ms"))
        count == read_int_arg(a, "count", MosfetDefault(a, "breaths"))
        level(key) == read_int_arg(a, key, MosfetDefault(a, key))
    IN  IF ~Has(a, "channel") THEN Rejected("missing_channel")
        ELSE IF \/ \E key \in {"min", "max", "final_value"} :
                     ~read_optional_pwm_arg(a, key)
                \/ fade = 0 \/ level("min") > level("max")
                \/ ~FitsEffect(2 * fade, 2 * hold, count,
                               NODE_CONTROL_MAX_MOSFET_EFFECT_MS)
             THEN Rejected("invalid_args")
        ELSE reject_missing("mosfet", a,
                 Started(Effect("mosfet", Channel(a), 2 * fade, 2 * hold, count % WORD)))

execute_mosfet_all_off == Started(Plain("mosfet", 0))

\* one branch per effect of mosfet.effect; the answer is done, not started
AliasBlink(a, on, off, count) ==
    IF \/ on = 0 \/ off = 0 \/ count < 0
       \/ ~FitsEffect(on, off, count, NODE_CONTROL_MAX_MOSFET_EFFECT_MS)
    THEN Rejected("invalid_args")
    ELSE reject_missing("mosfet", a, Done(Effect("mosfet", Channel(a), on, off, count)))

execute_mosfet_effect_alias(a) ==
    LET duration == read_u32_arg(a, "duration_ms", MosfetDefault(a, "pulse_ms"))
        repeat == read_int_arg(a, "count",
                    AsInt(read_u32_arg(a, "repeat", MosfetDefault(a, "breaths"))))
        time(key, default) == read_u32_arg(a, key, default)
        level(key) == IF read_pwm_arg(a, key) THEN a[key] ELSE MosfetDefault(a, key)
        plain == reject_missing("mosfet", a, Done(Plain("mosfet", Channel(a))))
        timed == reject_missing("mosfet", a,
                     Done(Effect("mosfet", Channel(a), duration, 0, 1)))
    IN  IF ~Has(a, "channel") THEN Rejected("missing_channel")
        ELSE IF ~Has(a, "effect") THEN Rejected("missing_effect")
        ELSE CASE a.effect = "set" ->
                    IF read_pwm_arg(a, "value") \/ Has(a, "on") THEN plain
                    ELSE Rejected("missing_value")
               [] a.effect = "pulse" ->
                    IF duration \in 1 .. NODE_CONTROL_MAX_MOSFET_PULSE_MS
                    THEN timed ELSE Rejected("invalid_args")
               [] a.effect \in {"fade", "fade_in", "fade_out"} ->
                    IF duration <= NODE_CONTROL_MAX_MOSFET_FADE_MS
                    THEN timed ELSE Rejected("invalid_args")
               [] a.effect = "blink" ->
                    AliasBlink(a, time("on_ms", duration), time("off_ms", duration),
                               repeat)
               [] a.effect = "breathe" ->
                    IF level("min") > level("max") \/ time("fade_ms", duration) = 0
                    THEN Rejected("invalid_args")
                    ELSE IF \/ repeat < 0
                            \/ ~FitsEffect(2 * time("fade_ms", duration),
                                           2 * time("hold_ms", duration \div 2), repeat,
                                           NODE_CONTROL_MAX_MOSFET_EFFECT_MS)
                    THEN Rejected("invalid_args")
                    ELSE reject_missing("mosfet", a,
                           Done(Effect("mosfet", Channel(a), 2 * time("fade_ms", duration),
                                       2 * time("hold_ms", duration \div 2), repeat)))
               [] a.effect = "broken_fluorescent" ->
                    reject_missing("mosfet", a, Done(Effect("mosfet", Channel(a), 0, 0, 0)))
               [] OTHER -> Rejected("invalid_args")
-----------------------------------------------------------------------------
(* LED strips: a command of the hub takes the timing of the presets, only a *)
(* preview may override it                                                  *)

LedDefault(a, key) == LedDefaults[Configured("led", a)][key]

execute_led_off(a) ==
    IF ~Has(a, "channel") THEN Rejected("missing_channel")
    ELSE reject_missing("led", a, Done(Plain("led", Channel(a))))

execute_led_solid(a) ==
    IF ~Has(a, "channel") THEN Rejected("missing_channel")
    ELSE IF ~read_color_arg(a, "color") THEN Rejected("missing_color")
    ELSE IF ~read_optional_pwm_arg(a, "brightness") THEN Rejected("invalid_args")
    ELSE reject_missing("led", a, Done(Plain("led", Channel(a))))

\* an override of 0 is no override
execute_led_blink(a, preview) ==
    LET override(key) ==
            IF preview /\ read_u32_arg(a, key, 0) > 0 THEN read_u32_arg(a, key, 0)
            ELSE LedDefault(a, key)
        on == override("on_ms")
        off == override("off_ms")
        times == read_int_arg(a, "times", LedDefault(a, "blinks"))
    IN  IF ~Has(a, "channel") THEN Rejected("missing_channel")
        ELSE IF ~read_color_arg(a, "color") THEN Rejected("missing_color")
        ELSE IF ~preview /\ json_has_any_key(a, {"on_ms", "off_ms"})
             THEN Rejected("advanced_overrides_forbidden")
        ELSE IF \/ times < 0 \/ on = 0 \/ off = 0
                \/ ~FitsEffect(on, off, times, NODE_CONTROL_MAX_LED_EFFECT_MS)
             THEN Rejected("invalid_args")
        ELSE reject_missing("led", a,
                            Started(Effect("led", Channel(a), on, off, times)))

execute_led_breathe(a, preview) ==
    LET given(key, default) ==
            IF preview THEN read_u32_arg(a, key, LedDefault(a, default))
            ELSE LedDefault(a, default)
        count == IF preview THEN read_int_arg(a, "count", LedDefault(a, "breaths"))
                 ELSE LedDefault(a, "breaths")
        cycle == given("duration_ms", "cycle_ms")
    IN  IF ~Has(a, "channel") THEN Rejected("missing_channel")
        ELSE IF ~read_color_arg(a, "color") THEN Rejected("missing_color")
        ELSE IF ~preview /\ json_has_any_key(a, {"duration_ms", "step_ms", "count"})
             THEN Rejected("advanced_overrides_forbidden")
        ELSE IF \/ count < 0
                \/ cycle > NODE_CONTROL_MAX_LED_DURATION_MS
                \/ given("step_ms", "step_ms") > NODE_CONTROL_MAX_LED_STEP_MS
                \/ ~FitsEffect(cycle, 0, count, NODE_CONTROL_MAX_LED_EFFECT_MS)
             THEN Rejected("invalid_args")
        ELSE reject_missing("led", a,
                            Started(Effect("led", Channel(a), cycle, 0, count)))

AdvancedKeys == {"duration_ms", "step_ms", "count", "size", "intensity", "density",
                 "fade", "palette_mode", "color", "secondary_color",
                 "background_color", "color2", "brightness"}

\* what a preview may override: colours, brightness and the motion
OverridesFit(a) ==
    /\ \A key \in {"color"} \cup LedEffects[a.effect] : read_optional_color_arg(a, key)
    /\ read_optional_pwm_arg(a, "brightness")

execute_led_effect(a, preview) ==
    LET given(key, default) ==
            IF preview THEN read_u32_arg(a, key, LedDefault(a, default))
            ELSE LedDefault(a, default)
        duration == given("duration_ms", "cycle_ms")
        step == given("step_ms", "step_ms")
        count == given("count", "blinks")
    IN  IF ~Has(a, "channel") THEN Rejected("missing_channel")
        ELSE IF ~Has(a, "effect") THEN Rejected("missing_effect")
        ELSE IF a.effect \notin DOMAIN LedEffects THEN Rejected("invalid_args")
        ELSE IF preview /\ ~OverridesFit(a) THEN Rejected("invalid_args")
        ELSE IF ~preview /\ json_has_any_key(a, AdvancedKeys)
             THEN Rejected("advanced_overrides_forbidden")
        ELSE IF \/ duration > NODE_CONTROL_MAX_LED_DURATION_MS
                \/ step > NODE_CONTROL_MAX_LED_STEP_MS
                \/ /\ a.effect = "strobe"
                   /\ ~FitsEffect(duration, step, count, NODE_CONTROL_MAX_LED_EFFECT_MS)
             THEN Rejected("invalid_args")
        ELSE reject_missing("led", a,
                            Started(Effect("led", Channel(a), duration, step, count)))
-----------------------------------------------------------------------------
\* node_control_execute_inline: any other name is a rule's, if a hub or the
\* local page sends it
node_control_execute_inline(command, source, a, rules) ==
    CASE command \in {"node.get_status", "node.identify", "describe_interface"} ->
           Done(None)
      [] command = "relay.set" -> execute_output_set("relay", a)
      [] command = "relay.pulse" -> execute_output_pulse("relay", a)
      [] command = "relay.effect" -> execute_relay_effect(a)
      [] command = "relay.all_off" -> execute_output_all_off("relay")
      [] command = "mosfet.set" -> execute_mosfet_set(a)
      [] command = "mosfet.fade" -> execute_mosfet_fade(a)
      [] command = "mosfet.pulse" -> execute_mosfet_pulse(a)
      [] command = "mosfet.blink" -> execute_mosfet_blink(a)
      [] command = "mosfet.breathe" -> execute_mosfet_breathe(a)
      [] command = "mosfet.all_off" -> execute_mosfet_all_off
      [] command = "mosfet.effect" -> execute_mosfet_effect_alias(a)
      [] command = "io.set" -> execute_output_set("io", a)
      [] command = "io.all_off" -> execute_output_all_off("io")
      [] command = "node.all_off" -> execute_node_all_off
      [] command = "led.off" -> execute_led_off(a)
      [] command = "led.solid" -> execute_led_solid(a)
      [] command \in {"led.blink", "led.preview.blink"} ->
           execute_led_blink(a, command = "led.preview.blink")
      [] command \in {"led.breathe", "led.preview.breathe"} ->
           execute_led_breathe(a, command = "led.preview.breathe")
      [] command \in {"led.effect", "led.preview.effect"} ->
           execute_led_effect(a, command = "led.preview.effect")
      [] OTHER ->
           IF source \notin {"hub", "local_ui"} THEN Rejected("not_supported")
           ELSE CASE rules = "handled" -> Done(None)
                  [] rules = "inactive" -> Rejected("rules_inactive")
                  [] rules = "unknown" -> Rejected("not_supported")
=============================================================================
