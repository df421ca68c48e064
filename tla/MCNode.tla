------------------------------- MODULE MCNode -------------------------------
(***************************************************************************)
(* A node's command path and its rule engine, which share no state.  One    *)
(* run checks both: part, fixed at the start, says which of them moves, or  *)
(* that one command is carried out with one of many arguments.              *)
(*                                                                          *)
(* For the command path: two commands of the hub, one of them sent under a  *)
(* used id as well, an administrative command, and a local page.  For the   *)
(* rules: bundles with nested choices, sequences and conditions, one        *)
(* debounced input, one timer.                                              *)
(***************************************************************************)
EXTENDS NodeControl, NodeArguments, NodeRules

VARIABLE part

-----------------------------------------------------------------------------
(* Commands *)

MCOutputs == [k \in {"relay", "mosfet", "io", "led"} |-> {1}]
MCMosfetDefaults ==
    [c \in BOOLEAN |-> [fade_ms |-> 2, pulse_ms |-> IF c THEN 3 ELSE 1, on_ms |-> 1,
                        off_ms |-> 1, blinks |-> IF c THEN 2 ELSE 3, breathe_ms |-> 2,
                        hold_ms |-> 0, breaths |-> 1, min |-> 0, max |-> 3,
                        final_value |-> 0]]
MCLedDefaults ==
    [c \in BOOLEAN |-> [on_ms |-> 2, off_ms |-> 1, blinks |-> IF c THEN 2 ELSE 0,
                        cycle_ms |-> 2, step_ms |-> 1, breaths |-> 0]]
MCLedEffects == [e \in {"strobe", "wipe"} |->
                   IF e = "wipe" THEN {"secondary_color"} ELSE {}]

Message(id, command, args, is_admin, from) ==
    [id |-> id, command |-> command, args |-> args, admin |-> is_admin, from |-> from,
     valid |-> TRUE, named |-> TRUE,
     source |-> IF from = "mqtt" THEN "hub" ELSE "preview"]

On == [channel |-> 1, on |-> TRUE]
MCMessages ==
    { Message(1, "relay.set", On, FALSE, "mqtt"),
      Message(2, "led.off", [channel |-> 1], FALSE, "mqtt"),
      Message(1, "describe_interface", [x |-> 0], FALSE, "mqtt"),
      Message(3, "node.rules.pause", [x |-> 0], TRUE, "mqtt"),
      [Message(4, "io.set", On, FALSE, "mqtt") EXCEPT !.valid = FALSE],
      [Message(5, "none", On, FALSE, "mqtt") EXCEPT !.named = FALSE] }
MCLocalWork ==
    { Message(6, "led.preview.blink", [channel |-> 1, color |-> "c"], FALSE, "page"),
      Message(7, "save_led", [x |-> 0], TRUE, "page") }

Commands == {"relay.pulse", "relay.effect", "relay.all_off", "mosfet.set", "mosfet.fade",
             "mosfet.pulse", "mosfet.blink", "mosfet.breathe", "mosfet.all_off",
             "io.set", "io.all_off", "node.all_off", "led.solid", "led.blink",
             "led.preview.blink", "led.breathe", "led.preview.breathe", "a.rule"}
Timings == [channel : {1, 257 % 16}, on_ms : {0, 3, 15}, off_ms : {1, 3},
            fade_ms : {0, 3}, duration_ms : {0, 3, 11}, count : {-1, 0, 2, 5},
            color : {"c"}, value : {3}]
ByName == [channel : {1, 2}, effect : {"set", "pulse", "fade", "blink", "breathe", "strobe",
                                       "wipe", "broken_fluorescent", "other"},
           duration_ms : {0, 3, 11}, count : {-1, 0, 2, 5}]
MCSamples ==
    { [command |-> c, args |-> a] : c \in Commands, a \in Timings }
    \cup { [command |-> c, args |-> a] :
             c \in {"mosfet.effect", "led.preview.effect", "relay.effect"}, a \in ByName }
    \cup { [command |-> "led.effect", args |-> [channel |-> 1, effect |-> e]] :
             e \in {"strobe", "wipe"} }
    \cup { [command |-> "mosfet.effect", args |-> [channel |-> 1, effect |-> "blink", repeat |-> r]] :
             r \in {2, 9} }
    \cup { [command |-> c, args |-> [channel |-> 1]] : c \in Commands \cup {"led.effect"} }
    \cup { [command |-> c, args |-> [x |-> 0]] : c \in Commands \cup {"mosfet.effect"} }

-----------------------------------------------------------------------------
(* Rules *)

MCChannels == [c \in {1} |-> 2]
MCNames == [relay_1 |-> 1, mosfet_1 |-> 2]
MCLocalEvents == {[event |-> "card", token_id |-> 7]}
MCFailSets == {{}, {"relay.set"}}

Cmd(c, o) == [kind |-> "command", command |-> c, output |-> o, driver |-> Nothing]
SetState(k, v) == [kind |-> "set_state", key |-> k, value |-> v]
SetPhase(p) == [kind |-> "set_phase", phase |-> p]
Emit(e) == [kind |-> "emit_event", event |-> e]
Start(t, mode, d, i) == [kind |-> "start_timer", timer |-> t, mode |-> mode,
                         duration_ms |-> d, interval_ms |-> i]
Cancel(t) == [kind |-> "cancel_timer", timer |-> t]
Choose(c, t, e) == [kind |-> "choose", condition |-> c, then |-> t, else |-> e]
Do(as) == [kind |-> "sequence", actions |-> as]
State(k, v) == [kind |-> "state_equals", key |-> k, value |-> v]
Phase(p) == [kind |-> "phase_is", phase |-> p]
Input(c, v) == [kind |-> "input_equals", input |-> c, value |-> v]
Inputs(cs, v) == [kind |-> "all_inputs_equal", inputs |-> cs, value |-> v]
Token(v) == [kind |-> "event_field_equals", value |-> v]
Not(c) == [kind |-> "not", condition |-> c]
AllOf(cs) == [kind |-> "all", conditions |-> cs]
AnyOf(cs) == [kind |-> "any", conditions |-> cs]
Rule(t, c, as) == [enabled |-> TRUE, trigger |-> t, conditions |-> c, actions |-> as]
When(k) == [kind |-> k]

Bundle(initial, rules) ==
    [initial_state |-> initial, rules |-> rules, emits |-> {"solved"},
     exports |-> {"open"}, export_events |-> {"solved"},
     drivers |-> {[id |-> "nfc", card_events |-> {"card"}]}]

\* a puzzle: cards count up, the door opens, a timer closes it
Puzzle == Bundle(<<<<"n", 0>>>>,
    <<Rule(When("boot"), Nothing, <<SetPhase("idle"), Cmd("node.all_off", Nothing)>>),
      Rule([kind |-> "local_event", event |-> "card"],
           AllOf(<<Not(Phase("done")), AnyOf(<<Token(7), State("m", 1)>>), Not(State("n", 2))>>),
           <<Choose(State("n", 0),
                <<SetState("n", 1), Do(<<Cmd("relay.set", "relay_1"), Emit("solved")>>)>>,
                <<Choose(Not(Inputs(<<1>>, 1)), <<SetState("m", 1)>>, Nothing),
                  SetState("n", 2)>>),
             Start("t", "oneshot", 2, Nothing), SetPhase("done")>>),
      Rule([kind |-> "timer", timer |-> "t"], Nothing,
           <<Cmd("relay.set", "relay_1"), SetPhase("idle"), Cancel("t")>>),
      Rule([kind |-> "mqtt_command", command |-> "open"], Nothing,
           <<SetState("n", 0), Start("t", "cooldown", Nothing, 1)>>)>>)

\* an input that is edged and held
Lever == Bundle(<<>>,
    <<Rule([kind |-> "input_edge", input |-> 1, to |-> 1], Not(Input(1, 0)),
           <<Choose(Phase("up"), <<SetPhase("down")>>, <<SetPhase("up"), Emit("solved")>>),
             Start("t", "repeat", 2, Nothing)>>),
      Rule([kind |-> "input_hold", input |-> 1, value |-> 1, duration_ms |-> 2], Nothing,
           <<Cmd("relay.set", "relay_1"), Cancel("t")>>),
      Rule([kind |-> "input_hold", input |-> 1, value |-> 1, duration_ms |-> 2],
           Input(1, 1), <<Emit("solved")>>)>>)

\* rejected: by the schema (an undeclared event), by the compiler (a trigger
\* that has no runtime)
Undeclared == Bundle(<<>>, <<Rule(When("boot"), Nothing, <<Emit("lost")>>)>>)
NoRuntime == Bundle(<<>>, <<Rule([kind |-> "input_level", input |-> 1], Nothing,
                                 <<SetPhase("x")>>)>>)
MCBundles == {Puzzle, Lever, Undeclared, NoRuntime}

-----------------------------------------------------------------------------
NodeInit == /\ part \in {"rules", "control", "arguments"}
            /\ Init /\ RulesInit
            /\ part # "rules" => source = Undeclared
            /\ ArgumentsInit
            /\ part # "arguments" => sample = CHOOSE s \in MCSamples : TRUE

NodeNext ==
    \/ part = "rules" /\ RulesNext /\ UNCHANGED <<part, sample, outcome, vars>>
    \/ part = "control" /\ Next /\ UNCHANGED <<part, sample, outcome, rules_vars>>
    \/ part = "arguments" /\ execute_sample /\ UNCHANGED <<part, vars, rules_vars>>

NodeSpec == NodeInit /\ [][NodeNext]_<<part, sample, outcome, vars, rules_vars>>
=============================================================================
