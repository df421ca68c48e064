------------------------------ MODULE NodeRules ------------------------------
(***************************************************************************)
(* The rule bundle of a standalone node: node_rule_schema validates the    *)
(* JSON tree, node_rule_compile flattens it into arrays, and the engine     *)
(* (NodeRuleEngine) runs the arrays for an event.                           *)
(*                                                                          *)
(* A bundle is a tree of records; the compiled form refers to names by      *)
(* their index and to nested actions and conditions by ranges and links.    *)
(***************************************************************************)
EXTENDS NodeRuleEngine, FiniteSets, SequencesExt

CONSTANTS NODE_RULE_MAX_RULES,
          NODE_RULE_MAX_ACTIONS_TOTAL,
          NODE_RULE_MAX_ACTIONS_PER_RULE,
          NODE_RULE_MAX_ACTION_NESTING,
          NODE_RULE_MAX_PHASES,
          NODE_RULE_MAX_EXPORT_COMMANDS,
          NODE_DRIVER_INSTANCE_MAX,
          NODE_DRIVER_NFC_KNOWN_CARD_MAX,
          OutputChannels   \* OutputChannels[o]: channel of the output named o

-----------------------------------------------------------------------------
(* node_rule_schema *)

RECURSIVE validate_condition(_, _), validate_action(_, _, _)

validate_condition(c, depth) ==
    /\ depth <= NODE_RULE_MAX_ACTION_NESTING
    /\ CASE c.kind \in {"state_equals", "phase_is", "event_field_equals"} -> TRUE
         [] c.kind = "input_equals" -> c.input \in DOMAIN Channels
         [] c.kind = "all_inputs_equal" ->
              c.inputs # <<>> /\ Range(c.inputs) \subseteq DOMAIN Channels
         [] c.kind = "not" -> validate_condition(c.condition, depth + 1)
         [] c.kind \in {"all", "any"} ->
              /\ c.conditions # <<>>
              /\ \A i \in DOMAIN c.conditions :
                    validate_condition(c.conditions[i], depth + 1)

command_output_valid(o) == o \in DOMAIN OutputChannels

validate_command_action(b, a) ==
    \/ a.command = "node.all_off"
    \/ a.output # Nothing /\ command_output_valid(a.output)
    \/ a.output = Nothing /\ a.driver \in {d.id : d \in b.drivers}

validate_actions_array(b, as, depth) ==
    /\ Len(as) \in 1 .. NODE_RULE_MAX_ACTIONS_PER_RULE
    /\ \A i \in DOMAIN as : validate_action(b, as[i], depth)

validate_action(b, a, depth) ==
    /\ depth <= NODE_RULE_MAX_ACTION_NESTING
    /\ CASE a.kind = "command" -> validate_command_action(b, a)
         [] a.kind \in {"set_state", "set_phase", "cancel_timer"} -> TRUE
         [] a.kind = "emit_event" -> a.event \in b.emits
         [] a.kind = "start_timer" ->
              IF a.duration_ms # Nothing THEN a.duration_ms > 0
                                      ELSE a.interval_ms # Nothing /\ a.interval_ms > 0
         [] a.kind = "choose" ->
              /\ validate_condition(a.condition, depth + 1)
              /\ validate_actions_array(b, a.then, depth + 1)
              /\ a.else # Nothing => validate_actions_array(b, a.else, depth + 1)
         [] a.kind = "sequence" -> validate_actions_array(b, a.actions, depth + 1)

\* the local events of an NFC reader: three of its own, one per known card
driver_events(d) == ({d.id} \X {"card_seen", "card_removed", "unknown_card"})
                    \cup d.card_events

validate_driver_array(ds) ==
    /\ Cardinality(ds) <= NODE_DRIVER_INSTANCE_MAX
    /\ \A d \in ds : Cardinality(d.card_events) <= NODE_DRIVER_NFC_KNOWN_CARD_MAX

validate_exports_object(b) ==
    /\ Cardinality(b.exports) <= NODE_RULE_MAX_EXPORT_COMMANDS
    /\ b.export_events \subseteq b.emits

validate_trigger(b, t) ==
    CASE t.kind \in {"boot", "timer", "state_changed"} -> TRUE
      [] t.kind \in {"input_edge", "input_level"} -> t.input \in DOMAIN Channels
      [] t.kind = "input_hold" -> t.input \in DOMAIN Channels /\ t.duration_ms > 0
      [] t.kind = "local_event" ->
           t.event \in b.emits \cup UNION {driver_events(d) : d \in b.drivers}
      [] t.kind = "mqtt_command" -> t.command \in b.exports

validate_rule_object(b, r) ==
    /\ validate_trigger(b, r.trigger)
    /\ r.conditions # Nothing => validate_condition(r.conditions, 1)
    /\ validate_actions_array(b, r.actions, 1)

validate_bundle(b) ==
    /\ Len(b.initial_state) <= NODE_RULE_MAX_STATE_KEYS
    /\ validate_driver_array(b.drivers)
    /\ validate_exports_object(b)
    /\ Len(b.rules) <= NODE_RULE_MAX_RULES
    /\ \A i \in DOMAIN b.rules : validate_rule_object(b, b.rules[i])

-----------------------------------------------------------------------------
(* node_rule_compile.  error is Nothing until something fails; from then on   *)
(* nothing is added.                                                       *)

EmptyBundle == [error |-> Nothing, rules |-> <<>>, actions |-> <<>>,
                conditions |-> <<>>, state_keys |-> <<>>, phases |-> <<>>,
                timers |-> <<>>, initial |-> <<>>, exports |-> {}]

Failed(b, code) == [b EXCEPT !.error = code]
IndexIn(names, n) == LET found == {i \in DOMAIN names : names[i] = n}
                     IN  IF found = {} THEN 0 ELSE CHOOSE i \in found : TRUE

append_unique_name(b, f, n, cap) ==
    IF n \in Range(b[f]) THEN b
    ELSE IF Len(b[f]) >= cap THEN Failed(b, f)
    ELSE [b EXCEPT ![f] = Append(@, n)]

append_state_key(b, n) == append_unique_name(b, "state_keys", n, NODE_RULE_MAX_STATE_KEYS)
append_phase_name(b, n) == append_unique_name(b, "phases", n, NODE_RULE_MAX_PHASES)
append_timer_name(b, n) == append_unique_name(b, "timers", n, NODE_RULE_MAX_TIMERS)

Condition == [kind |-> "none", index |-> 0, value |-> Nothing, inputs |-> <<>>,
              first_child |-> 0, next_sibling |-> 0, child_count |-> 0]

RECURSIVE compile_condition(_, _)

\* a step of the loop over the children of an "all" or "any"
CompileChild(s, c) ==
    LET child == Len(s.b.conditions) + 1
        b1 == compile_condition(s.b, c)
    IN  [b |-> IF s.prev = 0 \/ b1.error # Nothing THEN b1
               ELSE [b1 EXCEPT !.conditions[s.prev].next_sibling = child],
         first |-> IF s.first = 0 THEN child ELSE s.first,
         prev |-> child,
         count |-> s.count + 1]

compile_condition_children(b, cs) ==
    FoldLeft(CompileChild, [b |-> b, first |-> 0, prev |-> 0, count |-> 0], cs)

compile_condition(b, c) ==
    LET at == Len(b.conditions) + 1
        Added(b1, d) == IF b1.error # Nothing THEN b1
                        ELSE [b1 EXCEPT !.conditions = Append(@, d)]
        New == [Condition EXCEPT !.kind = c.kind]
    IN CASE b.error # Nothing -> b
         [] b.error = Nothing /\ Len(b.conditions) >= NODE_RULE_MAX_ACTIONS_TOTAL ->
              Failed(b, "too_many_conditions")
         [] OTHER ->
       CASE c.kind = "state_equals" ->
              LET b1 == append_state_key(b, c.key)
              IN  Added(b1, [New EXCEPT !.index = IndexIn(b1.state_keys, c.key),
                                        !.value = c.value])
         [] c.kind = "phase_is" ->
              LET b1 == append_phase_name(b, c.phase)
              IN  Added(b1, [New EXCEPT !.index = IndexIn(b1.phases, c.phase)])
         [] c.kind = "input_equals" ->
              Added(b, [New EXCEPT !.inputs = <<c.input>>, !.value = c.value])
         [] c.kind = "all_inputs_equal" ->
              Added(b, [New EXCEPT !.inputs = c.inputs, !.value = c.value])
         [] c.kind = "event_field_equals" -> Added(b, [New EXCEPT !.value = c.value])
         [] c.kind = "not" ->
              compile_condition(Added(b, [New EXCEPT !.first_child = at + 1,
                                                     !.child_count = 1]), c.condition)
         [] c.kind \in {"all", "any"} ->
              LET s == compile_condition_children(Added(b, New), c.conditions)
              IN  IF s.b.error # Nothing THEN s.b
                  ELSE [s.b EXCEPT !.conditions[at].first_child = s.first,
                                   !.conditions[at].child_count = s.count]

\* collect_condition appends the names of a rule's condition ahead of
\* compile_condition; it passes over the inputs conditions.
RECURSIVE collect_condition(_, _, _)
collect_condition(b, c, depth) ==
    CASE b.error # Nothing -> b
      [] b.error = Nothing /\ depth > NODE_RULE_MAX_ACTION_NESTING ->
           Failed(b, "condition_nesting_too_deep")
      [] OTHER ->
    CASE c.kind = "state_equals" -> append_state_key(b, c.key)
      [] c.kind = "phase_is" -> append_phase_name(b, c.phase)
      [] c.kind = "not" -> collect_condition(b, c.condition, depth + 1)
      [] c.kind \in {"all", "any"} ->
           FoldLeft(LAMBDA x, y : collect_condition(x, y, depth + 1), b, c.conditions)
      [] OTHER -> b

Action == [kind |-> "none", name |-> Nothing, index |-> 0, value |-> Nothing,
           mode |-> Nothing, duration_ms |-> 0, interval_ms |-> 0, condition |-> 0,
           then |-> <<0, 0>>, else |-> <<0, 0>>, next |-> 0]

OrZero(n) == IF n = Nothing THEN 0 ELSE n

resolve_output_channel(o) == IF o \in DOMAIN OutputChannels THEN OutputChannels[o] ELSE Nothing

\* the payload of a command names its output by channel; one that names a
\* driver instead has no runtime
build_command_args(a) ==
    IF a.command = "node.all_off" THEN 0 ELSE resolve_output_channel(a.output)

StartTimer(New, b, a) ==
    LET d == OrZero(a.duration_ms)
        i == OrZero(a.interval_ms)
        interval == IF a.mode = "repeat" /\ i = 0 THEN d ELSE i
    IN  [New EXCEPT !.index = IndexIn(b.timers, a.timer), !.mode = a.mode,
                    !.duration_ms = IF d = 0 THEN interval ELSE d,
                    !.interval_ms = interval]

RECURSIVE collect_action(_, _)

\* s = [b: the bundle so far, depth, count: actions the caller's range has]
collect_actions_array(b, as, depth) ==
    FoldLeft(collect_action, [b |-> b, depth |-> depth, count |-> 0], as)

\* where the jump over a choose leads: t and e are the bundles after its
\* branches; the bug takes the first of them
choose_next_early(t, e) == Len(t.b.actions) + 1
choose_next(t, e) == Len(e.b.actions) + 1

compile_choose(b, a) ==
    LET at == Len(b.actions) + 1
        b1 == compile_condition([b EXCEPT !.actions =
                  Append(@, [Action EXCEPT !.kind = "choose",
                                           !.condition = Len(b.conditions) + 1])],
                  a.condition)
        t == collect_actions_array(b1, a.then, 1)
        e == IF a.else = Nothing THEN [b |-> t.b, count |-> 0]
             ELSE collect_actions_array(t.b, a.else, 1)
    IN  IF e.b.error # Nothing THEN e.b
        ELSE [e.b EXCEPT
                !.actions[at].then = <<Len(b1.actions) + 1, t.count>>,
                !.actions[at].else = IF a.else = Nothing THEN <<0, 0>>
                                     ELSE <<Len(t.b.actions) + 1, e.count>>,
                !.actions[at].next = choose_next(t, e)]

compile_action(b, a) ==
    LET Added(b1, d) == IF b1.error # Nothing THEN b1
                        ELSE [b1 EXCEPT !.actions = Append(@, d)]
        New == [Action EXCEPT !.kind = a.kind]
    IN CASE Len(b.actions) >= NODE_RULE_MAX_ACTIONS_TOTAL ->
              Failed(b, "too_many_actions_total")
         [] OTHER ->
       CASE a.kind = "command" ->
              IF build_command_args(a) = Nothing
                THEN Failed(b, "runtime_command_not_supported")
                ELSE Added(b, [New EXCEPT !.name = a.command,
                                          !.value = build_command_args(a)])
         [] a.kind = "set_state" ->
              LET b1 == append_state_key(b, a.key)
              IN  Added(b1, [New EXCEPT !.index = IndexIn(b1.state_keys, a.key),
                                        !.value = a.value])
         [] a.kind = "set_phase" ->
              LET b1 == append_phase_name(b, a.phase)
              IN  Added(b1, [New EXCEPT !.index = IndexIn(b1.phases, a.phase)])
         [] a.kind = "emit_event" -> Added(b, [New EXCEPT !.name = a.event])
         [] a.kind = "start_timer" ->
              LET b1 == append_timer_name(b, a.timer)
              IN  Added(b1, StartTimer(New, b1, a))
         [] a.kind = "cancel_timer" ->
              LET b1 == append_timer_name(b, a.timer)
              IN  Added(b1, [New EXCEPT !.index = IndexIn(b1.timers, a.timer)])
         [] a.kind = "choose" -> compile_choose(b, a)

collect_action(s, a) ==
    IF s.b.error # Nothing THEN s
    ELSE IF s.depth > NODE_RULE_MAX_ACTION_NESTING
      THEN [s EXCEPT !.b = Failed(s.b, "action_nesting_too_deep")]
    ELSE IF a.kind = "sequence"
      THEN LET t == collect_actions_array(s.b, a.actions, s.depth + 1)
           IN  [s EXCEPT !.b = t.b, !.count = @ + t.count]
    ELSE [s EXCEPT !.b = compile_action(s.b, a), !.count = @ + 1]

collect_initial_state(b, kvs) ==
    LET Step(x, kv) == LET x1 == append_state_key(x, kv[1])
                       IN  IF x1.error # Nothing THEN x1
                           ELSE [x1 EXCEPT !.initial = Append(@, kv[2])]
    IN  FoldLeft(Step, b, kvs)

\* what is left of a trigger: its kind, the channel, timer or name it waits
\* for, and the value and duration
CompiledTrigger(b, t) ==
    CASE t.kind = "boot" -> <<"boot", 0, 0, 0>>
      [] t.kind = "input_edge" -> <<"input_edge", t.input, t.to, 0>>
      [] t.kind = "input_hold" -> <<"input_hold", t.input, t.value, t.duration_ms>>
      [] t.kind = "timer" -> <<"timer", IndexIn(b.timers, t.timer), 0, 0>>
      [] t.kind = "local_event" -> <<"local_event", t.event, 0, 0>>
      [] t.kind = "mqtt_command" -> <<"mqtt_command", t.command, 0, 0>>

collect_rule(b, r) ==
    IF b.error # Nothing THEN b
    ELSE IF r.trigger.kind \in {"input_level", "all_inputs_level", "state_changed"}
      THEN Failed(b, "runtime_trigger_not_supported")
    ELSE
    LET start == Len(b.actions) + 1
        b1 == IF r.trigger.kind = "timer" THEN append_timer_name(b, r.trigger.timer) ELSE b
        b2 == IF r.conditions = Nothing THEN b1
              ELSE compile_condition(collect_condition(b1, r.conditions, 1), r.conditions)
        s == collect_actions_array(b2, r.actions, 1)
    IN  IF s.b.error # Nothing THEN s.b
        ELSE [s.b EXCEPT !.rules = Append(@,
                [enabled |-> r.enabled,
                 trigger |-> CompiledTrigger(s.b, r.trigger),
                 condition |-> IF r.conditions = Nothing THEN 0
                               ELSE Len(b.conditions) + 1,
                 start |-> start, count |-> s.count])]

collect_exports(b, src) == [b EXCEPT !.exports = src.exports]

compile_bundle(src) ==
    IF ~validate_bundle(src) THEN Failed(EmptyBundle, "invalid")
    ELSE FoldLeft(collect_rule,
                  collect_initial_state(collect_exports(EmptyBundle, src),
                                        src.initial_state),
                  src.rules)

-----------------------------------------------------------------------------
(* node_rule_engine: running the arrays.  A run works on e, the engine's   *)
(* values, phase and timers, and collects in e.out what it does.           *)

input_condition_matches(sl, c, v) == sl[c].initialized /\ Bit(sl[c].stable) = v

RECURSIVE condition_matches(_, _, _, _, _)

\* the children reached from i over at most n next_sibling links
RECURSIVE Siblings(_, _, _)
Siblings(b, i, n) == IF n = 0 \/ i = 0 THEN {}
                     ELSE {i} \cup Siblings(b, b.conditions[i].next_sibling, n - 1)

condition_matches(b, i, ev, e, sl) ==
    IF i = 0 THEN TRUE
    ELSE IF i > Len(b.conditions) THEN FALSE
    ELSE LET c == b.conditions[i]
             Children == Siblings(b, c.first_child, c.child_count)
         IN CASE c.kind = "state_equals" -> e.vals[c.index] = c.value
              [] c.kind = "phase_is" -> e.phase = c.index
              [] c.kind \in {"input_equals", "all_inputs_equal"} ->
                   \A k \in DOMAIN c.inputs :
                      input_condition_matches(sl, c.inputs[k], c.value)
              [] c.kind = "event_field_equals" -> ev.token_id = c.value
              [] c.kind = "not" -> ~condition_matches(b, c.first_child, ev, e, sl)
              [] c.kind = "all" ->
                   \A k \in Children : condition_matches(b, k, ev, e, sl)
              [] c.kind = "any" ->
                   \E k \in Children : condition_matches(b, k, ev, e, sl)

next_action_index(b, i) ==
    IF b.actions[i].kind = "choose" /\ b.actions[i].next > i
      THEN b.actions[i].next ELSE i + 1

start_timer(slot, a, t) ==
    IF a.mode = "cooldown" /\ slot.active THEN slot
    ELSE [active |-> TRUE, mode |-> a.mode, duration_ms |-> a.duration_ms,
          interval_ms |-> IF a.interval_ms > 0 THEN a.interval_ms ELSE a.duration_ms,
          next_fire |-> (t + IF a.duration_ms > 0 THEN a.duration_ms
                                                    ELSE a.interval_ms) % CLOCK]

\* a run: [e, out, ok]; fails = the commands the action port refuses
RECURSIVE execute_action_range(_, _, _, _, _, _, _, _)
execute_action(b, a, ev, s, sl, fails, t) ==
    CASE a.kind = "command" ->
           IF a.name \in fails THEN [s EXCEPT !.ok = FALSE]
           ELSE [s EXCEPT !.out = Append(@, <<a.name, a.value>>)]
      [] a.kind = "set_state" -> [s EXCEPT !.e.vals[a.index] = a.value]
      [] a.kind = "set_phase" -> [s EXCEPT !.e.phase = a.index]
      [] a.kind = "emit_event" -> [s EXCEPT !.out = Append(@, <<a.name, 0>>)]
      [] a.kind = "start_timer" -> [s EXCEPT !.e.timers[a.index] = start_timer(@, a, t)]
      [] a.kind = "cancel_timer" -> [s EXCEPT !.e.timers[a.index] = NoTimer]
      [] a.kind = "choose" ->
           LET r == IF condition_matches(b, a.condition, ev, s.e, sl) THEN a.then ELSE a.else
           IN  execute_action_range(b, r[1], r[2], ev, s, sl, fails, t)

execute_action_range(b, i, n, ev, s, sl, fails, t) ==
    IF n = 0 \/ ~s.ok THEN s
    ELSE IF i > Len(b.actions) THEN [s EXCEPT !.ok = FALSE]
    ELSE execute_action_range(b, next_action_index(b, i), n - 1, ev,
             execute_action(b, b.actions[i], ev, s, sl, fails, t), sl, fails, t)

trigger_matches(r, ev) == r.trigger = ev.trigger

\* the loop over the rules; a rule that fails does not stop the next one
RunRules(b, ev, e, sl, fails, t) ==
    LET Step(s, r) ==
          IF /\ r.enabled
             /\ trigger_matches(r, ev)
             /\ condition_matches(b, r.condition, ev, s.e, sl)
            THEN [execute_action_range(b, r.start, r.count, ev, s, sl, fails, t)
                    EXCEPT !.ok = TRUE]
            ELSE s
    IN  FoldLeft(Step, [e |-> e, out |-> <<>>, ok |-> TRUE], b.rules)

-----------------------------------------------------------------------------
(* What the tree of a bundle means, without indexes: values, phase and     *)
(* timers are found by name.                                               *)

RECURSIVE Holds(_, _, _, _), Does(_, _, _, _, _)

Holds(c, ev, m, sl) ==
    CASE c.kind = "state_equals" -> m.vals[c.key] = c.value
      [] c.kind = "phase_is" -> m.phase = c.phase
      [] c.kind = "input_equals" -> input_condition_matches(sl, c.input, c.value)
      [] c.kind = "all_inputs_equal" ->
           \A i \in DOMAIN c.inputs : input_condition_matches(sl, c.inputs[i], c.value)
      [] c.kind = "event_field_equals" -> ev.token_id = c.value
      [] c.kind = "not" -> ~Holds(c.condition, ev, m, sl)
      [] c.kind = "all" ->
           \A i \in DOMAIN c.conditions : Holds(c.conditions[i], ev, m, sl)
      [] c.kind = "any" ->
           \E i \in DOMAIN c.conditions : Holds(c.conditions[i], ev, m, sl)

DoesAll(as, ev, s, sl, fails) ==
    LET Step(t, a) == IF t.ok THEN Does(a, ev, t, sl, fails) ELSE t
    IN  FoldLeft(Step, s, as)

Does(a, ev, s, sl, fails) ==
    CASE a.kind = "command" ->
           IF a.command \in fails THEN [s EXCEPT !.ok = FALSE]
           ELSE [s EXCEPT !.out = Append(@, <<a.command, build_command_args(a)>>)]
      [] a.kind = "set_state" -> [s EXCEPT !.m.vals[a.key] = a.value]
      [] a.kind = "set_phase" -> [s EXCEPT !.m.phase = a.phase]
      [] a.kind = "emit_event" -> [s EXCEPT !.out = Append(@, <<a.event, 0>>)]
      [] a.kind = "start_timer" ->
           [s EXCEPT !.m.timers[a.timer] = start_timer(@, StartTimer(Action, bundle, a), now)]
      [] a.kind = "cancel_timer" -> [s EXCEPT !.m.timers[a.timer] = NoTimer]
      [] a.kind = "choose" ->
           DoesAll(IF Holds(a.condition, ev, s.m, sl) THEN a.then
                   ELSE IF a.else = Nothing THEN <<>> ELSE a.else, ev, s, sl, fails)
      [] a.kind = "sequence" -> DoesAll(a.actions, ev, s, sl, fails)

TriggerMeant(t, ev) ==
    IF t.kind = "timer"
      THEN ev.trigger[1] = "timer" /\ bundle.timers[ev.trigger[2]] = t.timer
      ELSE ev.trigger = CompiledTrigger(bundle, t)

Meaning(src, ev, m, sl, fails) ==
    LET Step(s, r) ==
          IF /\ r.enabled
             /\ TriggerMeant(r.trigger, ev)
             /\ r.conditions # Nothing => Holds(r.conditions, ev, s.m, sl)
            THEN [DoesAll(r.actions, ev, s, sl, fails) EXCEPT !.ok = TRUE]
            ELSE s
    IN  FoldLeft(Step, [m |-> m, out |-> <<>>, ok |-> TRUE], src.rules)

\* the engine's state by name
Named(e) ==
    [vals |-> [k \in Range(bundle.state_keys) |-> e.vals[IndexIn(bundle.state_keys, k)]],
     phase |-> IF e.phase = NoPhase THEN Nothing ELSE bundle.phases[e.phase],
     timers |-> [k \in Range(bundle.timers) |-> e.timers[IndexIn(bundle.timers, k)]]]

AllEvents ==
    {[trigger |-> bundle.rules[i].trigger, token_id |-> t] :
        i \in DOMAIN bundle.rules, t \in {0} \cup {l.token_id : l \in LocalEvents}}

-----------------------------------------------------------------------------
(* Properties *)

\* Running the compiled arrays does what the bundle's tree says, in every
\* state the engine gets into, for every event a rule waits for and whatever
\* command the hardware refuses: the same commands and events in the same
\* order, and the same values, phase and timers after it.  It is about the
\* ranges, jumps and links compile_action and compile_condition write and
\* execute_action_range and condition_matches follow.
FlatMeansTree ==
    Ready(bundle) =>
      \A ev \in AllEvents, fails \in FailSets :
        LET flat == RunRules(bundle, ev, eng, inputs, fails, now)
            tree == Meaning(source, ev, Named(eng), inputs, fails)
        IN  flat.out = tree.out /\ Named(flat.e) = tree.m
=============================================================================
