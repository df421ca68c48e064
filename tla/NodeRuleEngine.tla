--------------------------- MODULE NodeRuleEngine ---------------------------
(***************************************************************************)
(* node_rule_engine of a standalone node: one owner task runs the rules of *)
(* a compiled bundle for events, and between them polls inputs and timers. *)
(* How a bundle is compiled and what its rules do for an event is in        *)
(* NodeRules; the engine knows only that they are given the engine's        *)
(* values, phase and timers, and return them.                               *)
(*                                                                          *)
(* Indexes start at 1 here, 0 stands for UINT16_MAX.  Milliseconds are kept *)
(* modulo CLOCK, as the 32-bit clock of the code is.                        *)
(***************************************************************************)
EXTENDS Integers, Sequences

CONSTANTS NODE_RULE_MAX_STATE_KEYS,
          NODE_RULE_MAX_TIMERS,
          NODE_UNIVERSAL_IO_MAX,
          NODE_RULE_ENGINE_QUEUE_LEN,
          CLOCK,      \* the clock's modulus, 2^32
          POLL_GAP,   \* the longest time between two passes of the owner task
          Channels,   \* Channels[c]: debounce of the input configured on c
          Bundles,    \* bundles that may be stored
          LocalEvents,\* what drivers report: [event, token_id]
          FailSets,   \* the sets of commands that fail together
          Nothing,
          Compile(_), \* the arrays of a bundle: rules, timers, initial, exports, error
          Run(_, _, _, _, _, _)
                      \* what the rules do: Run(bundle, event, engine, inputs,
                      \* failing commands, time) has the fields e and out

VARIABLES source,   \* the stored bundle
          bundle,   \* the compiled bundle, node_rule_compile_peek_active
          eng,      \* state values, phase and timer slots of the engine
          inputs,   \* s_input_slots
          paused, enabled, \* s_paused, s_engine_config.rules_enabled
          requests, \* s_engine_queue
          now,      \* the clock
          gap,      \* time since the last poll
          level,    \* level[c]: what the pin of channel c reads
          steady,   \* steady[c]: for how long the polls have read level[c]
          fired,    \* fired[c]: the hold durations dispatched for this press
          edges,    \* the inputs whose change the last step published
          out       \* what the rules did in the last step, in order

world == <<now, gap, level, steady>>
rules_vars == <<source, bundle, eng, inputs, paused, enabled, requests, world,
                fired, edges, out>>

ASSUME RulesAssumption ==
    /\ CLOCK \in Nat \ {0}
    /\ NODE_UNIVERSAL_IO_MAX \in Nat /\ NODE_RULE_MAX_TIMERS \in Nat
    /\ DOMAIN Channels \subseteq 1 .. NODE_UNIVERSAL_IO_MAX
    /\ \A c \in DOMAIN Channels : Channels[c] \in Nat
    /\ \A b \in Bundles : Len(Compile(b).rules) \in Nat

-----------------------------------------------------------------------------
(* The state of the engine *)

NoTimer == [active |-> FALSE, mode |-> Nothing, duration_ms |-> 0,
            interval_ms |-> 0, next_fire |-> 0]

Unset == Nothing               \* NODE_RULE_SCALAR_TYPE_NONE
NoPhase == 0

\* reset_runtime_state
ResetEngine(b) ==
    [vals |-> [i \in 1 .. NODE_RULE_MAX_STATE_KEYS |->
                 IF i <= Len(b.initial) THEN b.initial[i] ELSE Unset],
     phase |-> NoPhase,
     timers |-> [i \in 1 .. NODE_RULE_MAX_TIMERS |-> NoTimer]]

NoInput == [initialized |-> FALSE, stable |-> FALSE, since |-> 0,
            pending |-> FALSE, pending_since |-> 0, mask |-> {}]
ResetInputs == [c \in DOMAIN Channels |-> NoInput]
NoneFired == [c \in DOMAIN Channels |-> <<>>]

Bit(x) == IF x THEN 1 ELSE 0

Event(kind, what, value, duration, token) ==
    [trigger |-> <<kind, what, value, duration>>, token_id |-> token]

Ready(b) == b.error = Nothing

\* dispatch_event_inline: a local event is published whatever the mode
dispatch_event_inline(ev, s, sl, fails) ==
    LET p == IF ev.trigger[1] = "local_event"
               THEN Append(s.out, <<ev.trigger[2], ev.token_id>>) ELSE s.out
    IN  IF paused \/ ~enabled \/ ~Ready(bundle) THEN [s EXCEPT !.out = p]
        ELSE LET t == Run(bundle, ev, s.e, sl, fails, now)
             IN  [s EXCEPT !.e = t.e, !.out = p \o t.out]

-----------------------------------------------------------------------------
(* The owner task *)

Elapsed(t) == (now - t) % CLOCK
time_reached(t) == Elapsed(t) < CLOCK \div 2

\* a pass over inputs and timers: [e, out, sl, fired, edges]
Edge(s, c, v, fails) ==
    LET s1 == [s EXCEPT !.sl[c].stable = v, !.sl[c].since = now,
                        !.sl[c].pending = FALSE, !.sl[c].mask = {},
                        !.fired[c] = <<>>, !.edges = @ \cup {c}]
    IN  dispatch_event_inline(Event("input_edge", c, Bit(v), 0, 0), s1, s1.sl, fails)

HoldRule(i, c, sl) ==
    /\ bundle.rules[i].enabled
    /\ bundle.rules[i].trigger[1] = "input_hold"
    /\ bundle.rules[i].trigger[2] = c
    /\ bundle.rules[i].trigger[3] = Bit(sl[c].stable)

\* a bug: nothing is marked
mark_hold_rules_forgotten(s, c, d) == s

mark_hold_rules_fired(s, c, d) ==
    [s EXCEPT !.sl[c].mask = @ \cup {i \in 1 .. Len(bundle.rules) :
        HoldRule(i, c, s.sl) /\ bundle.rules[i].trigger[4] = d}]

\* a round of the loop over the rules
HoldRound(s, c, i, fails) ==
    LET d == bundle.rules[i].trigger[4]
    IN  IF \/ ~HoldRule(i, c, s.sl)
           \/ Elapsed(s.sl[c].since) < d
           \/ i \in s.sl[c].mask
          THEN s
          ELSE mark_hold_rules_fired(
                 [dispatch_event_inline(
                    Event("input_hold", c, Bit(s.sl[c].stable), d, 0), s, s.sl, fails)
                  EXCEPT !.fired[c] = Append(@, d)], c, d)

process_input_hold_events(s, c, fails) ==
    LET upto[i \in 0 .. Len(bundle.rules)] ==
          IF i = 0 THEN s ELSE HoldRound(upto[i - 1], c, i, fails)
    IN  upto[Len(bundle.rules)]

\* the slot when the input reads its stable level; in the bug a glitch back
\* to it leaves the pending edge running.  (pending_since is meaningless
\* while nothing is pending.)
back_to_stable_still_pending(slot) == slot
back_to_stable(slot) == [slot EXCEPT !.pending = FALSE, !.pending_since = 0]

process_input_sample(s, c, fails) ==
    LET slot == s.sl[c]
        v == level[c]
    IN  IF ~slot.initialized
          THEN [s EXCEPT !.sl[c] = [slot EXCEPT !.initialized = TRUE, !.stable = v,
                                                !.since = now, !.pending = FALSE],
                         !.fired[c] = <<>>]
        ELSE IF v = slot.stable
          THEN process_input_hold_events([s EXCEPT !.sl[c] = back_to_stable(@)],
                                         c, fails)
        ELSE IF Channels[c] = 0 THEN Edge(s, c, v, fails)
        ELSE IF ~slot.pending
          THEN [s EXCEPT !.sl[c].pending = TRUE, !.sl[c].pending_since = now]
        ELSE IF Elapsed(slot.pending_since) >= Channels[c] THEN Edge(s, c, v, fails)
        ELSE s

\* a round of the loop over the channels: those without an input read nothing
InputRound(s, c, fails) ==
    IF c \in DOMAIN Channels THEN process_input_sample(s, c, fails) ELSE s

process_inputs(s, fails) ==
    LET upto[c \in 0 .. NODE_UNIVERSAL_IO_MAX] ==
          IF c = 0 THEN s ELSE InputRound(upto[c - 1], c, fails)
    IN  upto[NODE_UNIVERSAL_IO_MAX]

\* a round of the loop over the timers
TimerRound(s, i, fails) ==
    LET slot == s.e.timers[i]
    IN  IF i > Len(bundle.timers) \/ ~slot.active \/ ~time_reached(slot.next_fire) THEN s
        ELSE dispatch_event_inline(Event("timer", i, 0, 0, 0),
               [s EXCEPT !.e.timers[i] =
                  IF slot.mode = "repeat"
                    THEN [slot EXCEPT !.next_fire = (now + slot.interval_ms) % CLOCK]
                    ELSE [slot EXCEPT !.active = FALSE]],
               s.sl, fails)

process_timer_events(s, fails) ==
    LET upto[i \in 0 .. NODE_RULE_MAX_TIMERS] ==
          IF i = 0 THEN s ELSE TimerRound(upto[i - 1], i, fails)
    IN  upto[NODE_RULE_MAX_TIMERS]

\* for how long the polls have seen the level of channel c, up to its debounce
Seen(c) ==
    LET time == steady[c].time + gap
    IN  IF level[c] # steady[c].val THEN [val |-> level[c], time |-> 0]
        ELSE [val |-> level[c], time |-> IF time > Channels[c] THEN Channels[c] ELSE time]

Polled(fails) ==
    process_timer_events(
      process_inputs([e |-> eng, out |-> <<>>, sl |-> inputs, fired |-> fired,
                      edges |-> {}], fails), fails)

poll_inputs_and_timers(fails) ==
    /\ requests = <<>>
    /\ \E s \in {Polled(fails)} :
          eng' = s.e /\ inputs' = s.sl /\ fired' = s.fired /\ edges' = s.edges /\ out' = s.out
    /\ gap' = 0 /\ steady' = [c \in DOMAIN Channels |-> Seen(c)]
    /\ UNCHANGED <<source, bundle, paused, enabled, requests, now, level>>

\* reset_runtime_state: engine and inputs
Reset == eng' = ResetEngine(bundle) /\ inputs' = ResetInputs /\ fired' = NoneFired

\* a bug: pausing leaves values, phase and timers as they are
handle_pause_keeps_state ==
    /\ paused' = TRUE /\ out' = <<>>
    /\ UNCHANGED <<eng, inputs, enabled, fired>>

handle_pause_inline ==
    paused' = TRUE /\ Reset /\ out' = <<>> /\ UNCHANGED enabled

handle_reset_inline ==
    Reset /\ out' = <<>> /\ UNCHANGED <<paused, enabled>>

handle_set_enabled_inline(on) ==
    /\ enabled' = on
    /\ out' = <<>>
    /\ UNCHANGED <<eng, inputs, paused, fired>>

handle_resume_inline(fails) ==
    LET e == ResetEngine(bundle)
        t == IF enabled /\ Ready(bundle)
               THEN Run(bundle, Event("boot", 0, 0, 0, 0), e, ResetInputs, fails, now)
               ELSE [e |-> e, out |-> <<>>]
    IN  /\ paused' = FALSE
        /\ inputs' = ResetInputs /\ fired' = NoneFired
        /\ eng' = t.e /\ out' = t.out
        /\ UNCHANGED enabled

handle_event(ev, fails) ==
    LET s == dispatch_event_inline(ev, [e |-> eng, out |-> <<>>], inputs, fails)
    IN  eng' = s.e /\ out' = s.out /\ UNCHANGED <<inputs, paused, enabled, fired>>

handle_request(fails) ==
    /\ requests # <<>>
    /\ requests' = Tail(requests)
    /\ LET q == Head(requests)
       IN  \/ q.kind = "event" /\ handle_event(q.event, fails)
           \/ q.kind = "pause" /\ handle_pause_inline
           \/ q.kind = "reset" /\ handle_reset_inline
           \/ q.kind = "set_enabled" /\ handle_set_enabled_inline(q.on)
           \/ q.kind = "resume" /\ handle_resume_inline(fails)
    /\ edges' = {}
    /\ UNCHANGED <<source, bundle, world>>

-----------------------------------------------------------------------------
(* Other tasks *)

Send(request) ==
    /\ Len(requests) < NODE_RULE_ENGINE_QUEUE_LEN
    /\ requests' = Append(requests, request)
    /\ out' = <<>> /\ edges' = {}
    /\ UNCHANGED <<source, bundle, eng, inputs, paused, enabled, world, fired>>

Request(kind, on, ev) == [kind |-> kind, on |-> on, event |-> ev]

submit_request == \E k \in {"pause", "reset", "resume"} : Send(Request(k, FALSE, Nothing))
set_runtime_enabled == \E on \in BOOLEAN : Send(Request("set_enabled", on, Nothing))

dispatch_local_event == \E l \in LocalEvents :
    Send(Request("event", FALSE, Event("local_event", l.event, 0, 0, l.token_id)))

dispatch_mqtt_command ==
    /\ Ready(bundle) /\ ~paused /\ enabled
    /\ \E c \in bundle.exports :
          Send(Request("event", FALSE, Event("mqtt_command", c, 0, 0, 0)))

pin_changes(c) ==
    /\ level' = [level EXCEPT ![c] = ~@]
    /\ out' = <<>> /\ edges' = {}
    /\ UNCHANGED <<source, bundle, eng, inputs, paused, enabled, requests, now, gap,
                   steady, fired>>

rules_tick ==
    /\ gap < POLL_GAP
    /\ gap' = gap + 1
    /\ now' = (now + 1) % CLOCK
    /\ out' = <<>> /\ edges' = {}
    /\ UNCHANGED <<source, bundle, eng, inputs, paused, enabled, requests, level,
                   steady, fired>>

\* node_rule_compile_bootstrap and node_rule_engine_init
RulesInit ==
    /\ source \in Bundles
    /\ bundle = Compile(source)
    /\ eng = ResetEngine(bundle)
    /\ inputs = ResetInputs
    /\ paused = FALSE /\ enabled = TRUE
    /\ requests = IF Ready(bundle)
                    THEN <<Request("event", FALSE, Event("boot", 0, 0, 0, 0))>> ELSE <<>>
    /\ now = 0 /\ gap = 0
    /\ level = [c \in DOMAIN Channels |-> FALSE]
    /\ steady = [c \in DOMAIN Channels |-> [val |-> FALSE, time |-> 0]]
    /\ fired = NoneFired
    /\ edges = {}
    /\ out = <<>>

RulesNext ==
    \/ \E fails \in FailSets : poll_inputs_and_timers(fails)
    \/ \E fails \in FailSets : handle_request(fails)
    \/ submit_request \/ set_runtime_enabled
    \/ dispatch_local_event \/ dispatch_mqtt_command
    \/ \E c \in DOMAIN Channels : pin_changes(c)
    \/ rules_tick

RulesSpec == RulesInit /\ [][RulesNext]_rules_vars

-----------------------------------------------------------------------------
(* Properties *)

\* An edge is published only after every poll of the last debounce_ms read the
\* new level (process_input_sample): a glitch back to the old level in between
\* starts the wait again.
EdgeIsSustained == \A c \in edges : steady[c].time >= Channels[c]

\* However long an input is held, past the wrap of the clock too, each hold
\* duration is dispatched at most once for one press (fired_hold_rule_mask).
HoldFiresOnce ==
    \A c \in DOMAIN fired : \A i, j \in DOMAIN fired[c] :
       fired[c][i] = fired[c][j] => i = j

\* Rules that are paused keep no state: no timer runs on, no value or phase
\* of the interrupted game is left for the resume (handle_pause_inline), and
\* nothing that arrives meanwhile starts anything.
PausedIsReset == paused => eng = ResetEngine(bundle)
=============================================================================
