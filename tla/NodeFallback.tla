----------------------------- MODULE NodeFallback ----------------------------
(***************************************************************************)
(* A node in fallback mode: node_fallback_policy decides, on what the      *)
(* Wi-Fi and MQTT callbacks reported, whether the local rules take over    *)
(* from the hub; node_fallback_runtime's task carries the decision out by  *)
(* requests to the rule engine's task and waits for each reply.            *)
(*                                                                         *)
(* The engine is NodeRules'; here only its flags and its queue matter.     *)
(***************************************************************************)
EXTENDS Integers, Sequences

CONSTANTS NODE_FALLBACK_QUEUE_LEN,
          TIMEOUT,      \* fallback_timeout_ms, in ticks of the task
          RETURN_DELAY, \* fallback_return_delay_ms
          CLOCK,        \* the clock's modulus, 2^32
          MAX_TIMEOUTS, \* bound on engine replies that come too late
          None

States == {"hub_primary", "offline_pending", "active", "return_pending"}
Transitions == [state : States, deadline : Int, action : {"none", "enter", "exit"}]

ASSUME FallbackAssumption ==
    /\ CLOCK \in Nat \ {0} /\ TIMEOUT \in Nat /\ RETURN_DELAY \in Nat
    /\ None \notin Transitions

VARIABLES link,      \* the real state: link.wifi, link.mqtt
          notes,     \* s_queue: reports on their way to the task
          status,    \* s_status
          transition,\* what the task is carrying out, None when it is idle
          calls,     \* engine calls of the transition that are left
          waiting,   \* the task waits for the reply to Head(calls)
          notified,  \* the task's notification value is not 0
          requests,  \* s_engine_queue
          enabled, paused, \* the engine's flags
          now, timeouts

fallback_vars == <<link, notes, status, transition, calls, waiting, notified, requests,
                   enabled, paused, now, timeouts>>

Policies == {"auto", "manual"}
available(s) == s.wifi /\ s.mqtt
time_reached(deadline) == (now - deadline) % CLOCK < CLOCK \div 2

FallbackInit ==
    /\ link = [wifi |-> FALSE, mqtt |-> FALSE]
    /\ notes = <<>>
    /\ \E p \in Policies :
         status = [enabled |-> TRUE, policy |-> p, state |-> "hub_primary",
                   deadline |-> 0, wifi |-> FALSE, mqtt |-> FALSE, active |-> FALSE]
    /\ transition = None /\ calls = <<>> /\ waiting = FALSE /\ notified = FALSE
    /\ requests = <<>> /\ enabled = FALSE /\ paused = FALSE
    /\ now = 0 /\ timeouts = 0

To(state, deadline, action) ==
    [state |-> state, deadline |-> deadline, action |-> action]

\* the hub is back; the bug stays in fallback whatever the policy
leave_active_never(s) == None
leave_active(s) ==
    IF ~available(s) \/ s.policy = "manual" THEN None
    ELSE IF RETURN_DELAY = 0 THEN To("hub_primary", 0, "exit")
    ELSE To("return_pending", (now + RETURN_DELAY) % CLOCK, "none")

\* node_fallback_policy_evaluate; None when nothing changes
Evaluate(s) ==
    CASE ~s.enabled ->
           IF s.state = "hub_primary" /\ ~s.active THEN None
           ELSE To("hub_primary", 0, IF s.active THEN "exit" ELSE "none")
      [] s.enabled /\ s.state = "hub_primary" ->
           IF available(s) \/ TIMEOUT = 0 THEN None
           ELSE To("offline_pending", (now + TIMEOUT) % CLOCK, "none")
      [] s.enabled /\ s.state = "offline_pending" ->
           IF available(s) THEN To("hub_primary", 0, "none")
           ELSE IF time_reached(s.deadline) THEN To("active", 0, "enter") ELSE None
      [] s.enabled /\ s.state = "active" -> leave_active(s)
      [] s.enabled /\ s.state = "return_pending" ->
           IF ~available(s) THEN To("active", 0, "none")
           ELSE IF time_reached(s.deadline) THEN To("hub_primary", 0, "exit") ELSE None

\* resume_fallback_rules_unlocked and pause_fallback_rules_unlocked; the bug
\* pauses the rules on the way out and leaves them enabled
perform_action_exit_pauses(action) ==
    CASE action = "enter" -> <<"enable", "reset", "resume">>
      [] action = "exit" -> <<"pause">>
      [] OTHER -> <<>>

perform_transition_action(action) ==
    CASE action = "enter" -> <<"enable", "reset", "resume">>
      [] action = "exit" -> <<"pause", "disable">>
      [] OTHER -> <<>>

\* handle_request for every report in the queue: the newest of its kind counts.
\* A set of one value.
handle_request(kind, old) ==
    LET reports == {i \in DOMAIN notes : notes[i].kind = kind}
    IN  IF reports = {} THEN {old}
        ELSE {notes[i].on : i \in {j \in reports : \A k \in reports : k <= j}}

\* fallback_task: the reports that are there, then one evaluation (only this
\* task writes s_status, so that the lock it gives up in between is free)
fallback_pass ==
    \E on \in handle_request("configure", status.enabled),
       wifi \in handle_request("wifi", status.wifi),
       mqtt \in handle_request("mqtt", status.mqtt) :
    LET s == [status EXCEPT !.enabled = on, !.wifi = wifi, !.mqtt = mqtt]
    IN  /\ transition = None
        /\ notes # <<>> \/ Evaluate(s) # None
        /\ status' = s /\ notes' = <<>>
        /\ transition' = Evaluate(s)
        /\ calls' = IF Evaluate(s) = None THEN <<>>
                    ELSE perform_transition_action(Evaluate(s).action)
        /\ UNCHANGED <<link, waiting, notified, requests, enabled, paused, now,
                       timeouts>>

\* node_rule_engine.c, submit_request: send, then wait for a notification
engine_call ==
    /\ calls # <<>> /\ ~waiting
    /\ requests' = Append(requests, Head(calls))
    /\ waiting' = TRUE
    /\ UNCHANGED <<link, notes, status, transition, calls, notified, enabled,
                   paused, now, timeouts>>

engine_reply ==
    /\ waiting /\ notified
    /\ notified' = FALSE /\ waiting' = FALSE
    /\ calls' = Tail(calls)
    /\ UNCHANGED <<link, notes, status, transition, requests, enabled, paused,
                   now, timeouts>>

\* the reply takes longer than a second: the transition is given up, the
\* request stays in the engine's queue
engine_timeout ==
    /\ waiting /\ ~notified
    /\ timeouts < MAX_TIMEOUTS
    /\ timeouts' = timeouts + 1
    /\ waiting' = FALSE /\ calls' = <<>> /\ transition' = None
    /\ UNCHANGED <<link, notes, status, notified, requests, enabled, paused, now>>

finalize_transition ==
    /\ transition # None /\ calls = <<>>
    /\ status' = [status EXCEPT !.state = transition.state,
                                !.deadline = transition.deadline,
                                !.active = CASE transition.action = "enter" -> TRUE
                                             [] transition.action = "exit" -> FALSE
                                             [] OTHER -> @]
    /\ transition' = None
    /\ UNCHANGED <<link, notes, calls, waiting, notified, requests, enabled,
                   paused, now, timeouts>>

\* the rule engine's task; every request of this queue carries the task
engine_task ==
    /\ requests # <<>>
    /\ requests' = Tail(requests)
    /\ LET r == Head(requests)
       IN  /\ enabled' = CASE r = "enable" -> TRUE [] r = "disable" -> FALSE
                           [] OTHER -> enabled
           /\ paused' = CASE r = "pause" -> TRUE [] r = "resume" -> FALSE
                          [] OTHER -> paused
    /\ notified' = TRUE
    /\ UNCHANGED <<link, notes, status, transition, calls, waiting, now, timeouts>>

\* a callback of Wi-Fi or MQTT, or a new configuration
note(kind, on) ==
    /\ Len(notes) < NODE_FALLBACK_QUEUE_LEN
    /\ notes' = Append(notes, [kind |-> kind, on |-> on])
    /\ UNCHANGED <<status, transition, calls, waiting, notified, requests,
                   enabled, paused, now, timeouts>>

note_wifi_state == /\ link' = [wifi |-> ~link.wifi, mqtt |-> link.mqtt]
                   /\ note("wifi", ~link.wifi)
note_mqtt_state == /\ link' = [link EXCEPT !.mqtt = ~@]
                   /\ note("mqtt", ~link.mqtt)
configure == \E on \in BOOLEAN : note("configure", on) /\ UNCHANGED link

tick == /\ now' = (now + 1) % CLOCK
        /\ status.state \in {"offline_pending", "return_pending"}
        /\ ~time_reached(status.deadline)
        /\ UNCHANGED <<link, notes, status, transition, calls, waiting, notified,
                       requests, enabled, paused, timeouts>>

TaskStep == \/ fallback_pass \/ engine_call \/ engine_reply
            \/ finalize_transition

FallbackNext == \/ TaskStep \/ engine_timeout \/ engine_task
        \/ note_wifi_state \/ note_mqtt_state \/ configure
        \/ tick

\* both tasks are scheduled and time goes on
FallbackFairness == /\ WF_fallback_vars(TaskStep) /\ WF_fallback_vars(engine_task)
                    /\ WF_fallback_vars(tick)

FallbackSpec == FallbackInit /\ [][FallbackNext]_fallback_vars /\ FallbackFairness
-----------------------------------------------------------------------------
(* Properties *)

\* node_runtime_mode.c: a node with a hub must not behave like a standalone
\* one.  When the task is between two transitions, the engine runs rules
\* exactly in the states that say so, whatever reports and configurations
\* came while the engine was being switched.  As long as the engine answers
\* in time: a request that timed out is carried out all the same.
RulesFollowState ==
    transition = None /\ timeouts = 0 =>
      /\ enabled <=> status.active
      /\ status.active <=> status.state \in {"active", "return_pending"}
      /\ enabled => ~paused

Away == ~link.wifi \/ ~link.mqtt

\* Under fair scheduling and an engine that answers in time: when the hub
\* stays away the local rules take over, and when it stays back they give
\* way (auto_on_stable_mqtt).
TakeTurns ==
    [](timeouts = 0) =>
      /\ <>[](Away /\ status.enabled) => <>[](enabled /\ ~paused)
      /\ <>[](~Away /\ status.enabled /\ status.policy = "auto") => <>[]~enabled
=============================================================================
