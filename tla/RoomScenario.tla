---------------------------- MODULE RoomScenario ----------------------------
(***************************************************************************)
(* The room scenario model of the controller: what a scenario holds, how   *)
(* it is read from JSON and written back, and the two validators that a    *)
(* scenario passes: the structural one, that answers yes or no and guards  *)
(* the store, and the report, that lists the issues for the editor.        *)
(*                                                                         *)
(* JSON values are pairs <<kind, value>>; objects are functions from field *)
(* names to values.  A text is an abstract string: "" is empty and LONG is *)
(* any text that does not fit its destination.  All the limits of          *)
(* room_scenario.h and the two integer widths are parameters.              *)
(***************************************************************************)
EXTENDS Naturals, Sequences, FiniteSets, TLC, SequencesExt

CONSTANTS
  UINT32_MAX, UINT16_MAX,
  MAX_STEPS, MAX_BRANCHES, MAX_REACTIVE_VARIANTS, MAX_REACTIVE_ACTIONS,
  MAX_REACTIVE_GROUP_COMMANDS, GROUP_MAX_COMMANDS, GROUP_MAX_EVENTS,
  WAIT_MAX_FLAGS

LONG == "long"

Str(s) == <<"str", s>>
Num(n) == <<"num", n>>
Bool(b) == <<"bool", b>>
Obj(f) == <<"obj", f>>
Arr(q) == <<"arr", q>>
Null == <<"null">>

(* ------------------------ reading one JSON field ----------------------- *)
is(o, f, kind) == f \in DOMAIN o /\ o[f][1] = kind
absent(o, f) == f \notin DOMAIN o \/ o[f] = Null

json_string_required(o, f) == is(o, f, "str") /\ o[f][2] \notin {"", LONG}
json_string_optional(o, f) == absent(o, f) \/ (is(o, f, "str") /\ o[f][2] # LONG)
json_uint32_required(o, f) == is(o, f, "num") /\ o[f][2] \in 0 .. UINT32_MAX
json_uint32_optional(o, f) == absent(o, f) \/ json_uint32_required(o, f)
json_bool_optional(o, f) == f \in DOMAIN o => is(o, f, "bool")
json_object_optional(o, f) ==
  absent(o, f) \/ (is(o, f, "obj") /\ LONG \notin DOMAIN o[f][2])

text(o, f) == IF is(o, f, "str") THEN o[f][2] ELSE ""
number(o, f) == IF is(o, f, "num") THEN o[f][2] ELSE 0
truth(o, f, default) == IF is(o, f, "bool") THEN o[f][2] ELSE default
object(o, f) == IF is(o, f, "obj") THEN o[f][2] ELSE <<>>
items(o, f) == IF is(o, f, "arr") THEN o[f][2] ELSE <<>>
fields(v) == IF v[1] = "obj" THEN v[2] ELSE <<>>
Each(q, Op(_)) == [i \in DOMAIN q |-> Op(fields(q[i]))]
All(q, Op(_)) == \A i \in DOMAIN q : Op(fields(q[i]))

(* ------------------- the names of enumerated values -------------------- *)
StepTypes == {"WAIT_TIME", "OPERATOR_APPROVAL", "DEVICE_COMMAND",
  "WAIT_DEVICE_EVENT", "DEVICE_COMMAND_GROUP", "SHOW_OPERATOR_MESSAGE",
  "SET_FLAG", "WAIT_FLAGS", "WAIT_ANY_DEVICE_EVENT",
  "WAIT_ALL_DEVICE_EVENTS", "FAIL_REACTION", "RESET_REACTION", "END_GAME"}

(* An accepted name and the value it stands for. *)
step_type_from_str ==
  [t \in StepTypes |-> t] @@
  [MANUAL_GATE |-> "OPERATOR_APPROVAL", SEND_DEVICE_COMMAND |-> "DEVICE_COMMAND",
   OPERATOR_MESSAGE |-> "SHOW_OPERATOR_MESSAGE", FINISH_GAME |-> "END_GAME"]

branch_type_from_str ==
  [normal |-> "normal", flow |-> "normal", scenario |-> "normal",
   reactive |-> "reactive", reaction |-> "reactive"]

reentry_mode_from_str ==
  ("queue-one" :> "queue_one") @@ ("queueOne" :> "queue_one") @@
  [m \in {"ignore", "queue_one", "restart", "parallel"} |-> m]

timeout_action_from_str ==
  ("fail-reaction" :> "fail_reaction") @@ ("reset-reaction" :> "reset_reaction") @@
  [a \in {"continue", "fail_reaction", "reset_reaction"} |-> a]

trigger_kind_from_str ==
  [k \in {"device_event", "any_device_events", "all_device_events",
          "flag_changed", "operator_event", "runtime_event"} |-> k]

result_action_from_str ==
  [a \in {"continue", "set_flag", "fail_reaction", "fail_scenario", "retry"} |-> a]

policy_mode_from_str == [m \in {"single", "rotate", "random", "escalate"} |-> m]

group_mode_from_str == [m \in {"sequential", "parallel"} |-> m]

json_name_required(o, f, names) == is(o, f, "str") /\ o[f][2] \in DOMAIN names
json_name_optional(o, f, names) == f \in DOMAIN o => json_name_required(o, f, names)
name(o, f, names, default) == IF is(o, f, "str") THEN names[o[f][2]] ELSE default

(* ------------------------------ reading -------------------------------- *)
NoParams == <<"none">>

command_accepted(o) ==
  /\ json_string_required(o, "device_id")
  /\ json_string_required(o, "command_id")
  /\ json_object_optional(o, "params")

import_command(o) ==
  [device_id |-> text(o, "device_id"), command_id |-> text(o, "command_id"),
   params |-> IF is(o, "params", "obj") THEN o["params"] ELSE NoParams]

event_accepted(o) ==
  json_string_required(o, "device_id") /\ json_string_required(o, "event_id")

import_event(o) == [device_id |-> text(o, "device_id"), event_id |-> text(o, "event_id")]

flag_accepted(o, f) == json_string_required(o, f) /\ is(o, "value", "bool")

import_flag(o, f) == [name |-> text(o, f), value |-> truth(o, "value", FALSE)]

group_accepted(o, f, limit, Op(_)) ==
  Len(items(o, f)) \in 1 .. limit /\ All(items(o, f), Op)

step_header_accepted(o) ==
  /\ json_string_required(o, "id")
  /\ json_string_optional(o, "label")
  /\ json_bool_optional(o, "enabled")
  /\ json_name_required(o, "type", step_type_from_str)
  /\ json_bool_optional(o, "allow_operator_skip")
  /\ json_string_optional(o, "operator_skip_label")

step_commands_accepted(o, type) ==
  \/ type = "WAIT_TIME" /\ json_uint32_required(o, "duration_ms")
  \/ type = "DEVICE_COMMAND" /\ command_accepted(o)
  \/ type = "DEVICE_COMMAND_GROUP"
     /\ group_accepted(o, "commands", GROUP_MAX_COMMANDS, command_accepted)
  \/ type = "OPERATOR_APPROVAL"
     /\ json_string_required(o, "prompt") /\ json_string_optional(o, "approve_label")
  \/ type = "SHOW_OPERATOR_MESSAGE" /\ json_string_required(o, "message")
  \/ type = "SET_FLAG" /\ flag_accepted(o, "flag_name")
  \/ type = "END_GAME"

step_waits_accepted(o, type) ==
  \/ /\ type = "WAIT_DEVICE_EVENT" /\ event_accepted(o)
     /\ json_uint32_optional(o, "timeout_ms") /\ json_string_optional(o, "timeout_message")
  \/ /\ type = "WAIT_FLAGS"
     /\ group_accepted(o, "flags", WAIT_MAX_FLAGS, LAMBDA g : flag_accepted(g, "flag_name"))
     /\ json_uint32_optional(o, "timeout_ms") /\ json_string_optional(o, "timeout_message")
  \/ /\ type \in {"WAIT_ANY_DEVICE_EVENT", "WAIT_ALL_DEVICE_EVENTS"}
     /\ group_accepted(o, "events", GROUP_MAX_EVENTS, event_accepted)

step_accepted(o) ==
  /\ step_header_accepted(o)
  /\ LET type == step_type_from_str[text(o, "type")]
     IN  step_commands_accepted(o, type) \/ step_waits_accepted(o, type)

(* The wait of an event or of flags: a timeout is read, its action is not. *)
import_timeout(o) ==
  [timeout_ms |-> number(o, "timeout_ms"), timeout_action |-> "continue",
   timeout_message |-> text(o, "timeout_message")]

(* Waits for any or all of several events have no timeout fields in JSON. *)
import_event_group(o) ==
  [events |-> Each(items(o, "events"), import_event), timeout_ms |-> 0,
   timeout_action |-> "continue"]

import_step_data(o, type) ==
  CASE type = "WAIT_TIME" -> [duration_ms |-> number(o, "duration_ms")]
    [] type = "DEVICE_COMMAND" -> import_command(o)
    [] type = "DEVICE_COMMAND_GROUP" ->
         [commands |-> Each(items(o, "commands"), import_command)]
    [] type = "OPERATOR_APPROVAL" ->
         [prompt |-> text(o, "prompt"), approve_label |-> text(o, "approve_label")]
    [] type = "SHOW_OPERATOR_MESSAGE" -> [message |-> text(o, "message")]
    [] type = "SET_FLAG" -> import_flag(o, "flag_name")
    [] type = "WAIT_DEVICE_EVENT" -> import_event(o) @@ import_timeout(o)
    [] type = "WAIT_FLAGS" ->
         [flags |-> Each(items(o, "flags"), LAMBDA g : import_flag(g, "flag_name"))]
           @@ import_timeout(o)
    [] type \in {"WAIT_ANY_DEVICE_EVENT", "WAIT_ALL_DEVICE_EVENTS"} -> import_event_group(o)
    [] OTHER -> [none |-> TRUE]

import_step(o) ==
  LET type == step_type_from_str[text(o, "type")]
  IN  [id |-> text(o, "id"), label |-> text(o, "label"), type |-> type,
       enabled |-> truth(o, "enabled", TRUE),
       allow_operator_skip |-> truth(o, "allow_operator_skip", FALSE),
       operator_skip_label |-> text(o, "operator_skip_label"),
       data |-> import_step_data(o, type)]

(* A refused document has no scenario. *)
Refused == [ok |-> FALSE]

import_steps_array(o, sc) ==
  LET q == items(o, "steps")
  IN  IF /\ is(o, "steps", "arr")
         /\ Len(sc.steps) + Len(q) <= MAX_STEPS
         /\ All(q, step_accepted)
      THEN [sc EXCEPT !.steps = @ \o Each(q, import_step)]
      ELSE Refused

(* ------------- reading the variants of a reactive branch ---------------- *)
NoTrigger ==
  [kind |-> "none", device_id |-> "", event_id |-> "", events |-> <<>>,
   flag_name |-> "", operator_event |-> "", runtime_event |-> ""]

trigger_accepted(o) ==
  /\ json_name_required(o, "kind", trigger_kind_from_str)
  /\ LET kind == text(o, "kind")
     IN  \/ kind = "device_event" /\ event_accepted(o)
         \/ /\ kind \in {"any_device_events", "all_device_events"}
            /\ group_accepted(o, "events", GROUP_MAX_EVENTS, event_accepted)
         \/ kind = "flag_changed" /\ json_string_required(o, "flag_name")
         \/ kind \in {"operator_event", "runtime_event"} /\ json_string_required(o, "event_id")

import_trigger(o) ==
  LET kind == text(o, "kind")
  IN  [NoTrigger EXCEPT
        !.kind = kind,
        !.device_id = IF kind = "device_event" THEN text(o, "device_id") ELSE "",
        !.event_id = IF kind = "device_event" THEN text(o, "event_id") ELSE "",
        !.events = IF kind \in {"any_device_events", "all_device_events"}
                   THEN Each(items(o, "events"), import_event) ELSE <<>>,
        !.flag_name = IF kind = "flag_changed" THEN text(o, "flag_name") ELSE "",
        !.operator_event = IF kind = "operator_event" THEN text(o, "event_id") ELSE "",
        !.runtime_event = IF kind = "runtime_event" THEN text(o, "event_id") ELSE ""]

(* The name of the flag of a reactive action: "flag", or else "flag_name". *)
action_flag(o) == IF text(o, "flag") # "" THEN "flag" ELSE "flag_name"

action_accepted(o) ==
  /\ json_string_optional(o, "id") /\ json_string_optional(o, "label")
  /\ json_name_required(o, "type", step_type_from_str)
  /\ LET type == step_type_from_str[text(o, "type")]
     IN  \/ type = "DEVICE_COMMAND" /\ command_accepted(o)
         \/ /\ type = "DEVICE_COMMAND_GROUP"
            /\ group_accepted(o, "commands", MAX_REACTIVE_GROUP_COMMANDS, command_accepted)
            /\ json_name_optional(o, "mode", group_mode_from_str)
         \/ /\ type = "WAIT_TIME" /\ json_uint32_required(o, "duration_ms")
            /\ absent(o, "timeout_action")
                 \/ json_name_required(o, "timeout_action", timeout_action_from_str)
         \/ /\ type = "SET_FLAG" /\ json_string_optional(o, "flag")
            /\ flag_accepted(o, action_flag(o))
         \/ type = "SHOW_OPERATOR_MESSAGE" /\ json_string_required(o, "message")
         \/ type \in {"FAIL_REACTION", "RESET_REACTION"}

(* An action; the commands of a group go to the scenario's common table. *)
import_reactive_action(o, sc) ==
  LET type == step_type_from_str[text(o, "type")]
      group == IF type = "DEVICE_COMMAND_GROUP"
               THEN Each(items(o, "commands"), import_command) ELSE <<>>
      data == CASE type = "WAIT_TIME" ->
                     [duration_ms |-> number(o, "duration_ms"),
                      timeout_action |-> name(o, "timeout_action",
                                              timeout_action_from_str, "continue")]
                [] type = "SET_FLAG" -> import_flag(o, action_flag(o))
                [] type \in {"DEVICE_COMMAND", "SHOW_OPERATOR_MESSAGE"} -> import_step_data(o, type)
                [] OTHER -> [none |-> TRUE]
  IN  IF Len(sc.commands) + Len(group) > MAX_REACTIVE_GROUP_COMMANDS THEN Refused
      ELSE [sc EXCEPT
             !.commands = @ \o group,
             !.actions = Append(@,
               [id |-> text(o, "id"), label |-> text(o, "label"), type |-> type,
                mode |-> name(o, "mode", group_mode_from_str, "sequential"),
                start |-> IF group = <<>> THEN 0 ELSE Len(sc.commands),
                count |-> Len(group), data |-> data])]

import_actions_array(q, sc) ==
  IF /\ Len(q) > 0
     /\ Len(sc.actions) + Len(q) <= MAX_REACTIVE_ACTIONS
     /\ All(q, action_accepted)
  THEN FoldLeft(LAMBDA acc, v : IF acc.ok THEN import_reactive_action(fields(v), acc) ELSE acc,
                sc, q)
  ELSE Refused

variant_accepted(o) == json_string_required(o, "id") /\ json_string_optional(o, "label")

add_variant(o, start, read) ==
  IF variant_accepted(o) /\ read.ok
  THEN [read EXCEPT !.variants = Append(@,
         [id |-> text(o, "id"), label |-> text(o, "label"),
          start |-> start, count |-> Len(items(o, "actions"))])]
  ELSE Refused

import_variant(o, sc) ==
  add_variant(o, Len(sc.actions), import_actions_array(items(o, "actions"), sc))

result_policy_accepted(o) ==
  /\ \A f \in {"on_done", "on_fail", "on_timeout"} :
       json_name_optional(o, f, result_action_from_str)
  /\ json_string_optional(o, "flag")
  /\ text(o, "flag") = "" => json_string_optional(o, "timeout_flag")

reactive_fields_accepted(o, sc) ==
  /\ is(o, "trigger", "obj") /\ trigger_accepted(object(o, "trigger"))
  /\ Len(items(o, "guard_flags")) <= WAIT_MAX_FLAGS
  /\ All(items(o, "guard_flags"), LAMBDA g : flag_accepted(g, "flag"))
  /\ is(o, "variants", "arr") /\ Len(items(o, "variants")) > 0
  /\ Len(sc.variants) + Len(items(o, "variants")) <= MAX_REACTIVE_VARIANTS
  /\ "result_policy" \in DOMAIN o =>
       is(o, "result_policy", "obj") /\ result_policy_accepted(object(o, "result_policy"))

(* The variants and the actions on completion of a reactive branch.         *)
import_variants(o, sc) ==
  FoldLeft(LAMBDA acc, v : IF acc.ok THEN import_variant(fields(v), acc) ELSE acc,
           sc, items(o, "variants"))

no_on_complete(o) == "on_complete" \notin DOMAIN o \/ o["on_complete"] = Arr(<<>>)

import_on_complete(o, read) ==
  IF ~ read.ok \/ no_on_complete(o) THEN read
  ELSE import_actions_array(items(o, "on_complete"), read)

add_reactive_branch(o, sc, branch, read) ==
  LET complete == IF no_on_complete(o) THEN 0 ELSE Len(items(o, "on_complete"))
      result == object(o, "result_policy")
  IN  IF ~ reactive_fields_accepted(o, sc) \/ ~ read.ok THEN Refused
      ELSE [read EXCEPT !.branches = Append(@, [branch EXCEPT
             !.trigger = import_trigger(object(o, "trigger")),
             !.guards = Each(items(o, "guard_flags"), LAMBDA g : import_flag(g, "flag")),
             !.vstart = Len(sc.variants), !.vcount = Len(items(o, "variants")),
             !.on_done = name(result, "on_done", result_action_from_str, "continue"),
             !.on_fail = name(result, "on_fail", result_action_from_str, "fail_reaction"),
             !.on_timeout = name(result, "on_timeout", result_action_from_str, "fail_reaction"),
             !.result_flag = IF text(result, "flag") # "" THEN text(result, "flag")
                             ELSE text(result, "timeout_flag"),
             !.cstart = IF complete = 0 THEN 0 ELSE Len(read.actions) - complete,
             !.ccount = complete,
             !.max_fire_count = IF branch.policy_mode # "single" THEN @
                                ELSE IF branch.run_once THEN 1 ELSE 0])]

import_reactive_branch_v2(o, sc, branch) ==
  add_reactive_branch(o, sc, branch, import_on_complete(o, import_variants(o, sc)))

(* -------------------------- reading a scenario -------------------------- *)
branch_header_accepted(o) ==
  /\ json_string_required(o, "id") /\ json_string_required(o, "name")
  /\ absent(o, "type") \/ json_name_required(o, "type", branch_type_from_str)
  /\ json_bool_optional(o, "enabled")
  /\ json_uint32_optional(o, "priority") /\ number(o, "priority") <= UINT16_MAX
  /\ json_bool_optional(o, "required_for_completion")
  /\ json_uint32_optional(o, "cooldown_ms") /\ json_uint32_optional(o, "max_fire_count")
  /\ "policy" \in DOMAIN o =>
       /\ is(o, "policy", "obj")
       /\ json_name_optional(object(o, "policy"), "mode", policy_mode_from_str)
       /\ json_uint32_optional(object(o, "policy"), "cooldown_ms")
       /\ json_uint32_optional(object(o, "policy"), "max_fire_count")
  /\ json_bool_optional(o, "run_once")
  /\ "reentry" \in DOMAIN o =>
       /\ is(o, "reentry", "obj")
       /\ json_name_optional(object(o, "reentry"), "mode", reentry_mode_from_str)

(* A policy object, once there, sets the cooldown and the fire limit, even  *)
(* when it does not name them.                                              *)
import_branch_header(o, sc) ==
  LET type == name(o, "type", branch_type_from_str, "normal")
      policy == object(o, "policy")
      source == IF "policy" \in DOMAIN o THEN policy ELSE o
  IN  [id |-> text(o, "id"), name |-> text(o, "name"), type |-> type,
       enabled |-> truth(o, "enabled", TRUE),
       required_for_completion |-> truth(o, "required_for_completion", type = "normal"),
       priority |-> number(o, "priority"),
       policy_mode |-> name(policy, "mode", policy_mode_from_str, "single"),
       cooldown_ms |-> number(source, "cooldown_ms"),
       max_fire_count |-> number(source, "max_fire_count"),
       run_once |-> truth(o, "run_once", FALSE),
       reentry_mode |-> name(object(o, "reentry"), "mode", reentry_mode_from_str, "ignore"),
       trigger |-> NoTrigger, guards |-> <<>>, on_done |-> "continue",
       on_fail |-> "continue", on_timeout |-> "continue", result_flag |-> "",
       vstart |-> 0, vcount |-> 0, cstart |-> 0, ccount |-> 0,
       sstart |-> Len(sc.steps), scount |-> 0]

import_branch(v, sc) ==
  LET o == fields(v)
      branch == import_branch_header(o, sc)
      read == import_steps_array(o, sc)
  IN  CASE ~ branch_header_accepted(o) -> Refused
        [] branch_header_accepted(o) /\ branch.type = "reactive" /\ "variants" \in DOMAIN o ->
             import_reactive_branch_v2(o, sc, branch)
        [] OTHER -> IF ~ read.ok THEN Refused
                    ELSE [read EXCEPT !.branches =
                           Append(@, [branch EXCEPT !.scount = Len(items(o, "steps"))])]

import_branches(q, sc) ==
  IF Len(q) \in 1 .. MAX_BRANCHES
  THEN FoldLeft(LAMBDA acc, v : IF acc.ok THEN import_branch(v, acc) ELSE acc, sc, q)
  ELSE Refused

(* --------------------------- the two validators ------------------------- *)
device_command_valid(c) == c.device_id # "" /\ c.command_id # ""
event_valid(e) == e.device_id # "" /\ e.event_id # ""
ReactiveControl == {"FAIL_REACTION", "RESET_REACTION"}
ReactiveTriggerSteps == {"WAIT_DEVICE_EVENT", "WAIT_ANY_DEVICE_EVENT",
                         "WAIT_ALL_DEVICE_EVENTS", "WAIT_FLAGS"}
Slice(q, start, count) == SubSeq(q, start + 1, start + count)

valid_step(st) ==
  /\ st.id # ""
  /\ CASE st.type = "WAIT_TIME" -> st.data.duration_ms > 0
       [] st.type = "OPERATOR_APPROVAL" -> st.data.prompt # ""
       [] st.type = "DEVICE_COMMAND" -> device_command_valid(st.data)
       [] st.type = "WAIT_DEVICE_EVENT" -> event_valid(st.data)
       [] st.type = "DEVICE_COMMAND_GROUP" ->
            /\ Len(st.data.commands) \in 1 .. GROUP_MAX_COMMANDS
            /\ \A i \in DOMAIN st.data.commands : device_command_valid(st.data.commands[i])
       [] st.type = "SHOW_OPERATOR_MESSAGE" -> st.data.message # ""
       [] st.type = "SET_FLAG" -> st.data.name # ""
       [] st.type = "WAIT_FLAGS" ->
            /\ Len(st.data.flags) \in 1 .. WAIT_MAX_FLAGS
            /\ \A i \in DOMAIN st.data.flags : st.data.flags[i].name # ""
       [] st.type \in {"WAIT_ANY_DEVICE_EVENT", "WAIT_ALL_DEVICE_EVENTS"} ->
            /\ Len(st.data.events) \in 1 .. GROUP_MAX_EVENTS
            /\ \A i \in DOMAIN st.data.events : event_valid(st.data.events[i])
       [] OTHER -> st.type = "END_GAME"

valid_reactive_trigger(t) ==
  CASE t.kind = "device_event" -> event_valid(t)
    [] t.kind \in {"any_device_events", "all_device_events"} ->
         /\ Len(t.events) \in 1 .. GROUP_MAX_EVENTS
         /\ \A i \in DOMAIN t.events : event_valid(t.events[i])
    [] t.kind = "flag_changed" -> t.flag_name # ""
    [] t.kind = "operator_event" -> t.operator_event # ""
    [] t.kind = "runtime_event" -> t.runtime_event # ""
    [] OTHER -> FALSE

valid_reactive_action(sc, a) ==
  CASE a.type = "DEVICE_COMMAND" -> device_command_valid(a.data)
    [] a.type = "DEVICE_COMMAND_GROUP" ->
         /\ a.count > 0 /\ a.start + a.count <= Len(sc.commands)
         /\ \A i \in 1 .. a.count : device_command_valid(sc.commands[a.start + i])
    [] a.type = "WAIT_TIME" -> a.data.duration_ms > 0
    [] a.type = "SET_FLAG" -> a.data.name # ""
    [] a.type = "SHOW_OPERATOR_MESSAGE" -> a.data.message # ""
    [] OTHER -> a.type \in ReactiveControl

valid_reactive_branch_v2(sc, b) ==
  /\ valid_reactive_trigger(b.trigger)
  /\ b.vcount > 0 /\ b.vstart + b.vcount <= Len(sc.variants)
  /\ \A i \in DOMAIN b.guards : b.guards[i].name # ""
  /\ \A i \in 1 .. b.vcount :
       LET v == sc.variants[b.vstart + i]
       IN  /\ v.id # "" /\ v.count > 0 /\ v.start + v.count <= Len(sc.actions)
           /\ \A j \in 1 .. v.count : valid_reactive_action(sc, sc.actions[v.start + j])
  /\ b.cstart + b.ccount <= Len(sc.actions)
  /\ \A i \in 1 .. b.ccount :
       LET a == sc.actions[b.cstart + i]
       IN  a.type \notin ReactiveControl /\ valid_reactive_action(sc, a)

(* A reactive branch without variants listens with its first step; one that *)
(* listens to flags must not be able to fire again at once.                 *)
legacy_trigger_step(sc, b) ==
  b.scount > 0 /\ b.sstart + b.scount <= Len(sc.steps)
    /\ sc.steps[b.sstart + 1].type \in ReactiveTriggerSteps
legacy_needs_guard(sc, b) ==
  /\ sc.steps[b.sstart + 1].type = "WAIT_FLAGS"
  /\ ~ b.run_once /\ b.max_fire_count = 0 /\ b.cooldown_ms = 0

is_v2(b) == b.vcount > 0 \/ b.trigger.kind # "none"

has_duplicate_branch_ids(sc) ==
  \E i, j \in DOMAIN sc.branches : i < j /\ sc.branches[i].id = sc.branches[j].id

(* A step belongs to the first branch whose range holds it. *)
steps_share_branch(sc, i, j) ==
  LET holds(b, k) == k - 1 >= b.sstart /\ k - 1 < b.sstart + b.scount
      own == {k \in DOMAIN sc.branches : holds(sc.branches[k], i)}
  IN  own = {} \/ holds(sc.branches[CHOOSE k \in own : \A l \in own : k <= l], j)

has_duplicate_step_ids(sc) ==
  \E i, j \in DOMAIN sc.steps :
    i < j /\ steps_share_branch(sc, i, j) /\ sc.steps[i].id = sc.steps[j].id

validate_structural(sc) ==
  /\ "" \notin {sc.id, sc.name, sc.room_id}
  /\ Len(sc.steps) <= MAX_STEPS /\ Len(sc.branches) <= MAX_BRANCHES
  /\ Len(sc.variants) <= MAX_REACTIVE_VARIANTS /\ Len(sc.actions) <= MAX_REACTIVE_ACTIONS
  /\ Len(sc.commands) <= MAX_REACTIVE_GROUP_COMMANDS
  /\ ~ has_duplicate_step_ids(sc) /\ ~ has_duplicate_branch_ids(sc)
  /\ \A i \in DOMAIN sc.branches :
       LET b == sc.branches[i]
       IN  /\ b.id # "" /\ b.name # "" /\ b.sstart + b.scount <= Len(sc.steps)
           /\ b.type = "reactive" =>
                IF is_v2(b) THEN valid_reactive_branch_v2(sc, b)
                ELSE legacy_trigger_step(sc, b) /\ ~ legacy_needs_guard(sc, b)
  /\ \A i \in DOMAIN sc.steps : valid_step(sc.steps[i])

(* The report is the set of the codes of its issues. *)
Codes(cases) == {cases[i][2] : i \in {j \in DOMAIN cases : cases[j][1]}}

check_device_command_payload_static(c) ==
  IF c.device_id = "" THEN {"DEVICE_ID_EMPTY"}
  ELSE Codes(<< <<c.command_id = "", "DEVICE_COMMAND_ID_EMPTY">> >>)

check_device_command_group_step_static(d) ==
  CASE Len(d.commands) = 0 -> {"DEVICE_COMMAND_GROUP_EMPTY"}
    [] Len(d.commands) > GROUP_MAX_COMMANDS -> {"DEVICE_COMMAND_GROUP_LIMIT"}
    [] OTHER -> UNION {check_device_command_payload_static(d.commands[i]) : i \in DOMAIN d.commands}

check_wait_device_event_payload_static(e) ==
  IF e.device_id = "" THEN {"DEVICE_ID_EMPTY"}
  ELSE Codes(<< <<e.event_id = "", "DEVICE_EVENT_ID_EMPTY">> >>)

check_wait_any_device_event_step_static(d) ==
  CASE Len(d.events) = 0 -> {"WAIT_ANY_DEVICE_EVENT_EMPTY"}
    [] Len(d.events) > GROUP_MAX_EVENTS -> {"WAIT_ANY_DEVICE_EVENT_LIMIT"}
    [] OTHER -> UNION {check_wait_device_event_payload_static(d.events[i]) : i \in DOMAIN d.events}

check_wait_all_device_events_step_static(d) ==
  CASE Len(d.events) = 0 -> {"WAIT_ALL_DEVICE_EVENTS_EMPTY"}
    [] Len(d.events) > GROUP_MAX_EVENTS -> {"WAIT_ALL_DEVICE_EVENTS_LIMIT"}
    [] OTHER -> UNION {check_wait_device_event_payload_static(d.events[i]) : i \in DOMAIN d.events}

check_reactive_action_v2_static(sc, a) ==
  CASE a.type = "DEVICE_COMMAND" -> check_device_command_payload_static(a.data)
    [] a.type = "DEVICE_COMMAND_GROUP" ->
         IF a.count = 0 \/ a.start + a.count > Len(sc.commands)
         THEN {"REACTIVE_GROUP_COMMAND_RANGE_INVALID"}
         ELSE UNION {check_device_command_payload_static(sc.commands[a.start + i]) : i \in 1 .. a.count}
    [] a.type = "WAIT_TIME" -> Codes(<< <<a.data.duration_ms = 0, "REACTIVE_WAIT_TIME_ZERO">> >>)
    [] a.type = "SET_FLAG" -> Codes(<< <<a.data.name = "", "REACTIVE_FLAG_NAME_EMPTY">> >>)
    [] a.type = "SHOW_OPERATOR_MESSAGE" ->
         Codes(<< <<a.data.message = "", "REACTIVE_OPERATOR_MESSAGE_EMPTY">> >>)
    [] a.type \in ReactiveControl -> {}
    [] OTHER -> {"REACTIVE_ACTION_TYPE_UNSUPPORTED"}

check_variant_static(sc, v) ==
  Codes(<< <<v.id = "", "REACTIVE_VARIANT_ID_EMPTY">> >>) \cup
  IF v.count = 0 \/ v.start + v.count > Len(sc.actions) THEN {"REACTIVE_VARIANT_ACTIONS_INVALID"}
  ELSE UNION {check_reactive_action_v2_static(sc, sc.actions[v.start + j]) : j \in 1 .. v.count}

check_on_complete_static(sc, b) ==
  IF b.cstart + b.ccount > Len(sc.actions) THEN {"REACTIVE_ON_COMPLETE_RANGE_INVALID"}
  ELSE UNION {LET a == sc.actions[b.cstart + i]
              IN  IF a.type \in ReactiveControl THEN {"REACTIVE_ON_COMPLETE_CONTROL_UNSUPPORTED"}
                  ELSE check_reactive_action_v2_static(sc, a) : i \in 1 .. b.ccount}

check_reactive_branch_v2_static(sc, b) ==
  Codes(<< <<~ valid_reactive_trigger(b.trigger), "REACTIVE_TRIGGER_INVALID">> >>) \cup
  IF b.vcount = 0 \/ b.vstart + b.vcount > Len(sc.variants) THEN {"REACTIVE_VARIANTS_INVALID"}
  ELSE Codes(<< <<\E i \in DOMAIN b.guards : b.guards[i].name = "", "REACTIVE_GUARD_FLAG_EMPTY">> >>)
       \cup UNION {check_variant_static(sc, sc.variants[b.vstart + i]) : i \in 1 .. b.vcount}
       \cup check_on_complete_static(sc, b)

check_branch_static(sc, i) ==
  LET b == sc.branches[i]
      reactive == CASE is_v2(b) -> check_reactive_branch_v2_static(sc, b)
                    [] ~ is_v2(b) /\ (b.scount = 0 \/ b.sstart + b.scount > Len(sc.steps)) ->
                         {"REACTIVE_BRANCH_EMPTY"}
                    [] OTHER ->
                         IF ~ legacy_trigger_step(sc, b) THEN {"REACTIVE_BRANCH_TRIGGER_REQUIRED"}
                         ELSE Codes(<< <<legacy_needs_guard(sc, b), "REACTIVE_FLAGS_NEEDS_GUARD">> >>)
  IN  Codes(<< <<b.id = "", "BRANCH_ID_EMPTY">>, <<b.name = "", "BRANCH_NAME_EMPTY">>,
               <<b.id # "" /\ \E j \in DOMAIN sc.branches : j > i /\ sc.branches[j].id = b.id,
                 "BRANCH_ID_DUPLICATE">>,
               <<b.sstart + b.scount > Len(sc.steps), "BRANCH_STEP_RANGE_INVALID">> >>)
        \cup IF b.type = "reactive" THEN reactive ELSE {}

check_step_static(sc, i) ==
  LET st == sc.steps[i]
      d == st.data
  IN  Codes(<< <<st.id = "", "STEP_ID_EMPTY">>,
               <<st.id # "" /\ \E j \in DOMAIN sc.steps :
                   j > i /\ steps_share_branch(sc, i, j) /\ sc.steps[j].id = st.id,
                 "STEP_ID_DUPLICATE">> >>) \cup
      CASE st.type = "WAIT_TIME" -> Codes(<< <<d.duration_ms = 0, "WAIT_TIME_ZERO">> >>)
        [] st.type = "OPERATOR_APPROVAL" -> Codes(<< <<d.prompt = "", "OPERATOR_PROMPT_EMPTY">> >>)
        [] st.type = "DEVICE_COMMAND" -> check_device_command_payload_static(d)
        [] st.type = "WAIT_DEVICE_EVENT" -> check_wait_device_event_payload_static(d)
        [] st.type = "DEVICE_COMMAND_GROUP" -> check_device_command_group_step_static(d)
        [] st.type = "SHOW_OPERATOR_MESSAGE" -> Codes(<< <<d.message = "", "OPERATOR_MESSAGE_EMPTY">> >>)
        [] st.type = "SET_FLAG" -> Codes(<< <<d.name = "", "FLAG_NAME_EMPTY">> >>)
        [] st.type = "WAIT_FLAGS" ->
             IF Len(d.flags) = 0 THEN {"WAIT_FLAGS_EMPTY"}
             ELSE IF Len(d.flags) > WAIT_MAX_FLAGS THEN {"WAIT_FLAGS_LIMIT"}
             ELSE Codes(<< <<\E j \in DOMAIN d.flags : d.flags[j].name = "", "FLAG_NAME_EMPTY">> >>)
        [] st.type = "WAIT_ANY_DEVICE_EVENT" -> check_wait_any_device_event_step_static(d)
        [] st.type = "WAIT_ALL_DEVICE_EVENTS" -> check_wait_all_device_events_step_static(d)
        [] OTHER -> {}

validate_static_report(sc) ==
  LET header == Codes(<< <<sc.id = "", "SCENARIO_ID_EMPTY">>, <<sc.room_id = "", "ROOM_ID_EMPTY">>,
                         <<sc.name = "", "SCENARIO_NAME_EMPTY">> >>)
  IN  CASE Len(sc.steps) > MAX_STEPS -> header \cup {"STEP_COUNT_LIMIT"}
        [] Len(sc.steps) <= MAX_STEPS /\ Len(sc.branches) > MAX_BRANCHES ->
             header \cup {"BRANCH_COUNT_LIMIT"}
        [] OTHER -> header
             \cup UNION {check_branch_static(sc, i) : i \in DOMAIN sc.branches}
             \cup UNION {check_step_static(sc, i) : i \in DOMAIN sc.steps}

(* Warnings never make a report invalid: what the runtime does not do yet. *)
check_reactive_action_v2_runtime(a) ==
  Codes(<< <<a.type = "DEVICE_COMMAND_GROUP" /\ a.mode = "parallel",
             "REACTIVE_GROUP_PARALLEL_UNSUPPORTED">> >>)

check_reactive_branch_v2_runtime(sc, b) ==
  LET actions == UNION {{sc.actions[sc.variants[b.vstart + i].start + j] :
                           j \in 1 .. sc.variants[b.vstart + i].count} : i \in 1 .. b.vcount}
  IN  UNION {check_reactive_action_v2_runtime(a) : a \in actions}
        \cup Codes(<< <<b.reentry_mode \in {"restart", "parallel"}, "REACTIVE_REENTRY_UNSUPPORTED">> >>)

validate_runtime_report(sc) ==
  UNION {check_reactive_branch_v2_runtime(sc, sc.branches[i]) :
           i \in {j \in DOMAIN sc.branches : sc.branches[j].type = "reactive" /\ is_v2(sc.branches[j])}}

validate(sc) ==
  LET errors == validate_static_report(sc)
      required == \E i \in DOMAIN sc.branches :
                    sc.branches[i].type = "reactive" /\ sc.branches[i].required_for_completion
  IN  [errors |-> errors,
       warnings |-> Codes(<< <<required, "REACTIVE_BRANCH_REQUIRED_IGNORED">> >>) \cup
                    IF errors = {} THEN validate_runtime_report(sc) ELSE {}]

(* ------------------------------- writing -------------------------------- *)
Field(f, v) == f :> v
When(c, f, v) == IF c THEN f :> v ELSE <<>>

export_command(c) ==
  Field("device_id", Str(c.device_id)) @@ Field("command_id", Str(c.command_id))
    @@ When(c.params # NoParams, "params", c.params)

export_event(e) == Field("device_id", Str(e.device_id)) @@ Field("event_id", Str(e.event_id))

export_flag(f, g) == Field(f, Str(g.name)) @@ Field("value", Bool(g.value))

export_list(f, q, Op(_)) == Field(f, Arr([i \in DOMAIN q |-> Obj(Op(q[i]))]))

export_timeout(d) ==
  When(d.timeout_ms > 0, "timeout_ms", Num(d.timeout_ms))
    @@ When(d.timeout_action # "continue", "timeout_action", Str(d.timeout_action))

export_event_group(d) == export_list("events", d.events, export_event) @@ export_timeout(d)

export_step_data(d, type) ==
  CASE type = "DEVICE_COMMAND" -> export_command(d)
    [] type = "DEVICE_COMMAND_GROUP" -> export_list("commands", d.commands, export_command)
    [] type = "WAIT_TIME" -> Field("duration_ms", Num(d.duration_ms))
    [] type = "WAIT_DEVICE_EVENT" ->
         export_event(d) @@ export_timeout(d)
           @@ When(d.timeout_message # "", "timeout_message", Str(d.timeout_message))
    [] type = "OPERATOR_APPROVAL" ->
         Field("prompt", Str(d.prompt)) @@ Field("approve_label", Str(d.approve_label))
    [] type = "SHOW_OPERATOR_MESSAGE" -> Field("message", Str(d.message))
    [] type = "SET_FLAG" -> export_flag("flag_name", d)
    [] type = "WAIT_FLAGS" ->
         export_list("flags", d.flags, LAMBDA g : export_flag("flag_name", g)) @@ export_timeout(d)
           @@ When(d.timeout_message # "", "timeout_message", Str(d.timeout_message))
    [] type \in {"WAIT_ANY_DEVICE_EVENT", "WAIT_ALL_DEVICE_EVENTS"} -> export_event_group(d)
    [] OTHER -> <<>>

export_step(st) ==
  Field("id", Str(st.id)) @@ Field("label", Str(st.label)) @@ Field("enabled", Bool(st.enabled))
    @@ Field("type", Str(st.type))
    @@ When(st.allow_operator_skip, "allow_operator_skip", Bool(TRUE))
    @@ When(st.operator_skip_label # "", "operator_skip_label", Str(st.operator_skip_label))
    @@ export_step_data(st.data, st.type)

export_reactive_action(sc, a) ==
  When(a.id # "", "id", Str(a.id)) @@ When(a.label # "", "label", Str(a.label))
    @@ Field("type", Str(a.type)) @@
  CASE a.type = "DEVICE_COMMAND_GROUP" ->
         Field("mode", Str(a.mode))
           @@ export_list("commands", Slice(sc.commands, a.start, a.count), export_command)
    [] a.type = "WAIT_TIME" ->
         Field("duration_ms", Num(a.data.duration_ms))
           @@ When(a.data.timeout_action # "continue", "timeout_action", Str(a.data.timeout_action))
    [] a.type = "SET_FLAG" -> export_flag("flag", a.data)
    [] a.type \in {"DEVICE_COMMAND", "SHOW_OPERATOR_MESSAGE"} -> export_step_data(a.data, a.type)
    [] OTHER -> <<>>

export_trigger(t) ==
  Field("kind", Str(t.kind))
    @@ When(t.operator_event # "", "event_id", Str(t.operator_event))
    @@ When(t.runtime_event # "", "event_id", Str(t.runtime_event))
    @@ When(t.device_id # "", "device_id", Str(t.device_id))
    @@ When(t.event_id # "", "event_id", Str(t.event_id))
    @@ When(t.flag_name # "", "flag_name", Str(t.flag_name))
    @@ IF t.events = <<>> THEN <<>> ELSE export_list("events", t.events, export_event)

export_reactive_branch_v2(sc, b) ==
  LET Action(a) == export_reactive_action(sc, a)
      Variant(v) == Field("id", Str(v.id)) @@ Field("label", Str(v.label))
                      @@ export_list("actions", Slice(sc.actions, v.start, v.count), Action)
  IN  Field("trigger", Obj(export_trigger(b.trigger)))
        @@ export_list("guard_flags", b.guards, LAMBDA g : export_flag("flag", g))
        @@ export_list("variants", Slice(sc.variants, b.vstart, b.vcount), Variant)
        @@ Field("result_policy",
                 Obj(Field("on_done", Str(b.on_done)) @@ Field("on_fail", Str(b.on_fail))
                       @@ Field("on_timeout", Str(b.on_timeout))
                       @@ When(b.result_flag # "", "flag", Str(b.result_flag))))
        @@ export_list("on_complete", Slice(sc.actions, b.cstart, b.ccount), Action)

export_reactive_policy_no_cooldown(b) ==
  Field("policy", Obj(Field("mode", Str(b.policy_mode))))
    @@ Field("reentry", Obj(Field("mode", Str(b.reentry_mode))))
    @@ When(b.cooldown_ms > 0, "cooldown_ms", Num(b.cooldown_ms))
    @@ When(b.max_fire_count > 0, "max_fire_count", Num(b.max_fire_count))
    @@ When(b.run_once, "run_once", Bool(TRUE))

export_reactive_policy(b) ==
  Field("policy", Obj(Field("mode", Str(b.policy_mode)) @@ Field("cooldown_ms", Num(b.cooldown_ms))
                        @@ Field("max_fire_count", Num(b.max_fire_count))))
    @@ Field("reentry", Obj(Field("mode", Str(b.reentry_mode))))
    @@ When(b.cooldown_ms > 0, "cooldown_ms", Num(b.cooldown_ms))
    @@ When(b.max_fire_count > 0, "max_fire_count", Num(b.max_fire_count))
    @@ When(b.run_once, "run_once", Bool(TRUE))

export_branch(sc, b) ==
  Field("id", Str(b.id)) @@ Field("name", Str(b.name)) @@ Field("type", Str(b.type))
    @@ Field("enabled", Bool(b.enabled))
    @@ Field("required_for_completion", Bool(b.required_for_completion))
    @@ When(b.priority > 0, "priority", Num(b.priority))
    @@ (IF b.type = "reactive" THEN export_reactive_policy(b) ELSE <<>>)
    @@ (IF b.type = "reactive" /\ is_v2(b) THEN export_reactive_branch_v2(sc, b) ELSE <<>>)
    @@ (IF b.type = "reactive" /\ b.vcount > 0 THEN <<>>
        ELSE export_list("steps", Slice(sc.steps, b.sstart, b.scount), export_step))

(* Null stands for the refusal to write. *)
to_json(sc) ==
  IF ~ validate_structural(sc) THEN Null
  ELSE Obj(Field("id", Str(sc.id)) @@ Field("name", Str(sc.name)) @@ Field("room_id", Str(sc.room_id))
             @@ IF sc.branches # <<>>
                THEN export_list("branches", sc.branches, LAMBDA b : export_branch(sc, b))
                ELSE export_list("steps", sc.steps, export_step))

(* ------------------------ reading and device refs ----------------------- *)
import_one(v) ==
  LET o == fields(v)
      empty == [ok |-> TRUE, id |-> text(o, "id"), name |-> text(o, "name"),
                room_id |-> text(o, "room_id"), steps |-> <<>>, variants |-> <<>>,
                actions |-> <<>>, commands |-> <<>>, branches |-> <<>>]
  IN  IF \E f \in {"id", "name", "room_id"} : ~ json_string_required(o, f) THEN Refused
      ELSE IF "branches" \in DOMAIN o THEN import_branches(items(o, "branches"), empty)
      ELSE import_steps_array(o, empty)

structural_or_refused(sc) == IF sc.ok /\ validate_structural(sc) THEN sc ELSE Refused

from_json(v) == structural_or_refused(import_one(v))

step_device_refs(st) ==
  CASE st.type \in {"DEVICE_COMMAND", "WAIT_DEVICE_EVENT"} -> {st.data.device_id}
    [] st.type = "DEVICE_COMMAND_GROUP" ->
         {st.data.commands[i].device_id : i \in DOMAIN st.data.commands}
    [] st.type \in {"WAIT_ANY_DEVICE_EVENT", "WAIT_ALL_DEVICE_EVENTS"} ->
         {st.data.events[i].device_id : i \in DOMAIN st.data.events}
    [] OTHER -> {}

reactive_action_device_refs(sc, a) ==
  (IF a.type = "DEVICE_COMMAND" THEN {a.data.device_id} ELSE {})
    \cup {sc.commands[a.start + i].device_id : i \in 1 .. a.count}

branch_device_refs(sc, b) ==
  (IF b.trigger.kind = "device_event" THEN {b.trigger.device_id} ELSE {})
    \cup UNION {reactive_action_device_refs(sc, sc.actions[b.cstart + i]) : i \in 1 .. b.ccount}

(* The devices a scenario mentions; the ones of a trigger on several events *)
(* are not among them.                                                      *)
collect_device_refs(sc) ==
  UNION ({step_device_refs(sc.steps[i]) : i \in DOMAIN sc.steps}
         \cup {reactive_action_device_refs(sc, sc.actions[i]) : i \in DOMAIN sc.actions}
         \cup {branch_device_refs(sc, sc.branches[i]) : i \in DOMAIN sc.branches})

=============================================================================
