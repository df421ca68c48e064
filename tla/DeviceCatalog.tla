---------------------------- MODULE DeviceCatalog ----------------------------
(***************************************************************************)
(* The devices a scenario may use: the four built-in ones with their fixed *)
(* commands and events, the registered ones with a flat list of commands   *)
(* or a compact manifest, and the resolver that finds a command and checks *)
(* its parameters.  A registered device is                                 *)
(*   [enabled, commands: id -> command, events: set of ids, manifest]      *)
(* with manifest = Null for a flat one.                                    *)
(***************************************************************************)
EXTENDS RoomScenario

CONSTANTS
  Decimal,       \* the decimal text of 1, 2, ... as a sequence of texts
  EventParts     \* an event id that holds an '@' -> the texts around it

(* --------------------------- built-in devices --------------------------- *)
Param(key, type, optional) == [key |-> key, type |-> type, optional |-> optional]
Numbers(keys) == [i \in DOMAIN keys |-> Param(keys[i], "number", FALSE)]

(* Policy: may an operator send it, may a scenario. *)
command_set_policy(params, defaults, manual, scenario) ==
  [params |-> params, default_args |-> defaults,
   manual_allowed |-> manual, scenario_allowed |-> scenario]

audio_play_command ==
  command_set_policy(<<Param("file", "audio_file_select", FALSE), Param("volume", "number", TRUE),
                       Param("channel", "text", TRUE), Param("repeat", "checkbox", TRUE)>>,
                     <<>>, FALSE, TRUE)
audio_stop_command == command_set_policy(<<>>, <<>>, TRUE, TRUE)
audio_pause_command == command_set_policy(<<>>, <<>>, TRUE, TRUE)
audio_resume_command == command_set_policy(<<>>, <<>>, TRUE, TRUE)
audio_set_volume_command == command_set_policy(Numbers(<<"volume">>), <<>>, FALSE, TRUE)

Blink == "on_ms" :> Num(500) @@ "off_ms" :> Num(500) @@ "count" :> Num(3)
Channel1 == "channel" :> Num(1)

relay_set_command ==
  command_set_policy(Numbers(<<"channel">>) \o <<Param("on", "checkbox", FALSE)>>,
                     Channel1 @@ "on" :> Bool(TRUE), TRUE, TRUE)
relay_pulse_command ==
  command_set_policy(Numbers(<<"channel", "duration_ms">>),
                     Channel1 @@ "duration_ms" :> Num(500), TRUE, TRUE)
relay_toggle_command == command_set_policy(Numbers(<<"channel">>), Channel1, TRUE, FALSE)
relay_blink_command ==
  command_set_policy(Numbers(<<"channel", "on_ms", "off_ms", "count">>), Channel1 @@ Blink, TRUE, TRUE)

mosfet_set_command ==
  command_set_policy(Numbers(<<"channel", "value">>), Channel1 @@ "value" :> Num(255), TRUE, TRUE)
mosfet_fade_command ==
  command_set_policy(Numbers(<<"channel", "target", "duration_ms">>),
                     Channel1 @@ "target" :> Num(255) @@ "duration_ms" :> Num(1000), TRUE, TRUE)
mosfet_pulse_command ==
  command_set_policy(Numbers(<<"channel", "value", "duration_ms">>),
                     Channel1 @@ "value" :> Num(255) @@ "duration_ms" :> Num(1000), TRUE, TRUE)
mosfet_blink_command ==
  command_set_policy(Numbers(<<"channel", "value", "on_ms", "off_ms", "count">>),
                     Channel1 @@ "value" :> Num(255) @@ Blink, TRUE, TRUE)
mosfet_breathe_command ==
  command_set_policy(Numbers(<<"channel", "min", "max", "fade_ms", "hold_ms", "count">>),
                     Channel1 @@ "min" :> Num(0) @@ "max" :> Num(255) @@ "fade_ms" :> Num(1000)
                       @@ "hold_ms" :> Num(0) @@ "count" :> Num(3), TRUE, TRUE)
mosfet_all_off_command == command_set_policy(<<>>, <<>>, TRUE, TRUE)

io_set_command ==
  command_set_policy(Numbers(<<"channel">>) \o <<Param("active", "checkbox", FALSE)>>,
                     Channel1 @@ "active" :> Bool(TRUE), TRUE, TRUE)
io_pulse_command ==
  command_set_policy(Numbers(<<"channel">>) \o <<Param("active", "checkbox", FALSE)>>
                       \o Numbers(<<"duration_ms">>),
                     Channel1 @@ "active" :> Bool(TRUE) @@ "duration_ms" :> Num(1000), TRUE, TRUE)
io_blink_command ==
  command_set_policy(Numbers(<<"channel", "on_ms", "off_ms", "count">>), Channel1 @@ Blink, TRUE, TRUE)
io_toggle_command == command_set_policy(Numbers(<<"channel">>), Channel1, TRUE, FALSE)
io_get_state_command == command_set_policy(Numbers(<<"channel">>), Channel1, TRUE, FALSE)

IO_CHANNELS == 1 .. 4

(* The events of the four IO channels, with the channel of each. *)
system_channel_event ==
  LET id(c, suffix) == "ch" \o Decimal[c] \o "_" \o suffix
      pairs == IO_CHANNELS \X {"changed", "active", "inactive", "high", "low"}
  IN  [e \in {id(p[1], p[2]) : p \in pairs} |-> CHOOSE c \in IO_CHANNELS : \E p \in pairs : p[1] = c /\ id(c, p[2]) = e]

system_device(commands, events) ==
  [enabled |-> TRUE, commands |-> commands, events |-> events, manifest |-> Null]

fill_system_audio ==
  system_device([play |-> audio_play_command, stop |-> audio_stop_command,
                 pause |-> audio_pause_command, resume |-> audio_resume_command,
                 set_volume |-> audio_set_volume_command],
                {"playback_finished", "playback_failed"})
fill_system_relay ==
  system_device([set |-> relay_set_command, pulse |-> relay_pulse_command,
                 blink |-> relay_blink_command, toggle |-> relay_toggle_command], {})
fill_system_mosfet ==
  system_device([set |-> mosfet_set_command, fade |-> mosfet_fade_command,
                 pulse |-> mosfet_pulse_command, blink |-> mosfet_blink_command,
                 breathe |-> mosfet_breathe_command, all_off |-> mosfet_all_off_command], {})
fill_system_io ==
  system_device([set |-> io_set_command, pulse |-> io_pulse_command, blink |-> io_blink_command,
                 toggle |-> io_toggle_command, get_state |-> io_get_state_command],
                DOMAIN system_channel_event)

SystemDevices ==
  [system_audio |-> fill_system_audio, system_relay |-> fill_system_relay,
   system_mosfet |-> fill_system_mosfet, system_io |-> fill_system_io]

(* ------------------------------- lookups -------------------------------- *)
quest_device_get(devices, id) == (SystemDevices @@ devices)[id]
known(devices, id) == id \in DOMAIN SystemDevices \cup DOMAIN devices

compact_manifest_root_valid(root) ==
  /\ number(root, "manifest_version") = 2
  /\ text(root, "format") = "compact_resources"
  /\ text(root, "node_kind") # ""
  /\ text(root, "capability_contract") = "scenehub.node.compact.v1"

Entries(o, f) == {fields(items(o, f)[i]) : i \in DOMAIN items(o, f)}

(* The field that names a resource. *)
compact_resource_key(source, item) ==
  LET preferred == IF source = "led_strips" THEN "strip" ELSE "channel"
      keys == <<"channel", "strip", "reader", "uid_reader", "reader_id", "index", "id">>
      present == {i \in DOMAIN keys : is(item, keys[i], "str") \/ is(item, keys[i], "num")}
  IN  IF preferred \in DOMAIN item \/ present = {} THEN preferred
      ELSE keys[CHOOSE i \in present : \A j \in present : i <= j]

compact_resource_item_matches(item, key, resource) ==
  \/ is(item, key, "str") /\ text(item, key) = resource
  \/ is(item, key, "num") /\ number(item, key) \in DOMAIN Decimal
       /\ Decimal[number(item, key)] = resource

compact_find_resource_item(root, source, event, resource) ==
  \E item \in Entries(object(root, "resources"), source) :
    /\ text(item, "event") = event
    /\ compact_resource_item_matches(item, compact_resource_key(source, item), resource)

compact_event_template_allows_resource_expansion(item) ==
  \/ DOMAIN object(item, "match") # {}
  \/ text(item, "args_schema_ref") \notin {"", "empty"}

(* An event of a compact manifest: one of its templates, or a template and  *)
(* one of the resources it is about.                                        *)
compact_manifest_get_event(root, event_id) ==
  /\ compact_manifest_root_valid(root)
  /\ \E t \in Entries(root, "event_templates") :
       /\ text(t, "event") # ""
       /\ \/ text(t, "id") = event_id
          \/ /\ event_id \in DOMAIN EventParts
             /\ text(t, "id") = EventParts[event_id][1] /\ text(t, "source") # ""
             /\ compact_event_template_allows_resource_expansion(t)
             /\ compact_find_resource_item(root, text(t, "source"), text(t, "event"),
                                           EventParts[event_id][2])

quest_device_get_event(devices, id, event_id) ==
  LET d == quest_device_get(devices, id)
  IN  event_id \in d.events
        \/ (d.manifest # Null /\ compact_manifest_get_event(fields(d.manifest), event_id))

(* ------------------------------- resolver ------------------------------- *)
parsed(s) == {n \in DOMAIN Decimal : Decimal[n] = s}

json_number_like(v) == v[1] = "num" \/ (v[1] = "str" /\ parsed(v[2]) # {})
json_bool_like(v) == v[1] \in {"bool", "num", "str"}
number_of(v) == IF v[1] = "num" THEN v[2] ELSE CHOOSE n \in parsed(v[2]) : TRUE

merge_effective_params(defaults, params) ==
  IF params = NoParams THEN defaults ELSE fields(params) @@ defaults

select_option_exists(s, v) ==
  v[1] = "str" /\ \E i \in DOMAIN items(s, "options") : items(s, "options")[i] = v

resource_channel_exists(root, target, v) ==
  LET field == IF target = "led_strips" THEN "strip" ELSE "channel"
  IN  /\ json_number_like(v)
      /\ \E item \in Entries(object(root, "resources"), target) :
           is(item, field, "num") /\ number(item, field) = number_of(v)

(* The first fault of the parameters, in the order of the schema.           *)
first_fault(faults) ==
  LET bad == {i \in DOMAIN faults : faults[i] # ""}
  IN  IF bad = {} THEN "" ELSE faults[CHOOSE i \in bad : \A j \in bad : i <= j]

fault_of(present, optional, fault) ==
  IF ~ present THEN (IF optional THEN "" ELSE "device_command_param_required") ELSE fault

compact_param_fault(root, target, s, v) ==
  LET type == text(s, "type")
  IN  CASE type = "resource_channel" /\ ~ resource_channel_exists(root, target, v) ->
             "device_command_resource_invalid"
        [] type = "select" /\ ~ select_option_exists(s, v) -> "device_command_option_invalid"
        [] type = "number" /\ ~ json_number_like(v) -> "device_command_number_invalid"
        [] type = "checkbox" /\ ~ json_bool_like(v) -> "device_command_bool_invalid"
        [] OTHER -> ""

validate_compact_params(root, template, params) ==
  LET ref == text(template, "args_schema_ref")
      schemas == object(root, "schemas")
      schema == items(schemas, ref)
      effective == merge_effective_params(object(template, "default_args"), params)
      Fault(s) == IF text(s, "key") = "" THEN "device_command_schema_invalid"
                  ELSE fault_of(~ absent(effective, text(s, "key")), truth(s, "optional", FALSE),
                                compact_param_fault(root, text(template, "target"), s,
                                                    effective[text(s, "key")]))
  IN  IF ref = "" \/ ~ is(schemas, ref, "arr") THEN "device_command_schema_not_found"
      ELSE first_fault([i \in DOMAIN schema |-> Fault(fields(schema[i]))])

param_fault(p, v) ==
  CASE p.type = "number" -> IF json_number_like(v) THEN "" ELSE "device_command_number_invalid"
    [] p.type = "checkbox" -> IF json_bool_like(v) THEN "" ELSE "device_command_bool_invalid"
    [] p.type = "audio_file_select" ->
         IF v[1] = "str" /\ v[2] # "" THEN "" ELSE "device_command_audio_file_missing"
    [] OTHER -> IF v[1] = "str" /\ v[2] # "" THEN "" ELSE "device_command_text_invalid"

validate_params(command, params) ==
  LET effective == merge_effective_params(command.default_args, params)
      Fault(p) == fault_of(~ absent(effective, p.key), p.optional, param_fault(p, effective[p.key]))
  IN  first_fault([i \in DOMAIN command.params |-> Fault(command.params[i])])

(* Who may send the command of a compact manifest: both, unless it says so. *)
fill_compact_command(template) ==
  [manual_allowed |-> truth(object(template, "policy"), "manual_allowed", TRUE),
   scenario_allowed |-> truth(object(template, "policy"), "scenario_allowed", TRUE)]

find_template_by_id(root, command_id) ==
  {i \in DOMAIN items(root, "command_templates") :
     text(fields(items(root, "command_templates")[i]), "id") = command_id}

resolve_compact_command(root, command_id, params) ==
  LET found == find_template_by_id(root, command_id)
      template == fields(items(root, "command_templates")[CHOOSE i \in found : \A j \in found : i <= j])
  IN  CASE ~ compact_manifest_root_valid(root) -> "device_description_invalid"
        [] compact_manifest_root_valid(root) /\ found = {} -> "device_command_not_found"
        [] OTHER -> validate_compact_params(root, template, params)

(* "" when the command is found and its parameters are accepted, or else    *)
(* the reason.                                                              *)
device_command_resolve(devices, id, command_id, params) ==
  LET d == quest_device_get(devices, id)
  IN  CASE ~ known(devices, id) -> "device_not_found"
        [] known(devices, id) /\ ~ d.enabled -> "device_disabled"
        [] OTHER ->
             IF d.manifest # Null THEN resolve_compact_command(fields(d.manifest), command_id, params)
             ELSE IF command_id \notin DOMAIN d.commands THEN "device_command_not_found"
             ELSE validate_params(d.commands[command_id], params)
=============================================================================
