---------------------------- MODULE ScenarioStore ----------------------------
(***************************************************************************)
(* One scenario from the editor to the room: saved from a document, kept   *)
(* in the store and its file, read again after a restart, validated against *)
(* the registered devices and the IO configuration, started, and its       *)
(* commands sent.  Meanwhile devices are registered, disabled and removed  *)
(* and IO channels are reconfigured.                                       *)
(***************************************************************************)
EXTENDS DeviceCatalog

CONSTANTS
  Documents,          \* the documents the editor may send
  DeviceSets,         \* the sets of registered devices: id -> device
  IoModes,            \* the IO configurations: channel -> "input"/"output"/"off"
  COMMAND_CACHE_SIZE, \* entries of the validation's command cache
  MAX_SAVES,          \* bound on the saves; each replaces the whole scenario
  None

VARIABLES
  stored,    \* the scenario in the table, or None
  file,      \* the document in the store's file, or None
  devices,   \* the registered devices
  io,        \* the mode of every IO channel
  report,    \* [errors, warnings] of the last start, or None
  sent,      \* [command, fault] of the last command sent by the run, or None
  status,    \* the answer of the save that ended last, "saved" or "refused"
  saves

vars == <<stored, file, devices, io, report, sent, status, saves>>

Init ==
  /\ stored = None /\ file = None /\ report = None /\ sent = None /\ status = None /\ saves = 0
  /\ devices \in DeviceSets /\ io \in IoModes

(* --------------------- validation in the environment -------------------- *)
(* The channel the parameters name, by a text search: 0 when there is none. *)
params_channel(params) ==
  LET o == IF params = NoParams THEN <<>> ELSE fields(params)
  IN  CASE is(o, "channel", "num") -> number(o, "channel")
        [] is(o, "channel", "str") /\ parsed(text(o, "channel")) # {} -> number_of(o["channel"])
        [] OTHER -> 0

io_channel_has_mode(channel, mode) == channel \in DOMAIN io /\ io[channel] = mode

check_io_command_mode(c) ==
  LET channel == params_channel(c.params)
  IN  CASE c.device_id # "system_io" -> {}
        [] c.device_id = "system_io" /\ channel \notin IO_CHANNELS -> {"IO_CHANNEL_INVALID"}
        [] OTHER -> Codes(<< <<~ io_channel_has_mode(channel, "output"), "IO_CHANNEL_NOT_OUTPUT">> >>)

check_io_event_mode(e) ==
  Codes(<< <<e.device_id = "system_io"
               /\ ~ io_channel_has_mode(system_channel_event[e.event_id], "input"),
             "IO_CHANNEL_NOT_INPUT">> >>)

(* The fault of a command, from the cache of this validation or resolved.   *)
(* A full cache overwrites its last entry.                                  *)
cache_key_without_params(c) == <<c.device_id, c.command_id>>
cache_key(c) == <<c.device_id, c.command_id, c.params>>

cache_add(cache, entry) ==
  [cache |-> IF Len(cache) < COMMAND_CACHE_SIZE THEN Append(cache, entry)
             ELSE [cache EXCEPT ![Len(cache)] = entry],
   fault |-> entry.fault]

lookup_command(cache, c) ==
  LET hits == {i \in DOMAIN cache : cache[i].key = cache_key(c)}
  IN  IF hits # {} THEN [cache |-> cache, fault |-> cache[CHOOSE i \in hits : \A j \in hits : i <= j].fault]
      ELSE cache_add(cache, [key |-> cache_key(c),
                             fault |-> device_command_resolve(devices, c.device_id, c.command_id, c.params)])

add_command_issue(acc, c, found) ==
  [cache |-> found.cache,
   errors |-> acc.errors \cup
     CASE found.fault = "" -> check_io_command_mode(c)
       [] found.fault = "device_not_found" -> {"QUEST_DEVICE_NOT_FOUND"}
       [] found.fault = "device_disabled" -> {"QUEST_DEVICE_DISABLED"}
       [] found.fault = "device_command_not_found" -> {"DEVICE_COMMAND_NOT_FOUND"}
       [] OTHER -> {"DEVICE_COMMAND_INVALID"}]

check_device_command_payload_runtime(acc, c) ==
  add_command_issue(acc, c, lookup_command(acc.cache, c))

check_device_command_group_step_runtime(acc, commands) ==
  FoldLeft(check_device_command_payload_runtime, acc, commands)

check_wait_device_event_payload_runtime(e) ==
  CASE ~ known(devices, e.device_id) -> {"QUEST_DEVICE_NOT_FOUND"}
    [] known(devices, e.device_id) /\ ~ quest_device_get(devices, e.device_id).enabled ->
         {"QUEST_DEVICE_DISABLED"}
    [] OTHER -> IF quest_device_get_event(devices, e.device_id, e.event_id)
                THEN check_io_event_mode(e) ELSE {"DEVICE_EVENT_NOT_FOUND"}

check_wait_events_step_runtime(acc, events) ==
  [acc EXCEPT !.errors = @ \cup UNION {check_wait_device_event_payload_runtime(events[i]) :
                                         i \in DOMAIN events}]

check_reactive_action_environment(sc, acc, a) ==
  CASE a.type = "DEVICE_COMMAND" -> check_device_command_payload_runtime(acc, a.data)
    [] a.type = "DEVICE_COMMAND_GROUP" ->
         check_device_command_group_step_runtime(acc, Slice(sc.commands, a.start, a.count))
    [] OTHER -> acc

(* The actions of the variants; not the ones on completion.                 *)
check_reactive_branch_environment(sc, acc, b) ==
  LET Check(acc1, v) == FoldLeft(LAMBDA acc2, a : check_reactive_action_environment(sc, acc2, a),
                                 acc1, Slice(sc.actions, v.start, v.count))
  IN  IF b.type = "reactive" /\ is_v2(b)
      THEN FoldLeft(Check, acc, Slice(sc.variants, b.vstart, b.vcount)) ELSE acc

check_step_environment(acc, st) ==
  CASE st.type = "DEVICE_COMMAND" -> check_device_command_payload_runtime(acc, st.data)
    [] st.type = "DEVICE_COMMAND_GROUP" ->
         check_device_command_group_step_runtime(acc, st.data.commands)
    [] st.type = "WAIT_DEVICE_EVENT" -> check_wait_events_step_runtime(acc, <<st.data>>)
    [] st.type \in {"WAIT_ANY_DEVICE_EVENT", "WAIT_ALL_DEVICE_EVENTS"} ->
         check_wait_events_step_runtime(acc, st.data.events)
    [] OTHER -> acc

validate_environment_append(sc) ==
  FoldLeft(check_step_environment,
           FoldLeft(LAMBDA acc, b : check_reactive_branch_environment(sc, acc, b),
                    [cache |-> <<>>, errors |-> {}], sc.branches),
           sc.steps).errors

add_environment(sc, static) ==
  IF static.errors # {} THEN static
  ELSE [static EXCEPT !.errors = validate_environment_append(sc)]

scenario_validate(sc) == add_environment(sc, validate(sc))

(* ------------------------------ operations ------------------------------ *)
(* Saving a document: it is read, written once for the answer, validated,   *)
(* and stored; the report is not looked at.                                 *)
writing(sc) == [scenario |-> sc, json |-> IF sc.ok THEN to_json(sc) ELSE Null]
reading == [doc \in Documents |-> writing(from_json(doc))]

save_or_refuse(read) ==
  \/ /\ read.json # Null
     /\ stored' = read.scenario /\ file' = read.json /\ status' = "saved"
  \/ /\ read.json = Null
     /\ status' = "refused"
     /\ UNCHANGED <<stored, file>>

save_scenario_payload ==
  /\ saves < MAX_SAVES /\ saves' = saves + 1
  /\ \E doc \in Documents : save_or_refuse(reading[doc])
  /\ report' = None /\ sent' = None
  /\ UNCHANGED <<devices, io>>

(* A restart: the table is read again from the file.                        *)
loaded(sc) == IF sc.ok THEN sc ELSE None

Restart ==
  /\ file # None
  /\ stored' = loaded(from_json(file))
  /\ report' = None /\ sent' = None /\ status' = None
  /\ UNCHANGED <<file, devices, io, saves>>

(* Starting the scenario validates it; a report with errors ends the start. *)
scenario_start ==
  /\ stored # None
  /\ report' = scenario_validate(stored)
  /\ sent' = None /\ status' = None
  /\ UNCHANGED <<stored, file, devices, io, saves>>

(* What the run may send: commands of enabled steps and of variants.        *)
run_commands(sc) ==
  LET of_step(st) == CASE st.type = "DEVICE_COMMAND" -> {st.data}
                       [] st.type = "DEVICE_COMMAND_GROUP" ->
                            {st.data.commands[i] : i \in DOMAIN st.data.commands}
                       [] OTHER -> {}
      of_action(a) == (IF a.type = "DEVICE_COMMAND" THEN {a.data} ELSE {})
                        \cup {sc.commands[a.start + i] : i \in 1 .. a.count}
      of_variant(v) == UNION {of_action(sc.actions[v.start + i]) : i \in 1 .. v.count}
  IN  UNION ({of_step(sc.steps[i]) : i \in {j \in DOMAIN sc.steps : sc.steps[j].enabled}}
             \cup {of_variant(sc.variants[i]) : i \in DOMAIN sc.variants})

scenario_allowed(id, command_id) ==
  LET d == quest_device_get(devices, id)
      templates == items(fields(d.manifest), "command_templates")
      found == find_template_by_id(fields(d.manifest), command_id)
  IN  IF d.manifest = Null THEN d.commands[command_id].scenario_allowed
      ELSE fill_compact_command(fields(templates[CHOOSE i \in found : \A j \in found : i <= j])).scenario_allowed

(* An IO command acts on the channel of its parameters and the defaults.    *)
hardware_fault(c) ==
  LET args == merge_effective_params(fill_system_io.commands[c.command_id].default_args, c.params)
  IN  IF c.device_id = "system_io"
           /\ ~ io_channel_has_mode(number_of(args["channel"]), "output")
      THEN "io_mode" ELSE ""

execution_fault(c, fault) ==
  CASE fault # "" -> fault
    [] fault = "" /\ ~ scenario_allowed(c.device_id, c.command_id) ->
         "device_command_scenario_disabled"
    [] OTHER -> hardware_fault(c)

dispatch_scenario_command ==
  /\ report # None /\ report.errors = {}
  /\ \E c \in run_commands(stored) :
       sent' = [command |-> c,
                fault |-> execution_fault(c, device_command_resolve(devices, c.device_id,
                                                                    c.command_id, c.params))]
  /\ status' = None
  /\ UNCHANGED <<stored, file, devices, io, report, saves>>

(* The environment changes: the report of the last start is out of date.    *)
change_devices ==
  /\ \E d \in DeviceSets \ {devices} : devices' = d
  /\ report' = None /\ sent' = None /\ status' = None
  /\ UNCHANGED <<stored, file, io, saves>>

configure_io ==
  /\ \E m \in IoModes \ {io} : io' = m
  /\ report' = None /\ sent' = None /\ status' = None
  /\ UNCHANGED <<stored, file, devices, saves>>

Next ==
  \/ save_scenario_payload \/ Restart \/ scenario_start
  \/ dispatch_scenario_command \/ change_devices \/ configure_io

Spec == Init /\ [][Next]_vars

(* ------------------------------ properties ------------------------------ *)
(* Fields of a normal branch that only a reactive one uses.                 *)
Relevant(sc) ==
  [sc EXCEPT !.branches = [i \in DOMAIN sc.branches |->
     IF sc.branches[i].type = "reactive" THEN sc.branches[i]
     ELSE [sc.branches[i] EXCEPT !.cooldown_ms = 0, !.max_fire_count = 0, !.run_once = FALSE,
                                 !.policy_mode = "single", !.reentry_mode = "ignore"]]]

Reproduces(sc) == sc.ok /\ Relevant(sc) = Relevant(stored) /\ to_json(sc) = file

(* The store's file is read back into the scenario that was saved, and      *)
(* writing that again changes nothing: no accepted document loses or changes *)
(* a field between room_scenario_to_json and room_scenario_from_json, and   *)
(* every scenario the structural validator lets through also has a report   *)
(* without structural errors.                                               *)
SavedReloads ==
  stored # None =>
    /\ Reproduces(from_json(file))
    /\ validate_static_report(stored) = {}

(* In an environment that has not changed since a start that found no error, *)
(* every command the run sends is found, enabled, has acceptable parameters *)
(* and an IO channel that can be driven: the start's checks, with their     *)
(* cache, miss none of them.  The device is among the ones the room's view  *)
(* collects from the scenario to show their faults.                         *)
ValidatedResolves ==
  sent # None =>
    /\ sent.fault \in {"", "device_command_scenario_disabled"}
    /\ sent.command.device_id \in collect_device_refs(stored)

(* A scenario that was saved has no command whose parameters the validation *)
(* refuses: "invalid command params are rejected on save instead of being   *)
(* stored and discovered only after start" (docs/CHANGELOG.md:423).         *)
SavedIsValid ==
  status = "saved" => "DEVICE_COMMAND_INVALID" \notin scenario_validate(stored).errors
=============================================================================
