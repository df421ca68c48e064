----------------------------- MODULE HubStores -----------------------------
(* The five stores of the controller: quest devices, rooms, scenarios, game  *)
(* profiles and sidebar presets. Each is a table in RAM with a lock and one    *)
(* JSON file (the generations are in HubNotify), and all save the same way: *)
(* the table goes to <path>.tmp, the old file is removed, the new renamed.  *)
(*                                                                           *)
(* All writes come from the one HTTP task, one request at a time. Power may  *)
(* fail between any two file operations, and any of them may fail. At boot   *)
(* the files are read back (the presets at their first use).                 *)
(*                                                                           *)
(* A table is a function from the ids in use to entries; `whole` stands for  *)
(* the fields an entry must have. A file is the table it was written from    *)
(* (what JSON keeps of a scenario is the subject of ScenarioStore), or Torn  *)
(* when the writing stopped half way. Heap exhaustion and the sizes of files *)
(* are left out.                                                             *)
EXTENDS Integers, Sequences, FiniteSets, SequencesExt

CONSTANTS Nothing,           \* no file, no store, no room
          Torn,              \* a file written in part
          RoomIds, DeviceIds, Clients, ScenarioIds, ProfileIds, PresetIds,
          SystemDevice,      \* QUEST_DEVICE_SYSTEM_..._ID
          DefaultRoom,       \* "unassigned"
          MAX,               \* store -> entries it holds at most
          FirstCards,        \* what the card may hold at the first start
          MAX_LIST,          \* bound: entries of an imported list
          MAX_REQUESTS,      \* bound: requests served
          MAX_DISK_FAULTS    \* bound: failing file operations and power losses

VARIABLES ram,        \* store -> its table
          file,       \* store -> [main, tmp], each Nothing, Torn or a table
          manual,     \* devices whose command may be used by hand
          loaded,     \* s_sidebar_presets_loaded
          boot,       \* stores still to load at boot
          serving,    \* what the HTTP task is doing
          result,     \* how the last request ended
          requests, faults

store_vars == <<ram, file, manual, loaded, boot, serving, result, requests, faults>>

StoreOrder == <<"devices", "rooms", "scenarios", "profiles">>
Stores == {"devices", "rooms", "scenarios", "profiles", "presets"}
Empty == [x \in {} |-> 0]

\* What the HTTP task is doing: the step of the save of store k, what comes
\* after the save (the answer, the contents of a deleted room, the next of
\* them), the entries of the room still to delete, and the store to answer for.
Doing(pc, k, after, room, todo, first) ==
  [pc |-> pc, k |-> k, after |-> after, room |-> room, todo |-> todo, first |-> first]
NoRequest == Doing("idle", Nothing, "answer", Nothing, <<>>, Nothing)
NoResult == [status |-> "none", k |-> Nothing]

Put(t, id, e) == [x \in DOMAIN t \cup {id} |-> IF x = id THEN e ELSE t[x]]
Drop(t, id) == [x \in DOMAIN t \ {id} |-> t[x]]
\* A list of <<id, entry>> as a table.
TableOf(list) == [x \in {list[i][1] : i \in 1..Len(list)} |->
                    list[CHOOSE i \in 1..Len(list) : list[i][1] = x][2]]
Distinct(list) == \A i, j \in 1..Len(list) : i # j => list[i][1] # list[j][1]

Accepted(t) == [err |-> "ok", table |-> t]
Error(e, t) == [err |-> e, table |-> t]

-----------------------------------------------------------------------------
(* Game profiles *)

gm_game_profile_valid(p) == p.whole

gm_game_profile_upsert(t, id, p) ==
  IF ~gm_game_profile_valid(p) THEN Error("arg", t)
  ELSE IF id \notin DOMAIN t /\ Cardinality(DOMAIN t) >= MAX["profiles"] THEN Error("no_mem", t)
  ELSE Accepted(Put(t, id, p))

gm_game_profile_delete(t, id) ==
  IF id \in DOMAIN t THEN Accepted(Drop(t, id)) ELSE Error("not_found", t)

gm_game_profile_list_by_room(t, r) == {id \in DOMAIN t : t[id].room = r}

\* The room exists and the scenario is one of this room's.
gm_game_profile_validate_reference(p) ==
  CASE ~gm_game_profile_valid(p) -> "arg"
    [] p.room \notin DOMAIN ram["rooms"] -> "not_found"
    [] p.scenario \notin DOMAIN ram["scenarios"] -> "not_found"
    [] ram["scenarios"][p.scenario].room # p.room -> "state"
    [] OTHER -> "ok"

\* Every entry parses and no id comes twice; then the table is replaced.
gm_game_profile_import_json(t, list) ==
  IF Len(list) > MAX["profiles"] THEN Error("size", t)
  ELSE IF \E i \in 1..Len(list) : ~gm_game_profile_valid(list[i][2]) THEN Error("arg", t)
  ELSE IF ~Distinct(list) THEN Error("arg", t)
  ELSE Accepted(TableOf(list))

-----------------------------------------------------------------------------
(* Rooms *)

room_catalog_upsert(t, id, e) ==
  IF ~e.whole THEN Error("arg", t)
  ELSE IF id \notin DOMAIN t /\ Cardinality(DOMAIN t) >= MAX["rooms"] THEN Error("no_mem", t)
  ELSE Accepted(Put(t, id, e))

room_catalog_delete(t, id) ==
  IF id = DefaultRoom THEN Error("arg", t)
  ELSE IF id \in DOMAIN t THEN Accepted(Drop(t, id)) ELSE Error("not_found", t)

room_catalog_import_json(t, list) ==
  IF Len(list) > MAX["rooms"] \/ (\E i \in 1..Len(list) : ~list[i][2].whole) \/ ~Distinct(list)
  THEN Error("arg", t)
  ELSE Accepted(TableOf(list))

-----------------------------------------------------------------------------
(* Scenarios *)

\* `whole` here: room_scenario_validate_structural accepts it.
room_scenario_add(t, id, s) ==
  IF ~s.whole THEN Error("arg", t)
  ELSE IF id \notin DOMAIN t /\ Cardinality(DOMAIN t) >= MAX["scenarios"] THEN Error("no_mem", t)
  ELSE Accepted(Put(t, id, s))

room_scenario_delete(t, id) ==
  IF id \in DOMAIN t THEN Accepted(Drop(t, id)) ELSE Error("not_found", t)

room_scenario_list_by_room(t, r) == {id \in DOMAIN t : t[id].room = r}

room_scenario_store_import_json(t, list) ==
  IF Len(list) > MAX["scenarios"] THEN Error("size", t)
  ELSE IF (\E i \in 1..Len(list) : ~list[i][2].whole) \/ ~Distinct(list) THEN Error("arg", t)
  ELSE Accepted(TableOf(list))

-----------------------------------------------------------------------------
(* Quest devices *)

qd_device_valid(id, d) == d.whole /\ id # SystemDevice

qd_client_id_in_use(t, client, except) ==
  \E id \in DOMAIN t \ {except} : t[id].client = client

\* Mutant: two devices may have one client id.
quest_device_upsert_shared_client(t, id, d) ==
  IF ~qd_device_valid(id, d) THEN Error("arg", t)
  ELSE IF id \notin DOMAIN t /\ Cardinality(DOMAIN t) >= MAX["devices"] THEN Error("no_mem", t)
  ELSE Accepted(Put(t, id, d))

quest_device_upsert(t, id, d) ==
  IF ~qd_device_valid(id, d) \/ qd_client_id_in_use(t, d.client, id) THEN Error("arg", t)
  ELSE IF id \notin DOMAIN t /\ Cardinality(DOMAIN t) >= MAX["devices"] THEN Error("no_mem", t)
  ELSE Accepted(Put(t, id, d))

quest_device_delete(t, id) ==
  IF id = SystemDevice THEN Error("arg", t)
  ELSE IF id \in DOMAIN t THEN Accepted(Drop(t, id)) ELSE Error("not_found", t)

\* Neither an id nor a client id may come twice.
quest_device_replace_all(t, list) ==
  IF \/ Len(list) > MAX["devices"]
     \/ \E i \in 1..Len(list) : ~qd_device_valid(list[i][1], list[i][2])
     \/ ~Distinct(list)
     \/ \E i, j \in 1..Len(list) : i # j /\ list[i][2].client = list[j][2].client
  THEN Error("arg", t)
  ELSE Accepted(TableOf(list))

-----------------------------------------------------------------------------
(* Sidebar presets *)

\* A preset of a device that is gone is accepted; one whose command resolves
\* and is not meant to be used by hand is not.
gm_sidebar_preset_validate_one(p) ==
  /\ p.whole
  /\ p.device \in DOMAIN ram["devices"] => p.device \in manual

gm_sidebar_preset_import_json(t, list) ==
  IF Len(list) > MAX["presets"] THEN Error("size", t)
  ELSE IF \E i \in 1..Len(list) : ~gm_sidebar_preset_validate_one(list[i][2]) THEN Error("arg", t)
  ELSE IF ~Distinct(list) THEN Error("arg", t)
  ELSE Accepted(TableOf(list))

-----------------------------------------------------------------------------
(* Requests *)

upsert(k, id, e) ==
  CASE k = "devices" -> quest_device_upsert(ram[k], id, e)
    [] k = "rooms" -> room_catalog_upsert(ram[k], id, e)
    [] k = "scenarios" -> room_scenario_add(ram[k], id, e)
    [] k = "profiles" -> IF gm_game_profile_validate_reference(e) # "ok"
                         THEN Error(gm_game_profile_validate_reference(e), ram[k])
                         ELSE gm_game_profile_upsert(ram[k], id, e)

delete(k, id) ==
  CASE k = "devices" -> quest_device_delete(ram[k], id)
    [] k = "rooms" -> room_catalog_delete(ram[k], id)
    [] k = "scenarios" -> room_scenario_delete(ram[k], id)
    [] k = "profiles" -> gm_game_profile_delete(ram[k], id)

import(k, list) ==
  CASE k = "devices" -> quest_device_replace_all(ram[k], list)
    [] k = "rooms" -> room_catalog_import_json(ram[k], list)
    [] k = "scenarios" -> room_scenario_store_import_json(ram[k], list)
    [] k = "profiles" -> gm_game_profile_import_json(ram[k], list)
    [] k = "presets" -> gm_sidebar_preset_import_json(ram[k], list)

\* scenehub_control_fill_common_error
status_of(err) ==
  CASE err = "ok" -> "done"
    [] err \in {"arg", "not_found", "state"} -> "rejected"
    [] OTHER -> "failed"

\* k: the store the request saved or read, or Nothing.
Answer(k, err) == result' = [status |-> status_of(err), k |-> k]

BeginRequest == boot = <<>> /\ serving = NoRequest /\ requests < MAX_REQUESTS /\ requests' = requests + 1

\* Applied to RAM under the store's lock; what was accepted is saved next.
Apply(k, out) == ram' = [ram EXCEPT ![k] = out.table]

Request(k, out) ==
  /\ BeginRequest
  /\ Apply(k, out)
  /\ IF out.err = "ok"
     THEN serving' = Doing("open", k, "answer", Nothing, <<>>, Nothing) /\ result' = NoResult
     ELSE serving' = NoRequest /\ Answer(k, out.err)
  /\ UNCHANGED <<file, manual, loaded, boot, faults>>

Candidates(k) ==
  CASE k = "devices" -> [client : Clients, whole : BOOLEAN]
    [] k = "rooms" -> [whole : BOOLEAN]
    [] k = "scenarios" -> [room : RoomIds, whole : BOOLEAN]
    [] k = "profiles" -> [room : RoomIds, scenario : ScenarioIds, whole : BOOLEAN]
    [] k = "presets" -> [device : DeviceIds, whole : BOOLEAN]
IdsOf(k) ==
  CASE k = "devices" -> DeviceIds \cup {SystemDevice}
    [] k = "rooms" -> RoomIds \cup {DefaultRoom}
    [] k = "scenarios" -> ScenarioIds
    [] k = "profiles" -> ProfileIds
    [] OTHER -> PresetIds

\* A table a store may hold: not larger than the store, whole entries, and of
\* devices neither the built-in one nor two with one client id.
Tables(k) == UNION {[ids -> Candidates(k)] : ids \in SUBSET IdsOf(k)}
Fits(k, t) ==
  /\ Cardinality(DOMAIN t) <= MAX[k]
  /\ \A id \in DOMAIN t : t[id].whole
  /\ k = "devices" => /\ SystemDevice \notin DOMAIN t
                      /\ \A i, j \in DOMAIN t : i # j => t[i].client # t[j].client

\* The ids are finite sets (buffers of a fixed length), a card was written by
\* this firmware or is new, and a missing or torn file is no table.
ASSUME StoresAssumption ==
  /\ \A k \in Stores : /\ IsFiniteSet(IdsOf(k)) /\ MAX[k] \in Nat
                       /\ Nothing \notin Tables(k) /\ Torn \notin Tables(k)
  /\ Nothing \notin Stores
  /\ \A card \in FirstCards, k \in Stores :
       card[k] = Nothing \/ (card[k] \in Tables(k) /\ Fits(k, card[k]))
  /\ MAX_LIST \in Nat

Save(k) == \E id \in IdsOf(k), e \in Candidates(k) : Request(k, upsert(k, id, e))
Delete(k) == \E id \in IdsOf(k) : Request(k, delete(k, id))
Import(k) == \E n \in 0..MAX_LIST : \E list \in [1..n -> IdsOf(k) \X Candidates(k)] : Request(k, import(k, list))
StoreSave(k) == Request(k, Accepted(ram[k]))

\* The requests, each ..._and_save of its store.
save_device == Save("devices")
save_room == Save("rooms")
save_scenario == Save("scenarios")
save_profile == Save("profiles")
delete_device == Delete("devices")
delete_scenario == Delete("scenarios")
delete_profile == Delete("profiles")
import_devices == Import("devices")
import_scenarios == Import("scenarios")
import_profiles == Import("profiles")
save_sidebar_presets == Import("presets")
save_devices_store == StoreSave("devices")
save_scenarios_store == StoreSave("scenarios")
save_profiles_store == StoreSave("profiles")

\* scenehub_control_delete_room: the room, then every profile and scenario
\* listed for it, each with a save of its own.
RoomContents(r) ==
  [i \in 1..Cardinality(gm_game_profile_list_by_room(ram["profiles"], r)) |->
     <<"profiles", SetToSeq(gm_game_profile_list_by_room(ram["profiles"], r))[i]>>]
  \o [i \in 1..Cardinality(room_scenario_list_by_room(ram["scenarios"], r)) |->
     <<"scenarios", SetToSeq(room_scenario_list_by_room(ram["scenarios"], r))[i]>>]

delete_room(r) ==
  LET out == delete("rooms", r)
  IN /\ BeginRequest
     /\ Apply("rooms", out)
     /\ serving' = CASE out.err = "ok" -> Doing("open", "rooms", "contents", r, <<>>, Nothing)
                [] out.err = "not_found" -> Doing("next", Nothing, "next", Nothing, RoomContents(r), Nothing)
                [] OTHER -> NoRequest
     /\ IF out.err \in {"ok", "not_found"} THEN result' = NoResult ELSE Answer("rooms", out.err)
     /\ UNCHANGED <<file, manual, loaded, boot, faults>>

\* The next of the room's entries; whether its save worked is not asked.
delete_next ==
  /\ serving.pc = "next"
  /\ IF serving.todo = <<>>
     THEN /\ serving' = NoRequest /\ Answer(serving.first, "ok")
          /\ UNCHANGED ram
     ELSE LET k == serving.todo[1][1]
              out == delete(k, serving.todo[1][2])
          IN /\ Apply(k, out)
             /\ serving' = [serving EXCEPT !.pc = "open", !.k = k, !.todo = Tail(@)]
             /\ UNCHANGED result
  /\ UNCHANGED <<file, manual, loaded, boot, requests, faults>>

-----------------------------------------------------------------------------
(* Saving *)

\* What follows a save that ended with err.
Saved(err) ==
  CASE serving.after = "next" ->
         serving' = [serving EXCEPT !.pc = "next", !.k = Nothing] /\ UNCHANGED result
    [] serving.after = "contents" /\ err = "ok" ->
         serving' = Doing("next", Nothing, "next", Nothing, RoomContents(serving.room), "rooms") /\ UNCHANGED result
    [] OTHER -> serving' = NoRequest /\ Answer(serving.k, err)

Fault == faults < MAX_DISK_FAULTS /\ faults' = faults + 1

Rest == UNCHANGED <<ram, manual, loaded, boot, requests>>

\* The card is mounted, the directory made, the temporary file opened.
save_open ==
  /\ serving.pc = "open"
  /\ \/ /\ file' = [file EXCEPT ![serving.k].tmp = Torn]
        /\ serving' = [serving EXCEPT !.pc = "write"]
        /\ UNCHANGED <<result, faults>>
     \/ Fault /\ UNCHANGED file /\ Saved("fail")
  /\ Rest

save_write ==
  /\ serving.pc = "write"
  /\ \/ /\ file' = [file EXCEPT ![serving.k].tmp = ram[serving.k]]
        /\ serving' = [serving EXCEPT !.pc = "unlink"]
        /\ UNCHANGED <<result, faults>>
     \/ Fault /\ file' = [file EXCEPT ![serving.k].tmp = Nothing] /\ Saved("fail")
  /\ Rest

save_unlink ==
  /\ serving.pc = "unlink"
  /\ file' = [file EXCEPT ![serving.k].main = Nothing]
  /\ serving' = [serving EXCEPT !.pc = "rename"]
  /\ UNCHANGED <<result, faults>>
  /\ Rest

\* Mutant: a failed rename is not reported.
save_rename_unchecked ==
  /\ serving.pc = "rename"
  /\ \/ /\ file' = [file EXCEPT ![serving.k] = [main |-> @.tmp, tmp |-> Nothing]]
        /\ UNCHANGED faults /\ Saved("ok")
     \/ Fault /\ file' = [file EXCEPT ![serving.k].tmp = Nothing] /\ Saved("ok")
  /\ Rest

save_rename ==
  /\ serving.pc = "rename"
  /\ \/ /\ file' = [file EXCEPT ![serving.k] = [main |-> @.tmp, tmp |-> Nothing]]
        /\ UNCHANGED faults /\ Saved("ok")
     \/ Fault /\ file' = [file EXCEPT ![serving.k].tmp = Nothing] /\ Saved("fail")
  /\ Rest

\* The same four steps in every store.
SaveStep(k) == serving.pc \in {"open", "write", "unlink", "rename"} /\ serving.k = k
               /\ (save_open \/ save_write \/ save_unlink \/ save_rename)

quest_device_save_to_path_locked == SaveStep("devices")
room_catalog_save_to_path_locked == SaveStep("rooms")
room_scenario_store_save_to_path_locked == SaveStep("scenarios")
gm_game_profile_save_to_path_locked == SaveStep("profiles")
gm_sidebar_preset_save_to_path_locked == SaveStep("presets")

-----------------------------------------------------------------------------
(* Loading *)

ListOf(t) == [i \in 1..Cardinality(DOMAIN t) |->
                <<SetToSeq(DOMAIN t)[i], t[SetToSeq(DOMAIN t)[i]]>>]

\* load_from_path: a file that is missing or does not parse leaves RAM alone.
load(k) ==
  IF file[k].main = Nothing THEN Error("not_found", ram[k])
  ELSE IF file[k].main = Torn THEN Error("arg", ram[k])
  ELSE import(k, ListOf(file[k].main))

boot_load ==
  /\ boot # <<>>
  /\ Apply(Head(boot), load(Head(boot)))
  /\ boot' = Tail(boot)
  /\ UNCHANGED <<file, manual, loaded, serving, result, requests, faults>>

\* The operator asks for a file again.
LoadRequest(k) ==
  LET out == load(k)
  IN /\ BeginRequest
     /\ Apply(k, out) /\ Answer(k, out.err)
     /\ UNCHANGED <<file, manual, loaded, boot, serving, faults>>

load_devices == LoadRequest("devices")
load_scenarios == LoadRequest("scenarios")
load_profiles == LoadRequest("profiles")
load_sidebar_presets == LoadRequest("presets")

\* gm_sidebar_ensure_loaded, at the first listing of the presets.
ensure_loaded ==
  LET out == load("presets")
  IN /\ BeginRequest /\ ~loaded
     /\ Apply("presets", out)
     /\ loaded' = (out.err \in {"ok", "not_found"})
     /\ Answer(Nothing, IF out.err = "not_found" THEN "ok" ELSE out.err)
     /\ UNCHANGED <<file, manual, boot, serving, faults>>

\* A new description of a device changes what may be used by hand.
describe(d) ==
  /\ BeginRequest
  /\ manual' = IF d \in manual THEN manual \ {d} ELSE manual \cup {d}
  /\ UNCHANGED <<ram, file, loaded, boot, serving, result, faults>>

power_loss ==
  /\ Fault
  /\ ram' = [k \in Stores |-> Empty]
  /\ loaded' = FALSE
  /\ boot' = StoreOrder
  /\ serving' = NoRequest /\ result' = NoResult
  /\ UNCHANGED <<file, manual, requests>>

StoresInit ==
  /\ ram = [k \in Stores |-> Empty]
  /\ \E card \in FirstCards : file = [k \in Stores |-> [main |-> card[k], tmp |-> Nothing]]
  /\ manual = DeviceIds
  /\ loaded = FALSE
  /\ boot = StoreOrder
  /\ serving = NoRequest /\ result = NoResult
  /\ requests = 0 /\ faults = 0

StoresNext ==
  \/ save_device \/ save_room \/ save_scenario \/ save_profile \/ save_sidebar_presets
  \/ delete_device \/ delete_scenario \/ delete_profile
  \/ import_devices \/ import_scenarios \/ import_profiles
  \/ save_devices_store \/ save_scenarios_store \/ save_profiles_store
  \/ load_devices \/ load_scenarios \/ load_profiles \/ load_sidebar_presets
  \/ \E r \in IdsOf("rooms") : delete_room(r)
  \/ delete_next
  \/ quest_device_save_to_path_locked \/ room_catalog_save_to_path_locked
  \/ room_scenario_store_save_to_path_locked \/ gm_game_profile_save_to_path_locked
  \/ gm_sidebar_preset_save_to_path_locked
  \/ boot_load \/ ensure_loaded \/ power_loss
  \/ \E d \in DeviceIds : describe(d)

StoresSpec == StoresInit /\ [][StoresNext]_store_vars

\* What a store wrote it can read again: whatever requests, faults and power
\* losses came before, the file of a store is absent or a complete table that
\* its own import accepts (presets are judged again by the devices of the
\* moment, so they are asked only to be complete), and the table in memory is
\* no larger than the store.
FilesReload ==
  \A k \in Stores :
    /\ DOMAIN ram[k] \subseteq IdsOf(k) /\ Cardinality(DOMAIN ram[k]) <= MAX[k]
    /\ file[k].main # Nothing =>
         /\ file[k].main # Torn
         /\ k # "presets" => import(k, ListOf(file[k].main)) = Accepted(file[k].main)

\* What was acknowledged is on the card: after a request that saved a store
\* and ended well, reading its file gives what the operator sees, also when an
\* earlier save failed half way.
AcknowledgedIsStored ==
  serving = NoRequest /\ boot = <<>> /\ result.status = "done" /\ result.k # Nothing =>
    file[result.k].main = ram[result.k]
=============================================================================
