---------------------------- MODULE DeviceIngest ----------------------------
(* The hub's live table of devices (components/device_control_ingest).       *)
(* Client tasks of the broker hand over what devices publish under           *)
(* cp/v1/dev/<id>/<kind>. A message is applied to the device's slot under    *)
(* one lock, a copy of what its events need is taken under the same lock,    *)
(* and the events are posted after it is released.                           *)
(*                                                                           *)
(* A payload is the function of the keys it carries, restricted to values of *)
(* the type the field wants (the scanner skips any other value), with a tail *)
(* that says how the scan ended: "whole", "broken" (a malformed pair after   *)
(* these, or text after the object) or "none" (not an object). The data of a *)
(* result is its size class: the fixed 2 KB buffer holds "small", the        *)
(* allocated cache entry holds "large", nothing holds "huge".                *)
EXTENDS Naturals, Sequences

CONSTANTS Devices,
          ClientTasks,      \* the tasks that hand over messages
          MAX_DEVICES,      \* DEVICE_CONTROL_INGEST_MAX_DEVICES
          CACHE_MAX         \* DCI_DESCRIBE_INTERFACE_CACHE_MAX

VARIABLES dci_slots,        \* dci_s_slots: index -> state of a device
          dci_cache,        \* dci_s_describe_interface_cache: index -> entry
          generation,       \* dci_s_generation
          last_changed,     \* dci_s_last_changed_device_id
          outbox,           \* task -> events it has still to post
          posted            \* the result events handed to the event bus

ingest_vars == <<dci_slots, dci_cache, generation, last_changed, outbox, posted>>

Kinds == {"heartbeat", "status", "diag", "result", "event"}
SlotIndexes == 1 .. MAX_DEVICES
CacheIndexes == 1 .. CACHE_MAX

\* Request ids are numbers, 0 for an empty one.
NoData == [size |-> "none", rid |-> 0]

EmptyState(d) ==
  [in_use |-> TRUE, dev |-> d, has |-> {}, boot |-> "", state |-> "", health |-> "",
   active |-> FALSE, nfc |-> "", diag |-> "", rid |-> 0, cmd |-> "",
   status |-> "", err |-> "", data |-> NoData, name |-> ""]

UnusedSlot == [EmptyState("") EXCEPT !.in_use = FALSE]
UnusedEntry == [in_use |-> FALSE, key |-> <<"", 0, "">>, data |-> NoData, rx |-> 0]

IngestInit ==
  /\ dci_slots = [i \in SlotIndexes |-> UnusedSlot]
  /\ dci_cache = [i \in CacheIndexes |-> UnusedEntry]
  /\ generation = 0 /\ last_changed = ""
  /\ outbox = [t \in ClientTasks |-> <<>>]
  /\ posted = {}

\* What the pair scanner leaves in a field: the value of its key, or the old one.
Update(old, f, key) == IF key \in DOMAIN f THEN f[key] ELSE old

\* The scan reached the end of the object and nothing follows it.
Consumed(m) == m.tail = "whole"

\* The first index of a set, as a set of at most one
First(S) == {i \in S : \A j \in S : i <= j}

find_slot(d) == First({i \in SlotIndexes : dci_slots[i].in_use /\ dci_slots[i].dev = d})

alloc_slot(d) ==
  IF find_slot(d) # {} THEN find_slot(d)
  ELSE First({i \in SlotIndexes : ~dci_slots[i].in_use})

\* Where new data goes: the entry of the same request, a free one, the oldest.
cache_entry(key) ==
  LET same == {i \in CacheIndexes : dci_cache[i].in_use /\ dci_cache[i].key = key}
      free == {i \in CacheIndexes : ~dci_cache[i].in_use}
      old  == {i \in CacheIndexes : \A j \in CacheIndexes : dci_cache[i].rx <= dci_cache[j].rx}
  IN First(IF same # {} THEN same ELSE IF free # {} THEN free ELSE old)

store_result_data(key, data, rx) ==
  \E i \in cache_entry(key) :
    dci_cache' = [dci_cache EXCEPT ![i] = [in_use |-> TRUE, key |-> key, data |-> data, rx |-> rx]]

normalize(st) == IF st = "ok" THEN "done" ELSE IF st = "error" THEN "failed" ELSE st

apply_heartbeat(s, m) ==
  [s EXCEPT !.has = @ \cup {"heartbeat"}, !.boot = Update(@, m.f, "boot_id")]

\* The driver fields are cleared first, then read from runtime.drivers.
apply_runtime_driver_fields(s, m) == [s EXCEPT !.nfc = Update("", m.f, "nfc_reader")]

apply_status(s, m) ==
  [apply_runtime_driver_fields(s, m) EXCEPT
     !.has = @ \cup {"status"},
     !.boot = Update(@, m.f, "boot_id"),
     !.state = Update(@, m.f, "state"),
     !.health = Update(@, m.f, "health"),
     !.active = Update(@, m.f, "active")]

apply_diag(s, m) == [s EXCEPT !.has = @ \cup {"diag"}, !.diag = Update(@, m.f, "code")]

\* The id and the command are written pair by pair; the status and the data
\* only once the whole object was read.
result_fields(s, m) ==
  [s EXCEPT !.has = @ \cup {"result"},
            !.err = Update("", m.f, "error_code"),
            !.data = NoData,
            !.rid = Update(@, m.f, "request_id"),
            !.cmd = Update(@, m.f, "command")]

result_data(m) == [size |-> Update("none", m.f, "data"), rid |-> Update(0, m.f, "request_id")]

\* A description always goes to the cache. Other data goes to the slot: when it
\* does not fit, the copy reports an invalid argument and the result is refused.
apply_result(s, m) ==
  LET r == [result_fields(s, m) EXCEPT !.status = normalize(Update("", m.f, "status"))]
      d == result_data(m)
  IN IF r.cmd # "describe_interface" /\ d.size = "small" THEN [r EXCEPT !.data = d] ELSE r

result_accepted(s, m) ==
  LET cmd == Update(s.cmd, m.f, "command")
      size == result_data(m).size
  IN IF cmd = "describe_interface" THEN size \in {"none", "small", "large"}
                                   ELSE size \in {"none", "small"}

apply_event(s, m) ==
  [s EXCEPT !.has = @ \cup {"event"}, !.name = Update("", m.f, "event")]

applied(s, m) ==
  IF m.tail = "none" THEN s
  ELSE CASE m.kind = "heartbeat" -> apply_heartbeat(s, m)
         [] m.kind = "status"    -> apply_status(s, m)
         [] m.kind = "diag"      -> apply_diag(s, m)
         [] m.kind = "event"     -> apply_event(s, m)
         [] m.kind = "result"    -> IF Consumed(m) THEN apply_result(s, m)
                                    ELSE result_fields(s, m)

accepted(s, m) ==
  /\ Consumed(m)
  /\ m.kind = "result" => result_accepted(s, m)
  /\ m.kind = "event" => Update("", m.f, "event") # ""

status_event(s)  == [kind |-> "status", dev |-> s.dev, what |-> s.state, health |-> s.health]
runtime_event(s) == [kind |-> "runtime", dev |-> s.dev, what |-> s.state, active |-> s.active]

\* A result without an id of its own is announced under its command.
control_event(s, is_event) ==
  IF is_event THEN [kind |-> "event", dev |-> s.dev, what |-> s.name]
  ELSE [kind |-> "result", dev |-> s.dev, id |-> IF s.rid # 0 THEN s.rid ELSE s.cmd,
        what |-> s.status]

capture_event_snapshot(s, kind) ==
  IF kind = "status" THEN <<status_event(s), runtime_event(s)>>
  ELSE IF kind \in {"heartbeat", "diag"} THEN <<status_event(s)>>
  ELSE <<control_event(s, kind = "event")>>

\* Task t applies message m at time rx. A full table refuses the message; a
\* refused payload has still claimed a slot and written what came before.
handle_mqtt(t, m, rx) ==
  /\ outbox[t] = <<>>
  /\ \E i \in alloc_slot(m.dev) :
       LET s == IF dci_slots[i].in_use THEN dci_slots[i] ELSE EmptyState(m.dev)
           n == applied(s, m)
           ok == accepted(s, m)
       IN /\ dci_slots' = [dci_slots EXCEPT ![i] = n]
          /\ IF ok /\ m.kind = "result" /\ n.cmd = "describe_interface"
                /\ result_data(m).size # "none"
             THEN store_result_data(<<m.dev, n.rid, n.cmd>>, result_data(m), rx)
             ELSE dci_cache' = dci_cache
          /\ outbox' = [outbox EXCEPT ![t] = IF ok THEN capture_event_snapshot(n, m.kind)
                                             ELSE <<>>]
          /\ generation' = IF ok /\ m.kind # "heartbeat" THEN generation + 1 ELSE generation
          /\ last_changed' = IF ok /\ m.kind # "heartbeat" THEN m.dev ELSE last_changed
  /\ UNCHANGED posted

\* The next event of task t reaches the bus, or is lost because the bus is full.
post(t) ==
  /\ outbox[t] # <<>>
  /\ outbox' = [outbox EXCEPT ![t] = Tail(@)]
  /\ \/ posted' = posted \cup {e \in {Head(outbox[t])} : e.kind = "result"}
     \/ posted' = posted
  /\ UNCHANGED <<dci_slots, dci_cache, generation, last_changed>>

\* Mutant: the request id is not compared.
take_any_request(key) ==
  First({i \in CacheIndexes : /\ dci_cache[i].in_use
                              /\ dci_cache[i].key[1] = key[1] /\ dci_cache[i].key[3] = key[3]})

\* The data of a request is handed out once.
take_result_data(key) ==
  First({i \in CacheIndexes : dci_cache[i].in_use /\ dci_cache[i].key = key})
=============================================================================
