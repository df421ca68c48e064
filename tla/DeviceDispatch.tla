--------------------------- MODULE DeviceDispatch ---------------------------
(* The dispatch owner of scenehub_control: HTTP handlers and the scenario    *)
(* worker queue a request, block, and one task executes the requests in      *)
(* turn (scenehub_control_dispatch.c). A description or an administrative    *)
(* command is published to the device and the owner polls the live table of  *)
(* DeviceIngest for the result of its request id until a deadline.           *)
(*                                                                           *)
(* Devices answer any command they were sent, late or several times, with    *)
(* any status of docs/COMMAND_RESULT_SEMANTICS.md, and a result may break    *)
(* off. Deadlines are a step that is always possible while the owner waits.  *)
EXTENDS DeviceIngest

CONSTANTS Callers,
          QUEUE_LEN,        \* SCENEHUB_CONTROL_DISPATCH_QUEUE_LEN
          MAX_CALLS,        \* bound: requests made
          MAX_MESSAGES,     \* bound: messages devices publish
          Answers,          \* bound: what results say, see Answer
          Reports           \* bound: the other messages devices publish

VARIABLES dispatch_queue,   \* s_dispatch_queue
          caller,           \* caller -> where it is, its request and its outcome
          owner,            \* what s_dispatch_task is doing
          sent_commands,    \* the commands published to devices
          results,          \* the results devices have published
          calls, messages   \* counters of the bounds

dvars == <<dispatch_queue, caller, owner, sent_commands, results, calls, messages>>
dispatch_vars == <<ingest_vars, dvars>>

\* The results have an action of their own, device_result.
ASSUME ReportsAssumption == \A r \in Reports : r.kind \in Kinds \ {"result"}

\* A result: its status, the size of its data, how its scan ends, and the pairs
\* that come before the place where a broken one ends.
Answer(st, size, tail, pairs) ==
  [status |-> st, size |-> size, tail |-> tail, pairs |-> pairs]

Types == {"describe", "admin", "admin_no_result", "command"}
Outcome(st, data) == [status |-> st, data |-> data]
NoOutcome == Outcome("none", NoData)
OwnerIdle == [phase |-> "idle"]

DispatchInit ==
  /\ IngestInit
  /\ dispatch_queue = <<>>
  /\ caller = [c \in Callers |-> [pc |-> "idle", rid |-> 0, out |-> NoOutcome]]
  /\ owner = OwnerIdle
  /\ sent_commands = {} /\ results = {}
  /\ calls = 0 /\ messages = 0

\* A caller prepares its request; the send blocks while the queue is full.
\* Request ids are prefix_<ms>: one per request.
dispatch_call(c, type, d, confirmed) ==
  /\ caller[c].pc = "idle" /\ calls < MAX_CALLS /\ Len(dispatch_queue) < QUEUE_LEN
  /\ dispatch_queue' = Append(dispatch_queue, [c |-> c, id |-> calls + 1, type |-> type, dev |-> d,
                                               confirmed |-> confirmed])
  /\ caller' = [caller EXCEPT ![c] = [pc |-> "waiting", rid |-> 0, out |-> NoOutcome]]
  /\ calls' = calls + 1
  /\ UNCHANGED <<owner, sent_commands, results, messages, ingest_vars>>

\* The answered caller reads its result and returns to its own work.
caller_returns(c) ==
  /\ caller[c].pc = "answered"
  /\ caller' = [caller EXCEPT ![c].pc = "idle"]
  /\ UNCHANGED <<dispatch_queue, owner, sent_commands, results, calls, messages, ingest_vars>>

\* The owner ends its request: the result is written and the caller notified.
reply(out) ==
  /\ owner' = OwnerIdle
  /\ caller' = [caller EXCEPT ![owner.req.c] = [pc |-> "answered", rid |-> owner.rid, out |-> out]]

dispatch_task ==
  /\ owner.phase = "idle" /\ dispatch_queue # <<>>
  /\ owner' = [req |-> Head(dispatch_queue), phase |-> "execute", rid |-> 0, cmd |-> ""]
  /\ dispatch_queue' = Tail(dispatch_queue)
  /\ UNCHANGED <<caller, sent_commands, results, calls, messages, ingest_vars>>

Executing(types) == owner.phase = "execute" /\ owner.req.type \in types

\* The command of the request is sent to its device.
send(cmd) ==
  sent_commands' = sent_commands \cup {[dev |-> owner.req.dev, rid |-> owner.req.id, cmd |-> cmd]}

\* It is sent, and the owner starts to poll for its result.
publish(cmd) ==
  /\ send(cmd)
  /\ owner' = [owner EXCEPT !.phase = "wait", !.rid = owner.req.id, !.cmd = cmd]
  /\ UNCHANGED caller

publish_describe_interface ==
  /\ Executing({"describe"})
  /\ \/ publish("describe_interface")
     \/ reply(Outcome("failed", NoData)) /\ UNCHANGED sent_commands
  /\ UNCHANGED <<dispatch_queue, results, calls, messages, ingest_vars>>

\* The template may ask for a confirmation; an unknown or silent device is
\* offline (is_online compares the time of its last message with the window).
admin_refused ==
  /\ Executing({"admin", "admin_no_result"})
  /\ \/ ~owner.req.confirmed /\ reply(Outcome("rejected", NoData))
     \/ reply(Outcome("failed", NoData))
  /\ UNCHANGED <<dispatch_queue, sent_commands, results, calls, messages, ingest_vars>>

publish_admin_command ==
  /\ Executing({"admin"})
  /\ find_slot(owner.req.dev) # {}
  /\ publish("admin")
  /\ UNCHANGED <<dispatch_queue, results, calls, messages, ingest_vars>>

publish_without_result ==
  /\ Executing({"admin_no_result"})
  /\ find_slot(owner.req.dev) # {}
  /\ send("admin")
  /\ reply(Outcome("accepted", NoData))
  /\ UNCHANGED <<dispatch_queue, results, calls, messages, ingest_vars>>

\* A device command is resolved and handed to the executor: this dispatch does
\* not wait for the device.
execute_device_command ==
  /\ Executing({"command"})
  /\ \/ send("command") /\ reply(Outcome("accepted", NoData))
     \/ ~owner.req.confirmed /\ reply(Outcome("rejected", NoData)) /\ UNCHANGED sent_commands
     \/ reply(Outcome("failed", NoData)) /\ UNCHANGED sent_commands
  /\ UNCHANGED <<dispatch_queue, results, calls, messages, ingest_vars>>

\* What the table holds is the result of the request the owner waits for.
Answered(s) == "result" \in s.has /\ s.rid = owner.rid /\ s.cmd = owner.cmd

IsPending(st) == st = "accepted"
IsSuccess(st) == st \in {"ok", "done"}

\* A poll that finds the end of a description: success goes on to take its
\* data, every other status is a rejection.
poll_describe_interface ==
  /\ owner.phase = "wait" /\ owner.cmd = "describe_interface"
  /\ \E i \in find_slot(owner.req.dev) :
       LET s == dci_slots[i]
       IN /\ Answered(s) /\ ~IsPending(s.status)
          /\ IF IsSuccess(s.status)
             THEN owner' = [owner EXCEPT !.phase = "take"] /\ UNCHANGED caller
             ELSE reply(Outcome("rejected", NoData))
  /\ UNCHANGED <<dispatch_queue, sent_commands, results, calls, messages, ingest_vars>>

\* The same for an administrative command: data that fits comes with the slot.
poll_admin_command ==
  /\ owner.phase = "wait" /\ owner.cmd = "admin"
  /\ \E i \in find_slot(owner.req.dev) :
       LET s == dci_slots[i]
       IN /\ Answered(s) /\ ~IsPending(s.status)
          /\ IF IsSuccess(s.status) /\ s.data = NoData
             THEN owner' = [owner EXCEPT !.phase = "take"] /\ UNCHANGED caller
             ELSE reply(IF IsSuccess(s.status) THEN Outcome("done", s.data)
                        ELSE IF s.status = "rejected" THEN Outcome("rejected", NoData)
                        ELSE Outcome("failed", NoData))
  /\ UNCHANGED <<dispatch_queue, sent_commands, results, calls, messages, ingest_vars>>

\* A lock section of its own: the cached data of the request, if it is there.
\* A description without data is a failure, an administrative result is not.
take_data ==
  LET found == take_result_data(<<owner.req.dev, owner.rid, owner.cmd>>)
  IN /\ owner.phase = "take"
     /\ \/ /\ found = {}
           /\ dci_cache' = dci_cache
           /\ reply(Outcome(IF owner.cmd = "admin" THEN "done" ELSE "failed", NoData))
        \/ \E i \in found :
             /\ dci_cache' = [dci_cache EXCEPT ![i] = UnusedEntry]
             /\ reply(Outcome("done", dci_cache[i].data))
     /\ UNCHANGED <<dci_slots, generation, last_changed, outbox, posted>>
     /\ UNCHANGED <<dispatch_queue, sent_commands, results, calls, messages>>

poll_deadline ==
  /\ owner.phase = "wait"
  /\ reply(Outcome("timeout", NoData))
  /\ UNCHANGED <<dispatch_queue, sent_commands, results, calls, messages, ingest_vars>>

\* The keys and values of a result, as far as they come.
Payload(k, a) ==
  LET all == [request_id |-> k.rid, command |-> k.cmd, status |-> a.status, data |-> a.size]
  IN IF a.tail = "whole" THEN all ELSE [key \in a.pairs \cap DOMAIN all |-> all[key]]

\* A device publishes a result of a command it was sent.
device_result(t, k, a) ==
  /\ messages < MAX_MESSAGES
  /\ messages' = messages + 1
  /\ results' = results \cup
       {[dev |-> k.dev, rid |-> k.rid, size |-> a.size,
         status |-> IF a.tail = "whole" THEN normalize(a.status) ELSE "broken"]}
  /\ handle_mqtt(t, [kind |-> "result", dev |-> k.dev, tail |-> a.tail, f |-> Payload(k, a)],
                 messages)
  /\ UNCHANGED <<dispatch_queue, caller, owner, sent_commands, calls>>

\* A device publishes anything else.
device_report(t, d, r) ==
  /\ messages < MAX_MESSAGES
  /\ messages' = messages + 1
  /\ handle_mqtt(t, [kind |-> r.kind, dev |-> d, tail |-> r.tail, f |-> r.f], messages)
  /\ UNCHANGED <<dispatch_queue, caller, owner, sent_commands, results, calls>>

post_event(t) == post(t) /\ UNCHANGED dvars

OwnerStep ==
  \/ dispatch_task \/ publish_describe_interface
  \/ admin_refused \/ publish_admin_command \/ publish_without_result
  \/ execute_device_command
  \/ poll_describe_interface \/ poll_admin_command \/ take_data \/ poll_deadline

DispatchNext ==
  \/ \E c \in Callers, type \in Types, d \in Devices, y \in BOOLEAN : dispatch_call(c, type, d, y)
  \/ \E c \in Callers : caller_returns(c)
  \/ OwnerStep
  \/ \E t \in ClientTasks, k \in sent_commands, a \in Answers : device_result(t, k, a)
  \/ \E t \in ClientTasks, d \in Devices, r \in Reports : device_report(t, d, r)
  \/ \E t \in ClientTasks : post_event(t)

DispatchSpec == DispatchInit /\ [][DispatchNext]_dispatch_vars

\* Two tasks, late and repeated results, a shared table and a shared cache: the
\* success and the data a caller gets, and every result event the hub posts, are
\* what a device sent for that very request. One exception is the code's: a
\* result that breaks off has already put its id over the status of the result
\* before it (the status is written last), so a caller may be told the success
\* of that one, but never its data, and no event announces it.
ResultsAreOwn ==
  /\ \A c \in Callers :
       LET x == caller[c]
       IN x.out.status = "done" =>
            /\ \E r \in results : r.rid = x.rid /\ r.status \in {"done", "broken"}
            /\ x.out.data # NoData =>
                 \E r \in results : r.rid = x.rid /\ x.out.data = [size |-> r.size, rid |-> x.rid]
  /\ \A e \in posted :
       \E r \in results : r.rid = e.id /\ r.dev = e.dev /\ r.status = e.what

\* docs/COMMAND_RESULT_SEMANTICS.md: "controller/runtime treats both `started`
\* and `accepted` as pending states", so a caller who waited for a device is
\* told of a rejection or a failure only when the device sent one.  The code
\* does not keep this: a started report ends the wait as a failure.
StartedIsPending ==
  \A c \in Callers :
    LET x == caller[c]
    IN x.rid # 0 /\ x.out.status \in {"rejected", "failed"} =>
         \E r \in results : r.rid = x.rid /\ r.status \notin {"accepted", "started"}
=============================================================================
