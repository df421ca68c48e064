----------------------------- MODULE NodeControl ----------------------------
(***************************************************************************)
(* How a command of the hub is carried out on a node.  The MQTT client's   *)
(* callback queues it; the command task takes it, answers a duplicate from *)
(* its cache or hands it to the control task through a request slot and    *)
(* waits for a task notification; the result is published and remembered.  *)
(* Administrative commands go to the admin task, which the local pages use *)
(* too, and are awaited on the same notification.                          *)
(*                                                                         *)
(* A wait may time out at any moment while the reply is not there.         *)
(***************************************************************************)
EXTENDS NodeCommands, SequencesExt

CONSTANTS NODE_CONTROL_QUEUE_LEN,
          NODE_MQTT_COMMAND_QUEUE_LEN,
          NODE_MQTT_ADMIN_QUEUE_LEN,
          NODE_MQTT_RESULT_QUEUE_LEN,
          NODE_MQTT_DUP_CACHE_SIZE,
          NODE_ADMIN_QUEUE_LEN,
          Messages,   \* what the hub sends: [id, command, args, valid, admin, named]
          LocalWork,  \* what the local page asks for, with the same fields
          MAX_SENDS, MAX_LOCAL, MAX_TIMEOUTS, MAX_DROPS \* bounds

\* A request says who waits for its answer; the ids of a page's requests are
\* not the hub's.
ASSUME ControlAssumption ==
    /\ NODE_CONTROL_QUEUE_LEN \in Nat /\ NODE_MQTT_DUP_CACHE_SIZE \in Nat \ {0}
    /\ MAX_SENDS \in Nat /\ MAX_TIMEOUTS \in Nat
    /\ \A m \in Messages \cup LocalWork : {"id", "command", "from"} \subseteq DOMAIN m
    /\ \A m \in Messages : m.from = "mqtt"
    /\ \A m \in LocalWork : m.from = "page" /\ \A n \in Messages : m.id # n.id
    /\ None \notin Messages \cup LocalWork /\ None \notin {"mqtt", "page", "admin"}

VARIABLES connected, commands, admin_queue, results, overflow,
          task,     \* task[t]: where the tasks that submit are
          notified, \* notified[t]: the task's notification value is not 0
          slots, queue, \* s_request_slots, s_request_queue
          control,  \* the control task
          admin,    \* the admin task and s_request_queue of node_admin_control
          s_result, cache, \* the result buffer of the command task; the cache
          answers,  \* what was published, as [id, command, of, status]
          executed, \* the ids of commands that took effect, in order
          budget,   \* what is left of the bounds
          late      \* a reply came, or will come, after its wait was over

vars == <<connected, commands, admin_queue, results, overflow, task, notified,
          slots, queue, control, admin, s_result, cache, answers, executed,
          budget, late>>
wires == <<connected, commands, admin_queue, results, overflow>>

Slot == 1 .. NODE_CONTROL_QUEUE_LEN
Submitters == {"mqtt", "page", "admin"}
FreeSlot == [state |-> "FREE", reply |-> None, work |-> None, err |-> FALSE]
Idle == [at |-> "idle", slot |-> 0, work |-> None, result |-> None]
NoResult == [of |-> None, status |-> None]

Init == /\ connected = TRUE /\ commands = <<>> /\ admin_queue = <<>>
        /\ results = <<>> /\ overflow = FALSE
        /\ task = [t \in Submitters |-> Idle]
        /\ notified = [t \in Submitters |-> FALSE]
        /\ slots = [i \in Slot |-> FreeSlot] /\ queue = <<>>
        /\ control = Idle
        /\ admin = [requests |-> <<>>, at |-> "idle", request |-> None]
        /\ s_result = NoResult /\ cache = <<>>
        /\ answers = {} /\ executed = <<>>
        /\ budget = [sends |-> MAX_SENDS, local |-> MAX_LOCAL,
                     timeouts |-> MAX_TIMEOUTS, drops |-> MAX_DROPS]
        /\ late = FALSE
-----------------------------------------------------------------------------
(* The MQTT client's callback *)

Answer(m, of, status) == [id |-> m.id, command |-> m.command, of |-> of,
                          status |-> status]

\* a result the callback cannot publish itself; when there is no room for it,
\* one attempt, and a reconnect when that fails too
enqueue_deferred_result(answer) ==
    IF Len(results) < NODE_MQTT_RESULT_QUEUE_LEN
    THEN results' = Append(results, answer) /\ UNCHANGED <<overflow, answers>>
    ELSE /\ UNCHANGED results
         /\ \/ /\ connected /\ answers' = answers \cup {answer}
               /\ UNCHANGED overflow
            \/ overflow' = TRUE /\ UNCHANGED answers

Busy(m) == enqueue_deferred_result(
             Answer(m, m.id, "rejected"))

\* MQTT_EVENT_DATA; a message without a command is answered without ids
receive ==
    /\ connected /\ budget.sends > 0
    /\ budget' = [budget EXCEPT !.sends = @ - 1]
    /\ \E m \in Messages :
         \/ /\ ~m.named
            /\ enqueue_deferred_result([id |-> None, command |-> None, of |-> None,
                                        status |-> "rejected"])
            /\ UNCHANGED <<commands, admin_queue>>
         \/ /\ m.named /\ m.admin
            /\ IF Len(admin_queue) < NODE_MQTT_ADMIN_QUEUE_LEN
               THEN /\ admin_queue' = Append(admin_queue, m)
                    /\ UNCHANGED <<results, overflow, answers>>
               ELSE Busy(m) /\ UNCHANGED admin_queue
            /\ UNCHANGED commands
         \/ /\ m.named /\ ~m.admin
            /\ IF Len(commands) < NODE_MQTT_COMMAND_QUEUE_LEN
               THEN /\ commands' = Append(commands, m)
                    /\ UNCHANGED <<results, overflow, answers>>
               ELSE Busy(m) /\ UNCHANGED commands
            /\ UNCHANGED admin_queue
    /\ UNCHANGED <<connected, task, notified, slots, queue, control, admin, s_result,
                   cache, executed, late>>

\* MQTT_EVENT_CONNECTED and MQTT_EVENT_DISCONNECTED
link ==
    /\ connected => budget.drops > 0
    /\ connected' = ~connected
    /\ budget' = [budget EXCEPT !.drops = IF connected THEN @ - 1 ELSE @]
    /\ UNCHANGED <<commands, admin_queue, results, overflow, task, notified, slots,
                   queue, control, admin, s_result, cache, answers, executed, late>>
-----------------------------------------------------------------------------
(* The command task *)

\* node_mqtt_publish_result_fields_reliable: four attempts, then a log entry
Publish(as) == answers' = IF connected THEN answers \cup as ELSE answers

CommandLoop == task["mqtt"].at = "idle"

drain_deferred_results ==
    /\ CommandLoop
    /\ results # <<>> \/ overflow
    /\ Publish(ToSet(results))
    /\ results' = <<>> /\ overflow' = FALSE
    /\ connected' = (connected /\ ~overflow)
    /\ UNCHANGED <<commands, admin_queue, task, notified, slots, queue, control,
                   admin, s_result, cache, executed, budget, late>>

node_mqtt_duplicate_find(m) == { e \in ToSet(cache) : e.id = m.id }

\* a ring of the last results; the bug forgets them
duplicate_forgotten(m, result) == cache' = cache

node_mqtt_duplicate_remember(m, result) ==
    cache' = Append(IF Len(cache) < NODE_MQTT_DUP_CACHE_SIZE THEN cache
                    ELSE Tail(cache), Answer(m, result.of, result.status))

\* what is answered at once: an invalid message, a duplicate
AnswerAtOnce(m) ==
    IF ~m.valid
    THEN Publish({[id |-> None, command |-> None, of |-> None, status |-> "rejected"]})
    ELSE Publish({ IF e.command = m.command THEN e
                   ELSE Answer(m, m.id, "rejected") : e \in node_mqtt_duplicate_find(m) })
AtOnce(m) == ~m.valid \/ node_mqtt_duplicate_find(m) # {}

\* a free slot for the request, filled in and queued; no slot: ESP_ERR_NO_MEM
FreeSlots == { i \in Slot : slots[i].state = "FREE" }

acquire_and_send(t, m) ==
    IF FreeSlots = {}
    THEN /\ task' = [task EXCEPT ![t].at = "returned", ![t].work = m, ![t].slot = 0]
         /\ UNCHANGED <<slots, queue>>
    ELSE \E i \in FreeSlots :
         /\ \A k \in FreeSlots : i <= k
         /\ Len(queue) < NODE_CONTROL_QUEUE_LEN
         /\ slots' = [slots EXCEPT ![i] = [state |-> "QUEUED", reply |-> t,
                                           work |-> m, err |-> FALSE]]
         /\ queue' = Append(queue, i)
         /\ task' = [task EXCEPT ![t] = [at |-> "waiting", slot |-> i,
                                         work |-> m, result |-> None]]

\* node_mqtt_process_command_message; describe_interface is answered from here
take_command ==
    /\ CommandLoop /\ results = <<>> /\ ~overflow
    /\ admin_queue = <<>> /\ commands # <<>>
    /\ commands' = Tail(commands)
    /\ LET m == Head(commands)
           done == [of |-> m.id, status |-> "done"]
       IN  \/ /\ AtOnce(m) /\ AnswerAtOnce(m)
              /\ UNCHANGED <<task, slots, queue, s_result, cache>>
           \/ /\ ~AtOnce(m) /\ m.command = "describe_interface"
              /\ Publish({Answer(m, m.id, "done")})
              /\ s_result' = IF connected THEN done ELSE [done EXCEPT !.status = "failed"]
              /\ node_mqtt_duplicate_remember(m, s_result')
              /\ UNCHANGED <<task, slots, queue>>
           \/ /\ ~AtOnce(m) /\ m.command # "describe_interface"
              /\ acquire_and_send("mqtt", m)
              /\ UNCHANGED <<s_result, cache, answers>>
    /\ UNCHANGED <<connected, admin_queue, results, overflow, notified, control,
                   admin, executed, budget, late>>

\* the return of node_control_submit is ignored: what is published and
\* remembered is what the result buffer holds
finish_command ==
    /\ task["mqtt"].at = "returned"
    /\ LET m == task["mqtt"].work
           r == IF m.admin THEN task["mqtt"].result ELSE s_result
       IN  /\ Publish({Answer(m, r.of, r.status)})
           /\ node_mqtt_duplicate_remember(m, r)
    /\ task' = [task EXCEPT !["mqtt"] = Idle]
    /\ UNCHANGED <<connected, commands, admin_queue, results, overflow, notified,
                   slots, queue, control, admin, s_result, executed, budget,
                   late>>
-----------------------------------------------------------------------------
(* submit_request_and_wait: what a submitter does next *)

Return(t) == task' = [task EXCEPT ![t].at = "returned", ![t].slot = 0]

\* the notification is taken for the reply, whoever sent it
reply_received(t) ==
    /\ task[t].at = "waiting" /\ notified[t]
    /\ notified' = [notified EXCEPT ![t] = FALSE]
    /\ slots' = [slots EXCEPT ![task[t].slot] = FreeSlot]
    /\ Return(t)
    /\ UNCHANGED <<wires, queue, control, admin, s_result, cache, answers, executed, budget, late>>

\* the wait is over: what is done depends on how far the request is; while it
\* is copied the waiter looks again a moment later.  The bug frees the slot
\* whatever its state is.
TimedOutSlot_free(slot) == FreeSlot

TimedOutSlot(slot) ==
    CASE slot.state = "COMPLETED" -> FreeSlot
      [] slot.state = "QUEUED" -> [slot EXCEPT !.state = "CANCELLED"]
      [] slot.state = "PROCESSING" -> [slot EXCEPT !.state = "ABANDONED"]
      [] OTHER -> slot

reply_timeout(t) ==
    /\ task[t].at = "waiting" /\ ~notified[t] /\ budget.timeouts > 0
    /\ slots[task[t].slot].state # "COPYING"
    /\ budget' = [budget EXCEPT !.timeouts = @ - 1]
    /\ slots' = [slots EXCEPT ![task[t].slot] = TimedOutSlot(@)]
    /\ late' = (late \/ slots[task[t].slot].state = "COMPLETED")
    /\ Return(t)
    /\ UNCHANGED <<wires, notified, queue, control, admin, s_result, cache, answers,
                   executed>>
-----------------------------------------------------------------------------
(* The control task *)

take_request ==
    /\ control.at = "idle" /\ queue # <<>>
    /\ queue' = Tail(queue)
    /\ LET i == Head(queue)
       IN  IF slots[i].state = "CANCELLED"
           THEN slots' = [slots EXCEPT ![i] = FreeSlot] /\ UNCHANGED control
           ELSE /\ slots' = [slots EXCEPT ![i].state = "COPYING"]
                /\ control' = [at |-> "copying", slot |-> i, work |-> None,
                               result |-> None]
    /\ UNCHANGED <<wires, task, notified, admin, s_result, cache, answers, executed, budget, late>>

\* prepare_command_scratch copies what the slot points to, outside the lock;
\* what a submitter queues fits the scratch buffers, so its refusal of a
\* command that is too large is left out
copy_request ==
    /\ control.at = "copying"
    /\ slots' = [slots EXCEPT ![control.slot].state = "PROCESSING"]
    /\ control' = [control EXCEPT !.at = "processing", !.work = slots[control.slot].work]
    /\ UNCHANGED <<wires, task, notified, queue, admin, s_result, cache, answers,
                   executed, budget, late>>

execute ==
    /\ control.at = "processing"
    /\ LET w == control.work
           r == IF w = None THEN Rejected("not_supported")
                ELSE node_control_execute_inline(w.command, w.source, w.args, "inactive")
       IN  /\ control' = [control EXCEPT !.at = "executed", !.result =
                            [of |-> IF w = None THEN None ELSE w.id, status |-> r.status]]
           /\ executed' = IF r.effect = None THEN executed ELSE Append(executed, w.id)
    /\ UNCHANGED <<wires, task, notified, slots, queue, admin, s_result, cache,
                   answers, budget, late>>

\* the result goes to the submitter's buffer unless it has given up; the bug
\* has one buffer for all of them
complete_shared_buffer ==
    /\ control.at = "executed"
    /\ LET slot == slots[control.slot]
       IN  IF slot.state = "ABANDONED"
           THEN /\ slots' = [slots EXCEPT ![control.slot] = FreeSlot]
                /\ control' = Idle
                /\ UNCHANGED s_result
           ELSE /\ s_result' = control.result
                /\ slots' = [slots EXCEPT ![control.slot].state = "COMPLETED",
                                          ![control.slot].err = TRUE]
                /\ control' = [control EXCEPT !.at = "notify", !.work = slot.reply]
    /\ UNCHANGED <<wires, task, notified, queue, admin, cache, answers, executed, budget, late>>

complete ==
    /\ control.at = "executed"
    /\ LET slot == slots[control.slot]
       IN  IF slot.state = "ABANDONED"
           THEN /\ slots' = [slots EXCEPT ![control.slot] = FreeSlot]
                /\ control' = Idle
                /\ UNCHANGED s_result
           ELSE /\ s_result' = IF slot.reply = "mqtt" THEN control.result ELSE s_result
                /\ slots' = [slots EXCEPT ![control.slot].state = "COMPLETED",
                                          ![control.slot].err = TRUE]
                /\ control' = [control EXCEPT !.at = "notify", !.work = slot.reply]
    /\ UNCHANGED <<wires, task, notified, queue, admin, cache, answers, executed, budget, late>>

\* the handle was read under the lock, the notification is given after it
notify ==
    /\ control.at = "notify"
    /\ notified' = IF control.work = None THEN notified
                   ELSE [notified EXCEPT ![control.work] = TRUE]
    /\ control' = Idle
    /\ UNCHANGED <<wires, task, slots, queue, admin, s_result, cache, answers,
                   executed, budget, late>>
-----------------------------------------------------------------------------
(* The admin task *)

\* submit_request: the request is copied, the result is written where the
\* submitter waits
admin_send(t, m) ==
    /\ Len(admin.requests) < NODE_ADMIN_QUEUE_LEN
    /\ admin' = [admin EXCEPT !.requests = Append(@, m)]
    /\ task' = [task EXCEPT ![t] = [at |-> "admin", slot |-> 0, work |-> m,
                                    result |-> [of |-> m.id, status |-> "failed"]]]

take_admin_command ==
    /\ CommandLoop /\ results = <<>> /\ ~overflow /\ admin_queue # <<>>
    /\ admin_queue' = Tail(admin_queue)
    /\ LET m == Head(admin_queue)
       IN  \/ AtOnce(m) /\ AnswerAtOnce(m) /\ UNCHANGED <<admin, task>>
           \/ ~AtOnce(m) /\ admin_send("mqtt", m) /\ UNCHANGED answers
    /\ UNCHANGED <<connected, commands, results, overflow, notified, slots, queue,
                   control, s_result, cache, executed, budget, late>>

\* one request; saving LED presets goes on to the control task
admin_take ==
    /\ admin.at = "idle" /\ admin.requests # <<>>
    /\ LET m == Head(admin.requests)
       IN  /\ admin' = [admin EXCEPT !.requests = Tail(@), !.at = "handled",
                                     !.request = m]
           /\ IF m.command = "save_led"
              THEN acquire_and_send("admin", [m EXCEPT !.from = "admin"])
              ELSE UNCHANGED <<task, slots, queue>>
           /\ executed' = Append(executed, m.id)
    /\ UNCHANGED <<wires, notified, control, s_result, cache, answers,
                   budget, late>>

admin_reply ==
    /\ admin.at = "handled" /\ task["admin"].at \in {"idle", "returned"}
    /\ LET t == admin.request.from
           own == task[t].at = "admin" /\ task[t].work = admin.request
       IN  /\ task' = [x \in Submitters |->
                         IF x = "admin" THEN Idle
                         ELSE IF x = t /\ own
                         THEN [task[x] EXCEPT !.result = [of |-> admin.request.id,
                                                          status |-> "done"]]
                         ELSE task[x]]
           /\ notified' = [notified EXCEPT ![t] = TRUE]
    /\ admin' = [admin EXCEPT !.at = "idle", !.request = None]
    /\ UNCHANGED <<wires, slots, queue, control, s_result, cache, answers, executed, budget, late>>

admin_wait_over(t) ==
    /\ task[t].at = "admin"
    /\ \/ notified[t] /\ notified' = [notified EXCEPT ![t] = FALSE]
          /\ UNCHANGED <<budget, late>>
       \/ /\ ~notified[t] /\ budget.timeouts > 0
          /\ budget' = [budget EXCEPT !.timeouts = @ - 1]
          /\ late' = TRUE /\ UNCHANGED notified
    /\ Return(t)
    /\ UNCHANGED <<wires, slots, queue, control, admin, s_result, cache, answers,
                   executed>>
-----------------------------------------------------------------------------
(* The local page: previews through node_control_submit, the rest through   *)
(* the admin task                                                           *)

page_request ==
    /\ task["page"].at = "idle" /\ budget.local > 0
    /\ budget' = [budget EXCEPT !.local = @ - 1]
    /\ \E m \in LocalWork : IF m.admin THEN admin_send("page", m) /\ UNCHANGED <<slots, queue>>
                            ELSE acquire_and_send("page", m) /\ UNCHANGED admin
    /\ UNCHANGED <<wires, notified, control, s_result, cache, answers, executed, late>>

page_answer ==
    /\ task["page"].at = "returned"
    /\ task' = [task EXCEPT !["page"] = Idle]
    /\ UNCHANGED <<wires, notified, slots, queue, control, admin, s_result, cache,
                   answers, executed, budget, late>>

Next == \/ receive \/ link
        \/ drain_deferred_results \/ take_command \/ finish_command
        \/ \E t \in Submitters : reply_received(t) \/ reply_timeout(t)
        \/ take_request \/ copy_request \/ execute \/ complete \/ notify
        \/ take_admin_command \/ admin_take \/ admin_reply
        \/ \E t \in {"mqtt", "page"} : admin_wait_over(t)
        \/ page_request \/ page_answer

Spec == Init /\ [][Next]_vars
-----------------------------------------------------------------------------
(* Properties *)

Times(x, s) == Cardinality({ i \in DOMAIN s : s[i] = x })

\* node_control.c: the states of a slot make a wait that times out safe
\* against the control task that is just then taking, copying or carrying
\* out the request.  As long as no reply comes late: a slot that is queued or
\* worked on is not free for another submitter, is queued once, and every
\* slot that is not free has somebody who will free it.
SlotsSafe ==
    late \/
    /\ \A i \in Slot : Times(i, queue) <= 1
    /\ \A i \in ToSet(queue) : /\ slots[i].state \in {"QUEUED", "CANCELLED"}
                               /\ control.at # "idle" => control.slot # i
    /\ control.at \in {"copying", "processing", "executed"} =>
         slots[control.slot].state # "FREE"
    /\ \A i \in Slot : slots[i].state = "FREE" \/ i \in ToSet(queue)
                       \/ (control.at # "idle" /\ control.slot = i)
                       \/ \E t \in Submitters : task[t].at = "waiting" /\ task[t].slot = i

\* docs/NODE_IMPLEMENTATION_CHECKLIST.md: "Never repeat unsafe physical side
\* effects for a duplicate request_id".  Whatever is sent twice, refused,
\* timed out or answered while the hub is away: one request takes effect at
\* most once, as long as the cache still holds what was answered.
OncePerRequest ==
    late \/ \A m \in Messages : Times(m.id, executed) <= 1

\* What is published for a request is what that request came to, when every
\* wait got its reply (node_mqtt_command.c publishes the buffer whatever
\* node_control_submit returned).
AnswersAreOwn ==
    \/ late \/ budget.timeouts < MAX_TIMEOUTS
    \/ \A a \in answers : a.id = a.of
=============================================================================
