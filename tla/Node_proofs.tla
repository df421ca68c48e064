---------------------------- MODULE Node_proofs ----------------------------
(* Proofs about a node's command path: the request slots, the duplicate     *)
(* cache and the answers, for any messages of the hub, any work of the      *)
(* local page and every length of the queues; about its commands: the time  *)
(* they keep an output busy, whatever their arguments; and about its rule   *)
(* engine: edges, holds and pauses, whatever the rules do.                  *)
EXTENDS NodeControl, NodeArguments, NodeRuleEngine, SeqLemmas, FiniteSetTheorems, TLAPS

-----------------------------------------------------------------------------
(* The inductive invariant *)

TaskFields == {"at", "slot", "work", "result"}
Requests == Messages \cup LocalWork

SlotFields == {"state", "reply", "work", "err"}
States == {"FREE", "QUEUED", "CANCELLED", "COPYING", "PROCESSING", "ABANDONED", "COMPLETED"}
Places == {"idle", "waiting", "returned", "admin"}
HubCommands == {m \in Messages : ~m.admin}
HubAdmin == {m \in Messages : m.admin}

IsTask(r) == DOMAIN r = TaskFields /\ r.at \in Places
IsSlot(r) == DOMAIN r = SlotFields /\ r.state \in States

TaskShape == /\ DOMAIN task = Submitters
             /\ \A t \in Submitters : IsTask(task[t])
             /\ task["mqtt"].at # "idle" => task["mqtt"].work \in Messages
NoteShape == DOMAIN notified = Submitters /\ \A t \in Submitters : notified[t] \in BOOLEAN
SlotShape == DOMAIN slots = Slot /\ \A i \in Slot : IsSlot(slots[i])
QueueShape == queue \in Seq(Slot)
ControlShape ==
    /\ DOMAIN control = TaskFields
    /\ control.at \in {"idle", "copying", "processing", "executed", "notify"}
AdminShape == /\ DOMAIN admin = {"requests", "at", "request"}
              /\ admin.at \in {"idle", "handled"}
              /\ admin.requests \in Seq(Requests)
              /\ admin.at = "handled" => admin.request \in Requests
WireShape == commands \in Seq(HubCommands) /\ admin_queue \in Seq(HubAdmin)
PastShape == IsSeq(cache) /\ IsSeq(executed) /\ IsSeq(results)
BudgetShape == /\ DOMAIN budget = {"sends", "local", "timeouts", "drops"}
               /\ budget.sends \in Nat /\ budget.timeouts \in 0 .. MAX_TIMEOUTS
               /\ late \in BOOLEAN

Shape == /\ TaskShape /\ NoteShape /\ SlotShape /\ QueueShape /\ ControlShape
         /\ AdminShape /\ WireShape /\ PastShape /\ BudgetShape

\* The request in the slot is waited for.
LiveStates == {"QUEUED", "COPYING", "PROCESSING", "COMPLETED"}
Live(i) == slots[i].state \in LiveStates
Waits(t, i) == task[t].at = "waiting" /\ task[t].slot = i
InQueue(i) == \E k \in DOMAIN queue : queue[k] = i

\* The queue, the control task and the states of the slots agree.
Stages ==
    /\ \A j, k \in DOMAIN queue : queue[j] = queue[k] => j = k
    /\ \A i \in Slot : InQueue(i) <=> slots[i].state \in {"QUEUED", "CANCELLED"}
    /\ \A i \in Slot : slots[i].state = "COPYING" <=> control.at = "copying" /\ control.slot = i
    /\ \A i \in Slot : slots[i].state \in {"PROCESSING", "ABANDONED"}
                       <=> control.at \in {"processing", "executed"} /\ control.slot = i
    /\ control.at # "idle" => control.slot \in Slot

\* Every slot of a request that is waited for belongs to one waiting task, which
\* is notified when the request is done and not before.
Replies ==
    /\ \A i \in Slot : Live(i) => slots[i].reply \in Submitters /\ Waits(slots[i].reply, i)
    /\ \A t \in Submitters : task[t].at = "waiting" =>
         task[t].slot \in Slot /\ Live(task[t].slot) /\ slots[task[t].slot].reply = t
    /\ control.at = "notify" => /\ slots[control.slot].state = "COMPLETED"
                                /\ slots[control.slot].reply = control.work
    /\ \A t \in Submitters :
         /\ notified[t] => task[t].at \in {"waiting", "admin"}
         /\ task[t].at = "waiting" =>
              (slots[task[t].slot].state = "COMPLETED"
                 <=> notified[t] \/ (control.at = "notify" /\ control.slot = task[t].slot))
         /\ ~(notified[t] /\ task[t].at = "waiting" /\ control.at = "notify"
                          /\ control.slot = task[t].slot)

\* A task has at most one request with the admin task, and waits for it.
Asks(m) == task[m.from].at = "admin" /\ task[m.from].work = m /\ ~notified[m.from]
AdminReplies ==
    /\ \A k \in DOMAIN admin.requests : Asks(admin.requests[k])
    /\ \A j, k \in DOMAIN admin.requests :
         admin.requests[j].from = admin.requests[k].from => j = k
    /\ admin.at = "handled" =>
         /\ Asks(admin.request)
         /\ \A k \in DOMAIN admin.requests : admin.requests[k].from # admin.request.from
    /\ task["admin"].at # "admin"
    /\ admin.at = "idle" => task["admin"].at = "idle"

Handshake == Stages /\ Replies /\ AdminReplies

\* While no wait has timed out, what was published, what is remembered and what
\* the result buffer holds for the command in hand are of the request itself.
Mine == task["mqtt"].work.id
OwnAnswers ==
    /\ \A a \in answers : a.id = a.of
    /\ \A k \in DOMAIN results : results[k].id = results[k].of
    /\ \A k \in DOMAIN cache : cache[k].id = cache[k].of
OwnSlot(i) ==
    /\ slots[i].work = task["mqtt"].work
    /\ control.at = "processing" /\ control.slot = i => control.work = slots[i].work
    /\ control.at = "executed" /\ control.slot = i => control.result.of = Mine
    /\ slots[i].state = "COMPLETED" => s_result.of = Mine
OwnHand ==
    /\ \A i \in Slot : slots[i].state \notin {"CANCELLED", "ABANDONED"}
    /\ task["mqtt"].at = "waiting" => ~task["mqtt"].work.admin /\ OwnSlot(task["mqtt"].slot)
    /\ task["mqtt"].at = "admin" => task["mqtt"].work.admin /\ task["mqtt"].result.of = Mine
    /\ task["mqtt"].at = "returned" =>
         (IF task["mqtt"].work.admin THEN task["mqtt"].result ELSE s_result).of = Mine
Own == OwnAnswers /\ OwnHand

\* An id that took effect is in the cache or in hand, and whatever may still
\* take effect for it has not done so yet.
Remembered(x) == \E k \in DOMAIN cache : cache[k].id = x
Known(x) == Remembered(x) \/ (task["mqtt"].at # "idle" /\ Mine = x)
Ran(x) == \E k \in DOMAIN executed : executed[k] = x

KindOf(t, w) == /\ t \in Submitters
                /\ t = "mqtt" => w \in Messages
                /\ t = "page" => w \in LocalWork
                /\ t = "admin" => w.command = "save_led"
Kinds ==
    /\ \A i \in Slot : slots[i].state # "FREE" => KindOf(slots[i].reply, slots[i].work)
    /\ control.at = "processing" => control.work = slots[control.slot].work
    /\ task["mqtt"].at = "waiting" => slots[task["mqtt"].slot].work = task["mqtt"].work

OnceMore ==
    /\ \A m \in Messages : \A j, k \in DOMAIN executed :
         executed[j] = m.id /\ executed[k] = m.id => j = k
    /\ \A m \in Messages : Ran(m.id) => Known(m.id)
    /\ task["mqtt"].at = "waiting"
         /\ slots[task["mqtt"].slot].state \in {"QUEUED", "COPYING"} => ~Ran(Mine)
    /\ control.at = "processing" /\ slots[control.slot].reply = "mqtt" =>
         /\ ~Ran(control.work.id) /\ Known(control.work.id)
         /\ task["mqtt"].at = "waiting" /\ task["mqtt"].slot # control.slot
              => Mine # control.work.id
         /\ task["mqtt"].at = "admin" => Mine # control.work.id
    /\ \A k \in DOMAIN admin.requests :
         admin.requests[k].from = "mqtt" => ~Ran(admin.requests[k].id)

\* What is remembered is remembered once, and what is in hand is not remembered
\* yet: with room for every id the cache forgets nothing.
ValidIds == {m.id : m \in {n \in Messages : n.valid}}
RoomForIds == IsFiniteSet(ValidIds) /\ Cardinality(ValidIds) <= NODE_MQTT_DUP_CACHE_SIZE
CacheOnce ==
    /\ \A k \in DOMAIN cache : cache[k].id \in ValidIds
    /\ \A j, k \in DOMAIN cache : cache[j].id = cache[k].id => j = k
    /\ task["mqtt"].at # "idle" => task["mqtt"].work.valid /\ ~Remembered(Mine)

NoTimeout == ~late /\ budget.timeouts = MAX_TIMEOUTS

IInv ==
    /\ Shape
    /\ late \/ Handshake
    /\ RoomForIds => CacheOnce /\ (late \/ (Kinds /\ OnceMore))
    /\ NoTimeout /\ NODE_CONTROL_QUEUE_LEN >= 3 => Own

-----------------------------------------------------------------------------
(* What the steps do, place by place *)

\* submit_request_and_wait without a free slot, or with one
NoSlotFor(t) == /\ \A i \in Slot : slots[i].state # "FREE"
                /\ task'[t].at = "returned"
                /\ slots' = slots /\ queue' = queue
SlotFor(t, m, i) ==
    /\ slots[i].state = "FREE"
    /\ DOMAIN slots' = Slot
    /\ IsSlot(slots'[i])
    /\ slots'[i].state = "QUEUED" /\ slots'[i].reply = t /\ slots'[i].work = m
    /\ \A k \in Slot : k # i => slots'[k] = slots[k]
    /\ queue' = Append(queue, i)
    /\ task'[t].at = "waiting" /\ task'[t].slot = i

\* acquire_slot and the send: the submitter has a slot of its own, or none.
LEMMA AcquireFacts ==
    ASSUME Shape, NEW t \in Submitters, NEW m, acquire_and_send(t, m)
    PROVE  /\ DOMAIN task' = Submitters
           /\ IsTask(task'[t])
           /\ \A u \in Submitters : u # t => task'[u] = task[u]
           /\ task'[t].work = m
           /\ NoSlotFor(t) \/ \E i \in Slot : SlotFor(t, m, i)
  <1> USE DEF Shape, TaskShape, SlotShape, IsTask, IsSlot, TaskFields, Places
  <1>1. CASE FreeSlots = {}
    BY <1>1 DEF acquire_and_send, FreeSlots, NoSlotFor
  <1>2. CASE FreeSlots # {}
    <2>1. PICK i \in FreeSlots :
            /\ slots' = [slots EXCEPT ![i] = [state |-> "QUEUED", reply |-> t,
                                              work |-> m, err |-> FALSE]]
            /\ queue' = Append(queue, i)
            /\ task' = [task EXCEPT ![t] = [at |-> "waiting", slot |-> i,
                                            work |-> m, result |-> None]]
      BY <1>2 DEF acquire_and_send
    <2>2. i \in Slot /\ slots[i].state = "FREE"
      BY DEF FreeSlots
    <2>3. SlotFor(t, m, i)
      BY <2>1, <2>2 DEF SlotFor, SlotFields, States
    <2> QED
      BY <2>1, <2>2, <2>3
  <1> QED
    BY <1>1, <1>2

\* a task returns from its wait
LEMMA ReturnFacts ==
    ASSUME Shape, NEW t \in Submitters, Return(t)
    PROVE  /\ DOMAIN task' = Submitters
           /\ IsTask(task'[t])
           /\ task'[t].at = "returned"
           /\ task'[t].work = task[t].work /\ task'[t].result = task[t].result
           /\ \A u \in Submitters : u # t => task'[u] = task[u]
  BY DEF Shape, TaskShape, Return, TaskFields, IsTask, Places

\* submit_request of node_admin_control
LEMMA SendFacts ==
    ASSUME Shape, NEW t \in Submitters, NEW m, admin_send(t, m)
    PROVE  /\ DOMAIN task' = Submitters
           /\ IsTask(task'[t])
           /\ task'[t].at = "admin" /\ task'[t].work = m /\ task'[t].result.of = m.id
           /\ \A u \in Submitters : u # t => task'[u] = task[u]
           /\ DOMAIN admin' = DOMAIN admin
           /\ admin'.at = admin.at /\ admin'.request = admin.request
           /\ admin'.requests = Append(admin.requests, m)
  BY DEF Shape, TaskShape, AdminShape, admin_send, TaskFields, IsTask, Places

\* the shape of what a request through a slot changes
LEMMA AcquireShape ==
    ASSUME Shape, NEW t \in Submitters, NEW m, acquire_and_send(t, m),
           t = "mqtt" => m \in Messages
    PROVE  TaskShape' /\ SlotShape' /\ QueueShape'
  <1>1. TaskShape'
    BY AcquireFacts DEF Shape, TaskShape, Submitters
  <1>2. CASE NoSlotFor(t)
    BY <1>1, <1>2 DEF NoSlotFor, Shape, SlotShape, QueueShape
  <1>3. ASSUME NEW i \in Slot, SlotFor(t, m, i) PROVE SlotShape' /\ QueueShape'
    <2>1. queue' \in Seq(Slot)
      BY <1>3, SeqOfFacts DEF SlotFor, Shape, QueueShape
    <2>2. SlotShape'
      BY <1>3 DEF SlotFor, Shape, SlotShape
    <2> QED
      BY <2>1, <2>2 DEF QueueShape
  <1> QED
    BY <1>1, <1>2, <1>3, AcquireFacts

\* the same for a request to the admin task
LEMMA SendShape ==
    ASSUME Shape, NEW t \in Submitters, NEW m \in Requests, admin_send(t, m),
           t = "mqtt" => m \in Messages
    PROVE  TaskShape' /\ AdminShape'
  <1>1. TaskShape'
    BY SendFacts DEF Shape, TaskShape, Submitters
  <1>2. admin'.requests \in Seq(Requests)
    <2>1. admin.requests \in Seq(Requests)
      BY DEF Shape, AdminShape
    <2>2. Append(admin.requests, m) \in Seq(Requests)
      BY <2>1, SeqOfFacts
    <2> QED
      BY <2>2, SendFacts
  <1>3. AdminShape'
    BY <1>2, SendFacts DEF Shape, AdminShape
  <1> QED
    BY <1>1, <1>3

\* the cache stays a sequence
LEMMA RememberShape ==
    ASSUME NEW m, NEW r, IsSeq(cache), node_mqtt_duplicate_remember(m, r)
    PROVE  IsSeq(cache')
  <1> DEFINE old == IF Len(cache) < NODE_MQTT_DUP_CACHE_SIZE THEN cache ELSE Tail(cache)
  <1>1. IsSeq(old)
    <2>1. cache # <<>> => IsSeq(Tail(cache))
      BY SeqFacts
    <2>2. cache = <<>> => Len(cache) = 0
      OBVIOUS
    <2> QED
      BY <2>1, <2>2, ControlAssumption
  <1>2. cache' = Append(old, Answer(m, r.of, r.status))
    BY DEF node_mqtt_duplicate_remember
  <1> QED
    BY <1>1, <1>2, SeqFacts

\* what is left alone keeps its shape
LEMMA SameShape ==
    ASSUME Shape
    PROVE  /\ UNCHANGED task => TaskShape'
           /\ UNCHANGED notified => NoteShape'
           /\ UNCHANGED slots => SlotShape'
           /\ UNCHANGED queue => QueueShape'
           /\ UNCHANGED control => ControlShape'
           /\ UNCHANGED admin => AdminShape'
           /\ UNCHANGED <<commands, admin_queue>> => WireShape'
           /\ UNCHANGED <<cache, executed, results>> => PastShape'
           /\ UNCHANGED <<budget, late>> => BudgetShape'
  BY DEF Shape, TaskShape, NoteShape, SlotShape, QueueShape, ControlShape, AdminShape,
         WireShape, PastShape, BudgetShape

-----------------------------------------------------------------------------
(* Shape *)

\* Every step keeps the shape of the state.
LEMMA ShapeStep == Shape /\ Next => Shape'
  <1> SUFFICES ASSUME Shape, Next PROVE Shape'
    OBVIOUS
  <1> USE DEF wires
  <1>0. /\ IsSeq(cache) /\ IsSeq(results) /\ IsSeq(executed)
        /\ commands \in Seq(HubCommands) /\ admin_queue \in Seq(HubAdmin)
        /\ queue \in Seq(Slot) /\ admin.requests \in Seq(Requests)
    BY DEF Shape, PastShape, WireShape, QueueShape, AdminShape
  <1>1. ASSUME receive PROVE Shape'
    <2>1. PICK m \in Messages :
            \/ UNCHANGED <<commands, admin_queue>>
            \/ commands' = Append(commands, m) /\ m.named /\ ~m.admin /\ UNCHANGED admin_queue
            \/ admin_queue' = Append(admin_queue, m) /\ m.named /\ m.admin /\ UNCHANGED commands
      BY <1>1 DEF receive
    <2>2. WireShape'
      <3>1. m.admin => m \in HubAdmin
        BY DEF HubAdmin
      <3>2. ~m.admin => m \in HubCommands
        BY DEF HubCommands
      <3>3. m \in HubCommands => Append(commands, m) \in Seq(HubCommands)
        BY <1>0, SeqOfFacts
      <3>4. m \in HubAdmin => Append(admin_queue, m) \in Seq(HubAdmin)
        BY <1>0, SeqOfFacts
      <3> QED
        BY <1>0, <2>1, <3>1, <3>2, <3>3, <3>4 DEF WireShape
    <2>3. PastShape'
      <3>1. results' = results \/ \E x : results' = Append(results, x)
        BY <1>1 DEF receive, enqueue_deferred_result, Busy
      <3>2. ASSUME NEW x PROVE IsSeq(Append(results, x))
        BY <1>0, SeqFacts
      <3>3. IsSeq(results')
        BY <1>0, <3>1, <3>2
      <3> QED
        BY <1>0, <1>1, <3>3 DEF receive, PastShape
    <2>4. BudgetShape'
      BY <1>1 DEF receive, Shape, BudgetShape
    <2> QED
      BY <1>1, <2>2, <2>3, <2>4, SameShape DEF receive, Shape
  <1>2. ASSUME link PROVE Shape'
    <2>1. BudgetShape'
      BY <1>2 DEF link, Shape, BudgetShape
    <2> QED
      BY <1>2, <2>1, SameShape DEF link, Shape
  <1>3. ASSUME drain_deferred_results PROVE Shape'
    <2>1. PastShape'
      BY <1>3 DEF drain_deferred_results, IsSeq, Shape, PastShape
    <2> QED
      BY <1>3, <2>1, SameShape DEF drain_deferred_results, Shape
  <1>4. ASSUME take_command PROVE Shape'
    <2>1. Head(commands) \in Messages /\ WireShape'
      BY <1>0, <1>4, SeqOfFacts DEF take_command, WireShape, HubCommands
    <2>2. PastShape'
      <3>1. cache' = cache \/ \E r : node_mqtt_duplicate_remember(Head(commands), r)
        BY <1>4 DEF take_command
      <3>2. IsSeq(cache')
        BY <1>0, <3>1, RememberShape
      <3> QED
        BY <1>0, <1>4, <3>2 DEF take_command, PastShape
    <2>3. TaskShape' /\ SlotShape' /\ QueueShape'
      <3>1. \/ UNCHANGED <<task, slots, queue>>
            \/ acquire_and_send("mqtt", Head(commands))
        BY <1>4 DEF take_command
      <3>2. "mqtt" \in Submitters
        BY DEF Submitters
      <3> QED
        BY <2>1, <3>1, <3>2, SameShape, AcquireShape
    <2> QED
      BY <1>4, <2>1, <2>2, <2>3, SameShape DEF take_command, Shape
  <1>5. ASSUME finish_command PROVE Shape'
    <2>1. PastShape'
      <3>1. \E m, r : node_mqtt_duplicate_remember(m, r)
        BY <1>5 DEF finish_command
      <3>2. IsSeq(cache')
        BY <1>0, <3>1, RememberShape
      <3> QED
        BY <1>0, <1>5, <3>2 DEF finish_command, PastShape
    <2>2. TaskShape'
      BY <1>5 DEF finish_command, Shape, TaskShape, IsTask, Idle, TaskFields, Places
    <2> QED
      BY <1>5, <2>1, <2>2, SameShape DEF finish_command, Shape
  <1>6. ASSUME NEW t \in Submitters, reply_received(t) PROVE Shape'
    <2>1. SlotShape'
      BY <1>6 DEF reply_received, Shape, SlotShape, IsSlot, FreeSlot, SlotFields, States
    <2>2. NoteShape'
      BY <1>6 DEF reply_received, Shape, NoteShape
    <2>3. TaskShape'
      BY <1>6, ReturnFacts DEF reply_received, Shape, TaskShape, Submitters
    <2> QED
      BY <1>6, <2>1, <2>2, <2>3, SameShape DEF reply_received, Shape
  <1>7. ASSUME NEW t \in Submitters, reply_timeout(t) PROVE Shape'
    <2>1. SlotShape'
      <3>1. ASSUME NEW s, IsSlot(s) PROVE IsSlot(TimedOutSlot(s))
        BY <3>1 DEF IsSlot, TimedOutSlot, FreeSlot, SlotFields, States
      <3> QED
        BY <1>7, <3>1 DEF reply_timeout, Shape, SlotShape
    <2>2. BudgetShape'
      BY <1>7, ControlAssumption DEF reply_timeout, Shape, BudgetShape
    <2>3. TaskShape'
      BY <1>7, ReturnFacts DEF reply_timeout, Shape, TaskShape, Submitters
    <2> QED
      BY <1>7, <2>1, <2>2, <2>3, SameShape DEF reply_timeout, Shape
  <1>8. ASSUME take_request PROVE Shape'
    <2>1. QueueShape' /\ Head(queue) \in Slot
      BY <1>0, <1>8, SeqOfFacts DEF take_request, QueueShape
    <2>2. SlotShape'
      BY <1>8, <2>1 DEF take_request, Shape, SlotShape, IsSlot, FreeSlot, SlotFields, States
    <2>3. ControlShape'
      BY <1>8 DEF take_request, Shape, ControlShape, TaskFields
    <2> QED
      BY <1>8, <2>1, <2>2, <2>3, SameShape DEF take_request, Shape
  <1>9. ASSUME copy_request PROVE Shape'
    <2>1. SlotShape' /\ ControlShape'
      BY <1>9 DEF copy_request, Shape, SlotShape, IsSlot, States, ControlShape, TaskFields
    <2> QED
      BY <1>9, <2>1, SameShape DEF copy_request, Shape
  <1>10. ASSUME execute PROVE Shape'
    <2>1. PastShape'
      <3>1. executed' \in {executed, Append(executed, control.work.id)}
        BY <1>10 DEF execute
      <3>2. IsSeq(Append(executed, control.work.id))
        BY <1>0, SeqFacts
      <3>3. IsSeq(executed')
        BY <1>0, <3>1, <3>2
      <3> QED
        BY <1>0, <1>10, <3>3 DEF execute, PastShape
    <2>2. ControlShape'
      BY <1>10 DEF execute, Shape, ControlShape, TaskFields
    <2> QED
      BY <1>10, <2>1, <2>2, SameShape DEF execute, Shape
  <1>11. ASSUME complete PROVE Shape'
    <2>1. SlotShape'
      <3>1. CASE slots[control.slot].state = "ABANDONED"
        BY <1>11, <3>1 DEF complete, Shape, SlotShape, IsSlot, FreeSlot, SlotFields, States
      <3>2. CASE slots[control.slot].state # "ABANDONED"
        BY <1>11, <3>2 DEF complete, Shape, SlotShape, IsSlot, SlotFields, States
      <3> QED
        BY <3>1, <3>2
    <2>2. ControlShape'
      <3>1. CASE slots[control.slot].state = "ABANDONED"
        BY <1>11, <3>1 DEF complete, Shape, ControlShape, TaskFields, Idle
      <3>2. CASE slots[control.slot].state # "ABANDONED"
        BY <1>11, <3>2 DEF complete, Shape, ControlShape, TaskFields
      <3> QED
        BY <3>1, <3>2
    <2> QED
      BY <1>11, <2>1, <2>2, SameShape DEF complete, Shape
  <1>12. ASSUME notify PROVE Shape'
    <2>1. NoteShape' /\ ControlShape'
      BY <1>12 DEF notify, Shape, NoteShape, ControlShape, TaskFields, Idle
    <2> QED
      BY <1>12, <2>1, SameShape DEF notify, Shape
  <1>13. ASSUME take_admin_command PROVE Shape'
    <2>1. Head(admin_queue) \in Messages /\ WireShape'
      BY <1>0, <1>13, SeqOfFacts DEF take_admin_command, WireShape, HubAdmin
    <2>2. TaskShape' /\ AdminShape'
      BY <1>13, <2>1, SendShape, SameShape DEF take_admin_command, Submitters, Requests
    <2> QED
      BY <1>13, <2>1, <2>2, SameShape DEF take_admin_command, Shape
  <1>14. ASSUME admin_take PROVE Shape'
    <2>1. /\ Head(admin.requests) \in Requests
          /\ Tail(admin.requests) \in Seq(Requests)
      BY <1>0, <1>14, SeqOfFacts DEF admin_take
    <2>2. AdminShape'
      BY <1>14, <2>1 DEF admin_take, Shape, AdminShape
    <2>3. PastShape'
      <3>1. IsSeq(executed')
        BY <1>14, <1>0, SeqFacts DEF admin_take
      <3> QED
        BY <1>0, <1>14, <3>1 DEF admin_take, PastShape
    <2>4. TaskShape' /\ SlotShape' /\ QueueShape'
      BY <1>14, AcquireShape, SameShape DEF admin_take, Submitters
    <2> QED
      BY <1>14, <2>2, <2>3, <2>4, SameShape DEF admin_take, Shape
  <1>15. ASSUME admin_reply PROVE Shape'
    <2>1. NoteShape' /\ AdminShape'
      BY <1>15 DEF admin_reply, Shape, NoteShape, AdminShape
    <2>2. TaskShape'
      BY <1>15 DEF admin_reply, Shape, TaskShape, IsTask, Idle, TaskFields, Places, Submitters
    <2> QED
      BY <1>15, <2>1, <2>2, SameShape DEF admin_reply, Shape
  <1>16. ASSUME NEW t \in {"mqtt", "page"}, admin_wait_over(t) PROVE Shape'
    <2>1. t \in Submitters
      BY DEF Submitters
    <2>2. NoteShape' /\ BudgetShape'
      <3>1. NoteShape'
        BY <1>16, <2>1 DEF admin_wait_over, Shape, NoteShape
      <3>2. BudgetShape'
        <4>1. \/ UNCHANGED <<budget, late>>
              \/ /\ budget.timeouts > 0 /\ late' = TRUE
                 /\ budget' = [budget EXCEPT !.timeouts = @ - 1]
          BY <1>16 DEF admin_wait_over
        <4>2. CASE UNCHANGED <<budget, late>>
          BY <4>2, SameShape
        <4>3. CASE /\ budget.timeouts > 0 /\ late' = TRUE
                   /\ budget' = [budget EXCEPT !.timeouts = @ - 1]
          BY <4>3, ControlAssumption DEF Shape, BudgetShape
        <4> QED
          BY <4>1, <4>2, <4>3
      <3> QED
        BY <3>1, <3>2
    <2>3. TaskShape'
      BY <1>16, <2>1, ReturnFacts DEF admin_wait_over, Shape, TaskShape, Submitters
    <2> QED
      BY <1>16, <2>2, <2>3, SameShape DEF admin_wait_over, Shape
  <1>17. ASSUME page_request PROVE Shape'
    <2>1. BudgetShape'
      BY <1>17 DEF page_request, Shape, BudgetShape
    <2>2. PICK m \in LocalWork : \/ admin_send("page", m) /\ UNCHANGED <<slots, queue>>
                                 \/ acquire_and_send("page", m) /\ UNCHANGED admin
      BY <1>17 DEF page_request
    <2>3. TaskShape' /\ SlotShape' /\ QueueShape' /\ AdminShape'
      BY <2>2, SendShape, AcquireShape, SameShape DEF Submitters, Requests
    <2> QED
      BY <1>17, <2>1, <2>3, SameShape DEF page_request, Shape
  <1>18. ASSUME page_answer PROVE Shape'
    <2>1. TaskShape'
      BY <1>18 DEF page_answer, Shape, TaskShape, IsTask, Idle, TaskFields, Places
    <2> QED
      BY <1>18, <2>1, SameShape DEF page_answer, Shape
  <1> QED
    BY <1>1, <1>2, <1>3, <1>4, <1>5, <1>6, <1>7, <1>8, <1>9, <1>10, <1>11, <1>12,
       <1>13, <1>14, <1>15, <1>16, <1>17, <1>18 DEF Next

-----------------------------------------------------------------------------
(* The handshake of submitters, control task and admin task *)

\* what an appended pointer adds to the queue
LEMMA InQueueAppend ==
    ASSUME QueueShape, NEW i \in Slot, queue' = Append(queue, i)
    PROVE  /\ \A k \in Slot : InQueue(k)' <=> InQueue(k) \/ k = i
           /\ (\A j, k \in DOMAIN queue : queue[j] = queue[k] => j = k) /\ ~InQueue(i)
                => \A j, k \in DOMAIN queue' : queue'[j] = queue'[k] => j = k
  <1>1. IsSeq(queue)
    BY SeqOfFacts DEF QueueShape
  <1>2. /\ Len(queue) \in Nat /\ DOMAIN queue = 1 .. Len(queue)
        /\ DOMAIN queue' = 1 .. Len(queue) + 1
        /\ \A k \in DOMAIN queue : queue'[k] = queue[k]
        /\ queue'[Len(queue) + 1] = i
    BY <1>1, SeqFacts
  <1>3. \A k \in DOMAIN queue' : k \in DOMAIN queue \/ k = Len(queue) + 1
    BY <1>2
  <1>4. DOMAIN queue \subseteq DOMAIN queue' /\ Len(queue) + 1 \in DOMAIN queue'
    BY <1>2
  <1>5. ASSUME NEW k \in Slot PROVE InQueue(k)' <=> InQueue(k) \/ k = i
    BY <1>2, <1>3, <1>4 DEF InQueue
  <1>6. ASSUME \A j, k \in DOMAIN queue : queue[j] = queue[k] => j = k, ~InQueue(i),
               NEW j \in DOMAIN queue', NEW k \in DOMAIN queue', queue'[j] = queue'[k]
        PROVE  j = k
    BY <1>2, <1>3, <1>6 DEF InQueue
  <1> QED
    BY <1>5, <1>6

\* what the head taken from the queue removes
LEMMA InQueueTail ==
    ASSUME QueueShape, queue # <<>>, queue' = Tail(queue),
           \A j, k \in DOMAIN queue : queue[j] = queue[k] => j = k
    PROVE  /\ Head(queue) \in Slot /\ InQueue(Head(queue))
           /\ \A k \in Slot : InQueue(k)' <=> InQueue(k) /\ k # Head(queue)
           /\ \A j, k \in DOMAIN queue' : queue'[j] = queue'[k] => j = k
  <1>1. IsSeq(queue) /\ Head(queue) \in Slot /\ Head(queue) = queue[1]
    BY SeqOfFacts DEF QueueShape
  <1>2. /\ Len(queue) \in Nat /\ Len(queue) # 0 /\ DOMAIN queue = 1 .. Len(queue)
        /\ DOMAIN queue' = 1 .. Len(queue) - 1
        /\ \A k \in 1 .. Len(queue) - 1 : queue'[k] = queue[k + 1]
    BY <1>1, SeqFacts
  <1>3. 1 \in DOMAIN queue /\ \A k \in DOMAIN queue' : k + 1 \in DOMAIN queue /\ k + 1 # 1
    BY <1>2
  <1>4. \A k \in DOMAIN queue : k = 1 \/ (k - 1 \in DOMAIN queue' /\ queue'[k - 1] = queue[k])
    BY <1>2
  <1>5. InQueue(Head(queue))
    BY <1>1, <1>3 DEF InQueue
  <1>6. ASSUME NEW k \in Slot PROVE InQueue(k)' <=> InQueue(k) /\ k # Head(queue)
    <2>1. ASSUME InQueue(k)' PROVE InQueue(k) /\ k # Head(queue)
      <3>1. PICK j \in DOMAIN queue' : queue'[j] = k
        BY <2>1 DEF InQueue
      <3>2. j + 1 \in DOMAIN queue /\ queue[j + 1] = k /\ j + 1 # 1
        BY <1>2, <1>3, <3>1
      <3> QED
        BY <1>1, <1>3, <3>2 DEF InQueue
    <2>2. ASSUME InQueue(k), k # Head(queue) PROVE InQueue(k)'
      <3>1. PICK j \in DOMAIN queue : queue[j] = k
        BY <2>2 DEF InQueue
      <3>2. j - 1 \in DOMAIN queue' /\ queue'[j - 1] = k
        BY <1>1, <1>4, <2>2, <3>1
      <3> QED
        BY <3>2 DEF InQueue
    <2> QED
      BY <2>1, <2>2
  <1>7. ASSUME NEW j \in DOMAIN queue', NEW k \in DOMAIN queue', queue'[j] = queue'[k]
        PROVE  j = k
    <2>1. queue[j + 1] = queue[k + 1] /\ j + 1 \in DOMAIN queue /\ k + 1 \in DOMAIN queue
      BY <1>2, <1>3, <1>7
    <2>2. j + 1 = k + 1
      BY <2>1
    <2> QED
      BY <1>2, <2>2
  <1> QED
    BY <1>1, <1>5, <1>6, <1>7

\* A free slot is filled and queued, or none is there.
LEMMA AcquireHand ==
    ASSUME Shape, Stages, Replies, NEW t \in Submitters, NEW m, acquire_and_send(t, m),
           task[t].at = "idle", UNCHANGED <<control, notified>>
    PROVE  Stages' /\ Replies'
  <1>1. /\ \A u \in Submitters : u # t => task'[u] = task[u]
        /\ NoSlotFor(t) \/ \E i \in Slot : SlotFor(t, m, i)
    BY AcquireFacts
  <1>2. ~notified[t]
    BY DEF Replies
  <1>3. CASE NoSlotFor(t)
    <2>1. Stages'
      BY <1>3 DEF Stages, NoSlotFor, InQueue
    <2>2. Replies'
      BY <1>1, <1>2, <1>3 DEF Replies, NoSlotFor, Live, LiveStates, Waits
    <2> QED
      BY <2>1, <2>2
  <1>4. ASSUME NEW i \in Slot, SlotFor(t, m, i) PROVE Stages' /\ Replies'
    <2>1. /\ slots[i].state = "FREE" /\ slots'[i].state = "QUEUED" /\ slots'[i].reply = t
          /\ \A k \in Slot : k # i => slots'[k] = slots[k]
          /\ queue' = Append(queue, i) /\ task'[t].at = "waiting" /\ task'[t].slot = i
      BY <1>4 DEF SlotFor
    <2>2. ~InQueue(i)
      BY <2>1 DEF Stages
    <2>3. /\ \A k \in Slot : InQueue(k)' <=> InQueue(k) \/ k = i
          /\ \A j, k \in DOMAIN queue' : queue'[j] = queue'[k] => j = k
      BY <2>1, <2>2, InQueueAppend DEF Shape, Stages
    <2>4. control.at # "idle" => control.slot # i
      BY <2>1 DEF Stages, Replies, Shape, ControlShape
    <2>5. Stages'
      BY <2>1, <2>3, <2>4 DEF Stages
    <2>6. Replies'
      <3>1. \A k \in Slot : Live(k)' => slots'[k].reply \in Submitters /\ Waits(slots[k].reply, k)'
        BY <1>1, <2>1 DEF Replies, Live, LiveStates, Waits
      <3>2. \A u \in Submitters : task'[u].at = "waiting" =>
              task'[u].slot \in Slot /\ Live(task[u].slot)' /\ slots'[task'[u].slot].reply = u
        BY <1>1, <2>1 DEF Replies, Live, LiveStates
      <3>3. control'.at = "notify" => /\ slots'[control'.slot].state = "COMPLETED"
                                      /\ slots'[control'.slot].reply = control'.work
        BY <2>1, <2>4 DEF Stages, Replies
      <3>4. ASSUME NEW u \in Submitters
            PROVE  /\ notified'[u] => task'[u].at \in {"waiting", "admin"}
                   /\ task'[u].at = "waiting" =>
                        (slots'[task'[u].slot].state = "COMPLETED"
                           <=> notified'[u] \/ (control'.at = "notify" /\ control'.slot = task'[u].slot))
                   /\ ~(notified'[u] /\ task'[u].at = "waiting" /\ control'.at = "notify"
                                     /\ control'.slot = task'[u].slot)
        <4>1. CASE u = t
          BY <1>2, <2>1, <2>4, <4>1
        <4>2. CASE u # t
          BY <1>1, <2>1, <2>4, <4>2 DEF Replies, Live, LiveStates
        <4> QED
          BY <4>1, <4>2
      <3> QED
        BY <3>1, <3>2, <3>3, <3>4 DEF Replies
    <2> QED
      BY <2>5, <2>6
  <1> QED
    BY <1>1, <1>3, <1>4

\* A task that neither waits nor is notified moves without changing a slot.
LEMMA MoveHand ==
    ASSUME Replies, NEW t \in Submitters, task[t].at # "waiting",
           task'[t].at # "waiting", notified[t] => task'[t].at = "admin",
           \A u \in Submitters : u # t => task'[u] = task[u],
           UNCHANGED <<slots, control, notified>>
    PROVE  Replies'
  BY DEF Replies, Live, LiveStates, Waits

\* The requests of the admin task come from the command task or the page.
LEMMA RequestsFrom ==
    ASSUME AdminShape
    PROVE  /\ \A m \in Requests : m.from \in {"mqtt", "page"}
           /\ \A k \in DOMAIN admin.requests : /\ admin.requests[k] \in Requests
                                               /\ admin.requests[k].from \in {"mqtt", "page"}
           /\ admin.at = "handled" => admin.request.from \in {"mqtt", "page"}
  <1>1. \A m \in Requests : m.from \in {"mqtt", "page"}
    BY ControlAssumption DEF Requests
  <1>2. \A k \in DOMAIN admin.requests : admin.requests[k] \in Requests
    BY DEF AdminShape
  <1> QED
    BY <1>1, <1>2 DEF AdminShape

\* What no request to the admin task depends on.
LEMMA AdminStays ==
    ASSUME Shape, AdminReplies, UNCHANGED admin, NEW t \in Submitters,
           task[t].at # "admin" \/ notified[t], task'[t].at # "admin",
           t = "admin" => admin.at = "handled" \/ task'[t].at = "idle",
           \A u \in Submitters : u # t => task'[u] = task[u] /\ notified'[u] = notified[u]
    PROVE  AdminReplies'
  <1>1. \A k \in DOMAIN admin.requests : admin.requests[k].from \in Submitters
    BY RequestsFrom DEF Shape, Submitters
  <1>2. admin.at = "handled" => admin.request.from \in Submitters
    BY RequestsFrom DEF Shape, Submitters
  <1> QED
    BY <1>1, <1>2 DEF AdminReplies, Asks, Submitters

\* What says whose turn it is is left alone.
LEMMA SameHand ==
    ASSUME Handshake, UNCHANGED <<slots, queue, control, task, notified, admin>>
    PROVE  Handshake'
  BY DEF Handshake, Stages, Replies, AdminReplies, Asks, Live, LiveStates, Waits, InQueue

\* Nothing changes in the slots, the queue and the control task.
LEMMA SameStages ==
    ASSUME Stages, UNCHANGED <<slots, queue, control>>
    PROVE  Stages'
  BY DEF Stages, InQueue

\* A reply is taken: the slot is free again.
LEMMA ReceivedHand ==
    ASSUME Shape, Handshake, NEW t \in Submitters, reply_received(t)
    PROVE  Handshake'
  <1> DEFINE i == task[t].slot
  <1>1. /\ task[t].at = "waiting" /\ i \in Slot /\ slots[i].state = "COMPLETED"
        /\ slots[i].reply = t /\ notified[t]
        /\ control.at # "idle" => control.slot # i
    BY DEF reply_received, Handshake, Stages, Replies, Live, LiveStates, Shape, ControlShape
  <1>2. /\ DOMAIN slots' = Slot /\ slots'[i].state = "FREE"
        /\ \A k \in Slot : k # i => slots'[k] = slots[k]
        /\ UNCHANGED <<queue, control, admin>>
        /\ ~notified'[t] /\ \A u \in Submitters : u # t => notified'[u] = notified[u]
    BY <1>1 DEF reply_received, Shape, SlotShape, NoteShape, FreeSlot
  <1>3. /\ task'[t].at = "returned" /\ \A u \in Submitters : u # t => task'[u] = task[u]
    BY ReturnFacts DEF reply_received
  <1>4. Stages'
    BY <1>1, <1>2 DEF Handshake, Stages, InQueue
  <1>5. Replies'
    <2>1. \A k \in Slot : Live(k)' => k # i /\ Live(k)
      BY <1>2 DEF Live, LiveStates
    <2>2. \A k \in Slot : Live(k) /\ k # i => slots[k].reply # t
      BY <1>1 DEF Handshake, Replies, Waits
    <2>3. \A u \in Submitters : u # t /\ task[u].at = "waiting" => task[u].slot # i
      BY <1>1 DEF Handshake, Replies
    <2>4. \A k \in Slot : Live(k)' => slots'[k].reply \in Submitters /\ Waits(slots[k].reply, k)'
      BY <1>2, <1>3, <2>1, <2>2 DEF Handshake, Replies, Waits
    <2>5. \A u \in Submitters : task'[u].at = "waiting" =>
            task'[u].slot \in Slot /\ Live(task[u].slot)' /\ slots'[task'[u].slot].reply = u
      BY <1>2, <1>3, <2>3 DEF Handshake, Replies, Live
    <2>6. control'.at = "notify" => /\ slots'[control'.slot].state = "COMPLETED"
                                    /\ slots'[control'.slot].reply = control'.work
      BY <1>1, <1>2 DEF Handshake, Replies, Stages
    <2>7. ASSUME NEW u \in Submitters
          PROVE  /\ notified'[u] => task'[u].at \in {"waiting", "admin"}
                 /\ task'[u].at = "waiting" =>
                      (slots'[task'[u].slot].state = "COMPLETED"
                         <=> notified'[u] \/ (control'.at = "notify" /\ control'.slot = task'[u].slot))
                 /\ ~(notified'[u] /\ task'[u].at = "waiting" /\ control'.at = "notify"
                                   /\ control'.slot = task'[u].slot)
      <3>1. CASE u = t
        BY <1>2, <1>3, <3>1
      <3>2. CASE u # t
        BY <1>1, <1>2, <1>3, <2>3, <3>2 DEF Handshake, Replies
      <3> QED
        BY <3>1, <3>2
    <2> QED
      BY <2>4, <2>5, <2>6, <2>7 DEF Replies
  <1>6. AdminReplies'
    BY <1>1, <1>2, <1>3, AdminStays DEF Handshake, AdminReplies, Shape, AdminShape
  <1> QED
    BY <1>4, <1>5, <1>6 DEF Handshake

\* A wait ends before the reply, which will not come any more.
LEMMA TimeoutHand ==
    ASSUME Shape, Handshake, NEW t \in Submitters, reply_timeout(t), ~late'
    PROVE  Handshake'
  <1> DEFINE i == task[t].slot
  <1>1. /\ task[t].at = "waiting" /\ i \in Slot /\ ~notified[t]
        /\ slots[i].state \in {"QUEUED", "PROCESSING"} /\ slots[i].reply = t
    BY DEF reply_timeout, Handshake, Replies, Live, LiveStates
  <1>2. /\ DOMAIN slots' = Slot
        /\ slots'[i].state = IF slots[i].state = "QUEUED" THEN "CANCELLED" ELSE "ABANDONED"
        /\ \A k \in Slot : k # i => slots'[k] = slots[k]
        /\ UNCHANGED <<queue, control, admin, notified>>
    BY <1>1 DEF reply_timeout, TimedOutSlot, Shape, SlotShape, IsSlot, SlotFields
  <1>3. /\ task'[t].at = "returned" /\ \A u \in Submitters : u # t => task'[u] = task[u]
    BY ReturnFacts DEF reply_timeout
  <1>4. Stages'
    BY <1>1, <1>2 DEF Handshake, Stages, InQueue
  <1>5. Replies'
    BY <1>1, <1>2, <1>3 DEF Handshake, Stages, Replies, Live, LiveStates, Waits
  <1>6. AdminReplies'
    BY <1>1, <1>2, <1>3, AdminStays DEF Handshake, AdminReplies, Shape, AdminShape
  <1> QED
    BY <1>4, <1>5, <1>6 DEF Handshake

\* The control task moves one slot on: it takes, copies or completes a request,
\* or gives a cancelled or abandoned one back.
LEMMA ControlHand ==
    ASSUME Shape, Handshake, UNCHANGED <<task, notified, admin>>, NEW i \in Slot,
           DOMAIN slots' = Slot, \A k \in Slot : k # i => slots'[k] = slots[k],
           slots'[i].reply = slots[i].reply \/ slots'[i].state = "FREE",
           slots'[i].state \in LiveStates <=> slots[i].state \in LiveStates,
           slots[i].state # "COMPLETED",
           slots'[i].state = "COMPLETED" <=> control'.at = "notify",
           control'.at \in {"copying", "processing", "executed", "notify"} =>
               control'.slot = i,
           control.at \in {"idle", "copying", "processing", "executed"},
           control'.at \in {"idle", "copying", "processing", "executed", "notify"},
           control'.at = "notify" => control'.work = slots[i].reply
    PROVE  Replies' /\ AdminReplies'
  <1>1. AdminReplies'
    BY DEF Handshake, AdminReplies, Asks
  <1>2. \A k \in Slot : Live(k)' <=> Live(k)
    BY DEF Live, LiveStates
  <1>3. \A k \in Slot : Live(k) => slots'[k].reply = slots[k].reply
    BY <1>2 DEF Live, LiveStates
  <1>4. \A k \in Slot : slots'[k].state = "COMPLETED"
          <=> slots[k].state = "COMPLETED" \/ (k = i /\ control'.at = "notify")
    OBVIOUS
  <1>5. control'.at = "notify" => control'.slot = i /\ Live(i)
    BY DEF Live, LiveStates
  <1>6. \A k \in Slot : Live(k)' => slots'[k].reply \in Submitters /\ Waits(slots[k].reply, k)'
    BY <1>2, <1>3 DEF Handshake, Replies, Waits
  <1>7. \A t \in Submitters : task'[t].at = "waiting" =>
          task'[t].slot \in Slot /\ Live(task[t].slot)' /\ slots'[task'[t].slot].reply = t
    BY <1>2, <1>3 DEF Handshake, Replies
  <1>8. control'.at = "notify" => /\ slots'[control'.slot].state = "COMPLETED"
                                  /\ slots'[control'.slot].reply = control'.work
    BY <1>3, <1>5
  <1>9. ASSUME NEW t \in Submitters
        PROVE  /\ notified'[t] => task'[t].at \in {"waiting", "admin"}
               /\ task'[t].at = "waiting" =>
                    (slots'[task'[t].slot].state = "COMPLETED"
                       <=> notified'[t] \/ (control'.at = "notify" /\ control'.slot = task'[t].slot))
               /\ ~(notified'[t] /\ task'[t].at = "waiting" /\ control'.at = "notify"
                                 /\ control'.slot = task'[t].slot)
    BY <1>4, <1>5 DEF Handshake, Replies
  <1> QED
    BY <1>1, <1>6, <1>7, <1>8, <1>9 DEF Replies

\* take_request: the head of the queue passes to the control task.
LEMMA TakeHand ==
    ASSUME Shape, Handshake, take_request
    PROVE  Handshake'
  <1> DEFINE i == Head(queue)
  <1>1. /\ control.at = "idle" /\ queue # <<>> /\ queue' = Tail(queue)
        /\ UNCHANGED <<task, notified, admin>>
    BY DEF take_request
  <1>2. /\ i \in Slot /\ InQueue(i)
        /\ \A k \in Slot : InQueue(k)' <=> InQueue(k) /\ k # i
        /\ \A j, k \in DOMAIN queue' : queue'[j] = queue'[k] => j = k
    BY <1>1, InQueueTail DEF Shape, Handshake, Stages
  <1>3. slots[i].state \in {"QUEUED", "CANCELLED"}
    BY <1>2 DEF Handshake, Stages
  <1>4. /\ DOMAIN slots' = Slot
        /\ \A k \in Slot : k # i => slots'[k] = slots[k]
        /\ slots[i].state = "CANCELLED" => slots'[i].state = "FREE" /\ control' = control
        /\ slots[i].state = "QUEUED" =>
             /\ slots'[i].state = "COPYING" /\ slots'[i].reply = slots[i].reply
             /\ control'.at = "copying" /\ control'.slot = i
    BY <1>2 DEF take_request, Shape, SlotShape, IsSlot, SlotFields, FreeSlot
  <1>5. Stages'
    BY <1>1, <1>2, <1>3, <1>4 DEF Handshake, Stages
  <1>6. Replies' /\ AdminReplies'
    <2>1. slots'[i].state \in LiveStates <=> slots[i].state \in LiveStates
      BY <1>3, <1>4 DEF LiveStates
    <2> QED
      BY <1>1, <1>2, <1>3, <1>4, <2>1, ControlHand
  <1> QED
    BY <1>5, <1>6 DEF Handshake

\* copy_request: the slot moves on to PROCESSING.
LEMMA CopyHand ==
    ASSUME Shape, Handshake, copy_request
    PROVE  Handshake'
  <1> DEFINE i == control.slot
  <1>1. /\ control.at = "copying" /\ i \in Slot /\ slots[i].state = "COPYING"
        /\ UNCHANGED <<queue, task, notified, admin>>
    BY DEF copy_request, Handshake, Stages
  <1>2. /\ DOMAIN slots' = Slot
        /\ \A k \in Slot : k # i => slots'[k] = slots[k]
        /\ slots'[i].state = "PROCESSING" /\ slots'[i].reply = slots[i].reply
        /\ control'.at = "processing" /\ control'.slot = i
    BY <1>1 DEF copy_request, Shape, SlotShape, IsSlot, SlotFields, ControlShape, TaskFields
  <1>3. Stages'
    BY <1>1, <1>2 DEF Handshake, Stages, InQueue
  <1>4. Replies' /\ AdminReplies'
    <2>1. slots'[i].state \in LiveStates <=> slots[i].state \in LiveStates
      BY <1>1, <1>2 DEF LiveStates
    <2> QED
      BY <1>1, <1>2, <2>1, ControlHand
  <1> QED
    BY <1>3, <1>4 DEF Handshake

\* execute changes the work and not the slot.
LEMMA ExecuteHand ==
    ASSUME Shape, Handshake, execute
    PROVE  Handshake'
  <1>1. /\ control.at = "processing" /\ control'.at = "executed" /\ control'.slot = control.slot
        /\ UNCHANGED <<slots, queue, task, notified, admin>>
    BY DEF execute, Shape, ControlShape, TaskFields
  <1>2. Stages'
    BY <1>1 DEF Handshake, Stages, InQueue
  <1>3. Replies'
    BY <1>1 DEF Handshake, Replies, Live, LiveStates, Waits
  <1>4. AdminReplies'
    BY <1>1 DEF Handshake, AdminReplies, Asks
  <1> QED
    BY <1>2, <1>3, <1>4 DEF Handshake

\* complete: the slot becomes COMPLETED, or free if its submitter has gone.
LEMMA CompleteHand ==
    ASSUME Shape, Handshake, complete
    PROVE  Handshake'
  <1> DEFINE i == control.slot
  <1>1. /\ control.at = "executed" /\ i \in Slot
        /\ slots[i].state \in {"PROCESSING", "ABANDONED"}
        /\ UNCHANGED <<queue, task, notified, admin>>
    BY DEF complete, Handshake, Stages
  <1>2. CASE slots[i].state = "ABANDONED"
    <2>1. /\ DOMAIN slots' = Slot
          /\ \A k \in Slot : k # i => slots'[k] = slots[k]
          /\ slots'[i].state = "FREE" /\ control'.at = "idle"
      BY <1>1, <1>2 DEF complete, Shape, SlotShape, FreeSlot, Idle
    <2>2. Stages'
      BY <1>1, <2>1 DEF Handshake, Stages, InQueue
    <2>3. slots'[i].state \in LiveStates <=> slots[i].state \in LiveStates
      BY <1>2, <2>1 DEF LiveStates
    <2>4. Replies' /\ AdminReplies'
      BY <1>1, <1>2, <2>1, <2>3, ControlHand
    <2> QED
      BY <2>2, <2>4 DEF Handshake
  <1>3. CASE slots[i].state = "PROCESSING"
    <2>1. /\ DOMAIN slots' = Slot
          /\ \A k \in Slot : k # i => slots'[k] = slots[k]
          /\ slots'[i].state = "COMPLETED" /\ slots'[i].reply = slots[i].reply
          /\ control'.at = "notify" /\ control'.slot = i /\ control'.work = slots[i].reply
      <3>1. /\ slots' = [slots EXCEPT ![i].state = "COMPLETED", ![i].err = TRUE]
            /\ control' = [control EXCEPT !.at = "notify", !.work = slots[i].reply]
        BY <1>3 DEF complete
      <3>2. control'.at = "notify" /\ control'.slot = i /\ control'.work = slots[i].reply
        BY <3>1 DEF Shape, ControlShape, TaskFields
      <3>3. DOMAIN slots[i] = SlotFields /\ DOMAIN slots = Slot
        BY <1>1 DEF Shape, SlotShape, IsSlot
      <3>4. /\ DOMAIN slots' = Slot
            /\ \A k \in Slot : k # i => slots'[k] = slots[k]
            /\ slots'[i].state = "COMPLETED" /\ slots'[i].reply = slots[i].reply
        BY <1>1, <3>1, <3>3 DEF SlotFields
      <3> QED
        BY <3>2, <3>4
    <2>2. Stages'
      BY <1>1, <1>3, <2>1 DEF Handshake, Stages, InQueue
    <2>3. slots'[i].state \in LiveStates <=> slots[i].state \in LiveStates
      BY <1>3, <2>1 DEF LiveStates
    <2>4. Replies' /\ AdminReplies'
      BY <1>1, <1>3, <2>1, <2>3, ControlHand
    <2> QED
      BY <2>2, <2>4 DEF Handshake
  <1> QED
    BY <1>1, <1>2, <1>3

\* The submitter whose request is done is notified.
LEMMA NotifyHand ==
    ASSUME Shape, Handshake, notify
    PROVE  Handshake'
  <1> DEFINE i == control.slot
             t == control.work
  <1>1. /\ control.at = "notify" /\ i \in Slot /\ slots[i].state = "COMPLETED"
        /\ slots[i].reply = t
        /\ UNCHANGED <<slots, queue, task, admin>>
    BY DEF notify, Handshake, Stages, Replies
  <1>2. t \in Submitters /\ task[t].at = "waiting" /\ task[t].slot = i
    BY <1>1 DEF Handshake, Replies, Live, LiveStates, Waits
  <1>3. /\ control'.at = "idle"
        /\ \A u \in Submitters : u # t => notified'[u] = notified[u]
        /\ notified'[t] \/ t = None
    BY <1>2 DEF notify, Shape, NoteShape, Idle
  <1>4. t # None
    BY <1>2, ControlAssumption DEF Submitters
  <1>5. Stages'
    BY <1>1, <1>3 DEF Handshake, Stages, InQueue
  <1>6. Replies'
    BY <1>1, <1>2, <1>3, <1>4 DEF Handshake, Replies, Live, LiveStates, Waits
  <1>7. AdminReplies'
    BY <1>1, <1>2, <1>3, RequestsFrom DEF Handshake, AdminReplies, Asks, Shape, Submitters
  <1> QED
    BY <1>5, <1>6, <1>7 DEF Handshake

\* A request goes to the admin task.
LEMMA SendHand ==
    ASSUME Shape, Handshake, NEW t \in {"mqtt", "page"}, NEW m \in Requests, admin_send(t, m),
           m.from = t, task[t].at = "idle", UNCHANGED <<slots, queue, control, notified>>
    PROVE  Handshake'
  <1>1. t \in Submitters /\ ~notified[t]
    BY DEF Submitters, Handshake, Replies
  <1>2. /\ task'[t].at = "admin" /\ task'[t].work = m
        /\ \A u \in Submitters : u # t => task'[u] = task[u]
        /\ admin'.at = admin.at /\ admin'.request = admin.request
        /\ admin'.requests = Append(admin.requests, m)
    BY <1>1, SendFacts
  <1>3. IsSeq(admin.requests)
    BY SeqOfFacts DEF Shape, AdminShape
  <1>4. /\ Len(admin.requests) \in Nat /\ DOMAIN admin.requests = 1 .. Len(admin.requests)
        /\ DOMAIN admin'.requests = 1 .. Len(admin.requests) + 1
        /\ \A k \in DOMAIN admin.requests : admin'.requests[k] = admin.requests[k]
        /\ admin'.requests[Len(admin.requests) + 1] = m
    BY <1>2, <1>3, SeqFacts
  <1>5. \A k \in DOMAIN admin'.requests :
          k \in DOMAIN admin.requests \/ k = Len(admin.requests) + 1
    BY <1>4
  <1>6. \A k \in DOMAIN admin.requests : /\ admin.requests[k].from \in Submitters
                                         /\ admin.requests[k].from # t
    BY RequestsFrom DEF Shape, Submitters, Handshake, AdminReplies, Asks
  <1>7. admin.at = "handled" => admin.request.from \in Submitters /\ admin.request.from # t
    BY RequestsFrom DEF Shape, Submitters, Handshake, AdminReplies, Asks
  <1>8. Stages'
    BY SameStages DEF Handshake
  <1>9. Replies'
    BY <1>1, <1>2, MoveHand DEF Handshake
  <1>10. AdminReplies'
    <2>1. ASSUME NEW k \in DOMAIN admin'.requests
          PROVE  /\ task'[admin'.requests[k].from].at = "admin"
                 /\ task'[admin'.requests[k].from].work = admin'.requests[k]
                 /\ ~notified'[admin'.requests[k].from]
      <3>1. CASE k \in DOMAIN admin.requests
        <4>1. /\ admin'.requests[k] = admin.requests[k]
              /\ admin.requests[k].from \in Submitters /\ admin.requests[k].from # t
          BY <1>4, <1>6, <3>1
        <4>2. Asks(admin.requests[k])
          BY <3>1 DEF Handshake, AdminReplies
        <4> QED
          BY <1>2, <4>1, <4>2 DEF Asks
      <3>2. CASE k = Len(admin.requests) + 1
        BY <1>1, <1>2, <1>4, <3>2
      <3> QED
        BY <1>5, <3>1, <3>2
    <2>2. ASSUME NEW j \in DOMAIN admin'.requests, NEW k \in DOMAIN admin'.requests,
                 admin'.requests[j].from = admin'.requests[k].from
          PROVE  j = k
      BY <1>4, <1>5, <1>6, <2>2 DEF Handshake, AdminReplies
    <2>3. ASSUME admin'.at = "handled"
          PROVE  /\ task'[admin'.request.from].at = "admin"
                 /\ task'[admin'.request.from].work = admin'.request
                 /\ ~notified'[admin'.request.from]
                 /\ \A k \in DOMAIN admin'.requests :
                      admin'.requests[k].from # admin'.request.from
      BY <1>2, <1>4, <1>5, <1>7, <2>3 DEF Handshake, AdminReplies, Asks
    <2>4. /\ task'["admin"].at # "admin"
          /\ admin'.at = "idle" => task'["admin"].at = "idle"
      BY <1>2 DEF Handshake, AdminReplies, Submitters
    <2> QED
      BY <2>1, <2>2, <2>3, <2>4 DEF AdminReplies, Asks
  <1> QED
    BY <1>8, <1>9, <1>10 DEF Handshake

\* The admin task takes a request, and may itself become a submitter.
LEMMA AdminTakeHand ==
    ASSUME Shape, Handshake, admin_take
    PROVE  Handshake'
  <1>1. /\ admin.at = "idle" /\ admin.requests # <<>> /\ admin'.at = "handled"
        /\ admin'.requests = Tail(admin.requests) /\ admin'.request = Head(admin.requests)
        /\ UNCHANGED <<notified, control>> /\ task["admin"].at = "idle"
    BY DEF admin_take, Shape, AdminShape, Handshake, AdminReplies
  <1>2. /\ IsSeq(admin.requests) /\ Head(admin.requests) = admin.requests[1]
    BY <1>1, SeqOfFacts DEF Shape, AdminShape
  <1>3. /\ Len(admin.requests) \in Nat /\ DOMAIN admin.requests = 1 .. Len(admin.requests)
        /\ Len(admin.requests) # 0
        /\ DOMAIN admin'.requests = 1 .. Len(admin.requests) - 1
        /\ \A k \in DOMAIN admin'.requests : admin'.requests[k] = admin.requests[k + 1]
    BY <1>1, <1>2, SeqFacts
  <1>4. /\ 1 \in DOMAIN admin.requests
        /\ \A k \in DOMAIN admin'.requests : k + 1 \in DOMAIN admin.requests /\ k + 1 # 1
        /\ \A j, k \in DOMAIN admin'.requests : j + 1 = k + 1 => j = k
    BY <1>3
  <1>5. \A k \in DOMAIN admin.requests : admin.requests[k].from \in Submitters \ {"admin"}
    BY RequestsFrom DEF Shape, Submitters
  <1>6. \/ UNCHANGED <<task, slots, queue>>
        \/ acquire_and_send("admin", [Head(admin.requests) EXCEPT !.from = "admin"])
    BY DEF admin_take
  <1>7. /\ Stages' /\ Replies'
        /\ \A u \in Submitters : u # "admin" => task'[u] = task[u]
        /\ task'["admin"].at # "admin"
    <2>1. CASE UNCHANGED <<task, slots, queue>>
      BY <1>1, <2>1, SameStages DEF Handshake, Replies, Live, LiveStates, Waits
    <2>2. CASE acquire_and_send("admin", [Head(admin.requests) EXCEPT !.from = "admin"])
      <3>1. "admin" \in Submitters
        BY DEF Submitters
      <3>2. Stages' /\ Replies'
        BY <1>1, <2>2, <3>1, AcquireHand DEF Handshake
      <3>3. \A u \in Submitters : u # "admin" => task'[u] = task[u]
        BY <2>2, <3>1, AcquireFacts
      <3>4. task'["admin"].at # "admin"
        BY <2>2, <3>1, AcquireFacts DEF NoSlotFor, SlotFor
      <3> QED
        BY <3>2, <3>3, <3>4
    <2> QED
      BY <1>6, <2>1, <2>2
  <1>8. \A k \in DOMAIN admin.requests :
          /\ task'[admin.requests[k].from].at = "admin"
          /\ task'[admin.requests[k].from].work = admin.requests[k]
          /\ ~notified'[admin.requests[k].from]
    BY <1>1, <1>5, <1>7 DEF Handshake, AdminReplies, Asks
  <1>9. AdminReplies'
    <2>1. ASSUME NEW k \in DOMAIN admin'.requests
          PROVE  /\ task'[admin'.requests[k].from].at = "admin"
                 /\ task'[admin'.requests[k].from].work = admin'.requests[k]
                 /\ ~notified'[admin'.requests[k].from]
      BY <1>3, <1>4, <1>8
    <2>2. ASSUME NEW j \in DOMAIN admin'.requests, NEW k \in DOMAIN admin'.requests,
                 admin'.requests[j].from = admin'.requests[k].from
          PROVE  j = k
      <3>1. /\ j + 1 \in DOMAIN admin.requests /\ k + 1 \in DOMAIN admin.requests
            /\ admin.requests[j + 1].from = admin.requests[k + 1].from
        BY <1>3, <1>4, <2>2
      <3>2. \A a, b \in DOMAIN admin.requests :
              admin.requests[a].from = admin.requests[b].from => a = b
        BY DEF Handshake, AdminReplies
      <3>3. j + 1 = k + 1
        BY <3>1, <3>2
      <3> QED
        BY <1>4, <3>3
    <2>3. /\ task'[admin'.request.from].at = "admin"
          /\ task'[admin'.request.from].work = admin'.request
          /\ ~notified'[admin'.request.from]
      BY <1>1, <1>2, <1>4, <1>8
    <2>4. \A k \in DOMAIN admin'.requests : admin'.requests[k].from # admin'.request.from
      BY <1>1, <1>2, <1>3, <1>4 DEF Handshake, AdminReplies
    <2> QED
      BY <1>1, <1>7, <2>1, <2>2, <2>3, <2>4 DEF AdminReplies, Asks
  <1> QED
    BY <1>7, <1>9 DEF Handshake

\* The admin task answers.
LEMMA AdminReplyHand ==
    ASSUME Shape, Handshake, admin_reply
    PROVE  Handshake'
  <1> DEFINE t == admin.request.from
  <1>1. /\ admin.at = "handled" /\ task["admin"].at \in {"idle", "returned"}
        /\ t \in {"mqtt", "page"} /\ t \in Submitters
        /\ task[t].at = "admin" /\ task[t].work = admin.request /\ ~notified[t]
    BY RequestsFrom DEF admin_reply, Handshake, AdminReplies, Asks, Shape, AdminShape, Submitters
  <1>2. /\ UNCHANGED <<slots, queue, control>>
        /\ admin'.at = "idle" /\ admin'.requests = admin.requests
    BY DEF admin_reply, Shape, AdminShape
  <1>3. /\ notified'[t] /\ \A u \in Submitters : u # t => notified'[u] = notified[u]
    BY <1>1 DEF admin_reply, Shape, NoteShape
  <1>4. task'["admin"].at = "idle" /\ task'["page"].at = task["page"].at
        /\ task'["mqtt"].at = task["mqtt"].at /\ task'["page"].work = task["page"].work
        /\ task'["mqtt"].work = task["mqtt"].work /\ task'["page"].slot = task["page"].slot
        /\ task'["mqtt"].slot = task["mqtt"].slot
    BY DEF admin_reply, Submitters, Idle, Shape, TaskShape, IsTask, TaskFields
  <1>5. \A u \in Submitters : u # "admin" => /\ task'[u].at = task[u].at
                                             /\ task'[u].slot = task[u].slot
                                             /\ task'[u].work = task[u].work
    BY <1>4 DEF Submitters
  <1>6. Stages'
    BY <1>2, SameStages DEF Handshake
  <1>7. Replies'
    BY <1>1, <1>2, <1>3, <1>4, <1>5 DEF Handshake, Replies, Live, LiveStates, Waits
  <1>8. AdminReplies'
    <2>1. \A k \in DOMAIN admin.requests : /\ admin.requests[k].from \in Submitters \ {"admin"}
                                           /\ admin.requests[k].from # t
      BY <1>1, RequestsFrom DEF Shape, Submitters, Handshake, AdminReplies
    <2> QED
      BY <1>2, <1>3, <1>4, <1>5, <2>1 DEF Handshake, AdminReplies, Asks
  <1> QED
    BY <1>6, <1>7, <1>8 DEF Handshake

\* The reply of the admin task is taken.
LEMMA AdminOverHand ==
    ASSUME Shape, Handshake, NEW t \in {"mqtt", "page"}, admin_wait_over(t), ~late'
    PROVE  Handshake'
  <1>1. /\ task[t].at = "admin" /\ notified[t] /\ t \in Submitters
        /\ UNCHANGED <<slots, queue, control, admin>>
    BY DEF admin_wait_over, Submitters
  <1>2. ~notified'[t] /\ \A u \in Submitters : u # t => notified'[u] = notified[u]
    BY <1>1 DEF admin_wait_over, Shape, NoteShape
  <1>3. /\ task'[t].at = "returned" /\ \A u \in Submitters : u # t => task'[u] = task[u]
    BY <1>1, ReturnFacts DEF admin_wait_over
  <1>4. Stages'
    BY <1>1, SameStages DEF Handshake
  <1>5. Replies'
    <2>1. \A k \in Slot : Live(k) => /\ slots[k].reply \in Submitters \ {t}
                                    /\ Waits(slots[k].reply, k)
      BY <1>1 DEF Handshake, Replies, Waits
    <2>2. ASSUME NEW k \in Slot, Live(k)'
          PROVE  slots'[k].reply \in Submitters /\ Waits(slots[k].reply, k)'
      BY <1>1, <1>3, <2>1, <2>2 DEF Live, Waits
    <2>3. /\ \A u \in Submitters : task'[u].at = "waiting" =>
            task'[u].slot \in Slot /\ Live(task[u].slot)' /\ slots'[task'[u].slot].reply = u
          /\ control'.at = "notify" => /\ slots'[control'.slot].state = "COMPLETED"
                                       /\ slots'[control'.slot].reply = control'.work
      BY <1>1, <1>3 DEF Handshake, Replies, Live
    <2>4. ASSUME NEW u \in Submitters
          PROVE  /\ notified'[u] => task'[u].at \in {"waiting", "admin"}
                 /\ task'[u].at = "waiting" =>
                      (slots'[task'[u].slot].state = "COMPLETED"
                         <=> notified'[u] \/ (control'.at = "notify" /\ control'.slot = task'[u].slot))
                 /\ ~(notified'[u] /\ task'[u].at = "waiting" /\ control'.at = "notify"
                                   /\ control'.slot = task'[u].slot)
      <3>1. CASE u = t
        BY <1>2, <1>3, <3>1
      <3>2. CASE u # t
        BY <1>1, <1>2, <1>3, <3>2 DEF Handshake, Replies
      <3> QED
        BY <3>1, <3>2
    <2> QED
      BY <1>1, <2>2, <2>3, <2>4 DEF Replies
  <1>6. AdminReplies'
    BY <1>1, <1>2, <1>3, AdminStays DEF Handshake
  <1> QED
    BY <1>4, <1>5, <1>6 DEF Handshake

\* A task that returned, or is idle, goes on without the slots.
LEMMA LocalHand ==
    ASSUME Shape, Handshake, NEW t \in {"mqtt", "page"},
           task[t].at \in {"idle", "returned"}, task'[t].at \in {"idle", "returned"},
           \A u \in Submitters : u # t => task'[u] = task[u],
           UNCHANGED <<slots, queue, control, notified, admin>>
    PROVE  Handshake'
  <1>1. t \in Submitters /\ ~notified[t]
    BY DEF Submitters, Handshake, Replies
  <1>2. Stages'
    BY SameStages DEF Handshake
  <1>3. Replies'
    BY <1>1, MoveHand DEF Handshake
  <1>4. AdminReplies'
    BY <1>1, AdminStays DEF Handshake
  <1> QED
    BY <1>2, <1>3, <1>4 DEF Handshake

\* A submitter that was idle takes a slot: the callback and the page.
LEMMA SubmitHand ==
    ASSUME Shape, Handshake, NEW t \in {"mqtt", "page"}, NEW m, acquire_and_send(t, m),
           task[t].at = "idle", UNCHANGED <<control, notified, admin>>
    PROVE  Handshake'
  <1>1. t \in Submitters /\ ~notified[t]
    BY DEF Submitters, Handshake, Replies
  <1>2. Stages' /\ Replies'
    BY <1>1, AcquireHand DEF Handshake
  <1>3. task'[t].at # "admin" /\ \A u \in Submitters : u # t => task'[u] = task[u]
    BY <1>1, AcquireFacts DEF NoSlotFor, SlotFor
  <1>4. AdminReplies'
    BY <1>1, <1>3, AdminStays DEF Handshake
  <1> QED
    BY <1>2, <1>4 DEF Handshake

\* Every step without a late reply keeps the handshake of slot, submitter and
\* control task.
LEMMA HandshakeStep == Shape /\ Handshake /\ Next /\ ~late' => Handshake'
  <1> SUFFICES ASSUME Shape, Handshake, Next, ~late' PROVE Handshake'
    OBVIOUS
  <1>1. CASE receive \/ link \/ drain_deferred_results
    BY <1>1, SameHand DEF receive, link, drain_deferred_results
  <1>2. CASE take_command
    <2>1. \/ UNCHANGED <<slots, queue, task>>
          \/ acquire_and_send("mqtt", Head(commands))
      BY <1>2 DEF take_command
    <2>2. task["mqtt"].at = "idle" /\ UNCHANGED <<control, notified, admin>>
      BY <1>2 DEF take_command, CommandLoop
    <2> QED
      BY <2>1, <2>2, SameHand, SubmitHand
  <1>3. CASE finish_command
    <2>1. /\ task["mqtt"].at = "returned" /\ UNCHANGED <<slots, queue, control, notified, admin>>
          /\ task' = [task EXCEPT !["mqtt"] = Idle]
      BY <1>3 DEF finish_command
    <2>2. task'["mqtt"].at = "idle" /\ \A u \in Submitters : u # "mqtt" => task'[u] = task[u]
      BY <2>1 DEF Shape, TaskShape, Submitters, Idle
    <2> QED
      BY <2>1, <2>2, LocalHand
  <1>4. CASE page_answer
    <2>1. /\ task["page"].at = "returned" /\ UNCHANGED <<slots, queue, control, notified, admin>>
          /\ task' = [task EXCEPT !["page"] = Idle]
      BY <1>4 DEF page_answer
    <2>2. task'["page"].at = "idle" /\ \A u \in Submitters : u # "page" => task'[u] = task[u]
      BY <2>1 DEF Shape, TaskShape, Submitters, Idle
    <2> QED
      BY <2>1, <2>2, LocalHand
  <1>5. CASE take_admin_command
    <2>1. /\ task["mqtt"].at = "idle" /\ UNCHANGED <<slots, queue, control, notified>>
          /\ Head(admin_queue) \in Messages
      BY <1>5, SeqOfFacts DEF take_admin_command, CommandLoop, Shape, WireShape, HubAdmin
    <2>2. Head(admin_queue) \in Requests /\ Head(admin_queue).from = "mqtt"
      BY <2>1, ControlAssumption DEF Requests
    <2>3. UNCHANGED <<admin, task>> \/ admin_send("mqtt", Head(admin_queue))
      BY <1>5 DEF take_admin_command
    <2> QED
      BY <2>1, <2>2, <2>3, SameHand, SendHand
  <1>6. CASE page_request
    <2>1. /\ task["page"].at = "idle" /\ UNCHANGED <<control, notified>>
      BY <1>6 DEF page_request
    <2>2. PICK m \in LocalWork : \/ admin_send("page", m) /\ UNCHANGED <<slots, queue>>
                                 \/ acquire_and_send("page", m) /\ UNCHANGED admin
      BY <1>6 DEF page_request
    <2>3. m \in Requests /\ m.from = "page"
      BY ControlAssumption DEF Requests
    <2> QED
      BY <2>1, <2>2, <2>3, SendHand, SubmitHand
  <1> QED
    BY <1>1, <1>2, <1>3, <1>4, <1>5, <1>6, ReceivedHand, TimeoutHand, TakeHand, CopyHand,
       ExecuteHand, CompleteHand, NotifyHand, AdminTakeHand, AdminReplyHand, AdminOverHand
       DEF Next

-----------------------------------------------------------------------------
(* What the cache remembers *)

\* the ids of the hub are not the page's; saving presets starts no effect
LEMMA WorkFacts ==
    /\ \A m \in Messages, n \in LocalWork : m.id # n.id
    /\ \A m \in Messages : m # None /\ m.from = "mqtt"
    /\ \A m \in LocalWork : m.from = "page"
    /\ \A from, a :
         node_control_execute_inline("save_led", from, a, "inactive").effect = None
  <1>1. \A from, a :
          node_control_execute_inline("save_led", from, a, "inactive").effect = None
    BY DEF node_control_execute_inline, Rejected
  <1> QED
    BY <1>1, ControlAssumption

\* With room for every id there is room for one more that is not remembered.
LEMMA RoomForOne ==
    ASSUME Shape, CacheOnce, RoomForIds, NEW x \in ValidIds, ~Remembered(x)
    PROVE  Len(cache) < NODE_MQTT_DUP_CACHE_SIZE
  <1> DEFINE n == Len(cache)
             f == [k \in 1 .. n |-> cache[k].id]
             T == ValidIds \ {x}
  <1>1. n \in Nat /\ DOMAIN cache = 1 .. n
    BY SeqFacts DEF Shape, PastShape
  <1>2. f \in Injection(1 .. n, T)
    <2>1. \A k \in 1 .. n : cache[k].id \in T
      BY <1>1 DEF CacheOnce, Remembered
    <2>2. \A j, k \in 1 .. n : f[j] = f[k] => j = k
      BY <1>1 DEF CacheOnce
    <2> QED
      BY <2>1, <2>2 DEF Injection, IsInjective
  <1>3. IsFiniteSet(T) /\ Cardinality(T) = Cardinality(ValidIds) - 1
    BY FS_RemoveElement DEF RoomForIds
  <1>4. Cardinality(1 .. n) <= Cardinality(T)
    BY <1>2, <1>3, FS_Injection
  <1>5. Cardinality(1 .. n) = n
    <2>1. 1 \in Int /\ n \in Int
      BY <1>1
    <2>2. Cardinality(1 .. n) = IF 1 > n THEN 0 ELSE n - 1 + 1
      BY <2>1, FS_Interval
    <2> QED
      BY <1>1, <2>2
  <1>6. Cardinality(ValidIds) \in Nat
    BY FS_CardinalityType DEF RoomForIds
  <1> QED
    BY <1>1, <1>3, <1>4, <1>5, <1>6, ControlAssumption DEF RoomForIds

\* node_mqtt_duplicate_remember while there is room
LEMMA RememberFacts ==
    ASSUME Shape, Len(cache) < NODE_MQTT_DUP_CACHE_SIZE,
           NEW m, NEW r, node_mqtt_duplicate_remember(m, r)
    PROVE  /\ \A x : Remembered(x)' <=> Remembered(x) \/ x = m.id
           /\ \A k \in DOMAIN cache' : \/ k \in DOMAIN cache /\ cache'[k] = cache[k]
                                       \/ cache'[k] = Answer(m, r.of, r.status)
           /\ (\A j, k \in DOMAIN cache : cache[j].id = cache[k].id => j = k)
                /\ ~Remembered(m.id)
                => \A j, k \in DOMAIN cache' : cache'[j].id = cache'[k].id => j = k
  <1> DEFINE e == Answer(m, r.of, r.status)
  <1>1. cache' = Append(cache, e) /\ e.id = m.id
    BY DEF node_mqtt_duplicate_remember, Answer
  <1>2. IsSeq(cache)
    BY DEF Shape, PastShape
  <1>3. /\ Len(cache) \in Nat /\ DOMAIN cache = 1 .. Len(cache)
        /\ DOMAIN cache' = 1 .. Len(cache) + 1
        /\ \A k \in DOMAIN cache : cache'[k] = cache[k]
        /\ cache'[Len(cache) + 1] = e
    BY <1>1, <1>2, SeqFacts
  <1>4. \A k \in DOMAIN cache' : k \in DOMAIN cache \/ k = Len(cache) + 1
    BY <1>3
  <1>5. DOMAIN cache \subseteq DOMAIN cache' /\ Len(cache) + 1 \in DOMAIN cache'
    BY <1>3
  <1>6. ASSUME NEW x PROVE Remembered(x)' <=> Remembered(x) \/ x = m.id
    BY <1>1, <1>3, <1>4, <1>5 DEF Remembered
  <1>7. ASSUME \A j, k \in DOMAIN cache : cache[j].id = cache[k].id => j = k,
               ~Remembered(m.id), NEW j \in DOMAIN cache', NEW k \in DOMAIN cache',
               cache'[j].id = cache'[k].id
        PROVE  j = k
    BY <1>1, <1>3, <1>4, <1>7 DEF Remembered
  <1> QED
    BY <1>3, <1>4, <1>6, <1>7

\* A message that is not answered at once is not remembered.
LEMMA NotRemembered ==
    ASSUME NEW m \in Messages, ~AtOnce(m)
    PROVE  m.valid /\ m.id \in ValidIds /\ ~Remembered(m.id)
  BY DEF AtOnce, node_mqtt_duplicate_find, ToSet, Remembered, ValidIds

\* What the command task has in hand is its own business.
HandKept == /\ cache' = cache
            /\ task'["mqtt"].work = task["mqtt"].work
            /\ task'["mqtt"].at = "idle" <=> task["mqtt"].at = "idle"
            /\ task'["mqtt"].at = "waiting" =>
                 task["mqtt"].at = "waiting" /\ task'["mqtt"].slot = task["mqtt"].slot
            /\ task'["mqtt"].at = "admin" => task["mqtt"].at = "admin"

\* The messages known to the duplicate cache and in hand are those of the mqtt
\* task alone.
LEMMA OtherHand ==
    ASSUME NEW t, t # "mqtt", cache' = cache, \A u \in Submitters : u # t => task'[u] = task[u]
    PROVE  HandKept
  BY DEF HandKept, Submitters

\* Only three steps change what the cache knows or the mqtt task has in hand.
LEMMA KeepsHand ==
    ASSUME Shape, Next, ~take_command, ~take_admin_command, ~finish_command
    PROVE  HandKept
  <1> USE DEF wires
  <1>1. CASE \/ receive \/ link \/ drain_deferred_results \/ take_request
             \/ copy_request \/ execute \/ complete \/ notify
    <2>1. cache' = cache /\ task' = task
      BY <1>1 DEF receive, link, drain_deferred_results, take_request, copy_request,
                  execute, complete, notify
    <2> QED
      BY <2>1 DEF HandKept
  <1>2. ASSUME NEW t \in Submitters, reply_received(t) \/ reply_timeout(t) PROVE HandKept
    <2>1. cache' = cache /\ Return(t) /\ task[t].at = "waiting"
      BY <1>2 DEF reply_received, reply_timeout
    <2> QED
      BY <2>1, ReturnFacts DEF HandKept, Submitters
  <1>3. ASSUME NEW t \in {"mqtt", "page"}, admin_wait_over(t) PROVE HandKept
    <2>1. cache' = cache /\ Return(t) /\ task[t].at = "admin" /\ t \in Submitters
      BY <1>3 DEF admin_wait_over, Submitters
    <2> QED
      BY <2>1, ReturnFacts DEF HandKept, Submitters
  <1>4. CASE admin_take
    <2>1. /\ cache' = cache
          /\ task' = task \/ acquire_and_send("admin", [Head(admin.requests) EXCEPT !.from = "admin"])
      BY <1>4 DEF admin_take
    <2> QED
      BY <2>1, AcquireFacts, OtherHand DEF Submitters, HandKept
  <1>5. CASE admin_reply
    BY <1>5 DEF admin_reply, HandKept, Submitters, Shape, TaskShape, IsTask, TaskFields
  <1>6. CASE page_request
    <2>1. /\ cache' = cache
          /\ \E m \in LocalWork : admin_send("page", m) \/ acquire_and_send("page", m)
      BY <1>6 DEF page_request
    <2> QED
      BY <2>1, AcquireFacts, SendFacts, OtherHand DEF Submitters
  <1>7. CASE page_answer
    BY <1>7 DEF page_answer, HandKept, Shape, TaskShape, Submitters
  <1> QED
    BY <1>1, <1>2, <1>3, <1>4, <1>5, <1>6, <1>7 DEF Next

\* With room for all ids: the cache has none twice, and not the one in hand.
LEMMA CacheOnceStep ==
    ASSUME Shape, Next, RoomForIds, CacheOnce
    PROVE  CacheOnce'
  <1>1. CASE HandKept
    BY <1>1 DEF HandKept, CacheOnce, Remembered, Mine
  \* a message is remembered that was not yet
  <1>2. ASSUME NEW m, NEW r, m.id \in ValidIds, ~Remembered(m.id),
               node_mqtt_duplicate_remember(m, r), task'["mqtt"].at = "idle"
        PROVE  CacheOnce'
    <2>1. Len(cache) < NODE_MQTT_DUP_CACHE_SIZE
      BY <1>2, RoomForOne
    <2>2. /\ \A k \in DOMAIN cache' : \/ k \in DOMAIN cache /\ cache'[k] = cache[k]
                                      \/ cache'[k] = Answer(m, r.of, r.status)
          /\ \A j, k \in DOMAIN cache' : cache'[j].id = cache'[k].id => j = k
      BY <1>2, <2>1, RememberFacts DEF CacheOnce
    <2>3. \A k \in DOMAIN cache' : cache'[k].id \in ValidIds
      BY <1>2, <2>2 DEF CacheOnce, Answer
    <2> QED
      BY <1>2, <2>2, <2>3 DEF CacheOnce
  \* a message is taken
  <1>3. ASSUME NEW m \in Messages, ~AtOnce(m), cache' = cache, task'["mqtt"].work = m
        PROVE  CacheOnce'
    BY <1>3, NotRemembered DEF CacheOnce, Remembered, Mine
  <1>4. CASE take_command
    <2>1. Head(commands) \in Messages /\ task["mqtt"].at = "idle"
      BY <1>4, SeqOfFacts DEF take_command, CommandLoop, Shape, WireShape, HubCommands
    <2>2. CASE task' = task /\ cache' = cache
      BY <2>2, <1>1 DEF HandKept
    <2>3. CASE /\ ~AtOnce(Head(commands)) /\ task' = task
               /\ node_mqtt_duplicate_remember(Head(commands), s_result')
      BY <2>1, <2>3, <1>2, NotRemembered
    <2>4. CASE /\ ~AtOnce(Head(commands)) /\ cache' = cache
               /\ acquire_and_send("mqtt", Head(commands))
      BY <2>1, <2>4, <1>3, AcquireFacts DEF Submitters
    <2> QED
      BY <1>4, <2>2, <2>3, <2>4 DEF take_command
  <1>5. CASE take_admin_command
    <2>1. Head(admin_queue) \in Messages /\ cache' = cache
      BY <1>5, SeqOfFacts DEF take_admin_command, Shape, WireShape, HubAdmin
    <2>2. CASE task' = task
      BY <2>1, <2>2, <1>1 DEF HandKept
    <2>3. CASE ~AtOnce(Head(admin_queue)) /\ admin_send("mqtt", Head(admin_queue))
      BY <2>1, <2>3, <1>3, SendFacts DEF Submitters
    <2> QED
      BY <1>5, <2>2, <2>3 DEF take_admin_command
  <1>6. CASE finish_command
    <2>1. /\ task["mqtt"].at # "idle" /\ task["mqtt"].work \in Messages
          /\ task["mqtt"].work.valid /\ ~Remembered(task["mqtt"].work.id)
      BY <1>6 DEF finish_command, Shape, TaskShape, CacheOnce, Mine
    <2>2. task["mqtt"].work.id \in ValidIds
      BY <2>1 DEF ValidIds
    <2>3. task'["mqtt"].at = "idle"
      BY <1>6 DEF finish_command, Shape, TaskShape, Submitters, Idle
    <2>4. \E r : node_mqtt_duplicate_remember(task["mqtt"].work, r)
      BY <1>6 DEF finish_command
    <2> QED
      BY <1>2, <2>1, <2>2, <2>3, <2>4
  <1> QED
    BY <1>1, <1>4, <1>5, <1>6, KeepsHand

-----------------------------------------------------------------------------
(* Whose work the slots hold *)

\* A step that fills no slot keeps the kinds.
LEMMA KindsKept ==
    ASSUME Kinds,
           \A k \in Slot : slots'[k].state # "FREE" =>
             /\ slots[k].state # "FREE"
             /\ slots'[k].reply = slots[k].reply /\ slots'[k].work = slots[k].work,
           control'.at = "processing" => control'.work = slots'[control'.slot].work,
           task'["mqtt"].at = "waiting" => slots'[task'["mqtt"].slot].work = task'["mqtt"].work
    PROVE  Kinds'
  BY DEF Kinds

\* A new request in a slot is of the kind of its submitter.
LEMMA AcquireKinds ==
    ASSUME Shape, Stages, Replies, Kinds, NEW t \in Submitters, NEW m, KindOf(t, m),
           acquire_and_send(t, m), task[t].at = "idle", UNCHANGED control
    PROVE  Kinds'
  <1>1. /\ \A u \in Submitters : u # t => task'[u] = task[u]
        /\ task'[t].work = m
        /\ NoSlotFor(t) \/ \E i \in Slot : SlotFor(t, m, i)
    BY AcquireFacts
  <1>2. CASE NoSlotFor(t)
    <2>1. slots' = slots /\ (task'["mqtt"].at = "waiting" => task'["mqtt"] = task["mqtt"])
      BY <1>1, <1>2 DEF NoSlotFor, Submitters
    <2> QED
      BY <2>1 DEF Kinds
  <1>3. ASSUME NEW i \in Slot, SlotFor(t, m, i) PROVE Kinds'
    <2>1. /\ slots[i].state = "FREE" /\ slots'[i].reply = t /\ slots'[i].work = m
          /\ \A k \in Slot : k # i => slots'[k] = slots[k]
          /\ task'[t].slot = i
      BY <1>3 DEF SlotFor
    <2>2. control.at = "processing" => control.slot \in Slot \ {i}
      BY <2>1 DEF Stages
    <2>3. t # "mqtt" /\ task["mqtt"].at = "waiting" => task["mqtt"].slot \in Slot \ {i}
      BY <2>1 DEF Replies, Live, LiveStates, Submitters
    <2>4. \A k \in Slot : slots'[k].state # "FREE" => KindOf(slots'[k].reply, slots'[k].work)
      BY <2>1 DEF Kinds
    <2>5. control'.at = "processing" => control'.work = slots'[control'.slot].work
      BY <2>1, <2>2 DEF Kinds
    <2>6. task'["mqtt"].at = "waiting" => slots'[task'["mqtt"].slot].work = task'["mqtt"].work
      BY <1>1, <2>1, <2>3 DEF Kinds, Submitters
    <2> QED
      BY <2>4, <2>5, <2>6 DEF Kinds
  <1> QED
    BY <1>1, <1>2, <1>3

\* The slots and the control task are left alone.
LEMMA SameKinds ==
    ASSUME Kinds, UNCHANGED slots, control' = control \/ control'.at # "processing",
           \/ task'["mqtt"].at # "waiting"
           \/ /\ task["mqtt"].at = "waiting" /\ task'["mqtt"].slot = task["mqtt"].slot
              /\ task'["mqtt"].work = task["mqtt"].work
    PROVE  Kinds'
  BY DEF Kinds

\* Every step keeps the work of slot, submitter and control task of one kind.
LEMMA KindsStep ==
    ASSUME Shape, Handshake, Kinds, Next, ~late'
    PROVE  Kinds'
  <1> USE DEF wires
  <1>0. Stages /\ Replies
    BY DEF Handshake
  <1>1. ASSUME ~take_command,
               \/ receive \/ link \/ drain_deferred_results \/ execute \/ notify
               \/ finish_command \/ take_admin_command \/ admin_reply \/ page_answer
               \/ \E t \in {"mqtt", "page"} : admin_wait_over(t)
        PROVE  Kinds'
    <2>1. slots' = slots
      BY <1>1 DEF receive, link, drain_deferred_results, execute, notify, finish_command,
                  take_admin_command, admin_reply, page_answer, admin_wait_over
    <2>2. control' = control \/ control'.at # "processing"
      <3>1. notify => control'.at = "idle"
        BY DEF notify, Idle
      <3>2. execute => control'.at = "executed"
        BY DEF execute, Shape, ControlShape, TaskFields
      <3> QED
        BY <1>1, <3>1, <3>2 DEF receive, link, drain_deferred_results, finish_command,
                  take_admin_command, admin_reply, page_answer, admin_wait_over
    <2>3. HandKept \/ task'["mqtt"].at # "waiting"
      <3>1. finish_command => task'["mqtt"].at = "idle"
        BY DEF finish_command, Shape, TaskShape, Submitters, Idle
      <3>2. take_admin_command => task' = task \/ task'["mqtt"].at = "admin"
        BY SendFacts DEF take_admin_command, Submitters
      <3>3. take_admin_command => task'["mqtt"].at # "waiting"
        BY <3>2 DEF take_admin_command, CommandLoop
      <3> QED
        BY <1>1, <3>1, <3>3, KeepsHand
    <2> QED
      BY <2>1, <2>2, <2>3, SameKinds DEF HandKept
  <1>2. CASE take_command
    <2>1. /\ Head(commands) \in Messages /\ task["mqtt"].at = "idle" /\ control' = control
          /\ UNCHANGED <<slots, task>> \/ acquire_and_send("mqtt", Head(commands))
      BY <1>2, SeqOfFacts DEF take_command, CommandLoop, Shape, WireShape, HubCommands
    <2>2. KindOf("mqtt", Head(commands))
      BY <2>1 DEF KindOf, Submitters
    <2> QED
      BY <1>0, <2>1, <2>2, AcquireKinds, SameKinds DEF Submitters
  <1>3. CASE page_request
    <2>1. task["page"].at = "idle" /\ control' = control
      BY <1>3 DEF page_request
    <2>2. PICK m \in LocalWork : \/ admin_send("page", m) /\ slots' = slots
                                 \/ acquire_and_send("page", m)
      BY <1>3 DEF page_request
    <2>3. KindOf("page", m)
      BY DEF KindOf, Submitters
    <2>4. CASE admin_send("page", m) /\ slots' = slots
      <3>1. task'["mqtt"] = task["mqtt"]
        BY <2>4, SendFacts DEF Submitters
      <3> QED
        BY <2>1, <2>4, <3>1, SameKinds
    <2>5. CASE acquire_and_send("page", m)
      BY <1>0, <2>1, <2>3, <2>5, AcquireKinds DEF Submitters
    <2> QED
      BY <2>2, <2>4, <2>5
  <1>4. CASE admin_take
    <2> DEFINE m == [Head(admin.requests) EXCEPT !.from = "admin"]
    <2>1. task["admin"].at = "idle" /\ control' = control
      BY <1>4 DEF admin_take, Handshake, AdminReplies
    <2>2. CASE UNCHANGED <<task, slots>>
      BY <2>1, <2>2, SameKinds
    <2>3. CASE Head(admin.requests).command = "save_led" /\ acquire_and_send("admin", m)
      <3>1. Head(admin.requests) \in Requests
        BY <1>4, SeqOfFacts DEF admin_take, Shape, AdminShape
      <3>2. m.command = "save_led"
        BY <2>3, <3>1, ControlAssumption DEF Requests
      <3>3. KindOf("admin", m)
        BY <3>2 DEF KindOf, Submitters
      <3> QED
        BY <1>0, <2>1, <2>3, <3>3, AcquireKinds DEF Submitters
    <2> QED
      BY <1>4, <2>2, <2>3 DEF admin_take
  <1>5. ASSUME NEW t \in Submitters, reply_received(t) PROVE Kinds'
    <2> DEFINE i == task[t].slot
    <2>1. /\ task[t].at = "waiting" /\ i \in Slot /\ slots[i].state = "COMPLETED"
          /\ slots[i].reply = t /\ control' = control
      BY <1>5 DEF reply_received, Handshake, Replies
    <2>2. slots'[i].state = "FREE" /\ \A k \in Slot : k # i => slots'[k] = slots[k]
      BY <1>5, <2>1 DEF reply_received, Shape, SlotShape, FreeSlot
    <2>3. control.at = "processing" => control.slot \in Slot \ {i}
      BY <2>1 DEF Handshake, Stages
    <2>4. task'[t].at = "returned" /\ \A u \in Submitters : u # t => task'[u] = task[u]
      BY <1>5, ReturnFacts DEF reply_received
    <2>5. task'["mqtt"].at = "waiting" =>
            task'["mqtt"] = task["mqtt"] /\ task["mqtt"].slot \in Slot \ {i}
      BY <2>1, <2>4 DEF Handshake, Replies, Submitters
    <2> QED
      BY <2>1, <2>2, <2>3, <2>5, KindsKept DEF Kinds
  <1>6. ASSUME NEW t \in Submitters, reply_timeout(t) PROVE Kinds'
    <2> DEFINE i == task[t].slot
    <2>1. task[t].at = "waiting" /\ i \in Slot /\ control' = control /\ slots[i].state # "FREE"
      BY <1>6 DEF reply_timeout, Handshake, Replies, Live, LiveStates
    <2>2. slots[i].state # "COMPLETED" /\ slots' = [slots EXCEPT ![i] = TimedOutSlot(@)]
      BY <1>6 DEF reply_timeout
    <2>3. /\ slots'[i].reply = slots[i].reply /\ slots'[i].work = slots[i].work
          /\ \A k \in Slot : k # i => slots'[k] = slots[k]
      BY <2>1, <2>2 DEF TimedOutSlot, Shape, SlotShape, IsSlot, SlotFields
    <2>4. \A k \in Slot : slots'[k].reply = slots[k].reply /\ slots'[k].work = slots[k].work
      BY <2>3
    <2>5. task'[t].at = "returned" /\ \A u \in Submitters : u # t => task'[u] = task[u]
      BY <1>6, ReturnFacts DEF reply_timeout
    <2>6. task'["mqtt"].at = "waiting" =>
            task'["mqtt"] = task["mqtt"] /\ task["mqtt"].slot \in Slot
      BY <2>5 DEF Handshake, Replies, Submitters
    <2>7. control.at = "processing" => control.slot \in Slot
      BY DEF Handshake, Stages
    <2>8. \A k \in Slot : slots'[k].state # "FREE" => slots[k].state # "FREE"
      BY <2>1, <2>3
    <2> QED
      BY <2>1, <2>4, <2>6, <2>7, <2>8, KindsKept DEF Kinds
  <1>7. CASE take_request
    <2> DEFINE i == Head(queue)
    <2>1. i \in Slot /\ slots[i].state \in {"QUEUED", "CANCELLED"} /\ task' = task
      BY <1>7, InQueueTail DEF take_request, Handshake, Stages, Shape
    <2>2. /\ \A k \in Slot : k # i => slots'[k] = slots[k]
          /\ \/ slots[i].state = "CANCELLED" /\ slots'[i].state = "FREE"
             \/ slots'[i].reply = slots[i].reply /\ slots'[i].work = slots[i].work
          /\ control'.at # "processing"
      BY <1>7, <2>1 DEF take_request, Shape, SlotShape, IsSlot, SlotFields, FreeSlot
    <2>3. task["mqtt"].at = "waiting" =>
            task["mqtt"].slot \in Slot /\ slots[task["mqtt"].slot].state # "CANCELLED"
      BY DEF Handshake, Replies, Live, LiveStates, Submitters
    <2>4. task["mqtt"].at = "waiting" =>
            slots'[task["mqtt"].slot].work = slots[task["mqtt"].slot].work
      BY <2>2, <2>3
    <2> QED
      BY <2>1, <2>2, <2>4, KindsKept DEF Kinds
  <1>8. CASE copy_request
    <2> DEFINE i == control.slot
    <2>1. i \in Slot /\ slots[i].state = "COPYING" /\ task' = task
      BY <1>8 DEF copy_request, Handshake, Stages
    <2>2. /\ \A k \in Slot : slots'[k].reply = slots[k].reply /\ slots'[k].work = slots[k].work
          /\ \A k \in Slot : slots'[k].state # "FREE" => slots[k].state # "FREE"
      BY <1>8, <2>1 DEF copy_request, Shape, SlotShape, IsSlot, SlotFields
    <2>3. control'.slot = i /\ control'.work = slots[i].work
      BY <1>8 DEF copy_request, Shape, ControlShape, TaskFields
    <2>4. task["mqtt"].at = "waiting" => task["mqtt"].slot \in Slot
      BY DEF Handshake, Replies, Submitters
    <2> QED
      BY <2>1, <2>2, <2>3, <2>4, KindsKept DEF Kinds
  <1>9. CASE complete
    <2> DEFINE i == control.slot
    <2>1. i \in Slot /\ slots[i].state \in {"PROCESSING", "ABANDONED"} /\ task' = task
      BY <1>9 DEF complete, Handshake, Stages
    <2>2. /\ \A k \in Slot : k # i => slots'[k] = slots[k]
          /\ \/ slots[i].state = "ABANDONED" /\ slots'[i].state = "FREE"
             \/ slots'[i].reply = slots[i].reply /\ slots'[i].work = slots[i].work
      BY <1>9, <2>1 DEF complete, Shape, SlotShape, IsSlot, SlotFields, FreeSlot
    <2>3. control'.at # "processing"
      <3>1. CASE slots[i].state = "ABANDONED"
        BY <1>9, <3>1 DEF complete, Idle
      <3>2. CASE slots[i].state # "ABANDONED"
        BY <1>9, <3>2 DEF complete, Shape, ControlShape, TaskFields
      <3> QED
        BY <3>1, <3>2
    <2>4. task["mqtt"].at = "waiting" =>
            task["mqtt"].slot \in Slot /\ slots[task["mqtt"].slot].state # "ABANDONED"
      BY DEF Handshake, Replies, Live, LiveStates, Submitters
    <2>5. task["mqtt"].at = "waiting" =>
            slots'[task["mqtt"].slot].work = slots[task["mqtt"].slot].work
      BY <2>2, <2>4
    <2> QED
      BY <2>1, <2>2, <2>3, <2>5, KindsKept DEF Kinds
  <1> QED
    BY <1>1, <1>2, <1>3, <1>4, <1>5, <1>6, <1>7, <1>8, <1>9 DEF Next

-----------------------------------------------------------------------------
(* One request takes effect once *)

\* What has run stays as it was, and so does what is known; nothing new is
\* queued, copied or asked for.
LEMMA OnceKept ==
    ASSUME OnceMore, executed' = executed,
           \A x : Known(x) => Known(x)',
           task'["mqtt"].at \in {"waiting", "admin"} =>
             /\ task'["mqtt"].at = task["mqtt"].at /\ task'["mqtt"].work = task["mqtt"].work
             /\ task'["mqtt"].at = "waiting" => task'["mqtt"].slot = task["mqtt"].slot,
           task'["mqtt"].at = "waiting"
             /\ slots'[task["mqtt"].slot].state \in {"QUEUED", "COPYING"}
             => slots[task["mqtt"].slot].state \in {"QUEUED", "COPYING"},
           control'.at = "processing" =>
             /\ control' = control
             /\ slots'[control.slot].reply = slots[control.slot].reply,
           \A k \in DOMAIN admin'.requests : admin'.requests[k].from = "mqtt" =>
             ~Ran(admin'.requests[k].id)
    PROVE  OnceMore'
  <1>1. \A x : Ran(x)' <=> Ran(x)
    BY DEF Ran
  <1>2. Mine' = task'["mqtt"].work.id
    BY DEF Mine
  <1>3. ASSUME task'["mqtt"].at = "waiting",
               slots'[task'["mqtt"].slot].state \in {"QUEUED", "COPYING"}
        PROVE  ~Ran(Mine)'
    BY <1>1, <1>2, <1>3 DEF OnceMore, Mine, Ran
  <1>4. ASSUME control'.at = "processing", slots'[control'.slot].reply = "mqtt"
        PROVE  /\ ~Ran(control.work.id)' /\ Known(control.work.id)'
               /\ task'["mqtt"].at = "waiting" /\ task'["mqtt"].slot # control'.slot
                    => Mine' # control'.work.id
               /\ task'["mqtt"].at = "admin" => Mine' # control'.work.id
    BY <1>1, <1>2, <1>4 DEF OnceMore, Mine
  <1>5. control'.at = "processing" => control' = control
    OBVIOUS
  <1>6. \A m \in Messages : Ran(m.id)' => Known(m.id)'
    BY <1>1 DEF OnceMore
  <1>7. \A m \in Messages : \A j, k \in DOMAIN executed' :
          executed'[j] = m.id /\ executed'[k] = m.id => j = k
    BY DEF OnceMore
  <1>8. \A k \in DOMAIN admin'.requests : admin'.requests[k].from = "mqtt" =>
          ~Ran(admin'.requests[k].id)
    OBVIOUS
  <1> QED
    BY <1>1, <1>3, <1>4, <1>5, <1>6, <1>7, <1>8 DEF OnceMore, Ran

\* What the command task has in hand stays in hand.
LEMMA HandKnown ==
    ASSUME HandKept
    PROVE  /\ \A x : Known(x) => Known(x)'
           /\ task["mqtt"].at # "idle" => Mine' = Mine
  BY DEF HandKept, Known, Remembered, Mine

\* What takes effect is added at the end.
LEMMA RanAppend ==
    ASSUME Shape, NEW x, executed' = Append(executed, x)
    PROVE  /\ \A y : Ran(y)' <=> Ran(y) \/ y = x
           /\ \A y : (\A j, k \in DOMAIN executed : executed[j] = y /\ executed[k] = y => j = k)
                     /\ (y = x => ~Ran(y))
                     => \A j, k \in DOMAIN executed' : executed'[j] = y /\ executed'[k] = y => j = k
  <1>1. IsSeq(executed)
    BY DEF Shape, PastShape
  <1>2. /\ Len(executed) \in Nat /\ DOMAIN executed = 1 .. Len(executed)
        /\ DOMAIN executed' = 1 .. Len(executed) + 1
        /\ \A k \in DOMAIN executed : executed'[k] = executed[k]
        /\ executed'[Len(executed) + 1] = x
    BY <1>1, SeqFacts
  <1>3. \A k \in DOMAIN executed' : k \in DOMAIN executed \/ k = Len(executed) + 1
    BY <1>2
  <1>4. DOMAIN executed \subseteq DOMAIN executed' /\ Len(executed) + 1 \in DOMAIN executed'
    BY <1>2
  <1>5. ASSUME NEW y PROVE Ran(y)' <=> Ran(y) \/ y = x
    BY <1>2, <1>3, <1>4 DEF Ran
  <1>6. ASSUME NEW y, \A j, k \in DOMAIN executed : executed[j] = y /\ executed[k] = y => j = k,
               y = x => ~Ran(y), NEW j \in DOMAIN executed', NEW k \in DOMAIN executed',
               executed'[j] = y, executed'[k] = y
        PROVE  j = k
    BY <1>2, <1>3, <1>6 DEF Ran
  <1> QED
    BY <1>5, <1>6

\* A step that starts nothing and takes nothing in hand.
LEMMA QuietOnce ==
    ASSUME OnceMore, HandKept, executed' = executed, UNCHANGED <<slots, admin>>,
           control' = control \/ control'.at # "processing"
    PROVE  OnceMore'
  <1>1. task'["mqtt"].at \in {"waiting", "admin"} =>
          /\ task'["mqtt"].at = task["mqtt"].at /\ task'["mqtt"].work = task["mqtt"].work
          /\ task'["mqtt"].at = "waiting" => task'["mqtt"].slot = task["mqtt"].slot
    BY DEF HandKept
  <1>2. \A k \in DOMAIN admin'.requests :
          admin'.requests[k].from = "mqtt" => ~Ran(admin'.requests[k].id)
    BY DEF OnceMore
  <1>3. \A x : Known(x) => Known(x)'
    BY HandKnown
  <1> QED
    BY <1>1, <1>2, <1>3, OnceKept

\* A message in hand that is new has not run.
LEMMA NewNotRan ==
    ASSUME OnceMore, task["mqtt"].at = "idle", NEW m \in Messages, ~Remembered(m.id)
    PROVE  ~Ran(m.id)
  BY DEF OnceMore, Known

\* The message taken by the command task goes to the control task.
LEMMA AcquireOnce ==
    ASSUME Shape, Stages, Replies, AdminReplies, OnceMore, NEW m \in Messages,
           ~Remembered(m.id), task["mqtt"].at = "idle", acquire_and_send("mqtt", m),
           UNCHANGED <<control, executed, cache, admin>>
    PROVE  OnceMore'
  <1>1. /\ task'["mqtt"].work = m /\ task'["mqtt"].at \in {"waiting", "returned"}
        /\ \A k \in Slot : slots[k].state # "FREE" => slots'[k] = slots[k]
    <2>1. CASE NoSlotFor("mqtt")
      BY <2>1, AcquireFacts DEF NoSlotFor, Submitters
    <2>2. ASSUME NEW i \in Slot, SlotFor("mqtt", m, i)
          PROVE  task'["mqtt"].at = "waiting" /\ \A k \in Slot : slots[k].state # "FREE" => slots'[k] = slots[k]
      BY <2>2 DEF SlotFor
    <2> QED
      BY <2>1, <2>2, AcquireFacts DEF Submitters
  <1>2. ~Ran(m.id)
    BY NewNotRan
  <1>3. Mine' = m.id
    BY <1>1 DEF Mine
  <1>4. \A x : (Known(x) => Known(x)') /\ (Known(x) => x # m.id) /\ (Ran(x)' <=> Ran(x))
    BY DEF Known, Remembered, Ran
  <1>5. control.at = "processing" =>
          control.slot \in Slot /\ slots'[control.slot] = slots[control.slot]
    BY <1>1 DEF Stages
  <1>6. \A k \in DOMAIN admin.requests : admin.requests[k].from # "mqtt"
    BY DEF AdminReplies, Asks
  <1>7. \A n \in Messages : Ran(n.id)' => Known(n.id)'
    BY <1>4 DEF OnceMore
  <1>8. ASSUME control'.at = "processing", slots'[control'.slot].reply = "mqtt"
        PROVE  /\ ~Ran(control.work.id)' /\ Known(control.work.id)'
               /\ Mine' # control'.work.id
    BY <1>3, <1>4, <1>5, <1>8 DEF OnceMore
  <1>9. \A n \in Messages : \A j, k \in DOMAIN executed' :
          executed'[j] = n.id /\ executed'[k] = n.id => j = k
    BY DEF OnceMore
  <1>10. ~Ran(Mine)'
    BY <1>2, <1>3 DEF Ran
  <1> QED
    BY <1>6, <1>7, <1>8, <1>9, <1>10 DEF OnceMore

\* The message taken by the command task goes to the admin task.
LEMMA SendOnce ==
    ASSUME Shape, AdminReplies, OnceMore, NEW m \in Messages,
           ~Remembered(m.id), task["mqtt"].at = "idle", admin_send("mqtt", m),
           UNCHANGED <<slots, control, executed, cache>>
    PROVE  OnceMore'
  <1>1. /\ task'["mqtt"].work = m /\ task'["mqtt"].at = "admin"
        /\ admin'.requests = Append(admin.requests, m)
    BY SendFacts DEF Submitters
  <1>2. ~Ran(m.id)
    BY NewNotRan
  <1>3. Mine' = m.id
    BY <1>1 DEF Mine
  <1>4. \A x : (Known(x) => Known(x)') /\ (Known(x) => x # m.id) /\ (Ran(x)' <=> Ran(x))
    BY DEF Known, Remembered, Ran
  <1>5. \A k \in DOMAIN admin'.requests :
          admin'.requests[k].from = "mqtt" => ~Ran(admin'.requests[k].id)
    <2>1. \A k \in DOMAIN admin.requests : admin.requests[k].from # "mqtt"
      BY DEF AdminReplies, Asks
    <2>2. \A k \in DOMAIN admin'.requests :
            (k \in DOMAIN admin.requests /\ admin'.requests[k] = admin.requests[k])
              \/ admin'.requests[k] = m
      <3>1. IsSeq(admin.requests)
        BY SeqOfFacts DEF Shape, AdminShape
      <3>2. /\ DOMAIN admin.requests = 1 .. Len(admin.requests)
            /\ Len(admin.requests) \in Nat
            /\ DOMAIN admin'.requests = 1 .. Len(admin.requests) + 1
            /\ \A k \in DOMAIN admin.requests : admin'.requests[k] = admin.requests[k]
            /\ admin'.requests[Len(admin.requests) + 1] = m
        BY <1>1, <3>1, SeqFacts
      <3> QED
        BY <3>2
    <2> QED
      BY <1>2, <2>1, <2>2
  <1>6. \A n \in Messages : Ran(n.id)' => Known(n.id)'
    BY <1>4 DEF OnceMore
  <1>7. ASSUME control'.at = "processing", slots'[control'.slot].reply = "mqtt"
        PROVE  /\ ~Ran(control.work.id)' /\ Known(control.work.id)'
               /\ Mine' # control'.work.id
    BY <1>3, <1>4, <1>7 DEF OnceMore
  <1>8. \A n \in Messages : \A j, k \in DOMAIN executed' :
          executed'[j] = n.id /\ executed'[k] = n.id => j = k
    BY DEF OnceMore
  <1> QED
    BY <1>1, <1>4, <1>5, <1>6, <1>7, <1>8 DEF OnceMore, Ran

\* What is done is remembered and not in hand any more.
LEMMA RememberOnce ==
    ASSUME Shape, OnceMore, Len(cache) < NODE_MQTT_DUP_CACHE_SIZE, NEW m, NEW r,
           node_mqtt_duplicate_remember(m, r),
           task["mqtt"].at # "idle" => m = task["mqtt"].work, task'["mqtt"].at = "idle",
           UNCHANGED <<slots, control, executed, admin>>
    PROVE  OnceMore'
  <1>1. \A x : Known(x) => Known(x)'
    BY RememberFacts DEF Known, Mine
  <1>2. \A k \in DOMAIN admin'.requests :
          admin'.requests[k].from = "mqtt" => ~Ran(admin'.requests[k].id)
    BY DEF OnceMore
  <1> QED
    BY <1>1, <1>2, OnceKept

\* The slots change, but nothing is queued or copied that was not.
LEMMA SlotsOnce ==
    ASSUME OnceMore, HandKept, executed' = executed, UNCHANGED admin,
           \A k \in Slot : slots'[k].state \in {"QUEUED", "COPYING"}
                           => slots[k].state \in {"QUEUED", "COPYING"},
           task["mqtt"].at = "waiting" => task["mqtt"].slot \in Slot,
           \/ control'.at # "processing"
           \/ control' = control /\ slots'[control.slot].reply = slots[control.slot].reply
    PROVE  OnceMore'
  <1>1. task'["mqtt"].at \in {"waiting", "admin"} =>
          /\ task'["mqtt"].at = task["mqtt"].at /\ task'["mqtt"].work = task["mqtt"].work
          /\ task'["mqtt"].at = "waiting" => task'["mqtt"].slot = task["mqtt"].slot
    BY DEF HandKept
  <1>2. \A k \in DOMAIN admin'.requests :
          admin'.requests[k].from = "mqtt" => ~Ran(admin'.requests[k].id)
    BY DEF OnceMore
  <1>3. \A x : Known(x) => Known(x)'
    BY HandKnown
  <1>4. task'["mqtt"].at = "waiting"
          /\ slots'[task["mqtt"].slot].state \in {"QUEUED", "COPYING"}
          => slots[task["mqtt"].slot].state \in {"QUEUED", "COPYING"}
    BY <1>1
  <1> QED
    BY <1>1, <1>2, <1>3, <1>4, OnceKept

\* A reply ends the wait and runs nothing.
LEMMA ReceivedOnce ==
    ASSUME Shape, Handshake, OnceMore, HandKept, NEW t \in Submitters, reply_received(t)
    PROVE  OnceMore'
  <1> DEFINE i == task[t].slot
  <1>1. /\ task[t].at = "waiting" /\ i \in Slot /\ slots[i].state = "COMPLETED"
        /\ UNCHANGED <<executed, control, admin>>
    BY DEF reply_received, Handshake, Replies
  <1>2. slots'[i].state = "FREE" /\ \A k \in Slot : k # i => slots'[k] = slots[k]
    BY <1>1 DEF reply_received, Shape, SlotShape, FreeSlot
  <1>3. control.at = "processing" => control.slot \in Slot \ {i}
    BY <1>1 DEF Handshake, Stages
  <1>4. task["mqtt"].at = "waiting" => task["mqtt"].slot \in Slot
    BY DEF Handshake, Replies, Submitters
  <1> QED
    BY <1>1, <1>2, <1>3, <1>4, SlotsOnce

\* A time-out ends the wait; the request may still run, once.
LEMMA TimeoutOnce ==
    ASSUME Shape, Handshake, OnceMore, HandKept, NEW t \in Submitters, reply_timeout(t), ~late'
    PROVE  OnceMore'
  <1> DEFINE i == task[t].slot
  <1>1. /\ task[t].at = "waiting" /\ i \in Slot /\ slots[i].state # "COMPLETED"
        /\ UNCHANGED <<executed, control, admin>>
        /\ slots' = [slots EXCEPT ![i] = TimedOutSlot(@)]
    BY DEF reply_timeout, Handshake, Replies
  <1>2. /\ slots'[i].reply = slots[i].reply
        /\ slots'[i].state \in {"QUEUED", "COPYING"} => slots[i].state \in {"QUEUED", "COPYING"}
        /\ \A k \in Slot : k # i => slots'[k] = slots[k]
    BY <1>1 DEF TimedOutSlot, Shape, SlotShape, IsSlot, SlotFields
  <1>3. control.at = "processing" => control.slot \in Slot
    BY DEF Handshake, Stages
  <1>4. task["mqtt"].at = "waiting" => task["mqtt"].slot \in Slot
    BY DEF Handshake, Replies, Submitters
  <1>5. /\ \A k \in Slot : slots'[k].state \in {"QUEUED", "COPYING"}
                           => slots[k].state \in {"QUEUED", "COPYING"}
        /\ \A k \in Slot : slots'[k].reply = slots[k].reply
    BY <1>2
  <1> QED
    BY <1>1, <1>3, <1>4, <1>5, SlotsOnce

\* Taking a request runs nothing.
LEMMA TakeOnce ==
    ASSUME Shape, Handshake, OnceMore, HandKept, take_request
    PROVE  OnceMore'
  <1> DEFINE i == Head(queue)
  <1>1. /\ i \in Slot /\ slots[i].state \in {"QUEUED", "CANCELLED"}
        /\ UNCHANGED <<executed, admin>>
    BY InQueueTail DEF take_request, Handshake, Stages, Shape
  <1>2. /\ \A k \in Slot : k # i => slots'[k] = slots[k]
        /\ slots[i].state = "QUEUED" \/ slots'[i].state = "FREE"
        /\ control'.at # "processing"
    BY <1>1 DEF take_request, Shape, SlotShape, IsSlot, SlotFields, FreeSlot
  <1>3. task["mqtt"].at = "waiting" => task["mqtt"].slot \in Slot
    BY DEF Handshake, Replies, Submitters
  <1>4. \A k \in Slot : slots'[k].state \in {"QUEUED", "COPYING"}
                        => slots[k].state \in {"QUEUED", "COPYING"}
    BY <1>2
  <1> QED
    BY <1>1, <1>2, <1>3, <1>4, SlotsOnce

\* Completing a request runs nothing.
LEMMA CompleteOnce ==
    ASSUME Shape, Handshake, OnceMore, HandKept, complete
    PROVE  OnceMore'
  <1> DEFINE i == control.slot
  <1>1. i \in Slot /\ UNCHANGED <<executed, admin>>
    BY DEF complete, Handshake, Stages
  <1>2. /\ \A k \in Slot : k # i => slots'[k] = slots[k]
        /\ slots'[i].state \notin {"QUEUED", "COPYING"}
    BY <1>1 DEF complete, Shape, SlotShape, IsSlot, SlotFields, FreeSlot
  <1>3. control'.at # "processing"
    <2>1. CASE slots[i].state = "ABANDONED"
      BY <2>1 DEF complete, Idle
    <2>2. CASE slots[i].state # "ABANDONED"
      BY <2>2 DEF complete, Shape, ControlShape, TaskFields
    <2> QED
      BY <2>1, <2>2
  <1>4. task["mqtt"].at = "waiting" => task["mqtt"].slot \in Slot
    BY DEF Handshake, Replies, Submitters
  <1>5. \A k \in Slot : slots'[k].state \in {"QUEUED", "COPYING"}
                        => slots[k].state \in {"QUEUED", "COPYING"}
    BY <1>2
  <1> QED
    BY <1>1, <1>3, <1>4, <1>5, SlotsOnce

\* The control task has copied a request: the hub's is the one in hand.
LEMMA CopyOnce ==
    ASSUME Shape, Handshake, Kinds, OnceMore, HandKept, copy_request
    PROVE  OnceMore'
  <1> DEFINE i == control.slot
  <1>1. /\ i \in Slot /\ slots[i].state = "COPYING" /\ task' = task
        /\ UNCHANGED <<executed, admin, cache>>
    BY DEF copy_request, Handshake, Stages
  <1>2. /\ \A k \in Slot : k # i => slots'[k] = slots[k]
        /\ slots'[i].state = "PROCESSING" /\ slots'[i].reply = slots[i].reply
        /\ control'.slot = i /\ control'.work = slots[i].work
    BY <1>1 DEF copy_request, Shape, SlotShape, IsSlot, SlotFields, ControlShape, TaskFields
  <1>3. \A x : (Known(x)' <=> Known(x)) /\ (Ran(x)' <=> Ran(x))
    BY <1>1 DEF Known, Remembered, Ran, Mine
  <1>4. slots[i].reply = "mqtt" =>
          /\ task["mqtt"].at = "waiting" /\ task["mqtt"].slot = i
          /\ slots[i].work = task["mqtt"].work
    BY <1>1 DEF Handshake, Replies, Live, LiveStates, Waits, Kinds
  <1>5. ASSUME slots'[i].reply = "mqtt"
        PROVE  /\ ~Ran(slots[i].work.id) /\ Known(slots[i].work.id)
               /\ task'["mqtt"].at = "waiting" /\ task'["mqtt"].slot = i
    BY <1>1, <1>2, <1>4, <1>5 DEF OnceMore, Mine, Known
  <1>6. task'["mqtt"].at = "waiting"
          /\ slots'[task'["mqtt"].slot].state \in {"QUEUED", "COPYING"} => ~Ran(Mine)
    <2>1. task["mqtt"].at = "waiting" => task["mqtt"].slot \in Slot
      BY DEF Handshake, Replies, Submitters
    <2> QED
      BY <1>1, <1>2, <2>1 DEF OnceMore
  <1>7. /\ \A m \in Messages : Ran(m.id) => Known(m.id)
        /\ \A k \in DOMAIN admin'.requests :
             admin'.requests[k].from = "mqtt" => ~Ran(admin'.requests[k].id)
        /\ \A m \in Messages : \A j, k \in DOMAIN executed' :
             executed'[j] = m.id /\ executed'[k] = m.id => j = k
    BY <1>1 DEF OnceMore
  <1>8. Mine' = Mine
    BY <1>1 DEF Mine
  <1>9. ASSUME slots'[control'.slot].reply = "mqtt"
        PROVE  /\ ~Ran(control'.work.id) /\ Known(control'.work.id)
               /\ task'["mqtt"].at = "waiting" /\ task'["mqtt"].slot = control'.slot
    BY <1>2, <1>5, <1>9
  <1>10. \A x : (Known(x) => Known(x)') /\ (Ran(x)' => Ran(x))
    BY <1>3
  <1>11. ASSUME slots'[control'.slot].reply = "mqtt"
         PROVE  /\ ~Ran(control.work.id)' /\ Known(control.work.id)'
                /\ task'["mqtt"].at = "waiting" /\ task'["mqtt"].slot = control'.slot
    BY <1>1, <1>9, <1>11 DEF Known, Remembered, Ran, Mine
  <1>12. task'["mqtt"].at = "waiting"
          /\ slots'[task'["mqtt"].slot].state \in {"QUEUED", "COPYING"} => ~Ran(Mine)'
    BY <1>6, <1>8, <1>1 DEF Ran
  <1> QED
    BY <1>7, <1>10, <1>11, <1>12, <1>1 DEF OnceMore, Ran

\* A request of the hub is carried out: it has not run, is known, and is neither
\* queued again nor with the admin task.
LEMMA RunsOnce ==
    ASSUME Shape, AdminReplies, OnceMore, HandKept, NEW x, executed' = Append(executed, x),
           \A m \in Messages : m.id = x =>
             /\ ~Ran(x) /\ Known(x)
             /\ task["mqtt"].at = "waiting"
                  /\ slots'[task["mqtt"].slot].state \in {"QUEUED", "COPYING"} => Mine # x
             /\ control'.at = "processing" /\ slots'[control'.slot].reply = "mqtt"
                  => control'.work.id # x
             /\ \A k \in DOMAIN admin'.requests :
                  admin'.requests[k].from = "mqtt" => admin'.requests[k].id # x,
           task["mqtt"].at = "waiting"
             /\ slots'[task["mqtt"].slot].state \in {"QUEUED", "COPYING"}
             => slots[task["mqtt"].slot].state \in {"QUEUED", "COPYING"},
           task["mqtt"].at = "waiting" => task["mqtt"].work \in Messages,
           control'.at = "processing" /\ slots'[control'.slot].reply = "mqtt" =>
             control' = control /\ slots[control.slot].reply = "mqtt"
             /\ control.work \in Messages,
           \A k \in DOMAIN admin'.requests : admin'.requests[k].from = "mqtt" =>
             admin'.requests[k] \in Messages /\ ~Ran(admin'.requests[k].id)
    PROVE  OnceMore'
  <1>1. \A y : (Known(y) => Known(y)') /\ (Ran(y)' <=> Ran(y) \/ y = x)
    BY HandKnown, RanAppend
  <1>2. \A m \in Messages : \A j, k \in DOMAIN executed' :
          executed'[j] = m.id /\ executed'[k] = m.id => j = k
    <2>1. ASSUME NEW m \in Messages
          PROVE  \A j, k \in DOMAIN executed' : executed'[j] = m.id /\ executed'[k] = m.id => j = k
      <3>1. m.id = x => ~Ran(m.id)
        OBVIOUS
      <3>2. \A j, k \in DOMAIN executed : executed[j] = m.id /\ executed[k] = m.id => j = k
        BY DEF OnceMore
      <3> QED
        BY <3>1, <3>2, RanAppend
    <2> QED
      BY <2>1
  <1>3. \A m \in Messages : Ran(m.id)' => Known(m.id)'
    BY <1>1 DEF OnceMore
  <1>4. ASSUME task'["mqtt"].at = "waiting",
               slots'[task'["mqtt"].slot].state \in {"QUEUED", "COPYING"}
        PROVE  ~Ran(Mine)'
    <2>1. /\ task["mqtt"].at = "waiting" /\ task'["mqtt"].slot = task["mqtt"].slot
          /\ Mine' = Mine /\ Mine # x /\ ~Ran(Mine)
      BY <1>4 DEF HandKept, Mine, OnceMore
    <2>2. ~Ran(task["mqtt"].work.id)'
      BY <1>1, <2>1 DEF Mine
    <2>3. task'["mqtt"].work = task["mqtt"].work
      BY DEF HandKept
    <2> QED
      BY <2>2, <2>3 DEF Mine, Ran
  <1>5. ASSUME control'.at = "processing", slots'[control'.slot].reply = "mqtt"
        PROVE  /\ ~Ran(control.work.id)' /\ Known(control.work.id)'
               /\ task'["mqtt"].at = "waiting" /\ task'["mqtt"].slot # control'.slot
                    => Mine' # control'.work.id
               /\ task'["mqtt"].at = "admin" => Mine' # control'.work.id
    BY <1>1, <1>5 DEF OnceMore, HandKept, Mine
  <1>6. \A k \in DOMAIN admin'.requests :
          admin'.requests[k].from = "mqtt" => admin'.requests[k].id # x /\ ~Ran(admin'.requests[k].id)
    OBVIOUS
  <1>7. \A k \in DOMAIN admin'.requests :
          admin'.requests[k].from = "mqtt" =>
            ~(\E j \in DOMAIN executed' : executed'[j] = admin'.requests[k].id)
    BY <1>1, <1>6 DEF Ran
  <1> QED
    BY <1>2, <1>3, <1>4, <1>5, <1>7 DEF OnceMore, Ran

\* execute runs a request that has not run.
LEMMA ExecuteOnce ==
    ASSUME Shape, Handshake, Kinds, OnceMore, HandKept, execute
    PROVE  OnceMore'
  <1> DEFINE i == control.slot
             x == control.work.id
  <1>1. /\ control.at = "processing" /\ i \in Slot
        /\ slots[i].state \in {"PROCESSING", "ABANDONED"}
        /\ UNCHANGED <<slots, admin, task, cache>>
    BY DEF execute, Handshake, Stages
  <1>2. control'.at = "executed"
    BY DEF execute, Shape, ControlShape, TaskFields
  <1>3. /\ slots[i].reply \in Submitters /\ control.work = slots[i].work
        /\ slots[i].reply = "mqtt" => control.work \in Messages
        /\ slots[i].reply = "page" => control.work \in LocalWork
        /\ slots[i].reply = "admin" => control.work.command = "save_led"
    BY <1>1 DEF Kinds, KindOf
  <1>4. CASE executed' = executed
    BY <1>1, <1>2, <1>4, QuietOnce
  <1>5. CASE executed' # executed
    <2>1. executed' = Append(executed, x) /\ slots[i].reply # "admin"
      <3>1. /\ control.work # None
            /\ executed' = Append(executed, x)
            /\ node_control_execute_inline(control.work.command, control.work.source,
                                           control.work.args, "inactive").effect # None
        BY <1>5 DEF execute, Rejected
      <3> QED
        BY <1>3, <3>1, WorkFacts
    <2>2. \A m \in Messages : m.id = x => slots[i].reply = "mqtt"
      BY <1>3, <2>1, WorkFacts DEF Submitters
    <2>3. \A k \in DOMAIN admin.requests : admin.requests[k].from = "mqtt" =>
            /\ admin.requests[k] \in Messages /\ ~Ran(admin.requests[k].id)
            /\ task["mqtt"].at = "admin" /\ Mine = admin.requests[k].id
      BY RequestsFrom, WorkFacts DEF Requests, Handshake, AdminReplies, Asks, OnceMore, Mine, Shape
    <2>4. ASSUME slots[i].reply = "mqtt"
          PROVE  /\ ~Ran(x) /\ Known(x)
                 /\ task["mqtt"].at = "waiting" /\ task["mqtt"].slot # i => Mine # x
                 /\ task["mqtt"].at = "admin" => Mine # x
      BY <1>1, <2>4 DEF OnceMore
    <2>5. task["mqtt"].at = "waiting" => task["mqtt"].work \in Messages
      BY DEF Shape, TaskShape
    <2>6. ASSUME NEW m \in Messages, m.id = x
          PROVE  /\ ~Ran(x) /\ Known(x)
                 /\ task["mqtt"].at = "waiting"
                      /\ slots'[task["mqtt"].slot].state \in {"QUEUED", "COPYING"} => Mine # x
                 /\ \A k \in DOMAIN admin'.requests :
                      admin'.requests[k].from = "mqtt" => admin'.requests[k].id # x
      BY <1>1, <2>2, <2>3, <2>4, <2>6
    <2>7. \A k \in DOMAIN admin'.requests : admin'.requests[k].from = "mqtt" =>
            admin'.requests[k] \in Messages /\ ~Ran(admin'.requests[k].id)
      BY <1>1, <2>3
    <2>8. control'.at # "processing" /\ AdminReplies /\ slots' = slots
      BY <1>1, <1>2 DEF Handshake
    <2> QED
      BY <2>1, <2>5, <2>6, <2>7, <2>8, RunsOnce
  <1> QED
    BY <1>4, <1>5

\* The head of the admin task's requests, and what is left of them.
LEMMA AdminHead ==
    ASSUME Shape, AdminReplies, admin.requests # <<>>
    PROVE  LET m == Head(admin.requests)
           IN  /\ m \in Requests /\ Asks(m) /\ m.from \in {"mqtt", "page"}
               /\ \E k \in DOMAIN admin.requests : admin.requests[k] = m
               /\ \A k \in DOMAIN Tail(admin.requests) :
                    /\ \E j \in DOMAIN admin.requests :
                         Tail(admin.requests)[k] = admin.requests[j]
                    /\ Tail(admin.requests)[k].from # m.from
  <1> DEFINE s == admin.requests
  <1>1. s \in Seq(Requests)
    BY DEF Shape, AdminShape
  <1>2. IsSeq(s) /\ Head(s) \in Requests /\ Head(s) = s[1]
    BY <1>1, SeqOfFacts
  <1>3. /\ Len(s) \in Nat /\ Len(s) # 0 /\ DOMAIN s = 1 .. Len(s)
        /\ DOMAIN Tail(s) = 1 .. Len(s) - 1
        /\ \A k \in 1 .. Len(s) - 1 : Tail(s)[k] = s[k + 1]
    BY <1>2, SeqFacts
  <1>4. 1 \in DOMAIN s /\ \A k \in DOMAIN Tail(s) : k + 1 \in DOMAIN s /\ k + 1 # 1
    BY <1>3
  <1>5. Asks(Head(s)) /\ Head(s).from \in {"mqtt", "page"}
    BY <1>2, <1>4, RequestsFrom DEF AdminReplies, Shape
  <1>6. ASSUME NEW k \in DOMAIN Tail(s)
        PROVE  /\ \E j \in DOMAIN s : Tail(s)[k] = s[j]
               /\ Tail(s)[k].from # Head(s).from
    <2>1. Tail(s)[k] = s[k + 1] /\ k + 1 \in DOMAIN s /\ k + 1 # 1
      BY <1>3, <1>4
    <2>2. s[k + 1].from # s[1].from
      BY <1>4, <2>1 DEF AdminReplies
    <2> QED
      BY <1>2, <2>1, <2>2
  <1> QED
    BY <1>2, <1>4, <1>5, <1>6

\* The admin task runs a request that has not run.
LEMMA AdminTakeOnce ==
    ASSUME Shape, Handshake, Kinds, OnceMore, HandKept, admin_take
    PROVE  OnceMore'
  <1> DEFINE m == Head(admin.requests)
             x == m.id
  <1>0. Stages /\ Replies /\ AdminReplies
    BY DEF Handshake
  <1>1. /\ admin.requests # <<>> /\ admin.at = "idle" /\ task["admin"].at = "idle"
        /\ executed' = Append(executed, x) /\ UNCHANGED <<control, cache>>
    BY <1>0 DEF admin_take, AdminReplies
  <1>2. admin'.requests = Tail(admin.requests)
    BY DEF admin_take, Shape, AdminShape
  <1>3. /\ m \in Requests /\ Asks(m) /\ m.from \in {"mqtt", "page"}
        /\ \E k \in DOMAIN admin.requests : admin.requests[k] = m
        /\ \A k \in DOMAIN Tail(admin.requests) :
             /\ \E j \in DOMAIN admin.requests : Tail(admin.requests)[k] = admin.requests[j]
             /\ Tail(admin.requests)[k].from # m.from
    BY <1>0, <1>1, AdminHead
  <1>4. \A k \in Slot : slots[k].state # "FREE" => slots'[k] = slots[k]
    <2>1. \/ slots' = slots
          \/ acquire_and_send("admin", [m EXCEPT !.from = "admin"])
      BY DEF admin_take
    <2>2. CASE acquire_and_send("admin", [m EXCEPT !.from = "admin"])
      BY <2>2, AcquireFacts DEF NoSlotFor, SlotFor, Submitters
    <2> QED
      BY <2>1, <2>2
  <1>5. /\ task["mqtt"].at = "waiting" =>
             /\ task["mqtt"].work \in Messages
             /\ slots'[task["mqtt"].slot] = slots[task["mqtt"].slot]
        /\ control.at = "processing" =>
             /\ slots'[control.slot] = slots[control.slot]
             /\ slots[control.slot].state # "FREE" /\ control.slot \in Slot
    <2>1. task["mqtt"].at = "waiting" =>
            task["mqtt"].slot \in Slot /\ slots[task["mqtt"].slot].state # "FREE"
      BY <1>0 DEF Replies, Live, LiveStates, Submitters
    <2>2. control.at = "processing" => control.slot \in Slot /\ slots[control.slot].state # "FREE"
      BY <1>0 DEF Stages
    <2> QED
      BY <1>4, <2>1, <2>2 DEF Shape, TaskShape
  <1>6. \A n \in Messages : n.id = x => m \in Messages /\ m.from = "mqtt"
    BY <1>3, WorkFacts DEF Requests
  <1>7. m.from = "mqtt" => task["mqtt"].at = "admin" /\ Mine = x /\ ~Ran(x) /\ Known(x)
    BY <1>3 DEF Asks, Mine, OnceMore, Known
  <1>8. control'.at = "processing" /\ slots'[control'.slot].reply = "mqtt" =>
          control' = control /\ slots[control.slot].reply = "mqtt" /\ control.work \in Messages
    BY <1>1, <1>5 DEF Kinds, KindOf
  <1>9. \A k \in DOMAIN admin'.requests : admin'.requests[k].from = "mqtt" =>
          /\ admin'.requests[k] \in Messages /\ ~Ran(admin'.requests[k].id)
          /\ m.from # "mqtt"
    <2>1. \A j \in DOMAIN admin.requests : admin.requests[j].from = "mqtt" =>
            admin.requests[j] \in Messages /\ ~Ran(admin.requests[j].id)
      BY RequestsFrom, WorkFacts DEF Shape, Requests, OnceMore
    <2> QED
      BY <1>2, <1>3, <2>1
  <1>10. ASSUME NEW n \in Messages, n.id = x
         PROVE  /\ ~Ran(x) /\ Known(x) /\ task["mqtt"].at = "admin"
                /\ control'.at = "processing" /\ slots'[control'.slot].reply = "mqtt"
                     => control'.work.id # x
                /\ \A k \in DOMAIN admin'.requests :
                     admin'.requests[k].from = "mqtt" => admin'.requests[k].id # x
    <2>1. task["mqtt"].at = "admin" /\ Mine = x /\ ~Ran(x) /\ Known(x) /\ m.from = "mqtt"
      BY <1>6, <1>7, <1>10
    <2>2. control.at = "processing" /\ slots[control.slot].reply = "mqtt" => Mine # control.work.id
      BY <2>1 DEF OnceMore
    <2> QED
      BY <1>8, <1>9, <2>1, <2>2
  <1> QED
    BY <1>0, <1>1, <1>5, <1>8, <1>9, <1>10, RunsOnce

\* The page's request goes to the admin task or to the control task.
LEMMA PageOnce ==
    ASSUME Shape, Handshake, OnceMore, HandKept, page_request
    PROVE  OnceMore'
  <1>1. PICK m \in LocalWork : \/ admin_send("page", m) /\ UNCHANGED <<slots, queue>>
                               \/ acquire_and_send("page", m) /\ UNCHANGED admin
    BY DEF page_request
  <1>2. UNCHANGED <<executed, control>>
    BY DEF page_request
  <1>3. \A x : Known(x) => Known(x)'
    BY HandKnown
  <1>4. task'["mqtt"].at \in {"waiting", "admin"} =>
          /\ task'["mqtt"].at = task["mqtt"].at /\ task'["mqtt"].work = task["mqtt"].work
          /\ task'["mqtt"].at = "waiting" => task'["mqtt"].slot = task["mqtt"].slot
    BY DEF HandKept
  <1>5. \A k \in Slot : slots[k].state # "FREE" => slots'[k] = slots[k]
    BY <1>1, AcquireFacts DEF NoSlotFor, SlotFor, Submitters
  <1>6. task["mqtt"].at = "waiting" => slots'[task["mqtt"].slot] = slots[task["mqtt"].slot]
    BY <1>5 DEF Handshake, Replies, Live, LiveStates, Submitters
  <1>7. control.at = "processing" => slots'[control.slot] = slots[control.slot]
    BY <1>5 DEF Handshake, Stages
  <1>8. \A k \in DOMAIN admin'.requests :
          admin'.requests[k].from = "mqtt" => ~Ran(admin'.requests[k].id)
    <2>1. CASE UNCHANGED admin
      BY <2>1 DEF OnceMore
    <2>2. CASE admin_send("page", m)
      <3>1. admin'.requests = Append(admin.requests, m) /\ m.from = "page"
        BY <2>2, SendFacts, WorkFacts DEF Submitters
      <3>2. IsSeq(admin.requests)
        BY SeqOfFacts DEF Shape, AdminShape
      <3>3. \A k \in DOMAIN admin'.requests :
              (k \in DOMAIN admin.requests /\ admin'.requests[k] = admin.requests[k])
                \/ admin'.requests[k] = m
        <4>1. /\ DOMAIN admin.requests = 1 .. Len(admin.requests)
              /\ Len(admin.requests) \in Nat
              /\ DOMAIN admin'.requests = 1 .. Len(admin.requests) + 1
              /\ \A k \in DOMAIN admin.requests : admin'.requests[k] = admin.requests[k]
              /\ admin'.requests[Len(admin.requests) + 1] = m
          BY <3>1, <3>2, SeqFacts
        <4> QED
          BY <4>1
      <3> QED
        BY <3>1, <3>3 DEF OnceMore
    <2> QED
      BY <1>1, <2>1, <2>2
  <1> QED
    BY <1>2, <1>3, <1>4, <1>6, <1>7, <1>8, OnceKept

\* Every step without a late reply keeps what has run from running again.
LEMMA OnceStep ==
    ASSUME Shape, Handshake, RoomForIds, CacheOnce, Kinds, OnceMore, Next, ~late'
    PROVE  OnceMore'
  <1> USE DEF wires
  <1>0. Stages /\ Replies /\ AdminReplies
    BY DEF Handshake
  <1>1. CASE take_command
    <2> DEFINE m == Head(commands)
    <2>1. /\ m \in Messages /\ task["mqtt"].at = "idle"
          /\ UNCHANGED <<control, executed, admin>>
      BY <1>1, SeqOfFacts DEF take_command, CommandLoop, Shape, WireShape, HubCommands
    <2>2. ~AtOnce(m) => m.id \in ValidIds /\ ~Remembered(m.id)
      BY <2>1, NotRemembered
    <2>3. CASE UNCHANGED <<task, slots, cache>>
      BY <2>1, <2>3, QuietOnce DEF HandKept
    <2>4. CASE /\ ~AtOnce(m) /\ UNCHANGED <<task, slots>>
               /\ node_mqtt_duplicate_remember(m, s_result')
      <3>1. Len(cache) < NODE_MQTT_DUP_CACHE_SIZE
        BY <2>2, <2>4, RoomForOne
      <3> QED
        BY <2>1, <2>4, <3>1, RememberOnce
    <2>5. CASE ~AtOnce(m) /\ acquire_and_send("mqtt", m) /\ cache' = cache
      BY <1>0, <2>1, <2>2, <2>5, AcquireOnce
    <2> QED
      BY <1>1, <2>3, <2>4, <2>5 DEF take_command
  <1>2. CASE take_admin_command
    <2> DEFINE m == Head(admin_queue)
    <2>1. /\ m \in Messages /\ task["mqtt"].at = "idle"
          /\ UNCHANGED <<slots, control, executed, cache>>
      BY <1>2, SeqOfFacts DEF take_admin_command, CommandLoop, Shape, WireShape, HubAdmin
    <2>2. CASE UNCHANGED <<admin, task>>
      BY <2>1, <2>2, QuietOnce DEF HandKept
    <2>3. CASE ~AtOnce(m) /\ admin_send("mqtt", m)
      BY <1>0, <2>1, <2>3, NotRemembered, SendOnce
    <2> QED
      BY <1>2, <2>2, <2>3 DEF take_admin_command
  <1>3. CASE finish_command
    <2> DEFINE m == task["mqtt"].work
    <2>1. /\ task["mqtt"].at = "returned" /\ UNCHANGED <<slots, control, executed, admin>>
          /\ task'["mqtt"].at = "idle"
          /\ \E r : node_mqtt_duplicate_remember(m, r)
      BY <1>3 DEF finish_command, Shape, TaskShape, Submitters, Idle
    <2>2. m.id \in ValidIds /\ ~Remembered(m.id)
      BY <2>1 DEF CacheOnce, Mine, ValidIds, Shape, TaskShape
    <2>3. Len(cache) < NODE_MQTT_DUP_CACHE_SIZE
      BY <2>2, RoomForOne
    <2> QED
      BY <2>1, <2>3, RememberOnce
  <1>4. ASSUME ~take_command, ~take_admin_command, ~finish_command PROVE OnceMore'
    <2>1. HandKept
      BY <1>4, KeepsHand
    <2>2. CASE \/ receive \/ link \/ drain_deferred_results \/ notify \/ page_answer
      <3>1. /\ executed' = executed /\ UNCHANGED <<slots, admin>>
            /\ notify \/ control' = control
        BY <2>2 DEF receive, link, drain_deferred_results, notify, page_answer
      <3>2. notify => control'.at = "idle"
        BY DEF notify, Idle
      <3> QED
        BY <2>1, <3>1, <3>2, QuietOnce
    <2>3. ASSUME NEW t \in {"mqtt", "page"}, admin_wait_over(t) PROVE OnceMore'
      BY <2>1, <2>3, QuietOnce DEF admin_wait_over
    <2>4. CASE admin_reply
      <3>1. UNCHANGED <<executed, slots, control>> /\ admin'.requests = admin.requests
        BY <2>4 DEF admin_reply, Shape, AdminShape
      <3>2. task'["mqtt"].at \in {"waiting", "admin"} =>
              /\ task'["mqtt"].at = task["mqtt"].at /\ task'["mqtt"].work = task["mqtt"].work
              /\ task'["mqtt"].at = "waiting" => task'["mqtt"].slot = task["mqtt"].slot
        BY <2>1 DEF HandKept
      <3>3. \A k \in DOMAIN admin'.requests :
              admin'.requests[k].from = "mqtt" => ~Ran(admin'.requests[k].id)
        BY <3>1 DEF OnceMore
      <3> QED
        BY <2>1, <3>1, <3>2, <3>3, HandKnown, OnceKept
    <2> QED
      BY <1>4, <2>1, <2>2, <2>3, <2>4, ReceivedOnce, TimeoutOnce, TakeOnce, CopyOnce,
         ExecuteOnce, CompleteOnce, AdminTakeOnce, PageOnce DEF Next
  <1> QED
    BY <1>1, <1>2, <1>3, <1>4

-----------------------------------------------------------------------------
(* What is published is the request's own *)

\* What the cache holds after one more is remembered was there or is new.
LEMMA RememberOwn ==
    ASSUME Shape, NEW m, NEW r, node_mqtt_duplicate_remember(m, r)
    PROVE  \A k \in DOMAIN cache' : \/ cache'[k] = Answer(m, r.of, r.status)
                                    \/ \E j \in DOMAIN cache : cache'[k] = cache[j]
  <1> DEFINE old == IF Len(cache) < NODE_MQTT_DUP_CACHE_SIZE THEN cache ELSE Tail(cache)
             e == Answer(m, r.of, r.status)
  <1>1. /\ IsSeq(old)
        /\ \A k \in DOMAIN old : \E j \in DOMAIN cache : old[k] = cache[j]
    <2>1. IsSeq(cache)
      BY DEF Shape, PastShape
    <2>2. CASE Len(cache) < NODE_MQTT_DUP_CACHE_SIZE
      BY <2>1, <2>2
    <2>3. CASE ~(Len(cache) < NODE_MQTT_DUP_CACHE_SIZE)
      <3>1. cache # <<>>
        <4>1. cache = <<>> => Len(cache) = 0
          OBVIOUS
        <4> QED
          BY <2>3, <4>1, ControlAssumption
      <3>2. /\ IsSeq(Tail(cache)) /\ Len(cache) \in Nat /\ DOMAIN cache = 1 .. Len(cache)
            /\ DOMAIN Tail(cache) = 1 .. Len(cache) - 1
            /\ \A k \in 1 .. Len(cache) - 1 : Tail(cache)[k] = cache[k + 1]
        BY <2>1, <3>1, SeqFacts
      <3>3. \A k \in DOMAIN Tail(cache) : k + 1 \in DOMAIN cache
        BY <3>2
      <3> QED
        BY <2>3, <3>2, <3>3
    <2> QED
      BY <2>2, <2>3
  <1>2. cache' = Append(old, e)
    BY DEF node_mqtt_duplicate_remember
  <1>3. /\ DOMAIN old = 1 .. Len(old) /\ Len(old) \in Nat
        /\ DOMAIN cache' = 1 .. Len(old) + 1
        /\ \A k \in DOMAIN old : cache'[k] = old[k]
        /\ cache'[Len(old) + 1] = e
    BY <1>1, <1>2, SeqFacts
  <1>4. \A k \in DOMAIN cache' : k \in DOMAIN old \/ k = Len(old) + 1
    BY <1>3
  <1> QED
    BY <1>1, <1>3, <1>4

\* A result that the callback defers is its message's own.
LEMMA DeferOwn ==
    ASSUME Shape, OwnAnswers, NEW a, a.id = a.of, enqueue_deferred_result(a)
    PROVE  /\ \A b \in answers' : b.id = b.of
           /\ \A k \in DOMAIN results' : results'[k].id = results'[k].of
  <1>1. IsSeq(results)
    BY DEF Shape, PastShape
  <1>2. /\ DOMAIN results = 1 .. Len(results) /\ Len(results) \in Nat
        /\ DOMAIN Append(results, a) = 1 .. Len(results) + 1
        /\ \A k \in DOMAIN results : Append(results, a)[k] = results[k]
        /\ Append(results, a)[Len(results) + 1] = a
    BY <1>1, SeqFacts
  <1>3. \A k \in DOMAIN Append(results, a) : k \in DOMAIN results \/ k = Len(results) + 1
    BY <1>2
  <1>4. \A k \in DOMAIN Append(results, a) : Append(results, a)[k].id = Append(results, a)[k].of
    BY <1>2, <1>3 DEF OwnAnswers
  <1>5. answers' = answers \/ answers' = answers \cup {a}
    BY DEF enqueue_deferred_result
  <1>6. results' = results \/ results' = Append(results, a)
    BY DEF enqueue_deferred_result
  <1> QED
    BY <1>4, <1>5, <1>6 DEF OwnAnswers

\* What is answered at once is an answer of the cache or names the message.
LEMMA AtOnceOwn ==
    ASSUME OwnAnswers, NEW m, AnswerAtOnce(m)
    PROVE  \A b \in answers' : b.id = b.of
  <1>1. \A e \in node_mqtt_duplicate_find(m) : e.id = e.of
    BY DEF node_mqtt_duplicate_find, ToSet, OwnAnswers
  <1>2. CASE ~m.valid
    <2>1. \A b \in answers' : b \in answers \/ b.id = b.of
      BY <1>2 DEF AnswerAtOnce, Publish
    <2> QED
      BY <2>1 DEF OwnAnswers
  <1>3. CASE m.valid
    <2> DEFINE as == { IF e.command = m.command THEN e
                       ELSE Answer(m, m.id, "rejected") : e \in node_mqtt_duplicate_find(m) }
    <2>1. \A b \in as : b.id = b.of
      BY <1>1 DEF Answer
    <2>2. Publish(as)
      BY <1>3 DEF AnswerAtOnce
    <2>3. \A b \in answers' : b \in answers \/ b \in as
      <3> HIDE DEF as
      <3> QED
        BY <2>2 DEF Publish
    <2> QED
      BY <2>1, <2>3 DEF OwnAnswers
  <1> QED
    BY <1>2, <1>3

\* Every step keeps the answers sent, waiting and remembered those of their own
\* request.
LEMMA OwnAnswersStep ==
    ASSUME Shape, OwnAnswers, OwnHand, Next
    PROVE  OwnAnswers'
  <1> USE DEF wires
  <1>1. CASE UNCHANGED <<answers, results, cache>>
    BY <1>1 DEF OwnAnswers
  <1>2. CASE receive
    <2>1. PICK m \in Messages :
            \/ enqueue_deferred_result([id |-> None, command |-> None, of |-> None,
                                        status |-> "rejected"])
            \/ enqueue_deferred_result(Answer(m, m.id, "rejected"))
            \/ UNCHANGED <<answers, results>>
      BY <1>2 DEF receive, Busy
    <2>2. cache' = cache
      BY <1>2 DEF receive
    <2>3. /\ \A b \in answers' : b.id = b.of
          /\ \A k \in DOMAIN results' : results'[k].id = results'[k].of
      <3>1. CASE enqueue_deferred_result([id |-> None, command |-> None, of |-> None,
                                          status |-> "rejected"])
        BY <3>1, DeferOwn
      <3>2. CASE enqueue_deferred_result(Answer(m, m.id, "rejected"))
        <4>1. Answer(m, m.id, "rejected").id = Answer(m, m.id, "rejected").of
          BY DEF Answer
        <4> QED
          BY <3>2, <4>1, DeferOwn
      <3>3. CASE UNCHANGED <<answers, results>>
        BY <3>3 DEF OwnAnswers
      <3> QED
        BY <2>1, <3>1, <3>2, <3>3
    <2> QED
      BY <2>2, <2>3 DEF OwnAnswers
  <1>3. CASE drain_deferred_results
    <2>1. cache' = cache /\ results' = <<>>
          /\ (answers' = answers \/ answers' = answers \cup ToSet(results))
      BY <1>3 DEF drain_deferred_results, Publish
    <2>2. \A a \in ToSet(results) : a.id = a.of
      BY DEF ToSet, OwnAnswers
    <2>3. DOMAIN results' = {}
      BY <2>1
    <2> QED
      BY <2>1, <2>2, <2>3 DEF OwnAnswers
  <1>4. CASE take_command
    <2> DEFINE m == Head(commands)
               done == [of |-> m.id, status |-> "done"]
    <2>1. results' = results
      BY <1>4 DEF take_command
    <2>2. CASE AnswerAtOnce(m) /\ cache' = cache
      BY <2>1, <2>2, AtOnceOwn DEF OwnAnswers
    <2>3. CASE /\ Publish({Answer(m, m.id, "done")})
               /\ s_result' = IF connected THEN done ELSE [done EXCEPT !.status = "failed"]
               /\ node_mqtt_duplicate_remember(m, s_result')
      <3>1. s_result'.of = m.id
        BY <2>3
      <3>2. \A k \in DOMAIN cache' : cache'[k].id = cache'[k].of
        BY <2>3, <3>1, RememberOwn DEF OwnAnswers, Answer
      <3>3. \A a \in answers' : a \in answers \/ a = Answer(m, m.id, "done")
        BY <2>3 DEF Publish
      <3> QED
        BY <2>1, <3>2, <3>3 DEF OwnAnswers, Answer
    <2>4. CASE UNCHANGED <<cache, answers>>
      BY <2>1, <2>4 DEF OwnAnswers
    <2> QED
      BY <1>4, <2>2, <2>3, <2>4 DEF take_command
  <1>5. CASE take_admin_command
    <2>1. UNCHANGED <<results, cache>>
      BY <1>5 DEF take_admin_command
    <2>2. answers' = answers \/ AnswerAtOnce(Head(admin_queue))
      BY <1>5 DEF take_admin_command
    <2> QED
      BY <2>1, <2>2, AtOnceOwn DEF OwnAnswers
  <1>6. CASE finish_command
    <2> DEFINE m == task["mqtt"].work
               r == IF m.admin THEN task["mqtt"].result ELSE s_result
    <2>1. /\ results' = results /\ Publish({Answer(m, r.of, r.status)})
          /\ node_mqtt_duplicate_remember(m, r)
      BY <1>6 DEF finish_command
    <2>2. r.of = m.id
      BY <1>6 DEF finish_command, OwnHand, Mine
    <2> HIDE DEF r
    <2>3. \A k \in DOMAIN cache' : cache'[k].id = cache'[k].of
      BY <2>1, <2>2, RememberOwn DEF OwnAnswers, Answer
    <2>4. \A a \in answers' : a \in answers \/ a = Answer(m, r.of, r.status)
      BY <2>1 DEF Publish
    <2> QED
      BY <2>1, <2>2, <2>3, <2>4 DEF OwnAnswers, Answer
  <1>7. ASSUME NEW t \in Submitters, reply_received(t) \/ reply_timeout(t) PROVE OwnAnswers'
    BY <1>7, <1>1 DEF reply_received, reply_timeout
  <1>8. ASSUME NEW t \in {"mqtt", "page"}, admin_wait_over(t) PROVE OwnAnswers'
    BY <1>8, <1>1 DEF admin_wait_over
  <1>9. CASE \/ link \/ take_request \/ copy_request \/ execute \/ complete \/ notify
             \/ admin_take \/ admin_reply \/ page_request \/ page_answer
    BY <1>9, <1>1 DEF link, take_request, copy_request, execute, complete, notify,
                      admin_take, admin_reply, page_request, page_answer
  <1> QED
    BY <1>2, <1>3, <1>4, <1>5, <1>6, <1>7, <1>8, <1>9 DEF Next

\* The command task's request finds a slot: every slot that is not free is waited
\* for by one of the two other tasks.
LEMMA SlotFound ==
    ASSUME Shape, Replies, OwnHand, NODE_CONTROL_QUEUE_LEN >= 3,
           task["mqtt"].at = "idle"
    PROVE  \E i \in Slot : slots[i].state = "FREE"
  <1> SUFFICES ASSUME \A i \in Slot : slots[i].state # "FREE" PROVE FALSE
    OBVIOUS
  <1>1. 1 \in Slot /\ 2 \in Slot /\ 3 \in Slot
    BY ControlAssumption DEF Slot
  <1>2. \A i \in Slot : Live(i)
    BY DEF Live, LiveStates, OwnHand, Shape, SlotShape, IsSlot, States
  <1>3. \A i \in Slot : slots[i].reply \in {"page", "admin"} /\ task[slots[i].reply].slot = i
    BY <1>2 DEF Replies, Waits, Submitters
  <1> QED
    BY <1>1, <1>3

\* The command in hand stays where it is, and so does its slot.
LEMMA OwnKept ==
    ASSUME OwnHand, task'["mqtt"] = task["mqtt"],
           \A i \in Slot : slots'[i].state \notin {"CANCELLED", "ABANDONED"},
           task["mqtt"].at = "waiting" => OwnSlot(task["mqtt"].slot)',
           task["mqtt"].at = "returned" => s_result' = s_result
    PROVE  OwnHand'
  BY DEF OwnHand, Mine

\* A step that touches no slot, result or wait keeps them.
LEMMA QuietOwn ==
    ASSUME OwnHand, task'["mqtt"] = task["mqtt"], UNCHANGED <<slots, s_result>>,
           control' = control \/ control'.at \notin {"processing", "executed"}
    PROVE  OwnHand'
  BY DEF OwnHand, OwnSlot, Mine

\* Another task's request is put into a free slot.
LEMMA OtherOwn ==
    ASSUME Shape, Stages, Replies, OwnHand, NEW t \in Submitters, t # "mqtt", NEW m,
           acquire_and_send(t, m), UNCHANGED <<control, s_result>>
    PROVE  OwnHand'
  <1>1. task'["mqtt"] = task["mqtt"]
    BY AcquireFacts DEF Submitters
  <1>2. CASE NoSlotFor(t)
    BY <1>1, <1>2, QuietOwn DEF NoSlotFor
  <1>3. ASSUME NEW i \in Slot, SlotFor(t, m, i) PROVE OwnHand'
    <2>1. /\ slots[i].state = "FREE" /\ slots'[i].state = "QUEUED"
          /\ \A k \in Slot : k # i => slots'[k] = slots[k]
      BY <1>3 DEF SlotFor
    <2>2. task["mqtt"].at = "waiting" => task["mqtt"].slot \in Slot \ {i}
      BY <2>1 DEF Replies, Live, LiveStates, Submitters
    <2>3. task["mqtt"].at = "waiting" => OwnSlot(task["mqtt"].slot)'
      BY <1>1, <2>1, <2>2 DEF OwnHand, OwnSlot, Mine
    <2>4. \A k \in Slot : slots'[k].state \notin {"CANCELLED", "ABANDONED"}
      BY <2>1 DEF OwnHand
    <2> QED
      BY <1>1, <2>3, <2>4, OwnKept
  <1> QED
    BY <1>2, <1>3, AcquireFacts

\* The command task's own request.
LEMMA SubmitOwn ==
    ASSUME Shape, Stages, Replies, OwnHand, NODE_CONTROL_QUEUE_LEN >= 3, NEW m, ~m.admin,
           acquire_and_send("mqtt", m), task["mqtt"].at = "idle", UNCHANGED <<control, s_result>>
    PROVE  OwnHand'
  <1>1. "mqtt" \in Submitters /\ task'["mqtt"].work = m
    BY AcquireFacts DEF Submitters
  <1>2. PICK i \in Slot : SlotFor("mqtt", m, i)
    BY <1>1, SlotFound, AcquireFacts DEF NoSlotFor
  <1>3. /\ slots[i].state = "FREE" /\ slots'[i].state = "QUEUED" /\ slots'[i].work = m
        /\ \A k \in Slot : k # i => slots'[k] = slots[k]
        /\ task'["mqtt"].at = "waiting" /\ task'["mqtt"].slot = i
    BY <1>2 DEF SlotFor
  <1>4. control.at \in {"processing", "executed"} => control.slot # i
    BY <1>3 DEF Stages
  <1>5. OwnSlot(i)'
    BY <1>1, <1>3, <1>4 DEF OwnSlot
  <1>6. \A k \in Slot : slots'[k].state \notin {"CANCELLED", "ABANDONED"}
    BY <1>3 DEF OwnHand
  <1> QED
    BY <1>1, <1>3, <1>5, <1>6 DEF OwnHand, OwnSlot, Mine

\* While no wait has timed out, the result buffer holds what the request of the
\* mqtt task came to.
LEMMA OwnHandStep ==
    ASSUME Shape, Handshake, OwnHand, NODE_CONTROL_QUEUE_LEN >= 3, NoTimeout', Next
    PROVE  OwnHand'
  <1> USE DEF wires
  <1>0. Stages /\ Replies /\ AdminReplies /\ "mqtt" \in Submitters
    BY DEF Handshake, Submitters
  <1>01. task["mqtt"].at = "waiting" =>
           /\ task["mqtt"].slot \in Slot /\ slots[task["mqtt"].slot].reply = "mqtt"
           /\ slots[task["mqtt"].slot].state \in LiveStates
    BY <1>0 DEF Replies, Live
  <1>1. CASE receive \/ link \/ drain_deferred_results
    BY <1>1, QuietOwn DEF receive, link, drain_deferred_results
  <1>2. CASE take_command
    <2> DEFINE m == Head(commands)
    <2>1. ~m.admin /\ task["mqtt"].at = "idle" /\ control' = control
      BY <1>2, SeqOfFacts DEF take_command, CommandLoop, Shape, WireShape, HubCommands
    <2>2. CASE UNCHANGED <<task, slots>>
      BY <2>1, <2>2 DEF OwnHand, OwnSlot
    <2>3. CASE acquire_and_send("mqtt", m) /\ s_result' = s_result
      BY <1>0, <2>1, <2>3, SubmitOwn
    <2> QED
      BY <1>2, <2>2, <2>3 DEF take_command
  <1>3. CASE finish_command
    <2>1. task'["mqtt"].at = "idle" /\ slots' = slots
      BY <1>3 DEF finish_command, Shape, TaskShape, Submitters, Idle
    <2> QED
      BY <2>1 DEF OwnHand
  <1>4. CASE take_admin_command
    <2> DEFINE m == Head(admin_queue)
    <2>1. m.admin /\ task["mqtt"].at = "idle" /\ UNCHANGED <<control, slots, s_result>>
      BY <1>4, SeqOfFacts DEF take_admin_command, CommandLoop, Shape, WireShape, HubAdmin
    <2>2. CASE task' = task
      BY <2>1, <2>2, QuietOwn
    <2>3. CASE admin_send("mqtt", m)
      <3>1. task'["mqtt"].at = "admin" /\ task'["mqtt"].work = m /\ task'["mqtt"].result.of = m.id
        BY <1>0, <2>3, SendFacts
      <3> QED
        BY <2>1, <3>1 DEF OwnHand, Mine
    <2> QED
      BY <1>4, <2>2, <2>3 DEF take_admin_command
  <1>5. CASE page_request
    <2>1. PICK m \in LocalWork : \/ admin_send("page", m) /\ UNCHANGED <<slots, queue>>
                                 \/ acquire_and_send("page", m) /\ UNCHANGED admin
      BY <1>5 DEF page_request
    <2>2. UNCHANGED <<control, s_result>>
      BY <1>5 DEF page_request
    <2>3. CASE admin_send("page", m) /\ UNCHANGED slots
      BY <2>2, <2>3, SendFacts, QuietOwn DEF Submitters
    <2>4. CASE acquire_and_send("page", m)
      BY <1>0, <2>2, <2>4, OtherOwn DEF Submitters
    <2> QED
      BY <2>1, <2>3, <2>4
  <1>6. CASE page_answer
    BY <1>6, QuietOwn DEF page_answer, Shape, TaskShape, Submitters
  <1>7. CASE admin_take
    <2>1. UNCHANGED <<control, s_result>>
      BY <1>7 DEF admin_take
    <2>2. CASE UNCHANGED <<task, slots>>
      BY <2>1, <2>2, QuietOwn
    <2>3. CASE acquire_and_send("admin", [Head(admin.requests) EXCEPT !.from = "admin"])
      BY <1>0, <2>1, <2>3, OtherOwn DEF Submitters
    <2> QED
      BY <1>7, <2>2, <2>3 DEF admin_take
  <1>8. CASE admin_reply
    <2> DEFINE t == admin.request.from
    <2>1. UNCHANGED <<slots, control, s_result>> /\ admin.at = "handled"
      BY <1>8 DEF admin_reply
    <2>2. CASE t = "mqtt"
      <3>1. task["mqtt"].at = "admin" /\ task["mqtt"].work = admin.request
        BY <1>0, <2>1, <2>2 DEF AdminReplies, Asks
      <3>2. /\ task'["mqtt"].at = "admin" /\ task'["mqtt"].work = admin.request
            /\ task'["mqtt"].result.of = admin.request.id
        BY <1>8, <2>2, <3>1 DEF admin_reply, Submitters, Shape, TaskShape, IsTask, TaskFields
      <3> QED
        BY <2>1, <3>1, <3>2 DEF OwnHand, Mine
    <2>3. CASE t # "mqtt"
      <3>1. task'["mqtt"] = task["mqtt"]
        BY <1>8, <2>3 DEF admin_reply, Submitters
      <3> QED
        BY <2>1, <3>1, QuietOwn
    <2> QED
      BY <2>2, <2>3
  <1>9. ASSUME NEW t \in {"mqtt", "page"}, admin_wait_over(t) PROVE OwnHand'
    <2>1. /\ task[t].at = "admin" /\ Return(t) /\ UNCHANGED <<slots, control, s_result>>
          /\ t \in Submitters
      BY <1>9 DEF admin_wait_over, Submitters
    <2>2. CASE t = "mqtt"
      <3>1. /\ task'["mqtt"].at = "returned" /\ task'["mqtt"].work = task["mqtt"].work
            /\ task'["mqtt"].result = task["mqtt"].result
        BY <2>1, <2>2, ReturnFacts
      <3> QED
        BY <2>1, <2>2, <3>1 DEF OwnHand, Mine
    <2>3. CASE t # "mqtt"
      BY <1>0, <2>1, <2>3, ReturnFacts, QuietOwn
    <2> QED
      BY <2>2, <2>3
  <1>10. ASSUME NEW t \in Submitters, reply_received(t) PROVE OwnHand'
    <2> DEFINE i == task[t].slot
    <2>1. /\ task[t].at = "waiting" /\ i \in Slot /\ Return(t) /\ slots[i].state = "COMPLETED"
          /\ slots[i].reply = t /\ UNCHANGED <<control, s_result>>
      BY <1>0, <1>10 DEF reply_received, Replies
    <2>2. slots'[i].state = "FREE" /\ \A k \in Slot : k # i => slots'[k] = slots[k]
      BY <1>10, <2>1 DEF reply_received, Shape, SlotShape, FreeSlot
    <2>3. \A k \in Slot : slots'[k].state \notin {"CANCELLED", "ABANDONED"}
      BY <2>2 DEF OwnHand
    <2>4. CASE t = "mqtt"
      <3>1. /\ task'["mqtt"].at = "returned" /\ task'["mqtt"].work = task["mqtt"].work
        BY <2>1, <2>4, ReturnFacts
      <3>2. ~task["mqtt"].work.admin /\ s_result.of = Mine
        BY <2>1, <2>4 DEF OwnHand, OwnSlot
      <3> QED
        BY <2>1, <2>3, <3>1, <3>2 DEF OwnHand, Mine
    <2>5. CASE t # "mqtt"
      <3>1. task'["mqtt"] = task["mqtt"]
        BY <1>0, <2>1, <2>5, ReturnFacts
      <3>2. task["mqtt"].at = "waiting" => slots'[task["mqtt"].slot] = slots[task["mqtt"].slot]
        BY <1>01, <2>1, <2>2, <2>5
      <3>3. task["mqtt"].at = "waiting" => OwnSlot(task["mqtt"].slot)'
        BY <2>1, <3>1, <3>2 DEF OwnHand, OwnSlot, Mine
      <3> QED
        BY <2>1, <2>3, <3>1, <3>3, OwnKept
    <2> QED
      BY <2>4, <2>5
  <1>11. ASSUME NEW t \in Submitters, reply_timeout(t) PROVE FALSE
    <2>1. budget.timeouts \in 0 .. MAX_TIMEOUTS /\ budget'.timeouts = budget.timeouts - 1
      BY <1>11 DEF reply_timeout, Shape, BudgetShape
    <2> QED
      BY <2>1, ControlAssumption DEF NoTimeout
  <1>12. CASE take_request
    <2> DEFINE i == Head(queue)
    <2>1. i \in Slot /\ UNCHANGED <<task, s_result>>
      BY <1>0, <1>12, InQueueTail DEF take_request, Stages, Shape
    <2>2. /\ \A k \in Slot : slots'[k].work = slots[k].work
          /\ \A k \in Slot : k # i => slots'[k] = slots[k]
          /\ slots'[i].state = "COPYING"
          /\ control'.at = "copying"
      BY <1>12, <2>1 DEF take_request, Shape, SlotShape, IsSlot, SlotFields, OwnHand
    <2>3. \A k \in Slot : slots'[k].state \notin {"CANCELLED", "ABANDONED"}
      BY <2>2 DEF OwnHand
    <2>4. task["mqtt"].at = "waiting" => OwnSlot(task["mqtt"].slot)'
      BY <1>01, <2>1, <2>2 DEF OwnHand, OwnSlot, Mine
    <2> QED
      BY <2>1, <2>3, <2>4, OwnKept
  <1>13. CASE copy_request
    <2> DEFINE i == control.slot
    <2>1. i \in Slot /\ UNCHANGED <<task, s_result>>
      BY <1>0, <1>13 DEF copy_request, Stages
    <2>2. /\ \A k \in Slot : slots'[k].work = slots[k].work
          /\ \A k \in Slot : k # i => slots'[k] = slots[k]
          /\ slots'[i].state = "PROCESSING"
          /\ control'.at = "processing" /\ control'.slot = i /\ control'.work = slots[i].work
      BY <1>13, <2>1 DEF copy_request, Shape, SlotShape, IsSlot, SlotFields, ControlShape, TaskFields
    <2>3. \A k \in Slot : slots'[k].state \notin {"CANCELLED", "ABANDONED"}
      BY <2>2 DEF OwnHand
    <2>4. task["mqtt"].at = "waiting" => OwnSlot(task["mqtt"].slot)'
      BY <1>01, <2>1, <2>2 DEF OwnHand, OwnSlot, Mine
    <2> QED
      BY <2>1, <2>3, <2>4, OwnKept
  <1>14. CASE execute
    <2> DEFINE i == control.slot
    <2>1. UNCHANGED <<task, s_result, slots>> /\ control.at = "processing"
      BY <1>14 DEF execute
    <2>2. /\ control'.at = "executed" /\ control'.slot = i
          /\ control.work # None => control'.result.of = control.work.id
      BY <1>14 DEF execute, Shape, ControlShape, TaskFields
    <2>3. task["mqtt"].at = "waiting" /\ task["mqtt"].slot = i =>
            control.work = task["mqtt"].work /\ control.work # None
      BY <2>1, WorkFacts DEF OwnHand, OwnSlot, Shape, TaskShape
    <2>4. task["mqtt"].at = "waiting" => OwnSlot(task["mqtt"].slot)'
      BY <2>1, <2>2, <2>3 DEF OwnHand, OwnSlot, Mine
    <2>5. \A k \in Slot : slots'[k].state \notin {"CANCELLED", "ABANDONED"}
      BY <2>1 DEF OwnHand
    <2> QED
      BY <2>1, <2>4, <2>5, OwnKept
  <1>15. CASE complete
    <2> DEFINE i == control.slot
    <2>1. /\ i \in Slot /\ task' = task /\ control.at = "executed"
          /\ slots[i].state = "PROCESSING"
      BY <1>0, <1>15 DEF complete, Stages, OwnHand
    <2>2. /\ \A k \in Slot : slots'[k].work = slots[k].work
          /\ \A k \in Slot : k # i => slots'[k] = slots[k]
          /\ slots'[i].state = "COMPLETED"
          /\ s_result' = IF slots[i].reply = "mqtt" THEN control.result ELSE s_result
      BY <1>15, <2>1 DEF complete, Shape, SlotShape, IsSlot, SlotFields
    <2>3. control'.at = "notify"
      BY <1>15, <2>1 DEF complete, Shape, ControlShape, TaskFields
    <2>4. slots[i].reply = "mqtt" => task["mqtt"].at = "waiting" /\ task["mqtt"].slot = i
      BY <1>0, <2>1 DEF Replies, Live, LiveStates, Waits
    <2>5. \A k \in Slot : slots'[k].state \notin {"CANCELLED", "ABANDONED"}
      BY <2>2 DEF OwnHand
    <2>6. task["mqtt"].at = "waiting" => OwnSlot(task["mqtt"].slot)'
      BY <1>01, <2>1, <2>2, <2>3, <2>4 DEF OwnHand, OwnSlot, Mine
    <2>7. task["mqtt"].at = "returned" => s_result' = s_result
      BY <2>2, <2>4
    <2> QED
      BY <2>1, <2>5, <2>6, <2>7, OwnKept
  <1>16. CASE notify
    <2>1. control'.at = "idle" /\ UNCHANGED <<task, slots, s_result>>
      BY <1>16 DEF notify, Idle
    <2> QED
      BY <2>1, QuietOwn
  <1> QED
    BY <1>1, <1>2, <1>3, <1>4, <1>5, <1>6, <1>7, <1>8, <1>9, <1>10, <1>11, <1>12,
       <1>13, <1>14, <1>15, <1>16 DEF Next

-----------------------------------------------------------------------------
(* The theorems *)

\* The node starts with free slots and empty queues.
LEMMA InitInvariant == Init => IInv
  <1> SUFFICES ASSUME Init PROVE IInv
    OBVIOUS
  <1>1. /\ commands = <<>> /\ admin_queue = <<>> /\ queue = <<>> /\ admin.requests = <<>>
        /\ cache = <<>> /\ executed = <<>> /\ results = <<>>
        /\ \A t \in Submitters : task[t] = Idle /\ ~notified[t]
        /\ \A i \in Slot : slots[i] = FreeSlot
        /\ control.at = "idle" /\ admin.at = "idle" /\ late = FALSE /\ answers = {}
        /\ task["mqtt"].at = "idle" /\ task["admin"].at = "idle" /\ "mqtt" \in Submitters
    BY DEF Init, Idle, Submitters
  <1>2. Shape
    <2>1. TaskShape /\ NoteShape
      BY DEF Init, TaskShape, NoteShape, IsTask, Idle, TaskFields, Places, Submitters
    <2>2. SlotShape /\ ControlShape
      BY DEF Init, SlotShape, IsSlot, FreeSlot, SlotFields, States, ControlShape, Idle, TaskFields
    <2>3. QueueShape /\ WireShape /\ PastShape /\ AdminShape
      BY DEF Init, QueueShape, WireShape, PastShape, IsSeq, AdminShape
    <2>4. BudgetShape
      <3>1. MAX_SENDS \in Nat /\ MAX_TIMEOUTS \in Nat
        BY ControlAssumption
      <3>2. MAX_TIMEOUTS \in 0 .. MAX_TIMEOUTS
        BY <3>1
      <3>3. late \in BOOLEAN
        BY DEF Init
      <3>4. /\ DOMAIN budget = {"sends", "local", "timeouts", "drops"}
            /\ budget.sends = MAX_SENDS /\ budget.timeouts = MAX_TIMEOUTS
        BY DEF Init
      <3> QED
        BY <3>1, <3>2, <3>3, <3>4 DEF BudgetShape
    <2> QED
      BY <2>1, <2>2, <2>3, <2>4 DEF Shape
  <1>3. /\ DOMAIN queue = {} /\ DOMAIN admin.requests = {} /\ DOMAIN cache = {}
        /\ DOMAIN executed = {} /\ DOMAIN results = {}
    BY <1>1
  <1>4. Handshake
    <2>1. \A t \in Submitters : task[t].at = "idle"
      BY <1>1 DEF Idle
    <2>2. \A i \in Slot : slots[i].state = "FREE"
      BY <1>1 DEF FreeSlot
    <2>3. Stages
      BY <1>1, <1>3, <2>2 DEF Stages, InQueue
    <2>4. Replies
      BY <1>1, <2>1, <2>2 DEF Replies, Live, LiveStates
    <2>5. AdminReplies
      BY <1>1, <1>3, <2>1 DEF AdminReplies
    <2> QED
      BY <2>3, <2>4, <2>5 DEF Handshake
  <1>5. CacheOnce /\ Kinds /\ OnceMore
    BY <1>1, <1>3 DEF CacheOnce, Kinds, OnceMore, Ran, FreeSlot
  <1>6. Own
    BY <1>1, <1>3 DEF Own, OwnAnswers, OwnHand, FreeSlot
  <1> QED
    BY <1>2, <1>4, <1>5, <1>6 DEF IInv

\* The invariant is about the variables only.
LEMMA StutterInvariant == IInv /\ UNCHANGED vars => IInv'
  <1> SUFFICES ASSUME IInv, UNCHANGED vars PROVE IInv'
    OBVIOUS
  <1> USE DEF vars, wires
  <1>1. Shape'
    BY SameShape DEF IInv, Shape
  <1>2. late' \/ Handshake'
    BY SameHand DEF IInv
  <1>3. CacheOnce => CacheOnce'
    BY DEF CacheOnce, Remembered, Mine
  <1>4. Kinds => Kinds'
    BY DEF Kinds
  <1>5. OnceMore => OnceMore'
    BY QuietOnce DEF HandKept
  <1>6. NoTimeout' => NoTimeout
    BY DEF NoTimeout
  <1>7. OwnHand => OwnHand'
    BY QuietOwn
  <1>8. OwnAnswers => OwnAnswers'
    BY DEF OwnAnswers
  <1> QED
    BY <1>1, <1>2, <1>3, <1>4, <1>5, <1>6, <1>7, <1>8 DEF IInv, Own

\* A reply that came late stays late, and a wait that timed out stays counted.
LEMMA LateStays ==
    ASSUME Shape, Next
    PROVE  (late => late') /\ (NoTimeout' => NoTimeout)
  <1> USE DEF wires
  <1>1. late \in BOOLEAN /\ budget.timeouts \in 0 .. MAX_TIMEOUTS
        /\ DOMAIN budget = {"sends", "local", "timeouts", "drops"}
    BY DEF Shape, BudgetShape
  <1>2. CASE UNCHANGED <<budget, late>>
    BY <1>2 DEF NoTimeout
  <1>3. CASE receive \/ link \/ page_request
    <2>1. late' = late /\ budget'.timeouts = budget.timeouts
      BY <1>1, <1>3 DEF receive, link, page_request
    <2> QED
      BY <2>1 DEF NoTimeout
  <1>4. ASSUME NEW t \in Submitters, reply_timeout(t)
        PROVE  (late => late') /\ (NoTimeout' => NoTimeout)
    <2>1. budget'.timeouts = budget.timeouts - 1 /\ (late => late')
      BY <1>1, <1>4 DEF reply_timeout
    <2> QED
      BY <1>1, <2>1, ControlAssumption DEF NoTimeout
  <1>5. ASSUME NEW t \in {"mqtt", "page"}, admin_wait_over(t)
        PROVE  (late => late') /\ (NoTimeout' => NoTimeout)
    BY <1>2, <1>5 DEF admin_wait_over, NoTimeout
  <1>6. ASSUME NEW t \in Submitters, reply_received(t) PROVE UNCHANGED <<budget, late>>
    BY <1>6 DEF reply_received
  <1>7. CASE \/ drain_deferred_results \/ take_command \/ finish_command \/ take_request
             \/ copy_request \/ execute \/ complete \/ notify \/ take_admin_command
             \/ admin_take \/ admin_reply \/ page_answer
    BY <1>2, <1>7 DEF drain_deferred_results, take_command, finish_command, take_request,
       copy_request, execute, complete, notify, take_admin_command, admin_take, admin_reply,
       page_answer
  <1> QED
    BY <1>2, <1>3, <1>4, <1>5, <1>6, <1>7 DEF Next

\* Every step keeps the inductive invariant.
LEMMA NextInvariant == IInv /\ [Next]_vars => IInv'
  <1>1. ASSUME IInv, Next PROVE IInv'
    <2>1. Shape /\ Shape'
      BY <1>1, ShapeStep DEF IInv
    <2>2. late' \/ (~late /\ Handshake /\ Handshake')
      BY <1>1, <2>1, LateStays, HandshakeStep DEF IInv
    <2>3. RoomForIds => CacheOnce'
      BY <1>1, <2>1, CacheOnceStep DEF IInv
    <2>4. RoomForIds => late' \/ (Kinds' /\ OnceMore')
      BY <1>1, <2>1, <2>2, KindsStep, OnceStep DEF IInv
    <2>5. ASSUME NoTimeout', NODE_CONTROL_QUEUE_LEN >= 3 PROVE Own'
      <3>1. Own /\ Handshake
        BY <1>1, <2>1, <2>2, <2>5, LateStays DEF IInv, NoTimeout
      <3> QED
        BY <1>1, <2>1, <2>5, <3>1, OwnAnswersStep, OwnHandStep DEF Own
    <2> QED
      BY <2>1, <2>2, <2>3, <2>4, <2>5 DEF IInv
  <1> QED
    BY <1>1, StutterInvariant

\* node_control and node_mqtt: the inductive invariant of the handshake, of the
\* duplicate cache and of the answers holds in every state.
THEOREM Invariant == Spec => []IInv
  BY InitInvariant, NextInvariant, PTL DEF Spec

\* ToSet as a set of values
LEMMA ToSetOf == ASSUME NEW s PROVE ToSet(s) = { s[i] : i \in DOMAIN s }
  BY DEF ToSet

\* What is at most once in a sequence is counted at most once.
LEMMA TimesOnce ==
    ASSUME NEW x, NEW s, \A j, k \in DOMAIN s : s[j] = x /\ s[k] = x => j = k
    PROVE  Times(x, s) <= 1
  <1> DEFINE S == { i \in DOMAIN s : s[i] = x }
  <1>1. S = {} \/ \E i : S = {i}
    OBVIOUS
  <1>2. CASE S = {}
    <2>1. Cardinality(S) = 0
      BY <1>2, FS_EmptySet
    <2> QED
      BY <2>1 DEF Times
  <1>3. ASSUME NEW i, S = {i} PROVE Times(x, s) <= 1
    <2>1. Cardinality(S) = 1
      BY <1>3, FS_Singleton
    <2> QED
      BY <2>1 DEF Times
  <1> QED
    BY <1>1, <1>2, <1>3

\* node_control.c: a slot that is queued or worked on is not free for another
\* submitter, is queued once, and every slot that is taken has somebody who will
\* free it, however the waits of the submitters time out, as long as no reply
\* comes after its wait.
THEOREM SlotsAreSafe == Spec => []SlotsSafe
  <1>1. IInv => SlotsSafe
    <2> SUFFICES ASSUME Shape, Stages, Replies PROVE SlotsSafe
      BY DEF IInv, Handshake, SlotsSafe
    <2>1. \A i \in Slot : Times(i, queue) <= 1
      BY TimesOnce DEF Stages
    <2>2. \A i \in ToSet(queue) : i \in Slot /\ InQueue(i)
      BY ToSetOf DEF InQueue, Shape, QueueShape
    <2>3. \A i \in Slot : InQueue(i) => i \in ToSet(queue)
      BY ToSetOf DEF InQueue
    <2>4. \A i \in ToSet(queue) : /\ slots[i].state \in {"QUEUED", "CANCELLED"}
                                  /\ control.at # "idle" => control.slot # i
      BY <2>2 DEF Stages, Replies, Shape, ControlShape
    <2>5. control.at \in {"copying", "processing", "executed"} =>
            slots[control.slot].state # "FREE"
      BY DEF Stages
    <2>6. ASSUME NEW i \in Slot, slots[i].state # "FREE", i \notin ToSet(queue),
                 ~(control.at # "idle" /\ control.slot = i)
          PROVE  \E t \in Submitters : task[t].at = "waiting" /\ task[t].slot = i
      <3>1. slots[i].state = "COMPLETED"
        BY <2>3, <2>6 DEF Stages, Shape, SlotShape, IsSlot, States
      <3> QED
        BY <3>1 DEF Replies, Live, LiveStates, Waits
    <2> QED
      BY <2>1, <2>4, <2>5, <2>6 DEF SlotsSafe
  <1> QED
    BY <1>1, Invariant, PTL

\* docs/NODE_IMPLEMENTATION_CHECKLIST.md: a duplicate request_id has no physical
\* side effect.  As long as there is room in the cache for the ids of the hub's
\* messages, one request takes effect at most once, however often it is sent,
\* refused, timed out or answered while the hub is away.
THEOREM DuplicatesAreHarmless ==
    ASSUME IsFiniteSet(ValidIds), Cardinality(ValidIds) <= NODE_MQTT_DUP_CACHE_SIZE
    PROVE  Spec => []OncePerRequest
  <1>1. IInv => OncePerRequest
    <2> SUFFICES ASSUME OnceMore PROVE \A m \in Messages : Times(m.id, executed) <= 1
      BY DEF IInv, RoomForIds, OncePerRequest
    <2> QED
      BY TimesOnce DEF OnceMore
  <1> QED
    BY <1>1, Invariant, PTL

\* node_mqtt_command.c publishes the result buffer whatever node_control_submit
\* returned: with a slot for each of the three submitters, and while no wait has
\* timed out, every answer is what its own request came to.
THEOREM AnswersAreTheirOwn ==
    ASSUME NODE_CONTROL_QUEUE_LEN >= 3
    PROVE  Spec => []AnswersAreOwn
  <1>1. IInv => AnswersAreOwn
    <2> SUFFICES ASSUME IInv, ~late, ~(budget.timeouts < MAX_TIMEOUTS)
                 PROVE  \A a \in answers : a.id = a.of
      BY DEF AnswersAreOwn
    <2>1. budget.timeouts \in 0 .. MAX_TIMEOUTS
      BY DEF IInv, Shape, BudgetShape
    <2>2. NoTimeout
      BY <2>1, ControlAssumption DEF NoTimeout
    <2> QED
      BY <2>2 DEF IInv, Own, OwnAnswers
  <1> QED
    BY <1>1, Invariant, PTL
-----------------------------------------------------------------------------
(* The arguments of a command *)

\* What n cycles take grows with n.
LEMMA MoreTakesLonger ==
    ASSUME NEW x \in Nat, NEW y \in Nat, NEW n \in Nat, n <= y
    PROVE  n * x <= x * y
<1>1. PICK d \in Nat : y = n + d
  <2>1. y - n \in Nat /\ y = n + (y - n)
    OBVIOUS
  <2> QED
    BY <2>1
<1>2. x * y = n * x + d * x
  BY <1>1
<1>3. d * x \in Nat /\ n * x \in Nat
  BY <1>1
<1> QED
  BY <1>2, <1>3

\* What % leaves.
LEMMA Modulo ==
    ASSUME NEW w \in Nat \ {0}, NEW x \in Int
    PROVE  x % w \in Nat /\ (x \in 0 .. w - 1 => x % w = x) /\ (x \in Nat => x % w <= x)
  OBVIOUS

\* An outcome keeps an output for no longer than the limit, or is left out by
\* the property: the time of a cycle does not fit in 32 bits.
Bounded(r, kind, limit) ==
    \/ r.effect = None
    \/ /\ r.effect.kind = kind
       /\ \/ r.effect.on + r.effect.off >= WORD
          \/ r.effect.count * (r.effect.on + r.effect.off) <= limit

\* The check of the executors is the bound.
LEMMA FitsIsBounded ==
    ASSUME NEW on \in Nat, NEW off \in Nat, NEW count \in Nat, NEW n \in Nat, n <= count,
           NEW limit \in Nat, FitsEffect(on, off, count, limit)
    PROVE  on + off >= WORD \/ n * (on + off) <= limit
<1> SUFFICES ASSUME on + off < WORD PROVE n * (on + off) <= limit
  BY ArgumentsAssumption
<1>1. PICK t \in Nat : t = on + off
  OBVIOUS
<1>2. t % WORD = t
  BY <1>1, ArgumentsAssumption, Modulo
<1>3. CASE count = 0
  <2>1. n = 0
    BY <1>3
  <2>2. n * t = 0
    BY <2>1
  <2> QED
    BY <2>2, <1>1
<1>4. CASE count # 0
  <2>1. t * count <= limit
    BY <1>1, <1>2, <1>4 DEF FitsEffect
  <2>2. n * t <= t * count
    BY MoreTakesLonger
  <2>3. n * t \in Int /\ t * count \in Int
    OBVIOUS
  <2> QED
    BY <1>1, <2>1, <2>2, <2>3
<1> QED
  BY <1>3, <1>4

\* A result is kept, or rejected for want of the output.
LEMMA MissingIsBounded ==
    ASSUME NEW output, NEW a, NEW r, NEW kind, NEW limit, Bounded(r, kind, limit)
    PROVE  Bounded(reject_missing(output, a, r), kind, limit)
  BY DEF reject_missing, Rejected, Bounded

\* Rejecting starts nothing.
LEMMA RejectedIsBounded ==
    \A code, kind, limit : Bounded(Rejected(code), kind, limit)
  BY DEF Rejected, Bounded

\* What an executor starts after its check.
LEMMA StartedIsBounded ==
    ASSUME NEW kind, NEW channel, NEW on \in Nat, NEW off \in Nat, NEW count \in Nat,
           NEW n \in Nat, n <= count, NEW limit \in Nat, FitsEffect(on, off, count, limit)
    PROVE  /\ Bounded(Started(Effect(kind, channel, on, off, n)), kind, limit)
           /\ Bounded(Done(Effect(kind, channel, on, off, n)), kind, limit)
<1>1. on + off >= WORD \/ n * (on + off) <= limit
  BY FitsIsBounded
<1> QED
  BY <1>1 DEF Bounded, Started, Done, Effect

\* One cycle that is short enough.
LEMMA OnceIsBounded ==
    ASSUME NEW kind, NEW channel, NEW on \in Nat, NEW limit \in Nat, on <= limit
    PROVE  /\ Bounded(Started(Effect(kind, channel, on, 0, 1)), kind, limit)
           /\ Bounded(Done(Effect(kind, channel, on, 0, 1)), kind, limit)
<1>1. 1 * (on + 0) <= limit
  OBVIOUS
<1> QED
  BY <1>1 DEF Bounded, Started, Done, Effect

\* An effect that is no longer than a moment, or runs until it is stopped.
LEMMA PlainIsBounded ==
    ASSUME NEW kind, NEW channel, NEW limit \in Nat
    PROVE  /\ Bounded(Started(Plain(kind, channel)), kind, limit)
           /\ Bounded(Done(Plain(kind, channel)), kind, limit)
           /\ Bounded(Done(Effect(kind, channel, 0, 0, 0)), kind, limit)
<1>1. 1 * (0 + 0) <= limit /\ 0 * (0 + 0) <= limit
  OBVIOUS
<1> QED
  BY <1>1 DEF Bounded, Started, Done, Plain, Effect

\* The numbers an executor reads.
Numbers(a) == \A k \in NumberKeys : Has(a, k) => a[k] \in Int

\* A time that is read is a natural number, a count a number.
LEMMA ReadFacts ==
    ASSUME NEW a, Numbers(a), NEW k \in NumberKeys
    PROVE  /\ \A d \in Nat : read_u32_arg(a, k, d) \in Nat
           /\ \A d \in Int : read_int_arg(a, k, d) \in Int
<1>1. CASE Has(a, k)
  <2>1. a[k] \in Int
    BY <1>1 DEF Numbers
  <2>2. a[k] % WORD \in Nat
    BY <2>1, ArgumentsAssumption, Modulo
  <2> QED
    BY <1>1, <2>1, <2>2 DEF read_u32_arg, read_int_arg
<1>2. CASE ~Has(a, k)
  BY <1>2 DEF read_u32_arg, read_int_arg
<1> QED
  BY <1>1, <1>2

\* The configuration's times and counts are natural numbers.
LEMMA DefaultFacts ==
    ASSUME NEW a
    PROVE  /\ \A k \in MosfetKeys : MosfetDefault(a, k) \in Nat
           /\ \A k \in LedKeys : LedDefault(a, k) \in Nat
<1>1. Configured("mosfet", a) \in BOOLEAN /\ Configured("led", a) \in BOOLEAN
  BY DEF Configured
<1> QED
  BY <1>1, ArgumentsAssumption DEF MosfetDefault, LedDefault

MosfetLimit == NODE_CONTROL_MAX_MOSFET_EFFECT_MS
LedLimit == NODE_CONTROL_MAX_LED_EFFECT_MS

\* A negative count is left out.
Plausible(a) == Has(a, "count") => a["count"] >= 0

\* mosfet.fade and mosfet.pulse.
LEMMA MosfetTimed ==
    ASSUME NEW a, Numbers(a)
    PROVE  Bounded(execute_mosfet_fade(a), "mosfet", MosfetLimit) /\ Bounded(execute_mosfet_pulse(a), "mosfet", MosfetLimit)
<1>0. MosfetLimit \in Nat
  BY ArgumentsAssumption DEF MosfetLimit
<1>1. Bounded(execute_mosfet_fade(a), "mosfet", MosfetLimit)
  <2>1. PICK d : d = read_u32_arg(a, "duration_ms", MosfetDefault(a, "fade_ms"))
    OBVIOUS
  <2>2. d \in Nat
    BY <2>1, ReadFacts, DefaultFacts DEF NumberKeys, MosfetKeys
  <2>3. CASE d <= NODE_CONTROL_MAX_MOSFET_FADE_MS
    <3>1. d <= MosfetLimit
      BY <2>2, <2>3, ArgumentsAssumption DEF MosfetLimit
    <3>2. Bounded(reject_missing("mosfet", a, Started(Effect("mosfet", Channel(a), d, 0, 1))), "mosfet", MosfetLimit)
      BY <1>0, <2>2, <3>1, OnceIsBounded, MissingIsBounded
    <3> QED
      BY <2>1, <3>2, RejectedIsBounded, Zenon DEF execute_mosfet_fade
  <2>4. CASE ~(d <= NODE_CONTROL_MAX_MOSFET_FADE_MS)
    <3>1. d > NODE_CONTROL_MAX_MOSFET_FADE_MS
      BY <2>2, <2>4, ArgumentsAssumption
    <3> QED
      BY <2>1, <3>1, RejectedIsBounded, Zenon DEF execute_mosfet_fade
  <2> QED
    BY <2>3, <2>4
<1>2. Bounded(execute_mosfet_pulse(a), "mosfet", MosfetLimit)
  <2>1. PICK d : d = read_u32_arg(a, "duration_ms", MosfetDefault(a, "pulse_ms"))
    OBVIOUS
  <2>2. d \in Nat
    BY <2>1, ReadFacts, DefaultFacts DEF NumberKeys, MosfetKeys
  <2>3. CASE d \in 1 .. NODE_CONTROL_MAX_MOSFET_PULSE_MS
    <3>1. d <= MosfetLimit
      BY <2>2, <2>3, ArgumentsAssumption DEF MosfetLimit
    <3>2. Bounded(reject_missing("mosfet", a, Started(Effect("mosfet", Channel(a), d, 0, 1))), "mosfet", MosfetLimit)
      BY <1>0, <2>2, <3>1, OnceIsBounded, MissingIsBounded
    <3> QED
      BY <2>1, <3>2, RejectedIsBounded, Zenon DEF execute_mosfet_pulse
  <2>4. CASE d \notin 1 .. NODE_CONTROL_MAX_MOSFET_PULSE_MS
    BY <2>1, <2>4, RejectedIsBounded, Zenon DEF execute_mosfet_pulse
  <2> QED
    BY <2>3, <2>4
<1> QED
  BY <1>1, <1>2

\* mosfet.blink and mosfet.breathe.
LEMMA MosfetCycles ==
    ASSUME NEW a, Numbers(a), Plausible(a)
    PROVE  Bounded(execute_mosfet_blink(a), "mosfet", MosfetLimit) /\ Bounded(execute_mosfet_breathe(a), "mosfet", MosfetLimit)
<1>0. MosfetLimit \in Nat
  BY ArgumentsAssumption DEF MosfetLimit
<1>c. \A d \in Nat : read_int_arg(a, "count", d) \in Nat
  <2>1. \A d \in Nat : read_int_arg(a, "count", d) \in Int
    BY ReadFacts DEF NumberKeys
  <2> QED
    BY <2>1 DEF read_int_arg, Plausible
<1>1. Bounded(execute_mosfet_blink(a), "mosfet", MosfetLimit)
  <2>1. PICK on : on = read_u32_arg(a, "on_ms", MosfetDefault(a, "on_ms"))
    OBVIOUS
  <2>2. PICK off : off = read_u32_arg(a, "off_ms", MosfetDefault(a, "off_ms"))
    OBVIOUS
  <2>3. PICK n : n = read_int_arg(a, "count", MosfetDefault(a, "blinks"))
    OBVIOUS
  <2>4. on \in Nat /\ off \in Nat /\ n \in Nat
    BY <2>1, <2>2, <2>3, <1>c, ReadFacts, DefaultFacts DEF NumberKeys, MosfetKeys
  <2>5. n % WORD \in Nat /\ n % WORD <= n
    BY <2>4, Modulo, ArgumentsAssumption
  <2>6. CASE FitsEffect(on, off, n, NODE_CONTROL_MAX_MOSFET_EFFECT_MS)
    <3>1. Bounded(reject_missing("mosfet", a, Started(Effect("mosfet", Channel(a), on, off, n % WORD))), "mosfet", MosfetLimit)
      BY <1>0, <2>4, <2>5, <2>6, StartedIsBounded, MissingIsBounded DEF MosfetLimit
    <3> QED
      BY <2>1, <2>2, <2>3, <3>1, RejectedIsBounded, Zenon DEF execute_mosfet_blink
  <2>7. CASE ~FitsEffect(on, off, n, NODE_CONTROL_MAX_MOSFET_EFFECT_MS)
    BY <2>1, <2>2, <2>3, <2>7, RejectedIsBounded, Zenon DEF execute_mosfet_blink
  <2> QED
    BY <2>6, <2>7
<1>2. Bounded(execute_mosfet_breathe(a), "mosfet", MosfetLimit)
  <2>1. PICK fade : fade = read_u32_arg(a, "fade_ms", MosfetDefault(a, "breathe_ms"))
    OBVIOUS
  <2>2. PICK hold : hold = read_u32_arg(a, "hold_ms", MosfetDefault(a, "hold_ms"))
    OBVIOUS
  <2>3. PICK n : n = read_int_arg(a, "count", MosfetDefault(a, "breaths"))
    OBVIOUS
  <2>d. /\ MosfetDefault(a, "breathe_ms") \in Nat /\ MosfetDefault(a, "hold_ms") \in Nat
        /\ MosfetDefault(a, "breaths") \in Nat
    BY DefaultFacts DEF MosfetKeys
  <2>r. fade \in Nat /\ hold \in Nat /\ n \in Nat
    BY <2>d, <2>1, <2>2, <2>3, <1>c, ReadFacts DEF NumberKeys
  <2>4. 2 * fade \in Nat /\ 2 * hold \in Nat /\ n \in Nat
    BY <2>r
  <2>5. n % WORD \in Nat /\ n % WORD <= n
    BY <2>4, Modulo, ArgumentsAssumption
  <2>6. CASE FitsEffect(2 * fade, 2 * hold, n, NODE_CONTROL_MAX_MOSFET_EFFECT_MS)
    <3>1. Bounded(reject_missing("mosfet", a, Started(Effect("mosfet", Channel(a), 2 * fade, 2 * hold, n % WORD))), "mosfet", MosfetLimit)
      BY <1>0, <2>4, <2>5, <2>6, StartedIsBounded, MissingIsBounded DEF MosfetLimit
    <3> QED
      BY <2>1, <2>2, <2>3, <3>1, RejectedIsBounded, Zenon DEF execute_mosfet_breathe
  <2>7. CASE ~FitsEffect(2 * fade, 2 * hold, n, NODE_CONTROL_MAX_MOSFET_EFFECT_MS)
    BY <2>1, <2>2, <2>3, <2>7, RejectedIsBounded, Zenon DEF execute_mosfet_breathe
  <2> QED
    BY <2>6, <2>7
<1> QED
  BY <1>1, <1>2

\* mosfet.effect, whichever of its branches is taken.
LEMMA MosfetAlias ==
    ASSUME NEW a, Numbers(a)
    PROVE  Bounded(execute_mosfet_effect_alias(a), "mosfet", MosfetLimit)
<1>0. MosfetLimit \in Nat
  BY ArgumentsAssumption DEF MosfetLimit
<1>1. PICK d : d = read_u32_arg(a, "duration_ms", MosfetDefault(a, "pulse_ms"))
  OBVIOUS
<1>2. PICK u : u = read_u32_arg(a, "repeat", MosfetDefault(a, "breaths"))
  OBVIOUS
<1>3. PICK n : n = read_int_arg(a, "count", AsInt(u))
  OBVIOUS
<1>4. d \in Nat /\ u \in Nat
  BY <1>1, <1>2, ReadFacts, DefaultFacts DEF NumberKeys, MosfetKeys
<1>5. n \in Int
  <2>1. AsInt(u) \in Int
    BY <1>4, ArgumentsAssumption DEF AsInt
  <2> QED
    BY <1>3, <2>1, ReadFacts DEF NumberKeys
<1>6. PICK on : on = read_u32_arg(a, "on_ms", d)
  OBVIOUS
<1>7. PICK off : off = read_u32_arg(a, "off_ms", d)
  OBVIOUS
<1>8. PICK fade : fade = read_u32_arg(a, "fade_ms", d)
  OBVIOUS
<1>9. PICK hold : hold = read_u32_arg(a, "hold_ms", d \div 2)
  OBVIOUS
<1>10. on \in Nat /\ off \in Nat /\ fade \in Nat /\ hold \in Nat /\ 2 * fade \in Nat /\ 2 * hold \in Nat
  <2>1. d \div 2 \in Nat
    BY <1>4
  <2>2. on \in Nat /\ off \in Nat /\ fade \in Nat
    BY <1>4, <1>6, <1>7, <1>8, ReadFacts DEF NumberKeys
  <2>3. hold \in Nat
    BY <2>1, <1>9, ReadFacts DEF NumberKeys
  <2> QED
    BY <2>2, <2>3
<1> DEFINE plain == reject_missing("mosfet", a, Done(Plain("mosfet", Channel(a))))
           timed == reject_missing("mosfet", a, Done(Effect("mosfet", Channel(a), d, 0, 1)))
           cycles == reject_missing("mosfet", a, Done(Effect("mosfet", Channel(a), 2 * fade, 2 * hold, n)))
           endless == reject_missing("mosfet", a, Done(Effect("mosfet", Channel(a), 0, 0, 0)))
           Fine(r) == Bounded(r, "mosfet", MosfetLimit)
<1>11. Fine(plain) /\ Fine(endless)
  BY <1>0, PlainIsBounded, MissingIsBounded
<1>12. d \in 1 .. NODE_CONTROL_MAX_MOSFET_PULSE_MS \/ d <= NODE_CONTROL_MAX_MOSFET_FADE_MS => Fine(timed)
  <2> SUFFICES ASSUME d \in 1 .. NODE_CONTROL_MAX_MOSFET_PULSE_MS \/ d <= NODE_CONTROL_MAX_MOSFET_FADE_MS
               PROVE  Fine(timed)
    OBVIOUS
  <2>1. d <= MosfetLimit
    BY <1>4, ArgumentsAssumption DEF MosfetLimit
  <2> QED
    BY <1>0, <1>4, <2>1, OnceIsBounded, MissingIsBounded
<1>13. Fine(AliasBlink(a, on, off, n))
  <2>1. CASE n < 0 \/ ~FitsEffect(on, off, n, NODE_CONTROL_MAX_MOSFET_EFFECT_MS)
    BY <2>1, RejectedIsBounded, Zenon DEF AliasBlink
  <2>2. CASE ~(n < 0) /\ FitsEffect(on, off, n, NODE_CONTROL_MAX_MOSFET_EFFECT_MS)
    <3>1. n \in Nat /\ n <= n
      BY <2>2, <1>5
    <3>2. Bounded(reject_missing("mosfet", a, Done(Effect("mosfet", Channel(a), on, off, n))), "mosfet", MosfetLimit)
      BY <1>0, <1>10, <2>2, <3>1, StartedIsBounded, MissingIsBounded DEF MosfetLimit
    <3> QED
      BY <3>2, RejectedIsBounded, Zenon DEF AliasBlink
  <2> QED
    BY <2>1, <2>2
<1>14. ~(n < 0) /\ FitsEffect(2 * fade, 2 * hold, n, NODE_CONTROL_MAX_MOSFET_EFFECT_MS) => Fine(cycles)
  <2> SUFFICES ASSUME ~(n < 0), FitsEffect(2 * fade, 2 * hold, n, NODE_CONTROL_MAX_MOSFET_EFFECT_MS)
               PROVE  Fine(cycles)
    OBVIOUS
  <2>1. n \in Nat /\ n <= n
    BY <1>5
  <2> QED
    BY <1>0, <1>10, <2>1, StartedIsBounded, MissingIsBounded DEF MosfetLimit
<1>15. \A code : Fine(Rejected(code))
  BY RejectedIsBounded
<1> QED
  <2>1. PICK x : x = execute_mosfet_effect_alias(a)
    OBVIOUS
  <2>2. \/ \E code : x = Rejected(code)
        \/ x = plain \/ x = endless
        \/ x = timed /\ (d \in 1 .. NODE_CONTROL_MAX_MOSFET_PULSE_MS \/ d <= NODE_CONTROL_MAX_MOSFET_FADE_MS)
        \/ x = AliasBlink(a, on, off, n)
        \/ x = cycles /\ ~(n < 0) /\ FitsEffect(2 * fade, 2 * hold, n, NODE_CONTROL_MAX_MOSFET_EFFECT_MS)
    <3> HIDE DEF Fine
    <3> QED
      BY <2>1, <1>1, <1>2, <1>3, <1>6, <1>7, <1>8, <1>9 DEF execute_mosfet_effect_alias
  <2> HIDE DEF plain, timed, cycles, endless
  <2>3. Fine(x)
    BY <2>2, <1>11, <1>12, <1>13, <1>14, <1>15
  <2> QED
    BY <2>1, <2>3

\* led.blink and its preview.
LEMMA LedBlinks ==
    ASSUME NEW a, Numbers(a), NEW preview
    PROVE  Bounded(execute_led_blink(a, preview), "led", LedLimit)
<1>0. LedLimit \in Nat
  BY ArgumentsAssumption DEF LedLimit
<1> DEFINE override(key) ==
             IF preview /\ read_u32_arg(a, key, 0) > 0 THEN read_u32_arg(a, key, 0)
             ELSE LedDefault(a, key)
<1>1. PICK on : on = override("on_ms")
  OBVIOUS
<1>2. PICK off : off = override("off_ms")
  OBVIOUS
<1>3. PICK n : n = read_int_arg(a, "times", LedDefault(a, "blinks"))
  OBVIOUS
<1>4. on \in Nat /\ off \in Nat
  <2>1. read_u32_arg(a, "on_ms", 0) \in Nat /\ read_u32_arg(a, "off_ms", 0) \in Nat
    BY ReadFacts DEF NumberKeys
  <2>2. LedDefault(a, "on_ms") \in Nat /\ LedDefault(a, "off_ms") \in Nat
    BY DefaultFacts DEF LedKeys
  <2> QED
    BY <1>1, <1>2, <2>1, <2>2
<1>5. n \in Int
  BY <1>3, ReadFacts, DefaultFacts DEF NumberKeys, LedKeys
<1>6. CASE n < 0 \/ ~FitsEffect(on, off, n, NODE_CONTROL_MAX_LED_EFFECT_MS)
  BY <1>1, <1>2, <1>3, <1>6, RejectedIsBounded, Zenon DEF execute_led_blink
<1>7. CASE ~(n < 0) /\ FitsEffect(on, off, n, NODE_CONTROL_MAX_LED_EFFECT_MS)
  <2>1. n \in Nat /\ n <= n
    BY <1>5, <1>7
  <2>2. Bounded(reject_missing("led", a, Started(Effect("led", Channel(a), on, off, n))), "led", LedLimit)
    BY <1>0, <1>4, <1>7, <2>1, StartedIsBounded, MissingIsBounded DEF LedLimit
  <2> QED
    BY <1>1, <1>2, <1>3, <2>2, RejectedIsBounded, Zenon DEF execute_led_blink
<1> QED
  BY <1>6, <1>7

\* led.breathe and its preview.
LEMMA LedBreathes ==
    ASSUME NEW a, Numbers(a), NEW preview
    PROVE  Bounded(execute_led_breathe(a, preview), "led", LedLimit)
<1>0. LedLimit \in Nat
  BY ArgumentsAssumption DEF LedLimit
<1>1. PICK cycle : cycle = IF preview THEN read_u32_arg(a, "duration_ms", LedDefault(a, "cycle_ms"))
                           ELSE LedDefault(a, "cycle_ms")
  OBVIOUS
<1>2. PICK n : n = IF preview THEN read_int_arg(a, "count", LedDefault(a, "breaths"))
                   ELSE LedDefault(a, "breaths")
  OBVIOUS
<1>3. cycle \in Nat
  BY <1>1, ReadFacts, DefaultFacts DEF NumberKeys, LedKeys
<1>4. n \in Int
  <2>1. LedDefault(a, "breaths") \in Int
    BY DefaultFacts DEF LedKeys
  <2> QED
    BY <1>2, <2>1, ReadFacts DEF NumberKeys
<1>5. CASE n < 0 \/ ~FitsEffect(cycle, 0, n, NODE_CONTROL_MAX_LED_EFFECT_MS)
  BY <1>1, <1>2, <1>5, RejectedIsBounded, Zenon DEF execute_led_breathe
<1>6. CASE ~(n < 0) /\ FitsEffect(cycle, 0, n, NODE_CONTROL_MAX_LED_EFFECT_MS)
  <2>1. n \in Nat /\ n <= n
    BY <1>4, <1>6
  <2>2. Bounded(reject_missing("led", a, Started(Effect("led", Channel(a), cycle, 0, n))), "led", LedLimit)
    BY <1>0, <1>3, <1>6, <2>1, StartedIsBounded, MissingIsBounded DEF LedLimit
  <2> QED
    BY <1>1, <1>2, <2>2, RejectedIsBounded, Zenon DEF execute_led_breathe
<1> QED
  BY <1>5, <1>6

\* strobe, the one advanced effect that has a limit, and its preview.
LEMMA LedStrobes ==
    ASSUME NEW a, Numbers(a), NEW preview, Has(a, "effect") => a.effect = "strobe"
    PROVE  Bounded(execute_led_effect(a, preview), "led", LedLimit)
<1>0. LedLimit \in Nat
  BY ArgumentsAssumption DEF LedLimit
<1>1. PICK d : d = IF preview THEN read_u32_arg(a, "duration_ms", LedDefault(a, "cycle_ms"))
                   ELSE LedDefault(a, "cycle_ms")
  OBVIOUS
<1>2. PICK t : t = IF preview THEN read_u32_arg(a, "step_ms", LedDefault(a, "step_ms"))
                   ELSE LedDefault(a, "step_ms")
  OBVIOUS
<1>3. PICK n : n = IF preview THEN read_u32_arg(a, "count", LedDefault(a, "blinks"))
                   ELSE LedDefault(a, "blinks")
  OBVIOUS
<1>4. d \in Nat /\ t \in Nat /\ n \in Nat /\ n <= n
  BY <1>1, <1>2, <1>3, ReadFacts, DefaultFacts DEF NumberKeys, LedKeys
<1>5. CASE FitsEffect(d, t, n, NODE_CONTROL_MAX_LED_EFFECT_MS)
  <2>1. Bounded(reject_missing("led", a, Started(Effect("led", Channel(a), d, t, n))), "led", LedLimit)
    BY <1>0, <1>4, <1>5, StartedIsBounded, MissingIsBounded DEF LedLimit
  <2> QED
    BY <1>1, <1>2, <1>3, <2>1, RejectedIsBounded, Zenon DEF execute_led_effect
<1>6. CASE ~FitsEffect(d, t, n, NODE_CONTROL_MAX_LED_EFFECT_MS)
  <2>1. CASE Has(a, "effect")
    BY <1>1, <1>2, <1>3, <1>6, <2>1, RejectedIsBounded, Zenon DEF execute_led_effect
  <2>2. CASE ~Has(a, "effect")
    BY <2>2, RejectedIsBounded, Zenon DEF execute_led_effect
  <2> QED
    BY <2>1, <2>2
<1> QED
  BY <1>5, <1>6

\* An outcome that starts nothing on a MOSFET or a strip.
Elsewhere(r) == r.effect = None \/ r.effect.kind \notin {"mosfet", "led"}

\* Relays, universal I/O and commands that start nothing.
LEMMA ElsewhereFacts ==
    ASSUME NEW a
    PROVE  /\ \A k \in {"relay", "io"} : Elsewhere(execute_output_set(k, a))
           /\ Elsewhere(execute_output_pulse("relay", a)) /\ Elsewhere(execute_relay_effect(a))
           /\ \A k \in {"relay", "io"} : Elsewhere(execute_output_all_off(k))
           /\ Elsewhere(execute_node_all_off)
           /\ Elsewhere(Done(None)) /\ \A code : Elsewhere(Rejected(code))
<1>1. \A code : Elsewhere(Rejected(code))
  BY DEF Elsewhere, Rejected
<1>2. \A c, on, off, n : \A k \in {"relay", "io"} :
         /\ Elsewhere(Started(Effect(k, c, on, off, n)))
         /\ Elsewhere(reject_missing(k, a, Started(Effect(k, c, on, off, n))))
  BY DEF Elsewhere, Started, Effect, reject_missing, Rejected
<1>3. \A k \in {"relay", "io"} : Elsewhere(execute_output_set(k, a))
  BY <1>1, <1>2 DEF execute_output_set, Plain
<1>4. Elsewhere(execute_output_pulse("relay", a))
  BY <1>1, <1>2 DEF execute_output_pulse
<1>5. Elsewhere(execute_relay_effect(a))
  BY <1>1, <1>2 DEF execute_relay_effect
<1>6. \A k \in {"relay", "io"} : Elsewhere(execute_output_all_off(k))
  BY <1>2 DEF execute_output_all_off, Plain
<1>7. Elsewhere(execute_node_all_off) /\ Elsewhere(Done(None))
  BY DEF Elsewhere, execute_node_all_off, Started, Done, Plain, Effect
<1> QED
  BY <1>1, <1>3, <1>4, <1>5, <1>6, <1>7

\* Commands that set an output at once.
LEMMA DoneAtOnce ==
    ASSUME NEW a
    PROVE  /\ Bounded(execute_mosfet_set(a), "mosfet", MosfetLimit)
           /\ Bounded(execute_mosfet_all_off, "mosfet", MosfetLimit)
           /\ Bounded(execute_led_off(a), "led", LedLimit)
           /\ Bounded(execute_led_solid(a), "led", LedLimit)
<1>0. MosfetLimit \in Nat /\ LedLimit \in Nat
  BY ArgumentsAssumption DEF MosfetLimit, LedLimit
<1>1. \A c : /\ Bounded(Started(Plain("mosfet", c)), "mosfet", MosfetLimit)
             /\ Bounded(Done(Plain("led", c)), "led", LedLimit)
  BY <1>0, PlainIsBounded
<1>2. \A c : /\ Bounded(reject_missing("mosfet", a, Started(Plain("mosfet", c))), "mosfet", MosfetLimit)
             /\ Bounded(reject_missing("led", a, Done(Plain("led", c))), "led", LedLimit)
  BY <1>1, MissingIsBounded
<1>3. Bounded(execute_mosfet_set(a), "mosfet", MosfetLimit)
  BY <1>2, RejectedIsBounded, Zenon DEF execute_mosfet_set
<1>4. Bounded(execute_mosfet_all_off, "mosfet", MosfetLimit)
  BY <1>1 DEF execute_mosfet_all_off
<1>5. Bounded(execute_led_off(a), "led", LedLimit)
  BY <1>2, RejectedIsBounded, Zenon DEF execute_led_off
<1>6. Bounded(execute_led_solid(a), "led", LedLimit)
  BY <1>2, RejectedIsBounded, Zenon DEF execute_led_solid
<1> QED
  BY <1>3, <1>4, <1>5, <1>6

\* What the property says of a command and its outcome.
Kept(s, r) ==
    \/ r.effect = None \/ r.effect.kind \notin {"mosfet", "led"}
    \/ s.command \in {"led.effect", "led.preview.effect"} /\ s.args.effect # "strobe"
    \/ r.effect.on + r.effect.off >= WORD
    \/ Has(s.args, "count") /\ s.args.count < 0
    \/ r.effect.count * (r.effect.on + r.effect.off) <= EffectLimit(r.effect.kind)

\* A bounded outcome is one the property allows.
LEMMA BoundedIsKept ==
    ASSUME NEW s, NEW r,
           \/ Elsewhere(r) \/ Bounded(r, "mosfet", MosfetLimit) \/ Bounded(r, "led", LedLimit)
    PROVE  Kept(s, r)
<1>1. EffectLimit("mosfet") = MosfetLimit /\ EffectLimit("led") = LedLimit
  BY DEF EffectLimit, MosfetLimit, LedLimit
<1>2. CASE Elsewhere(r)
  BY <1>2 DEF Elsewhere, Kept
<1>3. ASSUME NEW k, NEW limit, EffectLimit(k) = limit, Bounded(r, k, limit) PROVE Kept(s, r)
  BY <1>3 DEF Bounded, Kept
<1> QED
  BY <1>1, <1>2, <1>3

\* Every command.
LEMMA EveryCommandKept ==
    ASSUME NEW s \in Samples
    PROVE  Kept(s, node_control_execute_inline(s.command, "hub", s.args, "unknown"))
<1>1. PICK c : c = s.command
  OBVIOUS
<1>2. PICK a : a = s.args
  OBVIOUS
<1>3. PICK r : r = node_control_execute_inline(c, "hub", a, "unknown")
  OBVIOUS
<1>4. Numbers(a)
  BY <1>2, ArgumentsAssumption DEF Numbers
<1>5. \/ r = Done(None) \/ \E code : r = Rejected(code)
      \/ \E k \in {"relay", "io"} : r = execute_output_set(k, a) \/ r = execute_output_all_off(k)
      \/ r = execute_output_pulse("relay", a) \/ r = execute_relay_effect(a)
      \/ r = execute_node_all_off
      \/ r = execute_mosfet_set(a) \/ r = execute_mosfet_all_off
      \/ r = execute_led_off(a) \/ r = execute_led_solid(a)
      \/ r = execute_mosfet_fade(a) \/ r = execute_mosfet_pulse(a)
      \/ r = execute_mosfet_blink(a) \/ r = execute_mosfet_breathe(a)
      \/ r = execute_mosfet_effect_alias(a)
      \/ \E p \in BOOLEAN : r = execute_led_blink(a, p) \/ r = execute_led_breathe(a, p)
      \/ c \in {"led.effect", "led.preview.effect"} /\ \E p \in BOOLEAN : r = execute_led_effect(a, p)
  BY <1>3 DEF node_control_execute_inline
<1>6. CASE \/ r = Done(None) \/ \E code : r = Rejected(code)
           \/ \E k \in {"relay", "io"} : r = execute_output_set(k, a) \/ r = execute_output_all_off(k)
           \/ r = execute_output_pulse("relay", a) \/ r = execute_relay_effect(a)
           \/ r = execute_node_all_off
  <2>1. Elsewhere(r)
    BY <1>6, ElsewhereFacts
  <2> QED
    BY <2>1, <1>1, <1>2, <1>3, BoundedIsKept
<1>7. CASE \/ r = execute_mosfet_set(a) \/ r = execute_mosfet_all_off
           \/ r = execute_led_off(a) \/ r = execute_led_solid(a)
           \/ r = execute_mosfet_fade(a) \/ r = execute_mosfet_pulse(a)
           \/ r = execute_mosfet_effect_alias(a)
           \/ \E p \in BOOLEAN : r = execute_led_blink(a, p) \/ r = execute_led_breathe(a, p)
  <2>1. Bounded(r, "mosfet", MosfetLimit) \/ Bounded(r, "led", LedLimit)
    BY <1>4, <1>7, DoneAtOnce, MosfetTimed, MosfetAlias, LedBlinks, LedBreathes, Zenon
  <2> QED
    BY <2>1, <1>1, <1>2, <1>3, BoundedIsKept
<1>8. CASE r = execute_mosfet_blink(a) \/ r = execute_mosfet_breathe(a)
  <2>1. CASE Plausible(a)
    <3>1. Bounded(r, "mosfet", MosfetLimit)
      BY <1>4, <1>8, <2>1, MosfetCycles, Zenon
    <3> QED
      BY <3>1, <1>1, <1>2, <1>3, BoundedIsKept
  <2>2. CASE ~Plausible(a)
    <3>1. Has(a, "count") /\ a["count"] \in Int /\ ~(a["count"] >= 0)
      BY <2>2, <1>4 DEF Plausible, Numbers, NumberKeys
    <3> QED
      BY <3>1, <1>1, <1>2, <1>3 DEF Kept
  <2> QED
    BY <2>1, <2>2
<1>9. CASE c \in {"led.effect", "led.preview.effect"} /\ \E p \in BOOLEAN : r = execute_led_effect(a, p)
  <2>1. CASE Has(a, "effect") => a.effect = "strobe"
    <3>1. Bounded(r, "led", LedLimit)
      BY <1>4, <1>9, <2>1, LedStrobes, Zenon
    <3> QED
      BY <3>1, <1>1, <1>2, <1>3, BoundedIsKept
  <2>2. CASE ~(Has(a, "effect") => a.effect = "strobe")
    BY <2>2, <1>9, <1>1, <1>2, <1>3 DEF Kept
  <2> QED
    BY <2>1, <2>2
<1> QED
  BY <1>5, <1>6, <1>7, <1>8, <1>9

\* EffectsBounded, for every argument, preset and default and every width of
\* the numbers: no command that takes effect keeps a MOSFET or a strip busy for
\* longer than the node allows.
THEOREM EffectsKeepTheLimit == ArgumentsSpec => []EffectsBounded
<1> DEFINE Due == sample \in Samples /\ (outcome # None => Kept(sample, outcome))
<1>1. ArgumentsInit => Due
  BY DEF ArgumentsInit
<1>2. Due /\ [execute_sample]_<<sample, outcome>> => Due'
  BY EveryCommandKept DEF execute_sample
<1>3. Due => EffectsBounded
  BY DEF EffectsBounded, Kept
<1> QED
  BY <1>1, <1>2, <1>3, PTL DEF ArgumentsSpec
-----------------------------------------------------------------------------
(* The rule engine: its inductive invariant *)

Inputs == DOMAIN Channels
RuleNumbers == 1 .. Len(bundle.rules)
InputFields == {"initialized", "stable", "since", "pending", "pending_since", "mask"}
PassFields == {"e", "out", "sl", "fired", "edges"}

IsInput(r) == /\ DOMAIN r = InputFields
              /\ r.initialized \in BOOLEAN /\ r.stable \in BOOLEAN /\ r.pending \in BOOLEAN
              /\ r.pending_since \in 0 .. CLOCK - 1

\* Rule i waits for channel c to be held at v for d.
Awaits(i, c, v, d) ==
    /\ bundle.rules[i].enabled
    /\ bundle.rules[i].trigger[1] = "input_hold"
    /\ bundle.rules[i].trigger[2] = c
    /\ bundle.rules[i].trigger[3] = Bit(v)
    /\ bundle.rules[i].trigger[4] = d

\* No duration twice.
Once(list) == /\ IsSeq(list)
              /\ \A i, j \in DOMAIN list : list[i] = list[j] => i = j

\* The rules of every duration that was dispatched are marked.
Marked(r, list, c) ==
    \A k \in DOMAIN list : \A i \in RuleNumbers : Awaits(i, c, r.stable, list[k]) => i \in r.mask

HoldOk(r, list, c) == IsInput(r) /\ Once(list) /\ Marked(r, list, c)

\* An edge that is pending has been seen by every poll since it began.
PendingOk(r, seen, since_poll, c) ==
    r.pending => /\ seen.val # r.stable
                 /\ \/ seen.time = Channels[c]
                    \/ Elapsed(r.pending_since) <= seen.time + since_poll

IsSeen(s) == /\ DOMAIN s = {"val", "time"}
             /\ s.val \in BOOLEAN /\ s.time \in Nat

EngineWorld ==
    /\ now \in 0 .. CLOCK - 1 /\ gap \in Nat
    /\ DOMAIN level = Inputs /\ \A c \in Inputs : level[c] \in BOOLEAN
    /\ DOMAIN steady = Inputs /\ \A c \in Inputs : IsSeen(steady[c])
    /\ Len(bundle.rules) \in Nat

InputsOk ==
    /\ DOMAIN inputs = Inputs /\ DOMAIN fired = Inputs
    /\ \A c \in Inputs : HoldOk(inputs[c], fired[c], c)
PendingsOk == \A c \in Inputs : PendingOk(inputs[c], steady[c], gap, c)
EdgesOk == edges \subseteq Inputs /\ EdgeIsSustained

EngineInv == EngineWorld /\ InputsOk /\ PendingsOk /\ EdgesOk /\ PausedIsReset

-----------------------------------------------------------------------------
(* A pass of the owner task *)

\* The pass so far: what the properties say of the engine, the inputs and the
\* holds.
PassOk(s) ==
    /\ DOMAIN s = PassFields
    /\ DOMAIN s.sl = Inputs /\ DOMAIN s.fired = Inputs /\ s.edges \subseteq Inputs
    /\ \A c \in Inputs : HoldOk(s.sl[c], s.fired[c], c)
    /\ paused => s.e = ResetEngine(bundle)

\* Only the engine's values, phase and timers may differ, and not those of
\* paused rules.
OnlyEngine(s, t) ==
    /\ DOMAIN s = PassFields /\ DOMAIN t = PassFields
    /\ t.sl = s.sl /\ t.fired = s.fired /\ t.edges = s.edges
    /\ paused => t.e = s.e

\* An event leaves the inputs alone, and while paused everything.
LEMMA DispatchKeeps ==
    ASSUME NEW s, DOMAIN s = PassFields, NEW ev, NEW sl, NEW fails
    PROVE  OnlyEngine(s, dispatch_event_inline(ev, s, sl, fails))
<1>1. PICK p : p = IF ev.trigger[1] = "local_event"
                     THEN Append(s.out, <<ev.trigger[2], ev.token_id>>) ELSE s.out
  OBVIOUS
<1>2. PICK t : t = Run(bundle, ev, s.e, sl, fails, now)
  OBVIOUS
<1>3. dispatch_event_inline(ev, s, sl, fails) =
        IF paused \/ ~enabled \/ ~Ready(bundle) THEN [s EXCEPT !.out = p]
        ELSE [s EXCEPT !.e = t.e, !.out = p \o t.out]
  BY <1>1, <1>2 DEF dispatch_event_inline
<1>4. CASE paused \/ ~enabled \/ ~Ready(bundle)
  <2>1. dispatch_event_inline(ev, s, sl, fails) = [s EXCEPT !.out = p]
    BY <1>3, <1>4
  <2> QED
    BY <2>1 DEF OnlyEngine, PassFields
<1>5. CASE ~(paused \/ ~enabled \/ ~Ready(bundle))
  <2>1. dispatch_event_inline(ev, s, sl, fails) = [s EXCEPT !.e = t.e, !.out = p \o t.out]
    BY <1>3, <1>5
  <2>2. ~paused
    BY <1>5
  <2> QED
    BY <2>1, <2>2 DEF OnlyEngine, PassFields
<1> QED
  BY <1>4, <1>5

\* What it leaves alone stays well.
LEMMA OnlyEngineOk ==
    ASSUME NEW s, NEW t, PassOk(s), OnlyEngine(s, t)
    PROVE  PassOk(t)
  BY DEF PassOk, OnlyEngine

-----------------------------------------------------------------------------
(* Its loops *)

\* One round: of the rules for channel c, of the channels, or of the timers.
PassRound(loop, c, fails, s, i) ==
    IF loop = "rules" THEN HoldRound(s, c, i, fails)
    ELSE IF loop = "channels" THEN InputRound(s, i, fails)
    ELSE TimerRound(s, i, fails)

\* g lists the passes after the first n rounds.
PassRounds(loop, c, fails, s, n, g) ==
    /\ DOMAIN g = 0 .. n
    /\ g[0] = s
    /\ \A i \in 1 .. n : g[i] = PassRound(loop, c, fails, g[i - 1], i)

\* Every loop can be carried through.
LEMMA PassRoundsExist ==
    ASSUME NEW loop, NEW c, NEW fails, NEW s, NEW m \in Nat
    PROVE  \E g : PassRounds(loop, c, fails, s, m, g)
<1> DEFINE S == {n \in Nat : \E g : PassRounds(loop, c, fails, s, n, g)}
<1>1. 0 \in S
  <2>1. PassRounds(loop, c, fails, s, 0, [i \in 0 .. 0 |-> s])
    BY DEF PassRounds
  <2> QED
    BY <2>1
<1>2. ASSUME NEW n \in Nat, n \in S
      PROVE  n + 1 \in S
  <2>1. PICK g : PassRounds(loop, c, fails, s, n, g)
    BY <1>2
  <2> DEFINE h == [i \in 0 .. n + 1 |->
                     IF i = n + 1 THEN PassRound(loop, c, fails, g[n], n + 1) ELSE g[i]]
  <2>2. PassRounds(loop, c, fails, s, n + 1, h)
    BY <2>1 DEF PassRounds
  <2> QED
    BY <2>2
<1>3. Nat \subseteq S
  <2> HIDE DEF S
  <2> QED
    BY <1>1, <1>2, SetInduction
<1> QED
  BY <1>3

\* The recursive functions of the loops are such lists.
LEMMA PassRoundsEqual ==
    ASSUME NEW loop, NEW c, NEW fails, NEW s, NEW m \in Nat
    PROVE  \E f : f = [i \in 0 .. m |->
                         IF i = 0 THEN s ELSE PassRound(loop, c, fails, f[i - 1], i)]
<1>1. PICK g : PassRounds(loop, c, fails, s, m, g)
  BY PassRoundsExist
<1> DEFINE h == [i \in 0 .. m |-> g[i]]
<1>2. \A i \in 0 .. m : h[i] = IF i = 0 THEN s ELSE PassRound(loop, c, fails, h[i - 1], i)
  BY <1>1 DEF PassRounds
<1>3. h = [i \in 0 .. m |-> IF i = 0 THEN s ELSE PassRound(loop, c, fails, h[i - 1], i)]
  BY <1>2
<1> QED
  BY <1>3

\* What the loop over the rules computes.
LEMMA RulesLoop ==
    ASSUME NEW s, NEW c, NEW fails, Len(bundle.rules) \in Nat
    PROVE  \E g : /\ PassRounds("rules", c, fails, s, Len(bundle.rules), g)
                  /\ process_input_hold_events(s, c, fails) = g[Len(bundle.rules)]
<1> DEFINE m == Len(bundle.rules)
           f == CHOOSE h : h = [i \in 0 .. m |->
                  IF i = 0 THEN s ELSE PassRound("rules", c, fails, h[i - 1], i)]
<1>1. f = [i \in 0 .. m |-> IF i = 0 THEN s ELSE PassRound("rules", c, fails, f[i - 1], i)]
  BY PassRoundsEqual
<1>2. process_input_hold_events(s, c, fails) = f[m] /\ m \in Nat
  BY DEF process_input_hold_events, PassRound
<1> HIDE DEF f, m
<1>3. PassRounds("rules", c, fails, s, m, f)
  BY <1>1, <1>2 DEF PassRounds
<1> QED
  BY <1>2, <1>3 DEF m

\* What the loop over the channels computes.
LEMMA ChannelsLoop ==
    ASSUME NEW s, NEW fails
    PROVE  \E g : /\ PassRounds("channels", 0, fails, s, NODE_UNIVERSAL_IO_MAX, g)
                  /\ process_inputs(s, fails) = g[NODE_UNIVERSAL_IO_MAX]
<1> DEFINE m == NODE_UNIVERSAL_IO_MAX
           f == CHOOSE h : h = [i \in 0 .. m |->
                  IF i = 0 THEN s ELSE PassRound("channels", 0, fails, h[i - 1], i)]
<1>0. m \in Nat
  BY RulesAssumption
<1>1. f = [i \in 0 .. m |-> IF i = 0 THEN s ELSE PassRound("channels", 0, fails, f[i - 1], i)]
  BY <1>0, PassRoundsEqual
<1>2. process_inputs(s, fails) = f[m]
  BY DEF process_inputs, PassRound
<1> HIDE DEF f
<1>3. PassRounds("channels", 0, fails, s, m, f)
  BY <1>0, <1>1 DEF PassRounds
<1> QED
  BY <1>2, <1>3

\* What the loop over the timers computes.
LEMMA TimersLoop ==
    ASSUME NEW s, NEW fails
    PROVE  \E g : /\ PassRounds("timers", 0, fails, s, NODE_RULE_MAX_TIMERS, g)
                  /\ process_timer_events(s, fails) = g[NODE_RULE_MAX_TIMERS]
<1> DEFINE m == NODE_RULE_MAX_TIMERS
           f == CHOOSE h : h = [i \in 0 .. m |->
                  IF i = 0 THEN s ELSE PassRound("timers", 0, fails, h[i - 1], i)]
<1>0. m \in Nat
  BY RulesAssumption
<1>1. f = [i \in 0 .. m |-> IF i = 0 THEN s ELSE PassRound("timers", 0, fails, f[i - 1], i)]
  BY <1>0, PassRoundsEqual
<1>2. process_timer_events(s, fails) = f[m]
  BY DEF process_timer_events, PassRound
<1> HIDE DEF f
<1>3. PassRounds("timers", 0, fails, s, m, f)
  BY <1>0, <1>1 DEF PassRounds
<1> QED
  BY <1>2, <1>3

-----------------------------------------------------------------------------
(* The rules of an input that is held *)

\* Holds are dispatched for channel c; its edge is not pending.
HeldOnly(s, t, c) ==
    /\ PassOk(t) /\ t.edges = s.edges
    /\ ~t.sl[c].pending
    /\ \A d \in Inputs \ {c} : t.sl[d] = s.sl[d]

\* Nothing was dispatched yet.
LEMMA NothingFired ==
    ASSUME NEW r, IsInput(r), NEW c
    PROVE  HoldOk(r, <<>>, c)
<1>1. IsSeq(<<>>)
  <2>1. <<>> \in Seq({})
    OBVIOUS
  <2> QED
    BY <2>1 DEF IsSeq
<1> QED
  BY <1>1 DEF HoldOk, Once, Marked

\* A duration that is dispatched for a rule that is not marked is a new one,
\* and once its rules are marked the list is well again.
LEMMA FiresAfresh ==
    ASSUME NEW r, NEW t, NEW list, NEW c, NEW d, NEW i \in RuleNumbers,
           HoldOk(r, list, c), Awaits(i, c, r.stable, d), i \notin r.mask,
           IsInput(t), t.stable = r.stable,
           t.mask = r.mask \cup {k \in RuleNumbers : Awaits(k, c, r.stable, d)}
    PROVE  HoldOk(t, Append(list, d), c)
<1>1. IsSeq(list) /\ IsSeq(Append(list, d))
  BY SeqFacts DEF HoldOk, Once
<1>2. PICK n \in Nat : n = Len(list)
  BY <1>1, SeqFacts
<1>3. /\ DOMAIN list = 1 .. n /\ DOMAIN Append(list, d) = 1 .. n + 1
      /\ \A k \in 1 .. n : Append(list, d)[k] = list[k]
      /\ Append(list, d)[n + 1] = d
  BY <1>1, <1>2, SeqFacts
<1>4. \A k \in 1 .. n : list[k] # d
  BY <1>3 DEF HoldOk, Marked
<1>5. \A k, m \in 1 .. n + 1 : Append(list, d)[k] = Append(list, d)[m] => k = m
  <2>1. \A k, m \in 1 .. n : list[k] = list[m] => k = m
    BY <1>3 DEF HoldOk, Once
  <2> QED
    BY <1>3, <1>4, <2>1
<1>6. ASSUME NEW k \in 1 .. n + 1, NEW m \in RuleNumbers, Awaits(m, c, t.stable, Append(list, d)[k])
      PROVE  m \in t.mask
  <2>1. CASE k = n + 1
    BY <1>3, <1>6, <2>1
  <2>2. CASE k \in 1 .. n
    <3>1. Awaits(m, c, r.stable, list[k])
      BY <1>3, <1>6, <2>2
    <3>2. m \in r.mask
      BY <1>3, <2>2, <3>1 DEF HoldOk, Marked
    <3> QED
      BY <3>2
  <2> QED
    BY <2>1, <2>2
<1> QED
  BY <1>1, <1>3, <1>5, <1>6 DEF HoldOk, Once, Marked

\* One rule of an input that is held.
LEMMA HoldRoundKeeps ==
    ASSUME NEW s0, NEW s, NEW c \in Inputs, NEW i \in RuleNumbers, NEW fails,
           PassOk(s), HeldOnly(s0, s, c)
    PROVE  HeldOnly(s0, HoldRound(s, c, i, fails), c)
<1>1. PICK d : d = bundle.rules[i].trigger[4]
  OBVIOUS
<1>2. CASE \/ ~HoldRule(i, c, s.sl) \/ Elapsed(s.sl[c].since) < d \/ i \in s.sl[c].mask
  <2>1. HoldRound(s, c, i, fails) = s
    BY <1>1, <1>2 DEF HoldRound
  <2> QED
    BY <2>1
<1>3. CASE ~(\/ ~HoldRule(i, c, s.sl) \/ Elapsed(s.sl[c].since) < d \/ i \in s.sl[c].mask)
  <2>1. PICK u : u = dispatch_event_inline(
                       Event("input_hold", c, Bit(s.sl[c].stable), d, 0), s, s.sl, fails)
    OBVIOUS
  <2>2. OnlyEngine(s, u)
    BY <2>1, DispatchKeeps DEF PassOk
  <2>3. PassOk(u)
    BY <2>2, OnlyEngineOk
  <2>4. PICK v : v = [u EXCEPT !.fired[c] = Append(@, d)]
    OBVIOUS
  <2>5. HoldRound(s, c, i, fails) = mark_hold_rules_fired(v, c, d)
    BY <1>1, <1>3, <2>1, <2>4 DEF HoldRound
  <2>6. /\ DOMAIN v = PassFields /\ v.sl = u.sl /\ v.e = u.e /\ v.edges = u.edges
        /\ v.fired = [u.fired EXCEPT ![c] = Append(u.fired[c], d)]
    BY <2>3, <2>4 DEF PassOk, PassFields
  <2>7. PICK new : new = {k \in 1 .. Len(bundle.rules) :
                            HoldRule(k, c, v.sl) /\ bundle.rules[k].trigger[4] = d}
    OBVIOUS
  <2>8. PICK r : r = [u.sl[c] EXCEPT !.mask = u.sl[c].mask \cup new]
    OBVIOUS
  <2>9. PICK t : t = HoldRound(s, c, i, fails)
    OBVIOUS
  <2>10. t = [v EXCEPT !.sl[c].mask = v.sl[c].mask \cup new]
    BY <2>5, <2>7, <2>9 DEF mark_hold_rules_fired
  <2>11. /\ DOMAIN t = PassFields /\ t.fired = v.fired /\ t.e = v.e /\ t.edges = v.edges
         /\ t.sl = [u.sl EXCEPT ![c] = r]
    BY <2>6, <2>8, <2>10 DEF PassFields
  <2>12. HoldOk(u.sl[c], u.fired[c], c) /\ IsInput(u.sl[c])
    BY <2>3 DEF PassOk, HoldOk
  <2>13. /\ IsInput(r) /\ r.stable = u.sl[c].stable /\ r.pending = u.sl[c].pending
         /\ r.mask = u.sl[c].mask \cup new
    BY <2>8, <2>12 DEF IsInput, InputFields
  <2>14. new = {k \in RuleNumbers : Awaits(k, c, u.sl[c].stable, d)}
    BY <2>6, <2>7 DEF RuleNumbers, Awaits, HoldRule
  <2>15. Awaits(i, c, u.sl[c].stable, d) /\ i \notin u.sl[c].mask
    BY <1>1, <1>3, <2>2 DEF Awaits, HoldRule, OnlyEngine
  <2>16. HoldOk(r, Append(u.fired[c], d), c)
    BY <2>12, <2>13, <2>14, <2>15, FiresAfresh
  <2>17. /\ DOMAIN t.sl = Inputs /\ t.sl[c] = r
         /\ \A x \in Inputs \ {c} : t.sl[x] = u.sl[x]
    BY <2>3, <2>11 DEF PassOk
  <2>18. /\ DOMAIN t.fired = Inputs /\ t.fired[c] = Append(u.fired[c], d)
         /\ \A x \in Inputs \ {c} : t.fired[x] = u.fired[x]
    BY <2>3, <2>6, <2>11 DEF PassOk
  <2>19. \A x \in Inputs : HoldOk(t.sl[x], t.fired[x], x)
    BY <2>3, <2>16, <2>17, <2>18 DEF PassOk
  <2>20. PassOk(t)
    BY <2>3, <2>6, <2>11, <2>17, <2>18, <2>19 DEF PassOk
  <2>21. ~t.sl[c].pending
    BY <2>2, <2>13, <2>17 DEF HeldOnly, OnlyEngine
  <2> QED
    BY <2>2, <2>6, <2>9, <2>11, <2>17, <2>20, <2>21 DEF HeldOnly, OnlyEngine
<1> QED
  BY <1>2, <1>3

\* All rules of an input that is held.
LEMMA HoldsKeep ==
    ASSUME NEW s, NEW c \in Inputs, NEW fails, PassOk(s), ~s.sl[c].pending,
           Len(bundle.rules) \in Nat
    PROVE  HeldOnly(s, process_input_hold_events(s, c, fails), c)
<1>1. PICK m \in Nat : m = Len(bundle.rules)
  OBVIOUS
<1>2. PICK g : /\ PassRounds("rules", c, fails, s, m, g)
               /\ process_input_hold_events(s, c, fails) = g[m]
  BY <1>1, RulesLoop
<1> DEFINE S == {n \in Nat : n <= m => HeldOnly(s, g[n], c)}
<1>3. 0 \in S
  BY <1>2 DEF PassRounds, HeldOnly
<1>4. ASSUME NEW n \in Nat, n \in S
      PROVE  n + 1 \in S
  <2> SUFFICES ASSUME n + 1 <= m PROVE HeldOnly(s, g[n + 1], c)
    OBVIOUS
  <2>1. HeldOnly(s, g[n], c) /\ PassOk(g[n])
    BY <1>4 DEF HeldOnly
  <2>2. n + 1 \in 1 .. m /\ (n + 1) - 1 = n /\ n + 1 \in RuleNumbers
    BY <1>1 DEF RuleNumbers
  <2>3. g[n + 1] = HoldRound(g[n], c, n + 1, fails)
    BY <1>2, <2>2 DEF PassRounds, PassRound
  <2> QED
    BY <2>1, <2>2, <2>3, HoldRoundKeeps
<1>5. Nat \subseteq S
  <2> HIDE DEF S
  <2> QED
    BY <1>3, <1>4, SetInduction
<1> QED
  BY <1>2, <1>5

-----------------------------------------------------------------------------
(* One sample of an input *)

\* Channel c has been polled: an edge of it has been seen long enough.
InputPolled(t, c) ==
    /\ c \in t.edges => Seen(c).time >= Channels[c]
    /\ PendingOk(t.sl[c], Seen(c), 0, c)

\* Channel c is still as the last pass left it.
InputAwaits(s, c) == s.sl[c] = inputs[c] /\ c \notin s.edges

\* Only channel c may differ.
OnlyInput(s, t, c) ==
    /\ PassOk(t)
    /\ \A d \in Inputs \ {c} : t.sl[d] = s.sl[d]
    /\ t.edges \subseteq s.edges \cup {c}

\* Input c becomes r: no hold of it was dispatched, or what was is marked.
BecomesInput(s, t, c, r) ==
    /\ IsInput(r) /\ DOMAIN t = PassFields /\ t.sl = [s.sl EXCEPT ![c] = r]
    /\ \/ t.fired = [s.fired EXCEPT ![c] = <<>>]
       \/ t.fired = s.fired /\ HoldOk(r, s.fired[c], c)
    /\ t.edges \subseteq s.edges \cup {c}
    /\ t.e = s.e

\* Then the pass stays well.
LEMMA InputChanges ==
    ASSUME NEW s, NEW t, NEW c \in Inputs, NEW r, PassOk(s), BecomesInput(s, t, c, r)
    PROVE  OnlyInput(s, t, c) /\ t.sl[c] = r
<1> USE DEF BecomesInput
<1>1. DOMAIN s.sl = Inputs /\ DOMAIN s.fired = Inputs
  BY DEF PassOk
<1>2. DOMAIN t.sl = Inputs /\ t.sl[c] = r /\ \A d \in Inputs \ {c} : t.sl[d] = s.sl[d]
  BY <1>1
<1>3. /\ DOMAIN t.fired = Inputs /\ HoldOk(r, t.fired[c], c)
      /\ \A d \in Inputs \ {c} : t.fired[d] = s.fired[d]
  <2>1. CASE t.fired = [s.fired EXCEPT ![c] = <<>>]
    <3>1. DOMAIN t.fired = Inputs /\ t.fired[c] = <<>>
          /\ \A d \in Inputs \ {c} : t.fired[d] = s.fired[d]
      BY <1>1, <2>1
    <3> QED
      BY <3>1, NothingFired
  <2>2. CASE t.fired = s.fired /\ HoldOk(r, s.fired[c], c)
    BY <1>1, <2>2
  <2> QED
    BY <2>1, <2>2
<1>4. \A d \in Inputs : HoldOk(t.sl[d], t.fired[d], d)
  BY <1>2, <1>3 DEF PassOk
<1>5. PassOk(t)
  BY <1>2, <1>3, <1>4 DEF PassOk
<1> QED
  BY <1>2, <1>5 DEF OnlyInput

\* Where the polls have seen the level for as long as the edge is pending.
LEMMA SeenFacts ==
    ASSUME EngineWorld, NEW c \in Inputs
    PROVE  /\ IsSeen(Seen(c)) /\ Seen(c).val = level[c]
           /\ level[c] = steady[c].val =>
                \/ Seen(c).time = Channels[c]
                \/ Seen(c).time = steady[c].time + gap /\ Seen(c).time < Channels[c]
           /\ Channels[c] \in Nat /\ Seen(c).time \in Nat /\ steady[c].time \in Nat
           /\ level[c] \in BOOLEAN /\ steady[c].val \in BOOLEAN /\ gap \in Nat
<1>1. /\ Channels[c] \in Nat /\ level[c] \in BOOLEAN /\ gap \in Nat
      /\ steady[c].val \in BOOLEAN /\ steady[c].time \in Nat
  BY RulesAssumption DEF EngineWorld, IsSeen, Inputs
<1>2. PICK time \in Nat : time = steady[c].time + gap
  BY <1>1
<1>3. CASE level[c] # steady[c].val
  <2>1. Seen(c) = [val |-> level[c], time |-> 0]
    BY <1>3 DEF Seen
  <2> QED
    BY <1>1, <1>3, <2>1 DEF IsSeen
<1>4. CASE level[c] = steady[c].val
  <2>1. Seen(c) = [val |-> level[c], time |-> IF time > Channels[c] THEN Channels[c] ELSE time]
    BY <1>2, <1>4 DEF Seen
  <2>2. DOMAIN Seen(c) = {"val", "time"} /\ Seen(c).val = level[c]
        /\ Seen(c).time = IF time > Channels[c] THEN Channels[c] ELSE time
    BY <2>1
  <2> QED
    BY <1>1, <1>2, <2>2 DEF IsSeen
<1> QED
  BY <1>3, <1>4

\* The elapsed time of this moment.
LEMMA NowElapsed ==
    ASSUME EngineWorld
    PROVE  Elapsed(now) = 0 /\ \A t \in 0 .. CLOCK - 1 : Elapsed(t) \in Nat
<1>1. now \in Nat /\ CLOCK \in Nat \ {0}
  BY RulesAssumption DEF EngineWorld
<1> QED
  BY <1>1 DEF Elapsed

\* An edge is published.
LEMMA EdgeKeeps ==
    ASSUME NEW s, NEW c \in Inputs, NEW fails, PassOk(s), EngineWorld,
           Seen(c).time >= Channels[c]
    PROVE  OnlyInput(s, Edge(s, c, level[c], fails), c)
           /\ InputPolled(Edge(s, c, level[c], fails), c)
<1>1. PICK v : v = level[c]
  OBVIOUS
<1>2. v \in BOOLEAN
  BY <1>1 DEF EngineWorld
<1>3. PICK s1 : s1 = [s EXCEPT !.sl[c].stable = v, !.sl[c].since = now,
                               !.sl[c].pending = FALSE, !.sl[c].mask = {},
                               !.fired[c] = <<>>, !.edges = @ \cup {c}]
  OBVIOUS
<1>4. PICK r : r = [s.sl[c] EXCEPT !.stable = v, !.since = now, !.pending = FALSE, !.mask = {}]
  OBVIOUS
<1>5. DOMAIN s = PassFields /\ DOMAIN s.sl = Inputs /\ IsInput(s.sl[c])
  BY DEF PassOk, HoldOk
<1>6. IsInput(r) /\ ~r.pending
  BY <1>2, <1>4, <1>5 DEF IsInput, InputFields
<1>7. /\ DOMAIN s1 = PassFields /\ s1.e = s.e /\ s1.edges = s.edges \cup {c}
      /\ s1.fired = [s.fired EXCEPT ![c] = <<>>]
  BY <1>3, <1>5 DEF PassFields
<1>8. s1.sl = [s.sl EXCEPT ![c] = r]
  BY <1>3, <1>4, <1>5 DEF PassFields
<1>9. OnlyInput(s, s1, c) /\ s1.sl[c] = r
  <2>1. s1.edges \subseteq s.edges \cup {c}
    BY <1>7
  <2>2. BecomesInput(s, s1, c, r)
    BY <1>6, <1>7, <1>8, <2>1 DEF BecomesInput
  <2> QED
    BY <2>2, InputChanges
<1>10. PICK t : t = Edge(s, c, v, fails)
  OBVIOUS
<1>11. t = dispatch_event_inline(Event("input_edge", c, Bit(v), 0, 0), s1, s1.sl, fails)
  BY <1>3, <1>10 DEF Edge
<1>12. OnlyEngine(s1, t)
  BY <1>7, <1>11, DispatchKeeps
<1>13. PassOk(t)
  BY <1>9, <1>12, OnlyEngineOk DEF OnlyInput
<1>14. OnlyInput(s, t, c)
  BY <1>9, <1>12, <1>13 DEF OnlyInput, OnlyEngine
<1>15. InputPolled(t, c)
  BY <1>6, <1>9, <1>12 DEF InputPolled, PendingOk, OnlyEngine
<1> QED
  BY <1>1, <1>10, <1>14, <1>15

\* A sample of an input changes that input only, and reports an edge only when
\* the polls have seen the level for the debounce time.
LEMMA SampleKeeps ==
    ASSUME NEW s, NEW c \in Inputs, NEW fails, PassOk(s), EngineWorld,
           InputAwaits(s, c), PendingOk(inputs[c], steady[c], gap, c)
    PROVE  OnlyInput(s, process_input_sample(s, c, fails), c)
           /\ InputPolled(process_input_sample(s, c, fails), c)
<1>1. PICK slot : slot = s.sl[c]
  OBVIOUS
<1>2. PICK v : v = level[c]
  OBVIOUS
<1>3. PICK t : t = process_input_sample(s, c, fails)
  OBVIOUS
<1>4. /\ DOMAIN s = PassFields /\ DOMAIN s.sl = Inputs /\ DOMAIN s.fired = Inputs
      /\ IsInput(slot) /\ HoldOk(slot, s.fired[c], c)
  BY <1>1 DEF PassOk, HoldOk
<1>5. /\ v \in BOOLEAN /\ Channels[c] \in Nat /\ Seen(c).time \in Nat /\ Seen(c).val = v
      /\ steady[c].time \in Nat /\ steady[c].val \in BOOLEAN /\ gap \in Nat
      /\ now \in 0 .. CLOCK - 1 /\ Elapsed(now) = 0
      /\ c \notin s.edges
      /\ Len(bundle.rules) \in Nat
  BY <1>2, SeenFacts, NowElapsed DEF EngineWorld, InputAwaits
<1>6. t = IF ~slot.initialized
            THEN [s EXCEPT !.sl[c] = [slot EXCEPT !.initialized = TRUE, !.stable = v,
                                                  !.since = now, !.pending = FALSE],
                           !.fired[c] = <<>>]
          ELSE IF v = slot.stable
            THEN process_input_hold_events([s EXCEPT !.sl[c] = back_to_stable(slot)], c, fails)
          ELSE IF Channels[c] = 0 THEN Edge(s, c, v, fails)
          ELSE IF ~slot.pending
            THEN [s EXCEPT !.sl[c].pending = TRUE, !.sl[c].pending_since = now]
          ELSE IF Elapsed(slot.pending_since) >= Channels[c] THEN Edge(s, c, v, fails)
          ELSE s
  BY <1>1, <1>2, <1>3 DEF process_input_sample
<1>7. CASE ~slot.initialized
  <2>1. PICK r : r = [slot EXCEPT !.initialized = TRUE, !.stable = v,
                                  !.since = now, !.pending = FALSE]
    OBVIOUS
  <2>2. IsInput(r) /\ ~r.pending
    BY <1>4, <1>5, <2>1 DEF IsInput, InputFields
  <2>3. t = [s EXCEPT !.sl[c] = r, !.fired[c] = <<>>]
    BY <1>6, <1>7, <2>1
  <2>4. /\ DOMAIN t = PassFields /\ t.sl = [s.sl EXCEPT ![c] = r]
        /\ t.fired = [s.fired EXCEPT ![c] = <<>>]
        /\ t.edges = s.edges /\ t.e = s.e
        /\ t.edges \subseteq s.edges \cup {c}
    BY <1>4, <2>3 DEF PassFields
  <2>5. OnlyInput(s, t, c) /\ t.sl[c] = r
    <3>1. BecomesInput(s, t, c, r)
      BY <2>2, <2>4 DEF BecomesInput
    <3> QED
      BY <3>1, InputChanges
  <2>6. InputPolled(t, c)
    BY <1>5, <2>2, <2>4, <2>5 DEF InputPolled, PendingOk
  <2> QED
    BY <1>3, <2>5, <2>6
<1>8. CASE slot.initialized /\ v = slot.stable
  <2>1. PICK r : r = back_to_stable(slot)
    OBVIOUS
  <2>2. r = [slot EXCEPT !.pending = FALSE, !.pending_since = 0]
    BY <2>1 DEF back_to_stable
  <2>3. IsInput(r) /\ ~r.pending /\ r.stable = slot.stable /\ r.mask = slot.mask
    BY <1>4, <2>2, RulesAssumption DEF IsInput, InputFields
  <2>4. HoldOk(r, s.fired[c], c)
    BY <1>4, <2>3 DEF HoldOk, Marked
  <2>5. PICK s1 : s1 = [s EXCEPT !.sl[c] = r]
    OBVIOUS
  <2>6. /\ DOMAIN s1 = PassFields /\ s1.sl = [s.sl EXCEPT ![c] = r]
        /\ s1.fired = s.fired /\ s1.edges = s.edges /\ s1.e = s.e
        /\ s1.edges \subseteq s.edges \cup {c}
    BY <1>4, <2>5 DEF PassFields
  <2>7. OnlyInput(s, s1, c) /\ s1.sl[c] = r
    <3>1. BecomesInput(s, s1, c, r)
      BY <2>3, <2>4, <2>6 DEF BecomesInput
    <3> QED
      BY <3>1, InputChanges
  <2>8. t = process_input_hold_events(s1, c, fails)
    BY <1>6, <1>8, <2>1, <2>5
  <2>9. HeldOnly(s1, t, c)
    BY <1>5, <2>3, <2>7, <2>8, HoldsKeep DEF OnlyInput
  <2>10. OnlyInput(s, t, c)
    BY <2>6, <2>7, <2>9 DEF OnlyInput, HeldOnly
  <2>11. InputPolled(t, c)
    BY <1>5, <2>6, <2>9 DEF InputPolled, PendingOk, HeldOnly
  <2> QED
    BY <1>3, <2>10, <2>11
<1>9. CASE slot.initialized /\ v # slot.stable /\ Channels[c] = 0
  <2>1. t = Edge(s, c, v, fails)
    BY <1>6, <1>9
  <2>2. Seen(c).time >= Channels[c]
    BY <1>5, <1>9
  <2> QED
    BY <1>2, <1>3, <2>1, <2>2, EdgeKeeps
<1>10. CASE slot.initialized /\ v # slot.stable /\ Channels[c] # 0 /\ ~slot.pending
  <2>1. PICK r : r = [slot EXCEPT !.pending = TRUE, !.pending_since = now]
    OBVIOUS
  <2>2. /\ IsInput(r) /\ r.pending /\ r.stable = slot.stable /\ r.mask = slot.mask
        /\ r.pending_since = now
    BY <1>4, <1>5, <2>1 DEF IsInput, InputFields
  <2>3. HoldOk(r, s.fired[c], c)
    BY <1>4, <2>2 DEF HoldOk, Marked
  <2>4. t = [s EXCEPT !.sl[c].pending = TRUE, !.sl[c].pending_since = now]
    BY <1>6, <1>10
  <2>5. /\ DOMAIN t = PassFields /\ t.sl = [s.sl EXCEPT ![c] = r]
        /\ t.fired = s.fired /\ t.edges = s.edges /\ t.e = s.e
        /\ t.edges \subseteq s.edges \cup {c}
    BY <1>1, <1>4, <2>1, <2>4 DEF PassFields
  <2>6. OnlyInput(s, t, c) /\ t.sl[c] = r
    <3>1. BecomesInput(s, t, c, r)
      BY <2>2, <2>3, <2>5 DEF BecomesInput
    <3> QED
      BY <3>1, InputChanges
  <2>7. InputPolled(t, c)
    BY <1>5, <1>10, <2>2, <2>5, <2>6 DEF InputPolled, PendingOk
  <2> QED
    BY <1>3, <2>6, <2>7
<1>11. CASE slot.initialized /\ v # slot.stable /\ Channels[c] # 0 /\ slot.pending
  <2>1. slot = inputs[c]
    BY <1>1 DEF InputAwaits
  <2>2. /\ steady[c].val # slot.stable
        /\ \/ steady[c].time = Channels[c]
           \/ Elapsed(slot.pending_since) <= steady[c].time + gap
    BY <1>11, <2>1 DEF PendingOk
  <2>3. v = steady[c].val
    BY <1>4, <1>5, <1>11, <2>2 DEF IsInput
  <2>4. PICK el \in Nat : el = Elapsed(slot.pending_since)
    BY <1>4, NowElapsed DEF IsInput
  <2>5. \/ Seen(c).time = Channels[c]
        \/ Seen(c).time = steady[c].time + gap /\ Seen(c).time < Channels[c]
    BY <1>2, <2>3, SeenFacts
  <2>6. Seen(c).time = Channels[c] \/ el <= Seen(c).time
    BY <1>5, <2>2, <2>4, <2>5
  <2>7. CASE el >= Channels[c]
    <3>1. t = Edge(s, c, v, fails)
      BY <1>6, <1>11, <2>4, <2>7
    <3>2. Seen(c).time >= Channels[c]
      BY <1>5, <2>6, <2>7
    <3> QED
      BY <1>2, <1>3, <3>1, <3>2, EdgeKeeps
  <2>8. CASE ~(el >= Channels[c])
    <3>1. t = s
      BY <1>6, <1>11, <2>4, <2>8
    <3>2. OnlyInput(s, t, c)
      BY <3>1 DEF OnlyInput
    <3>3. el <= Seen(c).time + 0 \/ Seen(c).time = Channels[c]
      BY <1>5, <2>6
    <3>4. InputPolled(t, c)
      BY <1>1, <1>5, <1>11, <2>4, <3>1, <3>3 DEF InputPolled, PendingOk
    <3> QED
      BY <1>3, <3>2, <3>4
  <2> QED
    BY <2>7, <2>8
<1> QED
  BY <1>4, <1>7, <1>8, <1>9, <1>10, <1>11 DEF IsInput

\* The pass after the first n channels.
PolledUpTo(s, n) ==
    /\ PassOk(s)
    /\ \A c \in Inputs : IF c <= n THEN InputPolled(s, c) ELSE InputAwaits(s, c)

\* The inputs are polled in order.
LEMMA InputsKeep ==
    ASSUME NEW s, NEW fails, EngineInv, PassOk(s), \A c \in Inputs : InputAwaits(s, c)
    PROVE  /\ PassOk(process_inputs(s, fails))
           /\ \A c \in Inputs : InputPolled(process_inputs(s, fails), c)
<1>1. PICK m \in Nat : m = NODE_UNIVERSAL_IO_MAX
  BY RulesAssumption
<1>2. PICK g : /\ PassRounds("channels", 0, fails, s, m, g)
               /\ process_inputs(s, fails) = g[m]
  BY <1>1, ChannelsLoop
<1>3. Inputs \subseteq 1 .. m
  BY <1>1, RulesAssumption DEF Inputs
<1> DEFINE S == {n \in Nat : n <= m => PolledUpTo(g[n], n)}
<1>4. 0 \in S
  BY <1>2, <1>3 DEF PassRounds, PolledUpTo
<1>5. ASSUME NEW n \in Nat, n \in S
      PROVE  n + 1 \in S
  <2> SUFFICES ASSUME n + 1 <= m PROVE PolledUpTo(g[n + 1], n + 1)
    OBVIOUS
  <2>1. PolledUpTo(g[n], n)
    BY <1>5
  <2>2. PICK k \in 1 .. m : k = n + 1 /\ k - 1 = n
    OBVIOUS
  <2>3. PICK u : u = g[n]
    OBVIOUS
  <2>4. PICK t : t = g[n + 1]
    OBVIOUS
  <2>5. t = InputRound(u, k, fails)
    BY <1>2, <2>2, <2>3, <2>4 DEF PassRounds, PassRound
  <2>6. CASE k \notin Inputs
    <3>1. t = u
      BY <2>5, <2>6 DEF InputRound, Inputs
    <3>2. \A c \in Inputs : c <= n <=> c <= n + 1
      BY <1>3, <2>2, <2>6
    <3> QED
      BY <2>1, <2>3, <2>4, <3>1, <3>2 DEF PolledUpTo
  <2>7. CASE k \in Inputs
    <3>1. t = process_input_sample(u, k, fails)
      BY <2>5, <2>7 DEF InputRound, Inputs
    <3>2. PassOk(u) /\ InputAwaits(u, k) /\ PendingOk(inputs[k], steady[k], gap, k)
      BY <2>1, <2>2, <2>3, <2>7 DEF PolledUpTo, EngineInv, PendingsOk
    <3>3. OnlyInput(u, t, k) /\ InputPolled(t, k)
      BY <2>7, <3>1, <3>2, SampleKeeps DEF EngineInv
    <3>4. ASSUME NEW c \in Inputs, c # k
          PROVE  /\ InputPolled(u, c) => InputPolled(t, c)
                 /\ InputAwaits(u, c) => InputAwaits(t, c)
      BY <3>3, <3>4 DEF OnlyInput, InputPolled, InputAwaits
    <3>5. \A c \in Inputs : c # k => (c <= n <=> c <= n + 1)
      BY <1>3, <2>2
    <3>6. \A c \in Inputs : IF c <= n + 1 THEN InputPolled(t, c) ELSE InputAwaits(t, c)
      BY <2>1, <2>2, <2>3, <3>3, <3>4, <3>5 DEF PolledUpTo
    <3> QED
      BY <2>4, <3>3, <3>6 DEF PolledUpTo, OnlyInput
  <2> QED
    BY <2>6, <2>7
<1>6. Nat \subseteq S
  <2> HIDE DEF S
  <2> QED
    BY <1>4, <1>5, SetInduction
<1>7. PolledUpTo(g[m], m)
  BY <1>6
<1> QED
  BY <1>2, <1>3, <1>7 DEF PolledUpTo

-----------------------------------------------------------------------------
(* The timers *)

\* A timer that is due changes only the engine, and none is due while paused.
LEMMA TimerRoundKeeps ==
    ASSUME NEW s0, NEW s, NEW i \in 1 .. NODE_RULE_MAX_TIMERS, NEW fails,
           PassOk(s), OnlyEngine(s0, s)
    PROVE  /\ PassOk(TimerRound(s, i, fails))
           /\ OnlyEngine(s0, TimerRound(s, i, fails))
<1>1. PICK slot : slot = s.e.timers[i]
  OBVIOUS
<1>2. CASE i > Len(bundle.timers) \/ ~slot.active \/ ~time_reached(slot.next_fire)
  <2>1. TimerRound(s, i, fails) = s
    BY <1>1, <1>2 DEF TimerRound
  <2> QED
    BY <2>1
<1>3. CASE ~(i > Len(bundle.timers) \/ ~slot.active \/ ~time_reached(slot.next_fire))
  <2>1. ~paused
    <3> SUFFICES ASSUME paused PROVE FALSE
      OBVIOUS
    <3>1. s.e = ResetEngine(bundle)
      BY DEF PassOk
    <3>2. slot = NoTimer
      BY <1>1, <3>1 DEF ResetEngine
    <3>3. ~slot.active
      BY <3>2 DEF NoTimer
    <3> QED
      BY <1>3, <3>3
  <2>2. PICK x : x = IF slot.mode = "repeat"
                       THEN [slot EXCEPT !.next_fire = (now + slot.interval_ms) % CLOCK]
                       ELSE [slot EXCEPT !.active = FALSE]
    OBVIOUS
  <2>3. PICK s1 : s1 = [s EXCEPT !.e.timers[i] = x]
    OBVIOUS
  <2>4. PICK t : t = TimerRound(s, i, fails)
    OBVIOUS
  <2>5. t = dispatch_event_inline(Event("timer", i, 0, 0, 0), s1, s.sl, fails)
    BY <1>1, <1>3, <2>2, <2>3, <2>4 DEF TimerRound
  <2>6. OnlyEngine(s, s1)
    BY <2>1, <2>3 DEF OnlyEngine, PassOk, PassFields
  <2>7. OnlyEngine(s1, t)
    BY <2>5, <2>6, DispatchKeeps DEF OnlyEngine
  <2>8. OnlyEngine(s, t)
    BY <2>6, <2>7 DEF OnlyEngine
  <2>9. OnlyEngine(s0, t)
    BY <2>8 DEF OnlyEngine
  <2> QED
    BY <2>4, <2>8, <2>9, OnlyEngineOk
<1> QED
  BY <1>2, <1>3

\* All timers.
LEMMA TimersKeep ==
    ASSUME NEW s, NEW fails, PassOk(s)
    PROVE  /\ PassOk(process_timer_events(s, fails))
           /\ OnlyEngine(s, process_timer_events(s, fails))
<1>1. PICK m \in Nat : m = NODE_RULE_MAX_TIMERS
  BY RulesAssumption
<1>2. PICK g : /\ PassRounds("timers", 0, fails, s, m, g)
               /\ process_timer_events(s, fails) = g[m]
  BY <1>1, TimersLoop
<1> DEFINE S == {n \in Nat : n <= m => PassOk(g[n]) /\ OnlyEngine(s, g[n])}
<1>3. 0 \in S
  BY <1>2 DEF PassRounds, OnlyEngine, PassOk
<1>4. ASSUME NEW n \in Nat, n \in S
      PROVE  n + 1 \in S
  <2> SUFFICES ASSUME n + 1 <= m PROVE PassOk(g[n + 1]) /\ OnlyEngine(s, g[n + 1])
    OBVIOUS
  <2>1. PassOk(g[n]) /\ OnlyEngine(s, g[n])
    BY <1>4
  <2>2. n + 1 \in 1 .. m /\ (n + 1) - 1 = n
    OBVIOUS
  <2>3. g[n + 1] = TimerRound(g[n], n + 1, fails)
    BY <1>2, <2>2 DEF PassRounds, PassRound
  <2> QED
    BY <1>1, <2>1, <2>2, <2>3, TimerRoundKeeps
<1>5. Nat \subseteq S
  <2> HIDE DEF S
  <2> QED
    BY <1>3, <1>4, SetInduction
<1> QED
  BY <1>2, <1>5

-----------------------------------------------------------------------------
(* The actions *)

\* A pass over inputs and timers.
LEMMA KeepsPoll ==
    ASSUME EngineInv, NEW fails, poll_inputs_and_timers(fails)
    PROVE  EngineInv'
<1>1. PICK s0 : s0 = [e |-> eng, out |-> <<>>, sl |-> inputs, fired |-> fired, edges |-> {}]
  OBVIOUS
<1>2. PICK s1 : s1 = process_inputs(s0, fails)
  OBVIOUS
<1>3. PICK s : s = process_timer_events(s1, fails)
  OBVIOUS
<1>4. /\ eng' = s.e /\ inputs' = s.sl /\ fired' = s.fired /\ edges' = s.edges
      /\ gap' = 0 /\ steady' = [c \in Inputs |-> Seen(c)]
      /\ bundle' = bundle /\ paused' = paused /\ now' = now /\ level' = level
  BY <1>1, <1>2, <1>3 DEF poll_inputs_and_timers, Polled, Inputs
<1>5. PassOk(s0) /\ \A c \in Inputs : InputAwaits(s0, c)
  BY <1>1 DEF EngineInv, InputsOk, PausedIsReset, PassOk, PassFields, InputAwaits
<1>6. PassOk(s1) /\ \A c \in Inputs : InputPolled(s1, c)
  BY <1>2, <1>5, InputsKeep
<1>7. PassOk(s) /\ OnlyEngine(s1, s)
  BY <1>3, <1>6, TimersKeep
<1>8. \A c \in Inputs : InputPolled(s, c)
  BY <1>6, <1>7 DEF OnlyEngine, InputPolled
<1>9. EngineWorld'
  <2>1. \A c \in Inputs : IsSeen(Seen(c))
    BY SeenFacts DEF EngineInv
  <2> QED
    BY <1>4, <2>1 DEF EngineInv, EngineWorld, IsSeen
<1>10. InputsOk'
  <2>1. \A c \in Inputs : HoldOk(s.sl[c], s.fired[c], c)'
    BY <1>4, <1>7 DEF PassOk, HoldOk, Once, Marked, Awaits, RuleNumbers
  <2> QED
    BY <1>4, <1>7, <2>1 DEF PassOk, InputsOk
<1>11. PendingsOk'
  <2>1. ASSUME NEW c \in Inputs
        PROVE  PendingOk(s.sl[c], Seen(c), 0, c)
    BY <1>8 DEF InputPolled
  <2>2. ASSUME NEW c \in Inputs
        PROVE  PendingOk(inputs[c], steady[c], gap, c)'
    BY <1>4, <2>1 DEF PendingOk, Elapsed
  <2> QED
    BY <2>2 DEF PendingsOk
<1>12. EdgesOk'
  BY <1>4, <1>7, <1>8 DEF EdgesOk, EdgeIsSustained, InputPolled, PassOk
<1>13. PausedIsReset'
  BY <1>4, <1>7 DEF PassOk, PausedIsReset, ResetEngine
<1> QED
  BY <1>9, <1>10, <1>11, <1>12, <1>13 DEF EngineInv

\* What the invariant says of the world, when inputs and engine do not change.
LEMMA KeepsQuiet ==
    ASSUME EngineInv, UNCHANGED <<bundle, inputs, fired, world>>, edges' = {},
           paused' => eng' = ResetEngine(bundle)
    PROVE  EngineInv'
<1>1. /\ bundle' = bundle /\ inputs' = inputs /\ fired' = fired
      /\ now' = now /\ gap' = gap /\ level' = level /\ steady' = steady
  BY DEF world
<1>2. EngineWorld'
  BY <1>1 DEF EngineInv, EngineWorld, IsSeen
<1>3. InputsOk'
  <2>1. \A c \in Inputs : HoldOk(inputs[c], fired[c], c)'
    BY <1>1 DEF EngineInv, InputsOk, HoldOk, Once, Marked, Awaits, RuleNumbers
  <2> QED
    BY <1>1, <2>1 DEF EngineInv, InputsOk
<1>4. PendingsOk'
  BY <1>1 DEF EngineInv, PendingsOk, PendingOk, Elapsed
<1>5. EdgesOk' /\ PausedIsReset'
  BY <1>1 DEF EdgesOk, EdgeIsSustained, PausedIsReset, ResetEngine
<1> QED
  BY <1>2, <1>3, <1>4, <1>5 DEF EngineInv

\* A reset of the inputs leaves nothing pending and nothing dispatched.
LEMMA KeepsReset ==
    ASSUME EngineInv, UNCHANGED <<bundle, world>>, edges' = {},
           inputs' = ResetInputs, fired' = NoneFired,
           paused' => eng' = ResetEngine(bundle)
    PROVE  EngineInv'
<1>1. bundle' = bundle /\ now' = now /\ gap' = gap /\ level' = level /\ steady' = steady
  BY DEF world
<1>2. EngineWorld'
  BY <1>1 DEF EngineInv, EngineWorld, IsSeen
<1>3. IsInput(NoInput) /\ ~NoInput.pending
  BY RulesAssumption DEF NoInput, IsInput, InputFields
<1>4. /\ DOMAIN inputs' = Inputs /\ DOMAIN fired' = Inputs
      /\ \A c \in Inputs : inputs'[c] = NoInput /\ fired'[c] = <<>>
  BY DEF ResetInputs, NoneFired, Inputs
<1>5. InputsOk'
  <2>1. \A c \in Inputs : HoldOk(NoInput, <<>>, c)
    BY <1>3, NothingFired
  <2>2. \A c \in Inputs : HoldOk(inputs[c], fired[c], c)'
    BY <1>1, <1>4, <2>1 DEF HoldOk, Once, Marked, Awaits, RuleNumbers
  <2> QED
    BY <1>4, <2>2 DEF InputsOk
<1>6. PendingsOk'
  BY <1>3, <1>4 DEF PendingsOk, PendingOk
<1>7. EdgesOk' /\ PausedIsReset'
  BY <1>1 DEF EdgesOk, EdgeIsSustained, PausedIsReset, ResetEngine
<1> QED
  BY <1>2, <1>5, <1>6, <1>7 DEF EngineInv

\* A request of another task.
LEMMA KeepsRequest ==
    ASSUME EngineInv, NEW fails, handle_request(fails)
    PROVE  EngineInv'
<1>1. PICK q : q = Head(requests)
  OBVIOUS
<1>2. /\ edges' = {} /\ UNCHANGED <<bundle, world>>
      /\ \/ handle_event(q.event, fails)
         \/ handle_pause_inline
         \/ handle_reset_inline
         \/ handle_set_enabled_inline(q.on)
         \/ handle_resume_inline(fails)
  BY <1>1 DEF handle_request
<1>3. CASE handle_event(q.event, fails)
  <2>1. PICK ev : ev = q.event
    OBVIOUS
  <2>2. PICK s0 : s0 = [e |-> eng, out |-> <<>>]
    OBVIOUS
  <2>3. PICK s : s = dispatch_event_inline(ev, s0, inputs, fails)
    OBVIOUS
  <2>4. /\ eng' = s.e /\ inputs' = inputs /\ paused' = paused /\ fired' = fired
    BY <1>3, <2>1, <2>2, <2>3 DEF handle_event
  <2>5. paused => s.e = eng
    <3> SUFFICES ASSUME paused PROVE s.e = eng
      OBVIOUS
    <3>1. PICK p : p = IF ev.trigger[1] = "local_event"
                         THEN Append(s0.out, <<ev.trigger[2], ev.token_id>>) ELSE s0.out
      OBVIOUS
    <3>2. s = [s0 EXCEPT !.out = p]
      BY <2>3, <3>1 DEF dispatch_event_inline
    <3> QED
      BY <2>2, <3>2
  <2>6. paused' => eng' = ResetEngine(bundle)
    BY <2>4, <2>5 DEF EngineInv, PausedIsReset
  <2> QED
    BY <1>2, <2>4, <2>6, KeepsQuiet
<1>4. CASE handle_pause_inline
  BY <1>2, <1>4, KeepsReset DEF handle_pause_inline, Reset
<1>5. CASE handle_reset_inline
  BY <1>2, <1>5, KeepsReset DEF handle_reset_inline, Reset
<1>6. CASE handle_set_enabled_inline(q.on)
  <2>1. UNCHANGED <<eng, inputs, paused, fired>>
    BY <1>6 DEF handle_set_enabled_inline
  <2>2. paused' => eng' = ResetEngine(bundle)
    BY <2>1 DEF EngineInv, PausedIsReset
  <2> QED
    BY <1>2, <2>1, <2>2, KeepsQuiet
<1>7. CASE handle_resume_inline(fails)
  <2>1. paused' = FALSE /\ inputs' = ResetInputs /\ fired' = NoneFired
    BY <1>7 DEF handle_resume_inline
  <2> QED
    BY <1>2, <2>1, KeepsReset
<1> QED
  BY <1>2, <1>3, <1>4, <1>5, <1>6, <1>7

\* The other tasks only put requests into the queue.
LEMMA KeepsSend ==
    ASSUME EngineInv, NEW request, Send(request)
    PROVE  EngineInv'
<1>1. edges' = {} /\ UNCHANGED <<bundle, eng, inputs, paused, fired, world>>
  BY DEF Send
<1>2. paused' => eng' = ResetEngine(bundle)
  BY <1>1 DEF EngineInv, PausedIsReset
<1> QED
  BY <1>1, <1>2, KeepsQuiet

\* A pin changes: the polls have not seen it yet.
LEMMA KeepsPin ==
    ASSUME EngineInv, NEW c \in DOMAIN Channels, pin_changes(c)
    PROVE  EngineInv'
<1>1. /\ level' = [level EXCEPT ![c] = ~@] /\ edges' = {}
      /\ bundle' = bundle /\ eng' = eng /\ inputs' = inputs /\ paused' = paused
      /\ now' = now /\ gap' = gap /\ steady' = steady /\ fired' = fired
  BY DEF pin_changes
<1>2. EngineWorld'
  <2>1. DOMAIN level' = Inputs /\ \A d \in Inputs : level'[d] \in BOOLEAN
    BY <1>1 DEF EngineInv, EngineWorld, Inputs
  <2> QED
    BY <1>1, <2>1 DEF EngineInv, EngineWorld, IsSeen
<1>3. InputsOk'
  <2>1. \A d \in Inputs : HoldOk(inputs[d], fired[d], d)'
    BY <1>1 DEF EngineInv, InputsOk, HoldOk, Once, Marked, Awaits, RuleNumbers
  <2> QED
    BY <1>1, <2>1 DEF EngineInv, InputsOk
<1>4. PendingsOk'
  BY <1>1 DEF EngineInv, PendingsOk, PendingOk, Elapsed
<1>5. EdgesOk' /\ PausedIsReset'
  BY <1>1 DEF EngineInv, EdgesOk, EdgeIsSustained, PausedIsReset, ResetEngine
<1> QED
  BY <1>2, <1>3, <1>4, <1>5 DEF EngineInv

\* Differences on a clock that wraps.
LEMMA Wrapped ==
    ASSUME NEW w \in Nat \ {0}, NEW x \in Int, -w <= x, x < w
    PROVE  x % w = IF x < 0 THEN x + w ELSE x
<1>1. CASE x < 0
  BY <1>1
<1>2. CASE x >= 0
  BY <1>2
<1> QED
  BY <1>1, <1>2

\* One more tick of it: what has elapsed grows by one, or starts again.
LEMMA ElapsedGrows ==
    ASSUME NEW w \in Nat \ {0}, NEW n \in 0 .. w - 1, NEW t \in 0 .. w - 1
    PROVE  (((n + 1) % w) - t) % w <= ((n - t) % w) + 1
<1>0. \A x \in Int : -w <= x /\ x < w => x % w = IF x < 0 THEN x + w ELSE x
  BY Wrapped
<1>1. (n - t) % w = IF n - t < 0 THEN n - t + w ELSE n - t
  <2>1. n - t \in Int /\ -w <= n - t /\ n - t < w
    OBVIOUS
  <2> QED
    BY <1>0, <2>1
<1>2. CASE n + 1 < w
  <2>1. (n + 1) % w = n + 1
    <3>1. n + 1 \in Int /\ -w <= n + 1 /\ n + 1 < w /\ ~(n + 1 < 0)
      BY <1>2
    <3> QED
      BY <1>0, <3>1
  <2>2. ((n + 1) - t) % w = IF (n + 1) - t < 0 THEN (n + 1) - t + w ELSE (n + 1) - t
    <3>1. (n + 1) - t \in Int /\ -w <= (n + 1) - t /\ (n + 1) - t < w
      BY <1>2
    <3> QED
      BY <1>0, <3>1
  <2> QED
    BY <1>1, <2>1, <2>2
<1>3. CASE n + 1 = w
  <2>1. (n + 1) % w = 0
    BY <1>3
  <2>2. (0 - t) % w = IF 0 - t < 0 THEN (0 - t) + w ELSE 0 - t
    <3>1. 0 - t \in Int /\ -w <= 0 - t /\ 0 - t < w
      OBVIOUS
    <3> QED
      BY <1>0, <3>1
  <2>3. (((n + 1) % w) - t) % w = (0 - t) % w
    BY <2>1
  <2>4. n - t >= 0 /\ n - t + 1 = w - t
    BY <1>3
  <2> QED
    BY <1>1, <2>2, <2>3, <2>4
<1> QED
  BY <1>2, <1>3

\* Time passes, past the wrap of the clock too: what has elapsed grows by one
\* or starts again.
LEMMA KeepsTick ==
    ASSUME EngineInv, rules_tick
    PROVE  EngineInv'
<1>1. /\ gap' = gap + 1 /\ now' = (now + 1) % CLOCK /\ edges' = {}
      /\ bundle' = bundle /\ eng' = eng /\ inputs' = inputs /\ paused' = paused
      /\ level' = level /\ steady' = steady /\ fired' = fired
  BY DEF rules_tick
<1>2. CLOCK \in Nat \ {0} /\ now \in 0 .. CLOCK - 1 /\ gap \in Nat
  BY RulesAssumption DEF EngineInv, EngineWorld
<1>3. EngineWorld'
  BY <1>1, <1>2 DEF EngineInv, EngineWorld, IsSeen
<1>4. InputsOk'
  <2>1. \A d \in Inputs : HoldOk(inputs[d], fired[d], d)'
    BY <1>1 DEF EngineInv, InputsOk, HoldOk, Once, Marked, Awaits, RuleNumbers
  <2> QED
    BY <1>1, <2>1 DEF EngineInv, InputsOk
<1>5. ASSUME NEW t \in 0 .. CLOCK - 1
      PROVE  (((now + 1) % CLOCK) - t) % CLOCK <= ((now - t) % CLOCK) + 1
  BY <1>2, ElapsedGrows
<1>6. PendingsOk'
  <2>1. ASSUME NEW c \in Inputs, inputs[c].pending
        PROVE  /\ steady[c].val # inputs[c].stable
               /\ \/ steady[c].time = Channels[c]
                  \/ (((now + 1) % CLOCK) - inputs[c].pending_since) % CLOCK
                       <= steady[c].time + (gap + 1)
    <3>1. /\ steady[c].val # inputs[c].stable
          /\ \/ steady[c].time = Channels[c]
             \/ (now - inputs[c].pending_since) % CLOCK <= steady[c].time + gap
      BY <2>1 DEF EngineInv, PendingsOk, PendingOk, Elapsed
    <3>2. inputs[c].pending_since \in 0 .. CLOCK - 1 /\ steady[c].time \in Nat
      BY DEF EngineInv, InputsOk, HoldOk, IsInput, EngineWorld, IsSeen
    <3>3. PICK a \in Nat : a = (now - inputs[c].pending_since) % CLOCK
      BY <1>2, <3>2
    <3>4. PICK b \in Nat : b = (((now + 1) % CLOCK) - inputs[c].pending_since) % CLOCK
      BY <1>2, <3>2
    <3>5. b <= a + 1
      BY <1>5, <3>2, <3>3, <3>4
    <3> QED
      BY <1>2, <3>1, <3>2, <3>3, <3>4, <3>5
  <2> QED
    BY <1>1, <2>1 DEF PendingsOk, PendingOk, Elapsed
<1>7. EdgesOk' /\ PausedIsReset'
  BY <1>1 DEF EngineInv, EdgesOk, EdgeIsSustained, PausedIsReset, ResetEngine
<1> QED
  BY <1>3, <1>4, <1>6, <1>7 DEF EngineInv

-----------------------------------------------------------------------------
(* The theorems about the rule engine *)

\* The invariant holds at the start and is kept by every action.
LEMMA EngineInductive ==
    /\ RulesInit => EngineInv
    /\ EngineInv /\ [RulesNext]_rules_vars => EngineInv'
<1>1. ASSUME RulesInit
      PROVE  EngineInv
  <2>1. /\ source \in Bundles /\ bundle = Compile(source)
        /\ eng = ResetEngine(bundle) /\ inputs = ResetInputs
        /\ now = 0 /\ gap = 0
        /\ level = [c \in DOMAIN Channels |-> FALSE]
        /\ steady = [c \in DOMAIN Channels |-> [val |-> FALSE, time |-> 0]]
        /\ fired = NoneFired /\ edges = {}
    BY <1>1 DEF RulesInit
  <2>2. EngineWorld
    <3>1. Len(bundle.rules) \in Nat /\ 0 \in 0 .. CLOCK - 1
      BY <2>1, RulesAssumption
    <3>2. IsSeen([val |-> FALSE, time |-> 0])
      BY DEF IsSeen
    <3> QED
      BY <2>1, <3>1, <3>2 DEF EngineWorld, Inputs
  <2>3. IsInput(NoInput) /\ ~NoInput.pending
    BY RulesAssumption DEF NoInput, IsInput, InputFields
  <2>4. /\ DOMAIN inputs = Inputs /\ DOMAIN fired = Inputs
        /\ \A c \in Inputs : inputs[c] = NoInput /\ fired[c] = <<>>
    BY <2>1 DEF ResetInputs, NoneFired, Inputs
  <2>5. InputsOk
    BY <2>3, <2>4, NothingFired DEF InputsOk
  <2>6. PendingsOk
    BY <2>3, <2>4 DEF PendingsOk, PendingOk
  <2>7. EdgesOk /\ PausedIsReset
    BY <2>1 DEF EdgesOk, EdgeIsSustained, PausedIsReset
  <2> QED
    BY <2>2, <2>5, <2>6, <2>7 DEF EngineInv
<1>2. ASSUME EngineInv, [RulesNext]_rules_vars
      PROVE  EngineInv'
  <2>1. CASE UNCHANGED rules_vars
    <3>1. /\ bundle' = bundle /\ inputs' = inputs /\ fired' = fired /\ eng' = eng
          /\ now' = now /\ gap' = gap /\ level' = level /\ steady' = steady
          /\ edges' = edges /\ paused' = paused
      BY <2>1 DEF rules_vars, world
    <3>2. EngineWorld' /\ PendingsOk' /\ EdgesOk' /\ PausedIsReset'
      BY <1>2, <3>1 DEF EngineInv, EngineWorld, IsSeen, PendingsOk, PendingOk, Elapsed,
                        EdgesOk, EdgeIsSustained, PausedIsReset, ResetEngine
    <3>3. \A c \in Inputs : HoldOk(inputs[c], fired[c], c)'
      BY <1>2, <3>1 DEF EngineInv, InputsOk, HoldOk, Once, Marked, Awaits, RuleNumbers
    <3>4. InputsOk'
      BY <1>2, <3>1, <3>3 DEF EngineInv, InputsOk
    <3> QED
      BY <3>2, <3>4 DEF EngineInv
  <2>2. CASE \E fails \in FailSets : poll_inputs_and_timers(fails)
    BY <1>2, <2>2, KeepsPoll
  <2>3. CASE \E fails \in FailSets : handle_request(fails)
    BY <1>2, <2>3, KeepsRequest
  <2>4. CASE submit_request
    BY <1>2, <2>4, KeepsSend DEF submit_request
  <2>5. CASE set_runtime_enabled
    BY <1>2, <2>5, KeepsSend DEF set_runtime_enabled
  <2>6. CASE dispatch_local_event
    BY <1>2, <2>6, KeepsSend DEF dispatch_local_event
  <2>7. CASE dispatch_mqtt_command
    BY <1>2, <2>7, KeepsSend DEF dispatch_mqtt_command
  <2>8. CASE \E c \in DOMAIN Channels : pin_changes(c)
    BY <1>2, <2>8, KeepsPin
  <2>9. CASE rules_tick
    BY <1>2, <2>9, KeepsTick
  <2> QED
    BY <1>2, <2>1, <2>2, <2>3, <2>4, <2>5, <2>6, <2>7, <2>8, <2>9 DEF RulesNext
<1> QED
  BY <1>1, <1>2

\* An edge of an input is published only after the polls of the last
\* debounce_ms all read the new level (process_input_sample): for any number of
\* inputs, any debounce times and gaps between polls, whatever the rules do,
\* and past the wrap of the clock.
THEOREM EdgesAreSustained == RulesSpec => []EdgeIsSustained
<1>1. EngineInv => EdgeIsSustained
  BY DEF EngineInv, EdgesOk
<1> QED
  BY <1>1, EngineInductive, PTL DEF RulesSpec

\* Each hold duration is dispatched at most once for one press of an input
\* (process_input_hold_events, mark_hold_rules_fired): for any bundle, however
\* long the input is held.
THEOREM HoldsFireOnce == RulesSpec => []HoldFiresOnce
<1>1. EngineInv => HoldFiresOnce
  BY DEF EngineInv, InputsOk, HoldOk, Once, HoldFiresOnce
<1> QED
  BY <1>1, EngineInductive, PTL DEF RulesSpec

\* While the rules are paused the engine is in the bundle's initial state
\* (handle_pause_inline): no event, poll, timer, reset or switch of the mode
\* that comes meanwhile changes it.
THEOREM PauseForgets == RulesSpec => []PausedIsReset
<1>1. EngineInv => PausedIsReset
  BY DEF EngineInv
<1> QED
  BY <1>1, EngineInductive, PTL DEF RulesSpec
=============================================================================
