------------------------ MODULE DeviceDispatch_proofs ------------------------
(***************************************************************************)
(* A caller of the dispatcher gets, and the event bus is told, what a      *)
(* device sent for that very request: for any number of devices, callers   *)
(* and tasks, every size of the tables and the queue, and whatever results *)
(* arrive, late, repeated, refused or broken off.                          *)
(***************************************************************************)
EXTENDS DeviceDispatch, SeqLemmas, TLAPS

-----------------------------------------------------------------------------
(* The inductive invariant: everything that is held about a request goes   *)
(* back to a result of that request. R is the set of results published.    *)

Success(R, rid) == \E r \in R : r.rid = rid /\ r.status \in {"done", "broken"}
Sent(R, rid, data) == \E r \in R : r.rid = rid /\ data = [size |-> r.size, rid |-> rid]
Announced(R, e) == \E r \in R : r.rid = e.id /\ r.dev = e.dev /\ r.status = e.what

SlotFields == {"in_use", "dev", "has", "boot", "state", "health", "active", "nfc", "diag",
               "rid", "cmd", "status", "err", "data", "name"}

\* A slot: the status it shows for a request is that of a result of this
\* request, unless one broke off; the data always is.
SlotOk(R, s) ==
    /\ DOMAIN s = SlotFields
    /\ s.rid # 0 => \E r \in R : r.rid = s.rid /\ r.status \in {s.status, "broken"}
    /\ s.data # NoData => Sent(R, s.rid, s.data)

EntryOk(R, e) == e.in_use => Sent(R, e.key[2], e.data)

BoxOk(R, q) == IsSeq(q) /\ \A n \in DOMAIN q : q[n].kind = "result" => Announced(R, q[n])

CallerOk(R, x) ==
    x.out.status = "done" =>
      /\ Success(R, x.rid)
      /\ x.out.data # NoData => Sent(R, x.rid, x.out.data)

\* The owner waits for a request that has an id, and takes data only after it
\* has seen the success of that request.
OwnerOk(R, o) ==
    /\ o.phase \in {"idle", "execute", "wait", "take"}
    /\ o.phase # "idle" => DOMAIN o = {"req", "phase", "rid", "cmd"} /\ o.req.id # 0
    /\ o.phase \in {"wait", "take"} => o.rid # 0
    /\ o.phase = "take" => Success(R, o.rid)

TablesOk ==
    /\ DOMAIN dci_slots = SlotIndexes /\ DOMAIN dci_cache = CacheIndexes
    /\ DOMAIN outbox = ClientTasks /\ DOMAIN caller = Callers

RequestsOk ==
    /\ calls \in Nat
    /\ IsSeq(dispatch_queue) /\ \A n \in DOMAIN dispatch_queue : dispatch_queue[n].id # 0

IngestOk ==
    /\ \A i \in SlotIndexes : SlotOk(results, dci_slots[i])
    /\ \A i \in CacheIndexes : EntryOk(results, dci_cache[i])
    /\ \A t \in ClientTasks : BoxOk(results, outbox[t])
    /\ \A e \in posted : Announced(results, e)

CallersOk == \A c \in Callers : CallerOk(results, caller[c])

DispatchInv ==
    /\ TablesOk /\ RequestsOk
    /\ \A k \in sent_commands : k.rid # 0
    /\ \A r \in results : r.status # "ok"
    /\ IngestOk /\ CallersOk /\ OwnerOk(results, owner)

-----------------------------------------------------------------------------
(* Results are never taken back, so what one of them backs stays so. *)

\* A larger set of results backs at least as much.
LEMMA Grown ==
    ASSUME NEW R, NEW Q, R \subseteq Q
    PROVE  /\ \A s : SlotOk(R, s) => SlotOk(Q, s)
           /\ \A e : EntryOk(R, e) => EntryOk(Q, e)
           /\ \A q : BoxOk(R, q) => BoxOk(Q, q)
           /\ \A e : Announced(R, e) => Announced(Q, e)
           /\ \A x : CallerOk(R, x) => CallerOk(Q, x)
           /\ \A o : OwnerOk(R, o) => OwnerOk(Q, o)
  <1>1. /\ \A x : Success(R, x) => Success(Q, x)
        /\ \A x, y : Sent(R, x, y) => Sent(Q, x, y)
        /\ \A x : Announced(R, x) => Announced(Q, x)
    BY DEF Success, Sent, Announced
  <1>2. \A s : SlotOk(R, s) => SlotOk(Q, s)
    BY <1>1 DEF SlotOk
  <1>3. \A e : EntryOk(R, e) => EntryOk(Q, e)
    BY <1>1 DEF EntryOk
  <1>4. \A q : BoxOk(R, q) => BoxOk(Q, q)
    BY <1>1 DEF BoxOk
  <1>5. \A x : CallerOk(R, x) => CallerOk(Q, x)
    BY <1>1 DEF CallerOk
  <1>6. \A o : OwnerOk(R, o) => OwnerOk(Q, o)
    BY <1>1 DEF OwnerOk
  <1> QED  BY <1>1, <1>2, <1>3, <1>4, <1>5, <1>6

\* The empty sequence holds nothing that would have to be backed.
LEMMA EmptyBox ==
    ASSUME NEW R
    PROVE  BoxOk(R, <<>>)
  <1>1. <<>> \in Seq({})
    OBVIOUS
  <1>2. IsSeq(<<>>)
    BY <1>1 DEF IsSeq
  <1> QED  BY <1>2 DEF BoxOk

\* At the start nothing is held.
LEMMA InitOk == DispatchInit => DispatchInv
  <1> SUFFICES ASSUME DispatchInit PROVE DispatchInv
    OBVIOUS
  <1>1. TablesOk
    BY DEF DispatchInit, IngestInit, TablesOk
  <1>2. RequestsOk
    BY EmptyBox DEF DispatchInit, RequestsOk, BoxOk
  <1>3. \A i \in SlotIndexes : SlotOk(results, dci_slots[i])
    BY DEF DispatchInit, IngestInit, UnusedSlot, EmptyState, SlotOk, SlotFields
  <1>4. \A i \in CacheIndexes : EntryOk(results, dci_cache[i])
    BY DEF DispatchInit, IngestInit, UnusedEntry, EntryOk
  <1>5. \A t \in ClientTasks : BoxOk(results, outbox[t])
    BY EmptyBox DEF DispatchInit, IngestInit
  <1>6. \A e \in posted : Announced(results, e)
    BY DEF DispatchInit, IngestInit
  <1>7. CallersOk
    BY DEF DispatchInit, CallersOk, CallerOk, NoOutcome, Outcome
  <1>8. OwnerOk(results, owner)
    BY DEF DispatchInit, OwnerOk, OwnerIdle
  <1> QED  BY <1>1, <1>2, <1>3, <1>4, <1>5, <1>6, <1>7, <1>8 DEF DispatchInv, DispatchInit, IngestOk

-----------------------------------------------------------------------------
(* Steps that leave the device table alone *)

\* A step that changes neither the table nor the results keeps IngestOk.
LEMMA IngestKept ==
    ASSUME IngestOk, UNCHANGED <<ingest_vars, results>>
    PROVE  IngestOk'
  BY DEF IngestOk, ingest_vars

\* A reply backed by results leaves every caller and the owner so.
LEMMA Replied ==
    ASSUME DispatchInv, NEW out, reply(out), results' = results,
           CallerOk(results, [pc |-> "answered", rid |-> owner.rid, out |-> out])
    PROVE  CallersOk' /\ OwnerOk(results, owner)' /\ DOMAIN caller' = Callers
  <1> DEFINE x == [pc |-> "answered", rid |-> owner.rid, out |-> out]
  <1>1. caller' = [caller EXCEPT ![owner.req.c] = x] /\ owner' = OwnerIdle
    BY DEF reply
  <1>2. DOMAIN caller = Callers /\ \A c \in Callers : CallerOk(results, caller[c])
    BY DEF DispatchInv, TablesOk, CallersOk
  <1>3. CallerOk(results, x)
    OBVIOUS
  <1> HIDE DEF x
  <1>4. DOMAIN caller' = Callers /\ \A c \in Callers : caller'[c] \in {caller[c], x}
    BY <1>1, <1>2
  <1>5. \A c \in Callers : CallerOk(results', caller'[c])
    BY <1>2, <1>3, <1>4
  <1>6. OwnerOk(results', owner')
    BY <1>1 DEF OwnerOk, OwnerIdle
  <1> QED  BY <1>4, <1>5, <1>6 DEF CallersOk

\* An outcome other than success claims nothing.
LEMMA NoClaim ==
    ASSUME NEW R, NEW o, NEW st, st # "done", NEW data
    PROVE  CallerOk(R, [pc |-> "answered", rid |-> o, out |-> Outcome(st, data)])
  BY DEF CallerOk, Outcome

\* A request is queued with the next id.
LEMMA CallOk ==
    ASSUME DispatchInv, NEW c \in Callers, NEW type, NEW d, NEW y, dispatch_call(c, type, d, y)
    PROVE  DispatchInv'
  <1> DEFINE q == [c |-> c, id |-> calls + 1, type |-> type, dev |-> d, confirmed |-> y]
             x == [pc |-> "waiting", rid |-> 0, out |-> NoOutcome]
  <1>1. /\ dispatch_queue' = Append(dispatch_queue, q) /\ caller' = [caller EXCEPT ![c] = x]
        /\ calls' = calls + 1
        /\ UNCHANGED <<owner, sent_commands, results, ingest_vars>>
    BY DEF dispatch_call
  <1>2. IngestOk'
    BY <1>1, IngestKept DEF DispatchInv
  <1>3. calls \in Nat /\ IsSeq(dispatch_queue)
        /\ \A n \in DOMAIN dispatch_queue : dispatch_queue[n].id # 0
    BY DEF DispatchInv, RequestsOk
  <1>4. q.id # 0 /\ calls' \in Nat
    BY <1>1, <1>3
  <1>5. CallerOk(results, x)
    BY DEF CallerOk, NoOutcome, Outcome
  <1> HIDE DEF q, x
  <1>6. /\ IsSeq(dispatch_queue')
        /\ \A n \in DOMAIN dispatch_queue' :
             dispatch_queue'[n] = q \/ (n \in DOMAIN dispatch_queue /\ dispatch_queue'[n] = dispatch_queue[n])
    BY <1>1, <1>3, SeqFacts
  <1>7. RequestsOk'
    BY <1>3, <1>4, <1>6 DEF RequestsOk
  <1>8. TablesOk'
    BY <1>1 DEF DispatchInv, TablesOk, ingest_vars, SlotIndexes, CacheIndexes
  <1>9. CallersOk'
    <2>1. DOMAIN caller = Callers /\ \A b \in Callers : CallerOk(results, caller[b])
      BY DEF DispatchInv, TablesOk, CallersOk
    <2>2. \A b \in Callers : caller'[b] \in {caller[b], x}
      BY <1>1, <2>1
    <2>3. \A b \in Callers : CallerOk(results', caller'[b])
      BY <1>1, <1>5, <2>1, <2>2
    <2> QED  BY <2>3 DEF CallersOk
  <1> QED  BY <1>1, <1>2, <1>7, <1>8, <1>9 DEF DispatchInv

\* A caller that reads its result keeps it.
LEMMA ReturnOk ==
    ASSUME DispatchInv, NEW c \in Callers, caller_returns(c)
    PROVE  DispatchInv'
  <1>1. /\ caller' = [caller EXCEPT ![c].pc = "idle"]
        /\ UNCHANGED <<dispatch_queue, calls, owner, sent_commands, results, ingest_vars>>
    BY DEF caller_returns
  <1>2. IngestOk' /\ RequestsOk'
    BY <1>1, IngestKept DEF DispatchInv, RequestsOk
  <1>3. TablesOk'
    BY <1>1 DEF DispatchInv, TablesOk, ingest_vars, SlotIndexes, CacheIndexes
  <1>4. DOMAIN caller = Callers /\ \A b \in Callers : CallerOk(results, caller[b])
    BY DEF DispatchInv, TablesOk, CallersOk
  <1>5. \A b \in Callers : caller'[b].out = caller[b].out /\ caller'[b].rid = caller[b].rid
    BY <1>1, <1>4
  <1>6. \A b \in Callers : CallerOk(results', caller'[b])
    BY <1>1, <1>4, <1>5 DEF CallerOk
  <1> QED  BY <1>1, <1>2, <1>3, <1>6 DEF DispatchInv, CallersOk

\* The owner takes a request of the queue, which has an id.
LEMMA TaskOk ==
    ASSUME DispatchInv, dispatch_task
    PROVE  DispatchInv'
  <1>1. /\ dispatch_queue # <<>> /\ dispatch_queue' = Tail(dispatch_queue)
        /\ owner' = [req |-> Head(dispatch_queue), phase |-> "execute", rid |-> 0, cmd |-> ""]
        /\ UNCHANGED <<caller, sent_commands, results, calls, ingest_vars>>
    BY DEF dispatch_task
  <1>2. IngestOk' /\ TablesOk'
    BY <1>1, IngestKept DEF DispatchInv, TablesOk, ingest_vars, SlotIndexes, CacheIndexes
  <1>3. /\ calls \in Nat /\ IsSeq(dispatch_queue)
        /\ \A n \in DOMAIN dispatch_queue : dispatch_queue[n].id # 0
    BY DEF DispatchInv, RequestsOk
  <1>4. /\ IsSeq(dispatch_queue') /\ Head(dispatch_queue).id # 0
        /\ \A n \in DOMAIN dispatch_queue' : dispatch_queue'[n].id # 0
    <2>1. /\ Len(dispatch_queue) \in Nat /\ DOMAIN dispatch_queue = 1 .. Len(dispatch_queue)
          /\ IsSeq(dispatch_queue') /\ Len(dispatch_queue) # 0
          /\ DOMAIN dispatch_queue' = 1 .. Len(dispatch_queue) - 1
          /\ \A n \in 1 .. Len(dispatch_queue) - 1 : dispatch_queue'[n] = dispatch_queue[n + 1]
      BY <1>1, <1>3, SeqFacts
    <2>2. Head(dispatch_queue) = dispatch_queue[1]
      BY <1>1, <1>3, SeqOfFacts DEF IsSeq
    <2>3. PICK l \in Nat : l = Len(dispatch_queue)
      BY <2>1
    <2>4. 1 \in 1 .. l /\ \A n \in 1 .. l - 1 : n + 1 \in 1 .. l
      BY <2>1, <2>3
    <2>5. Head(dispatch_queue).id # 0
      BY <1>3, <2>1, <2>2, <2>3, <2>4, Zenon
    <2>6. ASSUME NEW n \in DOMAIN dispatch_queue' PROVE dispatch_queue'[n].id # 0
      <3>1. n \in 1 .. l - 1
        BY <2>1, <2>3, Zenon
      <3>2. n + 1 \in DOMAIN dispatch_queue
        BY <3>1, <2>1, <2>3, <2>4, Zenon
      <3>3. dispatch_queue'[n] = dispatch_queue[n + 1]
        BY <3>1, <2>1, <2>3, Zenon
      <3> QED  BY <1>3, <3>2, <3>3, Zenon
    <2> QED  BY <2>1, <2>5, <2>6
  <1>5. RequestsOk'
    BY <1>1, <1>3, <1>4 DEF RequestsOk
  <1>6. OwnerOk(results, owner)'
    BY <1>1, <1>4 DEF OwnerOk
  <1> QED  BY <1>1, <1>2, <1>5, <1>6 DEF DispatchInv, CallersOk

\* The steps in which the owner sends a command or replies without a success
LEMMA SendOk ==
    ASSUME DispatchInv, owner.phase # "idle", NEW cmd, send(cmd)
    PROVE  \A k \in sent_commands' : k.rid # 0
  <1>1. owner.req.id # 0
    BY DEF DispatchInv, OwnerOk
  <1>2. \A k \in sent_commands : k.rid # 0
    BY DEF DispatchInv
  <1> QED  BY <1>1, <1>2 DEF send

\* The owner waits for the request it has sent.
LEMMA PublishOk ==
    ASSUME DispatchInv, owner.phase = "execute", NEW cmd, publish(cmd), results' = results
    PROVE  /\ OwnerOk(results, owner)' /\ CallersOk' /\ DOMAIN caller' = Callers
           /\ \A k \in sent_commands' : k.rid # 0
  <1>1. /\ owner' = [owner EXCEPT !.phase = "wait", !.rid = owner.req.id, !.cmd = cmd]
        /\ caller' = caller /\ send(cmd)
    BY DEF publish
  <1>2. DOMAIN owner = {"req", "phase", "rid", "cmd"} /\ owner.req.id # 0
    BY DEF DispatchInv, OwnerOk
  <1>3. /\ owner'.phase = "wait" /\ owner'.rid # 0 /\ owner'.req.id # 0
        /\ DOMAIN owner' = {"req", "phase", "rid", "cmd"}
    BY <1>1, <1>2
  <1>4. OwnerOk(results', owner')
    BY <1>3 DEF OwnerOk
  <1>5. CallersOk' /\ DOMAIN caller' = Callers
    BY <1>1 DEF DispatchInv, CallersOk, TablesOk
  <1> QED  BY <1>1, <1>4, <1>5, SendOk

\* What is left to show of a step of the owner that does not touch the table
LEMMA OwnerKept ==
    ASSUME DispatchInv, UNCHANGED <<dispatch_queue, results, calls, ingest_vars>>,
           CallersOk', OwnerOk(results, owner)', DOMAIN caller' = Callers,
           \A k \in sent_commands' : k.rid # 0
    PROVE  DispatchInv'
  <1>1. IngestOk' /\ RequestsOk'
    BY IngestKept DEF DispatchInv, RequestsOk
  <1>2. TablesOk'
    BY DEF DispatchInv, TablesOk, ingest_vars, SlotIndexes, CacheIndexes
  <1> QED  BY <1>1, <1>2 DEF DispatchInv

\* Executing a request of each type.
LEMMA ExecuteOk ==
    ASSUME DispatchInv,
           \/ publish_describe_interface \/ admin_refused \/ publish_admin_command
           \/ publish_without_result \/ execute_device_command
    PROVE  DispatchInv'
  <1>1. owner.phase = "execute" /\ UNCHANGED <<dispatch_queue, results, calls, ingest_vars>>
    BY DEF publish_describe_interface, admin_refused, publish_admin_command,
           publish_without_result, execute_device_command, Executing
  <1>2. \/ \E cmd : publish(cmd)
        \/ \E st : st # "done" /\ reply(Outcome(st, NoData))
                   /\ (UNCHANGED sent_commands \/ \E cmd : send(cmd))
    BY DEF publish_describe_interface, admin_refused, publish_admin_command,
           publish_without_result, execute_device_command
  <1>3. CASE \E cmd : publish(cmd)
    BY <1>1, <1>3, PublishOk, OwnerKept
  <1>4. CASE \E st : st # "done" /\ reply(Outcome(st, NoData))
                    /\ (UNCHANGED sent_commands \/ \E cmd : send(cmd))
    <2>1. PICK st : st # "done" /\ reply(Outcome(st, NoData))
                    /\ (UNCHANGED sent_commands \/ \E cmd : send(cmd))
      BY <1>4
    <2>2. \A k \in sent_commands' : k.rid # 0
      BY <1>1, <2>1, SendOk DEF DispatchInv
    <2>3. CallersOk' /\ OwnerOk(results, owner)' /\ DOMAIN caller' = Callers
      BY <1>1, <2>1, NoClaim, Replied
    <2> QED  BY <1>1, <2>2, <2>3, OwnerKept
  <1> QED  BY <1>2, <1>3, <1>4

-----------------------------------------------------------------------------
(* Polling *)

\* A slot that shows the success of a request has a result of it.
LEMMA SuccessSeen ==
    ASSUME DispatchInv, owner.phase = "wait", NEW i \in find_slot(owner.req.dev),
           Answered(dci_slots[i]), IsSuccess(dci_slots[i].status)
    PROVE  Success(results, owner.rid)
  <1>1. i \in SlotIndexes
    BY DEF find_slot, First
  <1>2. SlotOk(results, dci_slots[i]) /\ owner.rid # 0
    BY <1>1 DEF DispatchInv, IngestOk, OwnerOk
  <1>3. PICK r \in results : r.rid = owner.rid /\ r.status \in {dci_slots[i].status, "broken"}
    BY <1>2 DEF SlotOk, Answered
  <1>4. r.status # "ok"
    BY DEF DispatchInv
  <1> QED  BY <1>3, <1>4 DEF Success, IsSuccess

\* The owner goes on to take the data of a success it has seen.
LEMMA TakeOk ==
    ASSUME DispatchInv, owner.phase = "wait", Success(results, owner.rid), results' = results,
           owner' = [owner EXCEPT !.phase = "take"], caller' = caller
    PROVE  CallersOk' /\ OwnerOk(results, owner)' /\ DOMAIN caller' = Callers
  <1>1. /\ DOMAIN owner = {"req", "phase", "rid", "cmd"} /\ owner.req.id # 0 /\ owner.rid # 0
    BY DEF DispatchInv, OwnerOk
  <1>2. /\ owner'.phase = "take" /\ owner'.rid = owner.rid /\ owner'.req.id # 0
        /\ DOMAIN owner' = {"req", "phase", "rid", "cmd"}
    BY <1>1
  <1>3. OwnerOk(results', owner')
    BY <1>1, <1>2 DEF OwnerOk
  <1> QED  BY <1>3 DEF DispatchInv, CallersOk, TablesOk

\* A poll for a description, whose success leads to its data.
LEMMA PollDescribeOk ==
    ASSUME DispatchInv, poll_describe_interface
    PROVE  DispatchInv'
  <1>1. /\ owner.phase = "wait"
        /\ UNCHANGED <<dispatch_queue, sent_commands, results, calls, ingest_vars>>
    BY DEF poll_describe_interface
  <1>2. PICK i \in find_slot(owner.req.dev) :
          /\ Answered(dci_slots[i])
          /\ IF IsSuccess(dci_slots[i].status)
             THEN owner' = [owner EXCEPT !.phase = "take"] /\ UNCHANGED caller
             ELSE reply(Outcome("rejected", NoData))
    BY DEF poll_describe_interface
  <1>3. CallersOk' /\ OwnerOk(results, owner)' /\ DOMAIN caller' = Callers
    <2>1. CASE IsSuccess(dci_slots[i].status)
      BY <1>1, <1>2, <2>1, SuccessSeen, TakeOk
    <2>2. CASE ~IsSuccess(dci_slots[i].status)
      BY <1>1, <1>2, <2>2, NoClaim, Replied
    <2> QED  BY <2>1, <2>2
  <1> QED  BY <1>1, <1>3, OwnerKept DEF DispatchInv

\* A poll for an administrative command, whose data may come with the slot.
LEMMA PollAdminOk ==
    ASSUME DispatchInv, poll_admin_command
    PROVE  DispatchInv'
  <1>1. /\ owner.phase = "wait"
        /\ UNCHANGED <<dispatch_queue, sent_commands, results, calls, ingest_vars>>
    BY DEF poll_admin_command
  <1>2. PICK i \in find_slot(owner.req.dev) :
          /\ Answered(dci_slots[i])
          /\ IF IsSuccess(dci_slots[i].status) /\ dci_slots[i].data = NoData
             THEN owner' = [owner EXCEPT !.phase = "take"] /\ UNCHANGED caller
             ELSE reply(IF IsSuccess(dci_slots[i].status) THEN Outcome("done", dci_slots[i].data)
                        ELSE IF dci_slots[i].status = "rejected" THEN Outcome("rejected", NoData)
                        ELSE Outcome("failed", NoData))
    BY DEF poll_admin_command
  <1>3. CallersOk' /\ OwnerOk(results, owner)' /\ DOMAIN caller' = Callers
    <2>1. CASE IsSuccess(dci_slots[i].status) /\ dci_slots[i].data = NoData
      BY <1>1, <1>2, <2>1, SuccessSeen, TakeOk
    <2>2. CASE IsSuccess(dci_slots[i].status) /\ dci_slots[i].data # NoData
      <3>1. i \in SlotIndexes
        BY DEF find_slot, First
      <3>2. Sent(results, owner.rid, dci_slots[i].data)
        BY <1>2, <2>2, <3>1 DEF DispatchInv, IngestOk, SlotOk, Answered
      <3>3. Success(results, owner.rid)
        BY <1>1, <1>2, <2>2, SuccessSeen
      <3>4. CallerOk(results, [pc |-> "answered", rid |-> owner.rid,
                               out |-> Outcome("done", dci_slots[i].data)])
        BY <3>2, <3>3 DEF CallerOk, Outcome
      <3>5. reply(Outcome("done", dci_slots[i].data))
        BY <1>2, <2>2
      <3> QED  BY <1>1, <3>4, <3>5, Replied
    <2>3. CASE ~IsSuccess(dci_slots[i].status)
      <3>1. \E st \in {"rejected", "failed"} : reply(Outcome(st, NoData))
        BY <1>2, <2>3
      <3> QED  BY <1>1, <3>1, NoClaim, Replied
    <2> QED  BY <2>1, <2>2, <2>3
  <1> QED  BY <1>1, <1>3, OwnerKept DEF DispatchInv

\* The deadline ends the wait without a success.
LEMMA DeadlineOk ==
    ASSUME DispatchInv, poll_deadline
    PROVE  DispatchInv'
  <1>1. /\ reply(Outcome("timeout", NoData))
        /\ UNCHANGED <<dispatch_queue, sent_commands, results, calls, ingest_vars>>
    BY DEF poll_deadline
  <1>2. CallersOk' /\ OwnerOk(results, owner)' /\ DOMAIN caller' = Callers
    BY <1>1, NoClaim, Replied
  <1> QED  BY <1>1, <1>2, OwnerKept DEF DispatchInv

\* The cached data that is handed out belongs to the request of its key.
LEMMA TakeDataOk ==
    ASSUME DispatchInv, take_data
    PROVE  DispatchInv'
  <1> DEFINE found == take_result_data(<<owner.req.dev, owner.rid, owner.cmd>>)
  <1>1. /\ owner.phase = "take"
        /\ UNCHANGED <<dci_slots, generation, last_changed, outbox, posted>>
        /\ UNCHANGED <<dispatch_queue, sent_commands, results, calls>>
    BY DEF take_data
  <1>2. \/ /\ dci_cache' = dci_cache
           /\ reply(Outcome(IF owner.cmd = "admin" THEN "done" ELSE "failed", NoData))
        \/ \E i \in found : /\ dci_cache' = [dci_cache EXCEPT ![i] = UnusedEntry]
                            /\ reply(Outcome("done", dci_cache[i].data))
    BY DEF take_data
  <1>3. Success(results, owner.rid)
    BY <1>1 DEF DispatchInv, OwnerOk
  <1>4. /\ \A i \in CacheIndexes : EntryOk(results, dci_cache[i])
        /\ DOMAIN dci_cache = CacheIndexes
    BY DEF DispatchInv, IngestOk, TablesOk
  <1>5. /\ CallersOk' /\ OwnerOk(results, owner)' /\ DOMAIN caller' = Callers
        /\ DOMAIN dci_cache' = CacheIndexes
        /\ \A i \in CacheIndexes : EntryOk(results', dci_cache'[i])
    <2>1. CASE /\ dci_cache' = dci_cache
               /\ reply(Outcome(IF owner.cmd = "admin" THEN "done" ELSE "failed", NoData))
      <3>1. PICK st : reply(Outcome(st, NoData))
        BY <2>1
      <3>2. CallerOk(results, [pc |-> "answered", rid |-> owner.rid, out |-> Outcome(st, NoData)])
        BY <1>3 DEF CallerOk, Outcome
      <3>3. CallersOk' /\ OwnerOk(results, owner)' /\ DOMAIN caller' = Callers
        BY <1>1, <3>1, <3>2, Replied
      <3> QED  BY <1>1, <1>4, <2>1, <3>3
    <2>2. CASE \E i \in found : /\ dci_cache' = [dci_cache EXCEPT ![i] = UnusedEntry]
                               /\ reply(Outcome("done", dci_cache[i].data))
      <3>1. PICK i \in found : /\ dci_cache' = [dci_cache EXCEPT ![i] = UnusedEntry]
                               /\ reply(Outcome("done", dci_cache[i].data))
        BY <2>2
      <3>2. /\ i \in CacheIndexes /\ dci_cache[i].in_use
            /\ dci_cache[i].key = <<owner.req.dev, owner.rid, owner.cmd>>
        BY DEF take_result_data, First
      <3>3. Sent(results, owner.rid, dci_cache[i].data)
        BY <1>4, <3>2 DEF EntryOk
      <3>4. CallerOk(results, [pc |-> "answered", rid |-> owner.rid,
                               out |-> Outcome("done", dci_cache[i].data)])
        BY <1>3, <3>3 DEF CallerOk, Outcome
      <3>5. CallersOk' /\ OwnerOk(results, owner)' /\ DOMAIN caller' = Callers
        BY <1>1, <3>1, <3>4, Replied
      <3>6. ~UnusedEntry.in_use
        BY DEF UnusedEntry
      <3>7. /\ DOMAIN dci_cache' = CacheIndexes
            /\ \A j \in CacheIndexes : dci_cache'[j] \in {dci_cache[j], UnusedEntry}
        BY <1>4, <3>1
      <3>8. EntryOk(results, UnusedEntry)
        BY <3>6 DEF EntryOk
      <3>9. \A j \in CacheIndexes : EntryOk(results', dci_cache'[j])
        BY <1>1, <1>4, <3>7, <3>8
      <3> QED  BY <3>5, <3>7, <3>9
    <2> QED  BY <1>2, <2>1, <2>2
  <1>6. IngestOk'
    BY <1>1, <1>5 DEF DispatchInv, IngestOk, SlotIndexes, CacheIndexes
  <1>7. TablesOk' /\ RequestsOk'
    BY <1>1, <1>5 DEF DispatchInv, TablesOk, RequestsOk, SlotIndexes, CacheIndexes
  <1> QED  BY <1>1, <1>5, <1>6, <1>7 DEF DispatchInv

-----------------------------------------------------------------------------
(* Messages of devices *)

\* An update of a slot that says nothing about results
SameResult(s, n) ==
    /\ DOMAIN n = SlotFields
    /\ n.rid = s.rid /\ n.status = s.status /\ n.data = s.data

\* It leaves the slot backed.
LEMMA SameSlot ==
    ASSUME NEW R, NEW s, NEW n, SlotOk(R, s), SameResult(s, n)
    PROVE  SlotOk(R, n)
  BY DEF SlotOk, SameResult

\* Heartbeat, status, diagnosis and event are such updates.
LEMMA ReportApplied ==
    ASSUME NEW s, DOMAIN s = SlotFields, NEW m, m.kind \in Kinds \ {"result"}
    PROVE  SameResult(s, applied(s, m))
  <1>1. CASE m.tail = "none"
    BY <1>1 DEF applied, SameResult
  <1>2. CASE m.tail # "none" /\ m.kind = "heartbeat"
    <2>1. applied(s, m) = apply_heartbeat(s, m)
      BY <1>2, Zenon DEF applied
    <2>2. SameResult(s, apply_heartbeat(s, m))
      BY DEF SameResult, apply_heartbeat, SlotFields
    <2> QED  BY <2>1, <2>2
  <1>3. CASE m.tail # "none" /\ m.kind = "status"
    <2>1. applied(s, m) = apply_status(s, m)
      BY <1>3, Zenon DEF applied
    <2>2. SameResult(s, apply_status(s, m))
      BY DEF SameResult, apply_status, apply_runtime_driver_fields, SlotFields
    <2> QED  BY <2>1, <2>2
  <1>4. CASE m.tail # "none" /\ m.kind = "diag"
    <2>1. applied(s, m) = apply_diag(s, m)
      BY <1>4, Zenon DEF applied
    <2>2. SameResult(s, apply_diag(s, m))
      BY DEF SameResult, apply_diag, SlotFields
    <2> QED  BY <2>1, <2>2
  <1>5. CASE m.tail # "none" /\ m.kind = "event"
    <2>1. applied(s, m) = apply_event(s, m)
      BY <1>5, Zenon DEF applied
    <2>2. SameResult(s, apply_event(s, m))
      BY DEF SameResult, apply_event, SlotFields
    <2> QED  BY <2>1, <2>2
  <1> QED  BY <1>1, <1>2, <1>3, <1>4, <1>5 DEF Kinds

\* A single event is backed if it announces no result, or a published one.
LEMMA OneEvent ==
    ASSUME NEW R, NEW e, e.kind = "result" => Announced(R, e)
    PROVE  BoxOk(R, <<e>>)
  <1>1. <<e>> \in Seq({e})
    OBVIOUS
  <1>2. DOMAIN <<e>> = 1 .. 1 /\ <<e>>[1] = e
    OBVIOUS
  <1>3. IsSeq(<<e>>)
    BY <1>1, Zenon DEF IsSeq
  <1> QED  BY <1>2, <1>3 DEF BoxOk

\* What they announce is no result.
LEMMA ReportAnnounced ==
    ASSUME NEW R, NEW n, NEW kind, kind \in Kinds \ {"result"}
    PROVE  BoxOk(R, capture_event_snapshot(n, kind))
  <1>1. \A a, b : IsSeq(<<a, b>>) /\ DOMAIN <<a, b>> = 1 .. 2 /\ <<a, b>>[1] = a /\ <<a, b>>[2] = b
    <2>1. \A a, b : <<a, b>> \in Seq({a, b})
      OBVIOUS
    <2>2. \A a, b : DOMAIN <<a, b>> = 1 .. 2 /\ <<a, b>>[1] = a /\ <<a, b>>[2] = b
      OBVIOUS
    <2>3. \A a, b : IsSeq(<<a, b>>)
      BY <2>1, Zenon DEF IsSeq
    <2> QED  BY <2>2, <2>3
  <1>3. /\ status_event(n).kind # "result" /\ runtime_event(n).kind # "result"
        /\ control_event(n, TRUE).kind # "result"
    BY DEF status_event, runtime_event, control_event
  <1>4. CASE kind = "status"
    <2>1. capture_event_snapshot(n, kind) = <<status_event(n), runtime_event(n)>>
      BY <1>4 DEF capture_event_snapshot
    <2>2. \A i \in 1 .. 2 : i = 1 \/ i = 2
      OBVIOUS
    <2> QED  BY <1>1, <1>3, <2>1, <2>2 DEF BoxOk
  <1>5. CASE kind \in {"heartbeat", "diag"}
    <2>1. capture_event_snapshot(n, kind) = <<status_event(n)>>
      BY <1>5 DEF capture_event_snapshot
    <2> QED  BY <1>3, <2>1, OneEvent
  <1>6. CASE kind = "event"
    <2>1. capture_event_snapshot(n, kind) = <<control_event(n, TRUE)>>
      BY <1>6 DEF capture_event_snapshot
    <2> QED  BY <1>3, <2>1, OneEvent
  <1> QED  BY <1>4, <1>5, <1>6 DEF Kinds

\* The slot a message is applied to, as it was before
Before(i, d) == IF dci_slots[i].in_use THEN dci_slots[i] ELSE EmptyState(d)

\* What handle_mqtt does, with its new slot named
LEMMA Handled ==
    ASSUME NEW t, NEW m, NEW rx, handle_mqtt(t, m, rx)
    PROVE  /\ posted' = posted
           /\ \E i \in SlotIndexes :
                LET n == applied(Before(i, m.dev), m)
                    ok == accepted(Before(i, m.dev), m)
                IN /\ Before(i, m.dev).dev = m.dev
                   /\ dci_slots' = [dci_slots EXCEPT ![i] = n]
                   /\ IF ok /\ m.kind = "result" /\ n.cmd = "describe_interface"
                         /\ result_data(m).size # "none"
                      THEN store_result_data(<<m.dev, n.rid, n.cmd>>, result_data(m), rx)
                      ELSE dci_cache' = dci_cache
                   /\ outbox' = [outbox EXCEPT ![t] = IF ok THEN capture_event_snapshot(n, m.kind)
                                                      ELSE <<>>]
  <1>1. \A i \in alloc_slot(m.dev) :
          /\ i \in SlotIndexes
          /\ dci_slots[i].in_use => dci_slots[i].dev = m.dev
    BY DEF alloc_slot, find_slot, First
  <1>2. EmptyState(m.dev).dev = m.dev
    BY DEF EmptyState
  <1>3. \A i \in alloc_slot(m.dev) : i \in SlotIndexes /\ Before(i, m.dev).dev = m.dev
    BY <1>1, <1>2 DEF Before
  <1> QED  BY <1>3 DEF handle_mqtt, Before

\* A slot about to be written is backed, used or not.
LEMMA BeforeOk ==
    ASSUME IngestOk, NEW i \in SlotIndexes, NEW d
    PROVE  SlotOk(results, Before(i, d))
  <1>1. SlotOk(results, EmptyState(d))
    BY DEF EmptyState, SlotOk, SlotFields
  <1> QED  BY <1>1 DEF IngestOk, Before

\* What is left to show of a message, once its slot, entry and events are backed
LEMMA MessageKept ==
    ASSUME DispatchInv, NEW t \in ClientTasks,
           NEW i \in SlotIndexes, NEW n, SlotOk(results', n),
           dci_slots' = [dci_slots EXCEPT ![i] = n],
           NEW q, BoxOk(results', q), outbox' = [outbox EXCEPT ![t] = q],
           posted' = posted, results \subseteq results', \A r \in results' : r.status # "ok",
           DOMAIN dci_cache' = CacheIndexes,
           \A j \in CacheIndexes : EntryOk(results', dci_cache'[j]),
           UNCHANGED <<dispatch_queue, caller, owner, sent_commands, calls>>
    PROVE  DispatchInv'
  <1>1. /\ DOMAIN dci_slots = SlotIndexes /\ DOMAIN outbox = ClientTasks
        /\ DOMAIN caller = Callers
    BY DEF DispatchInv, TablesOk
  <1>2. /\ \A j \in SlotIndexes : SlotOk(results', dci_slots[j])
        /\ \A u \in ClientTasks : BoxOk(results', outbox[u])
        /\ \A e \in posted : Announced(results', e)
        /\ \A c \in Callers : CallerOk(results', caller[c])
        /\ OwnerOk(results', owner)
    BY Grown DEF DispatchInv, IngestOk, CallersOk
  <1>3. /\ DOMAIN dci_slots' = SlotIndexes
        /\ \A j \in SlotIndexes : dci_slots'[j] \in {dci_slots[j], n}
    BY <1>1
  <1>4. \A j \in SlotIndexes : SlotOk(results', dci_slots'[j])
    BY <1>2, <1>3
  <1>5. /\ DOMAIN outbox' = ClientTasks
        /\ \A u \in ClientTasks : outbox'[u] \in {outbox[u], q}
    BY <1>1
  <1>6. \A u \in ClientTasks : BoxOk(results', outbox'[u])
    BY <1>2, <1>5
  <1>7. IngestOk'
    BY <1>2, <1>4, <1>6 DEF IngestOk, SlotIndexes, CacheIndexes
  <1>8. TablesOk' /\ RequestsOk'
    BY <1>1, <1>3, <1>5 DEF DispatchInv, TablesOk, RequestsOk, SlotIndexes, CacheIndexes
  <1>9. CallersOk' /\ OwnerOk(results, owner)'
    BY <1>2 DEF CallersOk
  <1> QED  BY <1>7, <1>8, <1>9 DEF DispatchInv

\* A report changes no result, no cached data and announces no result.
LEMMA ReportOk ==
    ASSUME DispatchInv, NEW t \in ClientTasks, NEW d, NEW r \in Reports, device_report(t, d, r)
    PROVE  DispatchInv'
  <1> DEFINE m == [kind |-> r.kind, dev |-> d, tail |-> r.tail, f |-> r.f]
  <1>1. /\ handle_mqtt(t, m, messages)
        /\ UNCHANGED <<dispatch_queue, caller, owner, sent_commands, results, calls>>
    BY DEF device_report
  <1>2. m.kind \in Kinds \ {"result"}
    BY ReportsAssumption
  <1> HIDE DEF m
  <1>3. PICK i \in SlotIndexes :
          /\ dci_slots' = [dci_slots EXCEPT ![i] = applied(Before(i, m.dev), m)]
          /\ dci_cache' = dci_cache
          /\ outbox' = [outbox EXCEPT ![t] = IF accepted(Before(i, m.dev), m)
                           THEN capture_event_snapshot(applied(Before(i, m.dev), m), m.kind)
                           ELSE <<>>]
    BY <1>1, <1>2, Handled
  <1> DEFINE n == applied(Before(i, m.dev), m)
             q == IF accepted(Before(i, m.dev), m) THEN capture_event_snapshot(n, m.kind) ELSE <<>>
  <1>4. SlotOk(results, Before(i, m.dev))
    BY BeforeOk DEF DispatchInv
  <1>5. SlotOk(results, n)
    BY <1>2, <1>4, ReportApplied, SameSlot DEF SlotOk
  <1>6. BoxOk(results, q)
    BY <1>2, EmptyBox, ReportAnnounced
  <1>7. dci_slots' = [dci_slots EXCEPT ![i] = n] /\ outbox' = [outbox EXCEPT ![t] = q]
    BY <1>3
  <1>8. /\ DOMAIN dci_cache' = CacheIndexes
        /\ \A j \in CacheIndexes : EntryOk(results', dci_cache'[j])
    BY <1>1, <1>3 DEF DispatchInv, TablesOk, IngestOk
  <1>9. posted' = posted /\ results \subseteq results' /\ \A x \in results' : x.status # "ok"
    BY <1>1, Handled DEF DispatchInv
  <1> HIDE DEF n, q
  <1> QED  BY <1>1, <1>5, <1>6, <1>7, <1>8, <1>9, MessageKept

\* A whole result sets the slot to what it says.
LEMMA WholeApplied ==
    ASSUME NEW s, DOMAIN s = SlotFields, NEW k, NEW a, a.tail = "whole", NEW m,
           m = [kind |-> "result", dev |-> k.dev, tail |-> a.tail, f |-> Payload(k, a)]
    PROVE  /\ DOMAIN applied(s, m) = SlotFields
           /\ applied(s, m).dev = s.dev
           /\ applied(s, m).rid = k.rid
           /\ applied(s, m).status = normalize(a.status)
           /\ applied(s, m).data \in {NoData, [size |-> a.size, rid |-> k.rid]}
           /\ result_data(m) = [size |-> a.size, rid |-> k.rid]
  <1>1. m.kind = "result" /\ m.tail = "whole" /\ m.f = Payload(k, a)
    OBVIOUS
  <1>2. m.f = [request_id |-> k.rid, command |-> k.cmd, status |-> a.status, data |-> a.size]
    BY <1>1 DEF Payload
  <1>3. /\ \A old : Update(old, m.f, "request_id") = k.rid
        /\ \A old : Update(old, m.f, "command") = k.cmd
        /\ \A old : Update(old, m.f, "status") = a.status
        /\ \A old : Update(old, m.f, "data") = a.size
    BY <1>2 DEF Update
  <1>4. result_data(m) = [size |-> a.size, rid |-> k.rid]
    BY <1>3 DEF result_data
  <1>5. applied(s, m) = apply_result(s, m)
    BY <1>1, Zenon DEF applied, Consumed
  <1> DEFINE g == result_fields(s, m)
             h == [g EXCEPT !.status = normalize(a.status)]
  <1>6. /\ DOMAIN g = SlotFields /\ g.dev = s.dev /\ g.rid = k.rid /\ g.data = NoData
    BY <1>3 DEF result_fields, SlotFields
  <1>7. apply_result(s, m) \in {h, [h EXCEPT !.data = [size |-> a.size, rid |-> k.rid]]}
    BY <1>3, <1>4 DEF apply_result
  <1> HIDE DEF g
  <1>8. /\ DOMAIN h = SlotFields /\ h.dev = s.dev /\ h.rid = k.rid /\ h.data = NoData
        /\ h.status = normalize(a.status)
    BY <1>6 DEF SlotFields
  <1> HIDE DEF h
  <1>9. /\ DOMAIN apply_result(s, m) = SlotFields
        /\ apply_result(s, m).dev = s.dev /\ apply_result(s, m).rid = k.rid
        /\ apply_result(s, m).status = normalize(a.status)
        /\ apply_result(s, m).data \in {NoData, [size |-> a.size, rid |-> k.rid]}
    BY <1>7, <1>8 DEF SlotFields
  <1> QED  BY <1>4, <1>5, <1>9

\* One that breaks off, or is no object, leaves the status, clears the data
\* and may have written its id; it is not accepted.
LEMMA BrokenApplied ==
    ASSUME NEW s, DOMAIN s = SlotFields, NEW k, NEW a, a.tail # "whole", NEW m,
           m = [kind |-> "result", dev |-> k.dev, tail |-> a.tail, f |-> Payload(k, a)]
    PROVE  /\ ~accepted(s, m)
           /\ \/ applied(s, m) = s
              \/ /\ DOMAIN applied(s, m) = SlotFields
                 /\ applied(s, m).rid \in {s.rid, k.rid}
                 /\ applied(s, m).status = s.status
                 /\ applied(s, m).data = NoData
  <1>1. m.kind = "result" /\ m.tail # "whole" /\ m.f = Payload(k, a) /\ m.tail = a.tail
    OBVIOUS
  <1>2. ~accepted(s, m)
    BY <1>1 DEF accepted, Consumed
  <1>3. CASE m.tail = "none"
    BY <1>2, <1>3 DEF applied
  <1>4. CASE m.tail # "none"
    <2>1. applied(s, m) = result_fields(s, m)
      BY <1>1, <1>4, Zenon DEF applied, Consumed
    <2>2. \A old : Update(old, m.f, "request_id") \in {old, k.rid}
      BY <1>1 DEF Payload, Update
    <2>3. /\ DOMAIN result_fields(s, m) = SlotFields
          /\ result_fields(s, m).rid \in {s.rid, k.rid}
          /\ result_fields(s, m).status = s.status
          /\ result_fields(s, m).data = NoData
      BY <2>2 DEF result_fields, SlotFields
    <2> QED  BY <1>2, <2>1, <2>3
  <1> QED  BY <1>3, <1>4

\* Data goes into one entry of the cache, under the key of its request.
LEMMA StoredOk ==
    ASSUME NEW R, NEW key, NEW data, NEW rx, Sent(R, key[2], data),
           DOMAIN dci_cache = CacheIndexes, \A j \in CacheIndexes : EntryOk(R, dci_cache[j]),
           store_result_data(key, data, rx)
    PROVE  /\ DOMAIN dci_cache' = CacheIndexes
           /\ \A j \in CacheIndexes : EntryOk(R, dci_cache'[j])
  <1> DEFINE e == [in_use |-> TRUE, key |-> key, data |-> data, rx |-> rx]
  <1>1. PICK i : dci_cache' = [dci_cache EXCEPT ![i] = e]
    BY DEF store_result_data
  <1>2. EntryOk(R, e)
    BY DEF EntryOk
  <1> HIDE DEF e
  <1>3. DOMAIN dci_cache' = CacheIndexes /\ \A j \in CacheIndexes : dci_cache'[j] \in {dci_cache[j], e}
    BY <1>1
  <1> QED  BY <1>2, <1>3

\* What a whole result leaves in the slot and announces is that result.
LEMMA WholeOk ==
    ASSUME DispatchInv, NEW t \in ClientTasks, NEW k \in sent_commands, NEW a,
           device_result(t, k, a), a.tail = "whole"
    PROVE  DispatchInv'
  <1> DEFINE m == [kind |-> "result", dev |-> k.dev, tail |-> a.tail, f |-> Payload(k, a)]
             w == [dev |-> k.dev, rid |-> k.rid, size |-> a.size, status |-> normalize(a.status)]
  <1>1. /\ handle_mqtt(t, m, messages)
        /\ results' = results \cup {w}
        /\ UNCHANGED <<dispatch_queue, caller, owner, sent_commands, calls>>
    BY DEF device_result
  <1>2. /\ w \in results' /\ w.dev = k.dev /\ w.rid = k.rid /\ w.size = a.size
        /\ w.status = normalize(a.status) /\ k.rid # 0
    BY <1>1 DEF DispatchInv
  <1>3. normalize(a.status) # "ok"
    BY DEF normalize
  <1>4. results \subseteq results' /\ \A x \in results' : x.status # "ok"
    BY <1>1, <1>2, <1>3 DEF DispatchInv
  <1>5. m.kind = "result" /\ m.dev = k.dev
    OBVIOUS
  <1>6. \A s : DOMAIN s = SlotFields =>
          /\ DOMAIN applied(s, m) = SlotFields
          /\ applied(s, m).dev = s.dev
          /\ applied(s, m).rid = k.rid
          /\ applied(s, m).status = normalize(a.status)
          /\ applied(s, m).data \in {NoData, [size |-> a.size, rid |-> k.rid]}
          /\ result_data(m) = [size |-> a.size, rid |-> k.rid]
    BY WholeApplied
  <1> HIDE DEF m, w
  <1>7. PICK i \in SlotIndexes :
          LET n == applied(Before(i, m.dev), m)
              ok == accepted(Before(i, m.dev), m)
          IN /\ Before(i, m.dev).dev = m.dev
             /\ dci_slots' = [dci_slots EXCEPT ![i] = n]
             /\ \/ store_result_data(<<m.dev, n.rid, n.cmd>>, result_data(m), messages)
                \/ dci_cache' = dci_cache
             /\ outbox' = [outbox EXCEPT ![t] = IF ok THEN capture_event_snapshot(n, m.kind)
                                                ELSE <<>>]
    BY <1>1, Handled
  <1> DEFINE n == applied(Before(i, m.dev), m)
             q == IF accepted(Before(i, m.dev), m) THEN capture_event_snapshot(n, m.kind) ELSE <<>>
  <1>8. /\ DOMAIN n = SlotFields /\ n.dev = k.dev /\ n.rid = k.rid
        /\ n.status = normalize(a.status)
        /\ n.data \in {NoData, [size |-> a.size, rid |-> k.rid]}
        /\ result_data(m) = [size |-> a.size, rid |-> k.rid]
    <2>1. DOMAIN Before(i, m.dev) = SlotFields
      BY BeforeOk DEF DispatchInv, SlotOk
    <2> QED  BY <1>5, <1>6, <1>7, <2>1
  <1>9. dci_slots' = [dci_slots EXCEPT ![i] = n] /\ outbox' = [outbox EXCEPT ![t] = q]
    BY <1>7
  <1>10. \/ store_result_data(<<m.dev, n.rid, n.cmd>>, result_data(m), messages)
         \/ dci_cache' = dci_cache
    BY <1>7
  <1>11. q = <<control_event(n, FALSE)>> \/ q = <<>>
    BY <1>5 DEF capture_event_snapshot
  <1> HIDE DEF n, q
  <1>12. SlotOk(results', n)
    BY <1>2, <1>8 DEF SlotOk, Sent
  <1>13. BoxOk(results', q)
    <2> DEFINE e == control_event(n, FALSE)
    <2>1. e.id = k.rid /\ e.dev = k.dev /\ e.what = normalize(a.status)
      BY <1>2, <1>8 DEF control_event
    <2>2. Announced(results', e)
      BY <1>2, <2>1 DEF Announced
    <2> HIDE DEF e
    <2>3. q = <<e>> \/ q = <<>>
      BY <1>11 DEF e
    <2> QED  BY <2>2, <2>3, OneEvent, EmptyBox
  <1>14. /\ DOMAIN dci_cache' = CacheIndexes
         /\ \A j \in CacheIndexes : EntryOk(results', dci_cache'[j])
    <2>1. DOMAIN dci_cache = CacheIndexes /\ \A j \in CacheIndexes : EntryOk(results', dci_cache[j])
      BY <1>4, Grown DEF DispatchInv, TablesOk, IngestOk
    <2>2. CASE dci_cache' = dci_cache
      BY <2>1, <2>2
    <2>3. CASE store_result_data(<<m.dev, n.rid, n.cmd>>, result_data(m), messages)
      <3>1. PICK key, data : /\ key = <<m.dev, n.rid, n.cmd>> /\ data = result_data(m)
                             /\ store_result_data(key, data, messages)
        BY <2>3
      <3>2. key[2] = k.rid /\ data = [size |-> a.size, rid |-> k.rid]
        BY <1>8, <3>1
      <3>3. Sent(results', key[2], data)
        BY <1>2, <3>2 DEF Sent
      <3> QED  BY <2>1, <3>1, <3>3, StoredOk
    <2> QED  BY <1>10, <2>2, <2>3
  <1>15. posted' = posted
    BY <1>1, Handled
  <1> QED  BY <1>1, <1>4, <1>9, <1>12, <1>13, <1>14, <1>15, MessageKept

\* What a broken result leaves in the slot is backed by its being broken.
LEMMA BrokenOk ==
    ASSUME DispatchInv, NEW t \in ClientTasks, NEW k \in sent_commands, NEW a,
           device_result(t, k, a), a.tail # "whole"
    PROVE  DispatchInv'
  <1> DEFINE m == [kind |-> "result", dev |-> k.dev, tail |-> a.tail, f |-> Payload(k, a)]
             w == [dev |-> k.dev, rid |-> k.rid, size |-> a.size, status |-> "broken"]
  <1>1. /\ handle_mqtt(t, m, messages)
        /\ results' = results \cup {w}
        /\ UNCHANGED <<dispatch_queue, caller, owner, sent_commands, calls>>
    BY DEF device_result
  <1>2. w \in results' /\ w.rid = k.rid /\ w.status = "broken"
    BY <1>1
  <1>3. results \subseteq results' /\ \A x \in results' : x.status # "ok"
    BY <1>1, <1>2 DEF DispatchInv
  <1>4. \A s : DOMAIN s = SlotFields =>
          /\ ~accepted(s, m)
          /\ \/ applied(s, m) = s
             \/ /\ DOMAIN applied(s, m) = SlotFields
                /\ applied(s, m).rid \in {s.rid, k.rid}
                /\ applied(s, m).status = s.status
                /\ applied(s, m).data = NoData
    BY BrokenApplied
  <1> HIDE DEF m, w
  <1>5. PICK i \in SlotIndexes :
          LET n == applied(Before(i, m.dev), m)
              ok == accepted(Before(i, m.dev), m)
          IN /\ dci_slots' = [dci_slots EXCEPT ![i] = n]
             /\ IF ok /\ m.kind = "result" /\ n.cmd = "describe_interface"
                   /\ result_data(m).size # "none"
                THEN store_result_data(<<m.dev, n.rid, n.cmd>>, result_data(m), messages)
                ELSE dci_cache' = dci_cache
             /\ outbox' = [outbox EXCEPT ![t] = IF ok THEN capture_event_snapshot(n, m.kind)
                                                ELSE <<>>]
    BY <1>1, Handled
  <1> DEFINE s == Before(i, m.dev)
             n == applied(s, m)
  <1>6. SlotOk(results', s) /\ DOMAIN s = SlotFields
    BY <1>3, BeforeOk, Grown DEF DispatchInv, SlotOk
  <1>7. /\ dci_slots' = [dci_slots EXCEPT ![i] = n] /\ dci_cache' = dci_cache
        /\ outbox' = [outbox EXCEPT ![t] = <<>>]
    BY <1>4, <1>5, <1>6
  <1>8. SlotOk(results', n)
    BY <1>2, <1>4, <1>6 DEF SlotOk
  <1>9. BoxOk(results', <<>>)
    BY EmptyBox
  <1>10. /\ DOMAIN dci_cache' = CacheIndexes
         /\ \A j \in CacheIndexes : EntryOk(results', dci_cache'[j])
    BY <1>3, <1>7, Grown DEF DispatchInv, TablesOk, IngestOk
  <1>11. posted' = posted
    BY <1>1, Handled
  <1> HIDE DEF s, n
  <1> QED  BY <1>1, <1>3, <1>7, <1>8, <1>9, <1>10, <1>11, MessageKept

\* A posted event was in an outbox.
LEMMA PostOk ==
    ASSUME DispatchInv, NEW t \in ClientTasks, post_event(t)
    PROVE  DispatchInv'
  <1>1. /\ outbox[t] # <<>> /\ outbox' = [outbox EXCEPT ![t] = Tail(outbox[t])]
        /\ posted' = posted \cup {e \in {Head(outbox[t])} : e.kind = "result"} \/ posted' = posted
        /\ UNCHANGED <<dci_slots, dci_cache>>
    BY DEF post_event, post
  <1>2. UNCHANGED <<dispatch_queue, caller, owner, sent_commands, results, calls>>
    BY DEF post_event, dvars
  <1>3. BoxOk(results, outbox[t]) /\ DOMAIN outbox = ClientTasks
    BY DEF DispatchInv, IngestOk, TablesOk
  <1> DEFINE b == outbox[t]
             q == Tail(b)
  <1>4. /\ IsSeq(b) /\ Len(b) \in Nat /\ DOMAIN b = 1 .. Len(b) /\ Len(b) # 0
        /\ IsSeq(q) /\ DOMAIN q = 1 .. Len(b) - 1
        /\ \A i \in 1 .. Len(b) - 1 : q[i] = b[i + 1]
    BY <1>1, <1>3, SeqFacts DEF BoxOk
  <1>5. Head(b) = b[1]
    BY <1>1, <1>4, SeqOfFacts DEF IsSeq
  <1>6. \A n \in DOMAIN b : b[n].kind = "result" => Announced(results, b[n])
    BY <1>3 DEF BoxOk
  <1>7. outbox' = [outbox EXCEPT ![t] = q]
    BY <1>1
  <1> HIDE DEF b, q
  <1>8. BoxOk(results, q)
    BY <1>4, <1>6 DEF BoxOk
  <1>9. Head(b).kind = "result" => Announced(results, Head(b))
    BY <1>4, <1>5, <1>6
  <1>10. \A u \in ClientTasks : outbox'[u] \in {outbox[u], q}
    BY <1>3, <1>7
  <1>11. \A u \in ClientTasks : BoxOk(results', outbox'[u])
    BY <1>2, <1>8, <1>10 DEF DispatchInv, IngestOk
  <1>12. \A e \in posted' : Announced(results', e)
    <2>1. posted' \subseteq posted \cup {e \in {Head(b)} : e.kind = "result"}
      BY <1>1 DEF b
    <2> QED  BY <1>2, <1>9, <2>1 DEF DispatchInv, IngestOk
  <1>13. IngestOk'
    BY <1>1, <1>2, <1>11, <1>12 DEF DispatchInv, IngestOk, SlotIndexes, CacheIndexes
  <1>14. TablesOk' /\ RequestsOk'
    BY <1>1, <1>2, <1>3, <1>7 DEF DispatchInv, TablesOk, RequestsOk, SlotIndexes, CacheIndexes
  <1> QED  BY <1>2, <1>13, <1>14 DEF DispatchInv, CallersOk

-----------------------------------------------------------------------------
\* Every step keeps the invariant.
LEMMA NextOk == DispatchInv /\ [DispatchNext]_dispatch_vars => DispatchInv'
  <1> SUFFICES ASSUME DispatchInv, [DispatchNext]_dispatch_vars PROVE DispatchInv'
    OBVIOUS
  <1>1. CASE \E c \in Callers, type \in Types, d \in Devices, y \in BOOLEAN :
               dispatch_call(c, type, d, y)
    BY <1>1, CallOk
  <1>2. CASE \E c \in Callers : caller_returns(c)
    BY <1>2, ReturnOk
  <1>3. CASE OwnerStep
    BY <1>3, TaskOk, ExecuteOk, PollDescribeOk, PollAdminOk, TakeDataOk, DeadlineOk DEF OwnerStep
  <1>4. CASE \E t \in ClientTasks, k \in sent_commands, a \in Answers : device_result(t, k, a)
    BY <1>4, WholeOk, BrokenOk
  <1>5. CASE \E t \in ClientTasks, d \in Devices, r \in Reports : device_report(t, d, r)
    BY <1>5, ReportOk
  <1>6. CASE \E t \in ClientTasks : post_event(t)
    BY <1>6, PostOk
  <1>7. CASE UNCHANGED dispatch_vars
    <2>1. UNCHANGED <<ingest_vars, dispatch_queue, caller, owner, sent_commands, results, calls>>
      BY <1>7 DEF dispatch_vars, dvars
    <2> QED  BY <2>1, OwnerKept DEF DispatchInv, CallersOk, TablesOk
  <1> QED  BY <1>1, <1>2, <1>3, <1>4, <1>5, <1>6, <1>7 DEF DispatchNext

\* scenehub_control_dispatch.c and device_control_ingest.c: the success and the
\* data that a caller of the dispatcher gets, and every result event that is
\* posted, are those of a result a device sent for that very request, however
\* many callers, devices and tasks there are, whatever results arrive late,
\* repeatedly, refused or broken off, and however full the table and the cache.
THEOREM CallersGetTheirOwn == DispatchSpec => []ResultsAreOwn
  <1>1. DispatchInv => ResultsAreOwn
    BY DEF DispatchInv, CallersOk, CallerOk, IngestOk, ResultsAreOwn, Success, Sent, Announced
  <1> QED  BY <1>1, InitOk, NextOk, PTL DEF DispatchSpec
=============================================================================
