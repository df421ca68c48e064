----------------------------- MODULE MqttBroker -----------------------------
(***************************************************************************)
(* The embedded MQTT broker (mqtt_core/): a table of client sessions, one  *)
(* task per session, an accept task, a timer that sweeps idle sessions,    *)
(* the retained messages and the QoS 1 packets that wait for a PUBACK.     *)
(*                                                                         *)
(* s_lock guards the tables; a packet is sent outside it, under the tx     *)
(* lock of the session it goes to.  Between the two a session may be       *)
(* closed by its own task, by a publisher whose send failed, by the sweep  *)
(* or by a second connection with the same client id: each lock section    *)
(* is a step of its own.  A packet has size 1 in the byte budget.          *)
(***************************************************************************)
EXTENDS Integers, Sequences, FiniteSets, SequencesExt

CONSTANTS MQTT_MAX_CLIENTS,
          MQTT_MAX_SUBS,
          MQTT_RETAIN_MAX,
          MQTT_QOS1_MAX_INFLIGHT,
          MQTT_QOS1_MAX_PENDING_BYTES,
          MQTT_QOS1_MAX_SEND_ATTEMPTS,
          QUEST_DEVICE_MAX_DEVICES,
          PID_MAX,    \* the largest packet identifier, UINT16_MAX
          MAX_PUBLISHES, \* bound on the publishes of clients and controller
          Conns,      \* TCP connections that are ever made
          ConnectOf,  \* ConnectOf[c]: the CONNECT packet c sends
          Static,     \* k_acl: static client id -> [pub, sub] prefixes
          Topics, Filters, \* topics and filters, as sequences of levels
          Publishes,  \* what is published: [topic, qos, retain, empty]
          Subscribes, \* what is subscribed to: [filter, qos]
          Nil         \* no socket, no client id, no will, no task

VARIABLES sess,     \* s_sessions
          pc,       \* pc[s]: where the client task of slot s is
          tx,       \* tx[s]: the task that holds the slot's tx_lock
          pending,  \* pending[s][i]: entry i of the slot's qos1_pending
          bytes,    \* s_qos1_pending_bytes
          retained, \* s_retain: topic -> QoS of the stored message
          retain_lock, \* s_retain_delivery_lock
          next_pid, \* s_next_packet_id
          job,      \* job[p]: what task p is publishing, and to whom
          fresh,    \* connections not made yet
          published \* publishes so far, up to MAX_PUBLISHES

broker_vars == <<sess, pc, tx, pending, bytes, retained, retain_lock, next_pid, job,
                 fresh, published>>

Slots == 1 .. MQTT_MAX_CLIENTS
Packets == 1 .. MQTT_QOS1_MAX_INFLIGHT
Hub == 0                       \* a controller task in mqtt_core_publish
Tasks == Slots \cup {Hub}

(* Nil is none of the things it stands for the absence of; topics and     *)
(* filters are sequences of levels.                                       *)
ASSUME BrokerAssumption ==
    /\ MQTT_MAX_CLIENTS \in Nat /\ MQTT_QOS1_MAX_INFLIGHT \in Nat
    /\ Nil \notin Tasks /\ Nil \notin Conns /\ Nil \notin DOMAIN Static
    /\ Topics \subseteq Seq(STRING)
    /\ \A m \in Publishes : m.topic \in Seq(STRING)
    /\ \A u \in Subscribes : u.filter \in Seq(STRING)
    /\ \A c \in Conns : \/ ConnectOf[c].will = Nil
                         \/ ConnectOf[c].will.topic \in Seq(STRING)

FreeSession == [sock |-> Nil, active |-> FALSE, closing |-> FALSE,
                retiring |-> FALSE, suppress_will |-> FALSE,
                client_id |-> Nil, subs |-> <<>>, will |-> Nil]

NoJob == [stage |-> "none", topic |-> Nil, todo |-> <<>>, at |-> 0,
          left |-> {}, qos |-> 0]

FreeEntry == [in_use |-> FALSE, pid |-> 0, sent |-> 0]
NoPackets == [i \in Packets |-> FreeEntry]

BrokerInit ==
    /\ sess = [s \in Slots |-> FreeSession]
    /\ pc = [s \in Slots |-> "none"]
    /\ tx = [s \in Slots |-> Nil]
    /\ pending = [s \in Slots |-> NoPackets]
    /\ bytes = 0
    /\ retained = <<>>
    /\ retain_lock = Nil
    /\ next_pid = 0
    /\ job = [p \in Tasks |-> NoJob]
    /\ fresh = Conns
    /\ published = 0
-----------------------------------------------------------------------------
(* The numbers of S in ascending order: the one sequence of this set *)
Ascending(S) ==
    {q \in [1 .. Cardinality(S) -> S] : \A i, j \in DOMAIN q : i < j => q[i] < q[j]}

(* Topics, filters and access rights *)

topic_matches_filter(f, t) ==
    LET n == Len(f) IN
    IF n > 0 /\ f[n] = "#"
    THEN /\ Len(t) >= n - 1
         /\ \A i \in 1 .. n - 1 : f[i] \in {"+", t[i]}
    ELSE /\ Len(t) = n
         /\ \A i \in 1 .. n : f[i] \in {"+", t[i]}

extract_contract_device_id(t) ==
    IF Len(t) > 4 /\ SubSeq(t, 1, 3) = <<"cp", "v1", "dev">> THEN t[4] ELSE Nil

(* The device a client id stands for: itself, or its "dcc-" form. *)
acl_can_access_self_contract(cid, t) ==
    /\ cid # Nil
    /\ extract_contract_device_id(t) = cid

Broadcast == <<"cp", "v1", "dev", "all", "control", "command">>

acl_can_publish(cid, t) ==
    \/ acl_can_access_self_contract(cid, t)
    \/ cid \in DOMAIN Static /\ IsPrefix(Static[cid].pub, t)

acl_can_subscribe_any(cid, f) == cid # Nil

acl_can_subscribe(cid, f) ==
    \/ acl_can_access_self_contract(cid, f)
    \/ f = Broadcast /\ cid # Nil
    \/ cid \in DOMAIN Static /\ IsPrefix(Static[cid].sub, f)

(* The k-th packet identifier from now on; zero is skipped. *)
mqtt_next_packet_id(k) == ((next_pid + k - 1) % PID_MAX) + 1

Least(a, b) == IF a < b THEN a ELSE b
mqtt_effective_delivery_qos(pub, sub) == Least(Least(pub, 1), Least(sub, 1))
-----------------------------------------------------------------------------
(* Sessions *)

mqtt_is_device_contract_client_id(cid) == cid \notin DOMAIN Static

Live(s) == sess[s].active /\ ~sess[s].closing /\ ~sess[s].retiring
Named(s, cid) == Live(s) /\ sess[s].client_id = cid

(* The first session of the client, as a set of at most one *)
find_session_by_client_id(cid) ==
    {s \in Slots : Named(s, cid) /\ \A r \in 1 .. s - 1 : ~Named(r, cid)}

(* With a session of the same client to replace, that client is not counted. *)
mqtt_device_client_capacity_available(cid, old) ==
    mqtt_is_device_contract_client_id(cid) =>
        Cardinality({s \in Slots :
            /\ Live(s) /\ sess[s].client_id # Nil
            /\ mqtt_is_device_contract_client_id(sess[s].client_id)
            /\ ~(old # {} /\ sess[s].client_id = cid)}) < QUEST_DEVICE_MAX_DEVICES

request_session_prepare_close(x) ==
    [x EXCEPT !.closing = TRUE, !.subs = <<>>, !.sock = Nil]

TakenOver(x) == [request_session_prepare_close(x) EXCEPT !.suppress_will = TRUE]

(* A sender closes the session it failed to send to, if it is still there. *)
request_session_close_if_current(t) ==
    IF sess[t.slot].active /\ sess[t.slot].sock = t.sock
    THEN [sess EXCEPT ![t.slot].closing = TRUE, ![t.slot].sock = Nil]
    ELSE sess

(* The first free slot, once the retired slots whose delay is over are back. *)
alloc_session(over) ==
    {s \in Slots : /\ ~sess[s].active /\ (sess[s].retiring => s \in over)
                   /\ \A r \in 1 .. s - 1 :
                          sess[r].active \/ (sess[r].retiring /\ r \notin over)}

accept_task(c, over) ==
    /\ c \in fresh
    /\ fresh' = fresh \ {c}
    /\ LET reaped == [s \in Slots |->
               IF s \in over THEN [sess[s] EXCEPT !.retiring = FALSE] ELSE sess[s]]
       IN  \/ \E s \in alloc_session(over) :
                 /\ sess' = [reaped EXCEPT ![s] =
                       [FreeSession EXCEPT !.active = TRUE, !.sock = c]]
                 /\ pending' = [pending EXCEPT ![s] = NoPackets]
                 /\ pc' = [pc EXCEPT ![s] = "connect"]
           \/ /\ alloc_session(over) = {}     \* evict_duplicate_client_from_full_pool
              /\ LET old == find_session_by_client_id(ConnectOf[c].client_id) IN
                 sess' = [s \in Slots |->
                            IF s \in old THEN TakenOver(reaped[s]) ELSE reaped[s]]
              /\ UNCHANGED <<pending, pc>>
    /\ UNCHANGED <<tx, bytes, retained, retain_lock, next_pid, job, published>>

(* The old session goes and the client id is written in one lock section;  *)
(* the will is stored before the credentials are looked at.                *)
handle_connect_late_id(s) ==    \* two lock sections would let a twin through
    /\ pc[s] = "connect" /\ sess[s].sock # Nil
    /\ LET con == ConnectOf[sess[s].sock]
       IN  /\ sess' = [sess EXCEPT ![s].client_id = con.client_id, ![s].will = con.will]
           /\ pc' = [pc EXCEPT ![s] = "loop"]
    /\ UNCHANGED <<tx, pending, bytes, retained, retain_lock, next_pid, job, fresh, published>>

handle_connect(s) ==
    /\ pc[s] = "connect" /\ sess[s].sock # Nil
    /\ LET con == ConnectOf[sess[s].sock]
           old == find_session_by_client_id(con.client_id)
       IN  IF mqtt_device_client_capacity_available(con.client_id, old)
           THEN /\ sess' = [r \in Slots |->
                     IF r = s THEN [sess[s] EXCEPT !.client_id = con.client_id,
                                                   !.will = con.will]
                     ELSE IF r \in old THEN TakenOver(sess[r]) ELSE sess[r]]
                /\ pc' = [pc EXCEPT ![s] = IF con.auth THEN "loop" ELSE "cleanup"]
           ELSE sess' = sess /\ pc' = [pc EXCEPT ![s] = "cleanup"]
    /\ UNCHANGED <<tx, pending, bytes, retained, retain_lock, next_pid, job, fresh, published>>

Idle(s) == pc[s] = "loop" /\ job[s].stage = "none"

(* The loop ends: unreadable packet, lost connection, keepalive over, an    *)
(* unsupported type, a send that fails, or a socket another task has closed. *)
client_fails(s) ==
    /\ pc[s] = "connect" \/ Idle(s)
    /\ pc' = [pc EXCEPT ![s] = "cleanup"]
    /\ UNCHANGED <<sess, tx, pending, bytes, retained, retain_lock, next_pid, job, fresh, published>>

handle_disconnect(s) ==
    /\ Idle(s) /\ sess[s].sock # Nil
    /\ sess' = [sess EXCEPT ![s].suppress_will = TRUE]
    /\ pc' = [pc EXCEPT ![s] = "cleanup"]
    /\ UNCHANGED <<tx, pending, bytes, retained, retain_lock, next_pid, job, fresh, published>>

sweep_idle_sessions(s) ==
    /\ sess[s].active
    /\ sess' = [sess EXCEPT ![s] = request_session_prepare_close(sess[s])]
    /\ UNCHANGED <<pc, tx, pending, bytes, retained, retain_lock, next_pid, job, fresh, published>>

mqtt_upsert_subscription(subs, f, q) ==
    LET known == {i \in DOMAIN subs : subs[i].filter = f}
        entry == [filter |-> f, qos |-> Least(q, 1)]
    IN  IF known # {} THEN [i \in DOMAIN subs |-> IF i \in known THEN entry ELSE subs[i]]
        ELSE IF Len(subs) < MQTT_MAX_SUBS THEN Append(subs, entry) ELSE subs

(* Subscribing delivers the retained messages one by one, under a lock of   *)
(* their own, before the SUBACK.                                            *)
handle_subscribe(s, f, q) ==
    /\ Idle(s) /\ sess[s].sock # Nil
    /\ acl_can_subscribe(sess[s].client_id, f)
    /\ LET subs == mqtt_upsert_subscription(sess[s].subs, f, q) IN
       /\ sess' = [sess EXCEPT ![s].subs = subs]
       /\ IF \E i \in DOMAIN subs : subs[i].filter = f
          THEN /\ retain_lock = Nil /\ retain_lock' = s
               /\ job' = [job EXCEPT ![s] = [NoJob EXCEPT
                     !.stage = "retained", !.qos = Least(q, 1),
                     !.left = {t \in Topics : topic_matches_filter(f, t)}]]
          ELSE UNCHANGED <<retain_lock, job>>
    /\ UNCHANGED <<pc, tx, pending, bytes, retained, next_pid, fresh, published>>

handle_unsubscribe(s, f) ==
    /\ Idle(s) /\ sess[s].sock # Nil
    /\ LET subs == sess[s].subs IN
       \E kept \in Ascending({i \in DOMAIN subs : subs[i].filter # f}) :
           sess' = [sess EXCEPT ![s].subs = [i \in DOMAIN kept |-> subs[kept[i]]]]
    /\ UNCHANGED <<pc, tx, pending, bytes, retained, retain_lock, next_pid, job, fresh, published>>
-----------------------------------------------------------------------------
(* Publishing: targets are chosen under s_lock, packets sent outside it. *)

retain_store(t, empty, q) ==
    IF empty THEN [u \in DOMAIN retained \ {t} |-> retained[u]]
    ELSE IF t \in DOMAIN retained \/ Cardinality(DOMAIN retained) < MQTT_RETAIN_MAX
    THEN [u \in DOMAIN retained \cup {t} |-> IF u = t THEN q ELSE retained[u]]
    ELSE retained

FirstMatch(subs, t) ==
    SelectInSeq(subs, LAMBDA x : topic_matches_filter(x.filter, t))

publish_to_subscribers(p, t, q, retain, empty, exclude) ==
    \E chosen \in Ascending({s \in Slots :
            /\ sess[s].active /\ ~sess[s].closing /\ sess[s].sock # Nil
            /\ s # exclude /\ FirstMatch(sess[s].subs, t) # 0}) :
    LET QosOf(s) == mqtt_effective_delivery_qos(q,
                        sess[s].subs[FirstMatch(sess[s].subs, t)].qos)
        Before(i) == Cardinality({j \in 1 .. i : QosOf(chosen[j]) = 1})
        n == Before(Len(chosen))
    IN  /\ next_pid' = IF n = 0 THEN next_pid ELSE mqtt_next_packet_id(n)
        /\ retained' = IF retain THEN retain_store(t, empty, q) ELSE retained
        /\ job' = [job EXCEPT ![p] = [NoJob EXCEPT !.stage = "publish", !.topic = t,
             !.todo = [i \in DOMAIN chosen |->
                 [slot |-> chosen[i], sock |-> sess[chosen[i]].sock,
                  qos |-> QosOf(chosen[i]),
                  pid |-> IF QosOf(chosen[i]) = 1 THEN mqtt_next_packet_id(Before(i)) ELSE 0]]]]

(* A denied publish is acknowledged and dropped; the others are handed to   *)
(* the controller (mqtt_core_inject_message) and to the subscribers.        *)
handle_publish(s, t, q, retain, empty) ==
    /\ Idle(s) /\ sess[s].sock # Nil
    /\ acl_can_publish(sess[s].client_id, t)
    /\ publish_to_subscribers(s, t, q, retain, empty, Nil)
    /\ published < MAX_PUBLISHES /\ published' = published + 1
    /\ UNCHANGED <<sess, pc, tx, pending, bytes, retain_lock, fresh>>

(* mqtt_core_publish_qos, from a controller task or from the event bridge. *)
mqtt_core_publish_qos(t, q) ==
    /\ job[Hub].stage = "none"
    /\ publish_to_subscribers(Hub, t, q, FALSE, FALSE, Nil)
    /\ published < MAX_PUBLISHES /\ published' = published + 1
    /\ UNCHANGED <<sess, pc, tx, pending, bytes, retain_lock, fresh>>

Target(p) == job[p].todo[1]
Current(t) == sess[t.slot].active /\ ~sess[t.slot].closing /\ sess[t.slot].sock = t.sock

(* After a target: the next one; a retained delivery that failed is the last. *)
Next1(p, ok) ==
    [job EXCEPT ![p].stage = IF retain_lock = p THEN "retained" ELSE "publish",
                ![p].at = 0, ![p].todo = Tail(@),
                ![p].left = IF ok THEN @ ELSE {}]

(* An entry that waits, and the first free one (a set of at most one) *)
InUse(s, i) == pending[s][i].in_use
first_free(s) == {i \in Packets : ~InUse(s, i) /\ \A j \in 1 .. i - 1 : InUse(s, j)}

(* Entry i still holds the packet: the buffer is told by its identifier. *)
Holds(s, i, pid) == i \in Packets /\ InUse(s, i) /\ pending[s][i].pid = pid

(* send_qos1_publish_to_session_slot, first lock section *)
reserve_qos1(p) ==
    /\ job[p].stage = "publish" /\ job[p].todo # <<>> /\ Target(p).qos = 1
    /\ LET t == Target(p) IN
       \/ /\ ~Current(t) \/ bytes + 1 > MQTT_QOS1_MAX_PENDING_BYTES
          /\ job' = Next1(p, FALSE) /\ UNCHANGED <<pending, bytes>>
       \/ /\ Current(t) /\ bytes + 1 <= MQTT_QOS1_MAX_PENDING_BYTES
          /\ first_free(t.slot) = {}
          /\ job' = Next1(p, TRUE) /\ UNCHANGED <<pending, bytes>>
       \/ /\ Current(t) /\ bytes + 1 <= MQTT_QOS1_MAX_PENDING_BYTES
          /\ \E i \in first_free(t.slot) :
                /\ pending' = [pending EXCEPT ![t.slot][i] =
                                  [in_use |-> TRUE, pid |-> t.pid, sent |-> 0]]
                /\ job' = [job EXCEPT ![p].stage = "reserved", ![p].at = i]
          /\ bytes' = bytes + 1
    /\ UNCHANGED <<sess, pc, tx, retained, retain_lock, next_pid, fresh, published>>

(* The tx lock is taken and the session looked at again. *)
take_tx_lock(p) ==
    /\ \/ job[p].stage = "reserved"
       \/ job[p].stage = "publish" /\ job[p].todo # <<>> /\ Target(p).qos = 0
    /\ LET t == Target(p)
           still == Current(t) /\ (t.qos = 1 => Holds(t.slot, job[p].at, t.pid))
       IN  /\ tx[t.slot] = Nil
           /\ tx' = IF still THEN [tx EXCEPT ![t.slot] = p] ELSE tx
           /\ job' = IF still THEN [job EXCEPT ![p].stage = "sending"]
                              ELSE Next1(p, FALSE)
    /\ UNCHANGED <<sess, pc, pending, bytes, retained, retain_lock, next_pid, fresh, published>>

(* The outcome of the send: a QoS 1 packet that was not sent at all stays    *)
(* for a later retry; part of a packet ends the session.                    *)
send_publish(p, rc) ==
    /\ job[p].stage = "sending"
    /\ LET t == Target(p) IN
       /\ tx' = [tx EXCEPT ![t.slot] = Nil]
       /\ pending' = IF rc = "sent" /\ t.qos = 1 /\ Current(t)
                        /\ Holds(t.slot, job[p].at, t.pid)
                     THEN [pending EXCEPT ![t.slot][job[p].at].sent = 1]
                     ELSE pending
       /\ sess' = IF rc = "partial" \/ (rc = "failed" /\ t.qos = 0)
                  THEN request_session_close_if_current(t) ELSE sess
       /\ job' = Next1(p, rc = "sent" \/ (rc = "failed" /\ t.qos = 1))
    /\ UNCHANGED <<pc, bytes, retained, retain_lock, next_pid, fresh, published>>

(* The next retained message that matches, or the end of the list. *)
deliver_retain(s) ==
    /\ job[s].stage = "retained" /\ job[s].todo = <<>>
    /\ IF job[s].left = {}
       THEN /\ retain_lock' = Nil
            /\ job' = [job EXCEPT ![s] = NoJob]
            /\ UNCHANGED next_pid
       ELSE \E t \in job[s].left :
            /\ UNCHANGED retain_lock
            /\ IF t \in DOMAIN retained
               THEN LET q == mqtt_effective_delivery_qos(retained[t], job[s].qos) IN
                    /\ next_pid' = IF q = 0 THEN next_pid ELSE mqtt_next_packet_id(1)
                    /\ job' = [job EXCEPT ![s].stage = "publish",
                         ![s].topic = t, ![s].left = @ \ {t},
                         ![s].todo = <<[slot |-> s, sock |-> sess[s].sock, qos |-> q,
                                        pid |-> IF q = 1 THEN mqtt_next_packet_id(1) ELSE 0]>>]
               ELSE job' = [job EXCEPT ![s].left = @ \ {t}] /\ UNCHANGED next_pid
    /\ UNCHANGED <<sess, pc, tx, pending, bytes, retained, fresh, published>>

publish_done(p) ==
    /\ job[p].stage = "publish" /\ job[p].todo = <<>> /\ retain_lock # p
    /\ job' = [job EXCEPT ![p] = NoJob]
    /\ UNCHANGED <<sess, pc, tx, pending, bytes, retained, retain_lock, next_pid, fresh, published>>
-----------------------------------------------------------------------------
(* QoS 1: acknowledgement and retry, by the session's own task *)

(* mqtt_qos1_free_entry_locked, for n packets *)
Released(n) == IF bytes >= n THEN bytes - n ELSE 0

(* The first entry with the identifier, as a set of at most one *)
acknowledged(s, pid) ==
    {i \in Packets : Holds(s, i, pid) /\ \A j \in 1 .. i - 1 : ~Holds(s, j, pid)}

puback_without_tx_lock(s, pid) ==
    /\ Idle(s) /\ sess[s].sock # Nil
    /\ \E i \in acknowledged(s, pid) : pending' = [pending EXCEPT ![s][i] = FreeEntry]
    /\ bytes' = Released(1)
    /\ UNCHANGED <<sess, pc, tx, retained, retain_lock, next_pid, job, fresh, published>>

mqtt_qos1_handle_puback(s, pid) ==
    /\ Idle(s) /\ sess[s].sock # Nil
    /\ tx[s] = Nil
    /\ \E i \in acknowledged(s, pid) : pending' = [pending EXCEPT ![s][i] = FreeEntry]
    /\ bytes' = Released(1)
    /\ UNCHANGED <<sess, pc, tx, retained, retain_lock, next_pid, job, fresh, published>>

handle_puback(s, pid) == mqtt_qos1_handle_puback(s, pid)

(* An entry is due: resend it, or give the client up after its last attempt. *)
mqtt_qos1_retry_due(s, i) ==
    /\ Idle(s) /\ tx[s] = Nil
    /\ sess[s].active /\ ~sess[s].closing /\ sess[s].sock # Nil
    /\ InUse(s, i)
    /\ LET e == pending[s][i]
           t == [slot |-> s, sock |-> sess[s].sock, qos |-> 1, pid |-> e.pid] IN
       IF e.sent >= MQTT_QOS1_MAX_SEND_ATTEMPTS
       THEN sess' = request_session_close_if_current(t) /\ UNCHANGED <<tx, job>>
       ELSE /\ tx' = [tx EXCEPT ![s] = s]
            /\ job' = [job EXCEPT ![s] = [NoJob EXCEPT !.stage = "retry",
                                          !.todo = <<t>>, !.at = i]]
            /\ sess' = sess
    /\ UNCHANGED <<pc, pending, bytes, retained, retain_lock, next_pid, fresh, published>>

retry_sent(s, rc) ==
    /\ job[s].stage = "retry"
    /\ LET t == Target(s) IN
       /\ tx' = [tx EXCEPT ![s] = Nil]
       /\ sess' = IF rc = "partial" THEN request_session_close_if_current(t) ELSE sess
       /\ pending' = IF rc = "sent" /\ Current(t) /\ Holds(s, job[s].at, t.pid)
                     THEN [pending EXCEPT ![s][job[s].at].sent = @ + 1]
                     ELSE pending
       /\ job' = [job EXCEPT ![s] = NoJob]
    /\ UNCHANGED <<pc, bytes, retained, retain_lock, next_pid, fresh, published>>
-----------------------------------------------------------------------------
(* The end of a session, by its own task *)

send_will_if_needed(s) ==
    /\ pc[s] = "cleanup" /\ job[s].stage = "none"
    /\ pc' = [pc EXCEPT ![s] = "free"]
    /\ IF sess[s].will # Nil /\ ~sess[s].suppress_will
       THEN LET w == sess[s].will IN
            publish_to_subscribers(s, w.topic, w.qos, w.retain, FALSE, s)
       ELSE UNCHANGED <<next_pid, retained, job>>
    /\ UNCHANGED <<sess, tx, pending, bytes, retain_lock, fresh, published>>

(* free_session, first lock section, under the tx lock *)
free_session_clear(s) ==
    /\ pc[s] = "free" /\ job[s].stage = "none" /\ tx[s] = Nil
    /\ bytes' = Released(Cardinality({i \in Packets : InUse(s, i)}))
    /\ pending' = [pending EXCEPT ![s] = NoPackets]
    /\ sess' = [sess EXCEPT ![s].sock = Nil, ![s].closing = TRUE,
                  ![s].suppress_will = TRUE, ![s].subs = <<>>, ![s].will = Nil]
    /\ pc' = [pc EXCEPT ![s] = "retire"]
    /\ UNCHANGED <<tx, retained, retain_lock, next_pid, job, fresh, published>>

free_session_keeps_pending(s) ==
    /\ pc[s] = "free" /\ job[s].stage = "none" /\ tx[s] = Nil
    /\ sess' = [sess EXCEPT ![s].sock = Nil, ![s].closing = TRUE,
                  ![s].suppress_will = TRUE, ![s].subs = <<>>, ![s].will = Nil]
    /\ pc' = [pc EXCEPT ![s] = "retire"]
    /\ UNCHANGED <<tx, pending, bytes, retained, retain_lock, next_pid, job, fresh, published>>

free_session(s) == free_session_clear(s)

free_session_forgotten(s) ==
    /\ pc[s] = "retire" /\ FALSE
    /\ UNCHANGED broker_vars

free_session_retire(s) ==
    /\ pc[s] = "retire"
    /\ sess' = [sess EXCEPT ![s].active = FALSE, ![s].closing = FALSE,
                            ![s].retiring = TRUE]
    /\ pc' = [pc EXCEPT ![s] = "none"]
    /\ UNCHANGED <<tx, pending, bytes, retained, retain_lock, next_pid, job, fresh, published>>
-----------------------------------------------------------------------------
Results == {"sent", "partial", "failed"}

SenderStep(p) ==
    \/ reserve_qos1(p) \/ take_tx_lock(p) \/ publish_done(p)
    \/ \E rc \in Results : send_publish(p, rc)

CleanupStep(s) == send_will_if_needed(s) \/ free_session(s) \/ free_session_retire(s)

ClientStep(s) ==
    \/ handle_connect(s) \/ client_fails(s) \/ handle_disconnect(s)
    \/ \E u \in Subscribes : handle_subscribe(s, u.filter, u.qos)
    \/ \E f \in Filters : handle_unsubscribe(s, f)
    \/ \E m \in Publishes : handle_publish(s, m.topic, m.qos, m.retain, m.empty)
    \/ \E pid \in 1 .. PID_MAX : handle_puback(s, pid)
    \/ \E i \in Packets : mqtt_qos1_retry_due(s, i)
    \/ \E rc \in Results : retry_sent(s, rc)
    \/ deliver_retain(s)
    \/ CleanupStep(s)

BrokerNext ==
    \/ \E c \in Conns, over \in SUBSET {s \in Slots : sess[s].retiring} : accept_task(c, over)
    \/ \E s \in Slots : ClientStep(s) \/ sweep_idle_sessions(s)
    \/ \E p \in Tasks : SenderStep(p)
    \/ \E m \in Publishes : mqtt_core_publish_qos(m.topic, m.qos)

BrokerSpec == BrokerInit /\ [][BrokerNext]_broker_vars
-----------------------------------------------------------------------------

(* A client id belongs to one live session at most, however connections,    *)
(* take-overs and evictions interleave: publishing to it reaches one socket. *)
OneSessionPerClient ==
    \A r, s \in Slots : Live(r) /\ Live(s) /\ sess[r].client_id = sess[s].client_id
                        /\ sess[r].client_id # Nil => r = s

(* A QoS 1 packet is not freed while some task is sending it: PUBACK, and   *)
(* the session's end, wait for the tx lock.                                  *)
PacketHeldWhileSent ==
    \A p \in Tasks :
        \/ job[p].stage \in {"sending"} /\ Target(p).qos = 1
        \/ job[p].stage = "retry"
        => Holds(Target(p).slot, job[p].at, Target(p).pid)

(* s_qos1_pending_bytes is the size of the packets that really wait.  A leak *)
(* would, in time, stop every QoS 1 delivery of the broker.                  *)
Waiting == {x \in Slots \X Packets : InUse(x[1], x[2])}

BudgetExact == bytes = Cardinality(Waiting)

(* A client that is no static one is sent nothing but the topics of its own *)
(* contract, cp/v1/dev/<id> and below, and the broadcast command, through    *)
(* any filter and any take-over.                                             *)
Contract(cid) == <<"cp", "v1", "dev", cid>>

Cleared(cid, t) ==
    \/ cid \in DOMAIN Static
    \/ t = Broadcast
    \/ Len(t) >= 4 /\ \A i \in 1 .. 4 : t[i] = Contract(cid)[i]

IsolatedDelivery ==
    \A p \in Tasks : job[p].stage = "sending" =>
        Cleared(ConnectOf[Target(p).sock].client_id, job[p].topic)
=============================================================================
