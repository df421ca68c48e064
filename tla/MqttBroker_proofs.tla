-------------------------- MODULE MqttBroker_proofs --------------------------
(***************************************************************************)
(* For any number of slots, connections, clients, topics and filters, any   *)
(* limits and any interleaving of the broker's tasks:                       *)
(*   - a client id belongs to at most one live session;                     *)
(*   - a QoS 1 packet stays in its table while a task sends it;             *)
(*   - the byte budget counts exactly the QoS 1 packets that wait;          *)
(*   - a device is sent its own contract's topics and the broadcast only.   *)
(***************************************************************************)
EXTENDS MqttBroker, SeqLemmas, FiniteSetTheorems, TLAPS

Places == {"none", "connect", "loop", "cleanup", "free", "retire"}
Stages == {"none", "publish", "reserved", "sending", "retained", "retry"}
SessionFields == {"sock", "active", "closing", "retiring", "suppress_will",
                  "client_id", "subs", "will"}
JobFields == {"stage", "topic", "todo", "at", "left", "qos"}

-----------------------------------------------------------------------------
(* The shape of the tables *)

IsSession(x) ==
    /\ DOMAIN x = SessionFields
    /\ x.active \in BOOLEAN /\ x.closing \in BOOLEAN /\ x.retiring \in BOOLEAN

IsJob(j) ==
    /\ DOMAIN j = JobFields
    /\ j.stage \in Stages
    /\ IsSeq(j.todo)
    /\ \A i \in DOMAIN j.todo : j.todo[i].slot \in Slots
    /\ j.stage \in {"reserved", "sending", "retry"} => j.todo # <<>>

IsEntry(e) == DOMAIN e = {"in_use", "pid", "sent"} /\ e.in_use \in BOOLEAN
IsTable(q) == DOMAIN q = Packets /\ \A i \in Packets : IsEntry(q[i])

SessionShape == DOMAIN sess = Slots /\ \A s \in Slots : IsSession(sess[s])
JobShape == DOMAIN job = Tasks /\ \A p \in Tasks : IsJob(job[p])
TaskShape == /\ DOMAIN pc = Slots /\ \A s \in Slots : pc[s] \in Places
             /\ DOMAIN tx = Slots
             /\ DOMAIN pending = Slots /\ \A s \in Slots : IsTable(pending[s])

Shape == SessionShape /\ JobShape /\ TaskShape

-----------------------------------------------------------------------------
(* Sessions *)

(* A slot that waits for its reuse is not in use, one whose task has ended  *)
(* is not active, and one whose task is about to end is closing.            *)
LifeOk(s) == /\ sess[s].retiring => ~sess[s].active
             /\ sess[s].active <=> pc[s] # "none"
             /\ pc[s] = "retire" => sess[s].closing

SlotLife == \A s \in Slots : LifeOk(s)

-----------------------------------------------------------------------------
(* Packets *)

(* The task that sends to a session holds its tx lock, and no task holds    *)
(* the lock of a session that is over.                                      *)
PacketOk(p) ==
    /\ job[p].stage = "sending" =>
          /\ tx[Target(p).slot] = p
          /\ Target(p).qos = 1 => Holds(Target(p).slot, job[p].at, Target(p).pid)
    /\ job[p].stage = "retry" =>
          /\ p \in Slots /\ Target(p).slot = p
          /\ tx[p] = p
          /\ Holds(p, job[p].at, Target(p).pid)

LocksFree == \A s \in Slots : pc[s] \in {"none", "retire"} => tx[s] = Nil

PacketInv == LocksFree /\ \A p \in Tasks : PacketOk(p)

-----------------------------------------------------------------------------
(* Isolation *)

(* A session in use has a socket, and its client id is the one that the     *)
(* connection behind the socket gave.                                       *)
SocketOk(s) ==
    /\ sess[s].active /\ ~sess[s].closing => sess[s].sock # Nil
    /\ sess[s].sock # Nil =>
          /\ sess[s].sock \in Conns
          /\ sess[s].client_id \in {Nil, ConnectOf[sess[s].sock].client_id}

Sockets == \A s \in Slots : SocketOk(s)

(* Every filter of a session was accepted for its client; before CONNECT    *)
(* there is none.                                                           *)
FilterOk(s) ==
    /\ IsSeq(sess[s].subs)
    /\ \A i \in DOMAIN sess[s].subs :
          /\ sess[s].subs[i].filter \in Seq(STRING)
          /\ acl_can_subscribe(sess[s].client_id, sess[s].subs[i].filter)
    /\ pc[s] = "connect" => sess[s].subs = <<>>

Filtered == \A s \in Slots : FilterOk(s)

(* A will is Nil or has a topic. *)
WillOk(s) == sess[s].will = Nil \/ sess[s].will.topic \in Seq(STRING)

Wills == \A s \in Slots : WillOk(s)

(* A task publishes from its loop or at its end; the retained messages it   *)
(* still has to deliver, and the targets it still has to send to, are ones  *)
(* its subscriber, or the target, may see.                                  *)
MaySee(cid, t) == cid # Nil /\ Cleared(cid, t)

JobOk(p) ==
    /\ job[p].stage = "none" => job[p] = NoJob
    /\ p \in Slots /\ pc[p] \in {"none", "connect", "cleanup", "retire"}
          => job[p].stage = "none"
    /\ p \in Slots => \A t \in job[p].left : MaySee(sess[p].client_id, t)
    /\ job[p].stage # "retry" =>
          \A i \in DOMAIN job[p].todo : job[p].todo[i].sock # Nil =>
              MaySee(ConnectOf[job[p].todo[i].sock].client_id, job[p].topic)
    /\ job[p].stage = "sending" => Target(p).sock # Nil

JobsInv == \A p \in Tasks : JobOk(p)

IsolationInv == Sockets /\ Filtered /\ Wills /\ JobsInv

Base == Shape /\ SlotLife

-----------------------------------------------------------------------------
(* How sessions change *)

(* What a step may do to a session that it neither opens, names nor retires *)
Follows(x, y) ==
    /\ IsSession(y)
    /\ y.active = x.active /\ y.client_id = x.client_id
    /\ y.retiring = x.retiring \/ ~(y.retiring \/ x.active)
    /\ x.closing => y.closing
    /\ y.sock = x.sock \/ (y.sock = Nil /\ y.closing)
    /\ y.will \in {x.will, Nil}

(* and what its task may do meanwhile *)
Moves(s) ==
    /\ pc'[s] \in Places
    /\ \/ pc'[s] = pc[s]
       \/ pc[s] # "none" /\ pc'[s] \in {"cleanup", "free"}
       \/ pc[s] # "none" /\ pc'[s] = "retire" /\ sess'[s].closing

Gentle ==
    /\ DOMAIN sess' = Slots /\ DOMAIN pc' = Slots
    /\ \A s \in Slots : Follows(sess[s], sess'[s]) /\ Moves(s)

Unsubscribed == \A s \in Slots : sess'[s].subs \in {sess[s].subs, <<>>}

\* A session that is unchanged
LEMMA Stays ==
    ASSUME NEW x, IsSession(x)
    PROVE  Follows(x, x)
  BY DEF Follows

\* request_session_prepare_close, a take-over and request_session_close_if_current,
\* on the session they close
LEMMA Closes ==
    ASSUME NEW x, IsSession(x)
    PROVE  /\ Follows(x, request_session_prepare_close(x))
           /\ Follows(x, TakenOver(x))
           /\ Follows(x, [x EXCEPT !.closing = TRUE, !.sock = Nil])
  BY DEF Follows, IsSession, SessionFields, request_session_prepare_close, TakenOver

\* request_session_close_if_current changes one session, or none.
LEMMA CloseIfCurrent ==
    ASSUME Shape, NEW t, t.slot \in Slots,
           sess' = request_session_close_if_current(t), pc' = pc
    PROVE  Gentle /\ Unsubscribed
  <1>1. CASE sess' = sess
    BY <1>1, Stays DEF Shape, SessionShape, TaskShape, Gentle, Unsubscribed, Moves
  <1>2. CASE sess' = [sess EXCEPT ![t.slot].closing = TRUE, ![t.slot].sock = Nil]
    <2> DEFINE x == sess[t.slot]
    <2>1. DOMAIN sess' = Slots /\ \A s \in Slots : s # t.slot => sess'[s] = sess[s]
      BY <1>2 DEF Shape, SessionShape
    <2>2. sess'[t.slot] = [x EXCEPT !.closing = TRUE, !.sock = Nil]
      BY <1>2 DEF Shape, SessionShape
    <2>3. IsSession(x)
      BY DEF Shape, SessionShape
    <2>4. Follows(x, sess'[t.slot]) /\ sess'[t.slot].subs = x.subs
      BY <2>2, <2>3, Closes DEF IsSession, SessionFields
    <2>5. \A s \in Slots : Follows(sess[s], sess'[s]) /\ sess'[s].subs = sess[s].subs
      BY <2>1, <2>4, Stays DEF Shape, SessionShape
    <2> QED
      BY <2>1, <2>5 DEF Gentle, Unsubscribed, Moves, Shape, TaskShape
  <1> QED
    BY <1>1, <1>2 DEF request_session_close_if_current

\* Filters that stay, or are dropped with the session
LEMMA FilterKept ==
    ASSUME NEW s \in Slots, FilterOk(s), sess'[s].client_id = sess[s].client_id,
           pc'[s] = "connect" => pc[s] = "connect",
           sess'[s].subs \in {sess[s].subs, <<>>}
    PROVE  FilterOk(s)'
  <1> SUFFICES /\ IsSeq(sess'[s].subs)
               /\ \A i \in DOMAIN sess'[s].subs :
                     /\ sess'[s].subs[i].filter \in Seq(STRING)
                     /\ acl_can_subscribe(sess'[s].client_id, sess'[s].subs[i].filter)
               /\ pc'[s] = "connect" => sess'[s].subs = <<>>
    BY DEF FilterOk, acl_can_subscribe, acl_can_access_self_contract
  <1>1. CASE sess'[s].subs = <<>>
    <2>1. sess'[s].subs \in Seq({}) /\ DOMAIN sess'[s].subs = {}
      BY <1>1
    <2>2. IsSeq(sess'[s].subs)
      BY <2>1 DEF IsSeq
    <2> QED
      BY <1>1, <2>1, <2>2
  <1>2. CASE sess'[s].subs = sess[s].subs
    BY <1>2 DEF FilterOk
  <1> QED
    BY <1>1, <1>2

\* Closing sessions keeps what is known of them.
LEMMA GentleKeeps ==
    ASSUME Shape, Gentle
    PROVE  /\ SessionShape'
           /\ SlotLife => SlotLife'
           /\ OneSessionPerClient => OneSessionPerClient'
           /\ Sockets => Sockets'
           /\ Wills => Wills'
           /\ Unsubscribed /\ Filtered => Filtered'
  <1> USE DEF Shape, SessionShape, TaskShape, Gentle, Follows
  <1>1. SessionShape'
    OBVIOUS
  <1>2. ASSUME SlotLife PROVE SlotLife'
    BY <1>2 DEF SlotLife, LifeOk, Moves, IsSession
  <1>3. ASSUME OneSessionPerClient PROVE OneSessionPerClient'
    <2>1. \A s \in Slots : Live(s)' => Live(s) /\ sess'[s].client_id = sess[s].client_id
      BY DEF Live, IsSession
    <2> QED
      BY <1>3, <2>1 DEF OneSessionPerClient
  <1>4. ASSUME Sockets PROVE Sockets'
    BY <1>4 DEF Sockets, SocketOk, IsSession
  <1>5. ASSUME Wills PROVE Wills'
    BY <1>5 DEF Wills, WillOk
  <1>6. ASSUME Unsubscribed, Filtered PROVE Filtered'
    <2>1. ASSUME NEW s \in Slots PROVE FilterOk(s)'
      <3>1. pc'[s] = "connect" => pc[s] = "connect"
        BY DEF Moves
      <3> QED
        BY <1>6, <3>1, FilterKept DEF Filtered, Unsubscribed
    <2> QED
      BY <2>1 DEF Filtered
  <1> QED
    BY <1>1, <1>2, <1>3, <1>4, <1>5, <1>6

-----------------------------------------------------------------------------
(* How jobs change: the tasks of P step, the others keep theirs. *)

Jobs(P) ==
    /\ P \in SUBSET Tasks
    /\ DOMAIN job' = Tasks
    /\ \A q \in Tasks \ P : job'[q] = job[q]
    /\ \A q \in P : IsJob(job'[q])

(* Locks that other tasks hold stay held, with the packets under them. *)
LocksRespected(P) ==
    \A s \in Slots : tx[s] \in Tasks \ P =>
        tx'[s] = tx[s] /\ \A i, pid : Holds(s, i, pid) => Holds(s, i, pid)'

\* When only the jobs of P change, what holds of every job holds of the others
\* as before.
LEMMA JobsKeep ==
    ASSUME JobShape, NEW P, Jobs(P)
    PROVE  /\ JobShape'
           /\ /\ PacketInv /\ LocksRespected(P) /\ LocksFree'
              /\ \A q \in P : PacketOk(q)'
              => PacketInv'
           /\ /\ JobsInv
              /\ \A s \in Slots \ P : \/ job[s] = NoJob
                                      \/ /\ pc'[s] = pc[s]
                                         /\ sess'[s].client_id = sess[s].client_id
              /\ \A q \in P : JobOk(q)'
              => JobsInv'
  <1>1. JobShape'
    BY DEF JobShape, Jobs
  <1>2. ASSUME PacketInv, LocksRespected(P), LocksFree', \A q \in P : PacketOk(q)'
        PROVE  PacketInv'
    <2>1. ASSUME NEW q \in Tasks \ P PROVE PacketOk(q)'
      <3>1. job'[q] = job[q] /\ PacketOk(q) /\ IsJob(job[q])
        BY <1>2 DEF Jobs, PacketInv, JobShape
      <3>2. ASSUME job[q].todo # <<>>
            PROVE  Target(q).slot \in Slots
        <4>1. 1 \in DOMAIN job[q].todo
          BY <3>1, <3>2, SeqFacts DEF IsJob
        <4> QED
          BY <3>1, <4>1 DEF IsJob, Target
      <3>3. Target(q)' = Target(q)
        BY <3>1 DEF Target
      <3>4. CASE job[q].stage = "sending"
        <4>5. PICK s \in Slots : s = Target(q).slot
          BY <3>1, <3>2, <3>4 DEF IsJob
        <4>1. tx[s] = q
          BY <3>1, <3>4, <4>5 DEF PacketOk
        <4>2. tx'[s] = q /\ \A i, pid : Holds(s, i, pid) => Holds(s, i, pid)'
          BY <1>2, <4>1 DEF LocksRespected
        <4>3. Target(q).qos = 1 => Holds(s, job[q].at, Target(q).pid)
          BY <3>1, <3>4, <4>5 DEF PacketOk
        <4>4. Target(q).qos = 1 => 
                /\ job[q].at \in Packets /\ pending'[s][job[q].at].in_use
                /\ pending'[s][job[q].at].pid = Target(q).pid
          BY <4>2, <4>3 DEF Holds, InUse
        <4> QED
          BY <3>1, <3>3, <3>4, <4>2, <4>4, <4>5 DEF PacketOk, Holds, InUse
      <3>5. CASE job[q].stage = "retry"
        <4>1. q \in Slots /\ tx[q] = q /\ Holds(q, job[q].at, Target(q).pid)
          BY <3>1, <3>5 DEF PacketOk
        <4>2. tx'[q] = q /\ \A i, pid : Holds(q, i, pid) => Holds(q, i, pid)'
          BY <1>2, <4>1 DEF LocksRespected
        <4>3. /\ job[q].at \in Packets /\ pending'[q][job[q].at].in_use
              /\ pending'[q][job[q].at].pid = Target(q).pid
          BY <4>1, <4>2 DEF Holds, InUse
        <4> QED
          BY <3>1, <3>3, <3>5, <4>2, <4>3 DEF PacketOk, Holds, InUse
      <3>6. CASE job[q].stage \notin {"sending", "retry"}
        BY <3>1, <3>6 DEF PacketOk
      <3> QED
        BY <3>4, <3>5, <3>6
    <2> QED
      BY <1>2, <2>1 DEF PacketInv
  <1>3. ASSUME JobsInv,
               \A s \in Slots \ P : \/ job[s] = NoJob
                                    \/ /\ pc'[s] = pc[s]
                                       /\ sess'[s].client_id = sess[s].client_id,
               \A q \in P : JobOk(q)'
        PROVE  JobsInv'
    <2>1. ASSUME NEW q \in Tasks \ P PROVE JobOk(q)'
      <3>1. job'[q] = job[q] /\ JobOk(q)
        BY <1>3 DEF Jobs, JobsInv
      <3>2. CASE job[q] = NoJob
        <4>1. /\ job'[q].stage = "none" /\ job'[q] = NoJob
              /\ job'[q].left = {} /\ job'[q].todo = <<>>
          BY <3>1, <3>2 DEF NoJob
        <4>2. DOMAIN <<>> = {}
          OBVIOUS
        <4> QED
          BY <4>1, <4>2 DEF JobOk
      <3>3. CASE q \in Slots /\ job[q] # NoJob
        <4>1. pc'[q] = pc[q] /\ sess'[q].client_id = sess[q].client_id
          BY <1>3, <3>3
        <4> QED
          BY <3>1, <4>1 DEF JobOk, MaySee, Cleared, Target
      <3>4. CASE q \notin Slots
        BY <3>1, <3>4 DEF JobOk, MaySee, Cleared, Target
      <3> QED
        BY <3>2, <3>3, <3>4
    <2> QED
      BY <1>3, <2>1 DEF JobsInv
  <1> QED
    BY <1>1, <1>2, <1>3

\* Next1: the target is done with, the next one of the same message follows.
LEMMA NextFacts ==
    ASSUME JobShape, NEW p \in Tasks, NEW ok, job[p].todo # <<>>, job' = Next1(p, ok)
    PROVE  /\ Jobs({p})
           /\ job'[p].stage \in {"retained", "publish"}
           /\ job'[p].topic = job[p].topic
           /\ job'[p].left \subseteq job[p].left
           /\ \A i \in DOMAIN job'[p].todo :
                 i + 1 \in DOMAIN job[p].todo /\ job'[p].todo[i] = job[p].todo[i + 1]
  <1>1. IsJob(job[p]) /\ DOMAIN job = Tasks
    BY DEF JobShape
  <1>2. /\ DOMAIN job' = Tasks
        /\ \A q \in Tasks \ {p} : job'[q] = job[q]
        /\ DOMAIN job'[p] = JobFields
        /\ job'[p].stage \in {"retained", "publish"}
        /\ job'[p].topic = job[p].topic
        /\ job'[p].left \subseteq job[p].left
        /\ job'[p].todo = Tail(job[p].todo)
    BY <1>1 DEF IsJob, JobFields, Next1
  <1>3. /\ IsSeq(job'[p].todo)
        /\ \A i \in DOMAIN job'[p].todo :
              i + 1 \in DOMAIN job[p].todo /\ job'[p].todo[i] = job[p].todo[i + 1]
    BY <1>1, <1>2, SeqFacts DEF IsJob
  <1>4. IsJob(job'[p])
    BY <1>1, <1>2, <1>3 DEF IsJob, Stages
  <1> QED
    BY <1>2, <1>3, <1>4 DEF Jobs

\* publish_to_subscribers: one target for each session with a filter that matches
LEMMA PublishFacts ==
    ASSUME JobShape, NEW p \in Tasks, NEW t, NEW q, NEW retain, NEW empty, NEW exclude,
           publish_to_subscribers(p, t, q, retain, empty, exclude)
    PROVE  /\ Jobs({p})
           /\ job'[p].stage = "publish" /\ job'[p].topic = t /\ job'[p].left = {}
           /\ \A i \in DOMAIN job'[p].todo :
                 \E s \in Slots :
                    /\ job'[p].todo[i].sock = sess[s].sock
                    /\ \E k \in 1 .. Len(sess[s].subs) :
                          topic_matches_filter(sess[s].subs[k].filter, t)
  <1> DEFINE C == {s \in Slots :
                    /\ sess[s].active /\ ~sess[s].closing /\ sess[s].sock # Nil
                    /\ s # exclude /\ FirstMatch(sess[s].subs, t) # 0}
             QosOf(s) == mqtt_effective_delivery_qos(q,
                              sess[s].subs[FirstMatch(sess[s].subs, t)].qos)
             Before(ch, i) == Cardinality({j \in 1 .. i : QosOf(ch[j]) = 1})
             W(ch) == [i \in DOMAIN ch |->
                 [slot |-> ch[i], sock |-> sess[ch[i]].sock,
                  qos |-> QosOf(ch[i]),
                  pid |-> IF QosOf(ch[i]) = 1 THEN mqtt_next_packet_id(Before(ch, i)) ELSE 0]]
  <1>1. PICK chosen \in Ascending(C) :
            job' = [job EXCEPT ![p] = [NoJob EXCEPT !.stage = "publish", !.topic = t,
                                                    !.todo = W(chosen)]]
    BY DEF publish_to_subscribers
  <1>2. /\ W(chosen) = [i \in DOMAIN chosen |-> W(chosen)[i]]
        /\ \A i \in DOMAIN chosen : /\ W(chosen)[i].slot = chosen[i]
                                    /\ W(chosen)[i].sock = sess[chosen[i]].sock
    OBVIOUS
  <1> HIDE DEF W
  <1>3. \A s \in C : \E k \in 1 .. Len(sess[s].subs) :
                         topic_matches_filter(sess[s].subs[k].filter, t)
    BY DEF FirstMatch, SelectInSeq
  <1>4. C \subseteq Slots
    OBVIOUS
  <1> HIDE DEF C
  <1>5. Cardinality(C) \in Nat /\ DOMAIN chosen = 1 .. Cardinality(C)
        /\ \A i \in DOMAIN chosen : chosen[i] \in C
    <2>1. IsFiniteSet(Slots)
      BY BrokerAssumption, FS_Interval DEF Slots
    <2>2. IsFiniteSet(C)
      BY <1>4, <2>1, FS_Subset
    <2> QED
      BY <2>2, FS_CardinalityType DEF Ascending
  <1>6. IsSeq(W(chosen)) /\ DOMAIN W(chosen) = DOMAIN chosen
    BY <1>2, <1>5, ListFacts
  <1>7. /\ DOMAIN job' = Tasks
        /\ \A r \in Tasks \ {p} : job'[r] = job[r]
        /\ DOMAIN job'[p] = JobFields
        /\ job'[p].stage = "publish" /\ job'[p].topic = t /\ job'[p].left = {}
        /\ job'[p].todo = W(chosen)
    BY <1>1 DEF JobShape, NoJob, JobFields
  <1>8. IsJob(job'[p])
    BY <1>2, <1>4, <1>5, <1>6, <1>7 DEF IsJob, Stages
  <1>9. Jobs({p})
    BY <1>7, <1>8 DEF Jobs
  <1> QED
    BY <1>2, <1>3, <1>4, <1>5, <1>6, <1>7, <1>9

-----------------------------------------------------------------------------
(* Access rights *)

(* No client is called "+".  The hub itself hands out no such id, and a      *)
(* filter with the level "+" would stand for every device.                   *)
NoWildcardId == \A c \in Conns : ConnectOf[c].client_id # "+"

\* topic_matches_filter level by level: where the filter has a level before
\* a final "#" that is no "+", the topic has the same.
LEMMA MatchFacts ==
    ASSUME NEW f \in Seq(STRING), NEW t \in Seq(STRING), topic_matches_filter(f, t)
    PROVE  /\ f[Len(f)] = "#" => Len(t) >= Len(f) - 1
           /\ f[Len(f)] # "#" => Len(t) = Len(f)
           /\ \A i \in 1 .. Len(f) :
                 \/ i = Len(f) /\ f[i] = "#"
                 \/ f[i] = "+"
                 \/ t[i] = f[i]
  <1>1. CASE Len(f) > 0 /\ f[Len(f)] = "#"
    BY <1>1 DEF topic_matches_filter
  <1>2. CASE ~(Len(f) > 0 /\ f[Len(f)] = "#")
    BY <1>2 DEF topic_matches_filter
  <1> QED
    BY <1>1, <1>2

\* A topic that matches a filter the client was allowed is one it may see.
LEMMA MatchIsCleared ==
    ASSUME NEW cid, cid # "+", NEW f \in Seq(STRING), NEW t \in Seq(STRING),
           acl_can_subscribe(cid, f), topic_matches_filter(f, t)
    PROVE  MaySee(cid, t)
  <1>1. CASE acl_can_access_self_contract(cid, f)
    <2>1. cid # Nil /\ Len(f) > 4 /\ SubSeq(f, 1, 3) = <<"cp", "v1", "dev">> /\ f[4] = cid
      BY <1>1 DEF acl_can_access_self_contract, extract_contract_device_id
    <2>2. f[1] = "cp" /\ f[2] = "v1" /\ f[3] = "dev"
      <3>1. \A i \in 1 .. 3 : SubSeq(f, 1, 3)[i] = f[i]
        BY <2>1
      <3>2. \A x : x = <<"cp", "v1", "dev">> => x[1] = "cp" /\ x[2] = "v1" /\ x[3] = "dev"
        OBVIOUS
      <3>3. 1 \in 1 .. 3 /\ 2 \in 1 .. 3 /\ 3 \in 1 .. 3
        OBVIOUS
      <3> QED
        BY <2>1, <3>1, <3>2, <3>3
    <2>3. Len(t) >= 4
      BY <2>1, MatchFacts
    <2>4. \A i \in 1 .. 4 : t[i] = f[i]
      BY <2>1, <2>2, MatchFacts
    <2>5. \A i \in 1 .. 4 : t[i] = Contract(cid)[i]
      BY <2>1, <2>2, <2>4 DEF Contract
    <2> QED
      BY <2>1, <2>3, <2>5 DEF MaySee, Cleared
  <1>2. CASE f = Broadcast /\ cid # Nil
    <2>0. Len(f) = 6 /\ \A i \in 1 .. 6 : f[i] \notin {"+", "#"}
      BY <1>2 DEF Broadcast
    <2>1. Len(t) = 6 /\ \A i \in 1 .. 6 : t[i] = Broadcast[i]
      BY <1>2, <2>0, MatchFacts
    <2>2. t = Broadcast
      BY <2>1 DEF Broadcast
    <2> QED
      BY <1>2, <2>2 DEF MaySee, Cleared
  <1>3. CASE cid \in DOMAIN Static
    BY <1>3, BrokerAssumption DEF MaySee, Cleared
  <1> QED
    BY <1>1, <1>2, <1>3 DEF acl_can_subscribe

-----------------------------------------------------------------------------
(* The steps, one by one: each keeps the shape, and each of the three       *)
(* invariants by itself.                                                    *)

Keeps == /\ Base'
         /\ OneSessionPerClient => OneSessionPerClient'
         /\ PacketInv => PacketInv'
         /\ NoWildcardId /\ IsolationInv => IsolationInv'

\* What is left to show of a step that opens, names and retires no session
LEMMA GentleStep ==
    ASSUME Base, Gentle, TaskShape', NEW P, Jobs(P),
           PacketInv => /\ LocksRespected(P) /\ LocksFree'
                        /\ \A q \in P : PacketOk(q)',
           NoWildcardId /\ IsolationInv =>
               /\ Filtered'
               /\ \A s \in Slots \ P : pc'[s] = pc[s] \/ job[s] = NoJob
               /\ \A q \in P : JobOk(q)'
    PROVE  Keeps
  <1>1. SessionShape' /\ SlotLife' /\ (OneSessionPerClient => OneSessionPerClient')
    BY GentleKeeps DEF Base
  <1>2. JobShape' /\ (PacketInv => PacketInv')
    BY JobsKeep DEF Base, Shape
  <1>3. ASSUME NoWildcardId, IsolationInv PROVE IsolationInv'
    <2>1. Sockets' /\ Wills'
      BY <1>3, GentleKeeps DEF Base, IsolationInv
    <2>2. \A s \in Slots : sess'[s].client_id = sess[s].client_id
      BY DEF Gentle, Follows
    <2>3. JobsInv'
      BY <1>3, <2>2, JobsKeep DEF Base, Shape, IsolationInv
    <2> QED
      BY <1>3, <2>1, <2>3 DEF IsolationInv
  <1> QED
    BY <1>1, <1>2, <1>3 DEF Keeps, Base, Shape

\* A step that leaves every job alone
LEMMA NoJobs ==
    ASSUME JobShape, job' = job
    PROVE  Jobs({})
  BY DEF Jobs, JobShape

\* What a task at rest has
LEMMA NoJobFacts ==
    /\ IsJob(NoJob)
    /\ NoJob.stage = "none" /\ NoJob.left = {} /\ NoJob.todo = <<>>
  <1>1. /\ DOMAIN NoJob = JobFields
        /\ NoJob.stage = "none" /\ NoJob.left = {} /\ NoJob.todo = <<>>
    BY DEF NoJob, JobFields
  <1>2. NoJob.todo \in Seq({}) /\ DOMAIN NoJob.todo = {}
    BY <1>1
  <1>3. IsSeq(NoJob.todo)
    BY <1>2 DEF IsSeq
  <1> QED
    BY <1>1, <1>2, <1>3 DEF IsJob, Stages

\* A task that is not at work has nothing to do.
LEMMA AtRest ==
    ASSUME IsolationInv, NEW s \in Slots, job[s].stage = "none"
    PROVE  job[s] = NoJob
  <1>1. s \in Tasks
    BY DEF Tasks
  <1> QED
    BY <1>1 DEF IsolationInv, JobsInv, JobOk

\* client_fails
LEMMA KeepsFails ==
    ASSUME Base, NEW s \in Slots, client_fails(s)
    PROVE  Keeps
  <1> USE DEF Base, Shape, SessionShape, TaskShape
  <1>1. /\ sess' = sess /\ tx' = tx /\ pending' = pending /\ job' = job
        /\ pc[s] \in {"connect", "loop"}
        /\ DOMAIN pc' = Slots /\ pc'[s] = "cleanup"
        /\ \A r \in Slots : r # s => pc'[r] = pc[r]
    BY DEF client_fails, Idle
  <1>2. Gentle /\ Unsubscribed
    BY <1>1, Stays DEF Gentle, Unsubscribed, Moves, Places
  <1>3. TaskShape'
    BY <1>1 DEF Places
  <1>4. Jobs({})
    BY <1>1, NoJobs
  <1>5. ASSUME PacketInv PROVE LocksRespected({}) /\ LocksFree'
    BY <1>1, <1>5 DEF PacketInv, LocksRespected, LocksFree, Holds, InUse
  <1>6. ASSUME IsolationInv
        PROVE  Filtered' /\ \A r \in Slots : pc'[r] = pc[r] \/ job[r] = NoJob
    <2>1. job[s].stage = "none"
      <3>1. s \in Tasks
        BY DEF Tasks
      <3> QED
        BY <1>6, <3>1 DEF client_fails, Idle, IsolationInv, JobsInv, JobOk
    <2>2. job[s] = NoJob
      BY <1>6, <2>1, AtRest
    <2> QED
      BY <1>1, <1>2, <1>6, <2>2, GentleKeeps DEF IsolationInv
  <1> QED
    BY <1>2, <1>3, <1>4, <1>5, <1>6, GentleStep

\* DISCONNECT
LEMMA KeepsDisconnect ==
    ASSUME Base, NEW s \in Slots, handle_disconnect(s)
    PROVE  Keeps
  <1> USE DEF Base, Shape, SessionShape, TaskShape
  <1>1. /\ tx' = tx /\ pending' = pending /\ job' = job
        /\ pc[s] = "loop" /\ job[s].stage = "none"
        /\ DOMAIN pc' = Slots /\ pc'[s] = "cleanup"
        /\ \A r \in Slots : r # s => pc'[r] = pc[r]
        /\ DOMAIN sess' = Slots /\ sess'[s] = [sess[s] EXCEPT !.suppress_will = TRUE]
        /\ \A r \in Slots : r # s => sess'[r] = sess[r]
    BY DEF handle_disconnect, Idle
  <1>2. /\ \A r \in Slots : Follows(sess[r], sess'[r])
        /\ sess'[s].subs = sess[s].subs
    <2>1. Follows(sess[s], sess'[s])
      BY <1>1 DEF Follows, IsSession, SessionFields
    <2>2. \A r \in Slots : r # s => Follows(sess[r], sess'[r])
      BY <1>1, Stays
    <2>3. sess'[s].subs = sess[s].subs
      BY <1>1 DEF IsSession, SessionFields
    <2> QED
      BY <2>1, <2>2, <2>3
  <1>3. Gentle /\ Unsubscribed
    BY <1>1, <1>2 DEF Gentle, Unsubscribed, Moves, Places
  <1>4. TaskShape'
    BY <1>1 DEF Places
  <1>5. Jobs({})
    BY <1>1, NoJobs
  <1>6. ASSUME PacketInv PROVE LocksRespected({}) /\ LocksFree'
    BY <1>1, <1>6 DEF PacketInv, LocksRespected, LocksFree, Holds, InUse
  <1>7. ASSUME IsolationInv
        PROVE  Filtered' /\ \A r \in Slots : pc'[r] = pc[r] \/ job[r] = NoJob
    <2>1. job[s] = NoJob
      BY <1>1, <1>7, AtRest
    <2> QED
      BY <1>1, <1>3, <1>7, <2>1, GentleKeeps DEF IsolationInv
  <1> QED
    BY <1>3, <1>4, <1>5, <1>6, <1>7, GentleStep

\* The sweep of idle sessions
LEMMA KeepsSweep ==
    ASSUME Base, NEW s \in Slots, sweep_idle_sessions(s)
    PROVE  Keeps
  <1> USE DEF Base, Shape, SessionShape, TaskShape
  <1>1. /\ tx' = tx /\ pending' = pending /\ job' = job /\ pc' = pc
        /\ DOMAIN sess' = Slots /\ sess'[s] = request_session_prepare_close(sess[s])
        /\ \A r \in Slots : r # s => sess'[r] = sess[r]
    BY DEF sweep_idle_sessions
  <1>2. /\ \A r \in Slots : Follows(sess[r], sess'[r])
        /\ sess'[s].subs = <<>>
    <2>1. Follows(sess[s], sess'[s])
      BY <1>1, Closes
    <2>2. \A r \in Slots : r # s => Follows(sess[r], sess'[r])
      BY <1>1, Stays
    <2>3. sess'[s].subs = <<>>
      BY <1>1 DEF IsSession, SessionFields, request_session_prepare_close
    <2> QED
      BY <2>1, <2>2, <2>3
  <1>3. Gentle /\ Unsubscribed
    BY <1>1, <1>2 DEF Gentle, Unsubscribed, Moves
  <1>4. TaskShape' /\ Jobs({})
    BY <1>1, NoJobs
  <1>5. ASSUME PacketInv PROVE LocksRespected({}) /\ LocksFree'
    BY <1>1, <1>5 DEF PacketInv, LocksRespected, LocksFree, Holds, InUse
  <1>6. ASSUME IsolationInv PROVE Filtered'
    BY <1>3, <1>6, GentleKeeps DEF IsolationInv
  <1> QED
    BY <1>1, <1>3, <1>4, <1>5, <1>6, GentleStep

\* A table of packets stays one when an entry is written,
LEMMA EntryPut ==
    ASSUME NEW q, IsTable(q), NEW i \in Packets, NEW x, IsEntry(x)
    PROVE  /\ IsTable([q EXCEPT ![i] = x])
           /\ [q EXCEPT ![i] = x][i] = x
           /\ \A j \in Packets : j # i => [q EXCEPT ![i] = x][j] = q[j]
  BY DEF IsTable

\* and when the sendings of an entry are counted.
LEMMA EntryCounted ==
    ASSUME NEW q, IsTable(q), NEW i \in Packets, NEW n
    PROVE  /\ IsTable([q EXCEPT ![i].sent = n])
           /\ \A j \in Packets : [q EXCEPT ![i].sent = n][j].in_use = q[j].in_use
  BY DEF IsTable, IsEntry

\* The free entry and the empty table
LEMMA FreeFacts ==
    /\ IsEntry(FreeEntry) /\ ~FreeEntry.in_use
    /\ IsTable(NoPackets) /\ \A i \in Packets : NoPackets[i] = FreeEntry
  BY DEF IsEntry, FreeEntry, IsTable, NoPackets

\* PUBACK takes a packet out, under the tx lock.
LEMMA KeepsPuback ==
    ASSUME Base, NEW s \in Slots, NEW pid, handle_puback(s, pid)
    PROVE  Keeps
  <1> USE DEF Base, Shape, SessionShape, TaskShape
  <1>1. /\ sess' = sess /\ tx' = tx /\ job' = job /\ pc' = pc /\ tx[s] = Nil
        /\ DOMAIN pending' = Slots /\ IsTable(pending'[s])
        /\ \A r \in Slots : r # s => pending'[r] = pending[r]
    <2>1. PICK i \in Packets : pending' = [pending EXCEPT ![s][i] = FreeEntry]
      BY DEF handle_puback, mqtt_qos1_handle_puback, acknowledged
    <2>2. pending'[s] = [pending[s] EXCEPT ![i] = FreeEntry] /\ IsTable(pending[s])
      BY <2>1
    <2> QED
      BY <2>1, <2>2, EntryPut, FreeFacts DEF handle_puback, mqtt_qos1_handle_puback
  <1>2. Gentle /\ Unsubscribed
    BY <1>1, Stays DEF Gentle, Unsubscribed, Moves
  <1>3. TaskShape' /\ Jobs({})
    BY <1>1, NoJobs
  <1>4. ASSUME PacketInv PROVE LocksRespected({}) /\ LocksFree'
    <2>1. \A r \in Slots : tx[r] \in Tasks => r # s
      BY <1>1, BrokerAssumption
    <2> QED
      BY <1>1, <1>4, <2>1 DEF PacketInv, LocksRespected, LocksFree, Holds, InUse
  <1>5. ASSUME IsolationInv PROVE Filtered'
    BY <1>2, <1>5, GentleKeeps DEF IsolationInv
  <1> QED
    BY <1>1, <1>2, <1>3, <1>4, <1>5, GentleStep

\* free_session, first lock section: the packets go, under the tx lock.
LEMMA KeepsFree ==
    ASSUME Base, NEW s \in Slots, free_session(s)
    PROVE  Keeps
  <1> USE DEF Base, Shape, SessionShape, TaskShape
  <1>1. /\ tx' = tx /\ job' = job /\ tx[s] = Nil
        /\ pc[s] = "free" /\ job[s].stage = "none"
        /\ DOMAIN pc' = Slots /\ pc'[s] = "retire"
        /\ \A r \in Slots : r # s => pc'[r] = pc[r] /\ pending'[r] = pending[r]
        /\ DOMAIN pending' = Slots /\ IsTable(pending'[s])
    BY FreeFacts DEF free_session, free_session_clear
  <1>2. /\ DOMAIN sess' = Slots
        /\ \A r \in Slots : r # s => sess'[r] = sess[r]
        /\ sess'[s] = [sess[s] EXCEPT !.sock = Nil, !.closing = TRUE,
                              !.suppress_will = TRUE, !.subs = <<>>, !.will = Nil]
    BY DEF free_session, free_session_clear
  <1>3. /\ \A r \in Slots : Follows(sess[r], sess'[r])
        /\ sess'[s].subs = <<>> /\ sess'[s].closing
    <2>1. Follows(sess[s], sess'[s])
      BY <1>2 DEF Follows, IsSession, SessionFields
    <2>2. \A r \in Slots : r # s => Follows(sess[r], sess'[r])
      BY <1>2, Stays
    <2>3. sess'[s].subs = <<>> /\ sess'[s].closing
      BY <1>2 DEF IsSession, SessionFields
    <2> QED
      BY <2>1, <2>2, <2>3
  <1>4. Gentle /\ Unsubscribed
    BY <1>1, <1>2, <1>3 DEF Gentle, Unsubscribed, Moves, Places
  <1>5. TaskShape' /\ Jobs({})
    BY <1>1, NoJobs DEF Places
  <1>6. ASSUME PacketInv PROVE LocksRespected({}) /\ LocksFree'
    <2>1. \A r \in Slots : tx[r] \in Tasks => r # s
      BY <1>1, BrokerAssumption
    <2> QED
      BY <1>1, <1>6, <2>1 DEF PacketInv, LocksRespected, LocksFree, Holds, InUse
  <1>7. ASSUME IsolationInv
        PROVE  Filtered' /\ \A r \in Slots : pc'[r] = pc[r] \/ job[r] = NoJob
    <2>1. job[s] = NoJob
      BY <1>1, <1>7, AtRest
    <2> QED
      BY <1>1, <1>4, <1>7, <2>1, GentleKeeps DEF IsolationInv
  <1> QED
    BY <1>4, <1>5, <1>6, <1>7, GentleStep

-----------------------------------------------------------------------------
(* Publishing *)

\* What publish_to_subscribers chooses, the targets may see.
LEMMA ChosenMaySee ==
    ASSUME NoWildcardId, IsolationInv, NEW t \in Seq(STRING), NEW s \in Slots,
           sess[s].sock # Nil,
           NEW k \in 1 .. Len(sess[s].subs),
           topic_matches_filter(sess[s].subs[k].filter, t)
    PROVE  MaySee(ConnectOf[sess[s].sock].client_id, t)
  <1> DEFINE cid == sess[s].client_id
             f == sess[s].subs[k].filter
  <1>1. f \in Seq(STRING) /\ acl_can_subscribe(cid, f)
    <2>1. IsSeq(sess[s].subs)
      BY DEF IsolationInv, Filtered, FilterOk
    <2>2. k \in DOMAIN sess[s].subs
      BY <2>1, SeqFacts
    <2> QED
      BY <2>2 DEF IsolationInv, Filtered, FilterOk
  <1>2. cid # Nil
    BY <1>1, BrokerAssumption DEF acl_can_subscribe, acl_can_access_self_contract
  <1>3. sess[s].sock \in Conns /\ cid = ConnectOf[sess[s].sock].client_id
    BY <1>2 DEF IsolationInv, Sockets, SocketOk
  <1>4. cid # "+"
    BY <1>3 DEF NoWildcardId
  <1> HIDE DEF f, cid
  <1>5. MaySee(cid, t)
    BY <1>1, <1>4, MatchIsCleared DEF f
  <1> QED
    BY <1>3, <1>5

\* A task starts to publish, from its loop or at its end.
LEMMA PublishKeeps ==
    ASSUME Base, sess' = sess, tx' = tx, pending' = pending, TaskShape',
           NEW p \in Tasks, NEW t, NEW q, NEW retain, NEW empty, NEW exclude,
           publish_to_subscribers(p, t, q, retain, empty, exclude),
           IsolationInv => t \in Seq(STRING),
           \A s \in Slots : s # p => pc'[s] = pc[s],
           p \in Slots => /\ pc[p] \in {"loop", "cleanup"}
                          /\ pc'[p] \in {"loop", "free"}
                          /\ pc[p] = "cleanup" => pc'[p] = "free"
    PROVE  Keeps
  <1> USE DEF Base, Shape
  <1>1. Gentle /\ Unsubscribed
    BY Stays DEF Gentle, Unsubscribed, Moves, SessionShape, TaskShape
  <1>2. /\ Jobs({p})
        /\ job'[p].stage = "publish" /\ job'[p].topic = t /\ job'[p].left = {}
    BY PublishFacts
  <1>3. ASSUME PacketInv
        PROVE  LocksRespected({p}) /\ LocksFree' /\ PacketOk(p)'
    <2>1. LocksRespected({p})
      BY DEF LocksRespected, Holds, InUse
    <2>2. LocksFree'
      BY <1>3 DEF PacketInv, LocksFree
    <2> QED
      BY <1>2, <2>1, <2>2 DEF PacketOk
  <1>4. ASSUME NoWildcardId, IsolationInv
        PROVE  Filtered' /\ JobOk(p)'
    <2>1. Filtered'
      BY <1>1, <1>4, GentleKeeps DEF IsolationInv
    <2>2. ASSUME NEW i \in DOMAIN job'[p].todo, job'[p].todo[i].sock # Nil
          PROVE  MaySee(ConnectOf[job'[p].todo[i].sock].client_id, t)
      <3>1. PICK s \in Slots :
               /\ job'[p].todo[i].sock = sess[s].sock
               /\ \E k \in 1 .. Len(sess[s].subs) :
                     topic_matches_filter(sess[s].subs[k].filter, t)
        BY PublishFacts
      <3> QED
        BY <1>4, <2>2, <3>1, ChosenMaySee
    <2>3. JobOk(p)'
      BY <1>2, <2>2 DEF JobOk, MaySee, Cleared
    <2> QED
      BY <2>1, <2>3
  <1> QED
    BY <1>1, <1>2, <1>3, <1>4, GentleStep

\* handle_publish of a client
LEMMA KeepsPublish ==
    ASSUME Base, NEW s \in Slots, NEW m \in Publishes,
           handle_publish(s, m.topic, m.qos, m.retain, m.empty)
    PROVE  Keeps
  <1>1. /\ sess' = sess /\ tx' = tx /\ pending' = pending /\ pc' = pc /\ pc[s] = "loop"
        /\ publish_to_subscribers(s, m.topic, m.qos, m.retain, m.empty, Nil)
    BY DEF handle_publish, Idle
  <1>2. s \in Tasks /\ m.topic \in Seq(STRING)
    BY BrokerAssumption DEF Tasks
  <1>3. TaskShape'
    BY <1>1 DEF Base, Shape, TaskShape
  <1> QED
    BY <1>1, <1>2, <1>3, PublishKeeps

\* mqtt_core_publish_qos of the hub itself
LEMMA KeepsHubPublish ==
    ASSUME Base, NEW m \in Publishes, mqtt_core_publish_qos(m.topic, m.qos)
    PROVE  Keeps
  <1>1. /\ sess' = sess /\ tx' = tx /\ pending' = pending /\ pc' = pc
        /\ publish_to_subscribers(Hub, m.topic, m.qos, FALSE, FALSE, Nil)
    BY DEF mqtt_core_publish_qos
  <1>2. Hub \in Tasks /\ Hub \notin Slots /\ m.topic \in Seq(STRING)
    BY BrokerAssumption DEF Tasks, Hub, Slots
  <1>3. TaskShape'
    BY <1>1 DEF Base, Shape, TaskShape
  <1> QED
    BY <1>1, <1>2, <1>3, PublishKeeps

\* send_will_if_needed: the will is published, or there is none.
LEMMA KeepsWill ==
    ASSUME Base, NEW s \in Slots, send_will_if_needed(s)
    PROVE  Keeps
  <1> USE DEF Base, Shape
  <1>1. /\ sess' = sess /\ tx' = tx /\ pending' = pending
        /\ pc[s] = "cleanup" /\ job[s].stage = "none"
        /\ DOMAIN pc' = Slots /\ pc'[s] = "free"
        /\ \A r \in Slots : r # s => pc'[r] = pc[r]
    BY DEF send_will_if_needed, TaskShape
  <1>2. TaskShape'
    BY <1>1 DEF TaskShape, Places
  <1>3. CASE sess[s].will # Nil /\ ~sess[s].suppress_will
    <2>1. publish_to_subscribers(s, sess[s].will.topic, sess[s].will.qos,
                                 sess[s].will.retain, FALSE, s)
      BY <1>3 DEF send_will_if_needed
    <2>2. s \in Tasks /\ (IsolationInv => sess[s].will.topic \in Seq(STRING))
      BY <1>3 DEF Tasks, IsolationInv, Wills, WillOk
    <2> QED
      BY <1>1, <1>2, <2>1, <2>2, PublishKeeps
  <1>4. CASE ~(sess[s].will # Nil /\ ~sess[s].suppress_will)
    <2>1. job' = job
      BY <1>4 DEF send_will_if_needed
    <2>2. Gentle /\ Unsubscribed
      BY <1>1, Stays DEF Gentle, Unsubscribed, Moves, SessionShape, TaskShape, Places
    <2>3. Jobs({})
      BY <2>1, NoJobs
    <2>4. ASSUME PacketInv PROVE LocksRespected({}) /\ LocksFree'
      BY <1>1, <2>4 DEF PacketInv, LocksRespected, LocksFree, Holds, InUse
    <2>5. ASSUME IsolationInv
          PROVE  Filtered' /\ \A r \in Slots : pc'[r] = pc[r] \/ job[r] = NoJob
      <3>1. job[s] = NoJob
        BY <1>1, <2>5, AtRest
      <3> QED
        BY <1>1, <2>2, <2>5, <3>1, GentleKeeps DEF IsolationInv
    <2> QED
      BY <1>2, <2>2, <2>3, <2>4, <2>5, GentleStep
  <1> QED
    BY <1>3, <1>4

-----------------------------------------------------------------------------
(* Sending *)

\* The target of a task that has one is one of its list.
LEMMA TargetFacts ==
    ASSUME JobShape, NEW p \in Tasks, job[p].todo # <<>>
    PROVE  /\ 1 \in DOMAIN job[p].todo
           /\ Target(p) = job[p].todo[1]
           /\ Target(p).slot \in Slots
  <1>1. IsJob(job[p])
    BY DEF JobShape
  <1>2. 1 \in DOMAIN job[p].todo
    BY <1>1, SeqFacts DEF IsJob
  <1> QED
    BY <1>1, <1>2 DEF IsJob, Target

\* Going on to the next target keeps to what may be seen.
LEMMA NextJobOk ==
    ASSUME JobShape, NEW p \in Tasks, NEW ok, job[p].todo # <<>>, job' = Next1(p, ok),
           JobOk(p), job[p].stage \in {"publish", "reserved", "sending"},
           pc' = pc, p \in Slots => sess'[p].client_id = sess[p].client_id
    PROVE  JobOk(p)'
  <1>1. /\ job'[p].stage \in {"retained", "publish"}
        /\ job'[p].topic = job[p].topic
        /\ job'[p].left \subseteq job[p].left
        /\ \A i \in DOMAIN job'[p].todo :
              i + 1 \in DOMAIN job[p].todo /\ job'[p].todo[i] = job[p].todo[i + 1]
    BY NextFacts
  <1>2. \A i \in DOMAIN job'[p].todo : job'[p].todo[i].sock # Nil =>
            MaySee(ConnectOf[job'[p].todo[i].sock].client_id, job'[p].topic)
    BY <1>1 DEF JobOk
  <1>3. p \in Slots => \A t \in job'[p].left : MaySee(sess'[p].client_id, t)
    BY <1>1 DEF JobOk
  <1> QED
    BY <1>1, <1>2, <1>3 DEF JobOk, MaySee, Cleared

\* and so does taking the current target a stage further.
LEMMA SameJobOk ==
    ASSUME NEW p \in Tasks, JobOk(p), job[p].stage \in {"publish", "reserved"},
           job'[p].stage \in {"reserved", "sending"},
           job'[p].todo = job[p].todo, job'[p].topic = job[p].topic,
           job'[p].left = job[p].left,
           pc' = pc, sess' = sess, job'[p].stage = "sending" => Target(p).sock # Nil
    PROVE  JobOk(p)'
  <1>1. \A i \in DOMAIN job'[p].todo : job'[p].todo[i].sock # Nil =>
            MaySee(ConnectOf[job'[p].todo[i].sock].client_id, job'[p].topic)
    BY DEF JobOk
  <1>2. p \in Slots => \A t \in job'[p].left : MaySee(sess'[p].client_id, t)
    BY DEF JobOk
  <1>3. ~(p \in Slots /\ pc'[p] \in {"none", "connect", "cleanup", "retire"})
    BY DEF JobOk
  <1>4. Target(p)' = Target(p)
    BY DEF Target
  <1> QED
    BY <1>1, <1>2, <1>3, <1>4 DEF JobOk, MaySee, Cleared

\* send_qos1_publish_to_session_slot, first lock section
LEMMA KeepsReserve ==
    ASSUME Base, NEW p \in Tasks, reserve_qos1(p)
    PROVE  Keeps
  <1> USE DEF Base, Shape
  <1>1. /\ sess' = sess /\ pc' = pc /\ tx' = tx
        /\ job[p].stage = "publish" /\ job[p].todo # <<>>
    BY DEF reserve_qos1
  <1>2. Gentle /\ Unsubscribed
    BY <1>1, Stays DEF Gentle, Unsubscribed, Moves, SessionShape, TaskShape
  <1>3. IsolationInv => Filtered' /\ JobOk(p)
    BY <1>2, GentleKeeps DEF IsolationInv, JobsInv
  <1>4. ASSUME pending' = pending, NEW ok, job' = Next1(p, ok)
        PROVE  Keeps
    <2>1. TaskShape'
      BY <1>1, <1>4 DEF TaskShape
    <2>2. Jobs({p}) /\ job'[p].stage \in {"retained", "publish"}
      BY <1>1, <1>4, NextFacts
    <2>3. IsolationInv => JobOk(p)'
      BY <1>1, <1>3, <1>4, NextJobOk
    <2>4. ASSUME PacketInv PROVE LocksRespected({p}) /\ LocksFree' /\ PacketOk(p)'
      BY <1>1, <1>4, <2>2, <2>4 DEF PacketInv, LocksRespected, LocksFree, Holds, InUse, PacketOk
    <2> QED
      BY <1>1, <1>2, <1>3, <2>1, <2>2, <2>3, <2>4, GentleStep
  <1>5. ASSUME NEW i \in first_free(Target(p).slot), NEW x, IsEntry(x),
               pending' = [pending EXCEPT ![Target(p).slot][i] = x],
               job' = [job EXCEPT ![p].stage = "reserved", ![p].at = i]
        PROVE  Keeps
    <2>0. PICK s \in Slots : s = Target(p).slot
      BY <1>1, TargetFacts
    <2>5. /\ i \in Packets /\ ~pending[s][i].in_use
          /\ IsTable(pending[s]) /\ pending'[s] = [pending[s] EXCEPT ![i] = x]
      BY <1>5, <2>0 DEF TaskShape, first_free, InUse
    <2>1. /\ TaskShape'
          /\ \A r \in Slots : r # s => pending'[r] = pending[r]
          /\ \A j \in Packets : j # i => pending'[s][j] = pending[s][j]
      BY <1>1, <1>5, <2>0, <2>5, EntryPut DEF TaskShape
    <2>2. /\ Jobs({p}) /\ job'[p].stage = "reserved"
          /\ job'[p].todo = job[p].todo /\ job'[p].topic = job[p].topic
          /\ job'[p].left = job[p].left
      BY <1>1, <1>5 DEF Jobs, JobShape, IsJob, JobFields, Stages
    <2>3. IsolationInv => JobOk(p)'
      BY <1>1, <1>3, <2>2, SameJobOk
    <2>4. ASSUME PacketInv PROVE LocksRespected({p}) /\ LocksFree' /\ PacketOk(p)'
      <3>1. \A r \in Slots : \A j, pid : Holds(r, j, pid) => Holds(r, j, pid)'
        BY <2>1, <2>5 DEF Holds, InUse
      <3> QED
        BY <1>1, <2>2, <2>4, <3>1 DEF PacketInv, LocksRespected, LocksFree, PacketOk
    <2> QED
      BY <1>1, <1>2, <1>3, <2>1, <2>2, <2>3, <2>4, GentleStep
  <1>6. IsEntry([in_use |-> TRUE, pid |-> Target(p).pid, sent |-> 0])
    BY DEF IsEntry
  <1> QED
    BY <1>4, <1>5, <1>6 DEF reserve_qos1

\* The tx lock is taken and the session looked at again.
LEMMA KeepsTake ==
    ASSUME Base, NEW p \in Tasks, take_tx_lock(p)
    PROVE  Keeps
  <1> USE DEF Base, Shape
  <1> DEFINE t == Target(p)
             still == Current(t) /\ (t.qos = 1 => Holds(t.slot, job[p].at, t.pid))
  <1>1. /\ sess' = sess /\ pc' = pc /\ pending' = pending
        /\ job[p].stage \in {"publish", "reserved"}
        /\ tx[t.slot] = Nil
        /\ tx' = IF still THEN [tx EXCEPT ![t.slot] = p] ELSE tx
        /\ job' = IF still THEN [job EXCEPT ![p].stage = "sending"] ELSE Next1(p, FALSE)
    BY DEF take_tx_lock
  <1>2. job[p].todo # <<>>
    BY <1>1 DEF take_tx_lock, JobShape, IsJob
  <1>3. t.slot \in Slots
    BY <1>2, TargetFacts
  <1>4. Gentle /\ Unsubscribed
    BY <1>1, Stays DEF Gentle, Unsubscribed, Moves, SessionShape, TaskShape
  <1>5. IsolationInv => Filtered' /\ JobOk(p)
    BY <1>4, GentleKeeps DEF IsolationInv, JobsInv
  <1>6. TaskShape'
    BY <1>1 DEF TaskShape
  <1> HIDE DEF still
  <1>7. CASE ~still
    <2>1. tx' = tx /\ job' = Next1(p, FALSE)
      BY <1>1, <1>7
    <2>2. Jobs({p}) /\ job'[p].stage \in {"retained", "publish"}
      BY <1>2, <2>1, NextFacts
    <2>3. IsolationInv => JobOk(p)'
      BY <1>1, <1>2, <1>5, <2>1, NextJobOk
    <2>4. ASSUME PacketInv PROVE LocksRespected({p}) /\ LocksFree' /\ PacketOk(p)'
      BY <1>1, <2>1, <2>2, <2>4 DEF PacketInv, LocksRespected, LocksFree, Holds, InUse, PacketOk
    <2> QED
      BY <1>1, <1>4, <1>5, <1>6, <2>2, <2>3, <2>4, GentleStep
  <1>8. CASE still
    <2>1. /\ tx' = [tx EXCEPT ![t.slot] = p]
          /\ job' = [job EXCEPT ![p].stage = "sending"]
      BY <1>1, <1>8
    <2>2. PICK s \in Slots : s = t.slot
      BY <1>3
    <2>3. /\ sess[s].active /\ ~sess[s].closing /\ sess[s].sock = t.sock
          /\ t.qos = 1 => /\ job[p].at \in Packets /\ pending[s][job[p].at].in_use
                          /\ pending[s][job[p].at].pid = t.pid
          /\ job'[p].at = job[p].at
      BY <1>8, <2>1, <2>2 DEF still, Current, Holds, InUse, JobShape, IsJob, JobFields
    <2>4. /\ Jobs({p}) /\ job'[p].stage = "sending"
          /\ job'[p].todo = job[p].todo /\ job'[p].topic = job[p].topic
          /\ job'[p].left = job[p].left
      BY <1>2, <2>1 DEF Jobs, JobShape, IsJob, JobFields, Stages
    <2>5. Target(p)' = t
      BY <2>4 DEF Target
    <2>6. tx'[s] = p /\ \A r \in Slots : r # s => tx'[r] = tx[r]
      BY <2>1, <2>2 DEF TaskShape
    <2>7. ASSUME IsolationInv PROVE JobOk(p)'
      <3>1. t.sock # Nil
        BY <2>3, <2>7 DEF IsolationInv, Sockets, SocketOk
      <3> QED
        BY <1>1, <1>5, <2>4, <2>7, <3>1, SameJobOk
    <2>8. ASSUME PacketInv PROVE LocksRespected({p}) /\ LocksFree' /\ PacketOk(p)'
      <3>1. LocksRespected({p})
        <4>1. \A r \in Slots : tx[r] \in Tasks => r # s
          BY <1>1, <2>2, BrokerAssumption
        <4> QED
          BY <1>1, <2>6, <4>1 DEF LocksRespected, Holds, InUse
      <3>2. LocksFree'
        <4>1. pc[s] \notin {"none", "retire"}
          BY <2>3 DEF SlotLife, LifeOk
        <4> QED
          BY <1>1, <2>6, <2>8, <4>1 DEF PacketInv, LocksFree
      <3>3. PacketOk(p)'
        BY <1>1, <2>2, <2>3, <2>4, <2>5, <2>6 DEF PacketOk, Holds, InUse
      <3> QED
        BY <3>1, <3>2, <3>3
    <2> QED
      BY <1>1, <1>4, <1>5, <1>6, <2>4, <2>7, <2>8, GentleStep
  <1> QED
    BY <1>7, <1>8

\* The outcome of a send
LEMMA KeepsSend ==
    ASSUME Base, NEW p \in Tasks, NEW rc, send_publish(p, rc)
    PROVE  Keeps
  <1> USE DEF Base, Shape
  <1> DEFINE t == Target(p)
  <1>1. /\ pc' = pc /\ job[p].stage = "sending"
        /\ tx' = [tx EXCEPT ![t.slot] = Nil]
        /\ \/ pending' = pending
           \/ /\ job[p].at \in Packets
              /\ pending' = [pending EXCEPT ![t.slot][job[p].at].sent = 1]
        /\ sess' \in {sess, request_session_close_if_current(t)}
        /\ \E ok : job' = Next1(p, ok)
    BY DEF send_publish, Holds
  <1>2. job[p].todo # <<>>
    BY <1>1 DEF JobShape, IsJob
  <1>3. PICK s \in Slots : s = t.slot
    BY <1>2, TargetFacts
  <1>4. Gentle /\ Unsubscribed
    <2>1. CASE sess' = sess
      BY <1>1, <2>1, Stays DEF Gentle, Unsubscribed, Moves, SessionShape, TaskShape
    <2>2. CASE sess' = request_session_close_if_current(t)
      BY <1>1, <1>3, <2>2, CloseIfCurrent
    <2> QED
      BY <1>1, <2>1, <2>2
  <1>5. /\ TaskShape' /\ tx'[s] = Nil
        /\ \A r \in Slots : r # s => tx'[r] = tx[r] /\ pending'[r] = pending[r]
    <2>1. DOMAIN pending' = Slots /\ \A r \in Slots : r # s => pending'[r] = pending[r]
      BY <1>1, <1>3 DEF TaskShape
    <2>2. IsTable(pending'[s])
      <3>1. IsTable(pending[s])
        BY DEF TaskShape
      <3>2. CASE /\ job[p].at \in Packets
                 /\ pending' = [pending EXCEPT ![t.slot][job[p].at].sent = 1]
        <4>1. pending'[s] = [pending[s] EXCEPT ![job[p].at].sent = 1]
          BY <1>3, <3>2 DEF TaskShape
        <4> QED
          BY <3>1, <3>2, <4>1, EntryCounted
      <3> QED
        BY <1>1, <3>1, <3>2
    <2> QED
      BY <1>1, <1>3, <2>1, <2>2 DEF TaskShape
  <1>6. Jobs({p}) /\ job'[p].stage \in {"retained", "publish"}
    BY <1>1, <1>2, NextFacts
  <1>7. ASSUME IsolationInv PROVE Filtered' /\ JobOk(p)'
    <2>1. Filtered' /\ JobOk(p)
      BY <1>4, <1>7, GentleKeeps DEF IsolationInv, JobsInv
    <2>2. \A r \in Slots : sess'[r].client_id = sess[r].client_id
      BY <1>4 DEF Gentle, Follows
    <2> QED
      BY <1>1, <1>2, <2>1, <2>2, NextJobOk
  <1>8. ASSUME PacketInv PROVE LocksRespected({p}) /\ LocksFree' /\ PacketOk(p)'
    <2>1. tx[s] = p
      BY <1>1, <1>3, <1>8 DEF PacketInv, PacketOk
    <2>2. LocksRespected({p})
      BY <1>5, <2>1 DEF LocksRespected, Holds, InUse
    <2>3. LocksFree'
      BY <1>1, <1>5, <1>8 DEF PacketInv, LocksFree
    <2> QED
      BY <1>6, <2>2, <2>3 DEF PacketOk
  <1> QED
    BY <1>1, <1>4, <1>5, <1>6, <1>7, <1>8, GentleStep

\* The last target is done with.
LEMMA KeepsDone ==
    ASSUME Base, NEW p \in Tasks, publish_done(p)
    PROVE  Keeps
  <1> USE DEF Base, Shape
  <1>1. /\ sess' = sess /\ pc' = pc /\ tx' = tx /\ pending' = pending
        /\ job' = [job EXCEPT ![p] = NoJob]
    BY DEF publish_done
  <1>2. Gentle /\ Unsubscribed
    BY <1>1, Stays DEF Gentle, Unsubscribed, Moves, SessionShape, TaskShape
  <1>3. TaskShape'
    BY <1>1 DEF TaskShape
  <1>4. IsJob(NoJob) /\ NoJob.stage = "none" /\ NoJob.left = {} /\ NoJob.todo = <<>>
    BY NoJobFacts
  <1>5. Jobs({p}) /\ job'[p] = NoJob
    BY <1>1, <1>4 DEF Jobs, JobShape
  <1>6. ASSUME PacketInv PROVE LocksRespected({p}) /\ LocksFree' /\ PacketOk(p)'
    BY <1>1, <1>4, <1>5, <1>6 DEF PacketInv, LocksRespected, LocksFree, Holds, InUse, PacketOk
  <1>7. ASSUME IsolationInv PROVE Filtered' /\ JobOk(p)'
    BY <1>2, <1>4, <1>5, <1>7, GentleKeeps DEF IsolationInv, JobOk
  <1> QED
    BY <1>1, <1>2, <1>3, <1>5, <1>6, <1>7, GentleStep

-----------------------------------------------------------------------------
(* Retained messages and retries *)

\* A list of one target, to the session itself
LEMMA OneTarget ==
    ASSUME NEW j, NEW t, DOMAIN j = JobFields, j.stage \in Stages,
           j.todo = <<t>>, t.slot \in Slots
    PROVE  IsJob(j) /\ DOMAIN j.todo = {1} /\ j.todo[1] = t
  <1>1. j.todo \in Seq({t}) /\ DOMAIN j.todo = {1} /\ j.todo[1] = t /\ j.todo # <<>>
    OBVIOUS
  <1>2. IsSeq(j.todo)
    BY <1>1 DEF IsSeq
  <1> QED
    BY <1>1, <1>2 DEF IsJob

\* The next retained message that matches, or the end of the list
LEMMA KeepsRetained ==
    ASSUME Base, NEW s \in Slots, deliver_retain(s)
    PROVE  Keeps
  <1> USE DEF Base, Shape
  <1>1. /\ sess' = sess /\ pc' = pc /\ tx' = tx /\ pending' = pending
        /\ job[s].stage = "retained" /\ job[s].todo = <<>>
    BY DEF deliver_retain
  <1>2. Gentle /\ Unsubscribed
    BY <1>1, Stays DEF Gentle, Unsubscribed, Moves, SessionShape, TaskShape
  <1>3. TaskShape' /\ s \in Tasks
    BY <1>1 DEF TaskShape, Tasks
  <1>4. ASSUME IsolationInv
        PROVE  /\ Filtered' /\ JobOk(s)
               /\ pc'[s] \notin {"none", "connect", "cleanup", "retire"}
    <2>1. Filtered' /\ JobOk(s)
      BY <1>2, <1>3, <1>4, GentleKeeps DEF IsolationInv, JobsInv
    <2> QED
      BY <1>1, <2>1 DEF JobOk
  <1>5. ASSUME Jobs({s}), job'[s].stage \in {"none", "publish", "retained"},
               IsolationInv => JobOk(s)'
        PROVE  Keeps
    <2>1. ASSUME PacketInv PROVE LocksRespected({s}) /\ LocksFree' /\ PacketOk(s)'
      BY <1>1, <1>5, <2>1 DEF PacketInv, LocksRespected, LocksFree, Holds, InUse, PacketOk
    <2> QED
      BY <1>1, <1>2, <1>3, <1>4, <1>5, <2>1, GentleStep
  <1>6. CASE job' = [job EXCEPT ![s] = NoJob]
    <2>1. Jobs({s}) /\ job'[s] = NoJob
      BY <1>3, <1>6, NoJobFacts DEF Jobs, JobShape
    <2>2. JobOk(s)'
      BY <2>1, NoJobFacts DEF JobOk
    <2> QED
      BY <1>5, <2>1, <2>2, NoJobFacts
  <1>7. ASSUME NEW t \in job[s].left, job' = [job EXCEPT ![s].left = @ \ {t}]
        PROVE  Keeps
    <2>1. /\ Jobs({s}) /\ job'[s].stage = "retained" /\ job'[s].todo = <<>>
          /\ job'[s].left \subseteq job[s].left
      BY <1>1, <1>3, <1>7 DEF Jobs, JobShape, IsJob, JobFields
    <2>2. ASSUME IsolationInv PROVE JobOk(s)'
      <3>1. \A u \in job'[s].left : MaySee(sess'[s].client_id, u)
        BY <1>1, <1>4, <2>1, <2>2 DEF JobOk
      <3> QED
        BY <1>4, <2>1, <2>2, <3>1 DEF JobOk, MaySee, Cleared
    <2> QED
      BY <1>5, <2>1, <2>2
  <1>8. ASSUME NEW t \in job[s].left, NEW q, NEW pid,
               job' = [job EXCEPT ![s].stage = "publish",
                         ![s].topic = t, ![s].left = @ \ {t},
                         ![s].todo = <<[slot |-> s, sock |-> sess[s].sock, qos |-> q,
                                        pid |-> pid]>>]
        PROVE  Keeps
    <2> DEFINE x == [slot |-> s, sock |-> sess[s].sock, qos |-> q, pid |-> pid]
    <2>1. /\ DOMAIN job' = Tasks
          /\ \A p \in Tasks \ {s} : job'[p] = job[p]
          /\ DOMAIN job'[s] = JobFields
          /\ job'[s].stage = "publish" /\ job'[s].topic = t
          /\ job'[s].left \subseteq job[s].left
          /\ job'[s].todo = <<x>>
      BY <1>3, <1>8 DEF JobShape, IsJob, JobFields
    <2>2. x.slot = s /\ x.sock = sess[s].sock
      OBVIOUS
    <2> HIDE DEF x
    <2>3. IsJob(job'[s]) /\ DOMAIN job'[s].todo = {1} /\ job'[s].todo[1] = x
      BY <2>1, <2>2, OneTarget DEF Stages
    <2>4. Jobs({s})
      BY <1>3, <2>1, <2>3 DEF Jobs
    <2>5. ASSUME IsolationInv PROVE JobOk(s)'
      <3>1. \A u \in job'[s].left : MaySee(sess'[s].client_id, u)
        BY <1>1, <1>4, <2>1, <2>5 DEF JobOk
      <3>2. MaySee(sess[s].client_id, t)
        BY <1>4, <1>8, <2>5 DEF JobOk
      <3>3. x.sock # Nil => ConnectOf[x.sock].client_id = sess[s].client_id
        BY <2>2, <2>5, <3>2 DEF MaySee, IsolationInv, Sockets, SocketOk
      <3>4. \A i \in DOMAIN job'[s].todo : job'[s].todo[i].sock # Nil =>
               MaySee(ConnectOf[job'[s].todo[i].sock].client_id, job'[s].topic)
        BY <2>1, <2>3, <3>2, <3>3
      <3> QED
        BY <1>4, <2>1, <2>5, <3>1, <3>4 DEF JobOk, MaySee, Cleared
    <2> QED
      BY <1>5, <2>1, <2>4, <2>5
  <1>9. CASE job[s].left = {}
    BY <1>6, <1>9 DEF deliver_retain
  <1>10. CASE job[s].left # {}
    <2>1. PICK t \in job[s].left :
             IF t \in DOMAIN retained
             THEN LET q == mqtt_effective_delivery_qos(retained[t], job[s].qos) IN
                  job' = [job EXCEPT ![s].stage = "publish",
                         ![s].topic = t, ![s].left = @ \ {t},
                         ![s].todo = <<[slot |-> s, sock |-> sess[s].sock, qos |-> q,
                                        pid |-> IF q = 1 THEN mqtt_next_packet_id(1) ELSE 0]>>]
             ELSE job' = [job EXCEPT ![s].left = @ \ {t}]
      BY <1>10 DEF deliver_retain
    <2>2. CASE t \in DOMAIN retained
      <3> DEFINE q == mqtt_effective_delivery_qos(retained[t], job[s].qos)
                 pid == IF q = 1 THEN mqtt_next_packet_id(1) ELSE 0
      <3>1. job' = [job EXCEPT ![s].stage = "publish",
                         ![s].topic = t, ![s].left = @ \ {t},
                         ![s].todo = <<[slot |-> s, sock |-> sess[s].sock, qos |-> q,
                                        pid |-> pid]>>]
        BY <2>1, <2>2
      <3> HIDE DEF q, pid
      <3> QED
        BY <1>8, <3>1
    <2>3. CASE t \notin DOMAIN retained
      BY <1>7, <2>1, <2>3
    <2> QED
      BY <2>2, <2>3
  <1> QED
    BY <1>9, <1>10

\* A packet is due: it is sent again under the tx lock, or the client is given up.
LEMMA KeepsRetry ==
    ASSUME Base, NEW s \in Slots, NEW i \in Packets, mqtt_qos1_retry_due(s, i)
    PROVE  Keeps
  <1> USE DEF Base, Shape
  <1> DEFINE e == pending[s][i]
             t == [slot |-> s, sock |-> sess[s].sock, qos |-> 1, pid |-> e.pid]
  <1>1. /\ pc' = pc /\ pending' = pending /\ tx[s] = Nil /\ pc[s] = "loop"
        /\ e.in_use
        /\ \/ sess' = request_session_close_if_current(t) /\ tx' = tx /\ job' = job
           \/ /\ sess' = sess /\ tx' = [tx EXCEPT ![s] = s]
              /\ job' = [job EXCEPT ![s] = [NoJob EXCEPT !.stage = "retry",
                                              !.todo = <<t>>, !.at = i]]
    BY DEF mqtt_qos1_retry_due, Idle, InUse
  <1>2. t.slot = s /\ t.pid = e.pid
    OBVIOUS
  <1> HIDE DEF t
  <1>3. TaskShape' /\ s \in Tasks
    BY <1>1 DEF TaskShape, Tasks
  <1>4. CASE sess' = request_session_close_if_current(t) /\ tx' = tx /\ job' = job
    <2>1. Gentle /\ Unsubscribed
      BY <1>1, <1>2, <1>4, CloseIfCurrent
    <2>2. Jobs({})
      BY <1>4, NoJobs
    <2>3. ASSUME PacketInv PROVE LocksRespected({}) /\ LocksFree'
      BY <1>1, <1>4, <2>3 DEF PacketInv, LocksRespected, LocksFree, Holds, InUse
    <2>4. IsolationInv => Filtered'
      BY <2>1, GentleKeeps DEF IsolationInv
    <2> QED
      BY <1>1, <1>3, <2>1, <2>2, <2>3, <2>4, GentleStep
  <1>5. CASE /\ sess' = sess /\ tx' = [tx EXCEPT ![s] = s]
             /\ job' = [job EXCEPT ![s] = [NoJob EXCEPT !.stage = "retry",
                                              !.todo = <<t>>, !.at = i]]
    <2>1. Gentle /\ Unsubscribed
      BY <1>1, <1>5, Stays DEF Gentle, Unsubscribed, Moves, SessionShape, TaskShape
    <2>2. /\ DOMAIN job' = Tasks
          /\ \A p \in Tasks \ {s} : job'[p] = job[p]
          /\ DOMAIN job'[s] = JobFields
          /\ job'[s].stage = "retry" /\ job'[s].left = {} /\ job'[s].todo = <<t>>
          /\ job'[s].at = i
      BY <1>3, <1>5 DEF JobShape, NoJob, JobFields
    <2>3. IsJob(job'[s]) /\ job'[s].todo[1] = t
      BY <1>2, <2>2, OneTarget DEF Stages
    <2>4. Jobs({s}) /\ Target(s)' = t
      BY <1>3, <2>2, <2>3 DEF Jobs, Target
    <2>5. tx'[s] = s /\ \A r \in Slots : r # s => tx'[r] = tx[r]
      BY <1>5 DEF TaskShape
    <2>6. ASSUME PacketInv PROVE LocksRespected({s}) /\ LocksFree' /\ PacketOk(s)'
      <3>1. \A r \in Slots : tx[r] \in Tasks => r # s
        BY <1>1, BrokerAssumption
      <3>2. LocksRespected({s})
        BY <1>1, <2>5, <3>1 DEF LocksRespected, Holds, InUse
      <3>3. LocksFree'
        BY <1>1, <2>5, <2>6 DEF PacketInv, LocksFree
      <3>4. PacketOk(s)'
        BY <1>1, <1>2, <2>2, <2>4, <2>5 DEF PacketOk, Holds, InUse
      <3> QED
        BY <3>2, <3>3, <3>4
    <2>7. ASSUME IsolationInv PROVE Filtered' /\ JobOk(s)'
      <3>1. Filtered'
        BY <2>1, <2>7, GentleKeeps DEF IsolationInv
      <3>2. JobOk(s)'
        BY <1>1, <2>2 DEF JobOk
      <3> QED
        BY <3>1, <3>2
    <2> QED
      BY <1>1, <1>3, <2>1, <2>4, <2>6, <2>7, GentleStep
  <1> QED
    BY <1>1, <1>4, <1>5

\* The outcome of a retry
LEMMA KeepsRetried ==
    ASSUME Base, NEW s \in Slots, NEW rc, retry_sent(s, rc)
    PROVE  Keeps
  <1> USE DEF Base, Shape
  <1>1. /\ pc' = pc /\ job[s].stage = "retry"
        /\ tx' = [tx EXCEPT ![s] = Nil]
        /\ sess' \in {sess, request_session_close_if_current(Target(s))}
        /\ DOMAIN pending' = Slots /\ \A r \in Slots : r # s => pending'[r] = pending[r]
        /\ job' = [job EXCEPT ![s] = NoJob]
        /\ \/ pending' = pending
           \/ /\ job[s].at \in Packets
              /\ pending' = [pending EXCEPT ![s][job[s].at].sent = @ + 1]
    BY DEF retry_sent, TaskShape, Holds
  <1>7. IsTable(pending'[s])
    <2>1. IsTable(pending[s])
      BY DEF TaskShape
    <2>2. CASE /\ job[s].at \in Packets
               /\ pending' = [pending EXCEPT ![s][job[s].at].sent = @ + 1]
      <3>1. pending'[s] = [pending[s] EXCEPT ![job[s].at].sent =
                                                pending[s][job[s].at].sent + 1]
        BY <2>2 DEF TaskShape
      <3> QED
        BY <2>1, <2>2, <3>1, EntryCounted
    <2> QED
      BY <1>1, <2>1, <2>2
  <1>2. /\ TaskShape' /\ s \in Tasks
        /\ tx'[s] = Nil /\ \A r \in Slots : r # s => tx'[r] = tx[r]
    BY <1>1, <1>7 DEF TaskShape, Tasks
  <1>3. Gentle /\ Unsubscribed
    <2>1. CASE sess' = sess
      BY <1>1, <2>1, Stays DEF Gentle, Unsubscribed, Moves, SessionShape, TaskShape
    <2>2. CASE sess' = request_session_close_if_current(Target(s))
      <3>1. Target(s).slot \in Slots
        BY <1>1, <1>2, TargetFacts DEF JobShape, IsJob
      <3> QED
        BY <1>1, <2>2, <3>1, CloseIfCurrent
    <2> QED
      BY <1>1, <2>1, <2>2
  <1>4. Jobs({s}) /\ job'[s] = NoJob
    BY <1>1, <1>2, NoJobFacts DEF Jobs, JobShape
  <1>5. ASSUME PacketInv PROVE LocksRespected({s}) /\ LocksFree' /\ PacketOk(s)'
    <2>1. tx[s] = s
      BY <1>1, <1>2, <1>5 DEF PacketInv, PacketOk
    <2>2. LocksRespected({s})
      BY <1>1, <1>2, <2>1 DEF LocksRespected, Holds, InUse
    <2>3. LocksFree'
      BY <1>1, <1>2, <1>5 DEF PacketInv, LocksFree
    <2> QED
      BY <1>4, <2>2, <2>3, NoJobFacts DEF PacketOk
  <1>6. ASSUME IsolationInv PROVE Filtered' /\ JobOk(s)'
    BY <1>3, <1>4, <1>6, GentleKeeps, NoJobFacts DEF IsolationInv, JobOk
  <1> QED
    BY <1>1, <1>2, <1>3, <1>4, <1>5, <1>6, GentleStep

-----------------------------------------------------------------------------
(* Subscriptions *)

\* mqtt_upsert_subscription leaves a sequence of filters that are known or new.
LEMMA UpsertFacts ==
    ASSUME NEW subs, IsSeq(subs), NEW f, NEW q
    PROVE  LET new == mqtt_upsert_subscription(subs, f, q)
           IN  /\ IsSeq(new)
               /\ \A i \in DOMAIN new :
                     \/ i \in DOMAIN subs /\ new[i] = subs[i]
                     \/ new[i].filter = f
  <1> DEFINE known == {i \in DOMAIN subs : subs[i].filter = f}
             entry == [filter |-> f, qos |-> Least(q, 1)]
             new == mqtt_upsert_subscription(subs, f, q)
  <1>1. Len(subs) \in Nat /\ DOMAIN subs = 1 .. Len(subs)
    BY SeqFacts
  <1>2. entry.filter = f
    OBVIOUS
  <1>3. CASE known # {}
    <2>1. new = [i \in DOMAIN subs |-> IF i \in known THEN entry ELSE subs[i]]
      BY <1>3 DEF mqtt_upsert_subscription
    <2> HIDE DEF new, known, entry
    <2>2. new = [i \in 1 .. Len(subs) |-> new[i]]
      BY <1>1, <2>1
    <2>3. IsSeq(new) /\ DOMAIN new = DOMAIN subs
      BY <1>1, <2>2, ListFacts
    <2>4. \A i \in DOMAIN new : new[i] = subs[i] \/ new[i] = entry
      BY <2>1
    <2> QED
      BY <1>2, <2>3, <2>4 DEF new
  <1>4. CASE known = {} /\ Len(subs) < MQTT_MAX_SUBS
    <2>1. new = Append(subs, entry)
      BY <1>4 DEF mqtt_upsert_subscription
    <2> HIDE DEF new, known, entry
    <2>2. /\ IsSeq(new) /\ DOMAIN new = 1 .. Len(subs) + 1
          /\ \A i \in DOMAIN subs : new[i] = subs[i]
          /\ new[Len(subs) + 1] = entry
      BY <2>1, SeqFacts
    <2>3. \A i \in DOMAIN new : i \in DOMAIN subs \/ i = Len(subs) + 1
      BY <1>1, <2>2
    <2> QED
      BY <1>2, <2>2, <2>3 DEF new
  <1>5. CASE known = {} /\ ~(Len(subs) < MQTT_MAX_SUBS)
    BY <1>5 DEF mqtt_upsert_subscription
  <1> QED
    BY <1>3, <1>4, <1>5

\* A session whose filters change, and nothing else of it
LEMMA Resubscribed ==
    ASSUME Base, NEW s \in Slots, NEW subs, sess' = [sess EXCEPT ![s].subs = subs], pc' = pc
    PROVE  /\ Gentle
           /\ \A r \in Slots : r # s => sess'[r] = sess[r]
           /\ sess'[s].subs = subs /\ sess'[s].client_id = sess[s].client_id
  <1>1. /\ DOMAIN sess' = Slots /\ \A r \in Slots : r # s => sess'[r] = sess[r]
        /\ sess'[s] = [sess[s] EXCEPT !.subs = subs] /\ IsSession(sess[s])
    BY DEF Base, Shape, SessionShape
  <1>2. sess'[s].subs = subs /\ sess'[s].client_id = sess[s].client_id
    BY <1>1 DEF IsSession, SessionFields
  <1>3. Follows(sess[s], sess'[s])
    BY <1>1 DEF Follows, IsSession, SessionFields
  <1>4. \A r \in Slots : Follows(sess[r], sess'[r])
    BY <1>1, <1>3, Stays DEF Base, Shape, SessionShape
  <1> QED
    BY <1>1, <1>2, <1>4 DEF Gentle, Moves, Base, Shape, TaskShape

\* SUBSCRIBE: an accepted filter, and the retained messages that it matches
LEMMA KeepsSubscribe ==
    ASSUME Base, NEW s \in Slots, NEW u \in Subscribes,
           handle_subscribe(s, u.filter, u.qos)
    PROVE  Keeps
  <1> USE DEF Base, Shape
  <1> DEFINE f == u.filter
             cid == sess[s].client_id
             subs == mqtt_upsert_subscription(sess[s].subs, f, u.qos)
             listed == {t \in Topics : topic_matches_filter(f, t)}
  <1>1. /\ pc' = pc /\ tx' = tx /\ pending' = pending
        /\ pc[s] = "loop" /\ job[s].stage = "none" /\ sess[s].sock # Nil
        /\ acl_can_subscribe(cid, f)
        /\ sess' = [sess EXCEPT ![s].subs = subs]
        /\ \/ job' = job
           \/ job' = [job EXCEPT ![s] = [NoJob EXCEPT
                     !.stage = "retained", !.qos = Least(u.qos, 1), !.left = listed]]
    BY DEF handle_subscribe, Idle
  <1> HIDE DEF subs
  <1>2. /\ Gentle
        /\ \A r \in Slots : r # s => sess'[r] = sess[r]
        /\ sess'[s].subs = subs /\ sess'[s].client_id = cid
    BY <1>1, Resubscribed
  <1>3. TaskShape' /\ s \in Tasks
    BY <1>1 DEF TaskShape, Tasks
  <1>4. f \in Seq(STRING) /\ Topics \subseteq Seq(STRING) /\ cid # Nil
    BY <1>1, BrokerAssumption DEF acl_can_subscribe, acl_can_access_self_contract
  <1>5. ASSUME IsolationInv PROVE Filtered'
    <2>1. IsSeq(sess[s].subs)
      BY <1>5 DEF IsolationInv, Filtered, FilterOk
    <2>2. /\ IsSeq(subs)
          /\ \A i \in DOMAIN subs :
                \/ i \in DOMAIN sess[s].subs /\ subs[i] = sess[s].subs[i]
                \/ subs[i].filter = f
      BY <2>1, UpsertFacts DEF subs
    <2>3. \A i \in DOMAIN subs :
              subs[i].filter \in Seq(STRING) /\ acl_can_subscribe(cid, subs[i].filter)
      BY <1>1, <1>4, <1>5, <2>2 DEF IsolationInv, Filtered, FilterOk
    <2>4. \A r \in Slots :
              /\ IsSeq(sess'[r].subs)
              /\ \A i \in DOMAIN sess'[r].subs :
                   /\ sess'[r].subs[i].filter \in Seq(STRING)
                   /\ acl_can_subscribe(sess'[r].client_id, sess'[r].subs[i].filter)
              /\ pc'[r] = "connect" => sess'[r].subs = <<>>
      BY <1>1, <1>2, <1>5, <2>2, <2>3 DEF IsolationInv, Filtered, FilterOk
    <2> QED
      BY <2>4 DEF Filtered, FilterOk, acl_can_subscribe, acl_can_access_self_contract
  <1>6. CASE job' = job
    <2>1. Jobs({})
      BY <1>6, NoJobs
    <2>2. ASSUME PacketInv PROVE LocksRespected({}) /\ LocksFree'
      BY <1>1, <2>2 DEF PacketInv, LocksRespected, LocksFree, Holds, InUse
    <2> QED
      BY <1>1, <1>2, <1>3, <1>5, <2>1, <2>2, GentleStep
  <1>7. CASE job' = [job EXCEPT ![s] = [NoJob EXCEPT
                     !.stage = "retained", !.qos = Least(u.qos, 1), !.left = listed]]
    <2>1. /\ DOMAIN job' = Tasks
          /\ \A p \in Tasks \ {s} : job'[p] = job[p]
          /\ DOMAIN job'[s] = JobFields
          /\ job'[s].stage = "retained" /\ job'[s].left = listed
          /\ job'[s].todo = NoJob.todo
      BY <1>3, <1>7 DEF JobShape, NoJob, JobFields
    <2>2. Jobs({s}) /\ DOMAIN job'[s].todo = {}
      BY <1>3, <2>1, NoJobFacts DEF Jobs, IsJob, Stages
    <2>3. ASSUME PacketInv PROVE LocksRespected({s}) /\ LocksFree' /\ PacketOk(s)'
      BY <1>1, <2>1, <2>3 DEF PacketInv, LocksRespected, LocksFree, Holds, InUse, PacketOk
    <2>4. ASSUME NoWildcardId, IsolationInv PROVE JobOk(s)'
      <3>1. cid # "+"
        BY <1>1, <1>4, <2>4 DEF NoWildcardId, IsolationInv, Sockets, SocketOk
      <3>2. \A t \in listed : MaySee(cid, t)
        BY <1>1, <1>4, <3>1, MatchIsCleared
      <3>3. \A t \in job'[s].left : MaySee(sess'[s].client_id, t)
        BY <1>2, <2>1, <3>2
      <3> QED
        BY <1>1, <2>1, <2>2, <3>3 DEF JobOk, MaySee, Cleared
    <2> QED
      BY <1>1, <1>2, <1>3, <1>5, <2>2, <2>3, <2>4, GentleStep
  <1> QED
    BY <1>1, <1>6, <1>7

\* UNSUBSCRIBE keeps some of the filters, in their order.
LEMMA KeepsUnsubscribe ==
    ASSUME Base, NEW s \in Slots, NEW f, handle_unsubscribe(s, f)
    PROVE  Keeps
  <1> USE DEF Base, Shape
  <1> DEFINE old == sess[s].subs
             rest == {i \in DOMAIN old : old[i].filter # f}
             subs(ch) == [i \in DOMAIN ch |-> old[ch[i]]]
  <1>1. /\ pc' = pc /\ tx' = tx /\ pending' = pending /\ job' = job
        /\ pc[s] = "loop"
    BY DEF handle_unsubscribe, Idle
  <1>2. PICK ch \in Ascending(rest) : sess' = [sess EXCEPT ![s].subs = subs(ch)]
    BY DEF handle_unsubscribe
  <1>3. /\ Gentle
        /\ \A r \in Slots : r # s => sess'[r] = sess[r]
        /\ sess'[s].subs = subs(ch) /\ sess'[s].client_id = sess[s].client_id
    BY <1>1, <1>2, Resubscribed
  <1>4. TaskShape' /\ Jobs({})
    BY <1>1, NoJobs DEF TaskShape
  <1>5. ASSUME PacketInv PROVE LocksRespected({}) /\ LocksFree'
    BY <1>1, <1>5 DEF PacketInv, LocksRespected, LocksFree, Holds, InUse
  <1>6. ASSUME IsolationInv PROVE Filtered'
    <2>1. IsSeq(old)
      BY <1>6 DEF IsolationInv, Filtered, FilterOk
    <2>2. Cardinality(rest) \in Nat /\ ch \in [1 .. Cardinality(rest) -> rest]
      <3>1. rest \subseteq 1 .. Len(old) /\ Len(old) \in Nat
        BY <2>1, SeqFacts
      <3>2. IsFiniteSet(1 .. Len(old))
        BY <3>1, FS_Interval
      <3>3. IsFiniteSet(rest)
        BY <3>1, <3>2, FS_Subset
      <3> HIDE DEF rest
      <3> QED
        BY <3>3, FS_CardinalityType DEF Ascending
    <2>3. subs(ch) = [i \in 1 .. Cardinality(rest) |-> subs(ch)[i]]
      BY <2>2
    <2>4. IsSeq(subs(ch)) /\ DOMAIN subs(ch) = 1 .. Cardinality(rest)
      BY <2>2, <2>3, ListFacts
    <2>5. \A i \in DOMAIN subs(ch) : ch[i] \in DOMAIN old /\ subs(ch)[i] = old[ch[i]]
      BY <2>2
    <2>6. \A i \in DOMAIN subs(ch) :
              /\ subs(ch)[i].filter \in Seq(STRING)
              /\ acl_can_subscribe(sess[s].client_id, subs(ch)[i].filter)
      BY <1>6, <2>5 DEF IsolationInv, Filtered, FilterOk
    <2> HIDE DEF subs
    <2>7. \A r \in Slots :
              /\ IsSeq(sess'[r].subs)
              /\ \A i \in DOMAIN sess'[r].subs :
                   /\ sess'[r].subs[i].filter \in Seq(STRING)
                   /\ acl_can_subscribe(sess'[r].client_id, sess'[r].subs[i].filter)
              /\ pc'[r] = "connect" => sess'[r].subs = <<>>
      BY <1>1, <1>3, <1>6, <2>4, <2>6 DEF IsolationInv, Filtered, FilterOk
    <2> QED
      BY <2>7 DEF Filtered, FilterOk, acl_can_subscribe, acl_can_access_self_contract
  <1> QED
    BY <1>1, <1>3, <1>4, <1>5, <1>6, GentleStep

-----------------------------------------------------------------------------
(* A session is opened, named or retired *)

(* The other sessions only follow, *)
OthersFollow(s) ==
    \A r \in Slots : r # s =>
        /\ Follows(sess[r], sess'[r]) /\ pc'[r] = pc[r] /\ pending'[r] = pending[r]
        /\ sess'[r].subs \in {sess[r].subs, <<>>}

(* and none of them has the client of the one that is opened or named. *)
NoTwin(s) ==
    \A r \in Slots : Live(s)' /\ Live(r)' /\ sess'[s].client_id # Nil
                     /\ sess'[r].client_id = sess'[s].client_id => r = s

\* What is left to show of a step that does one of these to slot s
LEMMA SlotStep ==
    ASSUME Base, NEW s \in Slots, job' = job, tx' = tx, TaskShape',
           DOMAIN sess' = Slots, IsSession(sess'[s]), LifeOk(s)',
           OthersFollow(s),
           OneSessionPerClient => NoTwin(s),
           PacketInv => /\ pending'[s] = pending[s] \/ tx[s] = Nil
                        /\ pc'[s] \in {"none", "retire"} => tx[s] = Nil,
           IsolationInv => job[s] = NoJob /\ SocketOk(s)' /\ FilterOk(s)' /\ WillOk(s)'
    PROVE  Keeps
  <1> USE DEF Base, Shape, OthersFollow
  <1>1. SessionShape'
    BY DEF SessionShape, Follows
  <1>2. SlotLife'
    <2>1. ASSUME NEW r \in Slots, r # s PROVE LifeOk(r)'
      BY <2>1 DEF SlotLife, LifeOk, Follows
    <2> QED
      BY <2>1 DEF SlotLife
  <1>3. ASSUME OneSessionPerClient PROVE OneSessionPerClient'
    <2>1. \A r \in Slots : r # s /\ Live(r)' =>
              Live(r) /\ sess'[r].client_id = sess[r].client_id
      BY DEF Live, Follows, IsSession
    <2>2. ASSUME NEW q \in Slots, NEW r \in Slots, Live(q)', Live(r)',
                 sess'[q].client_id = sess'[r].client_id, sess'[q].client_id # Nil
          PROVE  q = r
      <3>1. CASE q # s /\ r # s
        BY <1>3, <2>1, <2>2, <3>1 DEF OneSessionPerClient
      <3>2. CASE q = s \/ r = s
        BY <1>3, <2>2, <3>2 DEF NoTwin
      <3> QED
        BY <3>1, <3>2
    <2> QED
      BY <2>2 DEF OneSessionPerClient
  <1>4. Jobs({})
    BY NoJobs
  <1>5. ASSUME PacketInv PROVE PacketInv'
    <2>1. \A r \in Slots : tx[r] \in Tasks => pending'[r] = pending[r]
      BY <1>5, BrokerAssumption
    <2>2. LocksRespected({})
      BY <2>1 DEF LocksRespected, Holds, InUse
    <2>3. LocksFree'
      BY <1>5 DEF PacketInv, LocksFree
    <2> QED
      BY <1>4, <1>5, <2>2, <2>3, JobsKeep
  <1>6. ASSUME IsolationInv PROVE IsolationInv'
    <2>1. \A r \in Slots : r # s => sess'[r].client_id = sess[r].client_id
      BY DEF Follows
    <2>2. JobsInv'
      BY <1>4, <1>6, <2>1, JobsKeep DEF IsolationInv
    <2>3. ASSUME NEW r \in Slots, r # s PROVE SocketOk(r)' /\ WillOk(r)' /\ FilterOk(r)'
      <3>1. SocketOk(r)' /\ WillOk(r)'
        BY <1>6, <2>3 DEF IsolationInv, Sockets, SocketOk, Wills, WillOk, Follows, IsSession
      <3>2. FilterOk(r)'
        BY <1>6, <2>1, <2>3, FilterKept DEF IsolationInv, Filtered
      <3> QED
        BY <3>1, <3>2
    <2> QED
      BY <1>6, <2>2, <2>3 DEF IsolationInv, Sockets, Wills, Filtered
  <1> QED
    BY <1>1, <1>2, <1>3, <1>4, <1>5, <1>6, JobsKeep DEF Keeps

\* free_session, second lock section: the slot waits for its reuse.
LEMMA KeepsRetire ==
    ASSUME Base, NEW s \in Slots, free_session_retire(s)
    PROVE  Keeps
  <1> USE DEF Base, Shape
  <1>1. /\ job' = job /\ tx' = tx /\ pending' = pending
        /\ pc[s] = "retire" /\ pc'[s] = "none" /\ TaskShape'
        /\ \A r \in Slots : r # s => pc'[r] = pc[r]
    BY DEF free_session_retire, TaskShape, Places
  <1>2. /\ DOMAIN sess' = Slots /\ \A r \in Slots : r # s => sess'[r] = sess[r]
        /\ sess'[s] = [sess[s] EXCEPT !.active = FALSE, !.closing = FALSE, !.retiring = TRUE]
        /\ IsSession(sess[s])
    BY DEF free_session_retire, SessionShape
  <1>3. /\ IsSession(sess'[s])
        /\ ~sess'[s].active /\ sess'[s].sock = sess[s].sock
        /\ sess'[s].client_id = sess[s].client_id /\ sess'[s].will = sess[s].will
        /\ sess'[s].subs = sess[s].subs
    BY <1>2 DEF IsSession, SessionFields
  <1>4. LifeOk(s)' /\ ~Live(s)'
    BY <1>1, <1>3 DEF LifeOk, Live
  <1>5. OthersFollow(s) /\ NoTwin(s)
    BY <1>1, <1>2, <1>4, Stays DEF SessionShape, OthersFollow, NoTwin
  <1>6. PacketInv => tx[s] = Nil
    BY <1>1 DEF PacketInv, LocksFree
  <1>7. ASSUME IsolationInv
        PROVE  job[s] = NoJob /\ SocketOk(s)' /\ FilterOk(s)' /\ WillOk(s)'
    <2>1. job[s] = NoJob
      <3>1. s \in Tasks
        BY DEF Tasks
      <3>2. job[s].stage = "none"
        BY <1>1, <1>7, <3>1 DEF IsolationInv, JobsInv, JobOk
      <3> QED
        BY <1>7, <3>2, AtRest
    <2>2. SocketOk(s) /\ FilterOk(s) /\ WillOk(s)
      BY <1>7 DEF IsolationInv, Sockets, Filtered, Wills
    <2>3. SocketOk(s)' /\ WillOk(s)'
      BY <1>3, <2>2 DEF SocketOk, WillOk
    <2>4. FilterOk(s)'
      BY <1>1, <1>3, <2>2, FilterKept
    <2> QED
      BY <2>1, <2>3, <2>4
  <1> QED
    BY <1>1, <1>2, <1>3, <1>4, <1>5, <1>6, <1>7, SlotStep

\* CONNECT: the session of the same client goes as this one gets its name.
LEMMA KeepsConnect ==
    ASSUME Base, NEW s \in Slots, handle_connect(s)
    PROVE  Keeps
  <1> USE DEF Base, Shape
  <1> DEFINE con == ConnectOf[sess[s].sock]
             old == find_session_by_client_id(con.client_id)
  <1>1. /\ job' = job /\ tx' = tx /\ pending' = pending
        /\ pc[s] = "connect" /\ pc'[s] \in {"loop", "cleanup"} /\ TaskShape'
        /\ \A r \in Slots : r # s => pc'[r] = pc[r]
        /\ sess[s].sock # Nil
    BY DEF handle_connect, TaskShape, Places
  <1>2. \/ sess' = sess
        \/ sess' = [r \in Slots |->
                     IF r = s THEN [sess[s] EXCEPT !.client_id = con.client_id,
                                                   !.will = con.will]
                     ELSE IF r \in old THEN TakenOver(sess[r]) ELSE sess[r]]
    BY DEF handle_connect
  <1>3. IsSession(sess[s]) /\ LifeOk(s)
    BY DEF SessionShape, SlotLife
  <1>4. ASSUME IsolationInv
        PROVE  /\ job[s] = NoJob /\ SocketOk(s) /\ FilterOk(s) /\ WillOk(s)
               /\ sess[s].subs = <<>>
    <2>1. s \in Tasks
      BY DEF Tasks
    <2>2. job[s].stage = "none"
      BY <1>1, <1>4, <2>1 DEF IsolationInv, JobsInv, JobOk
    <2>3. SocketOk(s) /\ FilterOk(s) /\ WillOk(s)
      BY <1>4 DEF IsolationInv, Sockets, Filtered, Wills
    <2> QED
      BY <1>1, <1>4, <2>2, <2>3, AtRest DEF FilterOk
  <1>5. CASE sess' = sess
    <2>1. LifeOk(s)'
      BY <1>1, <1>3, <1>5 DEF LifeOk
    <2>2. OthersFollow(s)
      BY <1>1, <1>5, Stays DEF SessionShape, OthersFollow
    <2>3. OneSessionPerClient => NoTwin(s)
      BY <1>5 DEF OneSessionPerClient, Live, NoTwin
    <2>4. IsolationInv => SocketOk(s)' /\ FilterOk(s)' /\ WillOk(s)'
      BY <1>1, <1>4, <1>5 DEF SocketOk, FilterOk, WillOk
    <2>5. DOMAIN sess' = Slots /\ IsSession(sess'[s])
      BY <1>3, <1>5 DEF SessionShape
    <2> QED
      BY <1>1, <1>4, <1>5, <2>1, <2>2, <2>3, <2>4, <2>5, SlotStep
  <1>6. CASE sess' = [r \in Slots |->
                     IF r = s THEN [sess[s] EXCEPT !.client_id = con.client_id,
                                                   !.will = con.will]
                     ELSE IF r \in old THEN TakenOver(sess[r]) ELSE sess[r]]
    <2>1. /\ DOMAIN sess' = Slots
          /\ sess'[s] = [sess[s] EXCEPT !.client_id = con.client_id, !.will = con.will]
          /\ \A r \in Slots : r # s =>
                sess'[r] = IF r \in old THEN TakenOver(sess[r]) ELSE sess[r]
      BY <1>6
    <2>2. /\ IsSession(sess'[s]) /\ sess'[s].active = sess[s].active
          /\ sess'[s].closing = sess[s].closing /\ sess'[s].retiring = sess[s].retiring
          /\ sess'[s].sock = sess[s].sock /\ sess'[s].subs = sess[s].subs
          /\ sess'[s].client_id = con.client_id /\ sess'[s].will = con.will
      BY <1>3, <2>1 DEF IsSession, SessionFields
    <2>3. LifeOk(s)'
      BY <1>1, <1>3, <2>2 DEF LifeOk
    <2>4. ASSUME NEW r \in Slots, r # s
          PROVE  /\ Follows(sess[r], sess'[r])
                 /\ sess'[r].subs \in {sess[r].subs, <<>>}
                 /\ r \in old => sess'[r].closing
      <3>1. IsSession(sess[r])
        BY DEF SessionShape
      <3>2. CASE r \in old
        <4>1. sess'[r] = TakenOver(sess[r])
          BY <2>1, <2>4, <3>2
        <4>2. Follows(sess[r], sess'[r])
          BY <3>1, <4>1, Closes
        <4> QED
          BY <3>1, <4>1, <4>2
             DEF TakenOver, request_session_prepare_close, IsSession, SessionFields
      <3>3. CASE r \notin old
        BY <2>1, <2>4, <3>1, <3>3, Stays
      <3> QED
        BY <3>2, <3>3
    <2>5. ASSUME OneSessionPerClient,
                 NEW r \in Slots, Live(s)', sess'[s].client_id # Nil,
                 Live(r)', sess'[r].client_id = sess'[s].client_id, r # s
          PROVE  FALSE
      <3>1. r \notin old
        BY <2>4, <2>5 DEF Live
      <3>2. Named(r, con.client_id)
        BY <2>1, <2>2, <2>5, <3>1 DEF Named, Live
      <3>3. PICK q \in 1 .. r - 1 : Named(q, con.client_id)
        BY <3>1, <3>2 DEF find_session_by_client_id
      <3>4. q \in Slots /\ q # r
        BY BrokerAssumption DEF Slots
      <3> QED
        BY <2>2, <2>5, <3>2, <3>3, <3>4 DEF OneSessionPerClient, Named
    <2>6. ASSUME IsolationInv PROVE SocketOk(s)' /\ FilterOk(s)' /\ WillOk(s)'
      <3>1. sess[s].sock \in Conns
        BY <1>1, <1>4, <2>6 DEF SocketOk
      <3>2. con.will = Nil \/ con.will.topic \in Seq(STRING)
        BY <3>1, BrokerAssumption
      <3>3. SocketOk(s)'
        BY <1>1, <2>2, <3>1 DEF SocketOk
      <3>4. FilterOk(s)'
        BY <1>1, <1>4, <2>2, <2>6 DEF FilterOk
      <3> QED
        BY <2>2, <3>2, <3>3, <3>4 DEF WillOk
    <2>7. OthersFollow(s) /\ (OneSessionPerClient => NoTwin(s))
      BY <1>1, <2>4, <2>5 DEF OthersFollow, NoTwin
    <2> QED
      BY <1>1, <1>4, <2>1, <2>2, <2>3, <2>6, <2>7, SlotStep
  <1> QED
    BY <1>2, <1>5, <1>6

\* A connection is accepted: the slots whose delay is over are back, and it
\* gets the first free one, or its client's old session is closed.
LEMMA KeepsAccept ==
    ASSUME Base, NEW c \in Conns, NEW over \in SUBSET {s \in Slots : sess[s].retiring},
           accept_task(c, over)
    PROVE  Keeps
  <1> USE DEF Base, Shape
  <1> DEFINE reaped == [s \in Slots |->
               IF s \in over THEN [sess[s] EXCEPT !.retiring = FALSE] ELSE sess[s]]
             opened == [FreeSession EXCEPT !.active = TRUE, !.sock = c]
             old == find_session_by_client_id(ConnectOf[c].client_id)
  <1>1. job' = job /\ tx' = tx
    BY DEF accept_task
  <1>2. ASSUME NEW r \in Slots
        PROVE  /\ Follows(sess[r], reaped[r]) /\ reaped[r].subs = sess[r].subs
               /\ Follows(sess[r], TakenOver(reaped[r])) /\ TakenOver(reaped[r]).subs = <<>>
    <2>1. IsSession(sess[r]) /\ (sess[r].retiring => ~sess[r].active)
      BY DEF SessionShape, SlotLife, LifeOk
    <2>2. CASE r \in over
      <3>1. reaped[r] = [sess[r] EXCEPT !.retiring = FALSE] /\ sess[r].retiring
        BY <2>2
      <3>2. Follows(sess[r], reaped[r]) /\ reaped[r].subs = sess[r].subs
        BY <2>1, <3>1 DEF Follows, IsSession, SessionFields
      <3>3. TakenOver(reaped[r]) = [reaped[r] EXCEPT !.closing = TRUE, !.subs = <<>>,
                                        !.sock = Nil, !.suppress_will = TRUE]
        BY DEF TakenOver, request_session_prepare_close
      <3>4. Follows(sess[r], TakenOver(reaped[r])) /\ TakenOver(reaped[r]).subs = <<>>
        BY <3>2, <3>3 DEF Follows, IsSession, SessionFields
      <3> QED
        BY <3>2, <3>4
    <2>3. CASE r \notin over
      <3>1. reaped[r] = sess[r]
        BY <2>3
      <3>2. Follows(sess[r], reaped[r])
        BY <2>1, <3>1, Stays
      <3>3. Follows(sess[r], TakenOver(reaped[r]))
        BY <2>1, <3>1, Closes
      <3>4. TakenOver(reaped[r]).subs = <<>>
        BY <2>1, <3>1 DEF TakenOver, request_session_prepare_close, IsSession, SessionFields
      <3> QED
        BY <3>1, <3>2, <3>3, <3>4
    <2> QED
      BY <2>2, <2>3
  <1>3. /\ IsSession(opened) /\ opened.active /\ ~opened.retiring
        /\ opened.sock = c /\ opened.client_id = Nil /\ opened.subs = <<>>
        /\ opened.will = Nil
    BY DEF FreeSession, IsSession, SessionFields
  <1>4. ASSUME NEW s \in alloc_session(over),
               sess' = [reaped EXCEPT ![s] = opened],
               pending' = [pending EXCEPT ![s] = NoPackets],
               pc' = [pc EXCEPT ![s] = "connect"]
        PROVE  Keeps
    <2>1. s \in Slots /\ pc[s] = "none"
      BY DEF alloc_session, SlotLife, LifeOk
    <2>2. /\ DOMAIN sess' = Slots /\ sess'[s] = opened
          /\ \A r \in Slots : r # s => sess'[r] = reaped[r]
      BY <1>4, <2>1
    <2>3. /\ TaskShape' /\ pc'[s] = "connect"
          /\ \A r \in Slots : r # s => pc'[r] = pc[r] /\ pending'[r] = pending[r]
      BY <1>1, <1>4, <2>1, FreeFacts DEF TaskShape, Places
    <2> HIDE DEF reaped, opened
    <2>4. OthersFollow(s)
      BY <1>2, <2>2, <2>3 DEF OthersFollow
    <2>5. LifeOk(s)' /\ NoTwin(s) /\ WillOk(s)'
      BY <1>3, <2>2, <2>3 DEF LifeOk, NoTwin, WillOk
    <2>6. SocketOk(s)'
      BY <1>3, <2>2, BrokerAssumption DEF SocketOk
    <2>7. FilterOk(s)'
      <3>0. sess'[s].subs = <<>>
        BY <1>3, <2>2
      <3>1. sess'[s].subs \in Seq({}) /\ DOMAIN sess'[s].subs = {}
        BY <3>0
      <3>2. IsSeq(sess'[s].subs)
        BY <3>1 DEF IsSeq
      <3> QED
        BY <1>3, <2>2, <3>1, <3>2 DEF FilterOk
    <2>8. PacketInv => tx[s] = Nil
      BY <2>1 DEF PacketInv, LocksFree
    <2>9. ASSUME IsolationInv PROVE job[s] = NoJob
      <3>1. s \in Tasks
        BY <2>1 DEF Tasks
      <3>2. job[s].stage = "none"
        BY <2>1, <2>9, <3>1 DEF IsolationInv, JobsInv, JobOk
      <3> QED
        BY <2>1, <2>9, <3>2, AtRest
    <2> QED
      BY <1>1, <1>3, <2>1, <2>2, <2>3, <2>4, <2>5, <2>6, <2>7, <2>8, <2>9, SlotStep
  <1>5. ASSUME sess' = [s \in Slots |->
                            IF s \in old THEN TakenOver(reaped[s]) ELSE reaped[s]],
               pending' = pending, pc' = pc
        PROVE  Keeps
    <2> HIDE DEF reaped, old
    <2>1. Gentle /\ Unsubscribed
      BY <1>2, <1>5 DEF Gentle, Unsubscribed, Moves, TaskShape
    <2>2. TaskShape' /\ Jobs({})
      BY <1>1, <1>5, NoJobs DEF TaskShape
    <2>3. ASSUME PacketInv PROVE LocksRespected({}) /\ LocksFree'
      BY <1>1, <1>5, <2>3 DEF PacketInv, LocksRespected, LocksFree, Holds, InUse
    <2>4. IsolationInv => Filtered'
      BY <2>1, GentleKeeps DEF IsolationInv
    <2> QED
      BY <1>5, <2>1, <2>2, <2>3, <2>4, GentleStep
  <1> QED
    BY <1>4, <1>5 DEF accept_task

-----------------------------------------------------------------------------
(* The byte budget *)

(* A session that is over has given its packets back: only then is the      *)
(* count still right when its slot, and its table, are used again.          *)
Ended == {"none", "retire"}

EndedEmpty == \A s \in Slots : pc[s] \in Ended => \A i \in Packets : ~InUse(s, i)

BudgetInv == BudgetExact /\ EndedEmpty

(* A step that reserves and frees nothing, and ends no session *)
Calm ==
    /\ bytes' = bytes
    /\ \A s \in Slots, i \in Packets : InUse(s, i)' = InUse(s, i)
    /\ \A s \in Slots : pc'[s] \in Ended => pc[s] \in Ended

\* There are finitely many packets in the tables.
LEMMA WaitingFinite ==
    IsFiniteSet(Waiting) /\ Cardinality(Waiting) \in Nat
  <1>1. IsFiniteSet(Slots) /\ IsFiniteSet(Packets)
    BY BrokerAssumption, FS_Interval DEF Slots, Packets
  <1>2. IsFiniteSet(Slots \X Packets)
    BY <1>1, FS_Product
  <1>3. Waiting \in SUBSET (Slots \X Packets)
    BY DEF Waiting
  <1> QED
    BY <1>2, <1>3, FS_Subset, FS_CardinalityType

\* Who waits, by slot and entry
LEMMA WaitingFacts ==
    /\ \A s \in Slots, i \in Packets : <<s, i>> \in Waiting <=> InUse(s, i)
    /\ \A x \in Waiting : \E s \in Slots, i \in Packets : x = <<s, i>> /\ InUse(s, i)
  BY DEF Waiting

\* A calm step keeps the budget.
LEMMA CalmKeeps ==
    ASSUME BudgetInv, Calm
    PROVE  BudgetInv'
  <1>1. Waiting' = Waiting
    BY DEF Calm, Waiting
  <1> QED
    BY <1>1 DEF BudgetInv, BudgetExact, EndedEmpty, Calm

\* A packet is put into a free entry of a session in use.
LEMMA ReserveKeepsBudget ==
    ASSUME Base, BudgetInv, NEW p \in Tasks, reserve_qos1(p)
    PROVE  BudgetInv'
  <1> USE DEF Base, Shape
  <1>1. pc' = pc /\ job[p].todo # <<>>
    BY DEF reserve_qos1
  <1>2. PICK s \in Slots : s = Target(p).slot
    BY <1>1, TargetFacts
  <1>3. CASE pending' = pending /\ bytes' = bytes
    BY <1>1, <1>3, CalmKeeps DEF Calm, InUse
  <1>4. CASE /\ Current(Target(p)) /\ bytes' = bytes + 1
             /\ \E i \in first_free(s) : pending' = [pending EXCEPT ![s][i] =
                      [in_use |-> TRUE, pid |-> Target(p).pid, sent |-> 0]]
    <2> DEFINE x == [in_use |-> TRUE, pid |-> Target(p).pid, sent |-> 0]
    <2>1. PICK i \in first_free(s) : pending' = [pending EXCEPT ![s][i] = x]
      BY <1>4
    <2>2. x.in_use /\ IsEntry(x)
      BY DEF IsEntry
    <2> HIDE DEF x
    <2>3. i \in Packets /\ ~InUse(s, i)
      BY DEF first_free
    <2>4. /\ DOMAIN pending' = Slots /\ pending'[s] = [pending[s] EXCEPT ![i] = x]
          /\ \A r \in Slots : r # s => pending'[r] = pending[r]
      BY <2>1, <2>3 DEF TaskShape
    <2>5. /\ InUse(s, i)'
          /\ \A r \in Slots, j \in Packets : <<r, j>> # <<s, i>> => InUse(r, j)' = InUse(r, j)
      <3>1. /\ pending'[s][i] = x
            /\ \A j \in Packets : j # i => pending'[s][j] = pending[s][j]
        BY <2>2, <2>3, <2>4, EntryPut DEF TaskShape
      <3>2. \A r \in Slots, j \in Packets :
                r # s \/ j # i => pending'[r][j] = pending[r][j]
        BY <2>4, <3>1
      <3> QED
        BY <2>2, <3>1, <3>2 DEF InUse
    <2>6. <<s, i>> \notin Waiting
      BY <2>3, WaitingFacts
    <2>7. Waiting' = Waiting \cup {<<s, i>>}
      BY <2>3, <2>5 DEF Waiting
    <2>8. Cardinality(Waiting') = Cardinality(Waiting) + 1
      BY <2>6, <2>7, WaitingFinite, FS_AddElement
    <2>9. pc[s] \notin Ended
      BY <1>2, <1>4 DEF Current, SlotLife, LifeOk, Ended
    <2> QED
      BY <1>1, <1>4, <2>5, <2>8, <2>9 DEF BudgetInv, BudgetExact, EndedEmpty
  <1> QED
    BY <1>2, <1>3, <1>4 DEF reserve_qos1

\* An acknowledged packet gives back what it took.
LEMMA PubackKeepsBudget ==
    ASSUME Base, BudgetInv, NEW s \in Slots, NEW pid, handle_puback(s, pid)
    PROVE  BudgetInv'
  <1> USE DEF Base, Shape
  <1>1. pc' = pc /\ bytes' = Released(1)
    BY DEF handle_puback, mqtt_qos1_handle_puback
  <1>2. PICK i \in acknowledged(s, pid) : pending' = [pending EXCEPT ![s][i] = FreeEntry]
    BY DEF handle_puback, mqtt_qos1_handle_puback
  <1>3. i \in Packets /\ InUse(s, i)
    BY DEF acknowledged, Holds
  <1>4. /\ DOMAIN pending' = Slots /\ pending'[s] = [pending[s] EXCEPT ![i] = FreeEntry]
        /\ \A r \in Slots : r # s => pending'[r] = pending[r]
    BY <1>2, <1>3 DEF TaskShape
  <1>5. /\ ~InUse(s, i)'
        /\ \A r \in Slots, j \in Packets : <<r, j>> # <<s, i>> => InUse(r, j)' = InUse(r, j)
    <2>1. /\ pending'[s][i] = FreeEntry
          /\ \A j \in Packets : j # i => pending'[s][j] = pending[s][j]
      BY <1>3, <1>4, EntryPut, FreeFacts DEF TaskShape
    <2>2. \A r \in Slots, j \in Packets :
              r # s \/ j # i => pending'[r][j] = pending[r][j]
      BY <1>4, <2>1
    <2> QED
      BY <2>1, <2>2, FreeFacts DEF InUse
  <1>6. <<s, i>> \in Waiting
    BY <1>3, WaitingFacts
  <1>7. Waiting' = Waiting \ {<<s, i>>}
    BY <1>3, <1>5 DEF Waiting
  <1>8. Cardinality(Waiting') = Cardinality(Waiting) - 1 /\ Cardinality(Waiting) # 0
    BY <1>6, <1>7, WaitingFinite, FS_RemoveElement, FS_EmptySet
  <1>9. bytes' = Cardinality(Waiting')
    BY <1>1, <1>8, WaitingFinite DEF BudgetInv, BudgetExact, Released
  <1>10. EndedEmpty'
    BY <1>1, <1>3, <1>5 DEF BudgetInv, EndedEmpty
  <1> QED
    BY <1>9, <1>10 DEF BudgetInv, BudgetExact

\* The end of a session gives back what all its packets took.
LEMMA FreeKeepsBudget ==
    ASSUME Base, BudgetInv, NEW s \in Slots, free_session(s)
    PROVE  BudgetInv'
  <1> USE DEF Base, Shape
  <1> DEFINE own == {i \in Packets : InUse(s, i)}
  <1>1. /\ bytes' = Released(Cardinality(own))
        /\ DOMAIN pending' = Slots /\ pending'[s] = NoPackets
        /\ \A r \in Slots : r # s => pending'[r] = pending[r] /\ pc'[r] = pc[r]
    BY DEF free_session, free_session_clear, TaskShape
  <1>2. /\ \A i \in Packets : ~InUse(s, i)'
        /\ \A r \in Slots, i \in Packets : r # s => InUse(r, i)' = InUse(r, i)
    BY <1>1, FreeFacts DEF InUse
  <1>3. Waiting' = Waiting \ ({s} \X own)
    BY <1>2 DEF Waiting
  <1>4. {s} \X own \subseteq Waiting
    BY DEF Waiting
  <1>5. IsFiniteSet(own)
    <2>1. IsFiniteSet(Packets) /\ own \in SUBSET Packets
      BY BrokerAssumption, FS_Interval DEF Packets
    <2> QED
      BY <2>1, FS_Subset
  <1>6. IsFiniteSet({s}) /\ Cardinality({s}) = 1 /\ Cardinality(own) \in Nat
    BY <1>5, FS_Singleton, FS_CardinalityType
  <1> HIDE DEF own
  <1>7. Cardinality({s} \X own) = Cardinality(own)
    <2>1. Cardinality({s} \X own) = 1 * Cardinality(own)
      BY <1>5, <1>6, FS_Product
    <2> QED
      BY <1>6, <2>1
  <1>8. Waiting \cap ({s} \X own) = {s} \X own
    BY <1>4
  <1>9. Cardinality(Waiting') = Cardinality(Waiting) - Cardinality(own)
    <2>1. Cardinality(Waiting \ ({s} \X own))
            = Cardinality(Waiting) - Cardinality(Waiting \cap ({s} \X own))
      BY WaitingFinite, FS_Difference
    <2> QED
      BY <1>3, <1>7, <1>8, <2>1
  <1>10. Cardinality(own) <= Cardinality(Waiting)
    BY <1>4, <1>7, WaitingFinite, FS_Subset
  <1>11. bytes' = Cardinality(Waiting')
    BY <1>1, <1>6, <1>9, <1>10, WaitingFinite DEF BudgetInv, BudgetExact, Released
  <1>12. EndedEmpty'
    BY <1>1, <1>2 DEF BudgetInv, EndedEmpty
  <1> QED
    BY <1>11, <1>12 DEF BudgetInv, BudgetExact

\* Counting the sendings of a packet takes none in and none out.
LEMMA CountedIsCalm ==
    ASSUME Base, NEW s \in Slots, NEW i, NEW n, pc' = pc, bytes' = bytes,
           \/ pending' = pending
           \/ i \in Packets /\ pending' = [pending EXCEPT ![s][i].sent = n]
    PROVE  Calm
  <1> USE DEF Base, Shape, TaskShape
  <1>1. CASE pending' = pending
    BY <1>1 DEF Calm, InUse
  <1>2. CASE i \in Packets /\ pending' = [pending EXCEPT ![s][i].sent = n]
    <2>1. /\ pending'[s] = [pending[s] EXCEPT ![i].sent = n]
          /\ \A r \in Slots : r # s => pending'[r] = pending[r]
      BY <1>2
    <2>2. \A j \in Packets : pending'[s][j].in_use = pending[s][j].in_use
      BY <1>2, <2>1, EntryCounted
    <2> QED
      BY <2>1, <2>2 DEF Calm, InUse
  <1> QED
    BY <1>1, <1>2

\* A new session starts with an empty table; the slot's last one left none.
LEMMA AcceptIsCalm ==
    ASSUME Base, BudgetInv, NEW c, NEW over \in SUBSET Slots, accept_task(c, over)
    PROVE  Calm
  <1> USE DEF Base, Shape, TaskShape
  <1>1. CASE pending' = pending /\ pc' = pc
    BY <1>1 DEF accept_task, Calm, InUse
  <1>2. CASE \E s \in alloc_session(over) :
                /\ pending' = [pending EXCEPT ![s] = NoPackets]
                /\ pc' = [pc EXCEPT ![s] = "connect"]
    <2>1. PICK s \in alloc_session(over) :
                /\ pending' = [pending EXCEPT ![s] = NoPackets]
                /\ pc' = [pc EXCEPT ![s] = "connect"]
      BY <1>2
    <2>2. s \in Slots /\ pc[s] = "none"
      BY DEF alloc_session, SlotLife, LifeOk
    <2>3. \A i \in Packets : ~InUse(s, i) /\ ~InUse(s, i)'
      BY <2>1, <2>2, FreeFacts DEF BudgetInv, EndedEmpty, Ended, InUse
    <2>4. \A r \in Slots : r # s => pending'[r] = pending[r] /\ pc'[r] = pc[r]
      BY <2>1, <2>2
    <2>5. pc'[s] = "connect" /\ bytes' = bytes
      BY <2>1, <2>2 DEF accept_task
    <2>6. \A r \in Slots, i \in Packets : InUse(r, i)' = InUse(r, i)
      <3> SUFFICES ASSUME NEW r \in Slots, NEW i \in Packets
                   PROVE  InUse(r, i)' = InUse(r, i)
        OBVIOUS
      <3>1. CASE r = s
        <4>1. /\ InUse(r, i) \in BOOLEAN
              /\ InUse(r, i)' = NoPackets[i].in_use
          BY <2>1, <2>2, <3>1 DEF InUse, IsTable, IsEntry
        <4> QED
          BY <2>3, <3>1, <4>1, FreeFacts DEF IsTable, IsEntry
      <3>2. CASE r # s
        BY <2>4, <3>2 DEF InUse
      <3> QED
        BY <3>1, <3>2
    <2> QED
      BY <2>4, <2>5, <2>6 DEF Calm, Ended
  <1> QED
    BY <1>1, <1>2 DEF accept_task

-----------------------------------------------------------------------------
(* The theorems *)

\* Every step keeps the shape and each of the invariants.
LEMMA StepKeeps ==
    ASSUME Base, [BrokerNext]_broker_vars
    PROVE  Keeps
  <1>1. CASE UNCHANGED broker_vars
    <2>1. /\ sess' = sess /\ pc' = pc /\ tx' = tx /\ pending' = pending /\ job' = job
      BY <1>1 DEF broker_vars
    <2>2. Gentle /\ Unsubscribed
      BY <2>1, Stays DEF Base, Shape, Gentle, Unsubscribed, Moves, SessionShape, TaskShape
    <2>3. TaskShape' /\ Jobs({})
      BY <2>1, NoJobs DEF Base, Shape, TaskShape
    <2>4. ASSUME PacketInv PROVE LocksRespected({}) /\ LocksFree'
      BY <2>1, <2>4 DEF PacketInv, LocksRespected, LocksFree, Holds, InUse
    <2>5. IsolationInv => Filtered'
      BY <2>2, GentleKeeps DEF Base, IsolationInv
    <2> QED
      BY <2>1, <2>2, <2>3, <2>4, <2>5, GentleStep
  <1>2. ASSUME NEW c \in Conns, NEW over \in SUBSET {s \in Slots : sess[s].retiring},
               accept_task(c, over)
        PROVE  Keeps
    BY <1>2, KeepsAccept
  <1>3. ASSUME NEW s \in Slots, ClientStep(s) PROVE Keeps
    <2>1. CASE handle_connect(s) \/ client_fails(s) \/ handle_disconnect(s)
      BY <2>1, KeepsConnect, KeepsFails, KeepsDisconnect
    <2>2. ASSUME NEW u \in Subscribes, handle_subscribe(s, u.filter, u.qos) PROVE Keeps
      BY <2>2, KeepsSubscribe
    <2>3. ASSUME NEW f \in Filters, handle_unsubscribe(s, f) PROVE Keeps
      BY <2>3, KeepsUnsubscribe
    <2>4. ASSUME NEW m \in Publishes, handle_publish(s, m.topic, m.qos, m.retain, m.empty)
          PROVE  Keeps
      BY <2>4, KeepsPublish
    <2>5. ASSUME NEW pid \in 1 .. PID_MAX, handle_puback(s, pid) PROVE Keeps
      BY <2>5, KeepsPuback
    <2>6. ASSUME NEW i \in Packets, mqtt_qos1_retry_due(s, i) PROVE Keeps
      BY <2>6, KeepsRetry
    <2>7. ASSUME NEW rc \in Results, retry_sent(s, rc) PROVE Keeps
      BY <2>7, KeepsRetried
    <2>8. CASE deliver_retain(s)
      BY <2>8, KeepsRetained
    <2>9. CASE CleanupStep(s)
      BY <2>9, KeepsWill, KeepsFree, KeepsRetire DEF CleanupStep
    <2> QED
      BY <1>3, <2>1, <2>2, <2>3, <2>4, <2>5, <2>6, <2>7, <2>8, <2>9 DEF ClientStep
  <1>4. ASSUME NEW s \in Slots, sweep_idle_sessions(s) PROVE Keeps
    BY <1>4, KeepsSweep
  <1>5. ASSUME NEW p \in Tasks, SenderStep(p) PROVE Keeps
    BY <1>5, KeepsReserve, KeepsTake, KeepsSend, KeepsDone DEF SenderStep
  <1>6. ASSUME NEW m \in Publishes, mqtt_core_publish_qos(m.topic, m.qos) PROVE Keeps
    BY <1>6, KeepsHubPublish
  <1> QED
    BY <1>1, <1>2, <1>3, <1>4, <1>5, <1>6 DEF BrokerNext

\* The broker starts with free slots and tasks at rest.
LEMMA StartIsSafe ==
    ASSUME BrokerInit
    PROVE  Base /\ OneSessionPerClient /\ PacketInv /\ IsolationInv
  <1>1. /\ IsSession(FreeSession)
        /\ ~FreeSession.active /\ ~FreeSession.retiring
        /\ FreeSession.sock = Nil /\ FreeSession.client_id = Nil
        /\ FreeSession.subs = <<>> /\ FreeSession.will = Nil
    BY DEF FreeSession, IsSession, SessionFields
  <1>2. /\ DOMAIN sess = Slots /\ \A s \in Slots : sess[s] = FreeSession
        /\ DOMAIN pc = Slots /\ \A s \in Slots : pc[s] = "none"
        /\ DOMAIN tx = Slots /\ \A s \in Slots : tx[s] = Nil
        /\ DOMAIN pending = Slots /\ \A s \in Slots : pending[s] = NoPackets
        /\ DOMAIN job = Tasks /\ \A p \in Tasks : job[p] = NoJob
    BY DEF BrokerInit
  <1> HIDE DEF BrokerInit
  <1>3. Base
    BY <1>1, <1>2, NoJobFacts, FreeFacts
       DEF Base, Shape, SessionShape, JobShape, TaskShape, Places, SlotLife, LifeOk
  <1>4. OneSessionPerClient
    BY <1>1, <1>2 DEF OneSessionPerClient, Live
  <1>5. PacketInv
    BY <1>2, NoJobFacts DEF PacketInv, PacketOk, LocksFree
  <1>6. Sockets /\ Wills
    BY <1>1, <1>2 DEF Sockets, SocketOk, Wills, WillOk
  <1>7. Filtered
    <2>1. FreeSession.subs \in Seq({}) /\ DOMAIN FreeSession.subs = {}
      BY <1>1
    <2>2. IsSeq(FreeSession.subs)
      BY <2>1 DEF IsSeq
    <2> QED
      BY <1>1, <1>2, <2>1, <2>2 DEF Filtered, FilterOk
  <1>8. JobsInv
    <2>1. DOMAIN NoJob.todo = {}
      BY NoJobFacts
    <2> QED
      BY <1>2, <2>1, NoJobFacts DEF JobsInv, JobOk
  <1> QED
    BY <1>3, <1>4, <1>5, <1>6, <1>7, <1>8 DEF IsolationInv

\* Every step keeps the count of the packets right.
LEMMA StepKeepsBudget ==
    ASSUME Base, BudgetInv, [BrokerNext]_broker_vars
    PROVE  BudgetInv'
  <1> USE DEF Base, Shape, TaskShape
  <1>1. CASE UNCHANGED broker_vars
    BY <1>1, CalmKeeps DEF broker_vars, Calm, InUse
  <1>2. ASSUME NEW c \in Conns, NEW over \in SUBSET {s \in Slots : sess[s].retiring},
               accept_task(c, over)
        PROVE  BudgetInv'
    BY <1>2, AcceptIsCalm, CalmKeeps
  <1>3. ASSUME NEW s \in Slots, ClientStep(s) PROVE BudgetInv'
    <2>1. CASE handle_connect(s) \/ client_fails(s) \/ handle_disconnect(s)
      <3>1. /\ pending' = pending /\ bytes' = bytes
            /\ \E x \in {"loop", "cleanup"} : pc' = [pc EXCEPT ![s] = x]
        BY <2>1 DEF handle_connect, client_fails, handle_disconnect
      <3> QED
        BY <3>1, CalmKeeps DEF Calm, InUse, Ended
    <2>2. ASSUME NEW u \in Subscribes, handle_subscribe(s, u.filter, u.qos) PROVE BudgetInv'
      <3>1. pending' = pending /\ bytes' = bytes /\ pc' = pc
        BY <2>2 DEF handle_subscribe
      <3> QED
        BY <3>1, CalmKeeps DEF Calm, InUse
    <2>3. ASSUME NEW f \in Filters, handle_unsubscribe(s, f) PROVE BudgetInv'
      <3>1. pending' = pending /\ bytes' = bytes /\ pc' = pc
        BY <2>3 DEF handle_unsubscribe
      <3> QED
        BY <3>1, CalmKeeps DEF Calm, InUse
    <2>4. ASSUME NEW m \in Publishes, handle_publish(s, m.topic, m.qos, m.retain, m.empty)
          PROVE  BudgetInv'
      <3>1. pending' = pending /\ bytes' = bytes /\ pc' = pc
        BY <2>4 DEF handle_publish
      <3> QED
        BY <3>1, CalmKeeps DEF Calm, InUse
    <2>5. ASSUME NEW pid \in 1 .. PID_MAX, handle_puback(s, pid) PROVE BudgetInv'
      BY <2>5, PubackKeepsBudget
    <2>6. ASSUME NEW i \in Packets, mqtt_qos1_retry_due(s, i) PROVE BudgetInv'
      <3>1. pending' = pending /\ bytes' = bytes /\ pc' = pc
        BY <2>6 DEF mqtt_qos1_retry_due
      <3> QED
        BY <3>1, CalmKeeps DEF Calm, InUse
    <2>7. ASSUME NEW rc \in Results, retry_sent(s, rc) PROVE BudgetInv'
      <3>1. /\ bytes' = bytes /\ pc' = pc
            /\ \/ pending' = pending
               \/ \E n : /\ job[s].at \in Packets
                         /\ pending' = [pending EXCEPT ![s][job[s].at].sent = n]
        BY <2>7 DEF retry_sent, Holds
      <3> QED
        BY <3>1, CountedIsCalm, CalmKeeps
    <2>8. CASE deliver_retain(s)
      <3>1. pending' = pending /\ bytes' = bytes /\ pc' = pc
        BY <2>8 DEF deliver_retain
      <3> QED
        BY <3>1, CalmKeeps DEF Calm, InUse
    <2>9. CASE send_will_if_needed(s)
      <3>1. pending' = pending /\ bytes' = bytes /\ pc' = [pc EXCEPT ![s] = "free"]
        BY <2>9 DEF send_will_if_needed
      <3> QED
        BY <3>1, CalmKeeps DEF Calm, InUse, Ended
    <2>10. CASE free_session(s)
      BY <2>10, FreeKeepsBudget
    <2>11. CASE free_session_retire(s)
      <3>1. /\ pending' = pending /\ bytes' = bytes
            /\ pc[s] = "retire" /\ pc' = [pc EXCEPT ![s] = "none"]
        BY <2>11 DEF free_session_retire
      <3> QED
        BY <3>1, CalmKeeps DEF Calm, InUse, Ended
    <2> QED
      BY <1>3, <2>1, <2>2, <2>3, <2>4, <2>5, <2>6, <2>7, <2>8, <2>9, <2>10, <2>11
         DEF ClientStep, CleanupStep
  <1>4. ASSUME NEW s \in Slots, sweep_idle_sessions(s) PROVE BudgetInv'
    <2>1. pending' = pending /\ bytes' = bytes /\ pc' = pc
      BY <1>4 DEF sweep_idle_sessions
    <2> QED
      BY <2>1, CalmKeeps DEF Calm, InUse
  <1>5. ASSUME NEW p \in Tasks, SenderStep(p) PROVE BudgetInv'
    <2>1. CASE reserve_qos1(p)
      BY <2>1, ReserveKeepsBudget
    <2>2. CASE take_tx_lock(p) \/ publish_done(p)
      <3>1. pending' = pending /\ bytes' = bytes /\ pc' = pc
        BY <2>2 DEF take_tx_lock, publish_done
      <3> QED
        BY <3>1, CalmKeeps DEF Calm, InUse
    <2>3. ASSUME NEW rc \in Results, send_publish(p, rc) PROVE BudgetInv'
      <3>1. /\ bytes' = bytes /\ pc' = pc /\ job[p].stage = "sending"
            /\ \/ pending' = pending
               \/ /\ job[p].at \in Packets
                  /\ pending' = [pending EXCEPT ![Target(p).slot][job[p].at].sent = 1]
        BY <2>3 DEF send_publish, Holds
      <3>2. Target(p).slot \in Slots
        BY <3>1, TargetFacts DEF JobShape, IsJob
      <3> QED
        BY <3>1, <3>2, CountedIsCalm, CalmKeeps
    <2> QED
      BY <1>5, <2>1, <2>2, <2>3 DEF SenderStep
  <1>6. ASSUME NEW m \in Publishes, mqtt_core_publish_qos(m.topic, m.qos) PROVE BudgetInv'
    <2>1. pending' = pending /\ bytes' = bytes /\ pc' = pc
      BY <1>6 DEF mqtt_core_publish_qos
    <2> QED
      BY <2>1, CalmKeeps DEF Calm, InUse
  <1> QED
    BY <1>1, <1>2, <1>3, <1>4, <1>5, <1>6 DEF BrokerNext

\* mqtt_core: however connections, take-overs, evictions and closings interleave,
\* a client id has one live session at most.
THEOREM ClientsAreUnique == BrokerSpec => []OneSessionPerClient
  <1>1. BrokerInit => Base /\ OneSessionPerClient
    BY StartIsSafe
  <1>2. Base /\ OneSessionPerClient /\ [BrokerNext]_broker_vars
          => (Base /\ OneSessionPerClient)'
    BY StepKeeps DEF Keeps
  <1> QED
    BY <1>1, <1>2, PTL DEF BrokerSpec

\* mqtt_core: a packet that a task is sending is in the table of its session:
\* neither a PUBACK nor the end of the session frees it under the sender.
THEOREM PacketsAreHeld == BrokerSpec => []PacketHeldWhileSent
  <1>1. BrokerInit => Base /\ PacketInv
    BY StartIsSafe
  <1>2. Base /\ PacketInv /\ [BrokerNext]_broker_vars => (Base /\ PacketInv)'
    BY StepKeeps DEF Keeps
  <1>3. PacketInv => PacketHeldWhileSent
    BY DEF PacketInv, PacketOk, PacketHeldWhileSent
  <1> QED
    BY <1>1, <1>2, <1>3, PTL DEF BrokerSpec

\* mqtt_core: when no client is called "+", a client with no entry in the
\* access table is sent the topics of its own contract and the broadcast only.
THEOREM DeliveryIsIsolated ==
    ASSUME NoWildcardId
    PROVE  BrokerSpec => []IsolatedDelivery
  <1>1. BrokerInit => Base /\ IsolationInv
    BY StartIsSafe
  <1>2. Base /\ IsolationInv /\ [BrokerNext]_broker_vars => (Base /\ IsolationInv)'
    BY StepKeeps DEF Keeps
  <1>3. Base /\ IsolationInv => IsolatedDelivery
    <2> SUFFICES ASSUME Base, IsolationInv, NEW p \in Tasks, job[p].stage = "sending"
                 PROVE  Cleared(ConnectOf[Target(p).sock].client_id, job[p].topic)
      BY DEF IsolatedDelivery
    <2>1. JobOk(p) /\ IsJob(job[p]) /\ job[p].todo # <<>>
      BY DEF IsolationInv, JobsInv, Base, Shape, JobShape, IsJob
    <2>2. 1 \in DOMAIN job[p].todo /\ Target(p) = job[p].todo[1]
      BY <2>1, TargetFacts DEF Base, Shape
    <2>3. MaySee(ConnectOf[Target(p).sock].client_id, job[p].topic)
      BY <2>1, <2>2 DEF JobOk
    <2> QED
      BY <2>3 DEF MaySee
  <1> QED
    BY <1>1, <1>2, <1>3, PTL DEF BrokerSpec

\* mqtt_core: s_qos1_pending_bytes counts the packets that wait in the tables,
\* whatever is acknowledged, given up, closed or taken over meanwhile: the
\* broker never runs out of budget for packets it no longer holds.
THEOREM BudgetIsExact == BrokerSpec => []BudgetExact
  <1>1. BrokerInit => Base /\ BudgetInv
    <2> SUFFICES ASSUME BrokerInit PROVE Base /\ BudgetInv
      OBVIOUS
    <2>1. \A s \in Slots, i \in Packets : ~InUse(s, i)
      BY FreeFacts DEF BrokerInit, InUse
    <2>2. Waiting = {} /\ bytes = 0
      BY <2>1 DEF Waiting, BrokerInit
    <2> QED
      BY <2>1, <2>2, StartIsSafe, FS_EmptySet DEF BudgetInv, BudgetExact, EndedEmpty
  <1>2. Base /\ BudgetInv /\ [BrokerNext]_broker_vars => (Base /\ BudgetInv)'
    BY StepKeeps, StepKeepsBudget DEF Keeps
  <1>3. BudgetInv => BudgetExact
    BY DEF BudgetInv
  <1> QED
    BY <1>1, <1>2, <1>3, PTL DEF BrokerSpec
=============================================================================
