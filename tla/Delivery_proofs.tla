--------------------------- MODULE Delivery_proofs ---------------------------
(***************************************************************************)
(* Proofs about the ways an event takes effect away from the engine: the    *)
(* event bus of the hub, for any number of posting tasks, events, handlers  *)
(* and jobs and for every length of the pool and of the queues; the         *)
(* fallback policy of a node, which runs its own rules exactly in the       *)
(* states that say so while the engine answers in time; and the versions    *)
(* that the web clients are told, for any number of clients, rooms and      *)
(* writers.                                                                 *)
(***************************************************************************)
EXTENDS EventBus, NodeFallback, HubNotify, SeqLemmas, FiniteSetTheorems, TLAPS

-----------------------------------------------------------------------------
(* Sequences, as the proofs use them *)

\* Append adds one place at the end.
LEMMA AppendFacts ==
    ASSUME NEW S, NEW q \in Seq(S), NEW x \in S
    PROVE  /\ Append(q, x) \in Seq(S)
           /\ Len(q) \in Nat
           /\ Len(Append(q, x)) = Len(q) + 1
           /\ DOMAIN q = 1 .. Len(q)
           /\ DOMAIN Append(q, x) = 1 .. Len(q) + 1
           /\ \A i \in DOMAIN q : Append(q, x)[i] = q[i]
           /\ Append(q, x)[Len(q) + 1] = x
  OBVIOUS

\* A pointer sent to the front of a queue moves the others up by one place.
LEMMA FrontFacts ==
    ASSUME NEW S, NEW q \in Seq(S), NEW x \in S
    PROVE  /\ <<x>> \o q \in Seq(S)
           /\ Len(q) \in Nat
           /\ Len(<<x>> \o q) = Len(q) + 1
           /\ DOMAIN q = 1 .. Len(q)
           /\ DOMAIN (<<x>> \o q) = 1 .. Len(q) + 1
           /\ (<<x>> \o q)[1] = x
           /\ \A i \in 2 .. Len(q) + 1 : (<<x>> \o q)[i] = q[i - 1]
  OBVIOUS

\* Taking the head of a queue moves the others down by one place.
LEMMA TailFacts ==
    ASSUME NEW S, NEW q \in Seq(S), q # <<>>
    PROVE  /\ Tail(q) \in Seq(S)
           /\ Head(q) \in S
           /\ Len(q) \in Nat \ {0}
           /\ Len(Tail(q)) = Len(q) - 1
           /\ DOMAIN q = 1 .. Len(q)
           /\ DOMAIN Tail(q) = 1 .. Len(q) - 1
           /\ Head(q) = q[1]
           /\ \A i \in 1 .. Len(q) - 1 : Tail(q)[i] = q[i + 1]
  OBVIOUS

-----------------------------------------------------------------------------
(* The inductive invariant *)

\* The post holds a slot that is not in the queue yet.
Holding(p) == post[p].stage \in {"fill", "send"}
Dispatching == bus.stage = "dispatch"

\* Every slot somebody holds is in use, and no two hold the same one.
HeldOnce ==
    /\ \A p \in Posters : Holding(p) => post[p].slot \in PoolSlots /\ in_use[post[p].slot]
    /\ \A p, q \in Posters :
         Holding(p) /\ Holding(q) /\ post[p].slot = post[q].slot => p = q
    /\ \A i \in DOMAIN queue : in_use[queue[i]]
    /\ \A i, k \in DOMAIN queue : queue[i] = queue[k] => i = k
    /\ \A p \in Posters, i \in DOMAIN queue : Holding(p) => queue[i] # post[p].slot
    /\ Dispatching => /\ bus.slot \in PoolSlots /\ in_use[bus.slot]
                      /\ \A i \in DOMAIN queue : queue[i] # bus.slot
                      /\ \A p \in Posters : Holding(p) => post[p].slot # bus.slot

\* Every slot that is in use has somebody who will free it.
NoneLost ==
    \A s \in PoolSlots : in_use[s] =>
        \/ \E p \in Posters : Holding(p) /\ post[p].slot = s
        \/ \E i \in DOMAIN queue : queue[i] = s
        \/ Dispatching /\ bus.slot = s

\* A post carries its event, and from the copy on its slot holds it.
Filled ==
    /\ \A p \in Posters : post[p].stage # "idle" => post[p].event \in Events
    /\ \A p \in Posters : post[p].stage = "send" => pool[post[p].slot] = post[p].event
    /\ \A i \in DOMAIN queue : pool[queue[i]] \in Events
    /\ Dispatching => pool[bus.slot] \in Events

\* An event is at one place of its way from fresh to the handlers.
EventsOnce ==
    /\ \A p \in Posters : Holding(p) => post[p].event \notin fresh
    /\ \A p, q \in Posters :
         Holding(p) /\ Holding(q) /\ post[p].event = post[q].event => p = q
    /\ \A i \in DOMAIN queue : pool[queue[i]] \notin fresh
    /\ \A i, k \in DOMAIN queue : pool[queue[i]] = pool[queue[k]] => i = k
    /\ \A p \in Posters, i \in DOMAIN queue :
         Holding(p) => pool[queue[i]] # post[p].event
    /\ Dispatching =>
         /\ pool[bus.slot] \notin fresh
         /\ \A p \in Posters : Holding(p) => post[p].event # pool[bus.slot]
         /\ \A i \in DOMAIN queue : pool[queue[i]] # pool[bus.slot]

\* What a handler has seen is nowhere on its way any more, but for the handlers
\* that are still to be called with it.
SeenOnce ==
    /\ \A i, k \in DOMAIN handlers : handlers[i] = handlers[k] => i = k
    /\ Dispatching =>
         \A i, k \in DOMAIN bus.todo : bus.todo[i] = bus.todo[k] => i = k
    /\ \A h \in Handlers :
         /\ \A i, k \in DOMAIN seen[h] : seen[h][i] = seen[h][k] => i = k
         /\ \A i \in DOMAIN seen[h] :
              /\ seen[h][i] \notin fresh
              /\ \A p \in Posters : Holding(p) => post[p].event # seen[h][i]
              /\ \A k \in DOMAIN queue : pool[queue[k]] # seen[h][i]
              /\ Dispatching /\ pool[bus.slot] = seen[h][i] =>
                   \A k \in DOMAIN bus.todo : bus.todo[k] # h

\* The queue, the bus task and the handlers have the events of normal priority
\* in the order of acceptance.
Has(q, e) == \E i \in DOMAIN q : q[i] = e

InOrder ==
    /\ \A i \in DOMAIN queue : Has(accepted, pool[queue[i]])
    /\ Dispatching => Has(accepted, pool[bus.slot])
    /\ \A h \in Handlers : \A i \in DOMAIN seen[h] : Has(accepted, seen[h][i])
    /\ \A i, k \in DOMAIN queue :
         i < k /\ pool[queue[i]] \notin High /\ pool[queue[k]] \notin High =>
             Before(accepted, pool[queue[i]], pool[queue[k]])
    /\ Dispatching => \A k \in DOMAIN queue :
         pool[bus.slot] \notin High /\ pool[queue[k]] \notin High =>
             Before(accepted, pool[bus.slot], pool[queue[k]])
    /\ \A h \in Handlers : \A i \in DOMAIN seen[h], k \in DOMAIN queue :
         seen[h][i] \notin High /\ pool[queue[k]] \notin High =>
             Before(accepted, seen[h][i], pool[queue[k]])
    /\ Dispatching => \A h \in Handlers : \A i \in DOMAIN seen[h] :
         (\E k \in DOMAIN bus.todo : bus.todo[k] = h)
         /\ seen[h][i] \notin High /\ pool[bus.slot] \notin High =>
             Before(accepted, seen[h][i], pool[bus.slot])

BusInv == /\ BusTypeOK /\ HeldOnce /\ NoneLost /\ Filled /\ EventsOnce /\ SeenOnce
        /\ InOrder /\ NormalEventsInOrder /\ StatsBalance

-----------------------------------------------------------------------------
(* What the actions do to a post and to the bus task *)

PostState == [stage : {"idle", "fill", "send", "count"},
              slot : PoolSlots \cup {NULL}, event : Events \cup {NULL}]
BusState == [stage : {"receive", "dispatch", "count"},
             slot : PoolSlots \cup {NULL}, todo : Seq(Handlers)]

\* Counting keeps the counters natural and touches no other.
LEMMA CountFacts ==
    ASSUME stats \in Stats,
           NEW c \in {"posted", "dispatched", "dropped", "job_posted",
                      "job_dispatched", "job_dropped"},
           Count(c)
    PROVE  /\ stats' \in Stats
           /\ stats'[c] = stats[c] + 1
           /\ \A d \in {"posted", "dispatched", "dropped", "job_posted",
                        "job_dispatched", "job_dropped"} :
                d # c => stats'[d] = stats[d]
  BY DEF Stats, Count

\* A slot is its number, so it is never the null pointer.
LEMMA SlotFacts == /\ NULL \notin PoolSlots /\ PoolSlots \subseteq Nat
                   /\ IsFiniteSet(PoolSlots) /\ Cardinality(PoolSlots) = QUEUE_LEN
  <1>1. IsFiniteSet(PoolSlots) /\ Cardinality(PoolSlots) = QUEUE_LEN
    BY BusAssumption, FS_Interval DEF PoolSlots
  <1> QED
    BY <1>1, BusAssumption DEF PoolSlots

\* What pool_alloc gives the post.
LEMMA AllocFacts ==
    ASSUME BusTypeOK, NEW p \in Posters, NEW e \in Events, pool_alloc(p, e)
    PROVE  \E s \in PoolSlots :
             /\ ~in_use[s]
             /\ in_use' = [in_use EXCEPT ![s] = TRUE]
             /\ pool' = [pool EXCEPT ![s] = NULL]
             /\ post' \in [Posters -> PostState]
             /\ post'[p] = [stage |-> "fill", slot |-> s, event |-> e]
             /\ \A q \in Posters : q # p => post'[q] = post[q]
  <1>1. PICK s \in PoolSlots :
          /\ ~in_use[s]
          /\ in_use' = [in_use EXCEPT ![s] = TRUE]
          /\ pool' = [pool EXCEPT ![s] = NULL]
          /\ post' = [post EXCEPT ![p] = [stage |-> "fill", slot |-> s, event |-> e]]
    BY DEF pool_alloc
  <1>2. [stage |-> "fill", slot |-> s, event |-> e] \in PostState
    BY DEF PostState
  <1>3. post \in [Posters -> PostState]
    BY DEF BusTypeOK, PostState
  <1> QED
    BY <1>1, <1>2, <1>3

\* post_fill, post_send and post_count move the post on and keep what it holds.
LEMMA StageFacts ==
    ASSUME BusTypeOK, NEW p \in Posters,
           NEW g \in {"idle", "fill", "send", "count"},
           post' = [post EXCEPT ![p].stage = g]
    PROVE  /\ post' \in [Posters -> PostState]
           /\ post'[p].stage = g /\ post'[p].slot = post[p].slot
           /\ post'[p].event = post[p].event
           /\ \A q \in Posters : q # p => post'[q] = post[q]
  BY DEF BusTypeOK, PostState

\* A post that is over holds nothing.
LEMMA IdleFacts ==
    ASSUME BusTypeOK, NEW p \in Posters, post' = [post EXCEPT ![p] = IdlePost]
    PROVE  /\ post' \in [Posters -> PostState]
           /\ post'[p].stage = "idle"
           /\ \A q \in Posters : q # p => post'[q] = post[q]
  BY DEF BusTypeOK, PostState, IdlePost

\* As many numbers as the last of them.
LEMMA IntervalSize == ASSUME NEW n \in Nat
                      PROVE  IsFiniteSet(1 .. n) /\ Cardinality(1 .. n) = n
  <1>1. 1 \in Int /\ n \in Int
    OBVIOUS
  <1>2. IsFiniteSet(1 .. n) /\ Cardinality(1 .. n) = IF 1 > n THEN 0 ELSE n - 1 + 1
    BY <1>1, FS_Interval
  <1> QED
    BY <1>2

\* The queue has a place for every post that holds a slot: its slot and those
\* in the queue are all different, and there are as many places as slots.
LEMMA RoomInQueue ==
    ASSUME BusTypeOK, HeldOnce, NEW p \in Posters, post[p].stage = "send"
    PROVE  Len(queue) < QUEUE_LEN
  <1> DEFINE rest == PoolSlots \ {post[p].slot}
  <1>1. post[p].slot \in PoolSlots
    BY DEF HeldOnce, Holding
  <1>2. Len(queue) \in Nat /\ DOMAIN queue = 1 .. Len(queue)
    BY DEF BusTypeOK
  <1>3. queue \in [1 .. Len(queue) -> rest]
    BY <1>2 DEF BusTypeOK, HeldOnce, Holding
  <1>4. queue \in Injection(1 .. Len(queue), rest)
    <2>1. \A i, k \in 1 .. Len(queue) : queue[i] = queue[k] => i = k
      BY <1>2 DEF HeldOnce
    <2> QED
      BY <1>3, <2>1 DEF Injection, IsInjective
  <1>5. IsFiniteSet(rest) /\ Cardinality(rest) = QUEUE_LEN - 1
    BY <1>1, SlotFacts, FS_RemoveElement
  <1>6. Cardinality(1 .. Len(queue)) <= QUEUE_LEN - 1
    BY <1>4, <1>5, FS_Injection
  <1>7. Cardinality(1 .. Len(queue)) = Len(queue)
    BY <1>2, IntervalSize
  <1> QED
    BY <1>2, <1>6, <1>7, BusAssumption

-----------------------------------------------------------------------------
(* One step of the bus *)

\* Nothing the invariant is about, but for the counters, changes; an event may
\* have been dropped.
Still == /\ UNCHANGED <<in_use, pool, queue, post, bus, handlers, accepted, seen>>
         /\ fresh' \subseteq fresh

\* A post that may go on to the queue does, and is never counted as dropped.
LEMMA SendFacts ==
    ASSUME BusInv, NEW p \in Posters, post_send(p)
    PROVE  /\ queue' \in {<<post[p].slot>> \o queue, Append(queue, post[p].slot)}
           /\ post[p].event \notin High => queue' = Append(queue, post[p].slot)
           /\ accepted' = Append(accepted, post[p].event)
           /\ post' = [post EXCEPT ![p].stage = "count"]
           /\ UNCHANGED <<in_use, pool, bus, started, handlers, job_queue, job,
                          fresh_jobs, stats, fresh, seen>>
           /\ post[p].stage = "send"
           /\ post[p].slot \in PoolSlots /\ post[p].event \in Events
           /\ pool[post[p].slot] = post[p].event
  <1>1. post[p].stage = "send"
    BY DEF post_send
  <1>2. Len(queue) < QUEUE_LEN
    BY <1>1, RoomInQueue DEF BusInv
  <1>3. post[p].slot \in PoolSlots /\ post[p].event \in Events /\ pool[post[p].slot] = post[p].event
    BY <1>1 DEF BusInv, HeldOnce, Holding, Filled
  <1> QED
    BY <1>1, <1>2, <1>3 DEF post_send, Sent, job_vars

\* Types, for every action.
LEMMA TypeStep == BusInv /\ [BusNext]_bus_vars => BusTypeOK'
  <1> SUFFICES ASSUME BusInv, [BusNext]_bus_vars PROVE BusTypeOK'
    OBVIOUS
  <1>0. BusTypeOK /\ post \in [Posters -> PostState] /\ bus \in BusState
    BY DEF BusInv, BusTypeOK, PostState, BusState
  <1>1. ASSUME NEW p \in Posters, NEW e \in Events, post_invalid(p, e) PROVE BusTypeOK'
    BY <1>0, <1>1, CountFacts DEF BusTypeOK, post_invalid, job_vars, history
  <1>2. ASSUME NEW p \in Posters, NEW e \in Events, pool_alloc(p, e) PROVE BusTypeOK'
    <2>1. PICK s \in PoolSlots :
             /\ in_use' = [in_use EXCEPT ![s] = TRUE]
             /\ pool' = [pool EXCEPT ![s] = NULL]
             /\ post' \in [Posters -> PostState]
      BY <1>0, <1>2, AllocFacts
    <2>2. fresh' \subseteq Events /\ UNCHANGED <<queue, bus, started, handlers, job_queue,
              job, fresh_jobs, stats, accepted, seen>>
      BY <1>0, <1>2 DEF pool_alloc, job_vars, history, BusTypeOK
    <2> QED
      BY <1>0, <2>1, <2>2 DEF BusTypeOK, PostState
  <1>3. ASSUME NEW p \in Posters, NEW e \in Events, pool_exhausted(p, e) PROVE BusTypeOK'
    BY <1>0, <1>3, CountFacts DEF BusTypeOK, pool_exhausted, job_vars, history
  <1>4. ASSUME NEW p \in Posters, post_fill(p) PROVE BusTypeOK'
    <2>1. post[p].slot \in PoolSlots /\ post[p].event \in Events
      BY <1>4 DEF BusInv, HeldOnce, Holding, Filled, post_fill
    <2>2. post' \in [Posters -> PostState]
      BY <1>0, <1>4, StageFacts DEF post_fill
    <2> QED
      BY <1>0, <1>4, <2>1, <2>2 DEF BusTypeOK, PostState, post_fill, job_vars, history
  <1>5. ASSUME NEW p \in Posters, post_send(p) PROVE BusTypeOK'
    <2>0. /\ post' = [post EXCEPT ![p].stage = "count"]
          /\ queue' \in {<<post[p].slot>> \o queue, Append(queue, post[p].slot)}
          /\ accepted' = Append(accepted, post[p].event)
          /\ post[p].slot \in PoolSlots /\ post[p].event \in Events
      BY <1>5, SendFacts
    <2>1. post' \in [Posters -> PostState]
      BY <1>0, <2>0, StageFacts
    <2>2. queue' \in Seq(PoolSlots)
      <3>1. <<post[p].slot>> \o queue \in Seq(PoolSlots)
        BY <1>0, <2>0, FrontFacts DEF BusTypeOK
      <3>2. Append(queue, post[p].slot) \in Seq(PoolSlots)
        BY <1>0, <2>0, AppendFacts DEF BusTypeOK
      <3> QED
        BY <2>0, <3>1, <3>2
    <2>3. accepted' \in Seq(Events)
      BY <1>0, <2>0, AppendFacts DEF BusTypeOK
    <2> QED
      BY <1>0, <1>5, SendFacts, <2>1, <2>2, <2>3 DEF BusTypeOK, PostState
  <1>6. ASSUME NEW p \in Posters, post_count(p) PROVE BusTypeOK'
    <2>1. post' \in [Posters -> PostState]
      BY <1>0, <1>6, IdleFacts DEF post_count
    <2> QED
      BY <1>0, <1>6, <2>1, CountFacts DEF BusTypeOK, PostState, post_count, job_vars, history
  <1>7. ASSUME bus_receive PROVE BusTypeOK'
    <2>1. Head(queue) \in PoolSlots /\ Tail(queue) \in Seq(PoolSlots)
      BY <1>0, <1>7, TailFacts DEF BusTypeOK, bus_receive
    <2> QED
      BY <1>0, <1>7, <2>1 DEF BusTypeOK, bus_receive, job_vars, history
  <1>8. ASSUME bus_dispatch PROVE BusTypeOK'
    <2>1. pool[bus.slot] \in Events
      BY <1>8 DEF BusInv, Filled, Dispatching, bus_dispatch
    <2>2. Head(bus.todo) \in Handlers /\ Tail(bus.todo) \in Seq(Handlers)
      BY <1>0, <1>8, TailFacts DEF BusTypeOK, bus_dispatch
    <2>3. Append(seen[Head(bus.todo)], pool[bus.slot]) \in Seq(Events)
      BY <1>0, <2>1, <2>2, AppendFacts DEF BusTypeOK
    <2>4. bus' \in BusState
      BY <1>0, <1>8, <2>2 DEF BusState, bus_dispatch
    <2> QED
      BY <1>0, <1>8, <2>2, <2>3, <2>4 DEF BusTypeOK, BusState, bus_dispatch, job_vars
  <1>9. ASSUME bus_free PROVE BusTypeOK'
    <2>1. bus' \in BusState
      BY <1>0, <1>9 DEF BusState, bus_free
    <2>2. bus.slot \in PoolSlots
      BY <1>9 DEF BusInv, HeldOnce, Dispatching, bus_free
    <2> QED
      BY <1>0, <1>9, <2>1, <2>2 DEF BusTypeOK, BusState, bus_free, job_vars, history
  <1>10. ASSUME bus_count PROVE BusTypeOK'
    BY <1>0, <1>10, CountFacts DEF BusTypeOK, bus_count, IdleBus, job_vars, history
  <1>11. ASSUME NEW h \in Handlers, register_handler(h) PROVE BusTypeOK'
    BY <1>0, <1>11, AppendFacts, BusAssumption DEF BusTypeOK, register_handler, job_vars, history
  <1>12. ASSUME NEW j \in Jobs, post_job(j) PROVE BusTypeOK'
    <2>1. Append(job_queue, j) \in Seq(Jobs) /\ Len(Append(job_queue, j)) <= JOB_QUEUE_LEN
      BY <1>0, <1>12, AppendFacts, BusAssumption DEF BusTypeOK, post_job
    <2> QED
      BY <1>0, <1>12, <2>1, CountFacts DEF BusTypeOK, post_job, history
  <1>13. ASSUME NEW j \in Jobs, post_job_timeout(j) PROVE BusTypeOK'
    BY <1>0, <1>13, CountFacts DEF BusTypeOK, post_job_timeout, history
  <1>14. ASSUME job_receive PROVE BusTypeOK'
    BY <1>0, <1>14, TailFacts, BusAssumption DEF BusTypeOK, job_receive, history
  <1>15. ASSUME job_done PROVE BusTypeOK'
    BY <1>0, <1>15, CountFacts DEF BusTypeOK, job_done, history
  <1>16. ASSUME bus_start PROVE BusTypeOK'
    BY <1>0, <1>16 DEF BusTypeOK, bus_start, job_vars, history
  <1>17. ASSUME UNCHANGED bus_vars PROVE BusTypeOK'
    BY <1>0, <1>17 DEF BusTypeOK, bus_vars
  <1> QED
    BY <1>1, <1>2, <1>3, <1>4, <1>5, <1>6, <1>7, <1>8, <1>9, <1>10, <1>11, <1>12,
       <1>13, <1>14, <1>15, <1>16, <1>17 DEF BusNext, Post, BusTask, JobTask

\* The parts of the invariant that are about slots and events.
Flow == HeldOnce /\ NoneLost /\ Filled /\ EventsOnce /\ SeenOnce /\ InOrder
        /\ NormalEventsInOrder

\* A step that leaves slots, queue and hands alone leaves the flow of pointers alone.
LEMMA StillStep == BusInv /\ Still => Flow'
  <1> SUFFICES ASSUME BusInv, Still PROVE Flow'
    OBVIOUS
  <1> USE DEF BusInv, Still, Holding, Dispatching
  <1>1. HeldOnce' /\ NoneLost'
    BY DEF HeldOnce, NoneLost
  <1>2. Filled' /\ EventsOnce'
    BY DEF Filled, EventsOnce
  <1>3. SeenOnce'
    BY DEF SeenOnce
  <1>4. InOrder' /\ NormalEventsInOrder'
    BY DEF InOrder, NormalEventsInOrder, Has, Before
  <1> QED
    BY <1>1, <1>2, <1>3, <1>4 DEF Flow

\* A slot that was free is nobody's, and the event it is taken for is fresh.
LEMMA AllocStep ==
    ASSUME BusInv, NEW p \in Posters, NEW e \in Events, pool_alloc(p, e)
    PROVE  Flow'
  <1> USE DEF Holding, Dispatching
  <1>0. PICK s \in PoolSlots :
           /\ ~in_use[s]
           /\ in_use' = [in_use EXCEPT ![s] = TRUE]
           /\ pool' = [pool EXCEPT ![s] = NULL]
           /\ post' \in [Posters -> PostState]
           /\ post'[p] = [stage |-> "fill", slot |-> s, event |-> e]
           /\ \A q \in Posters : q # p => post'[q] = post[q]
    BY AllocFacts DEF BusInv
  <1>1. /\ e \in fresh /\ fresh' = fresh \ {e} /\ post[p].stage = "idle"
        /\ UNCHANGED <<queue, bus, handlers, accepted, seen>>
    BY DEF pool_alloc, history
  <1>2. /\ in_use \in [PoolSlots -> BOOLEAN] /\ pool \in [PoolSlots -> Events \cup {NULL}]
        /\ \A i \in DOMAIN queue : queue[i] \in PoolSlots
    BY DEF BusInv, BusTypeOK
  <1>3. HeldOnce'
    BY <1>0, <1>1, <1>2 DEF BusInv, HeldOnce
  <1>4. NoneLost'
    BY <1>0, <1>1, <1>2 DEF BusInv, NoneLost
  <1>5. /\ \A i \in DOMAIN queue : pool'[queue[i]] = pool[queue[i]]
        /\ Dispatching => pool'[bus.slot] = pool[bus.slot]
        /\ \A q \in Posters : q # p /\ Holding(q) => pool'[post[q].slot] = pool[post[q].slot]
    BY <1>0, <1>2 DEF BusInv, HeldOnce
  <1>6. Filled'
    BY <1>0, <1>1, <1>5 DEF BusInv, Filled
  <1>7. EventsOnce'
    BY <1>0, <1>1, <1>5 DEF BusInv, EventsOnce
  <1>8. SeenOnce'
    BY <1>0, <1>1, <1>5 DEF BusInv, SeenOnce
  <1>9. InOrder' /\ NormalEventsInOrder'
    BY <1>1, <1>5 DEF BusInv, InOrder, NormalEventsInOrder, Has, Before
  <1> QED
    BY <1>3, <1>4, <1>6, <1>7, <1>8, <1>9 DEF Flow

\* The copy goes to a slot that is in no queue.
LEMMA FillStep ==
    ASSUME BusInv, NEW p \in Posters, post_fill(p)
    PROVE  Flow'
  <1> USE DEF Holding, Dispatching
  <1>0. /\ post[p].stage = "fill" /\ pool' = [pool EXCEPT ![post[p].slot] = post[p].event]
        /\ UNCHANGED <<in_use, queue, bus, handlers, fresh, accepted, seen>>
    BY DEF post_fill, history
  <1>1. /\ post'[p].stage = "send" /\ post'[p].slot = post[p].slot
        /\ post'[p].event = post[p].event
        /\ \A q \in Posters : q # p => post'[q] = post[q]
    BY StageFacts DEF BusInv, post_fill
  <1>2. /\ pool \in [PoolSlots -> Events \cup {NULL}] /\ post[p].slot \in PoolSlots
        /\ post[p].event \in Events /\ \A i \in DOMAIN queue : queue[i] \in PoolSlots
    BY <1>0 DEF BusInv, BusTypeOK, HeldOnce, Filled
  <1>3. HeldOnce' /\ NoneLost'
    BY <1>0, <1>1 DEF BusInv, HeldOnce, NoneLost
  <1>5. /\ \A i \in DOMAIN queue : pool'[queue[i]] = pool[queue[i]]
        /\ Dispatching => pool'[bus.slot] = pool[bus.slot]
        /\ \A q \in Posters : q # p /\ Holding(q) => pool'[post[q].slot] = pool[post[q].slot]
        /\ pool'[post[p].slot] = post[p].event
    BY <1>0, <1>2 DEF BusInv, HeldOnce
  <1>6. Filled'
    BY <1>0, <1>1, <1>5 DEF BusInv, Filled
  <1>7. EventsOnce'
    BY <1>0, <1>1, <1>5 DEF BusInv, EventsOnce
  <1>8. SeenOnce'
    BY <1>0, <1>1, <1>5 DEF BusInv, SeenOnce
  <1>9. InOrder' /\ NormalEventsInOrder'
    BY <1>0, <1>5 DEF BusInv, InOrder, NormalEventsInOrder, Has, Before
  <1> QED
    BY <1>3, <1>6, <1>7, <1>8, <1>9 DEF Flow

\* Accepting one more event keeps the order of those accepted before, and puts
\* the new one behind them.
LEMMA BeforeAppend ==
    ASSUME NEW S, NEW q \in Seq(S), NEW x \in S
    PROVE  /\ \A e, f : Before(q, e, f) => Before(Append(q, x), e, f)
           /\ \A e : Has(q, e) => Before(Append(q, x), e, x)
           /\ \A e : Has(q, e) => Has(Append(q, x), e)
           /\ Has(Append(q, x), x)
  <1>1. /\ Len(q) \in Nat /\ DOMAIN q = 1 .. Len(q)
        /\ DOMAIN Append(q, x) = 1 .. Len(q) + 1
        /\ \A i \in DOMAIN q : Append(q, x)[i] = q[i]
        /\ Append(q, x)[Len(q) + 1] = x
    BY AppendFacts
  <1>2. DOMAIN q \subseteq DOMAIN Append(q, x) /\ Len(q) + 1 \in DOMAIN Append(q, x)
    BY <1>1
  <1>3. \A i \in DOMAIN q : i < Len(q) + 1
    BY <1>1
  <1> QED
    BY <1>1, <1>2, <1>3 DEF Before, Has

\* Where the places of the queue after a send come from: the slot sent, at some
\* place, and the old places in their old order.
Comes(old, new, x) ==
    /\ \A k \in DOMAIN new :
         new[k] = x \/ \E i \in DOMAIN old : new[k] = old[i]
    /\ \A i \in DOMAIN old : \E k \in DOMAIN new : new[k] = old[i]
    /\ \E k \in DOMAIN new : new[k] = x
    /\ (\A i, k \in DOMAIN old : old[i] = old[k] => i = k) /\ (\A i \in DOMAIN old : old[i] # x)
         => \A i, k \in DOMAIN new : new[i] = new[k] => i = k

\* A send, to the front or to the back, puts one slot into the queue.
LEMMA SendComes ==
    ASSUME NEW S, NEW q \in Seq(S), NEW x \in S,
           NEW r \in {<<x>> \o q, Append(q, x)}
    PROVE  Comes(q, r, x)
  <1>1. CASE r = Append(q, x)
    <2>1. /\ Len(q) \in Nat /\ DOMAIN q = 1 .. Len(q) /\ DOMAIN r = 1 .. Len(q) + 1
          /\ \A i \in DOMAIN q : r[i] = q[i]
          /\ r[Len(q) + 1] = x
      BY <1>1, AppendFacts
    <2> QED
      BY <2>1 DEF Comes
  <1>2. CASE r = <<x>> \o q
    <2>1. /\ Len(q) \in Nat /\ DOMAIN q = 1 .. Len(q) /\ DOMAIN r = 1 .. Len(q) + 1
          /\ r[1] = x
          /\ \A i \in 2 .. Len(q) + 1 : r[i] = q[i - 1]
      BY <1>2, FrontFacts
    <2>2. \A k \in DOMAIN r : k # 1 => k - 1 \in DOMAIN q /\ r[k] = q[k - 1]
      BY <2>1
    <2>3. \A i \in DOMAIN q : i + 1 \in DOMAIN r /\ r[i + 1] = q[i]
      BY <2>1
    <2>4. 1 \in DOMAIN r
      BY <2>1
    <2>5. ASSUME \A i, k \in DOMAIN q : q[i] = q[k] => i = k, \A i \in DOMAIN q : q[i] # x,
                 NEW i \in DOMAIN r, NEW k \in DOMAIN r, r[i] = r[k]
          PROVE  i = k
      <3>1. CASE i = 1 \/ k = 1
        BY <2>1, <2>2, <2>5, <3>1
      <3>2. CASE i # 1 /\ k # 1
        <4>1. i - 1 = k - 1
          BY <2>2, <2>5, <3>2
        <4> QED
          BY <2>1, <4>1
      <3> QED
        BY <3>1, <3>2
    <2> QED
      BY <2>1, <2>2, <2>3, <2>4, <2>5 DEF Comes
  <1> QED
    BY <1>1, <1>2

\* post_send: the slot passes from the poster to the queue, behind what is there
\* or, at high priority, before it.
LEMMA SendStep ==
    ASSUME BusInv, NEW p \in Posters, post_send(p)
    PROVE  Flow'
  <1> DEFINE s == post[p].slot
             e == post[p].event
  <1> USE DEF Holding, Dispatching
  <1>0. /\ queue' \in {<<s>> \o queue, Append(queue, s)}
        /\ e \notin High => queue' = Append(queue, s)
        /\ accepted' = Append(accepted, e)
        /\ UNCHANGED <<in_use, pool, bus, handlers, fresh, seen>>
        /\ post' = [post EXCEPT ![p].stage = "count"]
        /\ post[p].stage = "send" /\ s \in PoolSlots /\ e \in Events /\ pool[s] = e
    BY SendFacts
  <1>1. /\ post'[p].stage = "count" /\ post'[p].slot = s /\ post'[p].event = e
        /\ \A q \in Posters : q # p => post'[q] = post[q]
    BY <1>0, StageFacts DEF BusInv
  <1>2. queue \in Seq(PoolSlots) /\ accepted \in Seq(Events)
    BY DEF BusInv, BusTypeOK
  <1>3. Comes(queue, queue', s)
    BY <1>0, <1>2, SendComes
  <1>4. HeldOnce'
    <2>1. \A i, k \in DOMAIN queue' : queue'[i] = queue'[k] => i = k
      BY <1>0, <1>3 DEF BusInv, HeldOnce, Comes
    <2>2. \A k \in DOMAIN queue' : queue'[k] = s \/ \E i \in DOMAIN queue : queue'[k] = queue[i]
      BY <1>3 DEF Comes
    <2> QED
      BY <1>0, <1>1, <2>1, <2>2 DEF BusInv, HeldOnce
  <1>5. NoneLost'
    BY <1>0, <1>1, <1>3 DEF BusInv, NoneLost, Comes
  <1>6. Filled'
    BY <1>0, <1>1, <1>3 DEF BusInv, Filled, Comes
  <1>7. EventsOnce'
    <2>1. \A i, k \in DOMAIN queue' : pool[queue'[i]] = pool[queue'[k]] => queue'[i] = queue'[k]
      BY <1>0, <1>3 DEF BusInv, EventsOnce, Comes
    <2>2. \A i, k \in DOMAIN queue' : queue'[i] = queue'[k] => i = k
      BY <1>4 DEF HeldOnce
    <2> QED
      BY <1>0, <1>1, <1>3, <2>1, <2>2 DEF BusInv, EventsOnce, Comes
  <1>8. SeenOnce'
    <2>1. \A k \in DOMAIN queue' : pool[queue'[k]] = e
                                   \/ \E i \in DOMAIN queue : queue'[k] = queue[i]
      BY <1>0, <1>3 DEF Comes
    <2> QED
      BY <1>0, <1>1, <2>1 DEF BusInv, SeenOnce
  <1>9. /\ \A x, y : Before(accepted, x, y) => Before(accepted', x, y)
        /\ \A x : Has(accepted, x) => Before(accepted', x, e)
        /\ \A x : Has(accepted, x) => Has(accepted', x)
        /\ Has(accepted', e)
    BY <1>0, <1>2, BeforeAppend
  <1>10. InOrder'
    <2>1. \A i, k \in DOMAIN queue' :
            i < k /\ pool[queue'[i]] \notin High /\ pool[queue'[k]] \notin High =>
                Before(accepted', pool[queue'[i]], pool[queue'[k]])
      <3>1. CASE queue' = Append(queue, s)
        <4>1. /\ Len(queue) \in Nat /\ DOMAIN queue = 1 .. Len(queue)
              /\ DOMAIN queue' = 1 .. Len(queue) + 1
              /\ \A i \in DOMAIN queue : queue'[i] = queue[i]
              /\ queue'[Len(queue) + 1] = s
          BY <1>0, <1>2, <3>1, AppendFacts
        <4>2. \A i, k \in DOMAIN queue' : i < k =>
                i \in DOMAIN queue /\ (k \in DOMAIN queue \/ queue'[k] = s)
          BY <4>1
        <4> QED
          BY <1>0, <1>9, <4>1, <4>2 DEF BusInv, InOrder
      <3>2. CASE queue' = <<s>> \o queue /\ e \in High
        <4>1. /\ Len(queue) \in Nat /\ DOMAIN queue = 1 .. Len(queue)
              /\ DOMAIN queue' = 1 .. Len(queue) + 1
              /\ queue'[1] = s
              /\ \A i \in 2 .. Len(queue) + 1 : queue'[i] = queue[i - 1]
          BY <1>0, <1>2, <3>2, FrontFacts
        <4>2. \A i, k \in DOMAIN queue' : i < k =>
                /\ k - 1 \in DOMAIN queue /\ queue'[k] = queue[k - 1]
                /\ i = 1 \/ (i - 1 \in DOMAIN queue /\ queue'[i] = queue[i - 1]
                             /\ i - 1 < k - 1)
          BY <4>1
        <4> QED
          BY <1>0, <1>9, <3>2, <4>1, <4>2 DEF BusInv, InOrder
      <3> QED
        BY <1>0, <3>1, <3>2
    <2>2. \A k \in DOMAIN queue' : pool[queue'[k]] = e
                                   \/ \E i \in DOMAIN queue : queue'[k] = queue[i]
      BY <1>0, <1>3 DEF Comes
    <2>3. /\ \A k \in DOMAIN queue' : Has(accepted', pool[queue'[k]])
          /\ Dispatching => Has(accepted', pool[bus.slot])
          /\ \A h \in Handlers : \A i \in DOMAIN seen[h] : Has(accepted', seen[h][i])
      BY <1>9, <2>2 DEF BusInv, InOrder
    <2>4. Dispatching => \A k \in DOMAIN queue' :
            pool[bus.slot] \notin High /\ pool[queue'[k]] \notin High =>
                Before(accepted', pool[bus.slot], pool[queue'[k]])
      BY <1>9, <2>2 DEF BusInv, InOrder
    <2>5. \A h \in Handlers : \A i \in DOMAIN seen[h], k \in DOMAIN queue' :
            seen[h][i] \notin High /\ pool[queue'[k]] \notin High =>
                Before(accepted', seen[h][i], pool[queue'[k]])
      BY <1>9, <2>2 DEF BusInv, InOrder
    <2>6. Dispatching => \A h \in Handlers : \A i \in DOMAIN seen[h] :
            (\E k \in DOMAIN bus.todo : bus.todo[k] = h)
            /\ seen[h][i] \notin High /\ pool[bus.slot] \notin High =>
                Before(accepted', seen[h][i], pool[bus.slot])
      BY <1>9 DEF BusInv, InOrder
    <2> QED
      BY <1>0, <2>1, <2>3, <2>4, <2>5, <2>6 DEF InOrder
  <1>11. NormalEventsInOrder'
    BY <1>0, <1>9 DEF BusInv, NormalEventsInOrder
  <1> QED
    BY <1>4, <1>5, <1>6, <1>7, <1>8, <1>10, <1>11 DEF Flow

\* post_count touches counters only.
LEMMA PostCountStep ==
    ASSUME BusInv, NEW p \in Posters, post_count(p)
    PROVE  Flow'
  <1> USE DEF Holding, Dispatching
  <1>0. /\ post[p].stage = "count"
        /\ UNCHANGED <<in_use, pool, queue, bus, handlers, fresh, accepted, seen>>
    BY DEF post_count, history
  <1>1. post'[p].stage = "idle" /\ \A q \in Posters : q # p => post'[q] = post[q]
    BY IdleFacts DEF BusInv, post_count
  <1>2. HeldOnce' /\ NoneLost'
    BY <1>0, <1>1 DEF BusInv, HeldOnce, NoneLost
  <1>3. Filled' /\ EventsOnce'
    BY <1>0, <1>1 DEF BusInv, Filled, EventsOnce
  <1>4. SeenOnce'
    BY <1>0, <1>1 DEF BusInv, SeenOnce
  <1>5. InOrder' /\ NormalEventsInOrder'
    BY <1>0 DEF BusInv, InOrder, NormalEventsInOrder, Has, Before
  <1> QED
    BY <1>2, <1>3, <1>4, <1>5 DEF Flow

\* The slot at the head of the queue becomes the bus task's.
LEMMA ReceiveStep ==
    ASSUME BusInv, bus_receive
    PROVE  Flow'
  <1> USE DEF Holding, Dispatching
  <1>0. /\ queue # <<>> /\ queue' = Tail(queue) /\ bus.stage = "receive"
        /\ bus' = [stage |-> "dispatch", slot |-> Head(queue), todo |-> handlers]
        /\ UNCHANGED <<in_use, pool, post, handlers, fresh, accepted, seen>>
    BY DEF bus_receive, history
  <1>1. queue \in Seq(PoolSlots)
    BY DEF BusInv, BusTypeOK
  <1>2. /\ 1 \in DOMAIN queue /\ Head(queue) = queue[1] /\ Head(queue) \in PoolSlots
        /\ \A i \in DOMAIN queue' : i + 1 \in DOMAIN queue /\ queue'[i] = queue[i + 1]
                                    /\ i + 1 # 1 /\ i \in Nat
        /\ \A i \in DOMAIN queue : i # 1 => i - 1 \in DOMAIN queue' /\ queue'[i - 1] = queue[i]
    BY <1>0, <1>1, TailFacts
  <1>3. HeldOnce'
    <2>1. \A i, k \in DOMAIN queue' : queue'[i] = queue'[k] => i = k
      BY <1>2 DEF BusInv, HeldOnce
    <2>2. \A i \in DOMAIN queue' : queue'[i] # Head(queue)
      BY <1>2 DEF BusInv, HeldOnce
    <2> QED
      BY <1>0, <1>2, <2>1, <2>2 DEF BusInv, HeldOnce
  <1>4. NoneLost'
    <2> SUFFICES ASSUME NEW s \in PoolSlots, in_use[s]
                 PROVE  \/ \E p \in Posters : Holding(p) /\ post[p].slot = s
                        \/ \E i \in DOMAIN queue' : queue'[i] = s
                        \/ Head(queue) = s
      BY <1>0 DEF NoneLost
    <2>1. CASE \E i \in DOMAIN queue : queue[i] = s
      BY <1>2, <2>1
    <2> QED
      BY <1>0, <2>1 DEF BusInv, NoneLost
  <1>5. Filled'
    BY <1>0, <1>2 DEF BusInv, Filled
  <1>6. EventsOnce'
    <2>1. \A i, k \in DOMAIN queue' : pool[queue'[i]] = pool[queue'[k]] => i = k
      BY <1>2 DEF BusInv, EventsOnce
    <2>2. \A i \in DOMAIN queue' : pool[queue'[i]] # pool[Head(queue)]
      BY <1>2 DEF BusInv, EventsOnce
    <2> QED
      BY <1>0, <1>2, <2>1, <2>2 DEF BusInv, EventsOnce
  <1>7. SeenOnce'
    BY <1>0, <1>2 DEF BusInv, SeenOnce
  <1>8. InOrder'
    <2>1. \A i, k \in DOMAIN queue' :
            i < k /\ pool[queue'[i]] \notin High /\ pool[queue'[k]] \notin High =>
                Before(accepted, pool[queue'[i]], pool[queue'[k]])
      <3>1. \A i, k \in DOMAIN queue' : i < k => i + 1 < k + 1
        BY <1>1, <1>0, TailFacts
      <3> QED
        BY <1>2, <3>1 DEF BusInv, InOrder
    <2>2. \A k \in DOMAIN queue' :
            pool[Head(queue)] \notin High /\ pool[queue'[k]] \notin High =>
                Before(accepted, pool[Head(queue)], pool[queue'[k]])
      <3>1. \A k \in DOMAIN queue' : 1 < k + 1
        BY <1>1, <1>0, TailFacts
      <3> QED
        BY <1>2, <3>1 DEF BusInv, InOrder
    <2>3. \A h \in Handlers : \A i \in DOMAIN seen[h], k \in DOMAIN queue' :
            seen[h][i] \notin High /\ pool[queue'[k]] \notin High =>
                Before(accepted, seen[h][i], pool[queue'[k]])
      BY <1>2 DEF BusInv, InOrder
    <2>4. \A h \in Handlers : \A i \in DOMAIN seen[h] :
            seen[h][i] \notin High /\ pool[Head(queue)] \notin High =>
                Before(accepted, seen[h][i], pool[Head(queue)])
      BY <1>2 DEF BusInv, InOrder
    <2>5. /\ \A k \in DOMAIN queue' : Has(accepted, pool[queue'[k]])
          /\ Has(accepted, pool[Head(queue)])
          /\ \A h \in Handlers : \A i \in DOMAIN seen[h] : Has(accepted, seen[h][i])
      BY <1>2 DEF BusInv, InOrder
    <2> QED
      BY <1>0, <2>1, <2>2, <2>3, <2>4, <2>5 DEF InOrder
  <1>9. NormalEventsInOrder'
    BY <1>0 DEF BusInv, NormalEventsInOrder
  <1> QED
    BY <1>3, <1>4, <1>5, <1>6, <1>7, <1>8, <1>9 DEF Flow

\* One handler is called with the event in the bus task's slot.
LEMMA DispatchStep ==
    ASSUME BusInv, bus_dispatch
    PROVE  Flow'
  <1> DEFINE h0 == Head(bus.todo)
             e == pool[bus.slot]
  <1> USE DEF Holding, Dispatching
  <1>0. /\ bus.stage = "dispatch" /\ bus.todo # <<>>
        /\ seen' = [seen EXCEPT ![h0] = Append(@, e)]
        /\ bus' = [bus EXCEPT !.todo = Tail(@)]
        /\ UNCHANGED <<in_use, pool, queue, post, handlers, fresh, accepted>>
    BY DEF bus_dispatch
  <1>1. bus.todo \in Seq(Handlers) /\ seen \in [Handlers -> Seq(Events)] /\ bus \in BusState
    BY DEF BusInv, BusTypeOK, BusState
  <1>2. bus'.stage = "dispatch" /\ bus'.slot = bus.slot /\ bus'.todo = Tail(bus.todo)
    BY <1>0, <1>1 DEF BusState
  <1>3. /\ 1 \in DOMAIN bus.todo /\ h0 = bus.todo[1] /\ h0 \in Handlers
        /\ \A i \in DOMAIN bus'.todo :
             i + 1 \in DOMAIN bus.todo /\ bus'.todo[i] = bus.todo[i + 1]
             /\ i + 1 # 1 /\ i \in Nat
    BY <1>0, <1>1, <1>2, TailFacts
  <1>4. e \in Events
    BY <1>0 DEF BusInv, Filled
  <1>5. /\ \A h \in Handlers : h # h0 => seen'[h] = seen[h]
        /\ seen'[h0] = Append(seen[h0], e)
    BY <1>0, <1>1, <1>3
  <1>6. /\ Len(seen[h0]) \in Nat /\ DOMAIN seen[h0] = 1 .. Len(seen[h0])
        /\ DOMAIN seen'[h0] = 1 .. Len(seen[h0]) + 1
        /\ \A i \in DOMAIN seen[h0] : seen'[h0][i] = seen[h0][i]
        /\ seen'[h0][Len(seen[h0]) + 1] = e
    BY <1>1, <1>3, <1>4, <1>5, AppendFacts
  <1>7. \A i \in DOMAIN seen'[h0] :
          \/ i \in DOMAIN seen[h0] /\ seen'[h0][i] = seen[h0][i]
          \/ i = Len(seen[h0]) + 1 /\ seen'[h0][i] = e
    <2>1. PICK n \in Nat : n = Len(seen[h0])
      BY <1>6
    <2>2. DOMAIN seen'[h0] = 1 .. n + 1 /\ DOMAIN seen[h0] = 1 .. n
      BY <1>6, <2>1
    <2>3. \A m \in Nat : \A i \in 1 .. m + 1 : i \in 1 .. m \/ i = m + 1
      OBVIOUS
    <2>4. \A i \in DOMAIN seen'[h0] : i \in DOMAIN seen[h0] \/ i = n + 1
      BY <2>2, <2>3, Zenon
    <2> QED
      BY <1>6, <2>1, <2>4, Zenon
  <1>8. HeldOnce' /\ NoneLost'
    BY <1>0, <1>2 DEF BusInv, HeldOnce, NoneLost
  <1>9. Filled' /\ EventsOnce'
    BY <1>0, <1>2 DEF BusInv, Filled, EventsOnce
  <1>10. SeenOnce'
    <2>1. \A i, k \in DOMAIN bus'.todo : bus'.todo[i] = bus'.todo[k] => i = k
      BY <1>0, <1>3 DEF BusInv, SeenOnce
    <2>2. \A k \in DOMAIN bus'.todo : bus'.todo[k] # h0
      BY <1>0, <1>3 DEF BusInv, SeenOnce
    <2>3. \A i \in DOMAIN seen[h0] : seen[h0][i] # e
      BY <1>0, <1>3 DEF BusInv, SeenOnce
    <2>4. \A i, k \in DOMAIN seen'[h0] : seen'[h0][i] = seen'[h0][k] => i = k
      BY <1>3, <1>7, <2>3 DEF BusInv, SeenOnce
    <2>5. /\ e \notin fresh
          /\ \A p \in Posters : Holding(p) => post[p].event # e
          /\ \A k \in DOMAIN queue : pool[queue[k]] # e
      BY <1>0 DEF BusInv, EventsOnce
    <2>6. \A h \in Handlers : \A i \in DOMAIN seen'[h] :
            \/ i \in DOMAIN seen[h] /\ seen'[h][i] = seen[h][i]
            \/ h = h0 /\ seen'[h][i] = e
      BY <1>5, <1>7
    <2>7. \A h \in Handlers : \A i \in DOMAIN seen'[h] :
            /\ seen'[h][i] \notin fresh
            /\ \A p \in Posters : Holding(p) => post[p].event # seen'[h][i]
            /\ \A k \in DOMAIN queue : pool[queue[k]] # seen'[h][i]
      BY <2>5, <2>6 DEF BusInv, SeenOnce
    <2>8. \A h \in Handlers : \A i \in DOMAIN seen'[h] :
            e = seen'[h][i] => \A k \in DOMAIN bus'.todo : bus'.todo[k] # h
      <3>1. \A h \in Handlers : \A i \in DOMAIN seen[h] :
              e = seen[h][i] => \A k \in DOMAIN bus.todo : bus.todo[k] # h
        BY <1>0 DEF BusInv, SeenOnce
      <3> QED
        BY <1>3, <2>2, <2>6, <3>1
    <2>9. \A h \in Handlers : \A i, k \in DOMAIN seen'[h] : seen'[h][i] = seen'[h][k] => i = k
      BY <1>5, <2>4 DEF BusInv, SeenOnce
    <2>10. \A i, k \in DOMAIN handlers' : handlers'[i] = handlers'[k] => i = k
      BY <1>0 DEF BusInv, SeenOnce
    <2> QED
      BY <1>0, <1>2, <2>1, <2>7, <2>8, <2>9, <2>10 DEF SeenOnce
  <1>11. \A h \in Handlers : \A i \in DOMAIN seen'[h] :
           \/ i \in DOMAIN seen[h] /\ seen'[h][i] = seen[h][i]
           \/ h = h0 /\ seen'[h][i] = e
    BY <1>5, <1>7
  <1>12. InOrder'
    <2>1. \A h \in Handlers : \A i \in DOMAIN seen'[h] : Has(accepted, seen'[h][i])
      BY <1>0, <1>11 DEF BusInv, InOrder
    <2>2. \A h \in Handlers : \A i \in DOMAIN seen'[h], k \in DOMAIN queue :
            seen'[h][i] \notin High /\ pool[queue[k]] \notin High =>
                Before(accepted, seen'[h][i], pool[queue[k]])
      BY <1>0, <1>11 DEF BusInv, InOrder
    <2>3. \A k \in DOMAIN bus'.todo : bus'.todo[k] # h0
      BY <1>0, <1>3 DEF BusInv, SeenOnce
    <2>4. \A h \in Handlers : \A i \in DOMAIN seen'[h] :
            (\E k \in DOMAIN bus'.todo : bus'.todo[k] = h)
            /\ seen'[h][i] \notin High /\ e \notin High =>
                Before(accepted, seen'[h][i], e)
      BY <1>0, <1>3, <1>11, <2>3 DEF BusInv, InOrder
    <2>5. /\ \A i \in DOMAIN queue : Has(accepted, pool[queue[i]])
          /\ Has(accepted, e)
          /\ \A i, k \in DOMAIN queue :
               i < k /\ pool[queue[i]] \notin High /\ pool[queue[k]] \notin High =>
                   Before(accepted, pool[queue[i]], pool[queue[k]])
          /\ \A k \in DOMAIN queue : e \notin High /\ pool[queue[k]] \notin High =>
                   Before(accepted, e, pool[queue[k]])
      BY <1>0 DEF BusInv, InOrder
    <2> QED
      BY <1>0, <1>2, <2>1, <2>2, <2>4, <2>5 DEF InOrder
  <1>13. NormalEventsInOrder'
    <2> SUFFICES ASSUME NEW h \in Handlers, NEW a \in Events \ High, NEW b \in Events \ High,
                        Before(seen'[h], a, b)
                 PROVE  Before(accepted, a, b)
      BY <1>0 DEF NormalEventsInOrder
    <2>1. CASE h # h0
      BY <1>5, <2>1 DEF BusInv, NormalEventsInOrder
    <2>2. CASE h = h0
      <3>1. PICK i \in DOMAIN seen'[h0], k \in DOMAIN seen'[h0] :
              i < k /\ seen'[h0][i] = a /\ seen'[h0][k] = b
        BY <2>2 DEF Before
      <3>2. i \in DOMAIN seen[h0] /\ seen[h0][i] = a
        BY <1>6, <3>1
      <3>3. CASE k \in DOMAIN seen[h0]
        BY <1>3, <1>6, <3>1, <3>2, <3>3 DEF BusInv, NormalEventsInOrder, Before
      <3>4. CASE seen'[h0][k] = e
        BY <1>0, <1>3, <3>1, <3>2, <3>4 DEF BusInv, InOrder
      <3> QED
        BY <1>7, <3>1, <3>3, <3>4
    <2> QED
      BY <2>1, <2>2
  <1> QED
    BY <1>8, <1>9, <1>10, <1>12, <1>13 DEF Flow

\* The bus task frees a slot nobody else holds.
LEMMA FreeStep ==
    ASSUME BusInv, bus_free
    PROVE  Flow'
  <1> USE DEF Holding, Dispatching
  <1>0. /\ bus.stage = "dispatch" /\ in_use' = [in_use EXCEPT ![bus.slot] = FALSE]
        /\ UNCHANGED <<pool, queue, post, handlers, fresh, accepted, seen>>
    BY DEF bus_free, history
  <1>1. bus'.stage = "count"
    BY DEF BusInv, BusTypeOK, bus_free
  <1>2. in_use \in [PoolSlots -> BOOLEAN] /\ \A i \in DOMAIN queue : queue[i] \in PoolSlots
    BY DEF BusInv, BusTypeOK
  <1>3. HeldOnce'
    BY <1>0, <1>1, <1>2 DEF BusInv, HeldOnce
  <1>4. NoneLost'
    BY <1>0, <1>1, <1>2 DEF BusInv, NoneLost
  <1>5. Filled' /\ EventsOnce'
    BY <1>0, <1>1 DEF BusInv, Filled, EventsOnce
  <1>6. SeenOnce'
    BY <1>0, <1>1 DEF BusInv, SeenOnce
  <1>7. InOrder' /\ NormalEventsInOrder'
    BY <1>0, <1>1 DEF BusInv, InOrder, NormalEventsInOrder
  <1> QED
    BY <1>3, <1>4, <1>5, <1>6, <1>7 DEF Flow

\* bus_count touches counters only.
LEMMA BusCountStep ==
    ASSUME BusInv, bus_count
    PROVE  Flow'
  <1> USE DEF Holding, Dispatching
  <1>0. /\ bus.stage = "count" /\ bus'.stage = "receive"
        /\ UNCHANGED <<in_use, pool, queue, post, handlers, fresh, accepted, seen>>
    BY DEF bus_count, IdleBus, history
  <1>1. HeldOnce' /\ NoneLost'
    BY <1>0 DEF BusInv, HeldOnce, NoneLost
  <1>2. Filled' /\ EventsOnce' /\ SeenOnce'
    BY <1>0 DEF BusInv, Filled, EventsOnce, SeenOnce
  <1>3. InOrder' /\ NormalEventsInOrder'
    BY <1>0 DEF BusInv, InOrder, NormalEventsInOrder
  <1> QED
    BY <1>1, <1>2, <1>3 DEF Flow

\* The table of handlers has no handler twice.
LEMMA RegisterStep ==
    ASSUME BusInv, NEW h \in Handlers, register_handler(h)
    PROVE  Flow'
  <1> USE DEF Holding, Dispatching
  <1>0. /\ \A i \in DOMAIN handlers : handlers[i] # h
        /\ handlers' = Append(handlers, h) /\ handlers \in Seq(Handlers)
        /\ UNCHANGED <<in_use, pool, queue, post, bus, fresh, accepted, seen>>
    BY DEF BusInv, BusTypeOK, register_handler, history
  <1>1. HeldOnce' /\ NoneLost' /\ Filled' /\ EventsOnce'
    BY <1>0 DEF BusInv, HeldOnce, NoneLost, Filled, EventsOnce
  <1>2. \A i, k \in DOMAIN handlers' : handlers'[i] = handlers'[k] => i = k
    BY <1>0, AppendFacts DEF BusInv, SeenOnce
  <1>3. SeenOnce'
    BY <1>0, <1>2 DEF BusInv, SeenOnce
  <1>4. InOrder' /\ NormalEventsInOrder'
    BY <1>0 DEF BusInv, InOrder, NormalEventsInOrder
  <1> QED
    BY <1>1, <1>3, <1>4 DEF Flow

-----------------------------------------------------------------------------
(* The counters *)

Counting == {p \in Posters : post[p].stage = "count"}
Busy == {p \in Posters : post[p].stage # "idle"}
InHand == IF bus.stage = "receive" THEN 0 ELSE 1
Running == IF job = NULL THEN 0 ELSE 1

\* The counters and what they count are natural numbers.
LEMMA Numbers ==
    ASSUME BusTypeOK
    PROVE  /\ IsFiniteSet(Counting) /\ Cardinality(Counting) \in Nat
           /\ IsFiniteSet(Busy) /\ Cardinality(Busy) \in Nat
           /\ IsFiniteSet(fresh) /\ Cardinality(fresh) \in Nat
           /\ Len(queue) \in Nat /\ Len(job_queue) \in Nat
           /\ \A c \in {"posted", "dispatched", "dropped", "job_posted",
                        "job_dispatched", "job_dropped"} : stats[c] \in Nat
  <1>1. Counting \in SUBSET Posters /\ Busy \in SUBSET Posters /\ fresh \in SUBSET Events
    BY DEF Counting, Busy, BusTypeOK
  <1>2. IsFiniteSet(Counting) /\ IsFiniteSet(Busy) /\ IsFiniteSet(fresh)
    BY <1>1, BusAssumption, FS_Subset
  <1>3. Len(queue) \in Nat /\ Len(job_queue) \in Nat
    BY DEF BusTypeOK
  <1>4. \A c \in {"posted", "dispatched", "dropped", "job_posted",
                  "job_dispatched", "job_dropped"} : stats[c] \in Nat
    BY DEF BusTypeOK, Stats
  <1> QED
    BY <1>2, <1>3, <1>4, FS_CardinalityType

\* The equations of StatsBalance: po posted, co about to be counted, di
\* dispatched, q in the queue, h in hand, dr dropped, bu busy posts, fr fresh;
\* for jobs jp posted, jd dispatched, jq in the queue, r running.
Balanced(po, co, di, q, h, dr, bu, fr) ==
    /\ po + co = di + q + h
    /\ po + dr + bu + fr = Cardinality(Events)
JobsBalanced(jp, jd, jq, r) == jp = jd + jq + r

\* Every way in which a step moves one event keeps the balance.
LEMMA Rebalance ==
    ASSUME NEW po \in Nat, NEW co \in Nat, NEW di \in Nat, NEW q \in Nat, NEW h \in Nat,
           NEW dr \in Nat, NEW bu \in Nat, NEW fr \in Nat,
           Balanced(po, co, di, q, h, dr, bu, fr)
    PROVE  /\ Balanced(po, co, di, q, h, dr + 1, bu, fr - 1)
           /\ Balanced(po, co, di, q, h, dr, bu + 1, fr - 1)
           /\ Balanced(po, co + 1, di, q + 1, h, dr, bu, fr)
           /\ Balanced(po + 1, co - 1, di, q, h, dr, bu - 1, fr)
           /\ h = 0 => Balanced(po, co, di, q - 1, 1, dr, bu, fr)
           /\ h = 1 => Balanced(po, co, di + 1, q, 0, dr, bu, fr)
  <1>1. Cardinality(Events) \in Nat
    BY FS_CardinalityType, BusAssumption
  <1> QED
    BY <1>1 DEF Balanced

\* The same for jobs.
LEMMA RebalanceJobs ==
    ASSUME NEW jp \in Nat, NEW jd \in Nat, NEW jq \in Nat, NEW r \in Nat,
           JobsBalanced(jp, jd, jq, r)
    PROVE  /\ JobsBalanced(jp + 1, jd, jq + 1, r)
           /\ r = 0 => JobsBalanced(jp, jd, jq - 1, 1)
           /\ r = 1 => JobsBalanced(jp, jd + 1, jq, 0)
  BY DEF JobsBalanced

\* StatsBalance, in these terms.
LEMMA Balance ==
    StatsBalance <=>
      /\ Balanced(stats.posted, Cardinality(Counting), stats.dispatched, Len(queue), InHand,
                  stats.dropped, Cardinality(Busy), Cardinality(fresh))
      /\ JobsBalanced(stats.job_posted, stats.job_dispatched, Len(job_queue), Running)
  BY DEF StatsBalance, Counting, Busy, InHand, Running, Balanced, JobsBalanced

\* Every step moves the counters together with what they count.
LEMMA BalanceStep == BusInv /\ [BusNext]_bus_vars => StatsBalance'
  <1> SUFFICES ASSUME BusInv, [BusNext]_bus_vars PROVE StatsBalance'
    OBVIOUS
  <1> DEFINE new == /\ Balanced(stats'.posted, Cardinality(Counting'), stats'.dispatched,
                                Len(queue'), InHand', stats'.dropped, Cardinality(Busy'),
                                Cardinality(fresh'))
                    /\ JobsBalanced(stats'.job_posted, stats'.job_dispatched,
                                    Len(job_queue'), Running')
  <1>1. SUFFICES new
    BY DEF StatsBalance, Counting, Busy, InHand, Running, Balanced, JobsBalanced
  <1> HIDE DEF new
  <1>2. /\ Balanced(stats.posted, Cardinality(Counting), stats.dispatched, Len(queue), InHand,
                    stats.dropped, Cardinality(Busy), Cardinality(fresh))
        /\ JobsBalanced(stats.job_posted, stats.job_dispatched, Len(job_queue), Running)
    BY Balance DEF BusInv
  <1>3. /\ IsFiniteSet(Counting) /\ IsFiniteSet(Busy) /\ IsFiniteSet(fresh)
        /\ BusTypeOK /\ stats \in Stats
    BY Numbers DEF BusInv, BusTypeOK
  <1>30. /\ Cardinality(Counting) \in Nat /\ Cardinality(Busy) \in Nat
         /\ Cardinality(fresh) \in Nat /\ Len(queue) \in Nat /\ Len(job_queue) \in Nat
         /\ stats.posted \in Nat /\ stats.dispatched \in Nat /\ stats.dropped \in Nat
         /\ stats.job_posted \in Nat /\ stats.job_dispatched \in Nat
         /\ InHand \in Nat /\ Running \in Nat
    BY Numbers DEF BusInv, InHand, Running
  <1>4. ASSUME NEW p \in Posters, NEW e \in Events, post_invalid(p, e) \/ pool_exhausted(p, e)
        PROVE  new
    <2>1. /\ Count("dropped") /\ e \in fresh /\ fresh' = fresh \ {e}
          /\ UNCHANGED <<queue, post, bus, job_queue, job>>
      BY <1>4 DEF post_invalid, pool_exhausted, job_vars
    <2>2. Cardinality(fresh') = Cardinality(fresh) - 1
      BY <1>3, <2>1, FS_RemoveElement
    <2>3. /\ stats'.dropped = stats.dropped + 1 /\ stats'.posted = stats.posted
          /\ stats'.dispatched = stats.dispatched /\ stats'.job_posted = stats.job_posted
          /\ stats'.job_dispatched = stats.job_dispatched
      BY <1>3, <2>1, CountFacts
    <2>4. Counting' = Counting /\ Busy' = Busy /\ InHand' = InHand /\ Running' = Running
      BY <2>1 DEF Counting, Busy, InHand, Running
    <2>5. /\ Cardinality(Counting') = Cardinality(Counting)
          /\ Cardinality(Busy') = Cardinality(Busy)
          /\ Len(queue') = Len(queue) /\ Len(job_queue') = Len(job_queue)
      BY <2>1, <2>4
    <2>9. Balanced(stats.posted, Cardinality(Counting), stats.dispatched, Len(queue),
                    InHand, stats.dropped + 1, Cardinality(Busy), Cardinality(fresh) - 1)
      BY <1>2, <1>30, Rebalance
    <2> QED
      BY <1>2, <2>9, <2>2, <2>3, <2>4, <2>5 DEF new
  <1>5. ASSUME NEW p \in Posters, NEW e \in Events, pool_alloc(p, e) PROVE new
    <2>1. /\ e \in fresh /\ fresh' = fresh \ {e} /\ post[p].stage = "idle"
          /\ UNCHANGED <<queue, bus, job_queue, job, stats>>
      BY <1>5 DEF pool_alloc, job_vars
    <2>2. post'[p].stage = "fill" /\ \A q \in Posters : q # p => post'[q] = post[q]
      <3>1. PICK s \in PoolSlots : post' = [post EXCEPT ![p] = [stage |-> "fill", slot |-> s, event |-> e]]
        BY <1>5 DEF pool_alloc
      <3> QED
        BY <1>3, <3>1 DEF BusTypeOK
    <2>3. Counting' = Counting /\ Busy' = Busy \cup {p} /\ p \notin Busy
      BY <2>1, <2>2 DEF Counting, Busy
    <2>4. Cardinality(Busy') = Cardinality(Busy) + 1 /\ Cardinality(fresh') = Cardinality(fresh) - 1
      BY <1>3, <2>1, <2>3, FS_AddElement, FS_RemoveElement
    <2>5. InHand' = InHand /\ Running' = Running
      BY <2>1 DEF InHand, Running
    <2>6. /\ Cardinality(Counting') = Cardinality(Counting) /\ stats' = stats
          /\ Len(queue') = Len(queue) /\ Len(job_queue') = Len(job_queue)
      BY <2>1, <2>3
    <2>9. Balanced(stats.posted, Cardinality(Counting), stats.dispatched, Len(queue),
                    InHand, stats.dropped, Cardinality(Busy) + 1, Cardinality(fresh) - 1)
      BY <1>2, <1>30, Rebalance
    <2> QED
      BY <1>2, <2>9, <2>4, <2>5, <2>6 DEF new
  <1>6. ASSUME NEW p \in Posters, post_fill(p) PROVE new
    <2>1. post[p].stage = "fill" /\ UNCHANGED <<queue, bus, job_queue, job, stats, fresh>>
      BY <1>6 DEF post_fill, job_vars
    <2>2. post'[p].stage = "send" /\ \A q \in Posters : q # p => post'[q] = post[q]
      BY <1>3, <1>6, StageFacts DEF post_fill
    <2>3. Counting' = Counting /\ Busy' = Busy /\ InHand' = InHand /\ Running' = Running
      BY <2>1, <2>2 DEF Counting, Busy, InHand, Running
    <2> QED
      BY <1>2, <2>1, <2>3 DEF new
  <1>7. ASSUME NEW p \in Posters, post_send(p) PROVE new
    <2>1. /\ post[p].stage = "send" /\ UNCHANGED <<bus, job_queue, job, stats, fresh>>
          /\ queue' \in {<<post[p].slot>> \o queue, Append(queue, post[p].slot)}
          /\ post' = [post EXCEPT ![p].stage = "count"]
          /\ post[p].slot \in PoolSlots
      BY <1>7, SendFacts
    <2>2. post'[p].stage = "count" /\ \A q \in Posters : q # p => post'[q] = post[q]
      BY <1>3, <2>1, StageFacts
    <2>3. /\ Counting' = Counting \cup {p} /\ p \notin Counting /\ Busy' = Busy
          /\ InHand' = InHand /\ Running' = Running
      BY <2>1, <2>2 DEF Counting, Busy, InHand, Running
    <2>4. Cardinality(Counting') = Cardinality(Counting) + 1
      BY <1>3, <2>3, FS_AddElement
    <2>5. Len(queue') = Len(queue) + 1
      <3>1. queue \in Seq(PoolSlots)
        BY <1>3 DEF BusTypeOK
      <3>2. Len(<<post[p].slot>> \o queue) = Len(queue) + 1
        BY <2>1, <3>1, FrontFacts
      <3>3. Len(Append(queue, post[p].slot)) = Len(queue) + 1
        BY <2>1, <3>1, AppendFacts
      <3> QED
        BY <2>1, <3>2, <3>3
    <2>6. /\ Cardinality(Busy') = Cardinality(Busy) /\ stats' = stats
          /\ Cardinality(fresh') = Cardinality(fresh) /\ Len(job_queue') = Len(job_queue)
          /\ InHand' = InHand /\ Running' = Running
      BY <2>1, <2>3
    <2>9. Balanced(stats.posted, Cardinality(Counting) + 1, stats.dispatched, Len(queue) + 1,
                    InHand, stats.dropped, Cardinality(Busy), Cardinality(fresh))
      BY <1>2, <1>30, Rebalance
    <2> QED
      BY <1>2, <2>9, <2>4, <2>5, <2>6 DEF new
  <1>8. ASSUME NEW p \in Posters, post_count(p) PROVE new
    <2>1. /\ post[p].stage = "count" /\ Count("posted")
          /\ UNCHANGED <<queue, bus, job_queue, job, fresh>>
      BY <1>8 DEF post_count, job_vars
    <2>2. post'[p].stage = "idle" /\ \A q \in Posters : q # p => post'[q] = post[q]
      BY <1>3, <1>8, IdleFacts DEF post_count
    <2>3. /\ Counting' = Counting \ {p} /\ p \in Counting
          /\ Busy' = Busy \ {p} /\ p \in Busy
          /\ InHand' = InHand /\ Running' = Running
      BY <2>1, <2>2 DEF Counting, Busy, InHand, Running
    <2>4. /\ Cardinality(Counting') = Cardinality(Counting) - 1
          /\ Cardinality(Busy') = Cardinality(Busy) - 1
      BY <1>3, <2>3, FS_RemoveElement
    <2>5. /\ stats'.posted = stats.posted + 1 /\ stats'.dropped = stats.dropped
          /\ stats'.dispatched = stats.dispatched /\ stats'.job_posted = stats.job_posted
          /\ stats'.job_dispatched = stats.job_dispatched
      BY <1>3, <2>1, CountFacts
    <2>6. /\ Len(queue') = Len(queue) /\ Cardinality(fresh') = Cardinality(fresh)
          /\ Len(job_queue') = Len(job_queue) /\ InHand' = InHand /\ Running' = Running
      BY <2>1, <2>3
    <2>9. Balanced(stats.posted + 1, Cardinality(Counting) - 1, stats.dispatched, Len(queue),
                    InHand, stats.dropped, Cardinality(Busy) - 1, Cardinality(fresh))
      BY <1>2, <1>30, Rebalance
    <2> QED
      BY <1>2, <2>9, <2>4, <2>5, <2>6 DEF new
  <1>9. ASSUME bus_receive PROVE new
    <2>1. /\ queue # <<>> /\ queue' = Tail(queue) /\ InHand = 0 /\ InHand' = 1
          /\ UNCHANGED <<post, job_queue, job, stats, fresh>>
      BY <1>9 DEF bus_receive, InHand, job_vars
    <2>2. Len(queue') = Len(queue) - 1
      BY <1>3, <2>1, TailFacts DEF BusTypeOK
    <2>3. Counting' = Counting /\ Busy' = Busy /\ Running' = Running
      BY <2>1 DEF Counting, Busy, Running
    <2>9. Balanced(stats.posted, Cardinality(Counting), stats.dispatched, Len(queue) - 1,
                    1, stats.dropped, Cardinality(Busy), Cardinality(fresh))
      BY <1>2, <1>30, <2>1, Rebalance
    <2> QED
      BY <1>2, <2>9, <2>1, <2>2, <2>3 DEF new
  <1>10. ASSUME bus_dispatch \/ bus_free PROVE new
    <2>1. /\ bus.stage = "dispatch" /\ bus'.stage \in {"dispatch", "count"}
          /\ UNCHANGED <<queue, post, job_queue, job, stats, fresh>>
      BY <1>3, <1>10 DEF bus_dispatch, bus_free, job_vars, BusTypeOK
    <2>2. Counting' = Counting /\ Busy' = Busy /\ Running' = Running /\ InHand' = InHand
      BY <2>1 DEF Counting, Busy, Running, InHand
    <2> QED
      BY <1>2, <2>1, <2>2 DEF new
  <1>11. ASSUME bus_count PROVE new
    <2>1. /\ InHand = 1 /\ InHand' = 0 /\ Count("dispatched")
          /\ UNCHANGED <<queue, post, job_queue, job, fresh>>
      BY <1>11 DEF bus_count, IdleBus, InHand, job_vars
    <2>2. Counting' = Counting /\ Busy' = Busy /\ Running' = Running
      BY <2>1 DEF Counting, Busy, Running
    <2>3. /\ stats'.posted = stats.posted /\ stats'.dropped = stats.dropped
          /\ stats'.dispatched = stats.dispatched + 1 /\ stats'.job_posted = stats.job_posted
          /\ stats'.job_dispatched = stats.job_dispatched
      BY <1>3, <2>1, CountFacts
    <2>9. Balanced(stats.posted, Cardinality(Counting), stats.dispatched + 1, Len(queue),
                    0, stats.dropped, Cardinality(Busy), Cardinality(fresh))
      BY <1>2, <1>30, <2>1, Rebalance
    <2> QED
      BY <1>2, <2>9, <2>1, <2>2, <2>3 DEF new
  <1>12. ASSUME NEW j \in Jobs, post_job(j) PROVE new
    <2>1. /\ job_queue' = Append(job_queue, j) /\ Count("job_posted")
          /\ UNCHANGED <<queue, post, bus, job, fresh>>
      BY <1>12 DEF post_job
    <2>2. Len(job_queue') = Len(job_queue) + 1
      BY <1>3, <2>1, AppendFacts DEF BusTypeOK
    <2>3. /\ stats'.posted = stats.posted /\ stats'.dropped = stats.dropped
          /\ stats'.dispatched = stats.dispatched /\ stats'.job_posted = stats.job_posted + 1
          /\ stats'.job_dispatched = stats.job_dispatched
      BY <1>3, <2>1, CountFacts
    <2>4. Counting' = Counting /\ Busy' = Busy /\ Running' = Running /\ InHand' = InHand
      BY <2>1 DEF Counting, Busy, Running, InHand
    <2>5. Len(queue') = Len(queue) /\ Cardinality(fresh') = Cardinality(fresh)
      BY <2>1
    <2>9. JobsBalanced(stats.job_posted + 1, stats.job_dispatched, Len(job_queue) + 1, Running)
      BY <1>2, <1>30, RebalanceJobs
    <2> QED
      BY <1>2, <2>9, <2>2, <2>3, <2>4, <2>5 DEF new
  <1>13. ASSUME NEW j \in Jobs, post_job_timeout(j) PROVE new
    <2>1. Count("job_dropped") /\ UNCHANGED <<queue, post, bus, job_queue, job, fresh>>
      BY <1>13 DEF post_job_timeout
    <2>2. /\ stats'.posted = stats.posted /\ stats'.dropped = stats.dropped
          /\ stats'.dispatched = stats.dispatched /\ stats'.job_posted = stats.job_posted
          /\ stats'.job_dispatched = stats.job_dispatched
      BY <1>3, <2>1, CountFacts
    <2>3. Counting' = Counting /\ Busy' = Busy /\ Running' = Running /\ InHand' = InHand
      BY <2>1 DEF Counting, Busy, Running, InHand
    <2> QED
      BY <1>2, <2>1, <2>2, <2>3 DEF new
  <1>14. ASSUME job_receive PROVE new
    <2>1. /\ job_queue # <<>> /\ job_queue' = Tail(job_queue) /\ job = NULL
          /\ job' = Head(job_queue) /\ UNCHANGED <<queue, post, bus, stats, fresh>>
      BY <1>14 DEF job_receive
    <2>2. Len(job_queue') = Len(job_queue) - 1 /\ job' \in Jobs
      BY <1>3, <2>1, TailFacts DEF BusTypeOK
    <2>3. Running = 0 /\ Running' = 1
      BY <2>1, <2>2, BusAssumption DEF Running
    <2>4. Counting' = Counting /\ Busy' = Busy /\ InHand' = InHand
      BY <2>1 DEF Counting, Busy, InHand
    <2>9. JobsBalanced(stats.job_posted, stats.job_dispatched, Len(job_queue) - 1, 1)
      BY <1>2, <1>30, <2>3, RebalanceJobs
    <2> QED
      BY <1>2, <2>9, <2>1, <2>2, <2>3, <2>4 DEF new
  <1>15. ASSUME job_done PROVE new
    <2>1. /\ Running = 1 /\ Running' = 0 /\ Count("job_dispatched")
          /\ UNCHANGED <<queue, post, bus, job_queue, fresh>>
      BY <1>15 DEF job_done, Running
    <2>2. /\ stats'.posted = stats.posted /\ stats'.dropped = stats.dropped
          /\ stats'.dispatched = stats.dispatched /\ stats'.job_posted = stats.job_posted
          /\ stats'.job_dispatched = stats.job_dispatched + 1
      BY <1>3, <2>1, CountFacts
    <2>3. Counting' = Counting /\ Busy' = Busy /\ InHand' = InHand
      BY <2>1 DEF Counting, Busy, InHand
    <2>9. JobsBalanced(stats.job_posted, stats.job_dispatched + 1, Len(job_queue), 0)
      BY <1>2, <1>30, <2>1, RebalanceJobs
    <2> QED
      BY <1>2, <2>9, <2>1, <2>2, <2>3 DEF new
  <1>16. ASSUME bus_start \/ (\E h \in Handlers : register_handler(h)) \/ UNCHANGED bus_vars
         PROVE  new
    <2>1. UNCHANGED <<queue, post, bus, job_queue, job, stats, fresh>>
      BY <1>16 DEF bus_start, register_handler, bus_vars, job_vars
    <2>2. Counting' = Counting /\ Busy' = Busy /\ Running' = Running /\ InHand' = InHand
      BY <2>1 DEF Counting, Busy, Running, InHand
    <2> QED
      BY <1>2, <2>1, <2>2 DEF new
  <1> QED
    BY <1>4, <1>5, <1>6, <1>7, <1>8, <1>9, <1>10, <1>11, <1>12, <1>13, <1>14,
       <1>15, <1>16 DEF BusNext, Post, BusTask, JobTask

-----------------------------------------------------------------------------
(* The invariant, and what follows from it *)

\* Every step keeps each slot in one hand and each pointer true.
LEMMA FlowStep == BusInv /\ [BusNext]_bus_vars => Flow'
  <1> SUFFICES ASSUME BusInv, [BusNext]_bus_vars PROVE Flow'
    OBVIOUS
  <1>1. ASSUME NEW p \in Posters, NEW e \in Events, post_invalid(p, e) \/ pool_exhausted(p, e)
        PROVE  Flow'
    BY <1>1, StillStep DEF post_invalid, pool_exhausted, Still, history
  <1>2. ASSUME \/ \E j \in Jobs : post_job(j) \/ post_job_timeout(j)
               \/ job_receive \/ job_done \/ bus_start \/ UNCHANGED bus_vars
        PROVE  Flow'
    BY <1>2, StillStep DEF post_job, post_job_timeout, job_receive, job_done, bus_start,
       bus_vars, Still, history
  <1> QED
    BY <1>1, <1>2, AllocStep, FillStep, SendStep, PostCountStep, ReceiveStep, DispatchStep,
       FreeStep, BusCountStep, RegisterStep DEF BusNext, Post, BusTask, JobTask

\* The bus starts with every slot free and all counters at zero.
LEMMA InitInvariant == BusInit => BusInv
  <1> SUFFICES ASSUME BusInit PROVE BusInv
    OBVIOUS
  <1> USE DEF BusInit, Holding, Dispatching, IdlePost, IdleBus
  <1>1. BusTypeOK
    <2>1. /\ queue \in Seq(PoolSlots) /\ accepted \in Seq(Events)
          /\ handlers \in Seq(Handlers) /\ Len(handlers) <= MAX_HANDLERS
          /\ job_queue \in Seq(Jobs) /\ Len(job_queue) <= JOB_QUEUE_LEN
          /\ seen \in [Handlers -> Seq(Events)]
      BY BusAssumption
    <2>2. post \in [Posters -> PostState] /\ bus \in BusState /\ stats \in Stats
      BY DEF PostState, BusState, Stats
    <2> QED
      BY <2>1, <2>2 DEF BusTypeOK, PostState, BusState
  <1>2. HeldOnce /\ NoneLost /\ Filled
    BY DEF HeldOnce, NoneLost, Filled
  <1>3. EventsOnce /\ SeenOnce
    BY DEF EventsOnce, SeenOnce
  <1>4. InOrder /\ NormalEventsInOrder
    BY DEF InOrder, NormalEventsInOrder, Before
  <1>5. StatsBalance
    <2>1. Counting = {} /\ Busy = {} /\ InHand = 0 /\ Running = 0 /\ fresh = Events
      BY DEF Counting, Busy, InHand, Running
    <2>2. Cardinality(Events) \in Nat
      BY FS_CardinalityType, BusAssumption
    <2> QED
      BY <2>1, <2>2, Balance, FS_EmptySet DEF Balanced, JobsBalanced
  <1> QED
    BY <1>1, <1>2, <1>3, <1>4, <1>5 DEF BusInv

\* The inductive invariant holds in every state of the bus.
LEMMA Invariance == BusSpec => []BusInv
  <1>1. BusInv /\ [BusNext]_bus_vars => BusInv'
    BY TypeStep, FlowStep, BalanceStep DEF BusInv, Flow
  <1> QED
    BY <1>1, InitInvariant, PTL DEF BusSpec

\* A slot in use is pointed to from one place and a free slot from none.
LEMMA HoldersCount ==
    ASSUME BusTypeOK, HeldOnce, NoneLost, NEW s \in PoolSlots
    PROVE  Cardinality(Holders(s)) = IF in_use[s] THEN 1 ELSE 0
  <1> DEFINE posts == {q \in Posters : post[q].stage \in {"fill", "send"}
                                        /\ post[q].slot = s}
             places == {k \in DOMAIN queue : queue[k] = s}
             tasks == {b \in {bus} : b.stage = "dispatch" /\ b.slot = s}
  <1>0. Holders(s) = {<<"post", p>> : p \in posts} \cup {<<"queue", i>> : i \in places}
                     \cup {<<"bus", 0>> : x \in tasks}
    BY DEF Holders
  <1>1. CASE ~in_use[s]
    <2>1. posts = {} /\ places = {} /\ tasks = {}
      BY <1>1 DEF HeldOnce, Holding, Dispatching
    <2>2. Holders(s) = {}
      BY <1>0, <2>1
    <2> QED
      BY <1>1, <2>2, FS_EmptySet
  <1>2. ASSUME in_use[s], NEW p \in Posters, Holding(p), post[p].slot = s
        PROVE  Cardinality(Holders(s)) = 1
    <2>1. posts = {p} /\ places = {} /\ tasks = {}
      BY <1>2 DEF HeldOnce, Holding, Dispatching
    <2>2. Holders(s) = {<<"post", p>>}
      BY <1>0, <2>1
    <2> QED
      BY <2>2, FS_Singleton
  <1>3. ASSUME in_use[s], NEW i \in DOMAIN queue, queue[i] = s
        PROVE  Cardinality(Holders(s)) = 1
    <2>1. posts = {} /\ places = {i} /\ tasks = {}
      BY <1>3 DEF HeldOnce, Holding, Dispatching
    <2>2. Holders(s) = {<<"queue", i>>}
      BY <1>0, <2>1
    <2> QED
      BY <2>2, FS_Singleton
  <1>4. ASSUME in_use[s], Dispatching, bus.slot = s
        PROVE  Cardinality(Holders(s)) = 1
    <2>1. posts = {} /\ places = {} /\ tasks = {bus}
      BY <1>4 DEF HeldOnce, Holding, Dispatching
    <2>2. Holders(s) = {<<"bus", 0>>}
      BY <1>0, <2>1
    <2> QED
      BY <2>2, FS_Singleton
  <1> QED
    BY <1>1, <1>2, <1>3, <1>4 DEF NoneLost

\* PoolIsSound in every behaviour: message_pool_alloc hands out no slot that a
\* post, the queue or event_bus_task still points to and message_pool_free
\* loses none; a post that got a slot finds room in the queue, so the timeout
\* of xQueueSend cannot run out; and the counters of event_bus_get_stats add
\* up to the events posted, whatever the lengths of pool and queues.
THEOREM PoolSound == BusSpec => []PoolIsSound
  <1>1. BusInv => PoolIsSound
    <2> SUFFICES ASSUME BusInv PROVE PoolIsSound
      OBVIOUS
    <2>1. OneHolderPerSlot
      BY HoldersCount DEF BusInv, OneHolderPerSlot
    <2>2. NoFullQueue
      BY RoomInQueue DEF BusInv, NoFullQueue
    <2> QED
      BY <2>1, <2>2 DEF BusInv, PoolIsSound
  <1> QED
    BY <1>1, Invariance, PTL

\* QueuedContentIntact in every behaviour: although event_bus_post_priority
\* fills its slot outside any lock, a queued pointer leads to the posted event
\* until message_pool_free, and dispatch_message calls a handler at most once
\* with an event.
THEOREM ContentIntact == BusSpec => []QueuedContentIntact
  <1>1. BusInv => QueuedContentIntact
    BY DEF BusInv, QueuedContentIntact, Filled, SeenOnce, Dispatching
  <1> QED
    BY <1>1, Invariance, PTL

\* NormalEventsInOrder in every behaviour: xQueueSend and event_bus_task keep
\* the order of the events of normal priority for every handler, while
\* xQueueSendToFront lets any number of others overtake them.
THEOREM OrderKept == BusSpec => []NormalEventsInOrder
  <1>1. BusInv => NormalEventsInOrder
    BY DEF BusInv
  <1> QED
    BY <1>1, Invariance, PTL

-----------------------------------------------------------------------------
(* The fallback policy of a node *)

Local == {"active", "return_pending"}

\* What may be left of the calls of a transition
Enter == <<"enable", "reset", "resume">>
Reset == <<"reset", "resume">>
Resume == <<"resume">>
Exit == <<"pause", "disable">>
Disable == <<"disable">>
Calls == {<<>>, Enter, Reset, Resume, Exit, Disable}

-----------------------------------------------------------------------------
(* The inductive invariant *)

StatusShape ==
    /\ DOMAIN status = {"enabled", "policy", "state", "deadline", "wifi", "mqtt", "active"}
    /\ status.enabled \in BOOLEAN /\ status.active \in BOOLEAN
    /\ status.state \in States

Reports == [kind : {"configure", "wifi", "mqtt"}, on : BOOLEAN]

NotesShape ==
    /\ notes \in Seq(Reports)
    /\ link \in [wifi : BOOLEAN, mqtt : BOOLEAN]

TaskShape ==
    /\ transition = None \/ transition \in Transitions
    /\ calls \in Calls
    /\ waiting \in BOOLEAN /\ notified \in BOOLEAN

EngineShape == enabled \in BOOLEAN /\ paused \in BOOLEAN

Shape == StatusShape /\ NotesShape /\ TaskShape /\ EngineShape /\ now \in Int

\* s_status says of itself whether the rules are active.
StatusAgrees == status.active <=> status.state \in Local

\* The task waits for the first of its calls, which is in the engine's queue
\* or has been carried out; when it does not wait, the queue is empty.
OneRequest ==
    /\ waiting => calls # <<>>
    /\ waiting /\ ~notified => requests = <<Head(calls)>>
    /\ ~waiting => ~notified
    /\ ~waiting \/ notified => requests = <<>>

\* What the engine has not yet done of the transition
Left == IF waiting /\ notified THEN Tail(calls) ELSE calls

\* The engine is as s_status says.
Settled ==
    /\ calls = <<>>
    /\ enabled <=> status.active
    /\ enabled => ~paused

\* A transition that only changes the state does not change who is in charge.
NoneGoes ==
    transition.action = "none" =>
        Settled /\ (transition.state \in Local <=> status.active)

\* The rules are enabled first and resumed last.
EnterGoes ==
    transition.action = "enter" =>
        /\ transition.state = "active"
        /\ calls \in {Enter, Reset, Resume, <<>>}
        /\ Left # Enter => enabled
        /\ Left = <<>> => ~paused

\* They are disabled last.
ExitGoes ==
    transition.action = "exit" =>
        /\ transition.state = "hub_primary"
        /\ calls \in {Exit, Disable, <<>>}
        /\ Left = <<>> => ~enabled

OnTheWay == NoneGoes /\ EnterGoes /\ ExitGoes

Sound == /\ Shape /\ StatusAgrees /\ OneRequest
         /\ transition = None => Settled
         /\ transition # None => OnTheWay

\* A reply that came too late leaves its request in the engine's queue.
FallbackInv == timeouts \in Nat /\ (timeouts = 0 => Sound)

-----------------------------------------------------------------------------
(* The lists of calls *)

\* The first of each list of calls and what comes after it
LEMMA CallFacts ==
    /\ Enter # <<>> /\ Reset # <<>> /\ Resume # <<>> /\ Exit # <<>> /\ Disable # <<>>
    /\ Enter # Reset /\ Enter # Resume /\ Enter # Exit /\ Enter # Disable
    /\ Head(Enter) = "enable" /\ Head(Reset) = "reset" /\ Head(Resume) = "resume"
    /\ Head(Exit) = "pause" /\ Head(Disable) = "disable"
    /\ Tail(Enter) = Reset /\ Tail(Reset) = Resume /\ Tail(Resume) = <<>>
    /\ Tail(Exit) = Disable /\ Tail(Disable) = <<>>
  BY DEF Enter, Reset, Resume, Exit, Disable

\* A queue of one request
LEMMA OneFacts ==
    ASSUME NEW x
    PROVE  /\ <<x>> # <<>> /\ Head(<<x>>) = x /\ Tail(<<x>>) = <<>>
           /\ Append(<<>>, x) = <<x>>
  OBVIOUS

\* perform_transition_action, as one of these lists
LEMMA ActionFacts ==
    /\ perform_transition_action("enter") = Enter
    /\ perform_transition_action("exit") = Exit
    /\ perform_transition_action("none") = <<>>
  BY Zenon DEF perform_transition_action, Enter, Exit

\* node_fallback_policy_evaluate: what a transition does to the rules is what
\* its state says.
LEMMA EvaluateFacts ==
    ASSUME NEW s, now \in Int, s.enabled \in BOOLEAN, s.active \in BOOLEAN,
           s.state \in States, s.active <=> s.state \in Local, Evaluate(s) # None
    PROVE  /\ Evaluate(s) \in Transitions
           /\ Evaluate(s).action = "none" => (Evaluate(s).state \in Local <=> s.active)
           /\ Evaluate(s).action = "enter" => Evaluate(s).state = "active"
           /\ Evaluate(s).action = "exit" => Evaluate(s).state = "hub_primary"
  <1> DEFINE e == Evaluate(s)
  <1>1. (now + TIMEOUT) % CLOCK \in Int /\ (now + RETURN_DELAY) % CLOCK \in Int
    BY FallbackAssumption
  <1>2. CASE ~s.enabled
    <2>1. e = To("hub_primary", 0, IF s.active THEN "exit" ELSE "none")
      BY <1>2, Zenon DEF Evaluate
    <2> QED
      BY <2>1 DEF To, Transitions, States, Local
  <1>3. CASE s.enabled /\ s.state = "hub_primary"
    <2>1. e = To("offline_pending", (now + TIMEOUT) % CLOCK, "none")
      BY <1>3, Zenon DEF Evaluate
    <2> QED
      BY <1>1, <1>3, <2>1 DEF To, Transitions, States, Local
  <1>4. CASE s.enabled /\ s.state = "offline_pending"
    <2>1. e \in {To("hub_primary", 0, "none"), To("active", 0, "enter")}
      BY <1>4, Zenon DEF Evaluate
    <2> QED
      BY <1>4, <2>1 DEF To, Transitions, States, Local
  <1>5. CASE s.enabled /\ s.state = "active"
    <2>1. e = leave_active(s)
      BY <1>5, Zenon DEF Evaluate
    <2>2. e \in {To("hub_primary", 0, "exit"),
                 To("return_pending", (now + RETURN_DELAY) % CLOCK, "none")}
      BY <2>1, Zenon DEF leave_active
    <2> QED
      BY <1>1, <1>5, <2>2 DEF To, Transitions, States, Local
  <1>6. CASE s.enabled /\ s.state = "return_pending"
    <2>1. e \in {To("active", 0, "none"), To("hub_primary", 0, "exit")}
      BY <1>6, Zenon DEF Evaluate
    <2> QED
      BY <1>6, <2>1 DEF To, Transitions, States, Local
  <1> QED
    BY <1>2, <1>3, <1>4, <1>5, <1>6 DEF States

-----------------------------------------------------------------------------
(* The steps *)

\* fallback_task takes the reports and begins a transition.
LEMMA PassKeeps == ASSUME Sound, fallback_pass PROVE Sound'
  <1>1. PICK on \in handle_request("configure", status.enabled),
             wifi \in handle_request("wifi", status.wifi),
             mqtt \in handle_request("mqtt", status.mqtt) :
          LET s == [status EXCEPT !.enabled = on, !.wifi = wifi, !.mqtt = mqtt]
          IN  /\ transition = None
              /\ status' = s /\ notes' = <<>>
              /\ transition' = Evaluate(s)
              /\ calls' = IF Evaluate(s) = None THEN <<>>
                          ELSE perform_transition_action(Evaluate(s).action)
    BY DEF fallback_pass
  <1> DEFINE s == [status EXCEPT !.enabled = on, !.wifi = wifi, !.mqtt = mqtt]
  <1>2. UNCHANGED <<link, waiting, notified, requests, enabled, paused, now>>
    BY DEF fallback_pass
  <1>3. on \in BOOLEAN
    <2>1. \A i \in DOMAIN notes : notes[i] \in Reports
      BY DEF Sound, Shape, NotesShape
    <2>2. \A r \in Reports : r.on \in BOOLEAN
      BY DEF Reports
    <2> QED
      BY <2>1, <2>2 DEF handle_request, Sound, Shape, StatusShape
  <1>4. /\ DOMAIN s = DOMAIN status /\ s.enabled = on
        /\ s.active = status.active /\ s.state = status.state
    BY DEF Sound, Shape, StatusShape
  <1>5. StatusShape' /\ StatusAgrees' /\ status' = s
    BY <1>1, <1>3, <1>4 DEF Sound, Shape, StatusShape, StatusAgrees
  <1>6. NotesShape'
    BY <1>1, <1>2 DEF Sound, Shape, NotesShape
  <1>7. Settled /\ ~waiting /\ ~notified /\ requests = <<>>
    BY <1>1 DEF Sound, OneRequest, Settled
  <1>8. EngineShape' /\ now' \in Int /\ waiting' = waiting /\ notified' = notified
    BY <1>2 DEF Sound, Shape, EngineShape
  <1>9. CASE Evaluate(s) = None
    <2>1. transition' = None /\ calls' = <<>>
      BY <1>1, <1>9
    <2> QED
      BY <1>2, <1>4, <1>5, <1>6, <1>7, <1>8, <2>1
         DEF Sound, Shape, TaskShape, Calls, OneRequest, Settled
  <1>10. CASE Evaluate(s) # None
    <2> DEFINE e == Evaluate(s)
    <2>1. /\ e \in Transitions
          /\ e.action = "none" => (e.state \in Local <=> status.active)
          /\ e.action = "enter" => e.state = "active"
          /\ e.action = "exit" => e.state = "hub_primary"
      BY <1>3, <1>4, <1>10, EvaluateFacts DEF Sound, Shape, StatusShape, StatusAgrees
    <2>2. transition' = e /\ calls' = perform_transition_action(e.action)
      BY <1>1, <1>10
    <2> HIDE DEF e, s
    <2>3. e.action \in {"none", "enter", "exit"}
      BY <2>1 DEF Transitions
    <2>4. /\ e.action = "none" => calls' = <<>>
          /\ e.action = "enter" => calls' = Enter
          /\ e.action = "exit" => calls' = Exit
      BY <2>2, ActionFacts
    <2>5. TaskShape' /\ transition' # None
      <3>1. calls' \in Calls
        BY <2>3, <2>4 DEF Calls
      <3>2. waiting' \in BOOLEAN /\ notified' \in BOOLEAN
        BY <1>8 DEF Sound, Shape, TaskShape
      <3>3. None \notin Transitions
        BY FallbackAssumption
      <3> QED
        BY <2>1, <2>2, <3>1, <3>2, <3>3 DEF TaskShape
    <2>6. OneRequest'
      BY <1>2, <1>7 DEF OneRequest
    <2>7. Left' = calls'
      BY <1>7, <1>8 DEF Left
    <2>8. status'.active = status.active
      BY <1>4, <1>5
    <2>9. NoneGoes'
      BY <1>2, <1>7, <2>1, <2>2, <2>4, <2>8 DEF NoneGoes, Settled
    <2>10. EnterGoes'
      BY <2>1, <2>2, <2>4, <2>7, CallFacts DEF EnterGoes
    <2>11. ExitGoes'
      BY <2>1, <2>2, <2>4, <2>7, CallFacts DEF ExitGoes
    <2> QED
      BY <1>5, <1>6, <1>8, <2>5, <2>6, <2>9, <2>10, <2>11 DEF Sound, Shape, OnTheWay
  <1> QED
    BY <1>9, <1>10

\* The task sends its next call and waits.
LEMMA CallKeeps == ASSUME Sound, engine_call PROVE Sound'
  <1>1. /\ calls # <<>> /\ ~waiting /\ waiting' = TRUE
        /\ requests' = Append(requests, Head(calls))
        /\ UNCHANGED <<link, notes, status, transition, calls, notified, enabled, paused, now>>
    BY DEF engine_call
  <1>2. requests = <<>> /\ ~notified
    BY <1>1 DEF Sound, OneRequest
  <1>3. requests' = <<Head(calls)>>
    BY <1>1, <1>2, OneFacts
  <1>4. Left' = Left
    BY <1>1, <1>2 DEF Left
  <1>5. Shape' /\ StatusAgrees'
    BY <1>1 DEF Sound, Shape, StatusShape, NotesShape, TaskShape, EngineShape, StatusAgrees
  <1>6. OneRequest'
    BY <1>1, <1>2, <1>3 DEF OneRequest
  <1>7. (transition' = None => Settled') /\ (transition' # None => OnTheWay')
    BY <1>1, <1>4 DEF Sound, Settled, OnTheWay, NoneGoes, EnterGoes, ExitGoes
  <1> QED
    BY <1>5, <1>6, <1>7 DEF Sound

\* The reply: the call is done.
LEMMA ReplyKeeps == ASSUME Sound, engine_reply PROVE Sound'
  <1>1. /\ waiting /\ notified /\ notified' = FALSE /\ waiting' = FALSE
        /\ calls' = Tail(calls)
        /\ UNCHANGED <<link, notes, status, transition, requests, enabled, paused, now>>
    BY DEF engine_reply
  <1>2. calls # <<>> /\ requests = <<>> /\ calls \in Calls
    BY <1>1 DEF Sound, OneRequest, Shape, TaskShape
  <1>3. Left = Tail(calls) /\ Left' = Tail(calls)
    BY <1>1 DEF Left
  <1>4. transition # None /\ OnTheWay
    BY <1>2 DEF Sound, Settled
  <1>5. Tail(calls) \in Calls
    BY <1>2, CallFacts DEF Calls
  <1>6. Shape' /\ StatusAgrees'
    BY <1>1, <1>5
       DEF Sound, Shape, StatusShape, NotesShape, TaskShape, EngineShape, StatusAgrees
  <1>7. OneRequest'
    BY <1>1, <1>2 DEF OneRequest
  <1>8. NoneGoes'
    BY <1>1, <1>2, <1>4 DEF OnTheWay, NoneGoes, Settled
  <1>9. EnterGoes'
    BY <1>1, <1>2, <1>3, <1>4, CallFacts DEF OnTheWay, EnterGoes
  <1>10. ExitGoes'
    BY <1>1, <1>2, <1>3, <1>4, CallFacts DEF OnTheWay, ExitGoes
  <1> QED
    BY <1>1, <1>4, <1>6, <1>7, <1>8, <1>9, <1>10 DEF Sound, OnTheWay

\* The engine carries a request out.
LEMMA EngineKeeps == ASSUME Sound, engine_task PROVE Sound'
  <1>1. /\ requests # <<>> /\ requests' = Tail(requests) /\ notified' = TRUE
        /\ UNCHANGED <<link, notes, status, transition, calls, waiting, now>>
    BY DEF engine_task
  <1> DEFINE r == Head(calls)
  <1>2. /\ waiting /\ ~notified /\ calls # <<>> /\ requests = <<r>> /\ calls \in Calls
    BY <1>1 DEF Sound, OneRequest, Shape, TaskShape
  <1>3. requests' = <<>> /\ Head(requests) = r
    BY <1>1, <1>2, OneFacts
  <1>4. /\ r = "enable" => enabled' = TRUE
        /\ r = "disable" => enabled' = FALSE
        /\ r \notin {"enable", "disable"} => enabled' = enabled
        /\ r = "pause" => paused' = TRUE
        /\ r = "resume" => paused' = FALSE
        /\ r \notin {"pause", "resume"} => paused' = paused
    <2>1. /\ enabled' = CASE r = "enable" -> TRUE [] r = "disable" -> FALSE
                          [] OTHER -> enabled
          /\ paused' = CASE r = "pause" -> TRUE [] r = "resume" -> FALSE
                         [] OTHER -> paused
      BY <1>3 DEF engine_task
    <2>2. "enable" # "disable" /\ "pause" # "resume"
      OBVIOUS
    <2> HIDE DEF r
    <2> QED
      BY <2>1, <2>2, Zenon
  <1>5. r \in {"enable", "disable", "pause", "resume", "reset"}
    BY <1>2, CallFacts DEF Calls
  <1>6. Left = calls /\ Left' = Tail(calls)
    BY <1>1, <1>2 DEF Left
  <1>7. transition # None /\ OnTheWay
    BY <1>2 DEF Sound, Settled
  <1>8. EngineShape'
    BY <1>4, <1>5 DEF Sound, Shape, EngineShape
  <1>9. Shape' /\ StatusAgrees'
    BY <1>1, <1>8 DEF Sound, Shape, StatusShape, NotesShape, TaskShape, StatusAgrees
  <1>10. OneRequest'
    BY <1>1, <1>2, <1>3 DEF OneRequest
  <1>11. NoneGoes'
    BY <1>1, <1>2, <1>7 DEF OnTheWay, NoneGoes, Settled
  <1>12. EnterGoes'
    BY <1>1, <1>2, <1>4, <1>6, <1>7, CallFacts DEF OnTheWay, EnterGoes
  <1>13. ExitGoes'
    BY <1>1, <1>2, <1>4, <1>6, <1>7, CallFacts DEF OnTheWay, ExitGoes
  <1> QED
    BY <1>1, <1>7, <1>9, <1>10, <1>11, <1>12, <1>13 DEF Sound, OnTheWay

\* finalize_transition_locked: s_status follows the engine.
LEMMA FinalizeKeeps == ASSUME Sound, finalize_transition PROVE Sound'
  <1>1. /\ transition # None /\ calls = <<>> /\ transition' = None
        /\ UNCHANGED <<link, notes, calls, waiting, notified, requests, enabled, paused, now>>
    BY DEF finalize_transition
  <1>2. OnTheWay /\ transition \in Transitions
    BY <1>1 DEF Sound, Shape, TaskShape
  <1>3. transition.action \in {"none", "enter", "exit"} /\ transition.state \in States
    BY <1>2 DEF Transitions
  <1>4. ~waiting /\ Left = <<>>
    BY <1>1 DEF Sound, OneRequest, Left
  <1>5. \E a : /\ a = CASE transition.action = "enter" -> TRUE
                        [] transition.action = "exit" -> FALSE
                        [] OTHER -> status.active
               /\ status' = [status EXCEPT !.state = transition.state,
                                           !.deadline = transition.deadline, !.active = a]
    BY DEF finalize_transition
  <1>6. PICK a : /\ a = CASE transition.action = "enter" -> TRUE
                          [] transition.action = "exit" -> FALSE
                          [] OTHER -> status.active
                 /\ status' = [status EXCEPT !.state = transition.state,
                                             !.deadline = transition.deadline, !.active = a]
    BY <1>5
  <1>7. /\ transition.action = "enter" => a = TRUE
        /\ transition.action = "exit" => a = FALSE
        /\ transition.action = "none" => a = status.active
    <2>1. "enter" # "exit" /\ "none" # "enter" /\ "none" # "exit"
      OBVIOUS
    <2> QED
      BY <1>6, <2>1, Zenon
  <1>8. /\ DOMAIN status' = DOMAIN status /\ status'.enabled = status.enabled
        /\ status'.state = transition.state /\ status'.active = a
    BY <1>6 DEF Sound, Shape, StatusShape
  <1>9. a \in BOOLEAN
    BY <1>3, <1>7 DEF Sound, Shape, StatusShape
  <1>10. StatusShape'
    BY <1>3, <1>8, <1>9 DEF Sound, Shape, StatusShape
  <1>11. a <=> transition.state \in Local
    BY <1>2, <1>3, <1>7 DEF OnTheWay, NoneGoes, EnterGoes, ExitGoes, Local
  <1>12. Settled'
    BY <1>1, <1>2, <1>3, <1>4, <1>7, <1>8, CallFacts
       DEF OnTheWay, NoneGoes, EnterGoes, ExitGoes, Settled, Sound, Shape, EngineShape
  <1>13. Shape' /\ StatusAgrees'
    BY <1>1, <1>8, <1>10, <1>11
       DEF Sound, Shape, NotesShape, TaskShape, EngineShape, StatusAgrees
  <1>14. OneRequest'
    BY <1>1 DEF Sound, OneRequest
  <1> QED
    BY <1>1, <1>12, <1>13, <1>14 DEF Sound

\* Reports and the clock touch neither the task nor the engine.
LEMMA OutsideKeeps ==
    ASSUME Sound, UNCHANGED <<status, transition, calls, waiting, notified, requests,
                              enabled, paused>>,
           NotesShape', now' \in Int
    PROVE  Sound'
  <1>1. Left' = Left
    BY DEF Left
  <1>2. Shape' /\ StatusAgrees' /\ OneRequest'
    BY DEF Sound, Shape, StatusShape, TaskShape, EngineShape, StatusAgrees, OneRequest
  <1> QED
    BY <1>1, <1>2 DEF Sound, Settled, OnTheWay, NoneGoes, EnterGoes, ExitGoes

\* A report joins the queue.
LEMMA NoteKeeps ==
    ASSUME Sound, note_wifi_state \/ note_mqtt_state \/ configure
    PROVE  Sound'
  <1>1. PICK kind \in {"wifi", "mqtt", "configure"}, on \in BOOLEAN : note(kind, on)
    BY DEF note_wifi_state, note_mqtt_state, configure, Sound, Shape, NotesShape
  <1>2. link' \in [wifi : BOOLEAN, mqtt : BOOLEAN]
    <2>1. link \in [wifi : BOOLEAN, mqtt : BOOLEAN]
      BY DEF Sound, Shape, NotesShape
    <2>2. \E w, m \in BOOLEAN : \/ link' = [wifi |-> w, mqtt |-> link.mqtt]
                               \/ link' = [link EXCEPT !.mqtt = m]
                               \/ link' = link
      BY Zenon DEF note_wifi_state, note_mqtt_state, configure
    <2> QED
      BY <2>1, <2>2
  <1>3. [kind |-> kind, on |-> on] \in Reports
    BY DEF Reports
  <1>4. NotesShape'
    BY <1>1, <1>2, <1>3 DEF note, Sound, Shape, NotesShape
  <1> QED
    BY <1>1, <1>4, OutsideKeeps DEF note, Sound, Shape

\* Time goes on.
LEMMA TickKeeps == ASSUME Sound, tick PROVE Sound'
  <1>1. now' \in Int
    BY FallbackAssumption DEF tick, Sound, Shape
  <1>2. NotesShape'
    BY DEF tick, Sound, Shape, NotesShape
  <1> QED
    BY <1>1, <1>2, OutsideKeeps DEF tick

\* The node starts with the hub in charge.
LEMMA InitKeeps == FallbackInit => FallbackInv
  <1> SUFFICES ASSUME FallbackInit PROVE FallbackInv
    OBVIOUS
  <1>1. StatusShape /\ StatusAgrees
    BY DEF FallbackInit, StatusShape, States, StatusAgrees, Local
  <1>2. NotesShape /\ TaskShape /\ EngineShape /\ now \in Int
    <2>1. notes \in Seq(Reports)
      BY DEF FallbackInit
    <2>2. link \in [wifi : BOOLEAN, mqtt : BOOLEAN]
      BY DEF FallbackInit
    <2>3. TaskShape /\ EngineShape
      BY Zenon DEF FallbackInit, TaskShape, EngineShape, Calls
    <2>4. now \in Int
      BY DEF FallbackInit
    <2> QED
      BY <2>1, <2>2, <2>3, <2>4 DEF NotesShape
  <1>3. status.active = FALSE
    BY DEF FallbackInit
  <1>4. OneRequest /\ Settled /\ transition = None /\ timeouts = 0
    BY <1>3 DEF FallbackInit, OneRequest, Settled
  <1> QED
    BY <1>1, <1>2, <1>4 DEF FallbackInv, Sound, Shape

\* Every step keeps the invariant; after a late reply it says nothing more.
LEMMA NextKeeps == FallbackInv /\ [FallbackNext]_fallback_vars => FallbackInv'
  <1> SUFFICES ASSUME FallbackInv, [FallbackNext]_fallback_vars PROVE FallbackInv'
    OBVIOUS
  <1>1. CASE engine_timeout
    BY <1>1 DEF FallbackInv, engine_timeout
  <1>2. CASE ~engine_timeout
    <2>1. timeouts' = timeouts
      BY <1>2 DEF FallbackNext, TaskStep, fallback_pass, engine_call, engine_reply,
                  finalize_transition, engine_task, note_wifi_state, note_mqtt_state,
                  configure, note, tick, fallback_vars
    <2> SUFFICES ASSUME Sound PROVE Sound'
      BY <2>1 DEF FallbackInv
    <2>3. CASE UNCHANGED fallback_vars
      <3>1. NotesShape' /\ now' \in Int
        BY <2>3 DEF fallback_vars, Sound, Shape, NotesShape
      <3> QED
        BY <2>3, <3>1, OutsideKeeps DEF fallback_vars
    <2> QED
      BY <1>2, <2>3, PassKeeps, CallKeeps, ReplyKeeps, FinalizeKeeps, EngineKeeps, NoteKeeps,
         TickKeeps DEF FallbackNext, TaskStep
  <1> QED
    BY <1>1, <1>2

\* node_runtime_mode.c: a node with a hub does not behave like a standalone one.
\* While the engine answers in time, the rules run exactly when s_status says that
\* they are active, and its state says the same, whatever reports and
\* configurations come while the engine is being switched.
THEOREM RulesAreSwitched == FallbackSpec => []RulesFollowState
  <1>1. FallbackInv => RulesFollowState
    BY DEF FallbackInv, Sound, Settled, StatusAgrees, RulesFollowState, Local
  <1> QED
    BY <1>1, InitKeeps, NextKeeps, PTL DEF FallbackSpec
-----------------------------------------------------------------------------
(* The web clients *)

\* One list after the other.
LEMMA ConcatFacts ==
    ASSUME NEW s, NEW t, IsSeq(s), IsSeq(t)
    PROVE  /\ IsSeq(s \o t)
           /\ Len(s \o t) = Len(s) + Len(t)
           /\ \A i \in 1 .. Len(s) + Len(t) :
                (s \o t)[i] = IF i <= Len(s) THEN s[i] ELSE t[i - Len(s)]
<1>1. PICK S : s \in Seq(S)
  BY DEF IsSeq
<1>2. PICK T : t \in Seq(T)
  BY DEF IsSeq
<1>3. s \in Seq(S \cup T) /\ t \in Seq(S \cup T)
  BY <1>1, <1>2
<1>4. s \o t \in Seq(S \cup T)
  BY <1>3
<1> QED
  BY <1>3, <1>4 DEF IsSeq

\* The slices a change can concern.
Slices == {"room.catalog", "devices.runtime", "room.runtime", "system.summary"}

\* A list of messages in which the generation is the given one.
Tells(list, g) ==
    /\ IsSeq(list) /\ list # <<>>
    /\ \A i \in 1 .. Len(list) : list[i].type = "versions" => list[i].g = g

Sending(p) == proc[p].pc = "send"

StatePartOk(s) ==
    /\ DOMAIN s = {"last", "ingest", "session", "mask", "explicit", "pending", "generation"}
    /\ s.generation \in Nat
    /\ s.mask \subseteq Slices
    /\ IsSeq(s.explicit)

\* Who sends holds the broadcast lock, and says the counter's present value.
SenderOk(p, r, holder, g) ==
    /\ "pc" \in DOMAIN r
    /\ r.pc = "send" =>
         /\ holder = p
         /\ DOMAIN r = {"pc", "list", "to", "rest"}
         /\ Tells(r.list, g)

SendersOk ==
    /\ proc = [p \in Procs |-> proc[p]]
    /\ \A p \in Procs : SenderOk(p, proc[p], lock, st.generation)

\* No connection is ahead of the counter.
HeardOk(c, g) ==
    /\ DOMAIN c = {"open", "sub", "seen", "known"}
    /\ c.seen \in Nat /\ c.seen <= g

ConnectionsOk ==
    /\ conn = [f \in Fds |-> conn[f]]
    /\ \A f \in Fds : HeardOk(conn[f], st.generation)

NotifyInv == StatePartOk(st) /\ SendersOk /\ ConnectionsOk

\* The generation heard on a connection does not go back.
NoneGoesBack ==
    \A f \in Fds : conn[f].open /\ conn'[f].open => conn'[f].seen >= conn[f].seen

\* A broadcast begins with the generation and says it once.
LEMMA BroadcastTells ==
    ASSUME NEW v, NEW s, StatePartOk(s)
    PROVE  Tells(BroadcastList(v, s), s.generation + 1)
<1> DEFINE a == <<[type |-> "versions", g |-> s.generation + 1, v |-> v]>>
           b == [i \in 1..Len(s.explicit) |->
                   [type |-> IF s.explicit[i][1] = "full.snapshot" THEN "resync" ELSE "invalidate",
                    slice |-> s.explicit[i][1], target |-> s.explicit[i][2]]]
           rest == s.mask \ pending_explicit_mask(s.explicit)
           c == [i \in 1..Cardinality(rest) |->
                   [type |-> "invalidate", target |-> "", slice |-> SetToSeq(rest)[i]]]
<1>1. IsSeq(a) /\ Len(a) = 1 /\ a[1].type = "versions" /\ a[1].g = s.generation + 1
  <2>1. PICK r : r = [type |-> "versions", g |-> s.generation + 1, v |-> v]
    OBVIOUS
  <2>2. <<r>> \in Seq({r}) /\ Len(<<r>>) = 1 /\ <<r>>[1] = r
    OBVIOUS
  <2>3. IsSeq(<<r>>)
    BY <2>2, Zenon DEF IsSeq
  <2> QED
    BY <2>1, <2>2, <2>3
<1>2. IsSeq(b) /\ Len(b) = Len(s.explicit) /\ Len(b) \in Nat
  <2>1. Len(s.explicit) \in Nat
    BY SeqFacts DEF StatePartOk
  <2>2. b = [i \in 1 .. Len(s.explicit) |-> b[i]]
    OBVIOUS
  <2> HIDE DEF b
  <2> QED
    BY <2>1, <2>2, ListFacts
<1>3. \A i \in 1 .. Len(b) : b[i].type # "versions"
  <2> SUFFICES ASSUME NEW i \in 1 .. Len(s.explicit) PROVE b[i].type # "versions"
    BY <1>2
  <2>1. b[i].type = IF s.explicit[i][1] = "full.snapshot" THEN "resync" ELSE "invalidate"
    OBVIOUS
  <2> QED
    BY <2>1
<1>4. Cardinality(rest) \in Nat
  <2>1. IsFiniteSet(Slices)
    <3>1. IsFiniteSet({"room.catalog"})
      BY FS_Singleton
    <3>2. IsFiniteSet({"room.catalog"} \cup {"devices.runtime"})
      BY <3>1, FS_AddElement
    <3>3. IsFiniteSet(({"room.catalog"} \cup {"devices.runtime"}) \cup {"room.runtime"})
      BY <3>2, FS_AddElement
    <3>4. IsFiniteSet((({"room.catalog"} \cup {"devices.runtime"}) \cup {"room.runtime"}) \cup {"system.summary"})
      BY <3>3, FS_AddElement
    <3>5. Slices = (({"room.catalog"} \cup {"devices.runtime"}) \cup {"room.runtime"}) \cup {"system.summary"}
      BY DEF Slices
    <3> QED
      BY <3>4, <3>5
  <2>2. IsFiniteSet(rest)
    BY <2>1, FS_Subset DEF StatePartOk
  <2> QED
    BY <2>2, FS_CardinalityType
<1>5. IsSeq(c) /\ Len(c) = Cardinality(rest) /\ Len(c) \in Nat
  <2>2. c = [i \in 1 .. Cardinality(rest) |-> c[i]]
    OBVIOUS
  <2>3. PICK n : n = Cardinality(rest)
    OBVIOUS
  <2> HIDE DEF c, rest
  <2> QED
    BY <1>4, <2>2, <2>3, ListFacts
<1>6. \A i \in 1 .. Len(c) : c[i].type = "invalidate"
  BY <1>5
<1>7. BroadcastList(v, s) = (a \o b) \o c
  BY DEF BroadcastList
<1> HIDE DEF a, b, c, rest
<1>8. IsSeq(a \o b) /\ Len(a \o b) = 1 + Len(b)
      /\ \A i \in 1 .. 1 + Len(b) : (a \o b)[i] = IF i <= 1 THEN a[i] ELSE b[i - 1]
  <2>1. IsSeq(a \o b) /\ Len(a \o b) = Len(a) + Len(b)
        /\ \A i \in 1 .. Len(a) + Len(b) : (a \o b)[i] = IF i <= Len(a) THEN a[i] ELSE b[i - Len(a)]
    BY <1>1, <1>2, ConcatFacts, Zenon
  <2>2. Len(a) = 1
    BY <1>1
  <2> QED
    BY <2>1, <2>2
<1>l. PICK n \in Nat : n = Len(b)
  BY <1>2
<1>9. \A i \in 1 .. Len(a \o b) : (a \o b)[i].type = "versions" => (a \o b)[i].g = s.generation + 1
  <2> SUFFICES ASSUME NEW i \in 1 .. 1 + Len(b)
               PROVE (a \o b)[i].type = "versions" => (a \o b)[i].g = s.generation + 1
    BY <1>8
  <2>1. CASE i = 1
    BY <2>1, <1>1, <1>8
  <2>2. CASE i > 1
    <3>1. i - 1 \in 1 .. Len(b)
      BY <2>2, <1>l
    <3> QED
      BY <2>2, <3>1, <1>3, <1>8, <1>2
  <2>3. i = 1 \/ i > 1
    BY <1>l
  <2> QED
    BY <2>1, <2>2, <2>3
<1> DEFINE ab == a \o b
<1> HIDE DEF ab
<1>10. IsSeq(ab) /\ Len(ab) \in Nat /\ Len(ab) >= 1
  BY <1>8, <1>2 DEF ab
<1>11. IsSeq(ab \o c) /\ Len(ab \o c) = Len(ab) + Len(c)
       /\ \A i \in 1 .. Len(ab) + Len(c) : (ab \o c)[i] = IF i <= Len(ab) THEN ab[i] ELSE c[i - Len(ab)]
  BY <1>10, <1>5, ConcatFacts
<1>12. \A i \in 1 .. Len(ab \o c) : (ab \o c)[i].type = "versions" => (ab \o c)[i].g = s.generation + 1
  <2> SUFFICES ASSUME NEW i \in 1 .. Len(ab) + Len(c)
               PROVE (ab \o c)[i].type = "versions" => (ab \o c)[i].g = s.generation + 1
    BY <1>11
  <2>1. CASE i <= Len(ab)
    <3>1. i \in 1 .. Len(ab)
      BY <2>1, <1>10, <1>5
    <3> QED
      BY <2>1, <3>1, <1>9, <1>11 DEF ab
  <2>2. CASE i > Len(ab)
    <3>1. i - Len(ab) \in 1 .. Len(c)
      BY <2>2, <1>10, <1>5
    <3> QED
      BY <2>2, <3>1, <1>6, <1>11, <1>10, <1>5
  <2> QED
    BY <2>1, <2>2, <1>10, <1>5
<1>13. ab \o c # <<>>
  BY <1>10, <1>11, <1>5
<1> QED
  BY <1>7, <1>11, <1>12, <1>13 DEF Tells, ab

\* What a notifier adds to the pending state leaves its shape and the counter.
LEMMA MergedIsOk ==
    ASSUME NEW p, StatePartOk(st)
    PROVE  StatePartOk(merged(p)) /\ merged(p).generation = st.generation
<1>1. IsSeq(queue_explicit_invalidation(st.explicit, proc[p].slice, proc[p].target))
  BY SeqFacts DEF queue_explicit_invalidation, StatePartOk
<1>2. collect_change_mask(st.last, proc[p].v) \subseteq Slices
  BY DEF collect_change_mask, Slices
<1>3. PICK e : e = queue_explicit_invalidation(st.explicit, proc[p].slice, proc[p].target)
  OBVIOUS
<1>4. PICK m : m = collect_change_mask(st.last, proc[p].v)
  OBVIOUS
<1>5. merged(p) = [st EXCEPT !.explicit = e, !.ingest = proc[p].v.ingest,
                             !.session = proc[p].v.session, !.last = proc[p].v,
                             !.mask = @ \cup m]
  BY <1>3, <1>4 DEF merged
<1> QED
  BY <1>1, <1>2, <1>3, <1>4, <1>5 DEF StatePartOk

\* A step of a notifier that does not send before or after it.
LEMMA QuietKeeps ==
    ASSUME NotifyInv, StatePartOk(st'), st'.generation = st.generation,
           UNCHANGED <<lock, conn>>,
           NEW p \in Procs, NEW r, proc' = [proc EXCEPT ![p] = r],
           "pc" \in DOMAIN r, r.pc # "send"
    PROVE  NotifyInv' /\ NoneGoesBack
<1>1. SendersOk'
  <2>1. proc' = [q \in Procs |-> proc'[q]]
    BY DEF NotifyInv, SendersOk
  <2>2. \A q \in Procs : SenderOk(q, proc'[q], lock', st'.generation)
    BY DEF NotifyInv, SendersOk, SenderOk
  <2> QED
    BY <2>1, <2>2 DEF SendersOk
<1>2. ConnectionsOk' /\ NoneGoesBack
  BY DEF NotifyInv, ConnectionsOk, NoneGoesBack, HeardOk
<1> QED
  BY <1>1, <1>2 DEF NotifyInv

\* A step that only concerns a connection that hears no generation by it.
LEMMA ClientKeeps ==
    ASSUME NotifyInv, UNCHANGED <<st, lock, proc>>,
           NEW f \in Fds, NEW c, conn' = [conn EXCEPT ![f] = c],
           DOMAIN c = {"open", "sub", "seen", "known"},
           \/ c.seen = conn[f].seen
           \/ c.seen = 0 /\ (~c.open \/ ~conn[f].open)
    PROVE  NotifyInv' /\ NoneGoesBack
<1>1. SendersOk' /\ StatePartOk(st')
  BY DEF NotifyInv, SendersOk
<1>2. ConnectionsOk'
  <2>1. conn' = [g \in Fds |-> conn'[g]]
    BY DEF NotifyInv, ConnectionsOk
  <2>2. \A g \in Fds : HeardOk(conn'[g], st'.generation)
    BY DEF NotifyInv, ConnectionsOk, HeardOk, StatePartOk
  <2> QED
    BY <2>1, <2>2 DEF ConnectionsOk
<1>3. NoneGoesBack
  BY DEF NotifyInv, ConnectionsOk, HeardOk, NoneGoesBack
<1> QED
  BY <1>1, <1>2, <1>3 DEF NotifyInv

\* What becomes of a notifier that is through.
LEMMA AfterIsQuiet ==
    ASSUME NEW p
    PROVE  "pc" \in DOMAIN After(p) /\ After(p).pc # "send"
  BY DEF After, Idle

\* The writers.
LEMMA KeepsWriters ==
    ASSUME NotifyInv, NEW w \in Writers,
           \/ \E s \in {"room.catalog", "full.snapshot"} : writer_notifies(w, s)
           \/ writer_reads(w)
    PROVE  NotifyInv' /\ NoneGoesBack
<1>0. w \in Procs /\ StatePartOk(st)
  BY DEF Procs, NotifyInv
<1>1. ASSUME NEW s, writer_notifies(w, s) PROVE NotifyInv' /\ NoneGoesBack
  <2>1. PICK r : r = [pc |-> "notify", slice |-> s]
    OBVIOUS
  <2>2. "pc" \in DOMAIN r /\ r.pc # "send"
    BY <2>1
  <2>3. proc' = [proc EXCEPT ![w] = r] /\ UNCHANGED <<st, lock, conn>>
    BY <1>1, <2>1 DEF writer_notifies
  <2> QED
    BY <1>0, <2>2, <2>3, QuietKeeps
<1>2. ASSUME writer_reads(w) PROVE NotifyInv' /\ NoneGoesBack
  <2>1. PICK r : r = [pc |-> "lock", slice |-> proc[w].slice, target |-> "",
                      v |-> gen, lag |-> 0, rest |-> <<>>]
    OBVIOUS
  <2>2. "pc" \in DOMAIN r /\ r.pc # "send"
    BY <2>1
  <2>3. proc' = [proc EXCEPT ![w] = r] /\ UNCHANGED <<st, lock, conn>>
    BY <1>2, <2>1 DEF writer_reads, Notify
  <2> QED
    BY <1>0, <2>2, <2>3, QuietKeeps
<1> QED
  BY <1>1, <1>2

\* The watcher.
LEMMA KeepsWatcher ==
    ASSUME NotifyInv, watcher_looks \/ watcher_goes_on
    PROVE  NotifyInv' /\ NoneGoesBack
<1>0. Watcher \in Procs /\ StatePartOk(st)
  BY DEF Procs, NotifyInv
<1>1. PICK slice, target, rest : Notify(Watcher, slice, target, rest)
  BY Zenon DEF watcher_looks, watcher_goes_on
<1>2. UNCHANGED <<st, lock, conn>>
  BY DEF watcher_looks, watcher_goes_on
<1>3. PICK r : r = [pc |-> "lock", slice |-> slice, target |-> target,
                    v |-> gen, lag |-> 0, rest |-> rest]
  OBVIOUS
<1>4. "pc" \in DOMAIN r /\ r.pc # "send"
  BY <1>3
<1>5. proc' = [proc EXCEPT ![Watcher] = r]
  BY <1>1, <1>3 DEF Notify
<1> QED
  BY <1>0, <1>2, <1>4, <1>5, QuietKeeps

\* A notification that is held back or has nothing to say.
LEMMA KeepsDeferred ==
    ASSUME NotifyInv, NEW p \in Procs, notify_deferred(p)
    PROVE  NotifyInv' /\ NoneGoesBack
<1>1. StatePartOk(merged(p)) /\ merged(p).generation = st.generation
  BY MergedIsOk DEF NotifyInv
<1>2. st' = merged(p) \/ st' = [merged(p) EXCEPT !.pending = TRUE]
  BY DEF notify_deferred
<1>3. StatePartOk(st') /\ st'.generation = st.generation
  BY <1>1, <1>2 DEF StatePartOk
<1>4. proc' = [proc EXCEPT ![p] = After(p)] /\ UNCHANGED <<lock, conn>>
  BY DEF notify_deferred
<1> QED
  BY <1>3, <1>4, AfterIsQuiet, QuietKeeps

\* A broadcast begins: nobody else is sending, so that the counter may go up.
LEMMA KeepsBroadcasts ==
    ASSUME NotifyInv, NEW p \in Procs, notify_broadcasts(p)
    PROVE  NotifyInv' /\ NoneGoesBack
<1>1. StatePartOk(merged(p)) /\ merged(p).generation = st.generation
  BY MergedIsOk DEF NotifyInv
<1>2. PICK m : m = merged(p)
  OBVIOUS
<1>3. st' = [m EXCEPT !.generation = @ + 1, !.pending = FALSE, !.mask = {}, !.explicit = <<>>]
  BY <1>2 DEF notify_broadcasts
<1>4. StatePartOk(st') /\ st'.generation = st.generation + 1
  <2>1. IsSeq(<<>>)
    BY DEF IsSeq
  <2> QED
    BY <1>1, <1>2, <1>3, <2>1 DEF StatePartOk
<1>5. PICK l : l = BroadcastList(proc[p].v, m)
  OBVIOUS
<1>6. Tells(l, st'.generation)
  BY <1>1, <1>2, <1>4, <1>5, BroadcastTells
<1>7. PICK r : r = [pc |-> "send", list |-> l, to |-> Nothing, rest |-> proc[p].rest]
  OBVIOUS
<1>8. proc' = [proc EXCEPT ![p] = r] /\ lock' = p /\ lock = Nothing /\ conn' = conn
  BY <1>2, <1>5, <1>7 DEF notify_broadcasts
<1>9. \A q \in Procs : ~Sending(q)
  BY <1>8, NotifyAssumption DEF NotifyInv, SendersOk, SenderOk, Sending
<1>10. SendersOk'
  <2>1. proc' = [q \in Procs |-> proc'[q]]
    BY <1>8 DEF NotifyInv, SendersOk
  <2>2. SenderOk(p, r, lock', st'.generation)
    BY <1>6, <1>7, <1>8 DEF SenderOk
  <2>3. \A q \in Procs : SenderOk(q, proc'[q], lock', st'.generation)
    BY <1>8, <1>9, <2>2 DEF NotifyInv, SendersOk, SenderOk, Sending
  <2> QED
    BY <2>1, <2>3 DEF SendersOk
<1>11. ConnectionsOk' /\ NoneGoesBack
  BY <1>4, <1>8 DEF NotifyInv, ConnectionsOk, NoneGoesBack, HeardOk, StatePartOk
<1> QED
  BY <1>4, <1>10, <1>11 DEF NotifyInv

\* A sender's list or its sockets change; nothing is heard by it.
SendsOn(p, l, t) ==
    /\ Tells(l, st.generation) /\ UNCHANGED <<st, lock>>
    /\ proc' = [proc EXCEPT ![p] = [pc |-> "send", list |-> l, to |-> t, rest |-> proc[p].rest]]

\* The others are where they were.
LEMMA KeepsSender ==
    ASSUME NotifyInv, NEW p \in Procs, Sending(p), NEW l, NEW t, SendsOn(p, l, t)
    PROVE  StatePartOk(st') /\ SendersOk'
<1>0. /\ Tells(l, st.generation) /\ UNCHANGED <<st, lock>>
      /\ proc' = [proc EXCEPT ![p] = [pc |-> "send", list |-> l, to |-> t, rest |-> proc[p].rest]]
  BY DEF SendsOn
<1>1. PICK r : r = [pc |-> "send", list |-> l, to |-> t, rest |-> proc[p].rest]
  OBVIOUS
<1>2. SenderOk(p, r, lock', st'.generation)
  BY <1>0, <1>1 DEF SenderOk, NotifyInv, SendersOk, Sending
<1>3. proc' = [proc EXCEPT ![p] = r]
  BY <1>0, <1>1
<1>4. proc' = [q \in Procs |-> proc'[q]]
  BY <1>3 DEF NotifyInv, SendersOk
<1>5. \A q \in Procs : SenderOk(q, proc'[q], lock', st'.generation)
  BY <1>0, <1>2, <1>3 DEF NotifyInv, SendersOk, SenderOk
<1> QED
  BY <1>0, <1>4, <1>5 DEF SendersOk, NotifyInv

\* A sender's record in full.
LEMMA SenderRecord ==
    ASSUME NotifyInv, NEW p \in Procs, Sending(p)
    PROVE  /\ DOMAIN proc[p] = {"pc", "list", "to", "rest"}
           /\ proc[p].pc = "send" /\ lock = p
           /\ Tells(proc[p].list, st.generation)
           /\ p \in DOMAIN proc
  BY DEF NotifyInv, SendersOk, SenderOk, Sending

\* The sockets are listed.
LEMMA KeepsSnapshot ==
    ASSUME NotifyInv, NEW p \in Procs, snapshot_subscribed_clients(p)
    PROVE  NotifyInv' /\ NoneGoesBack
<1>0. Sending(p)
  BY DEF snapshot_subscribed_clients, Sending
<1>1. PICK t : t = {f \in Fds : clients[f] = "subscribed"}
  OBVIOUS
<1>2. proc' = [proc EXCEPT ![p].to = t] /\ UNCHANGED <<st, lock, conn>>
  BY <1>1 DEF snapshot_subscribed_clients
<1>3. [proc[p] EXCEPT !.to = t]
       = [pc |-> "send", list |-> proc[p].list, to |-> t, rest |-> proc[p].rest]
  BY <1>0, SenderRecord
<1>4. proc' = [proc EXCEPT ![p] = [pc |-> "send", list |-> proc[p].list, to |-> t, rest |-> proc[p].rest]]
  BY <1>2, <1>3
<1>5. StatePartOk(st') /\ SendersOk'
  <2>1. SendsOn(p, proc[p].list, t)
    BY <1>0, <1>2, <1>4, SenderRecord DEF SendsOn
  <2> QED
    BY <1>0, <2>1, KeepsSender
<1>6. ConnectionsOk' /\ NoneGoesBack
  BY <1>2 DEF NotifyInv, ConnectionsOk, NoneGoesBack, HeardOk
<1> QED
  BY <1>5, <1>6 DEF NotifyInv

\* A message is written: a generation that is heard is the counter's.
LEMMA KeepsSend ==
    ASSUME NotifyInv, NEW p \in Procs, send_envelope(p)
    PROVE  NotifyInv' /\ NoneGoesBack
<1>0. Sending(p)
  BY DEF send_envelope, Sending
<1>1. PICK f : f = CHOOSE g \in proc[p].to : TRUE
  OBVIOUS
<1>2. PICK m : m = Head(proc[p].list)
  OBVIOUS
<1>3. PICK t : t = proc[p].to \ {f}
  OBVIOUS
<1>4. UNCHANGED <<st, lock>> /\ proc' = [proc EXCEPT ![p].to = t]
  BY <1>1, <1>3 DEF send_envelope
<1>5. \/ conn' = conn
      \/ m.type = "versions" /\ conn' = [conn EXCEPT ![f].seen = m.g, ![f].known = m.v]
  BY <1>1, <1>2 DEF send_envelope
<1>6. m.type = "versions" => m.g = st.generation
  <2>1. Tells(proc[p].list, st.generation)
    BY <1>0, SenderRecord
  <2>2. PICK l : l = proc[p].list
    OBVIOUS
  <2>3. IsSeq(l) /\ l # <<>> /\ 1 \in 1 .. Len(l)
    BY <2>1, <2>2, SeqFacts DEF Tells
  <2>4. Head(l) = l[1]
    BY <2>3, SeqFacts
  <2> QED
    BY <1>2, <2>1, <2>2, <2>3, <2>4 DEF Tells
<1>7. [proc[p] EXCEPT !.to = t]
       = [pc |-> "send", list |-> proc[p].list, to |-> t, rest |-> proc[p].rest]
  BY <1>0, SenderRecord
<1>8. proc' = [proc EXCEPT ![p] = [pc |-> "send", list |-> proc[p].list, to |-> t, rest |-> proc[p].rest]]
  BY <1>4, <1>7
<1>9. StatePartOk(st') /\ SendersOk'
  <2>1. SendsOn(p, proc[p].list, t)
    BY <1>0, <1>4, <1>8, SenderRecord DEF SendsOn
  <2> QED
    BY <1>0, <2>1, KeepsSender
<1>10. ConnectionsOk' /\ NoneGoesBack
  <2>1. CASE conn' = conn
    BY <2>1, <1>4 DEF NotifyInv, ConnectionsOk, NoneGoesBack, HeardOk
  <2>2. CASE m.type = "versions" /\ conn' = [conn EXCEPT ![f].seen = m.g, ![f].known = m.v]
    <3>1. conn' = [conn EXCEPT ![f].seen = st.generation, ![f].known = m.v]
      BY <2>2, <1>6
    <3>2. conn' = [g \in Fds |-> conn'[g]]
      BY <3>1 DEF NotifyInv, ConnectionsOk
    <3>3. \A g \in Fds : HeardOk(conn'[g], st.generation) /\ conn'[g].seen >= conn[g].seen
      <4> SUFFICES ASSUME NEW g \in Fds
                   PROVE  HeardOk(conn'[g], st.generation) /\ conn'[g].seen >= conn[g].seen
        OBVIOUS
      <4>0. HeardOk(conn[g], st.generation) /\ st.generation \in Nat
        BY DEF NotifyInv, ConnectionsOk, StatePartOk
      <4>1. CASE g = f
        <5>1. conn'[g] = [conn[g] EXCEPT !.seen = st.generation, !.known = m.v]
          BY <3>1, <4>1 DEF NotifyInv, ConnectionsOk
        <5> QED
          BY <4>0, <5>1 DEF HeardOk
      <4>2. CASE g # f
        <5>1. conn'[g] = conn[g]
          BY <3>1, <4>2 DEF NotifyInv, ConnectionsOk
        <5> QED
          BY <4>0, <5>1 DEF HeardOk
      <4> QED
        BY <4>1, <4>2
    <3> QED
      BY <3>2, <3>3, <1>4 DEF ConnectionsOk, NoneGoesBack
  <2> QED
    BY <1>5, <2>1, <2>2
<1> QED
  BY <1>9, <1>10 DEF NotifyInv

\* The next message, or the end of the broadcast.
LEMMA KeepsNext ==
    ASSUME NotifyInv, NEW p \in Procs, next_envelope(p)
    PROVE  NotifyInv' /\ NoneGoesBack
<1>0. Sending(p) /\ UNCHANGED <<st, conn>> /\ StatePartOk(st')
  BY DEF next_envelope, Sending, NotifyInv
<1>1. ConnectionsOk' /\ NoneGoesBack
  BY <1>0 DEF NotifyInv, ConnectionsOk, NoneGoesBack, HeardOk
<1>2. CASE Len(proc[p].list) = 1
  <2>1. proc' = [proc EXCEPT ![p] = After(p)]
    BY <1>2 DEF next_envelope
  <2>2. \A q \in Procs : Sending(q) => q = p
    BY <1>0 DEF NotifyInv, SendersOk, SenderOk, Sending
  <2>3. proc' = [q \in Procs |-> proc'[q]]
    BY <2>1 DEF NotifyInv, SendersOk
  <2>4. \A q \in Procs : "pc" \in DOMAIN proc'[q] /\ proc'[q].pc # "send"
    BY <2>1, <2>2, AfterIsQuiet DEF NotifyInv, SendersOk, SenderOk, Sending
  <2>5. SendersOk'
    BY <2>3, <2>4 DEF SendersOk, SenderOk
  <2> QED
    BY <1>0, <1>1, <2>5 DEF NotifyInv
<1>3. CASE Len(proc[p].list) # 1
  <2>1. PICK l : l = proc[p].list
    OBVIOUS
  <2>2. Tells(l, st.generation)
    BY <1>0, <2>1, SenderRecord
  <2>3. PICK u : u = Tail(l)
    OBVIOUS
  <2>4. IsSeq(l) /\ l # <<>> /\ Len(l) \in Nat
    BY <2>2, SeqFacts DEF Tells
  <2>5. IsSeq(u) /\ Len(u) = Len(l) - 1 /\ \A i \in 1 .. Len(u) : u[i] = l[i + 1]
    BY <2>3, <2>4, SeqFacts
  <2>6. Len(l) # 0
    BY <2>4, SeqFacts DEF IsSeq
  <2>7. u # <<>>
    <3>1. PICK n \in Nat : n = Len(l)
      BY <2>4
    <3>2. n - 1 # 0 /\ Len(u) = n - 1
      BY <1>3, <2>1, <2>5, <2>6, <3>1
    <3>3. Len(<<>>) = 0
      OBVIOUS
    <3> QED
      BY <3>2, <3>3
  <2>8. \A i \in 1 .. Len(u) : i + 1 \in 1 .. Len(l)
    BY <2>4, <2>5
  <2>9. Tells(u, st.generation)
    BY <2>2, <2>5, <2>7, <2>8 DEF Tells
  <2>10. proc' = [proc EXCEPT ![p].list = u, ![p].to = Nothing] /\ lock' = lock
    BY <1>3, <2>1, <2>3 DEF next_envelope
  <2>11. [[proc[p] EXCEPT !.list = u] EXCEPT !.to = Nothing]
          = [pc |-> "send", list |-> u, to |-> Nothing, rest |-> proc[p].rest]
    <3>1. [proc[p] EXCEPT !.list = u]
           = [pc |-> "send", list |-> u, to |-> proc[p].to, rest |-> proc[p].rest]
      BY <1>0, SenderRecord
    <3>2. PICK q : q = [proc[p] EXCEPT !.list = u]
      OBVIOUS
    <3>3. DOMAIN q = {"pc", "list", "to", "rest"} /\ q.pc = "send" /\ q.list = u /\ q.rest = proc[p].rest
      BY <3>1, <3>2
    <3>4. [q EXCEPT !.to = Nothing] = [pc |-> "send", list |-> u, to |-> Nothing, rest |-> proc[p].rest]
      BY <3>3
    <3> QED
      BY <3>2, <3>4
  <2>12. p \in DOMAIN proc
    BY <1>0, SenderRecord
  <2>13. proc' = [proc EXCEPT ![p] = [pc |-> "send", list |-> u, to |-> Nothing, rest |-> proc[p].rest]]
    BY <2>10, <2>11, <2>12
  <2>14. SendersOk'
    <3>1. SendsOn(p, u, Nothing)
      BY <1>0, <2>9, <2>10, <2>13 DEF SendsOn
    <3> QED
      BY <1>0, <3>1, KeepsSender
  <2> QED
    BY <1>0, <1>1, <2>14 DEF NotifyInv
<1> QED
  BY <1>2, <1>3

\* The clients.
LEMMA KeepsClients ==
    ASSUME NotifyInv, NEW f \in Fds,
           ws_connect(f) \/ ws_subscribe(f) \/ ws_unsubscribe(f) \/ ws_close(f)
    PROVE  NotifyInv' /\ NoneGoesBack
<1>0. UNCHANGED <<st, lock, proc>>
  BY DEF ws_connect, ws_subscribe, ws_unsubscribe, ws_close
<1>1. HeardOk(conn[f], st.generation) /\ f \in DOMAIN conn
  BY DEF NotifyInv, ConnectionsOk
<1>2. CASE ws_connect(f)
  <2>1. PICK c : c = [NoConn EXCEPT !.open = TRUE]
    OBVIOUS
  <2>2. conn' = [conn EXCEPT ![f] = c] /\ ~conn[f].open
    BY <1>2, <2>1 DEF ws_connect
  <2>3. DOMAIN c = {"open", "sub", "seen", "known"} /\ c.seen = 0
    BY <2>1 DEF NoConn
  <2> QED
    BY <1>0, <2>2, <2>3, ClientKeeps
<1>3. CASE ws_subscribe(f)
  <2>1. PICK c : c = [conn[f] EXCEPT !.sub = TRUE, !.known = gen]
    OBVIOUS
  <2>2. conn' = [conn EXCEPT ![f] = c]
    BY <1>3, <1>1, <2>1 DEF ws_subscribe
  <2>3. DOMAIN c = {"open", "sub", "seen", "known"} /\ c.seen = conn[f].seen
    BY <1>1, <2>1 DEF HeardOk
  <2> QED
    BY <1>0, <2>2, <2>3, ClientKeeps
<1>4. CASE ws_unsubscribe(f)
  <2>1. PICK c : c = [conn[f] EXCEPT !.sub = FALSE]
    OBVIOUS
  <2>2. conn' = [conn EXCEPT ![f] = c]
    BY <1>4, <1>1, <2>1 DEF ws_unsubscribe
  <2>3. DOMAIN c = {"open", "sub", "seen", "known"} /\ c.seen = conn[f].seen
    BY <1>1, <2>1 DEF HeardOk
  <2> QED
    BY <1>0, <2>2, <2>3, ClientKeeps
<1>5. CASE ws_close(f)
  <2>1. PICK c : c = NoConn
    OBVIOUS
  <2>2. conn' = [conn EXCEPT ![f] = c]
    BY <1>5, <2>1 DEF ws_close
  <2>3. DOMAIN c = {"open", "sub", "seen", "known"} /\ c.seen = 0 /\ ~c.open
    BY <2>1 DEF NoConn
  <2> QED
    BY <1>0, <2>2, <2>3, ClientKeeps
<1> QED
  BY <1>2, <1>3, <1>4, <1>5

\* The clock.
LEMMA KeepsTick ==
    ASSUME NotifyInv, notify_tick
    PROVE  NotifyInv' /\ NoneGoesBack
<1>0. UNCHANGED <<st, lock, conn>>
  BY DEF notify_tick
<1>1. proc' = [p \in Procs |-> IF proc[p].pc = "lock" THEN [proc[p] EXCEPT !.lag = @ + 1] ELSE proc[p]]
  BY DEF notify_tick
<1>2. \A p \in Procs : proc'[p] = proc[p] \/ (proc'[p].pc = "lock" /\ DOMAIN proc'[p] = DOMAIN proc[p])
  <2> SUFFICES ASSUME NEW p \in Procs, proc[p].pc = "lock"
               PROVE  proc'[p].pc = "lock" /\ DOMAIN proc'[p] = DOMAIN proc[p]
    BY <1>1
  <2>1. "pc" \in DOMAIN proc[p]
    BY DEF NotifyInv, SendersOk, SenderOk
  <2>2. PICK n : n = proc[p].lag + 1
    OBVIOUS
  <2>3. proc'[p] = [proc[p] EXCEPT !.lag = n]
    BY <1>1, <2>2
  <2> QED
    BY <2>1, <2>3
<1>3. proc' = [p \in Procs |-> proc'[p]]
  BY <1>1
<1>4. SendersOk'
  BY <1>0, <1>2, <1>3 DEF NotifyInv, SendersOk, SenderOk
<1>5. ConnectionsOk' /\ NoneGoesBack
  BY <1>0 DEF NotifyInv, ConnectionsOk, NoneGoesBack, HeardOk
<1> QED
  BY <1>0, <1>4, <1>5 DEF NotifyInv

\* What changes in the stores and the runtime concerns no notifier yet.
LEMMA KeepsStill ==
    ASSUME NotifyInv, UNCHANGED <<st, lock, proc, conn>>
    PROVE  NotifyInv' /\ NoneGoesBack
  BY DEF NotifyInv, SendersOk, ConnectionsOk, NoneGoesBack, HeardOk

\* Every step.
LEMMA NotifyStep ==
    ASSUME NotifyInv, [NotifyNext]_notify_vars
    PROVE  NotifyInv' /\ NoneGoesBack
<1>1. CASE runtime_change \/ UNCHANGED notify_vars
  <2>1. UNCHANGED <<st, lock, proc, conn>>
    BY <1>1 DEF runtime_change, notify_vars
  <2> QED
    BY <2>1, KeepsStill
<1>2. CASE \E w \in Writers : \/ \E s \in {"room.catalog", "full.snapshot"} : writer_notifies(w, s)
                              \/ writer_reads(w)
  BY <1>2, KeepsWriters
<1>3. CASE watcher_looks \/ watcher_goes_on
  BY <1>3, KeepsWatcher
<1>4. CASE \E p \in Procs : NotifierStep(p)
  BY <1>4, KeepsDeferred, KeepsBroadcasts, KeepsSnapshot, KeepsSend, KeepsNext DEF NotifierStep
<1>5. CASE \E f \in Fds : ws_connect(f) \/ ws_subscribe(f) \/ ws_unsubscribe(f) \/ ws_close(f)
  BY <1>5, KeepsClients
<1>6. CASE notify_tick
  BY <1>6, KeepsTick
<1> QED
  BY <1>1, <1>2, <1>3, <1>4, <1>5, <1>6 DEF NotifyNext

\* The start.
LEMMA NotifyStarts ==
    NotifyInit => NotifyInv
<1> SUFFICES ASSUME NotifyInit PROVE NotifyInv
  OBVIOUS
<1>1. StatePartOk(st) /\ st.generation = 0
  <2>1. IsSeq(<<>>)
    BY DEF IsSeq
  <2> QED
    BY <2>1 DEF NotifyInit, StatePartOk, Slices
<1>2. SendersOk
  BY DEF NotifyInit, SendersOk, SenderOk, Idle
<1>3. ConnectionsOk
  <2>1. conn = [f \in Fds |-> NoConn]
    BY DEF NotifyInit
  <2>2. HeardOk(NoConn, 0)
    BY DEF HeardOk, NoConn
  <2> QED
    BY <1>1, <2>1, <2>2 DEF ConnectionsOk
<1> QED
  BY <1>1, <1>2, <1>3 DEF NotifyInv

\* GenerationsIncrease, for any number of notifiers, sockets and changes: the
\* generation a web client hears on one connection never goes back, although
\* notifiers read what they announce before they wait for the lock.
THEOREM VersionsGoUp == NotifySpec => GenerationsIncrease
<1>1. NotifyInv /\ [NotifyNext]_notify_vars => NotifyInv' /\ NoneGoesBack
  BY NotifyStep
<1>2. NoneGoesBack => [\A f \in Fds : conn[f].open /\ conn'[f].open /\ conn[f].seen # 0 =>
                          conn'[f].seen >= conn[f].seen]_notify_vars
  BY DEF NoneGoesBack
<1> QED
  BY <1>1, <1>2, NotifyStarts, PTL DEF NotifySpec, GenerationsIncrease
=============================================================================
