------------------------------ MODULE EventBus ------------------------------
(***************************************************************************)
(* The event bus (event_bus/event_bus.c): a pool of message slots, a queue *)
(* of pointers into the pool, one task that hands each message to the      *)
(* registered handlers, and a second queue of deferred jobs with its own   *)
(* task.                                                                   *)
(*                                                                         *)
(* Any number of tasks post at once.  A post takes a slot under the pool   *)
(* lock, fills it outside any lock, sends the pointer and only then counts *)
(* the event: each is a step of its own.  The pool and the queue have the  *)
(* same length.  Handlers that post run on the bus task itself; they are   *)
(* posters like any other here, which allows more interleavings.           *)
(***************************************************************************)
EXTENDS Naturals, Sequences, FiniteSets

CONSTANTS Posters,      \* tasks that call event_bus_post*
          Events,       \* events that are ever posted, each by one call
          High,         \* the events posted with EVENT_BUS_PRIORITY_HIGH
          Invalid,      \* the events scenehub_event_is_valid refuses
          Handlers,     \* functions passed to event_bus_register_handler
          Jobs,         \* jobs that are ever posted, each by one call
          NULL,         \* no slot, no event, no job (a null pointer)
          QUEUE_LEN,    \* EVENT_BUS_QUEUE_LEN, the pool's length too
          JOB_QUEUE_LEN, \* EVENT_BUS_JOB_QUEUE_LEN
          MAX_HANDLERS  \* EVENT_BUS_MAX_HANDLERS

ASSUME BusAssumption ==
    /\ QUEUE_LEN \in Nat \ {0}
    /\ JOB_QUEUE_LEN \in Nat \ {0}
    /\ MAX_HANDLERS \in Nat
    /\ High \subseteq Events /\ Invalid \subseteq Events
    /\ NULL \notin Events /\ NULL \notin Jobs /\ NULL \notin Nat
    /\ IsFiniteSet(Posters) /\ IsFiniteSet(Events)

VARIABLES in_use,    \* s_message_pool_in_use
          pool,      \* s_message_pool: the event copied into each slot
          queue,     \* s_queue: slots, the next one to dispatch first
          post,      \* post[p]: where poster p is in event_bus_post_priority
          bus,       \* where event_bus_task is
          started,   \* event_bus_start has created the tasks
          handlers,  \* s_handlers, up to s_handler_count
          job_queue, \* s_job_queue
          job,       \* the job event_bus_job_task is running
          stats,     \* posted, dispatched and drop counters
          fresh,     \* history: events not posted yet
          fresh_jobs, \* history: jobs not posted yet
          accepted,  \* history: events whose pointer was queued, in order
          seen       \* history: seen[h], the events handler h was called with

bus_vars == <<in_use, pool, queue, post, bus, started, handlers, job_queue, job,
          stats, fresh, fresh_jobs, accepted, seen>>
job_vars == <<job_queue, job, fresh_jobs>>
history == <<accepted, seen>>

PoolSlots == 1 .. QUEUE_LEN

IdlePost == [stage |-> "idle", slot |-> NULL, event |-> NULL]
IdleBus == [stage |-> "receive", slot |-> NULL, todo |-> <<>>]

Stats == [posted : Nat, dispatched : Nat, dropped : Nat,
          job_posted : Nat, job_dispatched : Nat, job_dropped : Nat]

Count(c) == stats' = [stats EXCEPT ![c] = @ + 1]

-----------------------------------------------------------------------------
(* event_bus_post_priority *)

\* An invalid event is dropped before the pool is touched.
post_invalid(p, e) ==
    /\ post[p].stage = "idle" /\ e \in fresh /\ e \in Invalid
    /\ fresh' = fresh \ {e}
    /\ Count("dropped")
    /\ UNCHANGED <<in_use, pool, queue, post, bus, started, handlers, job_vars,
                   history>>

pool_alloc_any_slot(p, e) ==
    /\ post[p].stage = "idle" /\ e \in fresh /\ e \notin Invalid
    /\ fresh' = fresh \ {e}
    /\ \E s \in PoolSlots :
         /\ in_use' = [in_use EXCEPT ![s] = TRUE]
         /\ pool' = [pool EXCEPT ![s] = NULL]
         /\ post' = [post EXCEPT ![p] = [stage |-> "fill", slot |-> s, event |-> e]]
    /\ UNCHANGED <<queue, bus, started, handlers, job_vars, stats, history>>

\* message_pool_alloc: the first free slot, cleared.
pool_alloc(p, e) ==
    /\ post[p].stage = "idle" /\ e \in fresh /\ e \notin Invalid
    /\ fresh' = fresh \ {e}
    /\ \E s \in PoolSlots :
         /\ ~in_use[s] /\ \A u \in PoolSlots : u < s => in_use[u]
         /\ in_use' = [in_use EXCEPT ![s] = TRUE]
         /\ pool' = [pool EXCEPT ![s] = NULL]
         /\ post' = [post EXCEPT ![p] = [stage |-> "fill", slot |-> s, event |-> e]]
    /\ UNCHANGED <<queue, bus, started, handlers, job_vars, stats, history>>

\* The pool is exhausted: the event is dropped.
pool_exhausted(p, e) ==
    /\ post[p].stage = "idle" /\ e \in fresh /\ e \notin Invalid
    /\ \A s \in PoolSlots : in_use[s]
    /\ fresh' = fresh \ {e}
    /\ Count("dropped")
    /\ UNCHANGED <<in_use, pool, queue, post, bus, started, handlers, job_vars,
                   history>>

\* The event is copied into the slot, outside any lock.
post_fill(p) ==
    /\ post[p].stage = "fill"
    /\ pool' = [pool EXCEPT ![post[p].slot] = post[p].event]
    /\ post' = [post EXCEPT ![p].stage = "send"]
    /\ UNCHANGED <<in_use, queue, bus, started, handlers, job_vars, stats, fresh,
                   history>>

Sent(p, q) == /\ queue' = q
              /\ accepted' = Append(accepted, post[p].event)
              /\ post' = [post EXCEPT ![p].stage = "count"]
              /\ UNCHANGED <<in_use, stats>>

\* The queue stayed full for the caller's timeout: count the drop and free the
\* slot.  NoFullQueue shows that no post gets here.
SendTimeout(p) == /\ Count("dropped")
                  /\ in_use' = [in_use EXCEPT ![post[p].slot] = FALSE]
                  /\ post' = [post EXCEPT ![p] = IdlePost]
                  /\ UNCHANGED <<queue, accepted>>

send_always_to_front(p) ==
    /\ post[p].stage = "send"
    /\ IF Len(queue) < QUEUE_LEN THEN Sent(p, <<post[p].slot>> \o queue)
                                 ELSE SendTimeout(p)
    /\ UNCHANGED <<pool, bus, started, handlers, job_vars, fresh, seen>>

\* xQueueSendToFront for a high-priority event, xQueueSend for any other.
post_send(p) ==
    /\ post[p].stage = "send"
    /\ IF Len(queue) < QUEUE_LEN
       THEN Sent(p, IF post[p].event \in High
                    THEN <<post[p].slot>> \o queue
                    ELSE Append(queue, post[p].slot))
       ELSE SendTimeout(p)
    /\ UNCHANGED <<pool, bus, started, handlers, job_vars, fresh, seen>>

post_count_normal_only(p) ==
    /\ post[p].stage = "count"
    /\ IF post[p].event \in High THEN UNCHANGED stats ELSE Count("posted")
    /\ post' = [post EXCEPT ![p] = IdlePost]
    /\ UNCHANGED <<in_use, pool, queue, bus, started, handlers, job_vars, fresh,
                   history>>

\* The posted counter is incremented after the pointer is out.
post_count(p) ==
    /\ post[p].stage = "count"
    /\ Count("posted")
    /\ post' = [post EXCEPT ![p] = IdlePost]
    /\ UNCHANGED <<in_use, pool, queue, bus, started, handlers, job_vars, fresh,
                   history>>

-----------------------------------------------------------------------------
(* event_bus_task *)

bus_receive_misses_last ==
    /\ started /\ bus.stage = "receive" /\ queue # <<>>
    /\ bus' = [stage |-> "dispatch", slot |-> Head(queue),
               todo |-> SubSeq(handlers, 1, Len(handlers) - 1)]
    /\ queue' = Tail(queue)
    /\ UNCHANGED <<in_use, pool, post, started, handlers, job_vars, stats, fresh,
                   history>>

\* xQueueReceive, then dispatch_message's copy of the handler table.
bus_receive ==
    /\ started /\ bus.stage = "receive" /\ queue # <<>>
    /\ bus' = [stage |-> "dispatch", slot |-> Head(queue), todo |-> handlers]
    /\ queue' = Tail(queue)
    /\ UNCHANGED <<in_use, pool, post, started, handlers, job_vars, stats, fresh,
                   history>>

bus_dispatch_frees_early ==
    /\ bus.stage = "dispatch" /\ bus.todo # <<>>
    /\ seen' = [seen EXCEPT ![Head(bus.todo)] = Append(@, pool[bus.slot])]
    /\ bus' = [bus EXCEPT !.todo = Tail(@)]
    /\ in_use' = [in_use EXCEPT ![bus.slot] = FALSE]
    /\ UNCHANGED <<pool, queue, post, started, handlers, job_vars, stats,
                   fresh, accepted>>

\* dispatch_message calls the next handler of its copy.
bus_dispatch ==
    /\ bus.stage = "dispatch" /\ bus.todo # <<>>
    /\ seen' = [seen EXCEPT ![Head(bus.todo)] = Append(@, pool[bus.slot])]
    /\ bus' = [bus EXCEPT !.todo = Tail(@)]
    /\ UNCHANGED <<in_use, pool, queue, post, started, handlers, job_vars, stats,
                   fresh, accepted>>

bus_free_forgotten ==
    /\ bus.stage = "dispatch" /\ bus.todo = <<>>
    /\ bus' = [bus EXCEPT !.stage = "count", !.slot = NULL]
    /\ UNCHANGED <<in_use, pool, queue, post, started, handlers, job_vars, stats,
                   fresh, history>>

\* message_pool_free
bus_free ==
    /\ bus.stage = "dispatch" /\ bus.todo = <<>>
    /\ in_use' = [in_use EXCEPT ![bus.slot] = FALSE]
    /\ bus' = [bus EXCEPT !.stage = "count", !.slot = NULL]
    /\ UNCHANGED <<pool, queue, post, started, handlers, job_vars, stats, fresh,
                   history>>

bus_count ==
    /\ bus.stage = "count"
    /\ Count("dispatched")
    /\ bus' = IdleBus
    /\ UNCHANGED <<in_use, pool, queue, post, started, handlers, job_vars, fresh,
                   history>>

-----------------------------------------------------------------------------
(* Handlers, jobs and start *)

\* event_bus_register_handler: a handler already there is not added again.
register_handler(h) ==
    /\ \A i \in DOMAIN handlers : handlers[i] # h
    /\ Len(handlers) < MAX_HANDLERS
    /\ handlers' = Append(handlers, h)
    /\ UNCHANGED <<in_use, pool, queue, post, bus, started, job_vars, stats, fresh,
                   history>>

post_job_unbounded(j) ==
    /\ j \in fresh_jobs
    /\ fresh_jobs' = fresh_jobs \ {j}
    /\ job_queue' = Append(job_queue, j)
    /\ Count("job_posted")
    /\ UNCHANGED <<in_use, pool, queue, post, bus, started, handlers, job, fresh,
                   history>>

\* event_bus_post_job
post_job(j) ==
    /\ j \in fresh_jobs /\ Len(job_queue) < JOB_QUEUE_LEN
    /\ fresh_jobs' = fresh_jobs \ {j}
    /\ job_queue' = Append(job_queue, j)
    /\ Count("job_posted")
    /\ UNCHANGED <<in_use, pool, queue, post, bus, started, handlers, job, fresh,
                   history>>

post_job_timeout(j) ==
    /\ j \in fresh_jobs /\ Len(job_queue) >= JOB_QUEUE_LEN
    /\ fresh_jobs' = fresh_jobs \ {j}
    /\ Count("job_dropped")
    /\ UNCHANGED <<in_use, pool, queue, post, bus, started, handlers, job_queue,
                   job, fresh, history>>

\* event_bus_job_task
job_receive ==
    /\ started /\ job = NULL /\ job_queue # <<>>
    /\ job' = Head(job_queue)
    /\ job_queue' = Tail(job_queue)
    /\ UNCHANGED <<in_use, pool, queue, post, bus, started, handlers, fresh_jobs,
                   stats, fresh, history>>

job_done ==
    /\ job # NULL
    /\ job' = NULL
    /\ Count("job_dispatched")
    /\ UNCHANGED <<in_use, pool, queue, post, bus, started, handlers, job_queue,
                   fresh_jobs, fresh, history>>

\* event_bus_start: events may be posted before it.
bus_start ==
    /\ ~started
    /\ started' = TRUE
    /\ UNCHANGED <<in_use, pool, queue, post, bus, handlers, job_vars, stats, fresh,
                   history>>

-----------------------------------------------------------------------------

\* event_bus_init
BusInit ==
    /\ in_use = [s \in PoolSlots |-> FALSE]
    /\ pool = [s \in PoolSlots |-> NULL]
    /\ queue = <<>>
    /\ post = [p \in Posters |-> IdlePost]
    /\ bus = IdleBus
    /\ started = FALSE
    /\ handlers = <<>>
    /\ job_queue = <<>> /\ job = NULL
    /\ stats = [posted |-> 0, dispatched |-> 0, dropped |-> 0,
                job_posted |-> 0, job_dispatched |-> 0, job_dropped |-> 0]
    /\ fresh = Events /\ fresh_jobs = Jobs
    /\ accepted = <<>> /\ seen = [h \in Handlers |-> <<>>]

Post(p) ==
    \/ \E e \in Events : post_invalid(p, e) \/ pool_alloc(p, e) \/ pool_exhausted(p, e)
    \/ post_fill(p) \/ post_send(p) \/ post_count(p)

BusTask == bus_receive \/ bus_dispatch \/ bus_free \/ bus_count

JobTask == job_receive \/ job_done

BusNext ==
    \/ \E p \in Posters : Post(p)
    \/ BusTask
    \/ JobTask
    \/ \E h \in Handlers : register_handler(h)
    \/ \E j \in Jobs : post_job(j) \/ post_job_timeout(j)
    \/ bus_start

\* FreeRTOS keeps running a ready task: the two bus tasks, a post that has
\* begun, and app startup.  Nobody has to begin a post.
BusFairness ==
    /\ WF_bus_vars(BusTask) /\ WF_bus_vars(JobTask) /\ WF_bus_vars(bus_start)
    /\ \A p \in Posters : WF_bus_vars(post_fill(p) \/ post_send(p) \/ post_count(p))

BusSpec == BusInit /\ [][BusNext]_bus_vars

BusFairSpec == BusSpec /\ BusFairness

-----------------------------------------------------------------------------
(* Properties *)

BusTypeOK ==
    /\ in_use \in [PoolSlots -> BOOLEAN]
    /\ pool \in [PoolSlots -> Events \cup {NULL}]
    /\ queue \in Seq(PoolSlots)
    /\ post \in [Posters -> [stage : {"idle", "fill", "send", "count"},
                             slot : PoolSlots \cup {NULL}, event : Events \cup {NULL}]]
    /\ bus \in [stage : {"receive", "dispatch", "count"},
                slot : PoolSlots \cup {NULL}, todo : Seq(Handlers)]
    /\ started \in BOOLEAN
    /\ handlers \in Seq(Handlers) /\ Len(handlers) <= MAX_HANDLERS
    /\ job_queue \in Seq(Jobs) /\ Len(job_queue) <= JOB_QUEUE_LEN
    /\ job \in Jobs \cup {NULL}
    /\ stats \in Stats
    /\ fresh \subseteq Events /\ fresh_jobs \subseteq Jobs
    /\ accepted \in Seq(Events) /\ seen \in [Handlers -> Seq(Events)]

\* The places that hold a pointer to slot s: a post that has not sent it yet,
\* a position in the queue, or the bus task.
Holders(s) ==
    {<<"post", p>> : p \in {q \in Posters : post[q].stage \in {"fill", "send"}
                                             /\ post[q].slot = s}}
    \cup {<<"queue", i>> : i \in {k \in DOMAIN queue : queue[k] = s}}
    \cup {<<"bus", 0>> : x \in {b \in {bus} : b.stage = "dispatch" /\ b.slot = s}}

\* A slot that is in use has exactly one holder and a free slot has none:
\* message_pool_alloc hands out no slot somebody still reads or writes, and
\* no slot is lost.
OneHolderPerSlot ==
    \A s \in PoolSlots : Cardinality(Holders(s)) = IF in_use[s] THEN 1 ELSE 0

\* A post that got a slot always finds room in the queue, so the timeout of
\* xQueueSend never runs out and a handler that posts never blocks the bus.
NoFullQueue ==
    \A p \in Posters : post[p].stage = "send" => Len(queue) < QUEUE_LEN

\* What a handler gets is what was posted: the slot's content is not touched
\* between the copy in event_bus_post_priority and message_pool_free.
QueuedContentIntact ==
    /\ \A i \in DOMAIN queue : pool[queue[i]] \in Events
    /\ bus.stage = "dispatch" => pool[bus.slot] \in Events
    /\ \A h \in Handlers : \A i, k \in DOMAIN seen[h] :
          seen[h][i] = seen[h][k] => i = k

Before(q, e, f) == \E i, k \in DOMAIN q : i < k /\ q[i] = e /\ q[k] = f

\* Two events of normal priority reach every handler in the order in which
\* they were queued, however many high-priority events overtake them.
NormalEventsInOrder ==
    \A h \in Handlers : \A e, f \in Events \ High :
        Before(seen[h], e, f) => Before(accepted, e, f)

\* The counters tell the truth once the counts still to be made are added:
\* every queued event is waiting, being dispatched or dispatched, and every
\* finished post was either counted as posted or as dropped.
StatsBalance ==
    LET counting == Cardinality({p \in Posters : post[p].stage = "count"})
        busy == Cardinality({p \in Posters : post[p].stage # "idle"})
    IN  /\ stats.posted + counting
             = stats.dispatched + Len(queue) + (IF bus.stage = "receive" THEN 0 ELSE 1)
        /\ stats.posted + stats.dropped + busy + Cardinality(fresh)
             = Cardinality(Events)
        /\ stats.job_posted
             = stats.job_dispatched + Len(job_queue) + (IF job = NULL THEN 0 ELSE 1)

\* The event bus loses no slot and no event: a slot has one holder, the queue
\* is never full for the holder of a slot, and the counters add up.
PoolIsSound == BusTypeOK /\ OneHolderPerSlot /\ NoFullQueue /\ StatsBalance

\* Event e is in the queue while h is registered, and h has handled e.
WaitsFor(e, h) == /\ \E i \in DOMAIN handlers : handlers[i] = h
                  /\ \E i \in DOMAIN queue : pool[queue[i]] = e
Handled(e, h) == \E i \in DOMAIN seen[h] : seen[h][i] = e
=============================================================================
