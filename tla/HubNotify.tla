----------------------------- MODULE HubNotify -----------------------------
(* How the operator's clients learn that something changed: scenehub_state   *)
(* compares the generations of the stores and the runtime, and ws_runtime    *)
(* broadcasts what differs to the subscribed sockets.                        *)
(*                                                                           *)
(* Every notifier (a write operation of scenehub_control, or the watcher     *)
(* task that looks every 100 ms) reads the generations BEFORE it takes the   *)
(* broadcast lock, so a slower one arrives with old values. Broadcasts are   *)
(* held back for 250 ms after the last one: what they would have said is     *)
(* kept pending. Messages are sent outside the state lock.                   *)
(*                                                                           *)
(* Time is kept as ages: `since` the last broadcast, and for every notifier  *)
(* the `lag` since it read the clock. The unsigned difference of the code is *)
(* since - lag, and wraps to a huge value when the clock was read before the *)
(* broadcast. The four stores count as one ("static"); the flag that makes the *)
(* registry rebuild its snapshot is left out, since nothing here reads it.   *)
EXTENDS Integers, Sequences, FiniteSets, SequencesExt

CONSTANTS Rooms, Devices, Nothing,
          Writers,          \* tasks that change something and notify
          Fds,              \* socket numbers
          MAX_CLIENTS,      \* WS_RUNTIME_MAX_CLIENTS
          MAX_PENDING,      \* SCENEHUB_STATE_MAX_PENDING_EXPLICIT
          INTERVAL,         \* SCENEHUB_STATE_WS_MIN_INTERVAL_MS, in ticks
          MAX_LAG,          \* bound: ticks between reading the clock and the lock
          MAX_CHANGES,      \* bound: changes of the generations
          MAX_CONNECTS      \* bound: connections made

VARIABLES gen,              \* the generations: static, ingest, session
          last_id,          \* the room and the device that changed last
          st,               \* the statics of scenehub_state.c
          since,            \* ticks since the last broadcast, or Nothing before it
          lock,             \* holder of s_state_broadcast_mutex
          proc,             \* notifier -> where it is
          clients,          \* s_clients: fd -> unknown, idle or subscribed
          snapshot_gen,     \* s_snapshot_generation
          conn,             \* fd -> the client's side of the connection
          changes, connects

notify_vars == <<gen, last_id, st, since, lock, proc, clients, snapshot_gen, conn,
          changes, connects>>

Watcher == "watcher"
Procs == Writers \cup {Watcher}
Idle == [pc |-> "idle"]
NoGen == [static |-> 0, ingest |-> 0, session |-> 0]
NoConn == [open |-> FALSE, sub |-> FALSE, seen |-> 0, known |-> NoGen]

\* Nobody is not a task.
ASSUME NotifyAssumption == Nothing \notin Procs

\* scenehub_state_init: what is there at the start counts as announced.
NotifyInit ==
  /\ gen = NoGen
  /\ last_id = [room |-> "", device |-> ""]
  /\ st = [last |-> gen, ingest |-> 0, session |-> 0, mask |-> {}, explicit |-> <<>>,
           pending |-> FALSE, generation |-> 0]
  /\ since = Nothing /\ lock = Nothing
  /\ proc = [p \in Procs |-> Idle]
  /\ clients = [f \in Fds |-> "unknown"]
  /\ snapshot_gen = 1
  /\ conn = [f \in Fds |-> NoConn]
  /\ changes = 0 /\ connects = 0

slice_mask(slice) ==
  CASE slice = "none" -> {}
    [] slice = "full.snapshot" -> {"room.catalog", "devices.runtime", "room.runtime", "system.summary"}
    [] OTHER -> {slice}

collect_change_mask(prev, cur) ==
  (IF prev.static # cur.static THEN {"room.catalog", "system.summary"} ELSE {})
  \cup (IF prev.ingest # cur.ingest THEN {"devices.runtime", "system.summary"} ELSE {})
  \cup (IF prev.session # cur.session THEN {"room.runtime", "system.summary"} ELSE {})

\* One entry per slice and target; silently dropped when the list is full.
queue_explicit_invalidation(list, slice, target) ==
  IF slice = "none" \/ Len(list) >= MAX_PENDING \/ <<slice, target>> \in ToSet(list)
  THEN list ELSE Append(list, <<slice, target>>)

pending_explicit_mask(list) == UNION {slice_mask(x[1]) : x \in ToSet(list)}

\* The order of a broadcast: the generations, then the targeted slices, then
\* the slices no targeted one spoke of.
BroadcastList(v, s) ==
  <<[type |-> "versions", g |-> s.generation + 1, v |-> v]>>
  \o [i \in 1..Len(s.explicit) |->
        [type |-> IF s.explicit[i][1] = "full.snapshot" THEN "resync" ELSE "invalidate",
         slice |-> s.explicit[i][1], target |-> s.explicit[i][2]]]
  \o [i \in 1..Cardinality(s.mask \ pending_explicit_mask(s.explicit)) |->
        [type |-> "invalidate", target |-> "",
         slice |-> SetToSeq(s.mask \ pending_explicit_mask(s.explicit))[i]]]

\* Something changes: a store (by a writer, which then notifies), the live
\* table of devices or a room session (which only the watcher notices).
change(kind, id) ==
  /\ changes < MAX_CHANGES
  /\ changes' = changes + 1
  /\ gen' = [gen EXCEPT ![kind] = @ + 1]
  /\ last_id' = CASE kind = "session" -> [last_id EXCEPT !.room = id]
                  [] kind = "ingest" -> [last_id EXCEPT !.device = id]
                  [] OTHER -> last_id

runtime_change ==
  /\ \/ \E r \in Rooms : change("session", r)
     \/ \E d \in Devices : change("ingest", d)
  /\ UNCHANGED <<st, since, lock, proc, clients, snapshot_gen, conn, connects>>

\* notify_invalidation, first part: the clock and the generations are read.
Notify(p, slice, target, rest) ==
  proc' = [proc EXCEPT ![p] = [pc |-> "lock", slice |-> slice, target |-> target,
                               v |-> gen, lag |-> 0, rest |-> rest]]

\* finish_success of scenehub_control: the write is done, then it notifies.
\* (A write may name a slice without a change, or ask for a full resync.)
writer_notifies(w, slice) ==
  /\ proc[w] = Idle
  /\ IF slice = "room.catalog" THEN change("static", "")
     ELSE changes < MAX_CHANGES /\ changes' = changes + 1 /\ UNCHANGED <<gen, last_id>>
  /\ proc' = [proc EXCEPT ![w] = [pc |-> "notify", slice |-> slice]]
  /\ UNCHANGED <<st, since, lock, clients, snapshot_gen, conn, connects>>

writer_reads(w) ==
  /\ proc[w].pc = "notify" /\ w \in Writers
  /\ Notify(w, proc[w].slice, "", <<>>)
  /\ UNCHANGED <<gen, last_id, st, since, lock, clients, snapshot_gen, conn, changes, connects>>

\* The watcher compares the two runtime generations with those last handled.
watcher_looks ==
  LET ingest == gen.ingest # st.ingest
      session == gen.session # st.session
  IN /\ proc[Watcher] = Idle
     /\ \/ ingest /\ Notify(Watcher, "devices.runtime", last_id.device,
                            IF session THEN <<"room.runtime">> ELSE <<>>)
        \/ ~ingest /\ session /\ Notify(Watcher, "room.runtime", last_id.room, <<>>)
        \/ /\ ~ingest /\ ~session /\ st.pending
           /\ since = Nothing \/ since >= INTERVAL
           /\ Notify(Watcher, "none", "", <<>>)
     /\ UNCHANGED <<gen, last_id, st, since, lock, clients, snapshot_gen, conn, changes, connects>>

\* Its second notification of one look reads everything afresh.
watcher_goes_on ==
  /\ proc[Watcher].pc = "rest"
  /\ Notify(Watcher, "room.runtime", last_id.room, <<>>)
  /\ UNCHANGED <<gen, last_id, st, since, lock, clients, snapshot_gen, conn, changes, connects>>

After(p) == IF proc[p].rest = <<>> THEN Idle ELSE [pc |-> "rest"]

\* The broadcast came less than INTERVAL before the clock was read. Unsigned:
\* a broadcast after it counts as long ago.
too_soon(lag) == since # Nothing /\ since - lag >= 0 /\ since - lag < INTERVAL

\* The state under both locks: what is new is added to what is pending.
merged(p) ==
  [st EXCEPT !.explicit = queue_explicit_invalidation(@, proc[p].slice, proc[p].target),
             !.ingest = proc[p].v.ingest, !.session = proc[p].v.session,
             !.last = proc[p].v,
             !.mask = @ \cup collect_change_mask(st.last, proc[p].v)]

\* Mutant: what is held back is not marked pending.
notify_deferred_drops(p) ==
  LET m == merged(p)
      silent == m.mask = {} /\ ~m.pending /\ m.explicit = <<>>
  IN /\ proc[p].pc = "lock" /\ lock = Nothing
     /\ silent \/ too_soon(proc[p].lag)
     /\ st' = m
     /\ proc' = [proc EXCEPT ![p] = After(p)]
     /\ UNCHANGED <<gen, last_id, since, lock, clients, snapshot_gen, conn, changes, connects>>

\* Nothing new and nothing pending, or too soon: leave it for the watcher.
notify_deferred(p) ==
  LET m == merged(p)
      silent == m.mask = {} /\ ~m.pending /\ m.explicit = <<>>
  IN /\ proc[p].pc = "lock" /\ lock = Nothing
     /\ silent \/ too_soon(proc[p].lag)
     /\ st' = IF silent THEN m ELSE [m EXCEPT !.pending = TRUE]
     /\ proc' = [proc EXCEPT ![p] = After(p)]
     /\ UNCHANGED <<gen, last_id, since, lock, clients, snapshot_gen, conn, changes, connects>>

\* Mutant: the broadcast lock is released before the messages are sent.
notify_broadcasts_unlocked(p) ==
  LET m == merged(p)
  IN /\ proc[p].pc = "lock" /\ lock = Nothing
     /\ ~(m.mask = {} /\ ~m.pending /\ m.explicit = <<>>)
     /\ ~too_soon(proc[p].lag)
     /\ lock' = lock
     /\ since' = proc[p].lag
     /\ st' = [m EXCEPT !.generation = @ + 1, !.pending = FALSE, !.mask = {}, !.explicit = <<>>]
     /\ proc' = [proc EXCEPT ![p] = [pc |-> "send", list |-> BroadcastList(proc[p].v, m),
                                     to |-> Nothing, rest |-> proc[p].rest]]
     /\ UNCHANGED <<gen, last_id, clients, snapshot_gen, conn, changes, connects>>

notify_broadcasts(p) ==
  LET m == merged(p)
  IN /\ proc[p].pc = "lock" /\ lock = Nothing
     /\ ~(m.mask = {} /\ ~m.pending /\ m.explicit = <<>>)
     /\ ~too_soon(proc[p].lag)
     /\ lock' = p
     /\ since' = proc[p].lag
     /\ st' = [m EXCEPT !.generation = @ + 1, !.pending = FALSE, !.mask = {}, !.explicit = <<>>]
     /\ proc' = [proc EXCEPT ![p] = [pc |-> "send", list |-> BroadcastList(proc[p].v, m),
                                     to |-> Nothing, rest |-> proc[p].rest]]
     /\ UNCHANGED <<gen, last_id, clients, snapshot_gen, conn, changes, connects>>

\* broadcast_envelope: the subscribed sockets are listed under the lock of
\* ws_runtime ...
snapshot_subscribed_clients(p) ==
  /\ proc[p].pc = "send" /\ proc[p].list # <<>> /\ proc[p].to = Nothing
  /\ snapshot_gen' = IF Head(proc[p].list).type = "versions" THEN Head(proc[p].list).g ELSE snapshot_gen
  /\ proc' = [proc EXCEPT ![p].to = {f \in Fds : clients[f] = "subscribed"}]
  /\ UNCHANGED <<gen, last_id, st, since, lock, clients, conn, changes, connects>>

\* ... and written one after the other; a failed write removes the client.
send_envelope(p) ==
  /\ proc[p].pc = "send" /\ proc[p].to \notin {Nothing, {}}
  /\ LET f == CHOOSE g \in proc[p].to : TRUE
         m == Head(proc[p].list)
     IN /\ IF conn[f].open
           THEN /\ conn' = IF m.type = "versions"
                           THEN [conn EXCEPT ![f].seen = m.g, ![f].known = m.v]
                           ELSE conn
                /\ UNCHANGED clients
           ELSE clients' = [clients EXCEPT ![f] = "unknown"] /\ UNCHANGED conn
        /\ proc' = [proc EXCEPT ![p].to = @ \ {f}]
  /\ UNCHANGED <<gen, last_id, st, since, lock, snapshot_gen, changes, connects>>

next_envelope(p) ==
  /\ proc[p].pc = "send" /\ proc[p].to = {}
  /\ IF Len(proc[p].list) = 1
     THEN proc' = [proc EXCEPT ![p] = After(p)] /\ lock' = Nothing
     ELSE proc' = [proc EXCEPT ![p].list = Tail(@), ![p].to = Nothing] /\ UNCHANGED lock
  /\ UNCHANGED <<gen, last_id, st, since, clients, snapshot_gen, conn, changes, connects>>

\* The GET of a new connection claims an entry, or inherits the entry an
\* unnoticed close left behind under the same socket number.
ws_connect(f) ==
  /\ ~conn[f].open /\ connects < MAX_CONNECTS
  /\ connects' = connects + 1
  /\ \/ clients[f] # "unknown" /\ UNCHANGED clients
     \/ /\ clients[f] = "unknown"
        /\ Cardinality({g \in Fds : clients[g] # "unknown"}) < MAX_CLIENTS
        /\ clients' = [clients EXCEPT ![f] = "idle"]
  /\ conn' = [conn EXCEPT ![f] = [NoConn EXCEPT !.open = TRUE]]
  /\ UNCHANGED <<gen, last_id, st, since, lock, proc, snapshot_gen, changes>>

\* subscribe: the entry is marked and two replies are sent. The client then
\* reads the current generations over HTTP.
ws_subscribe(f) ==
  /\ conn[f].open /\ ~conn[f].sub
  /\ clients[f] # "unknown"
  /\ clients' = [clients EXCEPT ![f] = "subscribed"]
  /\ conn' = [conn EXCEPT ![f].sub = TRUE, ![f].known = gen]
  /\ UNCHANGED <<gen, last_id, st, since, lock, proc, snapshot_gen, changes, connects>>

ws_unsubscribe(f) ==
  /\ conn[f].open /\ conn[f].sub /\ clients[f] # "unknown"
  /\ clients' = [clients EXCEPT ![f] = "idle"]
  /\ conn' = [conn EXCEPT ![f].sub = FALSE]
  /\ UNCHANGED <<gen, last_id, st, since, lock, proc, snapshot_gen, changes, connects>>

\* A close frame or a receive error removes the client; a lost connection is
\* not noticed until a write fails.
ws_close(f) ==
  /\ conn[f].open
  /\ conn' = [conn EXCEPT ![f] = NoConn]
  /\ clients' \in {clients, [clients EXCEPT ![f] = "unknown"]}
  /\ UNCHANGED <<gen, last_id, st, since, lock, proc, snapshot_gen, changes, connects>>

\* A tick. No notifier waits longer than MAX_LAG for the lock.
notify_tick ==
  /\ \A p \in Procs : proc[p].pc = "lock" => proc[p].lag < MAX_LAG
  /\ since' = IF since = Nothing THEN Nothing ELSE IF since < INTERVAL + MAX_LAG THEN since + 1 ELSE since
  /\ proc' = [p \in Procs |-> IF proc[p].pc = "lock" THEN [proc[p] EXCEPT !.lag = @ + 1] ELSE proc[p]]
  /\ <<since', proc'>> # <<since, proc>>
  /\ UNCHANGED <<gen, last_id, st, lock, clients, snapshot_gen, conn, changes, connects>>

NotifierStep(p) ==
  \/ notify_deferred(p) \/ notify_broadcasts(p)
  \/ snapshot_subscribed_clients(p) \/ send_envelope(p) \/ next_envelope(p)

NotifyNext ==
  \/ runtime_change
  \/ \E w \in Writers, s \in {"room.catalog", "full.snapshot"} : writer_notifies(w, s)
  \/ \E w \in Writers : writer_reads(w)
  \/ watcher_looks \/ watcher_goes_on
  \/ \E p \in Procs : NotifierStep(p)
  \/ \E f \in Fds : ws_connect(f) \/ ws_subscribe(f) \/ ws_unsubscribe(f) \/ ws_close(f)
  \/ notify_tick

NotifyFairness ==
  /\ WF_notify_vars(watcher_looks) /\ WF_notify_vars(watcher_goes_on) /\ WF_notify_vars(notify_tick)
  /\ \A w \in Writers : WF_notify_vars(writer_reads(w))
  /\ \A p \in Procs : WF_notify_vars(NotifierStep(p))

NotifySpec == NotifyInit /\ [][NotifyNext]_notify_vars /\ NotifyFairness

\* "Fixed non-monotonic gm.versions.changed.payload.generation values by
\* introducing a separate increasing notification counter": whatever order the
\* notifiers come in, the generation one connection hears only grows.
GenerationsIncrease ==
  [][\A f \in Fds : conn[f].open /\ conn'[f].open /\ conn[f].seen # 0 =>
       conn'[f].seen >= conn[f].seen]_notify_vars

\* Notifiers with old values, held back broadcasts and lost entries: once the
\* changes end, every client that stays subscribed hears of the current
\* generations of the runtime.
ClientsLearn ==
  \A f \in Fds :
    <>[](conn[f].open /\ conn[f].sub /\ clients[f] = "subscribed") =>
      <>[](conn[f].known.session = gen.session /\ conn[f].known.ingest = gen.ingest)
=============================================================================
