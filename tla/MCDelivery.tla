----------------------------- MODULE MCDelivery -----------------------------
(***************************************************************************)
(* What must happen in the end, under fair scheduling: the event bus serves *)
(* its handlers, the local rules of a node and its hub take turns, and the  *)
(* web clients learn of the last change.  The three share no state.  One    *)
(* run checks them all: part, fixed at the start, says which of them moves. *)
(***************************************************************************)
EXTENDS EventBus, NodeFallback, HubNotify

CONSTANTS e1, e3, e4

VARIABLES part, watched

all_vars == <<part, watched, bus_vars, fallback_vars, notify_vars>>

\* of the bus: an event of high priority that overtakes, and an invalid one
MCHigh == {e3}
MCInvalid == {e4}

-----------------------------------------------------------------------------
AnyWatch == CHOOSE w \in Events \X Handlers : TRUE

DeliveryInit == /\ part \in {"bus", "fallback", "notify"}
                /\ BusInit /\ FallbackInit /\ NotifyInit
                /\ watched \in Events \X Handlers
                /\ part # "bus" => watched = AnyWatch
                /\ part # "fallback" => status.policy = "auto"

BusMoves == part = "bus" /\ BusNext /\ UNCHANGED <<part, watched, fallback_vars, notify_vars>>
FallbackMoves ==
    part = "fallback" /\ FallbackNext /\ UNCHANGED <<part, watched, bus_vars, notify_vars>>
NotifyMoves ==
    part = "notify" /\ NotifyNext /\ UNCHANGED <<part, watched, bus_vars, fallback_vars>>

\* Each part's own fairness: nothing has to happen in a part that rests.
DeliveryFairness ==
    /\ WF_bus_vars(part = "bus" /\ BusTask)
    /\ WF_bus_vars(part = "bus" /\ JobTask)
    /\ WF_bus_vars(part = "bus" /\ bus_start)
    /\ \A p \in Posters :
         WF_bus_vars(part = "bus" /\ (post_fill(p) \/ post_send(p) \/ post_count(p)))
    /\ WF_fallback_vars(part = "fallback" /\ TaskStep)
    /\ WF_fallback_vars(part = "fallback" /\ engine_task)
    /\ WF_fallback_vars(part = "fallback" /\ tick)
    /\ WF_notify_vars(part = "notify" /\ watcher_looks)
    /\ WF_notify_vars(part = "notify" /\ watcher_goes_on)
    /\ WF_notify_vars(part = "notify" /\ notify_tick)
    /\ \A w \in Writers : WF_notify_vars(part = "notify" /\ writer_reads(w))
    /\ \A p \in Procs : WF_notify_vars(part = "notify" /\ NotifierStep(p))

DeliverySpec == /\ DeliveryInit
                /\ [][BusMoves \/ FallbackMoves \/ NotifyMoves]_all_vars
                /\ DeliveryFairness

-----------------------------------------------------------------------------
\* An accepted event reaches every handler that is registered while it is in
\* the queue: said of one event and one handler, any of them, that the
\* behaviour watches.
EveryHandlerServed ==
    WaitsFor(watched[1], watched[2]) ~> Handled(watched[1], watched[2])

\* Local rules take over when the hub stays away and give way when it is back.
RulesTakeTurns == part = "fallback" => TakeTurns
=============================================================================
