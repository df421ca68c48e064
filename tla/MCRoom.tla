------------------------------- MODULE MCRoom -------------------------------
(***************************************************************************)
(* The room sessions, a running scenario and the event bus, which share no  *)
(* state in their modules.  One run checks them all: part, fixed at the     *)
(* start, says which of them moves.  The sessions are two parts of one      *)
(* instance: "timer", one room with every duration and a running clock, and *)
(* "slots", more rooms than slots, their games loaded or running, with the  *)
(* clock at rest.                                                           *)
(***************************************************************************)
EXTENDS MCGmRoomSession, EventBus, GmScenario, TLC

CONSTANTS e1, e2, e3

VARIABLE part

-----------------------------------------------------------------------------
(* A command with a result and a wait for two events, beside an operator    *)
(* approval and a group of two commands; a runtime queue of one place.      *)

\* two device events that no step tells apart; on the bus, two of normal priority
Alike == Permutations({e1, e2})

Step(kind) == [on |-> TRUE, kind |-> kind]
MixedScript ==
    << <<Step("CMD_RESULT"),
         [on |-> TRUE, kind |-> "ALL", events |-> {e1, e2}, timeout |-> -1]>>,
       <<Step("APPROVE"), [on |-> TRUE, kind |-> "GROUP", n |-> 2]>> >>

BothBranches == {1, 2}
MCDeviceEvents == {e1, e2}

-----------------------------------------------------------------------------
(* Two posters, three events (one of high priority) for a pool of two slots. *)

MCHigh == {e3}
NoEvent == {}

-----------------------------------------------------------------------------
FirstRoom == CHOOSE r \in Rooms : TRUE

RoomInit == /\ part \in {"timer", "slots", "scenario", "bus"}
            /\ Init /\ ScenarioInit /\ BusInit

RoomNext ==
    \/ /\ part = "timer" /\ Next
       /\ \A i \in Slots : sessions'[i] # FreeSlot =>
                               i = 1 /\ sessions'[i].room = FirstRoom
       /\ UNCHANGED <<part, scenario_vars, bus_vars>>
    \/ /\ part = "slots" /\ Next
       /\ now' = 0
       /\ \A i \in Slots : /\ sessions'[i].state \in {"IDLE", "RUNNING"}
                             /\ sessions'[i].timer.remaining \in {0, UINT32_MAX}
       /\ UNCHANGED <<part, scenario_vars, bus_vars>>
    \/ part = "scenario" /\ ScenarioNext /\ UNCHANGED <<part, vars, bus_vars>>
    \/ part = "bus" /\ BusNext /\ UNCHANGED <<part, vars, scenario_vars>>
    \* only the scenario, with its threads and queues, may not get stuck
    \/ part # "scenario" /\ UNCHANGED <<part, vars, scenario_vars, bus_vars>>

RoomSpec == RoomInit /\ [][RoomNext]_<<part, vars, scenario_vars, bus_vars>>
=============================================================================
