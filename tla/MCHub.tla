-------------------------------- MODULE MCHub --------------------------------
(***************************************************************************)
(* Three parts of the hub that share no state: the scenario store with its  *)
(* validation, the MQTT broker, and device results with their dispatcher.   *)
(* One run checks them all: part, fixed at the start, says which of them    *)
(* moves.                                                                   *)
(***************************************************************************)
EXTENDS MCScenarioStore, MqttBroker, DeviceDispatch

CONSTANTS t1, t2, c1, c2

VARIABLE part

-----------------------------------------------------------------------------
(* Two slots for a device that comes back and a second, static, client. *)

DeviceTopic == <<"cp", "v1", "dev", "a", "evt">>
RootTopic == <<"cp", "v1", "dev", "a">>
MCFilters == {<<"cp", "v1", "dev", "a", "#">>, <<"cp", "v1", "dev", "+", "evt">>}
Connect(id, will) == [client_id |-> id, auth |-> TRUE, will |-> will]
MCConns == {"c1", "c2", "c3"}
MCConnectOf ==
    [c1 |-> Connect("a", [topic |-> DeviceTopic, qos |-> 0, retain |-> FALSE]),
     c2 |-> Connect("a", Nil), c3 |-> Connect("b", Nil)]
MCStatic == [hub |-> [pub |-> <<>>, sub |-> <<"cp">>]]
MCTopics == {DeviceTopic}
MCPublishes == {[topic |-> t, qos |-> 1, retain |-> TRUE, empty |-> FALSE] :
                   t \in {DeviceTopic, RootTopic}}
MCSubscribes == {[filter |-> f, qos |-> 2] : f \in MCFilters}

-----------------------------------------------------------------------------
(* Two callers ask one device, whose messages two client tasks handle. *)

WholeAnswer(st, size) == Answer(st, size, "whole", {})
MCAnswers ==
    { WholeAnswer("accepted", "none"), WholeAnswer("started", "none"), WholeAnswer("ok", "small"),
      WholeAnswer("done", "large"), WholeAnswer("done", "huge"), WholeAnswer("rejected", "none"),
      WholeAnswer("error", "none"), Answer("ok", "small", "broken", {"request_id", "command"}) }
MCDevices == {"d1"}
MCTasks == {t1, t2}
MCCallers == {c1, c2}
Report(kind, tail, f) == [kind |-> kind, tail |-> tail, f |-> f]
MCReports ==
    { Report("heartbeat", "whole", [boot_id |-> "b1"]),
      Report("status", "broken", [state |-> "idle", nfc_reader |-> "ready"]),
      Report("status", "whole", [health |-> "ok", active |-> TRUE]),
      Report("diag", "whole", [code |-> "c1"]),
      Report("event", "whole", [event |-> "e1"]),
      Report("event", "none", [event |-> "e1"]) }

Perms == Permutations(MCTasks) \cup Permutations(MCCallers)

-----------------------------------------------------------------------------
HubInit ==
    /\ part \in {"scenarios", "broker", "dispatch"}
    /\ Init /\ BrokerInit /\ DispatchInit
    /\ part # "scenarios" => devices = <<>> /\ io[1] = "output"

HubNext ==
    \/ part = "scenarios" /\ Next
       /\ UNCHANGED <<part, broker_vars, dispatch_vars>>
    \/ part = "broker" /\ BrokerNext
       /\ UNCHANGED <<part, vars, dispatch_vars>>
    \/ part = "dispatch" /\ DispatchNext
       /\ UNCHANGED <<part, vars, broker_vars>>

HubSpec == HubInit /\ [][HubNext]_<<part, vars, broker_vars, dispatch_vars>>
=============================================================================
