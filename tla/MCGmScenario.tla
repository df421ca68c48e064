---------------------------- MODULE MCGmScenario ----------------------------
(* Small scenarios for model checking GmScenario. *)
EXTENDS GmScenario

Step(kind) == [on |-> TRUE, kind |-> kind]
Time(d) == [on |-> TRUE, kind |-> "TIME", timeout |-> d]
WaitFor(kind, S, d) ==
    [on |-> TRUE, kind |-> kind, events |-> S, timeout |-> d]
Set(f, v) == [on |-> TRUE, kind |-> "SET", flag |-> f, value |-> v]
WaitFlag(f, v, d) ==
    [on |-> TRUE, kind |-> "FLAGS", want |-> [g \in {f} |-> v], timeout |-> d]
Disabled(s) == [s EXCEPT !.on = FALSE]

\* Every wait has an end, and the runtime task dispatches the command itself.
\* The event never comes: the run has no device events.
TimedScript == << <<Time(1), Step("CMD_RESULT"), Set("f", TRUE)>>,
                  <<WaitFor("EVENT", {"e1"}, 1), Disabled(Time(1)),
                    WaitFlag("f", TRUE, 1), Step("END")>> >>

OneCommand == << <<Step("CMD_RESULT")>> >>
\* for TimeWaitIsArmed, which the code does not keep
CommandThenTime == << <<Step("CMD"), Time(1)>> >>
ThreeBranches == << <<Step("MESSAGE")>>, <<Step("CMD_RESULT")>>,
                    <<Step("APPROVE")>> >>
MessageThenEvent == << <<Step("MESSAGE"), WaitFor("EVENT", {"e1"}, None)>> >>
TimeThenCommand == << <<Time(1), Step("CMD"), Step("APPROVE")>> >>

One == {1}
Two == {1, 2}
Three == {1, 2, 3}
=============================================================================
