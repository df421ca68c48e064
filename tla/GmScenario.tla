----------------------------- MODULE GmScenario -----------------------------
(***************************************************************************)
(* The scenario runtime of one room (gm_core/session), the command plans   *)
(* it hands to scenehub_control, and the pending table of command_executor.*)
(*                                                                         *)
(* Three threads of control work on it.  "rt" is gm_room_session_runtime_  *)
(* task, fed by the runtime queue.  "http" is the web server's task, which *)
(* runs the operator's calls one at a time.  Both decide on a command      *)
(* under the session mutex and carry it out after unlocking, by a blocking *)
(* request to the third, the dispatch owner (sh_ctrl_disp).  A lock        *)
(* section is one action.  What sessions_unlock and the caller do right    *)
(* after it (deferred cancels, flag events, the wake) is the action        *)
(* Unlocked of the same thread.                                            *)
(*                                                                         *)
(* Deadlines are kept as the time left, in ticks: Tick counts them all     *)
(* down and scenario_time_reached(now, d) is d = 0.                        *)
(***************************************************************************)
EXTENDS Integers, Sequences, SequencesExt, FiniteSets, FiniteSetsExt

CONSTANTS Script,          \* Script[b]: the steps of branch b, in order
          Active,          \* the enabled branches
          Required,        \* those with required_for_completion
          Flags,           \* flag names
          DeviceEvents,    \* device events that may happen
          Statuses,        \* statuses devices report
          Ops,             \* operator calls that may happen
          CMD_TIMEOUT,     \* timeout_ms of a command
          BUDGET,          \* GM_SCENARIO_MAX_STEPS_PER_TICK
          RUNTIME_QUEUE_LEN, \* GM_ROOM_SESSION_RUNTIME_QUEUE_LEN
          MAX_PENDING,     \* COMMAND_EXECUTOR_MAX_PENDING
          MAX_REQUESTS,    \* bound: request ids the model hands out
          MAX_STARTS,      \* bound: scenario starts
          MAX_IN_FLIGHT    \* bound: devices send while fewer events are on the bus

Branches == 1 .. Len(Script)
Requests == 1 .. MAX_REQUESTS
Threads == {"rt", "http"}
None == -1            \* no deadline, no request
NoPlan == [b |-> 0, step |-> 0, cmd |-> 0, run |-> 0]
NoCaller == [th |-> "none", req |-> None]
Terminal == {"done", "failed", "timeout"}

StepKind == {"CMD", "CMD_RESULT", "GROUP", "TIME", "EVENT", "ANY", "ALL",
             "FLAGS", "SET", "MESSAGE", "APPROVE", "END"}

EventStep(s) == s.kind \in {"EVENT", "ANY", "ALL"}

\* A step of a scenario that passed validation.
ValidStep(s) ==
    /\ s.on \in BOOLEAN /\ s.kind \in StepKind
    /\ s.kind \in {"TIME", "EVENT", "ANY", "ALL", "FLAGS"} => s.timeout \in Int
    /\ EventStep(s) => s.events \subseteq DeviceEvents

ASSUME ScenarioAssumption ==
    /\ Len(Script) \in Nat
    /\ \A b \in Branches : /\ Len(Script[b]) \in Nat
                           /\ \A i \in 1 .. Len(Script[b]) : ValidStep(Script[b][i])
    /\ Required \subseteq Active /\ Active \subseteq Branches
    /\ {CMD_TIMEOUT, BUDGET, RUNTIME_QUEUE_LEN, MAX_PENDING, MAX_REQUESTS,
        MAX_STARTS, MAX_IN_FLIGHT} \subseteq Nat \ {0}

VARIABLES
    valid,      \* running_scenario_valid
    br,         \* branch_runtimes
    flags,      \* scenario_flags: the flags set so far, with their values
    summary,    \* the session's own scenario_state, shown to the operator
    starts,     \* how many scenarios were started
    plan,       \* the command plan each thread carries
    disp,       \* where each thread is in the dispatch of its plan
    req,        \* the request id the dispatch owner answered each thread with
    after,      \* what each thread still does for its last unlock
    owner,      \* the caller and request the dispatch owner is working on
    next_req,   \* the next request id
    pending,    \* command_executor's table: time left per tracked request
    published,  \* requests that reached their device
    in_flight,  \* events between their source and the runtime queue
    rtq,        \* s_runtime_queue
    phase,      \* where the runtime task is in its loop
    cur,        \* the cause it is working on
    expired,    \* timeouts it has polled and not yet handled
    armed       \* time left on s_runtime_deadline_timer

session == <<valid, br, flags, summary, starts>>
dispatch == <<plan, disp, req, owner, next_req>>
executor == <<pending, published>>
runtime == <<phase, cur, expired, armed>>
scenario_vars == <<session, dispatch, after, executor, in_flight, rtq, runtime>>

Wake == [kind |-> "wake"]
Flag == [kind |-> "flag"]
Event(e) == [kind |-> "event", id |-> e]
Result(r, st) == [kind |-> "result", id |-> r, status |-> st]
Messages == {Flag} \cup {Event(e) : e \in DeviceEvents}
            \cup {Result(r, st) : r \in Requests, st \in Statuses \cup {"timeout"}}

Waits == {"NONE", "TIME", "EVENT", "ANY", "ALL", "FLAGS", "OPERATOR",
          "DISPATCH", "RESULT"}
\* "DISPATCH" is a DEVICE_COMMAND_RESULT wait with the id
\* __dispatch_pending__, "RESULT" one with a request id.
Moved(k, state) ==
    [state |-> state, step |-> k, wait |-> "NONE", left |-> None, req |-> None,
     events |-> {}, matched |-> {}]

Waiting(k, wait, left) ==
    [state |-> "WAITING", step |-> k, wait |-> wait, left |-> left, req |-> None,
     events |-> {}, matched |-> {}]

NoBranch == Moved(1, "NONE")

NoEffects == [cancel |-> {}, flag |-> FALSE, wake |-> FALSE]

-----------------------------------------------------------------------------
(* A lock section works on a record of what it may change: br, flags, plan, *)
(* the session's scratch state, and the deferred side effects.              *)

World == [br |-> br, flags |-> flags, plan |-> NoPlan, scratch |-> summary,
          cancel |-> {}, flag |-> FALSE, err |-> FALSE]

\* The request that clear_wait defers the cancelling of.
Cancelled(c) == IF c.wait = "RESULT" THEN {c.req} ELSE {}

\* Branch b becomes c, whose state stays behind in the session's own fields.
Become(w, b, c) == [w EXCEPT !.br[b] = c, !.scratch = c.state,
                             !.cancel = @ \cup Cancelled(w.br[b])]

FlagsMet(fl, want) == \A f \in DOMAIN want : f \in DOMAIN fl /\ fl[f] = want[f]

\* The flags after the steps i .. k-1 of branch b, run one after another.
FlagsAfter(fl, b, i, k) ==
    LET sets(f) == {j \in i .. k - 1 : /\ Script[b][j].on
                                       /\ Script[b][j].kind = "SET"
                                       /\ Script[b][j].flag = f}
    IN  [f \in DOMAIN fl \cup {g \in Flags : sets(g) # {}} |->
           IF sets(f) = {} THEN fl[f] ELSE Script[b][Max(sets(f))].value]

\* Step k of branch b is over as soon as it is reached.
Immediate(fl, b, k) ==
    LET s == Script[b][k]
    IN  \/ ~s.on
        \/ s.kind \in {"SET", "MESSAGE"}
        \/ s.kind = "FLAGS" /\ FlagsMet(fl, s.want)

\* prepare_wait_resolution_locked fails for a disabled event step, whose
\* events were never resolved: the pass over branch b ends before it begins.
Unresolved(b, i) ==
    i <= Len(Script[b]) /\ EventStep(Script[b][i]) /\ ~Script[b][i].on

\* The state of branch b when a pass that began at step i stops at step k.
\* Events are resolved for step i only: an event step further on fails.
Arrive(b, i, k) ==
    LET s == Script[b][k]
    IN  CASE s.kind \in {"CMD", "CMD_RESULT", "GROUP"} ->
               Waiting(k, "DISPATCH", None)
          [] s.kind = "TIME" -> Waiting(k, "TIME", s.timeout)
          [] EventStep(s) ->
               IF k = i THEN [Waiting(k, s.kind, s.timeout)
                                EXCEPT !.events = s.events]
                        ELSE Moved(k, "ERROR")
          [] s.kind = "FLAGS" -> Waiting(k, "FLAGS", s.timeout)
          [] s.kind = "APPROVE" -> Waiting(k, "OPERATOR", None)
          [] OTHER -> Moved(k + 1, "DONE")    \* END_SCENARIO

\* execute_branch_core_locked of the running branch b at step i: it runs
\* through immediate steps, at most BUDGET of them, up to the step it has to
\* wait at or the end.
Execute(w, b, i) ==
    LET end == Len(Script[b]) + 1
        k == Min({j \in i .. end :
                    \/ j = i + BUDGET
                    \/ j = end
                    \/ ~Immediate(FlagsAfter(w.flags, b, i, j), b, j)})
        c == IF k = i + BUDGET THEN Moved(k, "RUNNING")
             ELSE IF k = end THEN Moved(k, "DONE") ELSE Arrive(b, i, k)
        v == Become(w, b, c)
    IN  IF Unresolved(b, i) THEN [w EXCEPT !.err = TRUE]
        ELSE [v EXCEPT !.flags = FlagsAfter(@, b, i, k),
                       !.flag = @ \/ \E j \in i .. k - 1 :
                                       FlagsAfter(w.flags, b, i, j + 1)
                                         # FlagsAfter(w.flags, b, i, j),
                       !.err = @ \/ c.state = "ERROR",
                       !.plan = IF c.wait = "DISPATCH"
                                THEN [b |-> b, step |-> k, cmd |-> 1,
                                      run |-> starts]
                                ELSE NoPlan]

\* The branch leaves the step it waits at and runs on.
Advance(w, b) ==
    LET i == w.br[b].step + 1
    IN  Execute(Become(w, b, Moved(i, "RUNNING")), b, i)

PlannedNever(w) == FALSE

\* The loops over the branches end at the first one that plans a command.
Planned(w) == w.plan # NoPlan

\* op(w, b) for each branch in order, until one of them has a plan.
EachBranch(op(_, _), w0) ==
    LET upto[b \in 0 .. Len(Script)] ==
          IF b = 0 THEN w0
          ELSE LET w == upto[b - 1] IN IF Planned(w) THEN w ELSE op(w, b)
    IN  upto[Len(Script)]

\* The first branch with P, scenario_first_branch_by_state_locked.
First(S) == {b \in S : \A c \in S : b <= c}

-----------------------------------------------------------------------------
(* The summary *)

Live == {"RUNNING", "WAITING"}

\* gm_room_session_scenario_update_summary_from_branches_locked.  The loop
\* breaks off at a branch in ERROR: later branches are not looked at.
Summary(w) ==
    LET st(b) == w.br[b].state
        failed == {b \in Active : st(b) = "ERROR"}
        seen == {b \in Active : \A f \in failed : b < f}
        waiting == {b \in seen : st(b) \in Live}
        required == {b \in seen : b \in Required}
        fallback == IF Active \cap Required # {} THEN Min(Active \cap Required)
                    ELSE Min(Active)
        selected == IF failed # {} THEN Min(failed)
                    ELSE IF waiting # {} THEN Min(waiting) ELSE fallback
    IN  IF w.scratch = "ERROR" THEN "ERROR"
        ELSE IF \/ Active = {}
                \/ required # {} /\ \A b \in required : st(b) = "DONE"
                \/ waiting = {} /\ st(selected) = "DONE"
             THEN "DONE"
             ELSE st(selected)

-----------------------------------------------------------------------------
(* Threads *)

\* Thread th is between two lock sections and carries no plan.
Free(th) == disp[th] = "none" /\ after[th] = NoEffects

Carry(th, p) == /\ plan' = [plan EXCEPT ![th] = p]
                /\ disp' = [disp EXCEPT ![th] = IF p = NoPlan THEN "none" ELSE "next"]

\* The summary after gm_room_session_execute_branch_locked, which leaves it
\* alone when it ends early.
SummaryAfter(w, b) == IF Unresolved(b, w.br[b].step) THEN w.scratch ELSE Summary(w)

\* Thread th leaves a lock section with w as the new session and s as its
\* summary; wake tells whether it calls runtime_wake afterwards.
Leave(th, w, s, wake) ==
    /\ br' = w.br /\ flags' = w.flags /\ summary' = s
    /\ after' = [after EXCEPT ![th] = [cancel |-> w.cancel, flag |-> w.flag,
                                       wake |-> wake]]

QueuedUnbounded(q, m) == Append(q, m)

\* gm_room_session_runtime_wake: dropped when the queue is full.
Queued(q, m) == IF Len(q) < RUNTIME_QUEUE_LEN THEN Append(q, m) ELSE q

\* The rest of gm_room_session_sessions_unlock, after it released the mutex,
\* and the caller's wake.
Unlocked(th) ==
    /\ after[th] # NoEffects
    /\ pending' = [r \in Requests |-> IF r \in after[th].cancel THEN None
                                      ELSE pending[r]]
    /\ in_flight' = IF after[th].flag THEN in_flight \cup {Flag} ELSE in_flight
    /\ rtq' = IF after[th].wake THEN Queued(rtq, Wake) ELSE rtq
    /\ after' = [after EXCEPT ![th] = NoEffects]
    /\ UNCHANGED <<session, dispatch, published, runtime>>

-----------------------------------------------------------------------------
(* Operator calls *)

OnlySession == UNCHANGED <<req, owner, next_req, executor, in_flight, rtq, runtime>>

\* Every wait of every branch, as scenario_clear_branch_runtimes_locked
\* cancels them.
AllCancelled == UNION {Cancelled(br[b]) : b \in Branches}

\* What a start does to branch b.
Started(w, b) ==
    IF w.br[b].state = "RUNNING" THEN Execute(w, b, w.br[b].step) ELSE w

\* The session as a start finds it, cleared and with every branch at its
\* first step.
Fresh ==
    [World EXCEPT !.br = [b \in Branches |->
                            Moved(1, IF b \in Active THEN "RUNNING" ELSE "STOPPED")],
                  !.flags = [f \in {} |-> FALSE],
                  !.scratch = "RUNNING", !.cancel = AllCancelled]

\* gm_room_session_scenario_start_prepared_plan and the start of
\* scenehub_control_scenario_start's dispatch: a start that failed for one
\* branch drops the plan of another.
scenario_start ==
    LET w1 == EachBranch(Started, Fresh)
        w == [w1 EXCEPT !.plan = IF @ = NoPlan THEN @
                                 ELSE [@ EXCEPT !.run = starts + 1]]
    IN  /\ "start" \in Ops
        /\ Free("http")
        /\ starts < MAX_STARTS
        /\ starts' = starts + 1
        /\ valid' = TRUE
        /\ Leave("http", w, Summary(w), ~w.err)
        /\ Carry("http", IF w.err THEN NoPlan ELSE w.plan)
        /\ OnlySession

\* The call ends the running scenario and leaves the session in state s.
Cleared(s, wake) ==
    /\ Free("http")
    /\ valid' = FALSE
    /\ br' = [b \in Branches |-> NoBranch]
    /\ summary' = s
    /\ after' = [after EXCEPT !["http"] = [cancel |-> AllCancelled,
                                           flag |-> FALSE, wake |-> wake]]
    /\ UNCHANGED <<starts, plan, disp>>
    /\ OnlySession

\* scenario_start_prepared_plan_locked of a scenario that fails validation.
scenario_start_invalid ==
    "start" \in Ops /\ Cleared("ERROR", FALSE) /\ UNCHANGED flags

\* gm_room_session_scenario_stop
scenario_stop ==
    "stop" \in Ops /\ Cleared("STOPPED", TRUE) /\ flags' = [f \in {} |-> FALSE]

\* gm_room_session_scenario_reset
scenario_reset ==
    "reset" \in Ops /\ Cleared("IDLE", TRUE) /\ flags' = [f \in {} |-> FALSE]

\* The operator moves branch b on: past the step it waits at, if it waits.
MoveOn(b) ==
    LET c == br[b]
        w == IF c.state = "WAITING" THEN Advance(World, b)
                                    ELSE Execute(World, b, c.step)
    IN  /\ Free("http")
        /\ valid
        /\ Leave("http", w, SummaryAfter(w, b), ~w.err)
        /\ Carry("http", w.plan)
        /\ UNCHANGED <<valid, starts>>
        /\ OnlySession

InState(s) == {b \in Active : br[b].state = s}

\* gm_room_session_scenario_next_plan: the first waiting branch, else the
\* first running one, whatever it waits for.
scenario_next ==
    /\ "next" \in Ops
    /\ \E b \in First(IF InState("WAITING") # {} THEN InState("WAITING")
                                                 ELSE InState("RUNNING")) :
          MoveOn(b)

\* gm_room_session_scenario_next_branch_plan
scenario_next_branch ==
    /\ "next" \in Ops
    /\ \E b \in InState("WAITING") \cup InState("RUNNING") : MoveOn(b)

\* gm_room_session_scenario_approve_plan
scenario_approve ==
    /\ "approve" \in Ops
    /\ \E b \in First({c \in InState("WAITING") : br[c].wait = "OPERATOR"}) :
          MoveOn(b)

-----------------------------------------------------------------------------
(* Dispatch of a plan: scenehub_control_dispatch_session_command_plan *)

StepOf(p) == Script[p.b][p.step]

\* planned_command_session_matches_locked
Matches(p) == /\ valid
              /\ br[p.b].state = "WAITING"
              /\ br[p.b].wait = "DISPATCH"
              /\ br[p.b].step = p.step

\* It loads the branch into the session's own fields to look at it.
Peeked(p) == IF valid THEN br[p.b].state ELSE summary

\* gm_room_session_command_plan_next_command: a plan that no longer fits is
\* dropped without a word.
next_command(th) ==
    /\ disp[th] = "next" /\ after[th] = NoEffects
    /\ summary' = Peeked(plan[th])
    /\ IF Matches(plan[th])
       THEN disp' = [disp EXCEPT ![th] = "send"] /\ UNCHANGED plan
       ELSE Carry(th, NoPlan)
    /\ UNCHANGED <<valid, br, flags, starts, req, owner, next_req, after,
                   executor, in_flight, rtq, runtime>>

NeedsResult(th) == StepOf(plan[th]).kind = "CMD_RESULT"
Tracked == {r \in Requests : pending[r] # None}

\* The dispatch owner takes thread th's request, gives it an id and, if its
\* result is required, tracks it (command_executor_track_pending).  No room,
\* an offline device or an invalid command is an error.
dispatch_take(th) ==
    /\ disp[th] = "send"
    /\ owner = NoCaller
    /\ \/ /\ disp' = [disp EXCEPT ![th] = "fail"]
          /\ UNCHANGED <<owner, next_req, pending>>
       \/ /\ NeedsResult(th)
          /\ next_req \in Requests
          /\ Cardinality(Tracked) < MAX_PENDING
          /\ pending' = [pending EXCEPT ![next_req] = CMD_TIMEOUT]
          /\ owner' = [th |-> th, req |-> next_req]
          /\ next_req' = next_req + 1
          /\ disp' = [disp EXCEPT ![th] = "owner"]
       \/ /\ ~NeedsResult(th)
          /\ owner' = [th |-> th, req |-> None]
          /\ disp' = [disp EXCEPT ![th] = "owner"]
          /\ UNCHANGED <<next_req, pending>>
    /\ UNCHANGED <<session, plan, req, after, published, in_flight, rtq, runtime>>

dispatch_publish_keeps_pending ==
    /\ owner # NoCaller
    /\ \/ /\ published' = published \cup ({owner.req} \ {None})
          /\ req' = [req EXCEPT ![owner.th] = owner.req]
          /\ disp' = [disp EXCEPT ![owner.th] = "apply"]
       \/ /\ disp' = [disp EXCEPT ![owner.th] = "fail"]
          /\ UNCHANGED <<published, req>>
    /\ owner' = NoCaller
    /\ UNCHANGED <<session, plan, next_req, after, pending, in_flight, rtq, runtime>>

\* command_executor_execute_mqtt from the publish on: a failed publish takes
\* the tracked request back.
dispatch_publish ==
    /\ owner # NoCaller
    /\ \/ /\ published' = published \cup ({owner.req} \ {None})
          /\ req' = [req EXCEPT ![owner.th] = owner.req]
          /\ disp' = [disp EXCEPT ![owner.th] = "apply"]
          /\ UNCHANGED pending
       \/ /\ pending' = [r \in Requests |-> IF r = owner.req THEN None
                                            ELSE pending[r]]
          /\ disp' = [disp EXCEPT ![owner.th] = "fail"]
          /\ UNCHANGED <<published, req>>
    /\ owner' = NoCaller
    /\ UNCHANGED <<session, plan, next_req, after, in_flight, rtq, runtime>>

\* gm_room_session_command_plan_fail: puts the plan's branch in ERROR without
\* asking whether the plan still fits it.
plan_fail(th) ==
    LET p == plan[th]
    IN  /\ disp[th] = "fail"
        /\ Carry(th, NoPlan)
        /\ IF valid
           THEN Leave(th, Become(World, p.b, Moved(br[p.b].step, "ERROR")),
                      "ERROR", FALSE)
           ELSE UNCHANGED <<br, flags, summary, after>>
        /\ UNCHANGED <<valid, starts, req, owner, next_req, executor, in_flight, rtq,
                       runtime>>

\* gm_room_session_command_plan_apply_dispatch_result: nothing wakes the
\* runtime task afterwards.
apply_dispatch(th) ==
    LET p == plan[th]
        more == StepOf(p).kind = "GROUP" /\ p.cmd < StepOf(p).n
        waiting == [Waiting(p.step, "RESULT", CMD_TIMEOUT) EXCEPT !.req = req[th]]
        w == IF req[th] # None THEN Become(World, p.b, waiting)
                               ELSE Advance(World, p.b)
    IN  /\ disp[th] = "apply"
        /\ req' = [req EXCEPT ![th] = None]
        /\ IF ~Matches(p) \/ more
           THEN /\ Carry(th, IF Matches(p) THEN [p EXCEPT !.cmd = @ + 1]
                          ELSE NoPlan)
                /\ summary' = Peeked(p)
                /\ UNCHANGED <<br, flags, after>>
           ELSE Carry(th, w.plan) /\ Leave(th, w, SummaryAfter(w, p.b), FALSE)
        /\ UNCHANGED <<valid, starts, owner, next_req, executor, in_flight, rtq,
                       runtime>>

-----------------------------------------------------------------------------
(* The runtime task: gm_room_session_runtime_task *)

Task(from) == phase = from /\ Free("rt")

\* xQueueReceive
receive ==
    /\ Task("idle")
    /\ rtq # << >>
    /\ cur' = Head(rtq)
    /\ rtq' = Tail(rtq)
    /\ phase' = IF Head(rtq) = Wake THEN "poll" ELSE "hook"
    /\ UNCHANGED <<session, dispatch, after, executor, in_flight, expired, armed>>

\* command_executor_on_event: a terminal result ends the tracking, whether or
\* not a branch is waiting for it.
executor_on_event ==
    /\ Task("hook")
    /\ pending' = [r \in Requests |->
                     IF /\ cur.kind = "result" /\ cur.id = r
                        /\ cur.status \in Terminal
                     THEN None ELSE pending[r]]
    /\ phase' = "match"
    /\ UNCHANGED <<session, dispatch, after, published, in_flight, rtq, cur, expired,
                   armed>>

\* What the current event does to branch b.
Matched(w, b) ==
    LET c == w.br[b]
        hit == cur.kind = "event" /\ cur.id \in c.events
    IN  IF c.state # "WAITING" \/ c.wait \in {"TIME", "FLAGS", "OPERATOR"} THEN w
        ELSE IF hit /\ c.wait = "ALL" /\ c.matched \cup {cur.id} # c.events
        THEN [w EXCEPT !.br[b].matched = @ \cup {cur.id}, !.scratch = c.state]
        ELSE IF hit THEN Advance(w, b)
        ELSE [w EXCEPT !.scratch = c.state]

AnsweredByAccepted(w, b) ==
    IF cur.status \in {"accepted", "done"} THEN Advance(w, b)
    ELSE [Become(w, b, Moved(w.br[b].step, "ERROR")) EXCEPT !.err = TRUE]

\* What the current command result does to the branch b that waits for it.
Answered(w, b) ==
    CASE cur.status = "done" -> Advance(w, b)
      [] cur.status \in {"failed", "timeout"} ->
           [Become(w, b, Moved(w.br[b].step, "ERROR")) EXCEPT !.err = TRUE]
      [] OTHER -> [w EXCEPT !.scratch = w.br[b].state]

\* command_result_wait_branch_index
Waiters(r) == First({b \in Active : /\ br[b].state = "WAITING"
                                    /\ br[b].wait = "RESULT"
                                    /\ br[b].req = r})

\* gm_room_session_scenario_on_event_plan
on_event ==
    /\ Task("match") \/ Task("timeout")
    /\ phase' = IF phase = "match" THEN "poll" ELSE "expired"
    /\ IF valid /\ (cur.kind = "result" => Waiters(cur.id) # {})
       THEN \E w \in {IF cur.kind = "result"
                      THEN Answered(World, Min(Waiters(cur.id)))
                      ELSE EachBranch(Matched, World)} :
              Leave("rt", w, Summary(w), FALSE) /\ Carry("rt", w.plan)
       ELSE UNCHANGED <<br, flags, summary, after, plan, disp>>
    /\ UNCHANGED <<valid, starts, req, owner, next_req, executor, in_flight, rtq, cur,
                   expired, armed>>

\* command_executor_poll_timeouts
poll_timeouts ==
    /\ Task("poll")
    /\ expired' = {r \in Requests : pending[r] = 0}
    /\ pending' = [r \in Requests |-> IF pending[r] = 0 THEN None ELSE pending[r]]
    /\ phase' = "expired"
    /\ UNCHANGED <<session, dispatch, after, published, in_flight, rtq, cur, armed>>

\* The loop of handle_command_timeouts: the timeout goes on the bus for
\* everyone, and straight to on_event.
handle_timeout ==
    /\ Task("expired")
    /\ IF expired = {}
       THEN phase' = "work" /\ UNCHANGED <<in_flight, cur, expired>>
       ELSE LET r == Min(expired)
            IN  /\ expired' = expired \ {r}
                /\ in_flight' = in_flight \cup {Result(r, "timeout")}
                /\ cur' = Result(r, "timeout")
                /\ phase' = "timeout"
    /\ UNCHANGED <<session, dispatch, after, executor, rtq, armed>>

\* gm_room_session_runtime_process_branch_locked.  Only WAIT_DEVICE_EVENT and
\* WAIT_FLAGS steps have a timeout that moves the branch on.
Process(w, b) ==
    LET c == w.br[b]
        s == Script[b][c.step]
        ready == \/ c.left = 0 /\ c.wait = "TIME"
                 \/ c.left = 0 /\ c.wait \in {"EVENT", "ANY", "ALL"}
                                /\ s.kind = "EVENT"
                 \/ c.wait = "FLAGS" /\ (FlagsMet(w.flags, s.want) \/ c.left = 0)
    IN  IF b \notin Active THEN w
        ELSE IF c.state = "WAITING" /\ ready THEN Advance(w, b)
        ELSE IF c.state = "RUNNING" THEN Execute(w, b, c.step)
        ELSE [w EXCEPT !.scratch = c.state]

\* gm_room_session_runtime_process_pending_work_plan
process_work ==
    /\ Task("work")
    /\ phase' = "deadline"
    /\ IF valid
       THEN \E w \in {EachBranch(Process, World)} :
              Leave("rt", w, Summary(w), FALSE) /\ Carry("rt", w.plan)
       ELSE UNCHANGED <<br, flags, summary, after, plan, disp>>
    /\ UNCHANGED <<valid, starts, req, owner, next_req, executor, in_flight, rtq, cur,
                   expired, armed>>

DeadlinesOfRequests == {pending[r] : r \in Tracked}

\* Everything the runtime task has to be awake for.
Deadlines == {pending[r] : r \in Tracked}
             \cup {br[b].left : b \in {c \in Active : br[c].left # None}}

\* gm_room_session_runtime_update_deadline_timer
update_deadline ==
    /\ Task("deadline")
    /\ phase' = "idle"
    /\ cur' = Wake
    /\ armed' = IF Deadlines = {} THEN None ELSE Min(Deadlines)
    /\ UNCHANGED <<session, dispatch, after, executor, in_flight, rtq, expired>>

-----------------------------------------------------------------------------
(* The world around *)

\* esp_timer runs gm_room_session_runtime_deadline_timer_cb.
deadline_timer ==
    /\ armed = 0
    /\ armed' = None
    /\ rtq' = Queued(rtq, Wake)
    /\ UNCHANGED <<session, dispatch, after, executor, in_flight, phase, cur, expired>>

Less(d) == IF d > 0 THEN d - 1 ELSE d

\* A tick of the clock.
Tick ==
    /\ \/ armed > 0
       \/ \E r \in Requests : pending[r] > 0
       \/ \E b \in Branches : br[b].left > 0
    /\ armed' = Less(armed)
    /\ pending' = [r \in Requests |-> Less(pending[r])]
    /\ br' = [b \in Branches |-> [br[b] EXCEPT !.left = Less(@)]]
    /\ UNCHANGED <<valid, flags, summary, starts, dispatch, after, published,
                   in_flight, rtq, phase, cur, expired>>

\* A device that got a command reports on it: in any order, again and again,
\* late, or never.
device_result ==
    /\ Cardinality(in_flight) < MAX_IN_FLIGHT
    /\ \E r \in published, st \in Statuses : in_flight' = in_flight \cup {Result(r, st)}
    /\ UNCHANGED <<session, dispatch, after, executor, rtq, runtime>>

\* A device reports an event.
device_event ==
    /\ Cardinality(in_flight) < MAX_IN_FLIGHT
    /\ \E e \in DeviceEvents : in_flight' = in_flight \cup {Event(e)}
    /\ UNCHANGED <<session, dispatch, after, executor, rtq, runtime>>

\* gm_room_session_route_event: an event the runtime queue has no room for
\* is dropped.
route_event ==
    /\ \E m \in in_flight : in_flight' = in_flight \ {m} /\ rtq' = Queued(rtq, m)
    /\ UNCHANGED <<session, dispatch, after, executor, runtime>>

-----------------------------------------------------------------------------
(* The specification *)

ScenarioInit ==
    /\ valid = FALSE
    /\ br = [b \in Branches |-> NoBranch]
    /\ flags = [f \in {} |-> FALSE]
    /\ summary = "IDLE"
    /\ starts = 0
    /\ plan = [th \in Threads |-> NoPlan]
    /\ disp = [th \in Threads |-> "none"]
    /\ req = [th \in Threads |-> None]
    /\ after = [th \in Threads |-> NoEffects]
    /\ owner = NoCaller
    /\ next_req = 1
    /\ pending = [r \in Requests |-> None]
    /\ published = {}
    /\ in_flight = {}
    /\ rtq = << >>
    /\ phase = "idle"
    /\ cur = Wake
    /\ expired = {}
    /\ armed = None

StartOrReset == \/ scenario_start \/ scenario_start_invalid \/ scenario_reset

Interventions == \/ scenario_stop \/ scenario_next \/ scenario_next_branch
                 \/ scenario_approve

RuntimeTask == \/ receive \/ executor_on_event \/ on_event \/ poll_timeouts
               \/ handle_timeout \/ process_work \/ update_deadline

Dispatch(th) == \/ Unlocked(th) \/ next_command(th) \/ dispatch_take(th)
                \/ plan_fail(th) \/ apply_dispatch(th)

\* A game that is started and left alone: no intervention, no device event.
Unattended ==
    \/ StartOrReset
    \/ RuntimeTask
    \/ \E th \in Threads : Dispatch(th)
    \/ dispatch_publish
    \/ deadline_timer
    \/ Tick
    \/ device_result
    \/ route_event

ScenarioNext == Unattended \/ Interventions \/ device_event

ScenarioSpec == ScenarioInit /\ [][ScenarioNext]_scenario_vars

\* Tasks are scheduled and time passes; the devices owe nothing.
FairSpec == /\ ScenarioInit /\ [][Unattended]_scenario_vars
            /\ WF_scenario_vars(RuntimeTask)
            /\ \A th \in Threads : WF_scenario_vars(Dispatch(th))
            /\ WF_scenario_vars(dispatch_publish)
            /\ WF_scenario_vars(deadline_timer)
            /\ WF_scenario_vars(Tick)
            /\ WF_scenario_vars(route_event)

-----------------------------------------------------------------------------
(* Properties *)

Deadline == Int
Plan == [b : Branches, step : Nat, cmd : Nat, run : Nat]
Branch == [state : {"NONE", "STOPPED", "RUNNING", "WAITING", "DONE", "ERROR"},
           step : Nat, wait : Waits, left : Deadline,
           req : Requests \cup {None},
           events : SUBSET DeviceEvents, matched : SUBSET DeviceEvents]

\* Every variable keeps its type, and the runtime queue its length.
RuntimeBounds ==
    /\ valid \in BOOLEAN
    /\ \A b \in Branches : br[b] \in Branch
    /\ DOMAIN flags \subseteq Flags
    /\ summary \in {"IDLE", "RUNNING", "WAITING", "DONE", "ERROR", "STOPPED"}
    /\ \A th \in Threads : plan[th] = NoPlan \/ plan[th] \in Plan
    /\ \A th \in Threads :
          disp[th] \in {"none", "next", "send", "owner", "apply", "fail"}
    /\ Cardinality(Tracked) <= MAX_PENDING
    /\ in_flight \subseteq Messages
    /\ Len(rtq) <= RUNTIME_QUEUE_LEN
    /\ phase \in {"idle", "hook", "match", "poll", "expired", "timeout", "work",
                  "deadline"}

\* Branch c is one for which a start fails: it stopped at an event step that
\* has no resolved events.
StartFailed(c) ==
    /\ br[c].step <= Len(Script[c])
    /\ EventStep(Script[c][br[c].step])
    /\ br[c].state = "ERROR" \/ ~Script[c][br[c].step].on

\* The runtime keeps its bounds, and a branch that waits for its command to be
\* dispatched is not forgotten: some thread carries the plan for that very
\* step.  The one exception is a start that failed for another branch, whose
\* caller drops the plan.
DispatchWaitHasPlan ==
    /\ RuntimeBounds
    /\ \A b \in Branches :
         br[b].wait = "DISPATCH" =>
           \/ \E th \in Threads : /\ plan[th] # NoPlan
                                  /\ plan[th].b = b
                                  /\ plan[th].step = br[b].step
           \/ \E c \in Active \ {b} : StartFailed(c)

\* A branch that waits for the result of a request goes on only when that
\* request ends or when somebody gives it up: not on "accepted", not on the
\* answer to another request, not on a deadline of its own.
ResultWaitIsPatient ==
    [][\A b \in Branches :
         br[b].wait = "RESULT" /\ br'[b].req # br[b].req =>
           \/ /\ phase \in {"match", "timeout"} /\ phase' # phase
              /\ cur.kind = "result" /\ cur.id = br[b].req
              /\ cur.status \in Terminal
           \/ after'["http"] # after["http"]
           \/ \E th \in Threads : disp[th] = "fail"]_scenario_vars

\* Requests are tracked only while somebody may still answer for them: the
\* dispatch owner, the caller it answered, the devices that got them.
TrackedIsDispatched ==
    \A r \in Tracked : r \in published \/ (owner # NoCaller /\ owner.req = r)

\* docs/COMMAND_RESULT_SEMANTICS.md: "When result_required=true, a pending
\* state must eventually be followed by a terminal result".  So a branch that
\* waits for a request has it tracked, to be timed out at the latest, or the
\* result is already on its way to on_event.
WaitIsTracked ==
    \A b \in Branches :
      br[b].wait = "RESULT" =>
        \/ br[b].req \in Tracked \cup expired
        \/ cur.kind = "result" /\ cur.id = br[b].req
        \/ \E m \in in_flight \cup Range(rtq) : m.kind = "result" /\ m.id = br[b].req

\* docs/ARCHITECTURE.md: "WAIT_TIME resumes from the GM runtime deadline wake
\* path".  So when the runtime task rests and no call is under way, its timer
\* is set for every branch in WAIT_TIME, or is about to wake it.  The code does
\* not keep this: see CommandThenTime in MCGmScenario.
TimeWaitIsArmed ==
    (/\ phase = "idle" /\ rtq = << >> /\ Free("rt") /\ Free("http"))
      => \A b \in Branches :
            br[b].wait = "TIME" => armed # None /\ armed <= br[b].left

\* docs/ARCHITECTURE.md: "If the session is reset/stopped or the branch/action
\* state changes before the planned dispatch is applied, the stale plan is
\* dropped as a no-op".
StalePlanIsNoop ==
    [][\A th \in Threads :
         /\ disp[th] \in {"apply", "fail"} /\ disp'[th] # disp[th]
         /\ ~(plan[th].run = starts /\ Matches(plan[th]))
         => br' = br]_scenario_vars

\* docs/ARCHITECTURE.md: "normal branches describe the quest flow and may be
\* required for completion".  So a running scenario is reported DONE only when
\* every branch it requires is.
DoneMeansRequiredDone ==
    valid /\ summary = "DONE" => \A b \in Required : br[b].state = "DONE"

\* docs/ROOM_SCENARIO_SETUP_RUS.md says of SHOW_OPERATOR_MESSAGE "show the
\* operator a message and continue" (in Russian), and of WAIT_DEVICE_EVENT
\* that it waits for an event.  So a branch fails only at a command.
OnlyCommandsFail ==
    \A b \in Branches :
      br[b].state = "ERROR" =>
        Script[b][br[b].step].kind \in {"CMD", "CMD_RESULT", "GROUP"}

\* In a game left alone every branch comes to an end: a lost answer
\* times out, a deadline wakes the task, a flag set in one branch is seen in
\* the other.
BranchesEnd ==
    \A b \in Branches :
      br[b].state \in Live ~> br[b].state \in {"DONE", "ERROR", "NONE"}

=============================================================================
