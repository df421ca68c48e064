------------------------- MODULE GmScenario_proofs -------------------------
(***************************************************************************)
(* The scenario runtime of a room, for every script, any number of requests *)
(* and starts, and queues of any length.                                    *)
(***************************************************************************)
EXTENDS GmScenario, SeqLemmas, FiniteSetTheorems, TLAPS

SummaryStates == {"IDLE", "RUNNING", "WAITING", "DONE", "ERROR", "STOPPED"}
DispStates == {"none", "next", "send", "owner", "apply", "fail"}
Phases == {"idle", "hook", "match", "poll", "expired", "timeout", "work",
           "deadline"}
Fields == {"br", "flags", "plan", "scratch", "cancel", "flag", "err"}

\* p is a plan for a step there is.
PlanOk(p) == p \in Plan /\ p.step \in 1 .. Len(Script[p.b])

\* c is a state that branch b can be in.
BranchOk(b, c) ==
    /\ c \in Branch
    /\ c.step \in 1 .. Len(Script[b]) + 1
    /\ c.state = "WAITING" => c.step <= Len(Script[b]) /\ Script[b][c.step].on
    /\ c.wait # "NONE" => c.state = "WAITING"
    /\ c.wait \in {"RESULT", "DISPATCH"} => c.events = {}

\* The branches are states they can be in, and all of them are set up.
BranchesOk(f) ==
    /\ DOMAIN f = Branches
    /\ \A b \in Branches : BranchOk(b, f[b]) /\ f[b].state # "NONE"

\* A record that a lock section works on.
WorldOk(w) ==
    /\ DOMAIN w = Fields
    /\ BranchesOk(w.br)
    /\ DOMAIN w.flags \subseteq Flags
    /\ w.plan = NoPlan \/ PlanOk(w.plan)
    /\ w.scratch \in SummaryStates

\* Branch c stands at an event step that has no resolved events.
Failed(f, c) ==
    /\ f[c].step <= Len(Script[c])
    /\ EventStep(Script[c][f[c].step])
    /\ f[c].state = "ERROR" \/ ~Script[c][f[c].step].on

\* p is the plan that branch b, in state c, waits for.
PlanFor(p, b, c) == p # NoPlan /\ p.b = b /\ p.step = c.step

-----------------------------------------------------------------------------
(* The inductive invariant *)

SessionOk ==
    /\ valid \in BOOLEAN
    /\ DOMAIN br = Branches
    /\ \A b \in Branches : BranchOk(b, br[b])
    /\ valid => \A b \in Branches : br[b].state # "NONE"
    /\ ~valid => \A b \in Branches : br[b].wait = "NONE"
    /\ DOMAIN flags \subseteq Flags
    /\ summary \in SummaryStates
    /\ starts \in Nat

ThreadsOk ==
    /\ DOMAIN plan = Threads /\ DOMAIN disp = Threads
    /\ DOMAIN req = Threads /\ DOMAIN after = Threads
    /\ \A th \in Threads :
          /\ disp[th] \in DispStates
          /\ disp[th] = "none" => plan[th] = NoPlan
          /\ disp[th] # "none" => PlanOk(plan[th])
          /\ req[th] \in Requests \cup {None}

OwnerOk ==
    \/ owner = NoCaller
    \/ /\ owner.th \in Threads /\ disp[owner.th] = "owner"
       /\ owner.req \in Requests \cup {None}

TablesOk ==
    /\ pending \in [Requests -> Int] /\ \A r \in Requests : pending[r] >= None
    /\ published \subseteq Requests /\ expired \subseteq Requests
    /\ in_flight \subseteq Messages
    /\ rtq \in Seq(Messages \cup {Wake}) /\ Len(rtq) <= RUNTIME_QUEUE_LEN
    /\ phase \in Phases

PendingOk == Cardinality(Tracked) <= MAX_PENDING

WaitsOk ==
    \A b \in Branches :
      br[b].wait = "DISPATCH" =>
        \/ \E th \in Threads : PlanFor(plan[th], b, br[b])
        \/ \E c \in Active \ {b} : Failed(br, c)

ScenarioInv == /\ SessionOk /\ ThreadsOk /\ OwnerOk /\ TablesOk /\ PendingOk
               /\ WaitsOk /\ TrackedIsDispatched

-----------------------------------------------------------------------------
(* The least number *)

\* Min of the community modules picks the least element.
LEMMA MinIn ==
  ASSUME NEW T \in SUBSET Nat, T # {}
  PROVE Min(T) \in T /\ \A y \in T : Min(T) <= y
  BY LeastNatural DEF Min

-----------------------------------------------------------------------------
(* The script and the states of a branch *)

\* The bounds are positive naturals.
LEMMA Bounds ==
  /\ CMD_TIMEOUT \in Nat \ {0} /\ BUDGET \in Nat \ {0} 
  /\ RUNTIME_QUEUE_LEN \in Nat \ {0} /\ MAX_PENDING \in Nat \ {0}
  /\ MAX_REQUESTS \in Nat \ {0}
  BY ScenarioAssumption

\* There are branches 1 to Len(Script), the active ones among them.
LEMMA BranchNumbers ==
  /\ Len(Script) \in Nat /\ Branches \subseteq Nat \ {0}
  /\ Active \subseteq Branches /\ Required \subseteq Active
  BY ScenarioAssumption DEF Branches

\* The steps of a branch are well formed.
LEMMA Steps ==
  ASSUME NEW b \in Branches
  PROVE /\ Len(Script[b]) \in Nat
        /\ \A i \in 1 .. Len(Script[b]) : ValidStep(Script[b][i])
  BY ScenarioAssumption

\* A branch may go on to any of its steps, or past the last.
LEMMA MovedOk ==
  ASSUME NEW b \in Branches, NEW k \in 1 .. Len(Script[b]) + 1,
         NEW s \in {"NONE", "STOPPED", "RUNNING", "DONE", "ERROR"}
  PROVE BranchOk(b, Moved(k, s)) /\ Moved(k, s).state = s
        /\ Moved(k, s).wait = "NONE" /\ Moved(k, s).step = k
  <1>1. k \in Nat
    BY Steps
  <1>2. None \in Int
    BY DEF None
  <1>3. Moved(k, s) \in Branch
    BY <1>1, <1>2 DEF Moved, Branch, Waits, Deadline
  <1> QED BY <1>3 DEF BranchOk, Moved

\* A branch may wait at an enabled step for anything that has a deadline.
LEMMA WaitingOk ==
  ASSUME NEW b \in Branches, NEW k \in 1 .. Len(Script[b]), Script[b][k].on,
         NEW t \in Waits, NEW d \in Int
  PROVE BranchOk(b, Waiting(k, t, d)) /\ Waiting(k, t, d).state = "WAITING"
        /\ Waiting(k, t, d).wait = t /\ Waiting(k, t, d).step = k
  <1>1. k \in Nat /\ k \in 1 .. Len(Script[b]) + 1 /\ k <= Len(Script[b])
    BY Steps
  <1>2. Waiting(k, t, d) \in Branch
    BY <1>1 DEF Waiting, Branch, Deadline
  <1> QED BY <1>1, <1>2 DEF BranchOk, Waiting

\* A branch that stops at step k waits there, has failed at an event step, or
\* has come to its end; it waits for a dispatch or not.
LEMMA ArriveOk ==
  ASSUME NEW b \in Branches, NEW i, NEW k \in 1 .. Len(Script[b]), NEW fl,
         ~Immediate(fl, b, k)
  PROVE LET c == Arrive(b, i, k)
        IN  /\ BranchOk(b, c) /\ c.state \in {"WAITING", "DONE", "ERROR"}
            /\ c.wait = "DISPATCH" => c.step = k
            /\ c.state = "ERROR" => /\ c.step = k /\ c.wait # "DISPATCH"
                                    /\ EventStep(Script[b][k])
  <1> DEFINE s == Script[b][k]
             c == Arrive(b, i, k)
  <1>1. s.on /\ ValidStep(s) /\ s.kind \notin {"SET", "MESSAGE"}
    BY Steps DEF Immediate, ValidStep
  <1>2. s.kind \in StepKind \ {"SET", "MESSAGE"}
    BY <1>1 DEF ValidStep
  <1>3. k \in 1 .. Len(Script[b]) + 1 /\ k + 1 \in 1 .. Len(Script[b]) + 1
    BY Steps
  <1>4. CASE s.kind \in {"CMD", "CMD_RESULT", "GROUP"}
    <2>1. c = Waiting(k, "DISPATCH", None)
      BY <1>4 DEF Arrive, EventStep
    <2>2. "DISPATCH" \in Waits /\ None \in Int
      BY DEF Waits, None
    <2> HIDE DEF c
    <2> QED BY <1>1, <2>1, <2>2, WaitingOk DEF c
  <1>5. CASE s.kind = "TIME"
    <2>1. c = Waiting(k, "TIME", s.timeout)
      BY <1>5 DEF Arrive, EventStep
    <2>2. "TIME" \in Waits /\ s.timeout \in Int
      BY <1>1, <1>5 DEF Waits, ValidStep
    <2> HIDE DEF c
    <2> QED BY <1>1, <2>1, <2>2, WaitingOk DEF c
  <1>6. CASE EventStep(s)
    <2>1. c = IF k = i THEN [Waiting(k, s.kind, s.timeout) EXCEPT !.events = s.events]
                       ELSE Moved(k, "ERROR")
      BY <1>6 DEF Arrive, EventStep
    <2>2. s.kind \in Waits \ {"DISPATCH", "RESULT"} /\ s.timeout \in Int
          /\ s.events \subseteq DeviceEvents
      BY <1>1, <1>6 DEF Waits, ValidStep, EventStep
    <2>3. CASE k = i
      <3> DEFINE v == Waiting(k, s.kind, s.timeout)
      <3>1. BranchOk(b, v) /\ v.state = "WAITING" /\ v.wait = s.kind /\ v.step = k
        BY <1>1, <2>2, WaitingOk
      <3>2. v \in Branch
        BY <3>1 DEF BranchOk
      <3> HIDE DEF v
      <3>3. c = [v EXCEPT !.events = s.events]
        BY <2>1, <2>3 DEF v
      <3> HIDE DEF c, s
      <3>4. c \in Branch /\ c.state = v.state /\ c.wait = v.wait /\ c.step = v.step
        BY <3>2, <3>3, <2>2 DEF Branch
      <3> QED BY <3>1, <3>4, <2>2 DEF BranchOk, c
    <2>4. CASE k # i
      <3>1. c = Moved(k, "ERROR")
        BY <2>1, <2>4
      <3> HIDE DEF c
      <3> QED BY <3>1, <1>3, <1>6, MovedOk DEF c
    <2> QED BY <2>3, <2>4
  <1>7. CASE s.kind = "FLAGS"
    <2>1. c = Waiting(k, "FLAGS", s.timeout)
      BY <1>7 DEF Arrive, EventStep
    <2>2. "FLAGS" \in Waits /\ s.timeout \in Int
      BY <1>1, <1>7 DEF Waits, ValidStep
    <2> HIDE DEF c
    <2> QED BY <1>1, <2>1, <2>2, WaitingOk DEF c
  <1>8. CASE s.kind = "APPROVE"
    <2>1. c = Waiting(k, "OPERATOR", None)
      BY <1>8 DEF Arrive, EventStep
    <2>2. "OPERATOR" \in Waits /\ None \in Int
      BY DEF Waits, None
    <2> HIDE DEF c
    <2> QED BY <1>1, <2>1, <2>2, WaitingOk DEF c
  <1>9. CASE s.kind = "END"
    <2>1. c = Moved(k + 1, "DONE")
      BY <1>9 DEF Arrive, EventStep
    <2> HIDE DEF c
    <2> QED BY <2>1, <1>3, MovedOk DEF c
  <1> QED
    BY <1>2, <1>4, <1>5, <1>6, <1>7, <1>8, <1>9 DEF StepKind, EventStep

-----------------------------------------------------------------------------
(* A pass over one branch *)

\* Become changes one branch and the scratch state, and defers a cancel.
LEMMA BecomeIs ==
  ASSUME NEW w, WorldOk(w), NEW b \in Branches, NEW c
  PROVE LET v == Become(w, b, c)
        IN  /\ DOMAIN v = Fields
            /\ v.br = [w.br EXCEPT ![b] = c]
            /\ v.flags = w.flags /\ v.plan = w.plan /\ v.err = w.err
            /\ v.scratch = c.state
            /\ v.cancel = w.cancel \cup Cancelled(w.br[b])
  <1>1. DOMAIN w = Fields
    BY DEF WorldOk
  <1> QED BY <1>1 DEF Become, Fields

\* One branch after the other: the new one may be any state of that branch.
LEMMA BranchesKept ==
  ASSUME NEW f, BranchesOk(f), NEW b \in Branches, NEW c,
         BranchOk(b, c), c.state # "NONE"
  PROVE LET g == [f EXCEPT ![b] = c]
        IN  /\ BranchesOk(g) /\ g[b] = c
            /\ \A a \in Branches \ {b} : g[a] = f[a]
  BY DEF BranchesOk

\* v is w after the work on branch b: no other branch has changed, a wait for
\* a result that ended is cancelled, a new wait for a dispatch has its plan, and
\* a branch that stands at an unresolved event step stays there.
Moves(w, v, b) ==
    /\ WorldOk(v)
    /\ \A c \in Branches \ {b} : v.br[c] = w.br[c]
    /\ w.cancel \subseteq v.cancel
    /\ v.br[b] = w.br[b] \/ Cancelled(w.br[b]) \subseteq v.cancel
    /\ v.br[b].wait = "DISPATCH" =>
          v.br[b] = w.br[b] \/ PlanFor(v.plan, b, v.br[b])
    /\ Failed(w.br, b) => Failed(v.br, b)

\* An error is one of branch b, which stands at an unresolved event step.
Stumbles(w, v, b) ==
    v.err => w.err \/ (Failed(v.br, b) /\ v.br[b].wait # "DISPATCH")

\* The flags a pass sets are flags.
LEMMA FlagsAfterOk ==
  ASSUME NEW fl, DOMAIN fl \subseteq Flags, NEW b, NEW i, NEW k
  PROVE DOMAIN FlagsAfter(fl, b, i, k) \subseteq Flags
  BY DEF FlagsAfter

\* Running branch b on from its step.
LEMMA ExecuteMoves ==
  ASSUME NEW w, WorldOk(w), NEW b \in Branches, starts \in Nat,
         w.br[b].state = "RUNNING"
  PROVE LET v == Execute(w, b, w.br[b].step)
        IN  Moves(w, v, b) /\ Stumbles(w, v, b)
  <1> DEFINE i == w.br[b].step
             end == Len(Script[b]) + 1
             K == {j \in i .. end :
                     \/ j = i + BUDGET
                     \/ j = end
                     \/ ~Immediate(FlagsAfter(w.flags, b, i, j), b, j)}
             k == Min(K)
             c == IF k = i + BUDGET THEN Moved(k, "RUNNING")
                  ELSE IF k = end THEN Moved(k, "DONE") ELSE Arrive(b, i, k)
             u == Become(w, b, c)
             p == IF c.wait = "DISPATCH"
                  THEN [b |-> b, step |-> k, cmd |-> 1, run |-> starts] ELSE NoPlan
             fl == FlagsAfter(w.flags, b, i, k)
             e == \E j \in i .. k - 1 :
                    FlagsAfter(w.flags, b, i, j + 1) # FlagsAfter(w.flags, b, i, j)
             v == Execute(w, b, i)
  <1>1. /\ DOMAIN w = Fields /\ BranchesOk(w.br) /\ BranchOk(b, w.br[b])
        /\ DOMAIN w.flags \subseteq Flags /\ w.scratch \in SummaryStates
        /\ w.plan = NoPlan \/ PlanOk(w.plan)
    BY DEF WorldOk, BranchesOk
  <1>2. i \in 1 .. end /\ i \in Nat /\ end \in Nat /\ Len(Script[b]) \in Nat
        /\ w.br[b].wait = "NONE"
    BY <1>1, Steps DEF BranchOk
  <1>3. BUDGET \in Nat \ {0}
    BY Bounds
  <1>4. CASE Unresolved(b, i)
    <2>1. v = [w EXCEPT !.err = TRUE]
      BY <1>4 DEF Execute
    <2> HIDE DEF v, i
    <2>2. DOMAIN v = Fields /\ v.br = w.br /\ v.flags = w.flags /\ v.plan = w.plan
          /\ v.scratch = w.scratch /\ v.cancel = w.cancel
      BY <1>1, <2>1 DEF Fields
    <2>3. WorldOk(v)
      BY <1>1, <2>2 DEF WorldOk
    <2>4. Failed(v.br, b)
      BY <1>4, <2>2 DEF Failed, Unresolved, i
    <2>5. Moves(w, v, b)
      BY <2>2, <2>3, <2>4 DEF Moves
    <2> QED BY <2>2, <2>4, <2>5, <1>2 DEF Stumbles, v, i
  <1>5. CASE ~Unresolved(b, i)
    <2>1. k \in K
      <3>1. end \in K /\ K \subseteq Nat
        BY <1>2
      <3> HIDE DEF K
      <3> QED BY <3>1, MinIn
    <2>2. k \in 1 .. end /\ k \in Nat /\ k >= i
      BY <2>1, <1>2
    <2>3. k \in 1 .. Len(Script[b]) \/ k = end
      BY <2>2, <1>2
    <2>4. k # i + BUDGET /\ k # end => ~Immediate(FlagsAfter(w.flags, b, i, k), b, k)
      BY <2>1
    <2> HIDE DEF k, K, i, end
    <2>5. /\ BranchOk(b, c) /\ c.state \in {"RUNNING", "WAITING", "DONE", "ERROR"}
          /\ c.wait = "DISPATCH" => c.step = k /\ k \in 1 .. Len(Script[b])
          /\ c.state = "ERROR" => /\ c.step = k /\ k \in 1 .. Len(Script[b])
                                  /\ EventStep(Script[b][k]) /\ c.wait # "DISPATCH"
      <3>1. CASE k = i + BUDGET
        <4>1. c = Moved(k, "RUNNING")
          BY <3>1
        <4> HIDE DEF c
        <4> QED BY <4>1, <2>2, MovedOk DEF end
      <3>2. CASE k # i + BUDGET /\ k = end
        <4>1. c = Moved(k, "DONE")
          BY <3>2
        <4> HIDE DEF c
        <4> QED BY <4>1, <2>2, MovedOk DEF end
      <3>3. CASE k # i + BUDGET /\ k # end
        <4>1. c = Arrive(b, i, k)
          BY <3>3
        <4>2. k \in 1 .. Len(Script[b])
          BY <3>3, <2>3
        <4> HIDE DEF c
        <4> QED BY <4>1, <4>2, <2>4, <3>3, ArriveOk
      <3> QED BY <3>1, <3>2, <3>3
    <2>6. v = [u EXCEPT !.flags = FlagsAfter(@, b, i, k),
                        !.flag = @ \/ e,
                        !.err = @ \/ c.state = "ERROR",
                        !.plan = p]
      BY <1>5 DEF Execute, i, end, k, K
    <2> HIDE DEF c, v, e
    <2>7. /\ DOMAIN u = Fields /\ u.br = [w.br EXCEPT ![b] = c]
          /\ u.flags = w.flags /\ u.err = w.err
          /\ u.scratch = c.state /\ u.cancel = w.cancel \cup Cancelled(w.br[b])
      BY BecomeIs
    <2> HIDE DEF u, p
    <2>8. /\ DOMAIN v = Fields /\ v.br = u.br /\ v.cancel = u.cancel
          /\ v.scratch = u.scratch /\ v.plan = p /\ v.flags = fl
      BY <2>6, <2>7 DEF Fields
    <2>9. v.err = (u.err \/ c.state = "ERROR")
      BY <2>6, <2>7 DEF Fields
    <2>10. BranchesOk(v.br) /\ v.br[b] = c /\ \A a \in Branches \ {b} : v.br[a] = w.br[a]
      BY <2>5, <2>7, <2>8, <1>1, BranchesKept
    <2>11. p = NoPlan \/ PlanOk(p)
      BY <2>5, <2>2 DEF p, PlanOk, Plan
    <2>12. DOMAIN fl \subseteq Flags
      BY <1>1, FlagsAfterOk
    <2> HIDE DEF fl
    <2>13. WorldOk(v)
      BY <2>5, <2>7, <2>8, <2>10, <2>11, <2>12 DEF WorldOk, SummaryStates
    <2>14. c.wait = "DISPATCH" => PlanFor(p, b, c)
      <3> SUFFICES ASSUME c.wait = "DISPATCH" PROVE PlanFor(p, b, c)
        OBVIOUS
      <3>1. p.b = b /\ p.step = c.step
        BY <2>5 DEF p
      <3>2. p # NoPlan
        BY <3>1, BranchNumbers DEF NoPlan
      <3> QED BY <3>1, <3>2 DEF PlanFor
    <2>15. ~Failed(w.br, b)
      BY <1>5 DEF Failed, Unresolved, i
    <2>16. c.state = "ERROR" => Failed(v.br, b) /\ v.br[b].wait # "DISPATCH"
      BY <2>5, <2>10, <1>2 DEF Failed
    <2>17. Moves(w, v, b)
      BY <2>7, <2>8, <2>10, <2>13, <2>14, <2>15 DEF Moves
    <2>18. Stumbles(w, v, b)
      BY <2>7, <2>9, <2>16 DEF Stumbles
    <2> QED BY <2>5, <2>10, <2>17, <2>18 DEF v, i
  <1> QED BY <1>4, <1>5

\* Moving branch b on past the step it waits at.
LEMMA AdvanceMoves ==
  ASSUME NEW w, WorldOk(w), NEW b \in Branches, starts \in Nat,
         w.br[b].state = "WAITING"
  PROVE LET v == Advance(w, b)
        IN  /\ Moves(w, v, b)
            /\ v.br[b].wait = "DISPATCH" => PlanFor(v.plan, b, v.br[b])
  <1> DEFINE i == w.br[b].step + 1
             m == Moved(i, "RUNNING")
             u == Become(w, b, m)
             v == Execute(u, b, i)
  <1>1. /\ BranchesOk(w.br) /\ BranchOk(b, w.br[b])
        /\ DOMAIN w.flags \subseteq Flags
        /\ w.plan = NoPlan \/ PlanOk(w.plan)
    BY DEF WorldOk, BranchesOk
  <1>2. i \in 1 .. Len(Script[b]) + 1
    BY <1>1, Steps DEF BranchOk
  <1>3. BranchOk(b, m) /\ m.state = "RUNNING" /\ m.wait = "NONE" /\ m.step = i
    <2> HIDE DEF i
    <2> QED BY <1>2, MovedOk
  <1> HIDE DEF m
  <1>4. /\ DOMAIN u = Fields
        /\ u.br = [w.br EXCEPT ![b] = m]
        /\ u.flags = w.flags /\ u.plan = w.plan /\ u.scratch = m.state
        /\ u.cancel = w.cancel \cup Cancelled(w.br[b])
    BY BecomeIs
  <1> HIDE DEF u
  <1>5. BranchesOk(u.br) /\ u.br[b] = m /\ \A a \in Branches \ {b} : u.br[a] = w.br[a]
    BY <1>1, <1>3, <1>4, BranchesKept
  <1>6. WorldOk(u)
    BY <1>1, <1>3, <1>4, <1>5 DEF WorldOk, SummaryStates
  <1>7. Moves(u, v, b)
    <2>1. i = u.br[b].step /\ u.br[b].state = "RUNNING"
      BY <1>3, <1>5
    <2> HIDE DEF i
    <2> QED BY <1>6, <2>1, ExecuteMoves
  <1>8. v = Advance(w, b)
    BY DEF Advance, u, m
  <1> HIDE DEF v, i
  <1>9. ~Failed(w.br, b)
    BY <1>1 DEF Failed, BranchOk
  <1>10. Moves(w, v, b)
    BY <1>3, <1>4, <1>5, <1>7, <1>9 DEF Moves
  <1>11. v.br[b].wait = "DISPATCH" => PlanFor(v.plan, b, v.br[b])
    BY <1>3, <1>5, <1>7 DEF Moves
  <1> QED BY <1>8, <1>10, <1>11

\* A branch that fails at the step it stands at.
LEMMA ErrorMoves ==
  ASSUME NEW w, WorldOk(w), NEW b \in Branches
  PROVE Moves(w, Become(w, b, Moved(w.br[b].step, "ERROR")), b)
  <1> DEFINE m == Moved(w.br[b].step, "ERROR")
             v == Become(w, b, m)
  <1>1. /\ BranchesOk(w.br) /\ BranchOk(b, w.br[b])
        /\ DOMAIN w.flags \subseteq Flags
        /\ w.plan = NoPlan \/ PlanOk(w.plan)
    BY DEF WorldOk, BranchesOk
  <1>2. w.br[b].step \in 1 .. Len(Script[b]) + 1
    BY <1>1 DEF BranchOk
  <1>3. /\ BranchOk(b, m) /\ m.state = "ERROR" /\ m.wait = "NONE"
        /\ m.step = w.br[b].step
    BY <1>2, MovedOk
  <1> HIDE DEF m
  <1>4. /\ DOMAIN v = Fields
        /\ v.br = [w.br EXCEPT ![b] = m]
        /\ v.flags = w.flags /\ v.plan = w.plan /\ v.scratch = m.state
        /\ v.cancel = w.cancel \cup Cancelled(w.br[b])
    BY BecomeIs
  <1> HIDE DEF v
  <1>5. BranchesOk(v.br) /\ v.br[b] = m /\ \A a \in Branches \ {b} : v.br[a] = w.br[a]
    BY <1>1, <1>3, <1>4, BranchesKept
  <1>6. WorldOk(v)
    BY <1>1, <1>3, <1>4, <1>5 DEF WorldOk, SummaryStates
  <1>7. Failed(w.br, b) => Failed(v.br, b)
    BY <1>3, <1>5 DEF Failed
  <1>8. Moves(w, v, b)
    BY <1>3, <1>4, <1>5, <1>6, <1>7 DEF Moves
  <1> QED BY <1>8 DEF v, m

\* Looking at a branch only leaves its state behind.
LEMMA LookedMoves ==
  ASSUME NEW w, WorldOk(w), NEW b \in Branches
  PROVE /\ Moves(w, w, b)
        /\ Moves(w, [w EXCEPT !.scratch = w.br[b].state], b)
        /\ [w EXCEPT !.scratch = w.br[b].state].br = w.br
  <1> DEFINE v == [w EXCEPT !.scratch = w.br[b].state]
  <1>1. /\ DOMAIN w = Fields /\ BranchesOk(w.br) /\ BranchOk(b, w.br[b])
        /\ w.br[b].state # "NONE"
        /\ DOMAIN w.flags \subseteq Flags
        /\ w.plan = NoPlan \/ PlanOk(w.plan)
    BY DEF WorldOk, BranchesOk
  <1>2. w.br[b].state \in SummaryStates
    BY <1>1 DEF BranchOk, Branch, SummaryStates
  <1>3. /\ DOMAIN v = Fields /\ v.br = w.br /\ v.flags = w.flags
        /\ v.plan = w.plan /\ v.scratch = w.br[b].state /\ v.cancel = w.cancel
    BY <1>1 DEF Fields
  <1> HIDE DEF v
  <1>4. WorldOk(v)
    BY <1>1, <1>2, <1>3 DEF WorldOk
  <1>5. Moves(w, v, b)
    BY <1>3, <1>4 DEF Moves
  <1>6. Moves(w, w, b)
    BY DEF Moves
  <1> QED BY <1>3, <1>5, <1>6 DEF v

\* The current event and branch b; a wait for a result is left alone.
LEMMA MatchedMoves ==
  ASSUME NEW w, WorldOk(w), NEW b \in Branches, starts \in Nat
  PROVE LET v == Matched(w, b)
        IN  Moves(w, v, b) /\ (w.br[b].wait = "RESULT" => v.br[b] = w.br[b])
  <1> DEFINE c == w.br[b]
             v == Matched(w, b)
             hit == cur.kind = "event" /\ cur.id \in c.events
  <1>1. /\ DOMAIN w = Fields /\ BranchesOk(w.br) /\ BranchOk(b, c)
        /\ c.state # "NONE" /\ DOMAIN w.flags \subseteq Flags
        /\ w.plan = NoPlan \/ PlanOk(w.plan)
    BY DEF WorldOk, BranchesOk
  <1>2. c.wait = "RESULT" => ~hit
    BY <1>1 DEF BranchOk
  <1>3. CASE c.state # "WAITING" \/ c.wait \in {"TIME", "FLAGS", "OPERATOR"}
    <2>1. v = w
      BY <1>3 DEF Matched
    <2> QED BY <2>1, LookedMoves
  <1>4. CASE /\ c.state = "WAITING" /\ c.wait \notin {"TIME", "FLAGS", "OPERATOR"}
             /\ hit /\ c.wait = "ALL" /\ c.matched \cup {cur.id} # c.events
    <2> DEFINE d == [c EXCEPT !.matched = @ \cup {cur.id}]
    <2>1. v = [w EXCEPT !.br[b].matched = @ \cup {cur.id}, !.scratch = c.state]
      BY <1>4 DEF Matched
    <2>2. /\ DOMAIN v = Fields /\ v.br = [w.br EXCEPT ![b] = d]
          /\ v.flags = w.flags /\ v.plan = w.plan /\ v.scratch = c.state
          /\ v.cancel = w.cancel
      BY <2>1, <1>1 DEF Fields
    <2>3. BranchOk(b, d) /\ d.state = c.state /\ d.step = c.step /\ d.wait = c.wait
      <3>1. c \in Branch /\ cur.id \in DeviceEvents
        BY <1>1, <1>4 DEF BranchOk, Branch
      <3> HIDE DEF c
      <3>2. /\ d \in Branch /\ d.state = c.state /\ d.step = c.step
            /\ d.wait = c.wait /\ d.events = c.events
        BY <3>1 DEF Branch
      <3> HIDE DEF d
      <3> QED BY <1>1, <3>2 DEF BranchOk
    <2> HIDE DEF d, v
    <2>4. BranchesOk(v.br) /\ v.br[b] = d /\ \A a \in Branches \ {b} : v.br[a] = w.br[a]
      BY <1>1, <2>2, <2>3, BranchesKept
    <2>5. WorldOk(v)
      BY <1>1, <1>4, <2>2, <2>4 DEF WorldOk, SummaryStates
    <2>6. Failed(w.br, b) => Failed(v.br, b)
      BY <2>3, <2>4 DEF Failed
    <2>7. Moves(w, v, b)
      BY <1>4, <2>2, <2>3, <2>4, <2>5, <2>6 DEF Moves, Cancelled
    <2> QED BY <1>4, <2>7 DEF v
  <1>5. CASE /\ c.state = "WAITING" /\ c.wait \notin {"TIME", "FLAGS", "OPERATOR"}
             /\ hit /\ ~(c.wait = "ALL" /\ c.matched \cup {cur.id} # c.events)
    <2>1. v = Advance(w, b)
      BY <1>5 DEF Matched
    <2> QED BY <1>2, <1>5, <2>1, AdvanceMoves
  <1>6. CASE /\ c.state = "WAITING" /\ c.wait \notin {"TIME", "FLAGS", "OPERATOR"}
             /\ ~hit
    <2>1. v = [w EXCEPT !.scratch = w.br[b].state]
      BY <1>6 DEF Matched
    <2> QED BY <2>1, LookedMoves
  <1> QED BY <1>3, <1>4, <1>5, <1>6

\* The periodic work on branch b; a wait for a result is left alone.
LEMMA ProcessMoves ==
  ASSUME NEW w, WorldOk(w), NEW b \in Branches, starts \in Nat
  PROVE LET v == Process(w, b)
        IN  Moves(w, v, b) /\ (w.br[b].wait = "RESULT" => v.br[b] = w.br[b])
  <1> DEFINE c == w.br[b]
             s == Script[b][c.step]
             ready == \/ c.left = 0 /\ c.wait = "TIME"
                      \/ c.left = 0 /\ c.wait \in {"EVENT", "ANY", "ALL"}
                                     /\ s.kind = "EVENT"
                      \/ c.wait = "FLAGS" /\ (FlagsMet(w.flags, s.want) \/ c.left = 0)
             v == Process(w, b)
  <1>1. c.wait # "NONE" => c.state = "WAITING"
    BY DEF WorldOk, BranchesOk, BranchOk
  <1>2. CASE b \notin Active
    <2>1. v = w
      BY <1>2 DEF Process
    <2> QED BY <2>1, LookedMoves
  <1>3. CASE b \in Active /\ c.state = "WAITING" /\ ready
    <2>1. v = Advance(w, b)
      BY <1>3 DEF Process
    <2> QED BY <1>3, <2>1, AdvanceMoves
  <1>4. CASE b \in Active /\ c.state = "RUNNING"
    <2>1. v = Execute(w, b, w.br[b].step)
      BY <1>4 DEF Process
    <2> QED BY <1>1, <1>4, <2>1, ExecuteMoves
  <1>5. CASE b \in Active /\ ~(c.state = "WAITING" /\ ready) /\ c.state # "RUNNING"
    <2>1. v = [w EXCEPT !.scratch = w.br[b].state]
      BY <1>5 DEF Process
    <2> QED BY <2>1, LookedMoves
  <1> QED BY <1>2, <1>3, <1>4, <1>5

\* A start and branch b.
LEMMA StartedMoves ==
  ASSUME NEW w, WorldOk(w), NEW b \in Branches, starts \in Nat
  PROVE LET v == Started(w, b)
        IN  /\ Moves(w, v, b) /\ Stumbles(w, v, b)
            /\ w.br[b].state # "RUNNING" => v = w
  <1>1. CASE w.br[b].state = "RUNNING"
    <2>1. Started(w, b) = Execute(w, b, w.br[b].step)
      BY <1>1 DEF Started
    <2> QED BY <1>1, <2>1, ExecuteMoves
  <1>2. CASE w.br[b].state # "RUNNING"
    <2>1. Started(w, b) = w
      BY <1>2 DEF Started
    <2> QED BY <2>1, LookedMoves DEF Stumbles
  <1> QED BY <1>1, <1>2

-----------------------------------------------------------------------------
(* The loops over the branches *)

Loops == {"start", "event", "work"}

\* One round of a loop.
Round(loop, w, b) ==
    IF Planned(w) THEN w
    ELSE IF loop = "start" THEN Started(w, b)
    ELSE IF loop = "event" THEN Matched(w, b)
    ELSE Process(w, b)

\* g lists the worlds of the first n rounds of a loop that begins with w0.
Rounds(loop, w0, n, g) ==
    /\ DOMAIN g = 0 .. n
    /\ g[0] = w0
    /\ \A b \in 1 .. n : g[b] = Round(loop, g[b - 1], b)

\* Every loop can be carried through.
LEMMA RoundsExist ==
  ASSUME NEW loop, NEW w0
  PROVE \E g : Rounds(loop, w0, Len(Script), g)
  <1> DEFINE S == {n \in Nat : \E g : Rounds(loop, w0, n, g)}
  <1>1. 0 \in S
    <2>1. Rounds(loop, w0, 0, [b \in 0 .. 0 |-> w0])
      BY DEF Rounds
    <2> QED BY <2>1
  <1>2. ASSUME NEW n \in Nat, n \in S
        PROVE n + 1 \in S
    <2>1. PICK g : Rounds(loop, w0, n, g)
      BY <1>2
    <2> DEFINE h == [b \in 0 .. n + 1 |-> IF b = n + 1 THEN Round(loop, g[n], n + 1)
                                                        ELSE g[b]]
    <2>2. Rounds(loop, w0, n + 1, h)
      BY <2>1 DEF Rounds
    <2> QED BY <2>2
  <1>3. Nat \subseteq S
    <2> HIDE DEF S
    <2> QED BY <1>1, <1>2, SetInduction
  <1> QED BY <1>3, BranchNumbers

\* The recursive function of EachBranch is such a list.
LEMMA RoundsEqual ==
  ASSUME NEW loop, NEW w0
  PROVE \E f : f = [b \in 0 .. Len(Script) |->
                      IF b = 0 THEN w0 ELSE Round(loop, f[b - 1], b)]
  <1>1. PICK g : Rounds(loop, w0, Len(Script), g)
    BY RoundsExist
  <1> DEFINE h == [b \in 0 .. Len(Script) |-> g[b]]
  <1>2. \A b \in 0 .. Len(Script) :
          h[b] = IF b = 0 THEN w0 ELSE Round(loop, h[b - 1], b)
    BY <1>1, BranchNumbers DEF Rounds
  <1>3. h = [b \in 0 .. Len(Script) |->
               IF b = 0 THEN w0 ELSE Round(loop, h[b - 1], b)]
    BY <1>2
  <1> QED BY <1>3

\* What the loop of a start computes.
LEMMA StartLoop ==
  ASSUME NEW w0
  PROVE \E g : /\ Rounds("start", w0, Len(Script), g)
               /\ EachBranch(Started, w0) = g[Len(Script)]
  <1> DEFINE f == CHOOSE h : h = [b \in 0 .. Len(Script) |->
                                    IF b = 0 THEN w0 ELSE Round("start", h[b - 1], b)]
  <1>1. f = [b \in 0 .. Len(Script) |->
               IF b = 0 THEN w0 ELSE Round("start", f[b - 1], b)]
    BY RoundsEqual
  <1>2. EachBranch(Started, w0) = f[Len(Script)]
    BY DEF EachBranch, Round
  <1> HIDE DEF f
  <1>3. Rounds("start", w0, Len(Script), f)
    BY <1>1, BranchNumbers DEF Rounds
  <1> QED BY <1>2, <1>3

\* What the loop of an event computes.
LEMMA EventLoop ==
  ASSUME NEW w0
  PROVE \E g : /\ Rounds("event", w0, Len(Script), g)
               /\ EachBranch(Matched, w0) = g[Len(Script)]
  <1> DEFINE f == CHOOSE h : h = [b \in 0 .. Len(Script) |->
                                    IF b = 0 THEN w0 ELSE Round("event", h[b - 1], b)]
  <1>1. f = [b \in 0 .. Len(Script) |->
               IF b = 0 THEN w0 ELSE Round("event", f[b - 1], b)]
    BY RoundsEqual
  <1>2. EachBranch(Matched, w0) = f[Len(Script)]
    BY DEF EachBranch, Round
  <1> HIDE DEF f
  <1>3. Rounds("event", w0, Len(Script), f)
    BY <1>1, BranchNumbers DEF Rounds
  <1> QED BY <1>2, <1>3

\* What the loop of the periodic work computes.
LEMMA WorkLoop ==
  ASSUME NEW w0
  PROVE \E g : /\ Rounds("work", w0, Len(Script), g)
               /\ EachBranch(Process, w0) = g[Len(Script)]
  <1> DEFINE f == CHOOSE h : h = [b \in 0 .. Len(Script) |->
                                    IF b = 0 THEN w0 ELSE Round("work", h[b - 1], b)]
  <1>1. f = [b \in 0 .. Len(Script) |->
               IF b = 0 THEN w0 ELSE Round("work", f[b - 1], b)]
    BY RoundsEqual
  <1>2. EachBranch(Process, w0) = f[Len(Script)]
    BY DEF EachBranch, Round
  <1> HIDE DEF f
  <1>3. Rounds("work", w0, Len(Script), f)
    BY <1>1, BranchNumbers DEF Rounds
  <1> QED BY <1>2, <1>3

\* v is what the first n rounds of a loop make of w.
Since(loop, w, v, n) ==
    /\ WorldOk(v)
    /\ \A b \in Branches : b > n => v.br[b] = w.br[b]
    /\ w.cancel \subseteq v.cancel
    /\ \A b \in Branches : v.br[b].wait = "DISPATCH" =>
          v.br[b] = w.br[b] \/ PlanFor(v.plan, b, v.br[b])
    /\ \A b \in Branches : Failed(w.br, b) => Failed(v.br, b)
    /\ loop # "start" => \A b \in Branches : w.br[b].wait = "RESULT" => v.br[b] = w.br[b]
    /\ loop = "start" /\ v.err =>
          \E c \in Active : c <= n /\ Failed(v.br, c) /\ v.br[c].wait # "DISPATCH"

\* Each round goes one branch further, and a loop ends with the first plan.
LEMMA RoundsGoOn ==
  ASSUME NEW loop \in Loops, NEW w, NEW g, WorldOk(w), w.plan = NoPlan,
         Rounds(loop, w, Len(Script), g), starts \in Nat,
         loop = "start" => /\ ~w.err
                           /\ \A b \in Branches \ Active : w.br[b].state # "RUNNING"
  PROVE Since(loop, w, g[Len(Script)], Len(Script))
  <1> DEFINE S == {n \in Nat : n <= Len(Script) => Since(loop, w, g[n], n)}
  <1>1. 0 \in S
    <2>1. g[0] = w
      BY DEF Rounds
    <2>2. Since(loop, w, w, 0)
      BY DEF Since
    <2> QED BY <2>1, <2>2
  <1>2. ASSUME NEW n \in Nat, n \in S
        PROVE n + 1 \in S
    <2> DEFINE b == n + 1
               u == g[n]
               v == g[b]
    <2> SUFFICES ASSUME b <= Len(Script)
                 PROVE Since(loop, w, v, b)
      OBVIOUS
    <2>1. b \in Branches /\ b \in Nat
      BY BranchNumbers DEF Branches
    <2>2. Since(loop, w, u, n)
      BY <1>2, BranchNumbers
    <2>3. v = Round(loop, u, b)
      <3>1. b \in 1 .. Len(Script) /\ b - 1 = n
        BY BranchNumbers
      <3> QED BY <3>1 DEF Rounds
    <2> HIDE DEF u, v
    <2>4. WorldOk(u)
      BY <2>2 DEF Since
    <2>5. CASE Planned(u)
      <3>1. v = u
        BY <2>3, <2>5 DEF Round
      <3>2. \A a \in Branches : a > b => a > n
        BY <2>1, BranchNumbers
      <3>3. \A a \in Active : a <= n => a <= b
        BY <2>1, BranchNumbers
      <3> HIDE DEF b
      <3> QED BY <2>2, <3>1, <3>2, <3>3 DEF Since
    <2>6. CASE ~Planned(u)
      <3>1. u.plan = NoPlan
        BY <2>6 DEF Planned
      <3>2. \A a \in Branches : a > b => a > n /\ a # b
        BY <2>1, BranchNumbers
      <3>3. \A a \in Active : a <= n => a <= b /\ a # b
        BY <2>1, BranchNumbers
      <3>4. b > n
        OBVIOUS
      <3> HIDE DEF b
      <3>5. /\ Moves(u, v, b)
            /\ loop # "start" /\ u.br[b].wait = "RESULT" => v.br[b] = u.br[b]
            /\ loop = "start" => Stumbles(u, v, b) /\ (u.br[b].state # "RUNNING" => v = u)
        <4>1. CASE loop = "start"
          <5>1. v = Started(u, b)
            BY <2>3, <2>6, <4>1 DEF Round
          <5> QED BY <5>1, <4>1, <2>1, <2>4, StartedMoves
        <4>2. CASE loop = "event"
          <5>1. v = Matched(u, b)
            BY <2>3, <2>6, <4>2 DEF Round
          <5> QED BY <5>1, <4>2, <2>1, <2>4, MatchedMoves
        <4>3. CASE loop = "work"
          <5>1. v = Process(u, b)
            BY <2>3, <2>6, <4>3 DEF Round
          <5> QED BY <5>1, <4>3, <2>1, <2>4, ProcessMoves
        <4> QED BY <4>1, <4>2, <4>3 DEF Loops
      <3>6. \A a \in Branches : a > b => v.br[a] = w.br[a]
        BY <2>2, <3>2, <3>5 DEF Since, Moves
      <3>7. u.br[b] = w.br[b]
        BY <2>1, <2>2, <3>4 DEF Since
      <3>8. \A a \in Branches : v.br[a].wait = "DISPATCH" =>
               v.br[a] = w.br[a] \/ PlanFor(v.plan, a, v.br[a])
        <4>1. \A a \in Branches \ {b} : v.br[a].wait = "DISPATCH" => v.br[a] = w.br[a]
          BY <2>2, <3>1, <3>5 DEF Since, Moves, PlanFor
        <4>2. v.br[b].wait = "DISPATCH" =>
                v.br[b] = w.br[b] \/ PlanFor(v.plan, b, v.br[b])
          BY <3>5, <3>7 DEF Moves
        <4> QED BY <4>1, <4>2
      <3>9. \A a \in Branches : Failed(w.br, a) => Failed(v.br, a)
        <4>1. \A a \in Branches \ {b} : Failed(u.br, a) => Failed(v.br, a)
          BY <3>5 DEF Moves, Failed
        <4>2. Failed(u.br, b) => Failed(v.br, b)
          BY <3>5 DEF Moves
        <4> QED BY <2>2, <4>1, <4>2 DEF Since
      <3>10. loop # "start" =>
               \A a \in Branches : w.br[a].wait = "RESULT" => v.br[a] = w.br[a]
        BY <2>2, <3>5, <3>7 DEF Since, Moves
      <3>11. ASSUME loop = "start", v.err
             PROVE \E c \in Active : c <= b /\ Failed(v.br, c) /\ v.br[c].wait # "DISPATCH"
        <4>1. CASE u.err
          <5>1. PICK c \in Active : c <= n /\ Failed(u.br, c) /\ u.br[c].wait # "DISPATCH"
            BY <2>2, <3>11, <4>1 DEF Since
          <5>2. c <= b /\ c # b /\ c \in Branches
            BY <3>3, <5>1, BranchNumbers
          <5>3. v.br[c] = u.br[c]
            BY <3>5, <5>2 DEF Moves
          <5>4. Failed(v.br, c) /\ v.br[c].wait # "DISPATCH"
            BY <5>1, <5>3 DEF Failed
          <5> QED BY <5>2, <5>4
        <4>2. CASE ~u.err
          <5>1. Failed(v.br, b) /\ v.br[b].wait # "DISPATCH"
            BY <3>5, <3>11, <4>2 DEF Stumbles
          <5>2. u.br[b].state = "RUNNING"
            BY <3>5, <3>11, <4>2
          <5>3. b \in Active
            BY <2>1, <3>7, <3>11, <5>2
          <5>4. b <= b
            BY <2>1
          <5> QED BY <5>1, <5>3, <5>4
        <4> QED BY <4>1, <4>2
      <3>12. WorldOk(v) /\ w.cancel \subseteq v.cancel
        BY <2>2, <3>5 DEF Moves, Since
      <3> QED BY <3>6, <3>8, <3>9, <3>10, <3>11, <3>12 DEF Since
    <2> QED BY <2>5, <2>6
  <1>3. Nat \subseteq S
    <2> HIDE DEF S
    <2> QED BY <1>1, <1>2, SetInduction
  <1> QED BY <1>3, BranchNumbers

-----------------------------------------------------------------------------
(* The summary, and the sessions the lock sections leave *)

\* The summary shows the operator a state.
LEMMA SummaryOk ==
  ASSUME NEW w, WorldOk(w)
  PROVE Summary(w) \in SummaryStates
  <1> DEFINE st(b) == w.br[b].state
             failed == {b \in Active : st(b) = "ERROR"}
             seen == {b \in Active : \A f \in failed : b < f}
             waiting == {b \in seen : st(b) \in Live}
             required == {b \in seen : b \in Required}
             fallback == IF Active \cap Required # {} THEN Min(Active \cap Required)
                         ELSE Min(Active)
             selected == IF failed # {} THEN Min(failed)
                         ELSE IF waiting # {} THEN Min(waiting) ELSE fallback
  <1>1. Active \subseteq Nat /\ Active \subseteq Branches
    BY BranchNumbers
  <1>2. Active # {} => selected \in Active
    <2> SUFFICES ASSUME Active # {} PROVE selected \in Active
      OBVIOUS
    <2>1. failed # {} => Min(failed) \in failed
      BY <1>1, MinIn
    <2>2. waiting # {} => Min(waiting) \in waiting
      <3>1. waiting \in SUBSET Nat
        BY <1>1
      <3> HIDE DEF waiting
      <3> QED BY <3>1, MinIn
    <2>3. Active \cap Required # {} => Min(Active \cap Required) \in Active
      <3>1. Active \cap Required \in SUBSET Nat
        BY <1>1
      <3> QED BY <3>1, MinIn
    <2>4. Min(Active) \in Active
      BY <1>1, MinIn
    <2> QED BY <2>1, <2>2, <2>3, <2>4
  <1>3. \A b \in Branches : st(b) \in SummaryStates
    BY DEF WorldOk, BranchesOk, BranchOk, Branch, SummaryStates
  <1>4. "ERROR" \in SummaryStates /\ "DONE" \in SummaryStates
    BY DEF SummaryStates
  <1>5. \/ Summary(w) \in {"ERROR", "DONE"}
        \/ Active # {} /\ Summary(w) = st(selected)
    BY Zenon DEF Summary
  <1> QED BY <1>1, <1>2, <1>3, <1>4, <1>5

\* So does the summary after the work on one branch.
LEMMA SummaryAfterOk ==
  ASSUME NEW w, WorldOk(w), NEW b
  PROVE SummaryAfter(w, b) \in SummaryStates
  BY SummaryOk DEF SummaryAfter, WorldOk

\* A lock section of a running scenario begins with the session as it is.
LEMMA WorldIs ==
  ASSUME SessionOk, valid
  PROVE /\ WorldOk(World)
        /\ World.br = br /\ World.plan = NoPlan /\ World.cancel = {}
        /\ World.flags = flags
  BY DEF SessionOk, World, WorldOk, Fields, BranchesOk

\* It leaves a session behind.
LEMMA SessionLeft ==
  ASSUME NEW th, NEW w, WorldOk(w), NEW s \in SummaryStates, NEW wake,
         Leave(th, w, s, wake), valid' = TRUE, starts' \in Nat
  PROVE SessionOk'
  BY DEF Leave, SessionOk, WorldOk, BranchesOk

\* A thread may put away its plan or take another.
LEMMA Carried ==
  ASSUME ThreadsOk, OwnerOk, NEW th \in Threads, NEW p, p = NoPlan \/ PlanOk(p),
         Carry(th, p), disp[th] # "owner", owner' = owner,
         DOMAIN after' = Threads, DOMAIN req' = Threads,
         \A t \in Threads : req'[t] \in Requests \cup {None}
  PROVE ThreadsOk' /\ OwnerOk'
  <1>1. NoPlan # p => PlanOk(p)
    OBVIOUS
  <1>2. ThreadsOk'
    BY DEF ThreadsOk, Carry, DispStates
  <1>3. OwnerOk'
    BY DEF OwnerOk, ThreadsOk, Carry, NoCaller
  <1> QED BY <1>2, <1>3

\* A plan that is put away was nobody's, or its branch has moved.
LEMMA WaitsMoved ==
  ASSUME ThreadsOk, WaitsOk, NEW th \in Threads, NEW p, Carry(th, p),
         \A b \in Branches : br'[b].wait = "DISPATCH" =>
            \/ br'[b] = br[b] /\ ~PlanFor(plan[th], b, br[b])
            \/ PlanFor(p, b, br'[b]),
         \A b \in Branches : Failed(br, b) => Failed(br', b)
  PROVE WaitsOk'
  <1> SUFFICES ASSUME NEW b \in Branches, br'[b].wait = "DISPATCH"
               PROVE \/ \E t \in Threads : PlanFor(plan'[t], b, br'[b])
                     \/ \E c \in Active \ {b} : Failed(br', c)
    BY DEF WaitsOk
  <1>1. plan'[th] = p /\ \A t \in Threads \ {th} : plan'[t] = plan[t]
    BY DEF Carry, ThreadsOk
  <1>2. CASE PlanFor(p, b, br'[b])
    BY <1>1, <1>2
  <1>3. CASE br'[b] = br[b] /\ ~PlanFor(plan[th], b, br[b])
    <2>1. CASE \E t \in Threads : PlanFor(plan[t], b, br[b])
      BY <1>1, <1>3, <2>1
    <2>2. CASE \E c \in Active \ {b} : Failed(br, c)
      BY <2>2, BranchNumbers
    <2> QED BY <1>3, <2>1, <2>2 DEF WaitsOk
  <1> QED BY <1>2, <1>3

\* Nothing about the requests and the queues has changed.
LEMMA TablesKept ==
  ASSUME TablesOk, PendingOk, TrackedIsDispatched,
         UNCHANGED <<executor, in_flight, rtq, expired, owner>>, phase' \in Phases
  PROVE TablesOk' /\ PendingOk' /\ TrackedIsDispatched'
  BY DEF TablesOk, PendingOk, TrackedIsDispatched, executor, Tracked

-----------------------------------------------------------------------------
(* Operator calls *)

\* The request of a branch that stops waiting for its result is in a
\* cancel of the web server's task.
GivenUp == \A b \in Branches :
             br[b].wait = "RESULT" /\ br'[b].req # br[b].req =>
               after'["http"] # after["http"]

\* A cancel is an effect.
LEMMA CancelShows ==
  ASSUME Free("http"), NEW e, DOMAIN after = Threads,
         after' = [after EXCEPT !["http"] = e],
         \A b \in Branches : br[b].wait = "RESULT" /\ br'[b].req # br[b].req =>
            br[b].req \in e.cancel
  PROVE GivenUp
  <1>1. after'["http"] = e
    BY DEF Threads
  <1>2. after["http"].cancel = {}
    BY DEF Free, NoEffects
  <1> QED BY <1>1, <1>2 DEF GivenUp

\* The other variables of an operator call.
LEMMA CallKept ==
  ASSUME ScenarioInv, OnlySession
  PROVE /\ TablesOk' /\ PendingOk' /\ TrackedIsDispatched'
        /\ owner' = owner /\ req' = req
  <1>1. UNCHANGED <<executor, in_flight, rtq, expired, owner>> /\ phase' = phase
        /\ req' = req
    BY DEF OnlySession, runtime
  <1>2. phase' \in Phases
    BY <1>1 DEF ScenarioInv, TablesOk
  <1> QED BY <1>1, <1>2, TablesKept DEF ScenarioInv

\* What a start begins with.
LEMMA FreshIs ==
  ASSUME SessionOk
  PROVE /\ WorldOk(Fresh) /\ Fresh.plan = NoPlan /\ ~Fresh.err
        /\ Fresh.cancel = AllCancelled
        /\ \A b \in Branches : Fresh.br[b].wait = "NONE"
        /\ \A b \in Branches \ Active : Fresh.br[b].state # "RUNNING"
  <1> DEFINE f == [b \in Branches |->
                     Moved(1, IF b \in Active THEN "RUNNING" ELSE "STOPPED")]
  <1>1. /\ DOMAIN Fresh = Fields /\ Fresh.br = f
        /\ Fresh.flags = [x \in {} |-> FALSE] /\ Fresh.plan = NoPlan
        /\ Fresh.scratch = "RUNNING" /\ Fresh.cancel = AllCancelled
    BY DEF Fresh, World, Fields
  <1>2. ~Fresh.err
    BY DEF Fresh, World
  <1>3. \A b \in Branches :
          /\ BranchOk(b, f[b]) /\ f[b].state # "NONE" /\ f[b].wait = "NONE"
          /\ b \notin Active => f[b].state # "RUNNING"
    <2> SUFFICES ASSUME NEW b \in Branches
                 PROVE /\ BranchOk(b, f[b]) /\ f[b].state # "NONE" /\ f[b].wait = "NONE"
                       /\ b \notin Active => f[b].state # "RUNNING"
      OBVIOUS
    <2>1. 1 \in 1 .. Len(Script[b]) + 1
      BY Steps
    <2>2. CASE b \in Active
      <3>1. f[b] = Moved(1, "RUNNING")
        BY <2>2
      <3> HIDE DEF f
      <3> QED BY <2>1, <2>2, <3>1, MovedOk
    <2>3. CASE b \notin Active
      <3>1. f[b] = Moved(1, "STOPPED")
        BY <2>3
      <3> HIDE DEF f
      <3> QED BY <2>1, <3>1, MovedOk
    <2> QED BY <2>2, <2>3
  <1>4. DOMAIN f = Branches
    OBVIOUS
  <1> HIDE DEF f
  <1>5. WorldOk(Fresh)
    BY <1>1, <1>3, <1>4 DEF WorldOk, BranchesOk, SummaryStates
  <1> QED BY <1>1, <1>2, <1>3, <1>5

\* A start.
LEMMA StartKeeps ==
  ASSUME ScenarioInv, scenario_start
  PROVE ScenarioInv' /\ GivenUp
  <1> DEFINE w1 == EachBranch(Started, Fresh)
             w == [w1 EXCEPT !.plan = IF @ = NoPlan THEN @
                                      ELSE [@ EXCEPT !.run = starts + 1]]
             p == IF w.err THEN NoPlan ELSE w.plan
             N == Len(Script)
  <1>1. /\ Free("http") /\ starts' = starts + 1 /\ valid' = TRUE
        /\ Leave("http", w, Summary(w), ~w.err)
        /\ Carry("http", p)
        /\ OnlySession
    BY DEF scenario_start
  <1>2. SessionOk /\ ThreadsOk /\ OwnerOk /\ starts \in Nat
    BY DEF ScenarioInv, SessionOk
  <1>3. Since("start", Fresh, w1, N)
    <2>1. PICK g : Rounds("start", Fresh, N, g) /\ w1 = g[N]
      BY StartLoop
    <2>2. "start" \in Loops
      BY DEF Loops
    <2> HIDE DEF w1
    <2> QED BY <1>2, <2>1, <2>2, FreshIs, RoundsGoOn
  <1> HIDE DEF w1, N
  <1>4. WorldOk(w1) /\ DOMAIN w1 = Fields
    BY <1>3 DEF Since, WorldOk
  <1>5. /\ DOMAIN w = Fields /\ w.br = w1.br /\ w.flags = w1.flags
        /\ w.scratch = w1.scratch /\ w.cancel = w1.cancel /\ w.err = w1.err
        /\ w.plan = IF w1.plan = NoPlan THEN NoPlan
                    ELSE [w1.plan EXCEPT !.run = starts + 1]
    BY <1>4 DEF Fields
  <1>6. w1.plan = NoPlan \/ PlanOk(w1.plan)
    BY <1>4 DEF WorldOk
  <1> HIDE DEF w
  <1>7. \/ w.plan = NoPlan /\ w1.plan = NoPlan
        \/ PlanOk(w.plan) /\ w.plan.b = w1.plan.b /\ w.plan.step = w1.plan.step
    <2>1. CASE w1.plan = NoPlan
      BY <1>5, <2>1
    <2>2. CASE w1.plan # NoPlan
      <3> DEFINE q == w1.plan
      <3>1. q \in Plan /\ PlanOk(q)
        BY <1>6, <2>2 DEF PlanOk
      <3>2. w.plan = [q EXCEPT !.run = starts + 1]
        BY <1>5, <2>2
      <3> HIDE DEF q
      <3>3. w.plan \in Plan /\ w.plan.b = q.b /\ w.plan.step = q.step
        BY <1>2, <3>1, <3>2 DEF Plan
      <3> QED BY <3>1, <3>3 DEF PlanOk, q
    <2> QED BY <2>1, <2>2
  <1>8. WorldOk(w)
    BY <1>4, <1>5, <1>7 DEF WorldOk
  <1>9. SessionOk'
    BY <1>1, <1>2, <1>8, SummaryOk, SessionLeft
  <1>10. /\ TablesOk' /\ PendingOk' /\ TrackedIsDispatched'
         /\ owner' = owner /\ req' = req
    BY <1>1, CallKept
  <1>11. p = NoPlan \/ PlanOk(p)
    BY <1>7
  <1>12. DOMAIN after' = Threads /\ DOMAIN after = Threads /\ DOMAIN plan = Threads
    BY <1>1, <1>2 DEF Leave, ThreadsOk
  <1>13. ThreadsOk' /\ OwnerOk'
    <2>1. /\ "http" \in Threads /\ disp["http"] # "owner"
          /\ DOMAIN req' = Threads /\ \A t \in Threads : req'[t] \in Requests \cup {None}
      BY <1>1, <1>2, <1>10 DEF Free, Threads, ThreadsOk
    <2> HIDE DEF p
    <2> QED BY <1>1, <1>2, <1>10, <1>11, <1>12, <2>1, Carried
  <1>14. br' = w1.br
    BY <1>1, <1>5 DEF Leave
  <1>15. ASSUME NEW b \in Branches, br'[b].wait = "DISPATCH"
         PROVE \/ \E t \in Threads : PlanFor(plan'[t], b, br'[b])
               \/ \E c \in Active \ {b} : Failed(br', c)
    <2>1. PlanFor(w1.plan, b, w1.br[b])
      <3>1. w1.br[b] # Fresh.br[b]
        BY <1>2, <1>14, <1>15, FreshIs
      <3> QED BY <1>3, <1>14, <1>15, <3>1 DEF Since
    <2>2. CASE w.err
      <3>1. PICK c \in Active : Failed(w1.br, c) /\ w1.br[c].wait # "DISPATCH"
        BY <1>3, <1>5, <2>2 DEF Since
      <3>2. c # b
        BY <1>14, <1>15, <3>1
      <3> QED BY <1>14, <3>1, <3>2
    <2>3. CASE ~w.err
      <3>1. plan'["http"] = w.plan
        BY <1>1, <1>12, <2>3 DEF Carry, Threads
      <3>2. w.plan # NoPlan /\ w.plan.b = b /\ w.plan.step = w1.br[b].step
        <4>1. w1.plan # NoPlan /\ w1.plan.b = b /\ w1.plan.step = w1.br[b].step
          BY <2>1 DEF PlanFor
        <4>2. w.plan.b = b /\ w.plan.step = w1.br[b].step
          BY <1>7, <4>1
        <4>3. w.plan # NoPlan
          BY <4>2, BranchNumbers DEF NoPlan
        <4> QED BY <4>2, <4>3
      <3> QED BY <1>14, <3>1, <3>2 DEF PlanFor, Threads
    <2> QED BY <2>2, <2>3
  <1>16. WaitsOk'
    BY <1>15 DEF WaitsOk
  <1>17. GivenUp
    <2> DEFINE e == [cancel |-> w.cancel, flag |-> w.flag, wake |-> ~w.err]
    <2>1. after' = [after EXCEPT !["http"] = e]
      BY <1>1 DEF Leave
    <2>2. AllCancelled \subseteq e.cancel
      BY <1>2, <1>3, <1>5, FreshIs DEF Since
    <2>3. \A b \in Branches : br[b].wait = "RESULT" => br[b].req \in e.cancel
      BY <2>2 DEF AllCancelled, Cancelled
    <2> HIDE DEF e
    <2> QED BY <1>1, <1>12, <2>1, <2>3, CancelShows
  <1> QED BY <1>9, <1>10, <1>13, <1>16, <1>17 DEF ScenarioInv

\* A call that ends the scenario.
LEMMA ClearedKeeps ==
  ASSUME ScenarioInv, NEW s \in SummaryStates, NEW wake, Cleared(s, wake),
         DOMAIN flags' \subseteq Flags
  PROVE ScenarioInv' /\ GivenUp
  <1>1. /\ Free("http") /\ valid' = FALSE /\ br' = [b \in Branches |-> NoBranch]
        /\ summary' = s /\ starts' = starts /\ plan' = plan /\ disp' = disp
        /\ OnlySession
    BY DEF Cleared
  <1>2. SessionOk /\ ThreadsOk /\ OwnerOk
    BY DEF ScenarioInv
  <1>3. \A b \in Branches : BranchOk(b, NoBranch) /\ NoBranch.wait = "NONE"
    <2> SUFFICES ASSUME NEW b \in Branches
                 PROVE BranchOk(b, Moved(1, "NONE")) /\ Moved(1, "NONE").wait = "NONE"
      BY DEF NoBranch
    <2>1. 1 \in 1 .. Len(Script[b]) + 1
      BY Steps
    <2> QED BY <2>1, MovedOk
  <1>4. SessionOk'
    BY <1>1, <1>2, <1>3 DEF SessionOk
  <1>5. /\ TablesOk' /\ PendingOk' /\ TrackedIsDispatched'
        /\ owner' = owner /\ req' = req
    BY <1>1, CallKept
  <1>6. DOMAIN after = Threads /\ DOMAIN after' = Threads
    BY <1>2 DEF Cleared, ThreadsOk
  <1>7. ThreadsOk' /\ OwnerOk'
    BY <1>1, <1>2, <1>5, <1>6 DEF ThreadsOk, OwnerOk
  <1>8. WaitsOk'
    BY <1>1, <1>3 DEF WaitsOk
  <1>9. GivenUp
    <2> DEFINE e == [cancel |-> AllCancelled, flag |-> FALSE, wake |-> wake]
    <2>1. after' = [after EXCEPT !["http"] = e]
      BY DEF Cleared
    <2>2. \A b \in Branches : br[b].wait = "RESULT" => br[b].req \in e.cancel
      BY DEF AllCancelled, Cancelled
    <2> HIDE DEF e
    <2> QED BY <1>1, <1>6, <2>1, <2>2, CancelShows
  <1> QED BY <1>4, <1>5, <1>7, <1>8, <1>9 DEF ScenarioInv

\* A start that is refused, a stop and a reset.
LEMMA EndsKeep ==
  ASSUME ScenarioInv, scenario_start_invalid \/ scenario_stop \/ scenario_reset
  PROVE ScenarioInv' /\ GivenUp
  <1>1. PICK s \in SummaryStates, wake \in BOOLEAN : Cleared(s, wake)
    BY DEF scenario_start_invalid, scenario_stop, scenario_reset, SummaryStates
  <1>2. DOMAIN flags' \subseteq Flags
    BY DEF scenario_start_invalid, scenario_stop, scenario_reset, ScenarioInv,
           SessionOk
  <1> QED BY <1>1, <1>2, ClearedKeeps

\* The operator moves a branch on.
LEMMA MoveOnKeeps ==
  ASSUME ScenarioInv, NEW b \in Branches, br[b].state \in {"WAITING", "RUNNING"},
         MoveOn(b)
  PROVE ScenarioInv' /\ GivenUp
  <1> DEFINE w == IF br[b].state = "WAITING" THEN Advance(World, b)
                                             ELSE Execute(World, b, br[b].step)
  <1>1. /\ Free("http") /\ valid /\ starts' = starts /\ valid' = valid
        /\ Leave("http", w, SummaryAfter(w, b), ~w.err)
        /\ Carry("http", w.plan)
        /\ OnlySession
    BY DEF MoveOn
  <1>2. SessionOk /\ ThreadsOk /\ OwnerOk /\ WaitsOk /\ starts \in Nat
    BY DEF ScenarioInv, SessionOk
  <1>3. Moves(World, w, b)
    <2>1. WorldOk(World) /\ World.br = br
      BY <1>1, <1>2, WorldIs
    <2>2. CASE br[b].state = "WAITING"
      BY <1>2, <2>1, <2>2, AdvanceMoves
    <2>3. CASE br[b].state = "RUNNING"
      BY <1>2, <2>1, <2>3, ExecuteMoves
    <2> QED BY <2>2, <2>3
  <1> HIDE DEF w
  <1>4. WorldOk(w)
    BY <1>3 DEF Moves
  <1>5. SessionOk'
    BY <1>1, <1>2, <1>4, SummaryAfterOk, SessionLeft
  <1>6. /\ TablesOk' /\ PendingOk' /\ TrackedIsDispatched'
        /\ owner' = owner /\ req' = req
    BY <1>1, CallKept
  <1>7. DOMAIN after = Threads /\ DOMAIN after' = Threads
    BY <1>1, <1>2 DEF Leave, ThreadsOk
  <1>8. /\ "http" \in Threads /\ disp["http"] # "owner" /\ plan["http"] = NoPlan
        /\ DOMAIN req' = Threads /\ \A t \in Threads : req'[t] \in Requests \cup {None}
    BY <1>1, <1>2, <1>6 DEF Free, Threads, ThreadsOk
  <1>9. ThreadsOk' /\ OwnerOk'
    BY <1>1, <1>2, <1>4, <1>6, <1>7, <1>8, Carried DEF WorldOk
  <1>10. br' = w.br /\ World.br = br
    BY <1>1, <1>2, WorldIs DEF Leave
  <1>11. WaitsOk'
    <2>1. \A a \in Branches : br'[a].wait = "DISPATCH" =>
             \/ br'[a] = br[a] /\ ~PlanFor(plan["http"], a, br[a])
             \/ PlanFor(w.plan, a, br'[a])
      BY <1>3, <1>8, <1>10 DEF Moves, PlanFor
    <2>2. \A a \in Branches : Failed(br, a) => Failed(br', a)
      <3>1. \A a \in Branches \ {b} : Failed(br, a) => Failed(br', a)
        BY <1>3, <1>10 DEF Moves, Failed
      <3>2. Failed(br, b) => Failed(br', b)
        BY <1>3, <1>10 DEF Moves
      <3> QED BY <3>1, <3>2
    <2> QED BY <1>1, <1>2, <1>8, <2>1, <2>2, WaitsMoved
  <1>12. GivenUp
    <2> DEFINE e == [cancel |-> w.cancel, flag |-> w.flag, wake |-> ~w.err]
    <2>1. after' = [after EXCEPT !["http"] = e]
      BY <1>1 DEF Leave
    <2>2. \A a \in Branches : br[a].wait = "RESULT" /\ br'[a].req # br[a].req =>
             br[a].req \in e.cancel
      BY <1>3, <1>10 DEF Moves, Cancelled
    <2> HIDE DEF e
    <2> QED BY <1>1, <1>7, <2>1, <2>2, CancelShows
  <1> QED BY <1>5, <1>6, <1>9, <1>11, <1>12 DEF ScenarioInv

\* Next, next for one branch, and approve.
LEMMA InterventionsKeep ==
  ASSUME ScenarioInv, scenario_next \/ scenario_next_branch \/ scenario_approve
  PROVE ScenarioInv' /\ GivenUp
  <1>1. PICK b \in Active : br[b].state \in {"WAITING", "RUNNING"} /\ MoveOn(b)
    <2>1. CASE scenario_next
      BY <2>1 DEF scenario_next, First, InState
    <2>2. CASE scenario_next_branch
      BY <2>2 DEF scenario_next_branch, InState
    <2>3. CASE scenario_approve
      BY <2>3 DEF scenario_approve, First, InState
    <2> QED BY <2>1, <2>2, <2>3
  <1> QED BY <1>1, MoveOnKeeps, BranchNumbers

-----------------------------------------------------------------------------
(* The dispatch of a plan *)

\* A branch that waits for a dispatch under plan p is one that p fits.
LEMMA PlanFits ==
  ASSUME SessionOk, NEW p, NEW b \in Branches, br[b].wait = "DISPATCH",
         PlanFor(p, b, br[b])
  PROVE Matches(p)
  BY DEF SessionOk, BranchOk, PlanFor, Matches

\* The look at a plan's branch leaves a state behind.
LEMMA PeekedOk ==
  ASSUME SessionOk, NEW p, PlanOk(p)
  PROVE Peeked(p) \in SummaryStates
  BY DEF SessionOk, PlanOk, Plan, Peeked, BranchOk, Branch, SummaryStates

\* The session goes on with another summary.
LEMMA SessionShown ==
  ASSUME SessionOk, UNCHANGED <<valid, br, flags, starts>>, summary' \in SummaryStates
  PROVE SessionOk'
  BY DEF SessionOk

\* The next command of a plan.
LEMMA NextCommandKeeps ==
  ASSUME ScenarioInv, NEW th \in Threads, next_command(th)
  PROVE ScenarioInv' /\ br' = br
  <1>1. /\ disp[th] = "next" /\ summary' = Peeked(plan[th])
        /\ UNCHANGED <<valid, br, flags, starts, req, owner, next_req, after,
                       executor, in_flight, rtq, runtime>>
    BY DEF next_command
  <1>2. SessionOk /\ ThreadsOk /\ OwnerOk /\ WaitsOk /\ PlanOk(plan[th])
    BY <1>1 DEF ScenarioInv, ThreadsOk
  <1>3. SessionOk'
    BY <1>1, <1>2, PeekedOk, SessionShown
  <1>4. TablesOk' /\ PendingOk' /\ TrackedIsDispatched'
    <2>1. phase' \in Phases /\ UNCHANGED <<executor, in_flight, rtq, expired, owner>>
      BY <1>1 DEF runtime, ScenarioInv, TablesOk
    <2> QED BY <2>1, TablesKept DEF ScenarioInv
  <1>5. CASE Matches(plan[th])
    <2>1. disp' = [disp EXCEPT ![th] = "send"] /\ plan' = plan
      BY <1>5 DEF next_command
    <2>2. ThreadsOk'
      BY <1>1, <1>2, <2>1 DEF ThreadsOk, DispStates
    <2>3. OwnerOk'
      BY <1>1, <1>2, <2>1 DEF ThreadsOk, OwnerOk
    <2>4. WaitsOk'
      BY <1>1, <1>2, <2>1 DEF WaitsOk
    <2> QED BY <1>1, <1>3, <1>4, <2>2, <2>3, <2>4 DEF ScenarioInv
  <1>6. CASE ~Matches(plan[th])
    <2>1. Carry(th, NoPlan)
      BY <1>6 DEF next_command
    <2>2. ThreadsOk' /\ OwnerOk'
      <3>1. /\ disp[th] # "owner" /\ DOMAIN after' = Threads /\ DOMAIN req' = Threads
            /\ \A t \in Threads : req'[t] \in Requests \cup {None}
        BY <1>1, <1>2 DEF ThreadsOk
      <3> QED BY <1>1, <1>2, <2>1, <3>1, Carried
    <2>3. \A b \in Branches : br'[b].wait = "DISPATCH" =>
             br'[b] = br[b] /\ ~PlanFor(plan[th], b, br[b])
      BY <1>1, <1>2, <1>6, PlanFits
    <2>4. \A b \in Branches : Failed(br, b) => Failed(br', b)
      BY <1>1
    <2>5. WaitsOk'
      BY <1>2, <2>1, <2>3, <2>4, WaitsMoved
    <2> QED BY <1>1, <1>3, <1>4, <2>2, <2>5 DEF ScenarioInv
  <1> QED BY <1>5, <1>6

\* The session, the plans and the tasks are as before.
LEMMA SessionKept ==
  ASSUME ScenarioInv, UNCHANGED <<session, plan>>
  PROVE SessionOk' /\ WaitsOk' /\ br' = br
  <1>1. UNCHANGED <<valid, br, flags, summary, starts, plan>>
    BY DEF session
  <1> QED BY <1>1 DEF ScenarioInv, SessionOk, WaitsOk

\* The tracked requests are finitely many.
LEMMA TrackedFinite ==
  /\ IsFiniteSet(Requests) /\ IsFiniteSet(Tracked)
  <1>1. IsFiniteSet(1 .. MAX_REQUESTS)
    BY Bounds, FS_Interval
  <1> QED BY <1>1, FS_Subset DEF Requests, Tracked

\* A table of pending requests that has lost some.
LEMMA PendingShrinks ==
  ASSUME TablesOk, PendingOk, NEW f \in [Requests -> Int],
         \A r \in Requests : f[r] # None => pending[r] # None
  PROVE Cardinality({r \in Requests : f[r] # None}) <= MAX_PENDING
  <1> DEFINE T == {r \in Requests : f[r] # None}
  <1>1. T \subseteq Tracked
    BY DEF Tracked
  <1>2. Cardinality(T) <= Cardinality(Tracked) /\ IsFiniteSet(T)
    BY <1>1, TrackedFinite, FS_Subset
  <1>3. Cardinality(T) \in Nat /\ Cardinality(Tracked) \in Nat
    BY <1>2, TrackedFinite, FS_CardinalityType
  <1> QED BY <1>2, <1>3, Bounds DEF PendingOk

\* The dispatch owner takes a request.
LEMMA TakeKeeps ==
  ASSUME ScenarioInv, NEW th \in Threads, dispatch_take(th)
  PROVE ScenarioInv' /\ br' = br
  <1>1. /\ disp[th] = "send" /\ owner = NoCaller
        /\ UNCHANGED <<session, plan, req, after, published, in_flight, rtq, runtime>>
    BY DEF dispatch_take
  <1>2. ThreadsOk /\ OwnerOk /\ TablesOk /\ PendingOk /\ TrackedIsDispatched
    BY DEF ScenarioInv
  <1>3. SessionOk' /\ WaitsOk' /\ br' = br
    BY <1>1, SessionKept
  <1>4. phase' = phase /\ expired' = expired
    BY <1>1 DEF runtime
  <1>5. \A d \in DispStates \ {"none"} : disp' = [disp EXCEPT ![th] = d] => ThreadsOk'
    BY <1>1, <1>2 DEF ThreadsOk
  <1>6. CASE disp' = [disp EXCEPT ![th] = "fail"] /\ UNCHANGED <<owner, next_req, pending>>
    <2>1. ThreadsOk'
      BY <1>5, <1>6 DEF DispStates
    <2>2. OwnerOk'
      BY <1>1, <1>6 DEF OwnerOk
    <2>3. TablesOk' /\ PendingOk' /\ TrackedIsDispatched'
      <3>1. phase' \in Phases /\ UNCHANGED <<executor, in_flight, rtq, expired, owner>>
        BY <1>1, <1>2, <1>4, <1>6 DEF executor, TablesOk
      <3> QED BY <1>2, <3>1, TablesKept
    <2> QED BY <1>3, <2>1, <2>2, <2>3 DEF ScenarioInv
  <1>7. CASE /\ next_req \in Requests
             /\ Cardinality(Tracked) < MAX_PENDING
             /\ pending' = [pending EXCEPT ![next_req] = CMD_TIMEOUT]
             /\ owner' = [th |-> th, req |-> next_req]
             /\ disp' = [disp EXCEPT ![th] = "owner"]
    <2>1. ThreadsOk'
      BY <1>5, <1>7 DEF DispStates
    <2>2. OwnerOk'
      BY <1>2, <1>7 DEF OwnerOk, ThreadsOk
    <2>3. TablesOk'
      <3>1. CMD_TIMEOUT \in Int /\ CMD_TIMEOUT >= None
        BY Bounds DEF None
      <3> QED BY <1>1, <1>2, <1>4, <1>7, <3>1 DEF TablesOk
    <2>4. Tracked' = Tracked \cup {next_req}
      <3>1. CMD_TIMEOUT # None
        BY Bounds DEF None
      <3> QED BY <1>2, <1>7, <3>1 DEF Tracked, TablesOk
    <2>5. PendingOk'
      <3>1. /\ Cardinality(Tracked') \in Nat /\ Cardinality(Tracked) \in Nat
            /\ Cardinality(Tracked') <= Cardinality(Tracked) + 1
        BY <2>4, TrackedFinite, FS_AddElement, FS_CardinalityType
      <3> QED BY <1>7, <3>1, Bounds DEF PendingOk
    <2>6. owner'.req = next_req /\ owner' # NoCaller
      BY <1>7 DEF NoCaller, Threads
    <2>7. TrackedIsDispatched'
      BY <1>1, <1>2, <2>4, <2>6 DEF TrackedIsDispatched
    <2> QED BY <1>3, <2>1, <2>2, <2>3, <2>5, <2>7 DEF ScenarioInv
  <1>8. CASE /\ owner' = [th |-> th, req |-> None]
             /\ disp' = [disp EXCEPT ![th] = "owner"]
             /\ UNCHANGED <<next_req, pending>>
    <2>1. ThreadsOk'
      BY <1>5, <1>8 DEF DispStates
    <2>2. OwnerOk'
      BY <1>2, <1>8 DEF OwnerOk, ThreadsOk
    <2>3. TablesOk' /\ PendingOk'
      BY <1>1, <1>2, <1>4, <1>8 DEF TablesOk, PendingOk, Tracked
    <2>4. TrackedIsDispatched'
      BY <1>1, <1>2, <1>8 DEF TrackedIsDispatched, Tracked
    <2> QED BY <1>3, <2>1, <2>2, <2>3, <2>4 DEF ScenarioInv
  <1> QED BY <1>6, <1>7, <1>8 DEF dispatch_take

\* The dispatch owner publishes a command, or fails to.
LEMMA PublishKeeps ==
  ASSUME ScenarioInv, dispatch_publish
  PROVE ScenarioInv' /\ br' = br
  <1>1. /\ owner # NoCaller /\ owner' = NoCaller
        /\ UNCHANGED <<session, plan, next_req, after, in_flight, rtq, runtime>>
    BY DEF dispatch_publish
  <1>2. /\ ThreadsOk /\ TablesOk /\ PendingOk /\ TrackedIsDispatched
        /\ owner.th \in Threads /\ disp[owner.th] = "owner"
        /\ owner.req \in Requests \cup {None}
    BY <1>1 DEF ScenarioInv, OwnerOk
  <1>3. SessionOk' /\ WaitsOk' /\ br' = br
    BY <1>1, SessionKept
  <1>4. phase' = phase /\ expired' = expired
    BY <1>1 DEF runtime
  <1>5. OwnerOk'
    BY <1>1 DEF OwnerOk
  <1>6. CASE /\ published' = published \cup ({owner.req} \ {None})
             /\ req' = [req EXCEPT ![owner.th] = owner.req]
             /\ disp' = [disp EXCEPT ![owner.th] = "apply"]
             /\ UNCHANGED pending
    <2>1. ThreadsOk'
      BY <1>1, <1>2, <1>6 DEF ThreadsOk, DispStates
    <2>2. TablesOk' /\ PendingOk'
      BY <1>1, <1>2, <1>4, <1>6 DEF TablesOk, PendingOk, Tracked
    <2>3. \A r \in Requests : r # None
      BY Bounds DEF Requests, None
    <2>4. TrackedIsDispatched'
      BY <1>2, <1>6, <2>3 DEF TrackedIsDispatched, Tracked
    <2> QED BY <1>3, <1>5, <2>1, <2>2, <2>4 DEF ScenarioInv
  <1>7. CASE /\ pending' = [r \in Requests |-> IF r = owner.req THEN None
                                               ELSE pending[r]]
             /\ disp' = [disp EXCEPT ![owner.th] = "fail"]
             /\ UNCHANGED <<published, req>>
    <2>1. ThreadsOk'
      BY <1>1, <1>2, <1>7 DEF ThreadsOk, DispStates
    <2>2. None \in Int /\ None >= None
      BY DEF None
    <2>3. TablesOk'
      BY <1>1, <1>2, <1>4, <1>7, <2>2 DEF TablesOk
    <2>4. PendingOk'
      <3>1. /\ pending' \in [Requests -> Int]
            /\ \A r \in Requests : pending'[r] # None => pending[r] # None
        BY <1>7, <2>3 DEF TablesOk
      <3> QED BY <1>2, <3>1, PendingShrinks DEF PendingOk, Tracked
    <2>5. TrackedIsDispatched'
      BY <1>2, <1>7 DEF TrackedIsDispatched, Tracked
    <2> QED BY <1>3, <1>5, <2>1, <2>3, <2>4, <2>5 DEF ScenarioInv
  <1> QED BY <1>6, <1>7 DEF dispatch_publish

\* A branch that stops waiting for a result, when that is not the doing of the
\* operator.
NotLeft == \A b \in Branches : br[b].wait = "RESULT" => br'[b] = br[b]

\* A dispatch that failed.
LEMMA PlanFailKeeps ==
  ASSUME ScenarioInv, NEW th \in Threads, plan_fail(th)
  PROVE ScenarioInv' /\ disp[th] = "fail"
  <1> DEFINE p == plan[th]
             w == Become(World, p.b, Moved(br[p.b].step, "ERROR"))
  <1>1. /\ disp[th] = "fail" /\ Carry(th, NoPlan)
        /\ UNCHANGED <<valid, starts, req, owner, next_req, executor, in_flight, rtq,
                       runtime>>
        /\ valid => Leave(th, w, "ERROR", FALSE)
        /\ ~valid => UNCHANGED <<br, flags, summary, after>>
    BY DEF plan_fail
  <1>2. SessionOk /\ ThreadsOk /\ OwnerOk /\ WaitsOk /\ PlanOk(p) /\ starts \in Nat
    BY <1>1 DEF ScenarioInv, ThreadsOk, SessionOk
  <1>3. p.b \in Branches
    BY <1>2 DEF PlanOk, Plan
  <1>4. TablesOk' /\ PendingOk' /\ TrackedIsDispatched'
    <2>1. phase' \in Phases /\ UNCHANGED <<executor, in_flight, rtq, expired, owner>>
      BY <1>1 DEF runtime, ScenarioInv, TablesOk
    <2> QED BY <2>1, TablesKept DEF ScenarioInv
  <1>5. ThreadsOk' /\ OwnerOk'
    <2>1. DOMAIN after' = Threads
      BY <1>1, <1>2 DEF Leave, ThreadsOk
    <2>2. /\ disp[th] # "owner" /\ DOMAIN req' = Threads
          /\ \A t \in Threads : req'[t] \in Requests \cup {None}
      BY <1>1, <1>2 DEF ThreadsOk
    <2> QED BY <1>1, <1>2, <2>1, <2>2, Carried
  <1>6. CASE valid
    <2>1. WorldOk(World) /\ World.br = br
      BY <1>2, <1>6, WorldIs
    <2>2. Moves(World, w, p.b) /\ w.br[p.b].wait = "NONE"
      <3>1. Moves(World, w, p.b)
        BY <1>3, <2>1, ErrorMoves
      <3>2. w.br = [br EXCEPT ![p.b] = Moved(br[p.b].step, "ERROR")]
        BY <1>3, <2>1, BecomeIs
      <3>3. w.br[p.b] = Moved(br[p.b].step, "ERROR")
        BY <1>2, <1>3, <3>2 DEF SessionOk
      <3> HIDE DEF w
      <3>4. w.br[p.b].wait = "NONE"
        BY <3>3 DEF Moved
      <3> QED BY <3>1, <3>4 DEF w
    <2>3. Leave(th, w, "ERROR", FALSE)
      BY <1>1, <1>6
    <2> HIDE DEF w
    <2>4. br' = w.br /\ WorldOk(w) /\ valid' = TRUE /\ starts' \in Nat
      BY <1>1, <1>2, <1>6, <2>2, <2>3 DEF Leave, Moves, SessionOk
    <2>5. SessionOk'
      BY <2>3, <2>4, SessionLeft DEF SummaryStates
    <2> HIDE DEF p
    <2>6. \A b \in Branches : br'[b].wait = "DISPATCH" =>
             br'[b] = br[b] /\ ~PlanFor(plan[th], b, br[b])
      BY <1>3, <2>1, <2>2, <2>4 DEF Moves, PlanFor, p
    <2>7. \A b \in Branches : Failed(br, b) => Failed(br', b)
      <3>1. \A b \in Branches \ {p.b} : Failed(br, b) => Failed(br', b)
        BY <2>1, <2>2, <2>4 DEF Moves, Failed
      <3>2. Failed(br, p.b) => Failed(br', p.b)
        BY <2>1, <2>2, <2>4 DEF Moves
      <3> QED BY <3>1, <3>2
    <2>8. WaitsOk'
      BY <1>1, <1>2, <2>6, <2>7, WaitsMoved
    <2> QED BY <1>1, <1>4, <1>5, <2>5, <2>8 DEF ScenarioInv
  <1>7. CASE ~valid
    <2>1. UNCHANGED <<br, flags, summary, after, valid, starts>>
      BY <1>1, <1>7
    <2>2. SessionOk'
      BY <1>2, <2>1 DEF SessionOk
    <2>3. WaitsOk'
      BY <1>2, <1>7, <2>1 DEF SessionOk, WaitsOk
    <2> QED BY <1>1, <1>4, <1>5, <2>2, <2>3 DEF ScenarioInv
  <1> QED BY <1>6, <1>7 DEF SessionOk

\* A dispatch that worked.
LEMMA ApplyKeeps ==
  ASSUME ScenarioInv, NEW th \in Threads, apply_dispatch(th)
  PROVE ScenarioInv' /\ NotLeft
  <1> DEFINE p == plan[th]
             more == StepOf(p).kind = "GROUP" /\ p.cmd < StepOf(p).n
             waiting == [Waiting(p.step, "RESULT", CMD_TIMEOUT) EXCEPT !.req = req[th]]
             w == IF req[th] # None THEN Become(World, p.b, waiting)
                                    ELSE Advance(World, p.b)
             q == IF Matches(p) THEN [p EXCEPT !.cmd = @ + 1] ELSE NoPlan
  <1>1. /\ disp[th] = "apply" /\ req' = [req EXCEPT ![th] = None]
        /\ UNCHANGED <<valid, starts, owner, next_req, executor, in_flight, rtq,
                       runtime>>
        /\ ~Matches(p) \/ more => /\ Carry(th, q) /\ summary' = Peeked(p)
                                  /\ UNCHANGED <<br, flags, after>>
        /\ ~(~Matches(p) \/ more) => /\ Carry(th, w.plan)
                                     /\ Leave(th, w, SummaryAfter(w, p.b), FALSE)
    BY DEF apply_dispatch
  <1>2. /\ SessionOk /\ ThreadsOk /\ OwnerOk /\ WaitsOk /\ PlanOk(p)
        /\ starts \in Nat /\ req[th] \in Requests \cup {None}
    BY <1>1 DEF ScenarioInv, ThreadsOk, SessionOk
  <1>3. p.b \in Branches /\ p.step \in 1 .. Len(Script[p.b])
    BY <1>2 DEF PlanOk, Plan
  <1>4. TablesOk' /\ PendingOk' /\ TrackedIsDispatched'
    <2>1. phase' \in Phases /\ UNCHANGED <<executor, in_flight, rtq, expired, owner>>
      BY <1>1 DEF runtime, ScenarioInv, TablesOk
    <2> QED BY <2>1, TablesKept DEF ScenarioInv
  <1>5. /\ disp[th] # "owner" /\ DOMAIN req' = Threads
        /\ \A t \in Threads : req'[t] \in Requests \cup {None}
    BY <1>1, <1>2 DEF ThreadsOk
  <1>6. CASE ~Matches(p) \/ more
    <2>1. Carry(th, q) /\ summary' = Peeked(p) /\ UNCHANGED <<br, flags, after>>
      BY <1>1, <1>6
    <2>2. SessionOk'
      BY <1>1, <1>2, <2>1, PeekedOk, SessionShown
    <2>3. q = NoPlan \/ (PlanOk(q) /\ q.b = p.b /\ q.step = p.step)
      <3>1. CASE Matches(p)
        <4>1. q = [p EXCEPT !.cmd = @ + 1]
          BY <3>1
        <4>2. p \in Plan
          BY <1>2 DEF PlanOk
        <4> HIDE DEF q, p
        <4>3. q \in Plan /\ q.b = p.b /\ q.step = p.step
          BY <4>1, <4>2 DEF Plan
        <4> QED BY <1>2, <4>3 DEF PlanOk
      <3> QED BY <3>1
    <2>4. DOMAIN after' = Threads
      BY <1>2, <2>1 DEF ThreadsOk
    <2>5. ThreadsOk' /\ OwnerOk'
      <3> HIDE DEF q
      <3> QED BY <1>1, <1>2, <1>5, <2>1, <2>3, <2>4, Carried
    <2>6. \A b \in Branches : br'[b].wait = "DISPATCH" =>
             \/ br'[b] = br[b] /\ ~PlanFor(plan[th], b, br[b])
             \/ PlanFor(q, b, br'[b])
      <3>1. CASE Matches(p)
        <4>1. q # NoPlan
          <5>1. q = [p EXCEPT !.cmd = @ + 1] /\ p \in Plan
            BY <1>2, <3>1 DEF PlanOk
          <5> HIDE DEF q, p
          <5>2. q.b \in Branches
            BY <5>1 DEF Plan
          <5> QED BY <5>2, BranchNumbers DEF NoPlan
        <4> HIDE DEF q
        <4> QED BY <2>1, <2>3, <4>1 DEF PlanFor
      <3>2. CASE ~Matches(p)
        BY <1>2, <2>1, <3>2, PlanFits
      <3> QED BY <3>1, <3>2
    <2>7. \A b \in Branches : Failed(br, b) => Failed(br', b)
      BY <2>1
    <2>8. WaitsOk'
      <3> HIDE DEF q
      <3> QED BY <1>2, <2>1, <2>6, <2>7, WaitsMoved
    <2> QED BY <1>4, <2>1, <2>2, <2>5, <2>8 DEF ScenarioInv, NotLeft
  <1>7. CASE Matches(p) /\ ~more
    <2>1. /\ Carry(th, w.plan) /\ Leave(th, w, SummaryAfter(w, p.b), FALSE)
          /\ valid /\ br[p.b].state = "WAITING" /\ br[p.b].wait = "DISPATCH"
          /\ br[p.b].step = p.step
      BY <1>1, <1>7 DEF Matches
    <2>2. WorldOk(World) /\ World.br = br /\ World.plan = NoPlan
      BY <1>2, <2>1, WorldIs
    <2>3. /\ Moves(World, w, p.b)
          /\ w.br[p.b].wait = "DISPATCH" => PlanFor(w.plan, p.b, w.br[p.b])
      <3>1. CASE req[th] # None
        <4>1. w = Become(World, p.b, waiting)
          BY <3>1
        <4>2. /\ BranchOk(p.b, waiting) /\ waiting.state = "WAITING"
              /\ waiting.wait = "RESULT" /\ waiting.step = p.step
          <5> DEFINE x == Waiting(p.step, "RESULT", CMD_TIMEOUT)
          <5>a. "RESULT" \in Waits /\ CMD_TIMEOUT \in Int
            BY Bounds DEF Waits
          <5>b. BranchOk(p.b, br[p.b])
            BY <1>2, <1>3 DEF SessionOk
          <5>c. Script[p.b][p.step].on
            BY <2>1, <5>b DEF BranchOk
          <5>1. "RESULT" \in Waits /\ CMD_TIMEOUT \in Int /\ Script[p.b][p.step].on
            BY <5>a, <5>c
          <5>2. /\ BranchOk(p.b, x) /\ x.state = "WAITING" /\ x.wait = "RESULT"
                /\ x.step = p.step /\ x.events = {}
            BY <1>3, <5>1, WaitingOk DEF Waiting
          <5>3. x \in Branch /\ waiting = [x EXCEPT !.req = req[th]]
            BY <5>2 DEF BranchOk
          <5> HIDE DEF x, waiting
          <5>4. /\ waiting \in Branch /\ waiting.state = x.state
                /\ waiting.wait = x.wait /\ waiting.step = x.step
                /\ waiting.events = x.events
            BY <1>2, <5>3 DEF Branch
          <5> QED BY <5>2, <5>4 DEF BranchOk
        <4> HIDE DEF waiting
        <4>3. /\ DOMAIN w = Fields
              /\ w.br = [World.br EXCEPT ![p.b] = waiting]
              /\ w.flags = World.flags /\ w.plan = World.plan
              /\ w.scratch = waiting.state
              /\ w.cancel = World.cancel \cup Cancelled(World.br[p.b])
          BY <1>3, <2>2, <4>1, BecomeIs
        <4> HIDE DEF w
        <4>4. /\ BranchesOk(w.br) /\ w.br[p.b] = waiting
              /\ \A a \in Branches \ {p.b} : w.br[a] = World.br[a]
          <5>1. BranchesOk(World.br)
            BY <2>2 DEF WorldOk
          <5> QED BY <1>3, <4>2, <4>3, <5>1, BranchesKept
        <4>5. WorldOk(w)
          BY <2>2, <4>2, <4>3, <4>4 DEF WorldOk, SummaryStates
        <4>6. ~Failed(World.br, p.b)
          BY <1>2, <1>3, <2>1, <2>2 DEF Failed, SessionOk, BranchOk
        <4>7. Moves(World, w, p.b)
          BY <4>2, <4>3, <4>4, <4>5, <4>6 DEF Moves
        <4> QED BY <4>2, <4>4, <4>7
      <3>2. CASE req[th] = None
        <4>1. w = Advance(World, p.b)
          BY <3>2
        <4> QED BY <1>2, <1>3, <2>1, <2>2, <4>1, AdvanceMoves
      <3> QED BY <3>1, <3>2
    <2> HIDE DEF w
    <2>4. br' = w.br /\ WorldOk(w) /\ valid' = TRUE /\ starts' \in Nat
      BY <1>1, <1>2, <2>1, <2>3 DEF Leave, Moves, SessionOk
    <2>5. SessionOk'
      BY <2>1, <2>4, SummaryAfterOk, SessionLeft
    <2>6. DOMAIN after' = Threads
      BY <1>2, <2>1 DEF Leave, ThreadsOk
    <2>7. ThreadsOk' /\ OwnerOk'
      BY <1>1, <1>2, <1>5, <2>1, <2>4, <2>6, Carried DEF WorldOk
    <2>8. \A b \in Branches : br'[b].wait = "DISPATCH" =>
             \/ br'[b] = br[b] /\ ~PlanFor(plan[th], b, br[b])
             \/ PlanFor(w.plan, b, br'[b])
      BY <1>3, <2>2, <2>3, <2>4 DEF Moves, PlanFor
    <2>9. \A b \in Branches : Failed(br, b) => Failed(br', b)
      <3>1. \A b \in Branches \ {p.b} : Failed(br, b) => Failed(br', b)
        BY <2>2, <2>3, <2>4 DEF Moves, Failed
      <3>2. Failed(br, p.b) => Failed(br', p.b)
        BY <2>2, <2>3, <2>4 DEF Moves
      <3> QED BY <3>1, <3>2
    <2>10. WaitsOk'
      BY <1>2, <2>1, <2>8, <2>9, WaitsMoved
    <2>11. NotLeft
      BY <2>1, <2>2, <2>3, <2>4 DEF Moves, NotLeft
    <2> QED BY <1>4, <2>5, <2>7, <2>10, <2>11 DEF ScenarioInv
  <1> QED BY <1>6, <1>7

-----------------------------------------------------------------------------
(* The runtime task and the world around it *)

\* The session and the dispatch are as before.
LEMMA RestKept ==
  ASSUME ScenarioInv, UNCHANGED <<session, dispatch>>, DOMAIN after' = Threads
  PROVE /\ SessionOk' /\ WaitsOk' /\ br' = br /\ ThreadsOk' /\ OwnerOk'
        /\ owner' = owner
  <1>1. UNCHANGED <<session, plan>> /\ UNCHANGED <<plan, disp, req, owner>>
    BY DEF dispatch
  <1>2. SessionOk' /\ WaitsOk' /\ br' = br
    BY <1>1, SessionKept
  <1>3. ThreadsOk' /\ OwnerOk'
    BY <1>1 DEF ScenarioInv, ThreadsOk, OwnerOk
  <1> QED BY <1>1, <1>2, <1>3

\* The runtime queue keeps to its length.
LEMMA QueuedOk ==
  ASSUME NEW S, NEW q \in Seq(S), NEW m \in S, Len(q) <= RUNTIME_QUEUE_LEN
  PROVE Queued(q, m) \in Seq(S) /\ Len(Queued(q, m)) <= RUNTIME_QUEUE_LEN
  BY Bounds DEF Queued

\* The kinds of messages.
LEMMA MessagesAre ==
  /\ Flag \in Messages
  /\ \A e \in DeviceEvents : Event(e) \in Messages
  /\ \A r \in Requests : \A st \in Statuses \cup {"timeout"} : Result(r, st) \in Messages
  BY DEF Messages

\* Requests may end, and messages move.
LEMMA TablesShrink ==
  ASSUME TablesOk, PendingOk, TrackedIsDispatched, owner' = owner,
         published' = published, phase' \in Phases, expired' \subseteq Requests,
         pending' \in [Requests -> Int],
         \A r \in Requests : /\ pending'[r] >= None
                             /\ pending'[r] # None => pending[r] # None,
         in_flight' \subseteq Messages,
         rtq' \in Seq(Messages \cup {Wake}), Len(rtq') <= RUNTIME_QUEUE_LEN
  PROVE TablesOk' /\ PendingOk' /\ TrackedIsDispatched'
  <1>1. TablesOk'
    BY DEF TablesOk
  <1>2. PendingOk'
    BY PendingShrinks DEF PendingOk, Tracked
  <1>3. TrackedIsDispatched'
    BY DEF TrackedIsDispatched, Tracked
  <1> QED BY <1>1, <1>2, <1>3

\* The end of a lock section.
LEMMA UnlockedKeeps ==
  ASSUME ScenarioInv, NEW th \in Threads, Unlocked(th)
  PROVE ScenarioInv' /\ br' = br
  <1>1. /\ pending' = [r \in Requests |-> IF r \in after[th].cancel THEN None
                                          ELSE pending[r]]
        /\ in_flight' = IF after[th].flag THEN in_flight \cup {Flag} ELSE in_flight
        /\ rtq' = IF after[th].wake THEN Queued(rtq, Wake) ELSE rtq
        /\ after' = [after EXCEPT ![th] = NoEffects]
        /\ UNCHANGED <<session, dispatch, published, runtime>>
    BY DEF Unlocked
  <1>2. DOMAIN after' = Threads
    BY <1>1 DEF ScenarioInv, ThreadsOk
  <1>3. /\ SessionOk' /\ WaitsOk' /\ br' = br /\ ThreadsOk' /\ OwnerOk'
        /\ owner' = owner
    BY <1>1, <1>2, RestKept
  <1>4. TablesOk /\ PendingOk /\ TrackedIsDispatched
    BY DEF ScenarioInv
  <1>5. phase' = phase /\ expired' = expired
    BY <1>1 DEF runtime
  <1>6. /\ pending' \in [Requests -> Int]
        /\ \A r \in Requests : /\ pending'[r] >= None
                               /\ pending'[r] # None => pending[r] # None
    BY <1>1, <1>4 DEF TablesOk, None
  <1>7. rtq' \in Seq(Messages \cup {Wake}) /\ Len(rtq') <= RUNTIME_QUEUE_LEN
    BY <1>1, <1>4, QueuedOk DEF TablesOk
  <1>8. in_flight' \subseteq Messages
    BY <1>1, <1>4, MessagesAre DEF TablesOk
  <1>9. TablesOk' /\ PendingOk' /\ TrackedIsDispatched'
    BY <1>1, <1>3, <1>4, <1>5, <1>6, <1>7, <1>8, TablesShrink DEF TablesOk
  <1> QED BY <1>3, <1>9 DEF ScenarioInv

\* The steps of the runtime task, the timer and the devices that only move
\* messages and end requests.
LEMMA MessagesKeep ==
  ASSUME ScenarioInv,
         \/ receive \/ executor_on_event \/ poll_timeouts \/ handle_timeout
         \/ update_deadline \/ deadline_timer \/ device_result \/ device_event
         \/ route_event
  PROVE ScenarioInv' /\ br' = br
  <1>1. TablesOk /\ PendingOk /\ TrackedIsDispatched /\ DOMAIN after = Threads
    BY DEF ScenarioInv, ThreadsOk
  <1>2. /\ pending \in [Requests -> Int] /\ \A r \in Requests : pending[r] >= None
        /\ in_flight \subseteq Messages /\ expired \subseteq Requests
        /\ published \subseteq Requests
        /\ rtq \in Seq(Messages \cup {Wake}) /\ Len(rtq) <= RUNTIME_QUEUE_LEN
        /\ phase \in Phases
    BY <1>1 DEF TablesOk
  <1>3. None \in Int /\ None >= None
    BY DEF None
  <1> DEFINE Rest == UNCHANGED <<session, dispatch>> /\ after' = after
             Shrunk == /\ published' = published /\ phase' \in Phases
                       /\ expired' \subseteq Requests
                       /\ pending' \in [Requests -> Int]
                       /\ \A r \in Requests : /\ pending'[r] >= None
                                              /\ pending'[r] # None => pending[r] # None
             Routed == /\ in_flight' \subseteq Messages
                       /\ rtq' \in Seq(Messages \cup {Wake})
                       /\ Len(rtq') <= RUNTIME_QUEUE_LEN
  <1> SUFFICES Rest /\ Shrunk /\ Routed
    <2>1. /\ SessionOk' /\ WaitsOk' /\ br' = br /\ ThreadsOk' /\ OwnerOk'
          /\ owner' = owner
      BY <1>1, RestKept
    <2>2. TablesOk' /\ PendingOk' /\ TrackedIsDispatched'
      BY <1>1, <2>1, TablesShrink
    <2> QED BY <2>1, <2>2 DEF ScenarioInv
  <1>4. CASE receive
    <2>1. Rest
      BY <1>4 DEF receive
    <2>2. Shrunk
      BY <1>2, <1>4 DEF receive, executor, Phases
    <2>3. Routed
      BY <1>2, <1>4, Bounds DEF receive
    <2> QED BY <2>1, <2>2, <2>3
  <1>5. CASE executor_on_event
    <2>1. Rest
      BY <1>5 DEF executor_on_event
    <2>2. Shrunk
      <3>1. \A r \in Requests : pending'[r] \in {None, pending[r]}
        BY <1>5 DEF executor_on_event
      <3>2. DOMAIN pending' = Requests /\ pending' = [r \in Requests |-> pending'[r]]
        BY <1>5 DEF executor_on_event
      <3>3. pending' \in [Requests -> Int]
        BY <1>2, <1>3, <3>1, <3>2
      <3>4. published' = published /\ expired' = expired /\ phase' \in Phases
        BY <1>5 DEF executor_on_event, Phases
      <3> QED BY <1>2, <1>3, <3>1, <3>3, <3>4
    <2>3. Routed
      BY <1>2, <1>5 DEF executor_on_event
    <2> QED BY <2>1, <2>2, <2>3
  <1>6. CASE poll_timeouts
    <2>1. Rest
      BY <1>6 DEF poll_timeouts
    <2>2. Shrunk
      BY <1>2, <1>3, <1>6 DEF poll_timeouts, Phases
    <2>3. Routed
      BY <1>2, <1>6 DEF poll_timeouts
    <2> QED BY <2>1, <2>2, <2>3
  <1>7. CASE handle_timeout
    <2>1. Rest
      BY <1>7 DEF handle_timeout
    <2>2. expired # {} => Min(expired) \in expired
      <3>1. expired \in SUBSET Nat
        BY <1>2, Bounds DEF Requests
      <3> QED BY <3>1, MinIn
    <2>3. Shrunk
      BY <1>2, <1>7 DEF handle_timeout, executor, Phases
    <2>4. Routed
      <3>1. rtq' = rtq
        BY <1>7 DEF handle_timeout
      <3>2. in_flight' \subseteq Messages
        <4>1. CASE expired = {}
          BY <1>2, <1>7, <4>1 DEF handle_timeout
        <4>2. CASE expired # {}
          <5>1. in_flight' = in_flight \cup {Result(Min(expired), "timeout")}
            BY <1>7, <4>2 DEF handle_timeout
          <5>2. Min(expired) \in Requests
            BY <1>2, <2>2, <4>2
          <5> QED BY <1>2, <5>1, <5>2, MessagesAre
        <4> QED BY <4>1, <4>2
      <3> QED BY <1>2, <3>1, <3>2
    <2> QED BY <2>1, <2>3, <2>4
  <1>8. CASE update_deadline
    <2>1. Rest
      BY <1>8 DEF update_deadline
    <2>2. Shrunk
      BY <1>2, <1>8 DEF update_deadline, executor, Phases
    <2>3. Routed
      BY <1>2, <1>8 DEF update_deadline
    <2> QED BY <2>1, <2>2, <2>3
  <1>9. CASE deadline_timer
    <2>1. Rest
      BY <1>9 DEF deadline_timer
    <2>2. Shrunk
      BY <1>2, <1>9 DEF deadline_timer, executor
    <2>3. Routed
      BY <1>2, <1>9, QueuedOk DEF deadline_timer
    <2> QED BY <2>1, <2>2, <2>3
  <1>10. CASE device_result
    <2>1. Rest
      BY <1>10 DEF device_result
    <2>2. Shrunk
      BY <1>2, <1>10 DEF device_result, executor, runtime
    <2>3. Routed
      BY <1>2, <1>10, MessagesAre DEF device_result
    <2> QED BY <2>1, <2>2, <2>3
  <1>11. CASE device_event
    <2>1. Rest
      BY <1>11 DEF device_event
    <2>2. Shrunk
      BY <1>2, <1>11 DEF device_event, executor, runtime
    <2>3. Routed
      BY <1>2, <1>11, MessagesAre DEF device_event
    <2> QED BY <2>1, <2>2, <2>3
  <1>12. CASE route_event
    <2>1. Rest
      BY <1>12 DEF route_event
    <2>2. Shrunk
      BY <1>2, <1>12 DEF route_event, executor, runtime
    <2>3. Routed
      BY <1>2, <1>12, QueuedOk DEF route_event
    <2> QED BY <2>1, <2>2, <2>3
  <1> QED
    BY <1>4, <1>5, <1>6, <1>7, <1>8, <1>9, <1>10, <1>11, <1>12

\* A tick of the clock changes the time left, and nothing else.
LEMMA TickKeeps ==
  ASSUME ScenarioInv, Tick
  PROVE ScenarioInv' /\ \A b \in Branches : br'[b].req = br[b].req
  <1>1. /\ pending' = [r \in Requests |-> Less(pending[r])]
        /\ br' = [b \in Branches |-> [br[b] EXCEPT !.left = Less(@)]]
        /\ UNCHANGED <<valid, flags, summary, starts, dispatch, after, published,
                       in_flight, rtq, phase, cur, expired>>
    BY DEF Tick
  <1>2. /\ SessionOk /\ ThreadsOk /\ OwnerOk /\ TablesOk /\ PendingOk /\ WaitsOk
        /\ TrackedIsDispatched
    BY DEF ScenarioInv
  <1>3. UNCHANGED <<plan, disp, req, owner>>
    BY <1>1 DEF dispatch
  <1>4. \A d \in Int : Less(d) \in Int
    BY DEF Less
  <1>5. ASSUME NEW b \in Branches
        PROVE /\ BranchOk(b, br'[b]) /\ br'[b].state = br[b].state
              /\ br'[b].step = br[b].step /\ br'[b].wait = br[b].wait
              /\ br'[b].req = br[b].req
    <2> DEFINE c == br[b]
               d == br'[b]
    <2>1. BranchOk(b, c) /\ c \in Branch
      BY <1>2 DEF SessionOk, BranchOk
    <2>2. d = [c EXCEPT !.left = Less(@)]
      BY <1>1
    <2> HIDE DEF c, d
    <2>3. c.left \in Int
      BY <2>1 DEF Branch, Deadline
    <2>4. /\ d \in Branch /\ d.state = c.state /\ d.step = c.step /\ d.wait = c.wait
          /\ d.req = c.req /\ d.events = c.events
      BY <1>4, <2>1, <2>2, <2>3 DEF Branch, Deadline
    <2>5. BranchOk(b, d)
      BY <2>1, <2>4 DEF BranchOk
    <2> QED BY <2>4, <2>5 DEF c, d
  <1>6. SessionOk'
    BY <1>1, <1>2, <1>5 DEF SessionOk
  <1>7. ThreadsOk' /\ OwnerOk'
    BY <1>1, <1>2, <1>3 DEF ThreadsOk, OwnerOk
  <1>8. WaitsOk'
    <2>1. \A b \in Branches : Failed(br, b) => Failed(br', b)
      BY <1>5 DEF Failed
    <2> SUFFICES ASSUME NEW b \in Branches, br'[b].wait = "DISPATCH"
                 PROVE \/ \E t \in Threads : PlanFor(plan'[t], b, br'[b])
                       \/ \E c \in Active \ {b} : Failed(br', c)
      BY DEF WaitsOk
    <2>2. CASE \E t \in Threads : PlanFor(plan[t], b, br[b])
      BY <1>3, <1>5, <2>2 DEF PlanFor
    <2>3. CASE \E c \in Active \ {b} : Failed(br, c)
      BY <2>1, <2>3, BranchNumbers
    <2> QED BY <1>2, <1>5, <2>2, <2>3 DEF WaitsOk
  <1>9. TablesOk' /\ PendingOk' /\ TrackedIsDispatched'
    <2>1. \A r \in Requests : pending[r] \in Int /\ pending[r] >= None
      BY <1>2 DEF TablesOk
    <2>2. \A d \in Int : d >= None => Less(d) >= None /\ (Less(d) # None => d # None)
      BY DEF Less, None
    <2>3. /\ pending' \in [Requests -> Int]
          /\ \A r \in Requests : /\ pending'[r] >= None
                                 /\ pending'[r] # None => pending[r] # None
      BY <1>1, <1>4, <2>1, <2>2
    <2> QED BY <1>1, <1>2, <1>3, <2>3, TablesShrink DEF TablesOk
  <1> QED BY <1>5, <1>6, <1>7, <1>8, <1>9 DEF ScenarioInv

\* The runtime task leaves a lock section with w.
LEMMA TaskLeaves ==
  ASSUME ScenarioInv, Free("rt"), valid, NEW w, WorldOk(w),
         Leave("rt", w, Summary(w), FALSE), Carry("rt", w.plan),
         \A b \in Branches : w.br[b].wait = "DISPATCH" =>
            w.br[b] = br[b] \/ PlanFor(w.plan, b, w.br[b]),
         \A b \in Branches : Failed(br, b) => Failed(w.br, b),
         UNCHANGED <<valid, starts, req, owner, executor, in_flight, rtq, expired>>,
         phase' \in Phases
  PROVE ScenarioInv' /\ br' = w.br
  <1>1. /\ SessionOk /\ ThreadsOk /\ OwnerOk /\ WaitsOk /\ starts \in Nat
        /\ TablesOk /\ PendingOk /\ TrackedIsDispatched /\ valid \in BOOLEAN
    BY DEF ScenarioInv, SessionOk
  <1>2. br' = w.br /\ valid' = TRUE /\ starts' \in Nat
    BY <1>1 DEF Leave
  <1>3. SessionOk'
    BY <1>2, SummaryOk, SessionLeft
  <1>4. TablesOk' /\ PendingOk' /\ TrackedIsDispatched'
    BY <1>1, TablesKept
  <1>5. /\ "rt" \in Threads /\ disp["rt"] # "owner" /\ plan["rt"] = NoPlan
        /\ DOMAIN req' = Threads /\ \A t \in Threads : req'[t] \in Requests \cup {None}
        /\ DOMAIN after' = Threads
    BY <1>1 DEF Free, Threads, ThreadsOk, Leave
  <1>6. ThreadsOk' /\ OwnerOk'
    BY <1>1, <1>5, Carried DEF WorldOk
  <1>7. WaitsOk'
    <2>1. \A b \in Branches : br'[b].wait = "DISPATCH" =>
             \/ br'[b] = br[b] /\ ~PlanFor(plan["rt"], b, br[b])
             \/ PlanFor(w.plan, b, br'[b])
      BY <1>2, <1>5 DEF PlanFor
    <2>2. \A b \in Branches : Failed(br, b) => Failed(br', b)
      BY <1>2
    <2> QED BY <1>1, <1>5, <2>1, <2>2, WaitsMoved
  <1> QED BY <1>2, <1>3, <1>4, <1>6, <1>7 DEF ScenarioInv

\* The runtime task does nothing in a lock section.
LEMMA TaskPasses ==
  ASSUME ScenarioInv,
         UNCHANGED <<br, flags, summary, after, plan, disp, valid, starts, req, owner,
                     executor, in_flight, rtq, expired>>,
         phase' \in Phases
  PROVE ScenarioInv' /\ br' = br
  <1>1. TablesOk' /\ PendingOk' /\ TrackedIsDispatched'
    BY TablesKept DEF ScenarioInv
  <1>2. SessionOk' /\ WaitsOk'
    BY DEF ScenarioInv, SessionOk, WaitsOk
  <1>3. ThreadsOk' /\ OwnerOk'
    BY DEF ScenarioInv, ThreadsOk, OwnerOk
  <1> QED BY <1>1, <1>2, <1>3 DEF ScenarioInv

\* The periodic work.
LEMMA WorkKeeps ==
  ASSUME ScenarioInv, process_work
  PROVE ScenarioInv' /\ NotLeft
  <1>1. /\ Free("rt") /\ phase' \in Phases
        /\ UNCHANGED <<valid, starts, req, owner, executor, in_flight, rtq, expired>>
    BY DEF process_work, Task, Phases
  <1>2. CASE valid
    <2> DEFINE w == EachBranch(Process, World)
    <2>1. Leave("rt", w, Summary(w), FALSE) /\ Carry("rt", w.plan)
      BY <1>2 DEF process_work
    <2>2. WorldOk(World) /\ World.br = br /\ World.plan = NoPlan /\ starts \in Nat
      BY <1>2, WorldIs DEF ScenarioInv, SessionOk
    <2>3. Since("work", World, w, Len(Script))
      <3>1. PICK g : Rounds("work", World, Len(Script), g) /\ w = g[Len(Script)]
        BY WorkLoop
      <3> HIDE DEF w
      <3> QED BY <2>2, <3>1, RoundsGoOn DEF Loops
    <2> HIDE DEF w
    <2>4. /\ WorldOk(w)
          /\ \A b \in Branches : w.br[b].wait = "DISPATCH" =>
               w.br[b] = br[b] \/ PlanFor(w.plan, b, w.br[b])
          /\ \A b \in Branches : Failed(br, b) => Failed(w.br, b)
          /\ \A b \in Branches : br[b].wait = "RESULT" => w.br[b] = br[b]
      BY <2>2, <2>3 DEF Since
    <2>5. ScenarioInv' /\ br' = w.br
      BY <1>1, <1>2, <2>1, <2>4, TaskLeaves
    <2> QED BY <2>4, <2>5 DEF NotLeft
  <1>3. CASE ~valid
    <2>1. UNCHANGED <<br, flags, summary, after, plan, disp>>
      BY <1>3 DEF process_work
    <2> QED BY <1>1, <2>1, TaskPasses DEF NotLeft
  <1> QED BY <1>2, <1>3

\* The current command result ends the wait for that request.
Ended == \A b \in Branches :
           br[b].wait = "RESULT" /\ br'[b] # br[b] =>
             /\ phase \in {"match", "timeout"} /\ phase' # phase
             /\ cur.kind = "result" /\ cur.id = br[b].req
             /\ cur.status \in Terminal

\* An event or a command result.
LEMMA OnEventKeeps ==
  ASSUME ScenarioInv, on_event
  PROVE ScenarioInv' /\ Ended
  <1>1. /\ Free("rt") /\ phase \in {"match", "timeout"} /\ phase' # phase
        /\ phase' \in Phases
        /\ UNCHANGED <<valid, starts, req, owner, executor, in_flight, rtq, expired>>
    BY DEF on_event, Task, Phases
  <1>2. CASE ~(valid /\ (cur.kind = "result" => Waiters(cur.id) # {}))
    <2>1. UNCHANGED <<br, flags, summary, after, plan, disp>>
      BY <1>2 DEF on_event
    <2> QED BY <1>1, <2>1, TaskPasses DEF Ended
  <1>3. CASE valid /\ cur.kind # "result"
    <2> DEFINE w == EachBranch(Matched, World)
    <2>1. Leave("rt", w, Summary(w), FALSE) /\ Carry("rt", w.plan)
      BY <1>3 DEF on_event
    <2>2. WorldOk(World) /\ World.br = br /\ World.plan = NoPlan /\ starts \in Nat
      BY <1>3, WorldIs DEF ScenarioInv, SessionOk
    <2>3. Since("event", World, w, Len(Script))
      <3>1. PICK g : Rounds("event", World, Len(Script), g) /\ w = g[Len(Script)]
        BY EventLoop
      <3> HIDE DEF w
      <3> QED BY <2>2, <3>1, RoundsGoOn DEF Loops
    <2> HIDE DEF w
    <2>4. /\ WorldOk(w)
          /\ \A b \in Branches : w.br[b].wait = "DISPATCH" =>
               w.br[b] = br[b] \/ PlanFor(w.plan, b, w.br[b])
          /\ \A b \in Branches : Failed(br, b) => Failed(w.br, b)
          /\ \A b \in Branches : br[b].wait = "RESULT" => w.br[b] = br[b]
      BY <2>2, <2>3 DEF Since
    <2>5. ScenarioInv' /\ br' = w.br
      BY <1>1, <1>3, <2>1, <2>4, TaskLeaves
    <2> QED BY <2>4, <2>5 DEF Ended
  <1>4. CASE valid /\ cur.kind = "result" /\ Waiters(cur.id) # {}
    <2> DEFINE a == Min(Waiters(cur.id))
               w == Answered(World, a)
    <2>1. Leave("rt", w, Summary(w), FALSE) /\ Carry("rt", w.plan)
      BY <1>4 DEF on_event
    <2>2. WorldOk(World) /\ World.br = br /\ World.plan = NoPlan /\ starts \in Nat
      BY <1>4, WorldIs DEF ScenarioInv, SessionOk
    <2>3. /\ a \in Branches /\ br[a].state = "WAITING" /\ br[a].wait = "RESULT"
          /\ br[a].req = cur.id
      <3>1. Waiters(cur.id) \in SUBSET Nat /\ Waiters(cur.id) \subseteq Branches
        BY BranchNumbers DEF Waiters, First
      <3>2. a \in Waiters(cur.id)
        BY <1>4, <3>1, MinIn
      <3> HIDE DEF a
      <3> QED BY <3>1, <3>2 DEF Waiters, First
    <2> HIDE DEF a
    <2>4. Moves(World, w, a) /\ (w.br[a] # br[a] => cur.status \in Terminal)
      <3>1. CASE cur.status = "done"
        <4>1. w = Advance(World, a)
          BY <3>1 DEF Answered
        <4> QED BY <2>2, <2>3, <3>1, <4>1, AdvanceMoves DEF Terminal
      <3>2. CASE cur.status \in {"failed", "timeout"}
        <4> DEFINE u == Become(World, a, Moved(World.br[a].step, "ERROR"))
        <4>1. w = [u EXCEPT !.err = TRUE]
          BY <3>2 DEF Answered
        <4>2. Moves(World, u, a)
          BY <2>2, <2>3, ErrorMoves
        <4> HIDE DEF w, u
        <4>3. DOMAIN u = Fields
          BY <4>2 DEF Moves, WorldOk
        <4>4. /\ DOMAIN w = Fields /\ w.br = u.br /\ w.flags = u.flags
              /\ w.plan = u.plan /\ w.scratch = u.scratch /\ w.cancel = u.cancel
          BY <4>1, <4>3 DEF Fields
        <4>5. WorldOk(w)
          BY <4>2, <4>4 DEF Moves, WorldOk
        <4>6. Moves(World, w, a)
          BY <4>2, <4>4, <4>5 DEF Moves
        <4> QED BY <3>2, <4>6 DEF Terminal
      <3>3. CASE cur.status \notin {"done", "failed", "timeout"}
        <4>1. w = [World EXCEPT !.scratch = World.br[a].state]
          BY <3>3 DEF Answered
        <4> QED BY <2>2, <2>3, <4>1, LookedMoves
      <3> QED BY <3>1, <3>2, <3>3
    <2> HIDE DEF w
    <2>5. /\ WorldOk(w)
          /\ \A b \in Branches : w.br[b].wait = "DISPATCH" =>
               w.br[b] = br[b] \/ PlanFor(w.plan, b, w.br[b])
          /\ \A b \in Branches \ {a} : w.br[b] = br[b]
      BY <2>2, <2>4 DEF Moves
    <2>6. \A b \in Branches : Failed(br, b) => Failed(w.br, b)
      <3>1. \A b \in Branches \ {a} : Failed(br, b) => Failed(w.br, b)
        BY <2>5 DEF Failed
      <3>2. Failed(br, a) => Failed(w.br, a)
        BY <2>2, <2>4 DEF Moves
      <3> QED BY <3>1, <3>2
    <2>7. ScenarioInv' /\ br' = w.br
      BY <1>1, <1>4, <2>1, <2>5, <2>6, TaskLeaves
    <2> QED BY <1>1, <1>4, <2>3, <2>4, <2>5, <2>7 DEF Ended
  <1> QED BY <1>2, <1>3, <1>4

-----------------------------------------------------------------------------
(* The theorems *)

\* The initial state of the runtime.
LEMMA InitOk == ScenarioInit => ScenarioInv
  <1> SUFFICES ASSUME ScenarioInit PROVE ScenarioInv
    OBVIOUS
  <1> USE DEF ScenarioInit
  <1>1. \A b \in Branches : /\ BranchOk(b, NoBranch) /\ NoBranch.wait = "NONE"
    <2> SUFFICES ASSUME NEW b \in Branches
                 PROVE BranchOk(b, Moved(1, "NONE")) /\ Moved(1, "NONE").wait = "NONE"
      BY DEF NoBranch
    <2>1. 1 \in 1 .. Len(Script[b]) + 1
      BY Steps
    <2> QED BY <2>1, MovedOk
  <1>2. SessionOk
    BY <1>1 DEF SessionOk, SummaryStates
  <1>3. ThreadsOk /\ OwnerOk
    BY DEF ThreadsOk, OwnerOk, DispStates
  <1>4. TablesOk
    BY Bounds DEF TablesOk, Phases, None
  <1>5. Tracked = {}
    BY DEF Tracked
  <1>6. PendingOk /\ TrackedIsDispatched
    BY <1>5, FS_EmptySet, Bounds DEF PendingOk, TrackedIsDispatched
  <1>7. WaitsOk
    BY <1>1 DEF WaitsOk
  <1> QED BY <1>2, <1>3, <1>4, <1>6, <1>7 DEF ScenarioInv

\* What a step does to the branches that wait for a result.
Patience ==
    \A b \in Branches :
      br[b].wait = "RESULT" /\ br'[b].req # br[b].req =>
        \/ /\ phase \in {"match", "timeout"} /\ phase' # phase
           /\ cur.kind = "result" /\ cur.id = br[b].req
           /\ cur.status \in Terminal
        \/ after'["http"] # after["http"]
        \/ \E th \in Threads : disp[th] = "fail"

\* Every step keeps the invariant, and is patient.
LEMMA StepOk == ScenarioInv /\ [ScenarioNext]_scenario_vars => ScenarioInv' /\ Patience
  <1> SUFFICES ASSUME ScenarioInv, [ScenarioNext]_scenario_vars
               PROVE ScenarioInv' /\ Patience
    OBVIOUS
  <1>1. CASE scenario_start
    BY <1>1, StartKeeps DEF GivenUp, Patience
  <1>2. CASE scenario_start_invalid \/ scenario_stop \/ scenario_reset
    BY <1>2, EndsKeep DEF GivenUp, Patience
  <1>3. CASE scenario_next \/ scenario_next_branch \/ scenario_approve
    BY <1>3, InterventionsKeep DEF GivenUp, Patience
  <1>4. CASE \/ receive \/ executor_on_event \/ poll_timeouts \/ handle_timeout
             \/ update_deadline \/ deadline_timer \/ device_result \/ device_event
             \/ route_event
    <2>1. ScenarioInv' /\ br' = br
      BY <1>4, MessagesKeep
    <2> QED BY <2>1 DEF Patience
  <1>5. CASE on_event
    BY <1>5, OnEventKeeps DEF Ended, Patience
  <1>6. CASE process_work
    BY <1>6, WorkKeeps DEF NotLeft, Patience
  <1>7. ASSUME NEW th \in Threads, Dispatch(th)
        PROVE ScenarioInv' /\ Patience
    <2>1. CASE Unlocked(th)
      BY <2>1, UnlockedKeeps DEF Patience
    <2>2. CASE next_command(th)
      BY <2>2, NextCommandKeeps DEF Patience
    <2>3. CASE dispatch_take(th)
      BY <2>3, TakeKeeps DEF Patience
    <2>4. CASE plan_fail(th)
      BY <2>4, PlanFailKeeps DEF Patience
    <2>5. CASE apply_dispatch(th)
      BY <2>5, ApplyKeeps DEF NotLeft, Patience
    <2> QED BY <1>7, <2>1, <2>2, <2>3, <2>4, <2>5 DEF Dispatch
  <1>8. CASE dispatch_publish
    BY <1>8, PublishKeeps DEF Patience
  <1>9. CASE Tick
    BY <1>9, TickKeeps DEF Patience
  <1>10. CASE UNCHANGED scenario_vars
    <2>1. UNCHANGED <<br, flags, summary, after, plan, disp, valid, starts, req, owner,
                      executor, in_flight, rtq, expired>> /\ phase' = phase
      BY <1>10 DEF scenario_vars, session, dispatch, runtime
    <2>2. phase' \in Phases
      BY <2>1 DEF ScenarioInv, TablesOk
    <2> QED BY <2>1, <2>2, TaskPasses DEF Patience
  <1> QED
    BY <1>1, <1>2, <1>3, <1>4, <1>5, <1>6, <1>7, <1>8, <1>9, <1>10
       DEF ScenarioNext, Unattended, StartOrReset, Interventions, RuntimeTask

\* The invariant holds throughout.
LEMMA InvHolds == ScenarioSpec => []ScenarioInv
  <1>1. ScenarioInv /\ [ScenarioNext]_scenario_vars => ScenarioInv'
    BY StepOk
  <1> QED BY <1>1, InitOk, PTL DEF ScenarioSpec

\* A branch that waits for its command to be dispatched is never forgotten,
\* whatever script runs and whatever the operator, the devices and the other
\* thread do meanwhile, but for the start that fails for another branch.
THEOREM WaitsHavePlans == ScenarioSpec => []DispatchWaitHasPlan
  <1>1. ScenarioInv => DispatchWaitHasPlan
    <2> SUFFICES ASSUME ScenarioInv PROVE DispatchWaitHasPlan
      OBVIOUS
    <2>1. RuntimeBounds
      BY DEF ScenarioInv, RuntimeBounds, SessionOk, ThreadsOk, TablesOk, PendingOk,
             BranchOk, PlanOk, SummaryStates, DispStates, Phases
    <2>2. \A c : Failed(br, c) = StartFailed(c)
      BY DEF Failed, StartFailed
    <2> QED BY <2>1, <2>2 DEF ScenarioInv, WaitsOk, PlanFor, DispatchWaitHasPlan
  <1> QED BY <1>1, InvHolds, PTL

\* A branch that waits for a result goes on only with a terminal result of that
\* request, or when the operator or a failed dispatch gives it up.
THEOREM ResultsAreAwaited == ScenarioSpec => ResultWaitIsPatient
  <1>1. ScenarioInv /\ [ScenarioNext]_scenario_vars => [Patience]_scenario_vars
    BY StepOk
  <1>2. ScenarioSpec => [][Patience]_scenario_vars
    BY <1>1, InvHolds, PTL DEF ScenarioSpec
  <1> QED BY <1>2 DEF ResultWaitIsPatient, Patience

\* The executor tracks only requests that are with the dispatch owner or
\* with a device: none is left behind by a failed publish, a cancel or a timeout.
THEOREM TrackedAreDispatched == ScenarioSpec => []TrackedIsDispatched
  <1>1. ScenarioInv => TrackedIsDispatched
    BY DEF ScenarioInv
  <1> QED BY <1>1, InvHolds, PTL
=============================================================================
