---------------------- MODULE GovernedExecutionProofs ----------------------
(***************************************************************************)
(* What one use of the governed executor promises, proved for any leases,  *)
(* executors and runs, any limits, and any number of crashes.              *)
(*                                                                         *)
(* A reservation admits one executor to a run.  From then on the run's     *)
(* budget, agent and lease change only in step with that executor, so the  *)
(* invariant is stated executor by executor: what the stores hold at each  *)
(* of its steps.                                                           *)
(***************************************************************************)
EXTENDS GovernedExecution, SequenceTheorems, TLAPS

-----------------------------------------------------------------------------
(* The inductive invariant *)

\* Steps before the lease, steps with it, steps between the launch and the
\* charge of the duration, and steps before that charge
Unleased == {"attempt", "acquire"}
Leased == {"launch"} \cup PollSteps \cup CloseSteps \cup {"cancel", "signal", "done"}
Launched == PollSteps \cup {"cancel", "signal", "final", "duration"}
Uncharged == StartSteps \cup Launched

\* A cancellation after the final charge: the agent ended
Closing(e) ==
    e.step \in CloseSteps \/ (e.step \in {"cancel", "signal"} /\ e.after = "duration")

\* The lease of the run is the one its executor took, and a cancellation
\* that the executor knows of is in the store.
LeaseFollows(e, agent, table) ==
    /\ \A id \in LeaseIds : table[id].run = e.run => e.step \notin Unleased /\ id = e.lease
    /\ e.step \in Leased \/ agent.launches = 1 =>
          e.lease \in LeaseIds /\ table[e.lease].run = e.run
    /\ e.step \in Leased /\ e.held.status # "active" => table[e.lease].status # "active"
    /\ e.step = "signal" => table[e.lease].status # "active"
    /\ agent.signalled =>
          \A id \in LeaseIds : table[id].run = e.run => table[id].status # "active"
    /\ e.step \in {"release_budget", "revoke"} \/ e.revoked =>
          /\ e.lease \in LeaseIds /\ table[e.lease].run = e.run
          /\ table[e.lease].status = "released"

\* The copy of the reservation is exact, and an overage is remembered.
BudgetFollows(e, budget, agent) ==
    /\ e.budget = budget /\ budget.used = e.last_usage
    /\ budget.status \in {"active", "exhausted", "released"}
    /\ budget.status = "exhausted" => e.exceeded
    /\ budget.status # "exhausted" => ~Exceeds(budget.used, budget.duration)
    /\ e.step = "attempt" => budget.attempts = 0
    /\ e.step \notin {"attempt", "raised", "dead"} \/ agent.launches = 1 => budget.attempts = 1
    /\ e.step \in Uncharged => budget.duration = 0 /\ budget.status # "released"
    /\ e.step = "revoke" \/ e.revoked => budget.status # "active"

\* The agent is started once, and has ended when the executor closes.
AgentFollows(e, agent) ==
    /\ agent.launches = IF agent.status = "unstarted" THEN 0 ELSE 1
    /\ e.step \in StartSteps => agent.status = "unstarted" /\ ~agent.signalled
    /\ e.step \in Launched => agent.status # "unstarted"
    /\ Closing(e) \/ e.revoked => agent.status # "running"

\* From the final charge on, what the agent reported is charged or the
\* overage is known; a completed result has all of it inside the limits.
ResultFollows(e, budget, agent) ==
    LET Charges == budget.used = FinalUsage(agent, e)
    IN  /\ e.step \in {"cancel", "signal"} => e.after \in {"poll", "observe", "duration", "raised"}
        /\ e.step \in {"cancel", "signal"} /\ e.after = "duration" => e.exceeded
        /\ e.step = "duration" => e.exceeded \/ (budget.status = "active" /\ Charges)
        /\ e.step \in Uncharged => e.result = "none"
        /\ e.step \notin {"raised", "done"} => ~e.revoked
        /\ e.result = "completed" =>
              /\ agent.status = "completed" /\ budget.status # "exhausted" /\ Charges
              /\ agent.ended_at - agent.started_at <= MaxDuration

\* The stores hold what they should at the executor's step.
Agree(e, budget, agent, table) ==
    /\ LeaseFollows(e, agent, table) /\ BudgetFollows(e, budget, agent)
    /\ AgentFollows(e, agent) /\ ResultFollows(e, budget, agent)

Follows(w) ==
    LET r == executors[w].run
    IN  Agree(executors[w], budgets[r], agents[r], leases)

\* An executor without a run has done nothing.
Unused(e) ==
    e.step \in {"idle", "raised"} /\ e.result = "none" /\ ~e.revoked /\ e.last_usage = 0

\* A run without an executor is as it was in the beginning.
Untouched(r) ==
    /\ budgets[r].status = "none"
    /\ agents[r].status = "unstarted" /\ agents[r].launches = 0 /\ ~agents[r].signalled
    /\ \A id \in LeaseIds : leases[id].run # r

GovernedInv ==
    /\ TypeOK
    /\ \A id \in LeaseIds : leases[id].status = "none" => leases[id].run = NoRun
    /\ \A w \in Workers : IF executors[w].run = NoRun THEN Unused(executors[w])
                          ELSE executors[w].step # "idle" /\ Follows(w)
    /\ \A v, w \in Workers : executors[v].run = executors[w].run /\ v # w
                             => executors[v].run = NoRun
    /\ \A r \in Runs : (\A w \in Workers : executors[w].run # r) => Untouched(r)

-----------------------------------------------------------------------------
(* Frames *)

\* Initially no executor has a run.
LEMMA InitGoverned == Init => GovernedInv
<1> SUFFICES ASSUME Init PROVE GovernedInv
  OBVIOUS
<1>1. NoLease \in Lease /\ NoLease.run = NoRun
  BY DEF NoLease, Lease
<1>2. NoBudget \in Budget /\ NoAgent \in Agent
  BY GovernedExecutionAssumption DEF NoBudget, Budget, NoAgent, Agent
<1>3. NewExecutor \in Executor
  BY <1>2, GovernedExecutionAssumption DEF NewExecutor, Executor, NotHeld, Steps, Stopped
<1>4. TypeOK
  BY <1>1, <1>2, <1>3, GovernedExecutionAssumption DEF Init, TypeOK
<1>5. \A w \in Workers : executors[w].run = NoRun /\ Unused(executors[w])
  BY DEF Init, NewExecutor, Unused
<1>6. \A r \in Runs : Untouched(r)
  BY <1>1, LeaseTableAssumption DEF Init, Untouched, NoBudget, NoAgent
<1> QED
  BY <1>1, <1>4, <1>5, <1>6 DEF Init, GovernedInv

\* What the invariant says of an executor that has a run
LEMMA RunFacts ==
    ASSUME GovernedInv, NEW w \in Workers, executors[w].run # NoRun
    PROVE  /\ executors[w] \in Executor /\ executors[w].run \in Runs
           /\ executors[w].step # "idle" /\ Follows(w)
           /\ budgets[executors[w].run] \in Budget /\ agents[executors[w].run] \in Agent
<1>1. executors[w] \in Executor
  BY DEF GovernedInv, TypeOK
<1>2. executors[w].run \in Runs
  BY <1>1 DEF Executor
<1> QED
  BY <1>1, <1>2 DEF GovernedInv, TypeOK

\* An executor is unaffected by what does not touch its run.
LEMMA OtherRun ==
    ASSUME GovernedInv, NEW v \in Workers, executors[v].run # NoRun,
           executors'[v] = executors[v],
           budgets'[executors[v].run] = budgets[executors[v].run],
           agents'[executors[v].run] = agents[executors[v].run],
           \A id \in LeaseIds : \/ leases'[id] = leases[id]
                                \/ /\ leases[id].run # executors[v].run
                                   /\ leases'[id].run # executors[v].run
    PROVE  Follows(v)'
<1> DEFINE e == executors[v]
           agent == agents[e.run]
<1>1. LeaseFollows(e, agent, leases) /\ Follows(v)
  BY RunFacts DEF Follows, Agree
<1>2. LeaseFollows(e, agent, leases')
  BY <1>1 DEF LeaseFollows, Leased
<1> QED
  BY <1>1, <1>2 DEF Follows, Agree

\* A step of one executor, on its own run
LEMMA ExecutorMoves ==
    ASSUME GovernedInv, NEW w \in Workers, executors[w].run # NoRun,
           NEW f \in Executor, f.run = executors[w].run, f.step # "idle",
           NEW budget \in Budget, NEW agent \in Agent, NEW table \in [LeaseIds -> Lease],
           executors' = [executors EXCEPT ![w] = f], leases' = table,
           \/ budgets' = [budgets EXCEPT ![f.run] = budget]
           \/ UNCHANGED budgets /\ budget = budgets[f.run],
           \/ agents' = [agents EXCEPT ![f.run] = agent]
           \/ UNCHANGED agents /\ agent = agents[f.run],
           \A id \in LeaseIds : \/ table[id] = leases[id]
                                \/ /\ leases[id].run \in {NoRun, f.run} /\ table[id].run = f.run
                                   /\ table[id].status # "none",
           UNCHANGED clock, crashes' \in 0..Crashes,
           Agree(f, budget, agent, table)
    PROVE  GovernedInv'
<1>1. executors'[w] = f /\ \A v \in Workers \ {w} : executors'[v] = executors[v]
  BY DEF GovernedInv, TypeOK
<1>2. f.run \in Runs /\ f.run # NoRun
  BY RunFacts
<1>3. TypeOK'
  BY DEF GovernedInv, TypeOK
<1>4. /\ budgets'[f.run] = budget /\ agents'[f.run] = agent
      /\ \A r \in Runs : r # f.run => budgets'[r] = budgets[r] /\ agents'[r] = agents[r]
  BY <1>2 DEF GovernedInv, TypeOK
<1>5. \A id \in LeaseIds : leases'[id].status = "none" => leases'[id].run = NoRun
  BY DEF GovernedInv
<1>6. \A v \in Workers : executors'[v].run = executors[v].run
  BY <1>1
<1>7. Follows(w)'
  BY <1>1, <1>4 DEF Follows
<1>8. ASSUME NEW v \in Workers \ {w}, executors[v].run # NoRun
      PROVE  Follows(v)'
  <2>1. executors[v].run # f.run /\ executors[v].run \in Runs
    BY <1>8, RunFacts DEF GovernedInv
  <2> QED
    BY <1>1, <1>2, <1>4, <1>8, <2>1, OtherRun
<1>9. \A v \in Workers : IF executors'[v].run = NoRun THEN Unused(executors'[v])
                         ELSE executors'[v].step # "idle" /\ Follows(v)'
  BY <1>1, <1>2, <1>7, <1>8 DEF GovernedInv
<1>10. \A v, u \in Workers : executors'[v].run = executors'[u].run /\ v # u
                             => executors'[v].run = NoRun
  BY <1>6 DEF GovernedInv
<1>11. ASSUME NEW r \in Runs, \A v \in Workers : executors'[v].run # r
       PROVE  Untouched(r)'
  <2>1. r # f.run /\ Untouched(r)
    BY <1>1, <1>6, <1>11 DEF GovernedInv
  <2> QED
    BY <2>1, <1>4, LeaseTableAssumption DEF Untouched
<1> QED
  BY <1>3, <1>5, <1>9, <1>10, <1>11 DEF GovernedInv

\* A step that changes nothing but the executor
LEMMA ExecutorOnly ==
    ASSUME GovernedInv, NEW w \in Workers, executors[w].run # NoRun,
           NEW f \in Executor, f.run = executors[w].run, f.step # "idle",
           executors' = [executors EXCEPT ![w] = f],
           UNCHANGED <<clock, leases, budgets, agents>>, crashes' \in 0..Crashes,
           Agree(f, budgets[f.run], agents[f.run], leases)
    PROVE  GovernedInv'
  BY ExecutorMoves, RunFacts DEF GovernedInv, TypeOK

\* An error or a death keeps what the stores and the executor have.
LEMMA Stops ==
    ASSUME GovernedInv, NEW w \in Workers, executors[w].run # NoRun,
           executors[w].step \notin Stopped,
           NEW step \in {"raised", "dead"},
           executors' = [executors EXCEPT ![w] = [executors[w] EXCEPT !.step = step]],
           UNCHANGED <<clock, leases, budgets, agents>>, crashes' \in 0..Crashes
    PROVE  GovernedInv'
<1> DEFINE e == executors[w]
           f == [e EXCEPT !.step = step]
           budget == budgets[e.run]
           agent == agents[e.run]
<1>1. e \in Executor /\ e.run \in Runs /\ Agree(e, budget, agent, leases)
  BY RunFacts DEF Follows
<1>2. f \in Executor /\ f.step = step /\ ~e.revoked
  BY <1>1 DEF Executor, Steps, Stopped, Agree, ResultFollows
<1>3. /\ f.run = e.run /\ f.lease = e.lease /\ f.budget = e.budget /\ f.result = e.result
      /\ f.revoked = e.revoked /\ f.exceeded = e.exceeded /\ f.last_usage = e.last_usage
  BY <1>1 DEF Executor
<1> HIDE DEF f, budget, agent
<1>4. LeaseFollows(f, agent, leases)
  BY <1>1, <1>2, <1>3 DEF Agree, LeaseFollows, Leased, Unleased, PollSteps, CloseSteps
<1>5. BudgetFollows(f, budget, agent)
  BY <1>1, <1>2, <1>3 DEF Agree, BudgetFollows, Uncharged, Launched, StartSteps, PollSteps
<1>6. AgentFollows(f, agent) /\ ResultFollows(f, budget, agent)
  BY <1>1, <1>2, <1>3 DEF Agree, AgentFollows, ResultFollows, Closing, FinalUsage,
                          Uncharged, Launched, StartSteps, PollSteps, CloseSteps
<1> QED
  BY <1>1, <1>2, <1>3, <1>4, <1>5, <1>6, ExecutorOnly DEF f, budget, agent, Agree

\* An executor that holds a new copy of its lease, at some step
LEMMA LeaseCopied ==
    ASSUME NEW e \in Executor, NEW table \in [LeaseIds -> Lease], NEW id \in LeaseIds,
           NEW step \in Steps
    PROVE  LET f == [WithLease(e, table, id) EXCEPT !.step = step]
           IN  /\ f \in Executor /\ f.step = step /\ f.lease = id /\ f.run = e.run
               /\ f.held.status = table[id].status /\ f.budget = e.budget
               /\ f.last_usage = e.last_usage /\ f.exceeded = e.exceeded /\ f.after = e.after
               /\ f.revoked = e.revoked /\ f.result = e.result
<1> DEFINE held == [status |-> table[id].status, version |-> table[id].version,
                    last_heartbeat_at |-> table[id].last_heartbeat_at]
           f == [[e EXCEPT !.lease = id, !.held = held] EXCEPT !.step = step]
<1>1. table[id] \in Lease
  OBVIOUS
<1>2. held \in [status: LiveStatuses \cup TerminalLeaseStatuses \cup {"none"},
                version: Nat, last_heartbeat_at: Int]
  BY <1>1 DEF Lease
<1>3. held.status = table[id].status
  OBVIOUS
<1>4. f = [WithLease(e, table, id) EXCEPT !.step = step]
  BY DEF WithLease
<1> HIDE DEF held
<1>5. /\ f \in Executor /\ f.step = step /\ f.lease = id /\ f.run = e.run
      /\ f.held = held /\ f.budget = e.budget
      /\ f.last_usage = e.last_usage /\ f.exceeded = e.exceeded /\ f.after = e.after
      /\ f.revoked = e.revoked /\ f.result = e.result
  BY <1>2 DEF Executor
<1> HIDE DEF f
<1> QED
  BY <1>3, <1>4, <1>5

-----------------------------------------------------------------------------
(* The steps of an executor *)

\* A step to another place of the polling loop, or out of it, that leaves
\* the stores and the agent alone
LEMMA Proceeds ==
    ASSUME GovernedInv, NEW w \in Workers, executors[w].run # NoRun,
           executors[w].step \in {"launch"} \cup PollSteps,
           NEW f \in Executor, executors' = [executors EXCEPT ![w] = f],
           f.run = executors[w].run, f.lease = executors[w].lease, f.held = executors[w].held,
           f.budget = executors[w].budget, f.last_usage = executors[w].last_usage,
           f.exceeded = executors[w].exceeded, f.revoked = executors[w].revoked,
           f.result = executors[w].result,
           \/ f.step \in PollSteps /\ executors[w].step \in PollSteps
           \/ f.step = "cancel" /\ f.after \in {"poll", "raised"} /\ executors[w].step \in PollSteps
           \/ /\ f.step = "signal" /\ f.after \in {"poll", "raised"}
              /\ executors[w].step \in PollSteps /\ f.held.status # "active"
           \/ f.step = "final" /\ agents[f.run].status # "running"
              /\ executors[w].step \in PollSteps
           \/ f.step = "release_lease" /\ executors[w].step = "launch"
           \/ f.step = "raised",
           UNCHANGED <<clock, leases, budgets, agents, crashes>>
    PROVE  GovernedInv'
<1> DEFINE e == executors[w]
           budget == budgets[e.run]
           agent == agents[e.run]
<1>1. e \in Executor /\ e.run \in Runs /\ Agree(e, budget, agent, leases)
  BY RunFacts DEF Follows
<1> HIDE DEF budget, agent
<1>2. LeaseFollows(f, agent, leases)
  BY <1>1 DEF Agree, LeaseFollows, Leased, Unleased, PollSteps, CloseSteps
<1>3. BudgetFollows(f, budget, agent)
  BY <1>1 DEF Agree, BudgetFollows, Uncharged, Launched, StartSteps, PollSteps
<1>4. AgentFollows(f, agent)
  BY <1>1 DEF Agree, AgentFollows, Closing, Launched, StartSteps, PollSteps, CloseSteps, agent
<1>5. ResultFollows(f, budget, agent)
  BY <1>1 DEF Agree, ResultFollows, FinalUsage, Uncharged, Launched, StartSteps, PollSteps
<1>6. crashes \in 0..Crashes /\ f.step # "idle"
  BY DEF GovernedInv, TypeOK, PollSteps
<1> QED
  BY <1>1, <1>2, <1>3, <1>4, <1>5, <1>6, ExecutorOnly DEF budget, agent, Agree

\* The steps of the polling loop that only move the executor
LEMMA LoopSteps ==
    ASSUME GovernedInv, NEW w \in Workers, executors[w].run # NoRun,
           LaunchFails(w) \/ FetchEvents(w) \/ Collect(w) \/ Deadline(w)
    PROVE  GovernedInv'
<1> DEFINE e == executors[w]
<1>1. e \in Executor /\ e.run \in Runs /\ agents[e.run] \in Agent
  BY RunFacts
<1>2. CASE LaunchFails(w)
  <2> DEFINE f == [e EXCEPT !.step = "release_lease"]
  <2>1. f \in Executor
    BY <1>1 DEF Executor, Steps, CloseSteps
  <2> QED
    BY <1>1, <1>2, <2>1, Proceeds DEF Executor, LaunchFails, Executing, Becomes
<1>3. CASE FetchEvents(w)
  <2> DEFINE f == [[e EXCEPT !.pending = agents[e.run].reports] EXCEPT !.step = "observe"]
  <2>1. f \in Executor
    BY <1>1 DEF Executor, Agent, Steps, PollSteps
  <2>2. e.step \in PollSteps /\ f.step \in PollSteps
    BY <1>1, <1>3 DEF FetchEvents, Executing, PollSteps, Executor
  <2> QED
    BY <1>1, <1>3, <2>1, <2>2, Proceeds DEF Executor, FetchEvents, Executing, Becomes
<1>4. CASE Collect(w)
  <2> DEFINE step == IF agents[e.run].status = "running" THEN "poll" ELSE "final"
             f == [e EXCEPT !.step = step]
  <2>1. /\ executors' = [executors EXCEPT ![w] = f] /\ e.step \in PollSteps
        /\ UNCHANGED <<clock, leases, budgets, agents, crashes>>
    BY <1>4 DEF Collect, Executing, Becomes, PollSteps
  <2>2. \/ step \in PollSteps
        \/ step = "final" /\ agents[e.run].status # "running"
    BY DEF PollSteps
  <2>3. step \in Steps
    BY <2>2 DEF Steps, PollSteps, CloseSteps
  <2> HIDE DEF step
  <2>4. /\ f \in Executor /\ f.step = step /\ f.run = e.run /\ f.lease = e.lease
        /\ f.held = e.held /\ f.budget = e.budget /\ f.last_usage = e.last_usage
        /\ f.exceeded = e.exceeded /\ f.revoked = e.revoked /\ f.result = e.result
    BY <1>1, <2>3 DEF Executor
  <2> HIDE DEF f
  <2> QED
    BY <1>1, <2>1, <2>2, <2>4, Proceeds
<1>5. CASE Deadline(w)
  <2>1. e.step \in PollSteps /\ UNCHANGED <<clock, leases, budgets, agents, crashes>>
    BY <1>5 DEF Deadline, Executing, PollSteps
  <2>2. CASE e.timed_out
    <3>1. e.step \notin Stopped /\ crashes' \in 0..Crashes
      BY <1>5 DEF Deadline, Executing, Stopped, GovernedInv, TypeOK
    <3>2. executors' = [executors EXCEPT ![w] = [e EXCEPT !.step = "raised"]]
      BY <1>5, <2>2 DEF Deadline, Raise, Becomes
    <3> QED
      BY <2>1, <3>1, <3>2, Stops
  <2>3. CASE ~e.timed_out
    <3> DEFINE d == [e EXCEPT !.timed_out = TRUE, !.after = "poll"]
               step == IF d.held.status = "active" THEN "cancel" ELSE "signal"
               f == [d EXCEPT !.step = step]
    <3>1. executors' = [executors EXCEPT ![w] = f]
      BY <1>5, <2>3 DEF Deadline, Becomes
    <3>2. step \in Steps /\ (step = "cancel" \/ (step = "signal" /\ e.held.status # "active"))
      BY <1>1 DEF Steps, Executor
    <3> HIDE DEF step
    <3>3. /\ f \in Executor /\ f.step = step /\ f.run = e.run /\ f.lease = e.lease
          /\ f.held = e.held /\ f.budget = e.budget /\ f.last_usage = e.last_usage
          /\ f.exceeded = e.exceeded /\ f.revoked = e.revoked /\ f.result = e.result
          /\ f.after = "poll"
      BY <1>1, <3>2 DEF Executor, Steps, PollSteps
    <3> HIDE DEF f
    <3> QED
      BY <1>1, <2>1, <3>1, <3>2, <3>3, Proceeds
  <2> QED
    BY <2>2, <2>3
<1> QED
  BY <1>2, <1>3, <1>4, <1>5

\* A reservation is given once, to an executor without a run: the run was
\* untouched, and now it is this executor's.
LEMMA ReserveKeeps ==
    ASSUME GovernedInv, NEW w \in Workers, NEW r \in Runs, Reserve(w, r)
    PROVE  GovernedInv'
<1> DEFINE e == executors[w]
           f == [[e EXCEPT !.run = r, !.budget = Reserved] EXCEPT !.step = "attempt"]
<1>1. e \in Executor /\ e.step = "idle" /\ e.run = NoRun /\ Unused(e)
  BY DEF GovernedInv, TypeOK, Reserve, Executing
<1>2. CASE ~CanReserve(budgets[r])
  <2> DEFINE g == [e EXCEPT !.step = "raised"]
  <2>1. executors' = [executors EXCEPT ![w] = g] /\ UNCHANGED <<clock, leases, budgets, agents, crashes>>
    BY <1>2 DEF Reserve, Raise, Becomes
  <2>2. g \in Executor /\ g.run = NoRun /\ Unused(g)
    BY <1>1 DEF Executor, Steps, Stopped, Unused
  <2> HIDE DEF g
  <2>3. executors'[w] = g /\ \A v \in Workers \ {w} : executors'[v] = executors[v]
    BY <2>1 DEF GovernedInv, TypeOK
  <2>4. TypeOK'
    BY <2>1, <2>2 DEF GovernedInv, TypeOK
  <2>5. \A v \in Workers : executors'[v].run = executors[v].run
    BY <1>1, <2>2, <2>3
  <2>6. \A v \in Workers : IF executors'[v].run = NoRun THEN Unused(executors'[v])
                           ELSE executors'[v].step # "idle" /\ Follows(v)'
    BY <1>1, <2>1, <2>2, <2>3, OtherRun DEF GovernedInv
  <2>7. \A u \in Runs : Untouched(u) => Untouched(u)'
    BY <2>1 DEF Untouched
  <2> QED
    BY <2>1, <2>4, <2>5, <2>6, <2>7 DEF GovernedInv
<1>3. CASE CanReserve(budgets[r])
  <2>1. /\ executors' = [executors EXCEPT ![w] = f] /\ budgets' = [budgets EXCEPT ![r] = Reserved]
        /\ UNCHANGED <<clock, leases, agents, crashes>>
    BY <1>3 DEF Reserve, Becomes
  <2>2. /\ Reserved \in Budget /\ Reserved.status = "active" /\ Reserved.used = 0
        /\ Reserved.duration = 0 /\ Reserved.attempts = 0
    BY DEF Reserved, NoBudget, Budget
  <2>3. /\ f \in Executor /\ f.run = r /\ f.step = "attempt" /\ f.budget = Reserved
        /\ f.last_usage = 0 /\ f.result = "none" /\ ~f.revoked
    BY <1>1, <2>2 DEF Executor, Steps, StartSteps, Unused
  <2> HIDE DEF f
  <2>4. r # NoRun
    BY LeaseTableAssumption
  <2>5. ASSUME NEW v \in Workers PROVE executors[v].run # r
    <3> SUFFICES ASSUME executors[v].run = r PROVE FALSE
      OBVIOUS
    <3>1. budgets[r].status # "none"
      BY <2>4, RunFacts DEF Follows, Agree, BudgetFollows
    <3> QED
      BY <1>3, <3>1 DEF CanReserve
  <2>6. Untouched(r)
    BY <2>5 DEF GovernedInv
  <2>7. executors'[w] = f /\ \A v \in Workers \ {w} : executors'[v] = executors[v]
    BY <2>1 DEF GovernedInv, TypeOK
  <2>8. budgets'[r] = Reserved /\ \A u \in Runs \ {r} : budgets'[u] = budgets[u]
    BY <2>1 DEF GovernedInv, TypeOK
  <2>9. TypeOK'
    BY <2>1, <2>2, <2>3 DEF GovernedInv, TypeOK
  <2>10. agents[r] \in Agent
    BY DEF GovernedInv, TypeOK
  <2>11. LeaseFollows(f, agents[r], leases)
    BY <2>3, <2>6 DEF Untouched, LeaseFollows, Leased, PollSteps, CloseSteps
  <2>12. BudgetFollows(f, Reserved, agents[r])
    BY <2>2, <2>3, <2>6, GovernedExecutionAssumption DEF Untouched, BudgetFollows, Exceeds
  <2>13. AgentFollows(f, agents[r]) /\ ResultFollows(f, Reserved, agents[r])
    BY <2>3, <2>6 DEF Untouched, AgentFollows, Closing, ResultFollows, Launched, PollSteps, CloseSteps
  <2>14. Follows(w)'
    BY <2>1, <2>3, <2>7, <2>8, <2>11, <2>12, <2>13 DEF Follows, Agree
  <2>15. ASSUME NEW v \in Workers \ {w}, executors[v].run # NoRun PROVE Follows(v)'
    BY <2>1, <2>5, <2>7, <2>8, <2>15, RunFacts, OtherRun
  <2>16. \A v \in Workers : IF executors'[v].run = NoRun THEN Unused(executors'[v])
                            ELSE executors'[v].step # "idle" /\ Follows(v)'
    BY <2>3, <2>4, <2>7, <2>14, <2>15 DEF GovernedInv
  <2>17. \A v, u \in Workers : executors'[v].run = executors'[u].run /\ v # u
                               => executors'[v].run = NoRun
    BY <2>3, <2>5, <2>7 DEF GovernedInv
  <2>18. ASSUME NEW u \in Runs, \A v \in Workers : executors'[v].run # u
         PROVE  Untouched(u)'
    <3>1. u # r /\ Untouched(u)
      BY <1>1, <2>3, <2>7, <2>18, LeaseTableAssumption DEF GovernedInv
    <3> QED
      BY <2>1, <2>8, <3>1 DEF Untouched
  <2> QED
    BY <2>1, <2>9, <2>16, <2>17, <2>18 DEF GovernedInv
<1> QED
  BY <1>2, <1>3

\* A first attempt is inside every limit.
LEMMA FirstAttempt ==
    ASSUME NEW b \in Budget, b.status = "active", b.attempts = 0
    PROVE  /\ Attempted(b) \in Budget /\ Attempted(b).status = "active"
           /\ Attempted(b).attempts = 1 /\ Attempted(b).used = b.used
           /\ Attempted(b).duration = b.duration
<1>1. MaxAttempts \in Nat \ {0}
  BY GovernedExecutionAssumption
<1>2. ~(b.attempts + 1 > MaxAttempts)
  BY <1>1
<1>3. Attempted(b) = [b EXCEPT !.version = b.version + 1, !.attempts = b.attempts + 1,
                              !.status = b.status]
  BY <1>2 DEF Attempted
<1>4. b.version + 1 \in Nat /\ b.attempts + 1 \in Nat /\ b.attempts + 1 = 1
  BY DEF Budget
<1> QED
  BY <1>3, <1>4 DEF Budget

\* The one attempt is inside the limit, so the reservation stays active.
LEMMA AuthorizeKeeps ==
    ASSUME GovernedInv, NEW w \in Workers, executors[w].run # NoRun, AuthorizeAttempt(w)
    PROVE  GovernedInv'
<1> DEFINE e == executors[w]
           agent == agents[e.run]
           updated == Attempted(budgets[e.run])
           step == IF updated.status = "active" THEN "acquire" ELSE "raised"
           f == [[e EXCEPT !.budget = updated] EXCEPT !.step = step]
<1>1. /\ e \in Executor /\ e.run \in Runs /\ budgets[e.run] \in Budget /\ agents[e.run] \in Agent
      /\ Agree(e, budgets[e.run], agent, leases)
  BY RunFacts DEF Follows
<1>2. e.step = "attempt" /\ UNCHANGED <<clock, leases, agents, crashes>>
  BY DEF AuthorizeAttempt, Executing
<1>3. leases \in [LeaseIds -> Lease] /\ crashes' \in 0..Crashes
  BY <1>2 DEF GovernedInv, TypeOK
<1>4. CASE ~Chargeable(budgets[e.run], e.budget)
  <2>1. executors' = [executors EXCEPT ![w] = [e EXCEPT !.step = "raised"]] /\ UNCHANGED budgets
    BY <1>4 DEF AuthorizeAttempt, Raise, Becomes
  <2> QED
    BY <1>2, <1>3, <2>1, Stops DEF Stopped
<1>5. CASE Chargeable(budgets[e.run], e.budget)
  <2>1. executors' = [executors EXCEPT ![w] = f] /\ budgets' = [budgets EXCEPT ![e.run] = updated]
    BY <1>5 DEF AuthorizeAttempt, Becomes
  <2>2. budgets[e.run].status = "active" /\ budgets[e.run].attempts = 0
    BY <1>1, <1>2, <1>5 DEF Agree, BudgetFollows, Chargeable
  <2>3. /\ updated \in Budget /\ updated.status = "active" /\ updated.attempts = 1
        /\ updated.used = budgets[e.run].used /\ updated.duration = budgets[e.run].duration
    BY <1>1, <2>2, FirstAttempt
  <2> HIDE DEF updated
  <2>4. /\ f \in Executor /\ f.step = "acquire" /\ f.run = e.run /\ f.lease = e.lease
        /\ f.budget = updated /\ f.last_usage = e.last_usage
        /\ f.exceeded = e.exceeded /\ f.revoked = e.revoked /\ f.result = e.result
    BY <1>1, <2>3 DEF Executor, Steps, StartSteps
  <2> HIDE DEF f
  <2>5. LeaseFollows(f, agent, leases)
    BY <1>1, <1>2, <2>4 DEF Agree, LeaseFollows, Leased, Unleased, PollSteps, CloseSteps
  <2>6. BudgetFollows(f, updated, agent)
    BY <1>1, <1>2, <2>2, <2>3, <2>4 DEF Agree, BudgetFollows, Exceeds, Uncharged, Launched, StartSteps
  <2>7. AgentFollows(f, agent) /\ ResultFollows(f, updated, agent)
    BY <1>1, <1>2, <2>4 DEF Agree, AgentFollows, Closing, ResultFollows, Uncharged, Launched,
                            StartSteps, PollSteps, CloseSteps
  <2>8. Agree(f, updated, agent, leases)
    BY <2>5, <2>6, <2>7 DEF Agree
  <2> QED
    BY <1>1, <1>2, <1>3, <2>1, <2>3, <2>4, <2>8, ExecutorMoves
<1> QED
  BY <1>4, <1>5

\* The lease is drawn for a run that has none.
LEMMA AcquireKeeps ==
    ASSUME GovernedInv, NEW w \in Workers, executors[w].run # NoRun, AcquireLease(w)
    PROVE  GovernedInv'
<1> DEFINE e == executors[w]
           budget == budgets[e.run]
           agent == agents[e.run]
<1>1. /\ e \in Executor /\ e.run \in Runs /\ budget \in Budget /\ agent \in Agent
      /\ Agree(e, budget, agent, leases)
  BY RunFacts DEF Follows
<1>2. e.step = "acquire" /\ UNCHANGED <<clock, budgets, agents, crashes>>
  BY DEF AcquireLease, Executing
<1>3. leases \in [LeaseIds -> Lease] /\ clock \in Nat /\ crashes' \in 0..Crashes
  BY <1>2, GovernedExecutionAssumption DEF GovernedInv, TypeOK
<1>4. PICK id \in Drawable(leases) :
         IF CanAcquire(leases, e.run)
         THEN /\ leases' = Acquire(leases, id, w, e.run, clock, LeaseSeconds)
              /\ executors' = [executors EXCEPT
                    ![w] = [WithLease(e, leases', id) EXCEPT !.step = "launch"]]
         ELSE UNCHANGED leases /\ executors' = [executors EXCEPT ![w] = [e EXCEPT !.step = "raised"]]
  BY DEF AcquireLease, Raise, Becomes
<1>5. id \in LeaseIds /\ leases[id].run = NoRun
  BY DEF Drawable, GovernedInv
<1>6. CASE ~CanAcquire(leases, e.run)
  BY <1>2, <1>3, <1>4, <1>6, Stops DEF Stopped
<1>7. CASE CanAcquire(leases, e.run)
  <2> DEFINE table == Acquire(leases, id, w, e.run, clock, LeaseSeconds)
             f == [WithLease(e, table, id) EXCEPT !.step = "launch"]
  <2>1. executors' = [executors EXCEPT ![w] = f] /\ leases' = table
    BY <1>4, <1>7
  <2>2. /\ table \in [LeaseIds -> Lease]
        /\ table[id].run = e.run /\ table[id].status = "active" /\ table[id].version = 1
        /\ table[id].last_heartbeat_at = clock
        /\ \A other \in LeaseIds \ {id} : table[other] = leases[other]
    BY <1>1, <1>3, <1>5, GovernedExecutionAssumption DEF Acquire, Lease, LiveStatuses
  <2> HIDE DEF table
  <2>3. /\ f \in Executor /\ f.step = "launch" /\ f.run = e.run /\ f.lease = id
        /\ f.held.status = "active" /\ f.budget = e.budget /\ f.last_usage = e.last_usage
        /\ f.exceeded = e.exceeded /\ f.revoked = e.revoked /\ f.result = e.result
    BY <1>1, <1>5, <2>2, LeaseCopied DEF Steps, StartSteps
  <2> HIDE DEF f
  <2>4. LeaseFollows(f, agent, table)
    BY <1>1, <1>2, <1>5, <2>2, <2>3
    DEF Agree, LeaseFollows, Unleased, ResultFollows, AgentFollows, StartSteps
  <2>5. BudgetFollows(f, budget, agent)
    BY <1>1, <1>2, <2>3 DEF Agree, BudgetFollows, Uncharged, Launched, StartSteps
  <2>6. AgentFollows(f, agent) /\ ResultFollows(f, budget, agent)
    BY <1>1, <1>2, <2>3 DEF Agree, AgentFollows, Closing, ResultFollows, Uncharged, Launched,
                            StartSteps, PollSteps, CloseSteps
  <2>7. Agree(f, budget, agent, table)
    BY <2>4, <2>5, <2>6 DEF Agree
  <2>8. \A x \in LeaseIds : \/ table[x] = leases[x]
                            \/ /\ leases[x].run \in {NoRun, f.run} /\ table[x].run = f.run
                               /\ table[x].status # "none"
    BY <1>5, <2>2, <2>3
  <2> QED
    BY <1>1, <1>2, <1>3, <2>1, <2>2, <2>3, <2>7, <2>8, ExecutorMoves
<1> QED
  BY <1>6, <1>7

\* delegate.start: the one launch of the run
LEMMA LaunchKeeps ==
    ASSUME GovernedInv, NEW w \in Workers, executors[w].run # NoRun, Launch(w)
    PROVE  GovernedInv'
<1> DEFINE e == executors[w]
           budget == budgets[e.run]
           agent == agents[e.run]
           started == [agent EXCEPT !.status = "running", !.launches = @ + 1, !.started_at = clock]
           f == [e EXCEPT !.step = "poll"]
<1>1. /\ e \in Executor /\ e.run \in Runs /\ budget \in Budget /\ agent \in Agent
      /\ Agree(e, budget, agent, leases)
  BY RunFacts DEF Follows
<1>2. /\ e.step = "launch" /\ UNCHANGED <<clock, leases, budgets, crashes>>
      /\ executors' = [executors EXCEPT ![w] = f]
  BY DEF Launch, Executing, Becomes
<1>3. agents' = [agents EXCEPT ![e.run] = started]
  BY <1>1 DEF Launch, GovernedInv, TypeOK
<1>4. leases \in [LeaseIds -> Lease] /\ clock \in 0..MaxTime /\ crashes' \in 0..Crashes
  BY <1>2 DEF GovernedInv, TypeOK
<1>5. /\ agent.status = "unstarted" /\ agent.launches = 0 /\ ~agent.signalled
      /\ e.result = "none" /\ ~e.revoked
  BY <1>1, <1>2 DEF Agree, AgentFollows, ResultFollows, Uncharged, Launched, StartSteps
<1>6. /\ started \in Agent /\ started.status = "running" /\ started.launches = 1
      /\ ~started.signalled
  <2>1. started = [agent EXCEPT !.status = "running", !.launches = 1, !.started_at = clock]
    BY <1>1, <1>5 DEF Agent
  <2> HIDE DEF started, agent
  <2> QED
    BY <1>1, <1>4, <1>5, <2>1 DEF Agent
<1>7. /\ f \in Executor /\ f.step = "poll" /\ f.run = e.run /\ f.lease = e.lease
      /\ f.held = e.held /\ f.budget = e.budget /\ f.last_usage = e.last_usage
      /\ f.exceeded = e.exceeded /\ f.revoked = e.revoked /\ f.result = e.result
  BY <1>1 DEF Executor, Steps, PollSteps
<1> HIDE DEF budget, started, f
<1>8. LeaseFollows(f, started, leases)
  BY <1>1, <1>2, <1>5, <1>6, <1>7 DEF Agree, LeaseFollows, Leased, Unleased
<1>9. BudgetFollows(f, budget, started)
  BY <1>1, <1>2, <1>5, <1>6, <1>7 DEF Agree, BudgetFollows, Uncharged, Launched, StartSteps, PollSteps
<1>10. AgentFollows(f, started) /\ ResultFollows(f, budget, started)
  BY <1>5, <1>6, <1>7
  DEF AgentFollows, Closing, ResultFollows, StartSteps, CloseSteps
<1>11. Agree(f, budget, started, leases)
  BY <1>8, <1>9, <1>10 DEF Agree
<1> QED
  BY <1>1, <1>2, <1>3, <1>4, <1>6, <1>7, <1>11, ExecutorMoves DEF budget

\* delegate.cancel: by then the request is in the store.
LEMMA SignalKeeps ==
    ASSUME GovernedInv, NEW w \in Workers, executors[w].run # NoRun, Signal(w)
    PROVE  GovernedInv'
<1> DEFINE e == executors[w]
           budget == budgets[e.run]
           agent == agents[e.run]
           told == [agent EXCEPT !.signalled = TRUE]
           f == [e EXCEPT !.step = e.after]
<1>1. /\ e \in Executor /\ e.run \in Runs /\ budget \in Budget /\ agent \in Agent
      /\ Agree(e, budget, agent, leases)
  BY RunFacts DEF Follows
<1>2. /\ e.step = "signal" /\ UNCHANGED <<clock, leases, budgets, crashes>>
      /\ executors' = [executors EXCEPT ![w] = f]
  BY DEF Signal, Executing, Becomes
<1>3. agents' = [agents EXCEPT ![e.run] = told]
  BY <1>1 DEF Signal, GovernedInv, TypeOK
<1>4. leases \in [LeaseIds -> Lease] /\ crashes' \in 0..Crashes
  BY <1>2 DEF GovernedInv, TypeOK
<1>5. e.after \in {"poll", "observe", "duration", "raised"}
  BY <1>1, <1>2 DEF Agree, ResultFollows
<1>6. /\ told \in Agent /\ told.status = agent.status /\ told.launches = agent.launches
      /\ told.signalled /\ told.reports = agent.reports /\ told.started_at = agent.started_at
      /\ told.ended_at = agent.ended_at
  BY <1>1 DEF Agent
<1>7. /\ f \in Executor /\ f.step = e.after /\ f.run = e.run /\ f.lease = e.lease
      /\ f.held = e.held /\ f.budget = e.budget /\ f.last_usage = e.last_usage
      /\ f.exceeded = e.exceeded /\ f.revoked = e.revoked /\ f.result = e.result
  BY <1>1, <1>5 DEF Executor
<1> HIDE DEF budget, agent, told, f
<1>8. LeaseFollows(f, told, leases)
  BY <1>1, <1>2, <1>5, <1>6, <1>7 DEF Agree, LeaseFollows, Leased, Unleased, PollSteps, CloseSteps
<1>9. BudgetFollows(f, budget, told)
  BY <1>1, <1>2, <1>5, <1>6, <1>7 DEF Agree, BudgetFollows, Uncharged, Launched
<1>10. AgentFollows(f, told)
  BY <1>1, <1>2, <1>5, <1>6, <1>7 DEF Agree, AgentFollows, Closing, Launched, StartSteps, PollSteps, CloseSteps
<1>11. ResultFollows(f, budget, told)
  BY <1>1, <1>2, <1>5, <1>6, <1>7
  DEF Agree, ResultFollows, BudgetFollows, FinalUsage, Uncharged, Launched, StartSteps, PollSteps
<1>12. Agree(f, budget, told, leases)
  BY <1>8, <1>9, <1>10, <1>11 DEF Agree
<1> QED
  BY <1>1, <1>2, <1>3, <1>4, <1>5, <1>6, <1>7, <1>12, ExecutorMoves DEF budget

\* A transaction on the executor's own lease, that returns the row
LEMMA LeaseWritten ==
    ASSUME GovernedInv, NEW w \in Workers, executors[w].run # NoRun,
           NEW table \in [LeaseIds -> Lease], NEW step \in Steps,
           executors[w].step \in {"cancel", "heartbeat", "release_lease"},
           leases' = table, UNCHANGED <<clock, budgets, agents, crashes>>,
           executors' = [executors EXCEPT
               ![w] = [WithLease(executors[w], table, executors[w].lease) EXCEPT !.step = step]],
           \A id \in LeaseIds \ {executors[w].lease} : table[id] = leases[id],
           table[executors[w].lease].run = leases[executors[w].lease].run,
           table[executors[w].lease].status # "none",
           \/ /\ executors[w].step = "cancel" /\ step = "signal"
              /\ table[executors[w].lease].status # "active"
           \/ /\ executors[w].step = "heartbeat" /\ step = "collect"
              /\ leases[executors[w].lease].status = "active"
           \/ /\ executors[w].step = "release_lease" /\ step = "release_budget"
              /\ table[executors[w].lease].status = "released"
    PROVE  GovernedInv'
<1> DEFINE e == executors[w]
           budget == budgets[e.run]
           agent == agents[e.run]
           f == [WithLease(e, table, e.lease) EXCEPT !.step = step]
<1>1. /\ e \in Executor /\ e.run \in Runs /\ budget \in Budget /\ agent \in Agent
      /\ Agree(e, budget, agent, leases)
  BY RunFacts DEF Follows
<1>2. e.lease \in LeaseIds /\ leases[e.lease].run = e.run
  BY <1>1 DEF Agree, LeaseFollows, Leased, PollSteps, CloseSteps
<1>3. /\ f \in Executor /\ f.step = step /\ f.lease = e.lease /\ f.run = e.run
      /\ f.held.status = table[e.lease].status /\ f.budget = e.budget
      /\ f.last_usage = e.last_usage /\ f.exceeded = e.exceeded /\ f.after = e.after
      /\ f.revoked = e.revoked /\ f.result = e.result
  BY <1>1, <1>2, LeaseCopied
<1>4. crashes' \in 0..Crashes
  BY DEF GovernedInv, TypeOK
<1>5. \A id \in LeaseIds : table[id].run = leases[id].run
  OBVIOUS
<1> HIDE DEF budget, agent, f
<1>6. LeaseFollows(f, agent, table)
  BY <1>1, <1>2, <1>3, <1>5
  DEF Agree, LeaseFollows, Leased, Unleased, PollSteps, CloseSteps, ResultFollows
<1>7. BudgetFollows(f, budget, agent)
  BY <1>1, <1>3 DEF Agree, BudgetFollows, Uncharged, Launched, StartSteps, PollSteps
<1>8. AgentFollows(f, agent)
  BY <1>1, <1>3 DEF Agree, AgentFollows, Closing, Launched, StartSteps, PollSteps, CloseSteps
<1>9. ResultFollows(f, budget, agent)
  BY <1>1, <1>3 DEF Agree, ResultFollows, FinalUsage, Uncharged, Launched, StartSteps, PollSteps
<1>10. Agree(f, budget, agent, table)
  BY <1>6, <1>7, <1>8, <1>9 DEF Agree
<1>11. \A id \in LeaseIds : \/ table[id] = leases[id]
                            \/ /\ leases[id].run \in {NoRun, f.run} /\ table[id].run = f.run
                               /\ table[id].status # "none"
  BY <1>2, <1>3
<1>12. /\ UNCHANGED <<clock, budgets, agents>> /\ leases' = table
       /\ executors' = [executors EXCEPT ![w] = f] /\ f.step # "idle"
       /\ budget = budgets[f.run] /\ agent = agents[f.run]
  BY <1>3 DEF budget, agent, f
<1>13. UNCHANGED budgets /\ budget = budgets[f.run]
  BY <1>12
<1>14. UNCHANGED agents /\ agent = agents[f.run]
  BY <1>12
<1>15. f \in Executor /\ f.run = executors[w].run /\ budget \in Budget /\ agent \in Agent
  BY <1>1, <1>3
<1> QED
  BY <1>4, <1>10, <1>11, <1>12, <1>13, <1>14, <1>15, ExecutorMoves

\* The store's transactions write one row, and keep its run.
LEMMA RowsWritten ==
    ASSUME NEW table \in [LeaseIds -> Lease], NEW id \in LeaseIds, NEW when \in Nat
    PROVE  /\ LET new == RequestCancel(table, id, when)
              IN  /\ new \in [LeaseIds -> Lease] /\ new[id].run = table[id].run
                  /\ new[id].status = "cancel_requested"
                  /\ \A other \in LeaseIds \ {id} : new[other] = table[other]
           /\ LET new == Heartbeat(table, id, when, LeaseSeconds)
              IN  /\ new \in [LeaseIds -> Lease] /\ new[id].run = table[id].run
                  /\ new[id].status = table[id].status
                  /\ \A other \in LeaseIds \ {id} : new[other] = table[other]
           /\ LET new == Release(table, id, when)
              IN  /\ new \in [LeaseIds -> Lease] /\ new[id].run = table[id].run
                  /\ new[id].status = "released"
                  /\ \A other \in LeaseIds \ {id} : new[other] = table[other]
<1>1. table[id] \in Lease /\ LeaseSeconds \in Nat
  BY GovernedExecutionAssumption
<1>2. when + LeaseSeconds \in Int /\ table[id].version + 1 \in Nat /\ table[id].expires_at - 1 \in Int
  BY <1>1 DEF Lease
<1> DEFINE row == table[id]
           cancelled == [row EXCEPT !.status = "cancel_requested", !.version = @ + 1,
                                    !.last_heartbeat_at = when]
           beaten == [row EXCEPT !.version = @ + 1, !.last_heartbeat_at = when,
                                 !.expires_at = when + LeaseSeconds]
           last == IF when < row.expires_at - 1 THEN when ELSE row.expires_at - 1
           released == [row EXCEPT !.status = "released", !.version = @ + 1,
                                   !.last_heartbeat_at = last]
<1>3. /\ RequestCancel(table, id, when) = [table EXCEPT ![id] = cancelled]
      /\ Heartbeat(table, id, when, LeaseSeconds) = [table EXCEPT ![id] = beaten]
      /\ Release(table, id, when) = [table EXCEPT ![id] = released]
  BY <1>1, <1>2 DEF RequestCancel, Heartbeat, Release, Lease
<1>4. last \in Int /\ row.version + 1 \in Nat /\ when \in Int
  BY <1>1, <1>2 DEF Lease
<1> HIDE DEF last
<1>5. cancelled \in Lease /\ cancelled.run = row.run /\ cancelled.status = "cancel_requested"
  BY <1>1, <1>4 DEF Lease, LiveStatuses
<1>6. beaten \in Lease /\ beaten.run = row.run /\ beaten.status = row.status
  BY <1>1, <1>2, <1>4 DEF Lease
<1>7. released \in Lease /\ released.run = row.run /\ released.status = "released"
  BY <1>1, <1>2, <1>4 DEF Lease, TerminalLeaseStatuses
<1> HIDE DEF cancelled, beaten, released
<1>8. ASSUME NEW new \in Lease
      PROVE  /\ [table EXCEPT ![id] = new] \in [LeaseIds -> Lease]
             /\ [table EXCEPT ![id] = new][id] = new
             /\ \A other \in LeaseIds \ {id} : [table EXCEPT ![id] = new][other] = table[other]
  OBVIOUS
<1> QED
  BY <1>3, <1>5, <1>6, <1>7, <1>8

\* The transactions of an executor on its lease: a request to cancel, a
\* heartbeat, the release
LEMMA LeaseSteps ==
    ASSUME GovernedInv, NEW w \in Workers, executors[w].run # NoRun,
           PersistCancel(w) \/ HeartbeatIfDue(w) \/ ReleaseLease(w)
    PROVE  GovernedInv'
<1> DEFINE e == executors[w]
<1>1. /\ e \in Executor /\ e.run \in Runs /\ e.lease \in LeaseIds
      /\ leases[e.lease].run = e.run /\ leases[e.lease].status # "none"
  <2>1. e \in Executor /\ e.run \in Runs /\ LeaseFollows(e, agents[e.run], leases)
    BY RunFacts DEF Follows, Agree
  <2>2. e.step \in Leased
    BY DEF PersistCancel, HeartbeatIfDue, ReleaseLease, Executing, Leased, PollSteps, CloseSteps
  <2>3. e.lease \in LeaseIds /\ leases[e.lease].run = e.run
    BY <2>1, <2>2 DEF LeaseFollows
  <2> QED
    BY <2>1, <2>3 DEF GovernedInv
<1>2. leases \in [LeaseIds -> Lease] /\ clock \in Nat /\ crashes \in 0..Crashes
  BY GovernedExecutionAssumption DEF GovernedInv, TypeOK
<1>3. CASE PersistCancel(w)
  <2> DEFINE table == RequestCancel(leases, e.lease, clock)
  <2>1. e.step = "cancel" /\ UNCHANGED <<clock, budgets, agents, crashes>>
    BY <1>3 DEF PersistCancel, Executing
  <2>2. CASE CanRequestCancel(leases, e.lease, e.held.version, clock)
    <3>1. /\ leases' = table
          /\ executors' = [executors EXCEPT ![w] = [WithLease(e, table, e.lease) EXCEPT !.step = "signal"]]
      BY <1>3, <2>2 DEF PersistCancel, Becomes
    <3>2. /\ table \in [LeaseIds -> Lease] /\ table[e.lease].run = leases[e.lease].run
          /\ table[e.lease].status = "cancel_requested"
          /\ \A id \in LeaseIds \ {e.lease} : table[id] = leases[id]
      BY <1>1, <1>2, RowsWritten
    <3>3. "signal" \in Steps
      BY DEF Steps
    <3> HIDE DEF table
    <3> QED
      BY <2>1, <3>1, <3>2, <3>3, LeaseWritten
  <2>3. CASE ~CanRequestCancel(leases, e.lease, e.held.version, clock)
    <3>1. executors' = [executors EXCEPT ![w] = [e EXCEPT !.step = "raised"]] /\ UNCHANGED leases
      BY <1>3, <2>3 DEF PersistCancel, Raise, Becomes
    <3> QED
      BY <1>2, <2>1, <3>1, Stops DEF Stopped
  <2> QED
    BY <2>2, <2>3
<1>4. CASE ReleaseLease(w)
  <2> DEFINE table == Release(leases, e.lease, clock)
  <2>1. e.step = "release_lease" /\ UNCHANGED <<clock, budgets, agents, crashes>>
    BY <1>4 DEF ReleaseLease, Executing
  <2>2. CASE CanRelease(leases, e.lease, e.held.version)
    <3>1. /\ leases' = table
          /\ executors' = [executors EXCEPT
                ![w] = [WithLease(e, table, e.lease) EXCEPT !.step = "release_budget"]]
      BY <1>4, <2>2 DEF ReleaseLease, Becomes
    <3>2. /\ table \in [LeaseIds -> Lease] /\ table[e.lease].run = leases[e.lease].run
          /\ table[e.lease].status = "released"
          /\ \A id \in LeaseIds \ {e.lease} : table[id] = leases[id]
      BY <1>1, <1>2, RowsWritten
    <3>3. "release_budget" \in Steps
      BY DEF Steps, CloseSteps
    <3> HIDE DEF table
    <3> QED
      BY <2>1, <3>1, <3>2, <3>3, LeaseWritten
  <2>3. CASE ~CanRelease(leases, e.lease, e.held.version)
    <3>1. executors' = [executors EXCEPT ![w] = [e EXCEPT !.step = "raised"]] /\ UNCHANGED leases
      BY <1>4, <2>3 DEF ReleaseLease, Raise, Becomes
    <3> QED
      BY <1>2, <2>1, <3>1, Stops DEF Stopped
  <2> QED
    BY <2>2, <2>3
<1>5. CASE HeartbeatIfDue(w)
  <2> DEFINE due == e.held.status = "active" /\ clock - e.held.last_heartbeat_at >= HeartbeatEvery
             allowed == CanHeartbeat(leases, e.lease, e.held.version, clock)
             table == Heartbeat(leases, e.lease, clock, LeaseSeconds)
  <2>1. e.step = "heartbeat" /\ e.step \in PollSteps /\ UNCHANGED <<clock, budgets, agents, crashes>>
    BY <1>5 DEF HeartbeatIfDue, Executing, PollSteps
  <2>2. CASE ~due
    <3> DEFINE f == [e EXCEPT !.step = "collect"]
    <3>1. executors' = [executors EXCEPT ![w] = f] /\ UNCHANGED leases
      BY <1>5, <2>2 DEF HeartbeatIfDue, Becomes
    <3>2. /\ f \in Executor /\ f.step \in PollSteps /\ f.run = e.run /\ f.lease = e.lease
          /\ f.held = e.held /\ f.budget = e.budget /\ f.last_usage = e.last_usage
          /\ f.exceeded = e.exceeded /\ f.revoked = e.revoked /\ f.result = e.result
      BY <1>1 DEF Executor, Steps, PollSteps
    <3> HIDE DEF f
    <3> QED
      BY <1>1, <2>1, <3>1, <3>2, Proceeds
  <2>3. CASE due /\ allowed
    <3>1. /\ leases' = table
          /\ executors' = [executors EXCEPT ![w] = [WithLease(e, table, e.lease) EXCEPT !.step = "collect"]]
      BY <1>5, <2>3 DEF HeartbeatIfDue, Becomes
    <3>2. leases[e.lease].status = "active"
      BY <2>3 DEF CanHeartbeat
    <3>3. /\ table \in [LeaseIds -> Lease] /\ table[e.lease].run = leases[e.lease].run
          /\ table[e.lease].status = leases[e.lease].status
          /\ \A id \in LeaseIds \ {e.lease} : table[id] = leases[id]
      BY <1>1, <1>2, RowsWritten
    <3>4. "collect" \in Steps
      BY DEF Steps, PollSteps
    <3> HIDE DEF table
    <3> QED
      BY <2>1, <3>1, <3>2, <3>3, <3>4, LeaseWritten
  <2>4. CASE due /\ ~allowed
    <3> DEFINE failed == [e EXCEPT !.after = "raised"]
               step == StepOfCancel(failed)
               f == [failed EXCEPT !.step = step]
    <3>1. executors' = [executors EXCEPT ![w] = f] /\ UNCHANGED leases
      BY <1>5, <2>4 DEF HeartbeatIfDue, Becomes
    <3>2. step = "cancel"
      BY <1>1, <2>4 DEF StepOfCancel, Executor
    <3> HIDE DEF step
    <3>3. /\ f \in Executor /\ f.step = "cancel" /\ f.after = "raised" /\ f.run = e.run
          /\ f.lease = e.lease /\ f.held = e.held /\ f.budget = e.budget
          /\ f.last_usage = e.last_usage /\ f.exceeded = e.exceeded /\ f.revoked = e.revoked
          /\ f.result = e.result
      BY <1>1, <3>2 DEF Executor, Steps, Stopped
    <3> HIDE DEF f
    <3> QED
      BY <1>1, <2>1, <3>1, <3>3, Proceeds
  <2> QED
    BY <2>2, <2>3, <2>4
<1> QED
  BY <1>3, <1>4, <1>5

\* charge adds, and persists an overage.
LEMMA ChargeAdds ==
    ASSUME NEW b \in Budget, NEW used \in Nat, NEW duration \in Nat
    PROVE  LET new == Charged(b, used, duration)
           IN  /\ new \in Budget /\ new.used = b.used + used
               /\ new.duration = b.duration + duration /\ new.attempts = b.attempts
               /\ new.status = IF Exceeds(b.used + used, b.duration + duration)
                               THEN "exhausted" ELSE b.status
<1> DEFINE status == IF Exceeds(b.used + used, b.duration + duration) THEN "exhausted" ELSE b.status
           new == [b EXCEPT !.version = b.version + 1, !.used = b.used + used,
                            !.duration = b.duration + duration, !.status = status]
<1>1. Charged(b, used, duration) = new
  BY DEF Charged
<1>2. /\ b.version + 1 \in Nat /\ b.used + used \in Nat /\ b.duration + duration \in Nat
      /\ status \in {"none", "active", "exhausted", "released"}
  BY DEF Budget
<1> HIDE DEF status
<1>3. /\ new \in Budget /\ new.used = b.used + used /\ new.duration = b.duration + duration
      /\ new.attempts = b.attempts /\ new.status = status
  BY <1>2 DEF Budget
<1> HIDE DEF new
<1> QED
  BY <1>1, <1>3 DEF status

\* A look at one report: the executor after it, on the reservation as it is
\* or with the report charged.  The final report is the one of the result.
LEMMA UsageSeen ==
    ASSUME GovernedInv, NEW w \in Workers, executors[w].run # NoRun,
           NEW f \in Executor, NEW budget \in Budget, NEW next \in {"observe", "duration"},
           \/ executors[w].step = "observe" /\ next = "observe"
           \/ executors[w].step = "final" /\ next = "duration",
           executors' = [executors EXCEPT ![w] = f],
           \/ budgets' = [budgets EXCEPT ![executors[w].run] = budget]
           \/ UNCHANGED budgets /\ budget = budgets[executors[w].run],
           UNCHANGED <<clock, leases, agents, crashes>>,
           f.run = executors[w].run, f.lease = executors[w].lease, f.held = executors[w].held,
           f.revoked = executors[w].revoked, f.result = executors[w].result, f.after = next,
           f.budget = budget, f.last_usage = budget.used,
           budget.duration = budgets[executors[w].run].duration,
           budget.attempts = budgets[executors[w].run].attempts,
           budget.status \in {"active", "exhausted"},
           executors[w].exceeded \/ budget.status = "exhausted" => f.exceeded,
           budget.status = "active" => ~Exceeds(budget.used, budget.duration),
           \/ f.step \in {"cancel", next} /\ f.exceeded
           \/ /\ f.step = next /\ budget.status = "active"
              /\ next = "duration" => budget.used = FinalUsage(agents[f.run], f)
    PROVE  GovernedInv'
<1> DEFINE e == executors[w]
           agent == agents[e.run]
<1>1. /\ e \in Executor /\ e.run \in Runs /\ agent \in Agent
      /\ Agree(e, budgets[e.run], agent, leases)
  BY RunFacts DEF Follows
<1>2. e.step \in {"observe", "final"} /\ f.step \in {"observe", "duration", "cancel"}
  OBVIOUS
<1>3. leases \in [LeaseIds -> Lease] /\ crashes' \in 0..Crashes
  BY DEF GovernedInv, TypeOK
<1>4. LeaseFollows(f, agent, leases)
  BY <1>1, <1>2 DEF Agree, LeaseFollows, Leased, Unleased, PollSteps, CloseSteps
<1>5. BudgetFollows(f, budget, agent)
  BY <1>1, <1>2 DEF Agree, BudgetFollows, ResultFollows, Uncharged, Launched, PollSteps
<1>6. AgentFollows(f, agent)
  BY <1>1, <1>2 DEF Agree, AgentFollows, ResultFollows, Closing, Launched, StartSteps, PollSteps, CloseSteps
<1>7. ResultFollows(f, budget, agent)
  BY <1>1, <1>2 DEF Agree, ResultFollows, Uncharged, Launched, PollSteps
<1>8. Agree(f, budget, agent, leases)
  BY <1>4, <1>5, <1>6, <1>7 DEF Agree
<1>9. UNCHANGED agents /\ agent = agents[f.run] /\ f.step # "idle" /\ agent \in Agent
  BY <1>1, <1>2
<1> HIDE DEF agent
<1>10. \/ budgets' = [budgets EXCEPT ![f.run] = budget]
       \/ UNCHANGED budgets /\ budget = budgets[f.run]
  OBVIOUS
<1>11. leases' = leases /\ \A id \in LeaseIds : leases[id] = leases[id]
  OBVIOUS
<1> QED
  BY <1>3, <1>8, <1>9, <1>10, <1>11, ExecutorMoves

\* _charge_absolute_usage: a report below the last one, one that changes
\* nothing, or one that is charged
LEMMA ChargeUsageKeeps ==
    ASSUME GovernedInv, NEW w \in Workers, executors[w].run # NoRun,
           NEW pending \in Seq(0..MaxWork), NEW usage \in 0..MaxWork,
           NEW next \in {"observe", "duration"},
           \/ executors[w].step = "observe" /\ next = "observe"
           \/ /\ executors[w].step = "final" /\ next = "duration"
              /\ usage = FinalUsage(agents[executors[w].run], executors[w]),
           ChargeUsage(w, [executors[w] EXCEPT !.pending = pending], usage, next),
           UNCHANGED <<clock, leases, agents, crashes>>
    PROVE  GovernedInv'
<1> DEFINE e == executors[w]
           d == [e EXCEPT !.pending = pending]
           n == [d EXCEPT !.after = next]
           budget == budgets[e.run]
           agent == agents[e.run]
           updated == Charged(budget, usage - n.last_usage, 0)
           exceeded == [n EXCEPT !.exceeded = TRUE]
           charged == [n EXCEPT !.budget = updated, !.last_usage = usage,
                                !.exceeded = @ \/ updated.status = "exhausted"]
<1>1. /\ e \in Executor /\ e.run \in Runs /\ budget \in Budget /\ agent \in Agent
      /\ Agree(e, budget, agent, leases)
  BY RunFacts DEF Follows
<1>2. /\ e.budget = budget /\ budget.used = e.last_usage
      /\ budget.status \in {"active", "exhausted"} /\ (budget.status = "exhausted" => e.exceeded)
      /\ (budget.status = "active" => ~Exceeds(budget.used, budget.duration))
  BY <1>1 DEF Agree, BudgetFollows, Uncharged, Launched, PollSteps
<1>3. /\ n \in Executor /\ n.run = e.run /\ n.lease = e.lease /\ n.held = e.held
      /\ n.budget = budget /\ n.last_usage = e.last_usage /\ n.exceeded = e.exceeded
      /\ n.revoked = e.revoked /\ n.result = e.result /\ n.after = next
  BY <1>1, <1>2 DEF Executor, Steps, PollSteps, CloseSteps
<1>4. \/ /\ Backwards(usage, n)
         /\ Becomes(w, exceeded, StepOfCancel(exceeded))
         /\ UNCHANGED budgets
      \/ /\ ~Backwards(usage, n)
         /\ usage = n.last_usage \/ n.budget.status # "active"
         /\ Becomes(w, n, next)
         /\ UNCHANGED budgets
      \/ /\ usage > n.last_usage /\ n.budget.status = "active"
         /\ IF Chargeable(budget, n.budget)
            THEN /\ budgets' = [budgets EXCEPT ![e.run] = updated]
                 /\ Becomes(w, charged, IF updated.status = "exhausted"
                                        THEN StepOfCancel(charged) ELSE next)
            ELSE Raise(w) /\ UNCHANGED budgets
  BY <1>3 DEF ChargeUsage
<1>5. e.step \notin Stopped /\ crashes' \in 0..Crashes /\ next \in Steps /\ "cancel" \in Steps
  BY DEF Stopped, GovernedInv, TypeOK, Steps, PollSteps, CloseSteps
<1>6. ASSUME NEW x \in Executor, x.after = next PROVE StepOfCancel(x) \in {"cancel", next}
  BY <1>6 DEF StepOfCancel
<1> HIDE DEF n
<1>7. CASE Backwards(usage, n) /\ Becomes(w, exceeded, StepOfCancel(exceeded)) /\ UNCHANGED budgets
  <2> DEFINE step == StepOfCancel(exceeded)
             f == [exceeded EXCEPT !.step = step]
  <2>1. exceeded \in Executor /\ exceeded.after = next
    BY <1>3 DEF Executor
  <2>2. step \in {"cancel", next} /\ executors' = [executors EXCEPT ![w] = f]
    BY <1>6, <1>7, <2>1 DEF Becomes
  <2> HIDE DEF step
  <2>3. /\ f \in Executor /\ f.run = e.run /\ f.lease = e.lease /\ f.held = e.held
        /\ f.budget = budget /\ f.last_usage = e.last_usage /\ f.exceeded /\ f.step = step
        /\ f.revoked = e.revoked /\ f.result = e.result /\ f.after = next
    BY <1>3, <1>5, <2>2 DEF Executor
  <2> HIDE DEF f
  <2> QED
    BY <1>1, <1>2, <1>7, <2>2, <2>3, UsageSeen
<1>8. CASE ~Backwards(usage, n) /\ (usage = n.last_usage \/ n.budget.status # "active")
           /\ Becomes(w, n, next) /\ UNCHANGED budgets
  <2> DEFINE f == [n EXCEPT !.step = next]
  <2>1. executors' = [executors EXCEPT ![w] = f]
    BY <1>8 DEF Becomes
  <2>2. /\ f \in Executor /\ f.run = e.run /\ f.lease = e.lease /\ f.held = e.held
        /\ f.budget = budget /\ f.last_usage = e.last_usage /\ f.exceeded = e.exceeded
        /\ f.step = next /\ f.revoked = e.revoked /\ f.result = e.result /\ f.after = next
    BY <1>3, <1>5 DEF Executor
  <2> HIDE DEF f
  <2>3. f.exceeded \/ (budget.status = "active" /\ usage = budget.used)
    BY <1>2, <1>3, <1>8, <2>2
  <2>4. next = "duration" /\ usage = budget.used => budget.used = FinalUsage(agent, f)
    BY <1>2, <2>2 DEF FinalUsage
  <2> QED
    BY <1>1, <1>2, <1>8, <2>1, <2>2, <2>3, <2>4, UsageSeen
<1>9. CASE usage > n.last_usage /\ n.budget.status = "active" /\ ~Chargeable(budget, n.budget)
           /\ Raise(w) /\ UNCHANGED budgets
  <2>1. executors' = [executors EXCEPT ![w] = [e EXCEPT !.step = "raised"]]
    BY <1>9 DEF Raise, Becomes
  <2> QED
    BY <1>5, <1>9, <2>1, Stops
<1>10. CASE /\ usage > n.last_usage /\ n.budget.status = "active"
            /\ budgets' = [budgets EXCEPT ![e.run] = updated]
            /\ Becomes(w, charged, IF updated.status = "exhausted" THEN StepOfCancel(charged) ELSE next)
  <2> DEFINE step == IF updated.status = "exhausted" THEN StepOfCancel(charged) ELSE next
             f == [charged EXCEPT !.step = step]
  <2>1. usage - n.last_usage \in Nat /\ n.last_usage \in Nat /\ 0 \in Nat
    BY <1>3, <1>10, GovernedExecutionAssumption DEF Executor
  <2>2. /\ updated \in Budget /\ updated.used = usage /\ updated.duration = budget.duration
        /\ updated.attempts = budget.attempts
        /\ updated.status = IF Exceeds(updated.used, updated.duration) THEN "exhausted"
                            ELSE "active"
    <3>1. /\ updated \in Budget /\ updated.used = budget.used + (usage - n.last_usage)
          /\ updated.duration = budget.duration + 0 /\ updated.attempts = budget.attempts
          /\ updated.status = IF Exceeds(budget.used + (usage - n.last_usage), budget.duration + 0)
                              THEN "exhausted" ELSE budget.status
      BY <1>1, <2>1, ChargeAdds
    <3>2. budget.used + (usage - n.last_usage) = usage /\ budget.duration + 0 = budget.duration
      BY <1>1, <1>2, <1>3, <2>1 DEF Budget
    <3> QED
      BY <1>3, <1>10, <3>1, <3>2
  <2> HIDE DEF updated
  <2> DEFINE over == n.exceeded \/ updated.status = "exhausted"
  <2>3. /\ charged \in Executor /\ charged.after = next /\ charged.exceeded = over
        /\ charged.run = e.run /\ charged.lease = e.lease /\ charged.held = e.held
        /\ charged.budget = updated /\ charged.last_usage = usage
        /\ charged.revoked = e.revoked /\ charged.result = e.result
    <3>1. charged = [n EXCEPT !.budget = updated, !.last_usage = usage, !.exceeded = over]
      BY <1>3 DEF Executor
    <3>2. over \in BOOLEAN
      OBVIOUS
    <3> HIDE DEF over, charged
    <3> QED
      BY <1>3, <2>2, <3>1, <3>2 DEF Executor
  <2>4. /\ step \in {"cancel", next} /\ (updated.status # "exhausted" => step = next)
        /\ executors' = [executors EXCEPT ![w] = f]
    BY <1>6, <1>10, <2>3 DEF Becomes
  <2> HIDE DEF step, charged
  <2>5. /\ f \in Executor /\ f.run = e.run /\ f.lease = e.lease /\ f.held = e.held
        /\ f.budget = updated /\ f.last_usage = usage /\ f.step = step
        /\ f.exceeded = charged.exceeded
        /\ f.revoked = e.revoked /\ f.result = e.result /\ f.after = next
    BY <1>5, <2>3, <2>4 DEF Executor
  <2> HIDE DEF f
  <2>6. next = "duration" => updated.used = FinalUsage(agent, f)
    BY <2>2, <2>5 DEF FinalUsage
  <2>7. /\ updated.status \in {"active", "exhausted"}
        /\ updated.status = "active" => ~Exceeds(updated.used, updated.duration)
    BY <2>2
  <2>8. f.exceeded <=> e.exceeded \/ updated.status = "exhausted"
    BY <1>3, <2>3, <2>5
  <2> QED
    BY <1>10, <2>2, <2>4, <2>5, <2>6, <2>7, <2>8, UsageSeen
<1> QED
  BY <1>4, <1>7, <1>8, <1>9, <1>10

\* A report of a poll, and the usage of the result
LEMMA ObserveKeeps ==
    ASSUME GovernedInv, NEW w \in Workers, executors[w].run # NoRun,
           ObserveUsage(w) \/ ChargeFinalUsage(w)
    PROVE  GovernedInv'
<1> DEFINE e == executors[w]
           agent == agents[e.run]
<1>1. e \in Executor /\ e.run \in Runs /\ agent \in Agent
  BY RunFacts
<1>2. CASE ChargeFinalUsage(w)
  <2>1. /\ e.step = "final" /\ ChargeUsage(w, e, FinalUsage(agent, e), "duration")
        /\ UNCHANGED <<clock, leases, agents, crashes>>
    BY <1>2 DEF ChargeFinalUsage, Executing
  <2>2. e = [e EXCEPT !.pending = e.pending] /\ e.pending \in Seq(0..MaxWork)
    BY <1>1 DEF Executor
  <2>3. FinalUsage(agent, e) \in 0..MaxWork
    <3>1. agent.reports \in Seq(0..MaxWork) /\ e.last_usage \in 0..MaxWork
      BY <1>1 DEF Agent, Executor
    <3>2. CASE agent.reports = <<>>
      BY <3>1, <3>2 DEF FinalUsage
    <3>3. CASE agent.reports # <<>>
      <4>1. Len(agent.reports) \in 1..Len(agent.reports)
        BY <3>1, <3>3, EmptySeq
      <4> QED
        BY <3>1, <3>3, <4>1, ElementOfSeq DEF FinalUsage
    <3> QED
      BY <3>2, <3>3
  <2>4. ChargeUsage(w, [e EXCEPT !.pending = e.pending], FinalUsage(agent, e), "duration")
    BY <2>1, <2>2
  <2> QED
    BY <2>1, <2>2, <2>3, <2>4, ChargeUsageKeeps
<1>3. CASE ObserveUsage(w)
  <2>1. e.step = "observe" /\ e.step \in PollSteps /\ UNCHANGED <<clock, leases, agents, crashes>>
    BY <1>3 DEF ObserveUsage, Executing, PollSteps
  <2>2. e.pending \in Seq(0..MaxWork)
    BY <1>1 DEF Executor
  <2>3. CASE e.pending = <<>>
    <3> DEFINE f == [e EXCEPT !.step = "heartbeat"]
    <3>1. executors' = [executors EXCEPT ![w] = f] /\ UNCHANGED budgets
      BY <1>3, <2>3 DEF ObserveUsage, Becomes
    <3>2. /\ f \in Executor /\ f.step \in PollSteps /\ f.run = e.run /\ f.lease = e.lease
          /\ f.held = e.held /\ f.budget = e.budget /\ f.last_usage = e.last_usage
          /\ f.exceeded = e.exceeded /\ f.revoked = e.revoked /\ f.result = e.result
      BY <1>1 DEF Executor, Steps, PollSteps
    <3> HIDE DEF f
    <3> QED
      BY <1>1, <2>1, <3>1, <3>2, Proceeds
  <2>4. CASE e.pending # <<>>
    <3>1. Tail(e.pending) \in Seq(0..MaxWork) /\ Head(e.pending) \in 0..MaxWork
      BY <2>2, <2>4, HeadTailProperties
    <3>2. ChargeUsage(w, [e EXCEPT !.pending = Tail(e.pending)], Head(e.pending), "observe")
      BY <1>1, <1>3, <2>4 DEF ObserveUsage, Executor
    <3> QED
      BY <2>1, <3>1, <3>2, ChargeUsageKeeps
  <2> QED
    BY <2>3, <2>4
<1> QED
  BY <1>2, <1>3

\* The end of the result: its duration is charged, or charged already, or
\* nothing.
LEMMA DurationKeeps ==
    ASSUME GovernedInv, NEW w \in Workers, executors[w].run # NoRun, ChargeDuration(w)
    PROVE  GovernedInv'
<1> DEFINE e == executors[w]
           budget == budgets[e.run]
           agent == agents[e.run]
           delta == agent.ended_at - agent.started_at - e.budget.duration
           updated == Charged(budget, 0, delta)
           charged == [e EXCEPT !.budget = updated, !.exceeded = @ \/ updated.status = "exhausted"]
           Collected(x) == [x EXCEPT !.result = ResultOf(x, agent.status)]
<1>1. /\ e \in Executor /\ e.run \in Runs /\ budget \in Budget /\ agent \in Agent
      /\ Agree(e, budget, agent, leases)
  BY RunFacts DEF Follows
<1>2. e.step = "duration" /\ UNCHANGED <<clock, leases, agents, crashes>>
  BY DEF ChargeDuration, Executing
<1>3. /\ e.budget = budget /\ budget.used = e.last_usage /\ budget.duration = 0
      /\ budget.status \in {"active", "exhausted"} /\ (budget.status = "exhausted" => e.exceeded)
      /\ budget.attempts = 1 /\ (budget.status = "active" => ~Exceeds(budget.used, 0))
  BY <1>1, <1>2 DEF Agree, BudgetFollows, Uncharged, Launched
<1>4. /\ agent.status \in {"completed", "failed"} /\ ~e.revoked
      /\ e.exceeded \/ (budget.status = "active" /\ budget.used = FinalUsage(agent, e))
  BY <1>1, <1>2 DEF Agree, AgentFollows, ResultFollows, Closing, CloseSteps, Launched, Agent
<1>5. leases \in [LeaseIds -> Lease] /\ crashes' \in 0..Crashes
  BY <1>2 DEF GovernedInv, TypeOK
<1>6. delta = agent.ended_at - agent.started_at /\ delta \in Int /\ MaxDuration \in Nat
  BY <1>1, <1>3, GovernedExecutionAssumption DEF Agent
\* With the budget `spent` after the charge
<1>7. ASSUME NEW spent \in Budget, NEW f \in Executor, NEW over \in BOOLEAN,
             executors' = [executors EXCEPT ![w] = f],
             \/ budgets' = [budgets EXCEPT ![e.run] = spent]
             \/ UNCHANGED budgets /\ spent = budget,
             spent.used = budget.used, spent.attempts = 1,
             spent.status \in {"active", "exhausted"}, spent.status = "exhausted" => over,
             e.exceeded => over,
             spent.status = "active" => /\ ~Exceeds(spent.used, spent.duration)
                                        /\ delta <= MaxDuration,
             f.step = "release_lease", f.run = e.run, f.lease = e.lease, f.held = e.held,
             f.budget = spent, f.last_usage = e.last_usage, f.exceeded = over,
             f.revoked = e.revoked, f.result = IF over THEN "failed" ELSE agent.status
      PROVE  GovernedInv'
  <2> HIDE DEF budget, agent, delta
  <2>1. LeaseFollows(f, agent, leases)
    BY <1>1, <1>2, <1>7 DEF Agree, LeaseFollows, Leased, Unleased, CloseSteps
  <2>2. BudgetFollows(f, spent, agent)
    BY <1>3, <1>4, <1>7 DEF BudgetFollows, Uncharged, Launched, StartSteps, PollSteps
  <2>3. AgentFollows(f, agent)
    BY <1>1, <1>2, <1>4, <1>7 DEF Agree, AgentFollows, Closing, CloseSteps, Launched, StartSteps, PollSteps
  <2>4. ResultFollows(f, spent, agent)
    BY <1>3, <1>4, <1>6, <1>7
    DEF ResultFollows, FinalUsage, Uncharged, Launched, StartSteps, PollSteps
  <2>5. Agree(f, spent, agent, leases)
    BY <2>1, <2>2, <2>3, <2>4 DEF Agree
  <2>6. UNCHANGED agents /\ agent = agents[f.run] /\ f.step # "idle" /\ agent \in Agent
    BY <1>1, <1>2, <1>7 DEF agent
  <2>7. \/ budgets' = [budgets EXCEPT ![f.run] = spent]
        \/ UNCHANGED budgets /\ spent = budgets[f.run]
    BY <1>7 DEF budget
  <2>8. leases' = leases /\ UNCHANGED clock
    BY <1>2
  <2> QED
    BY <1>5, <1>7, <2>5, <2>6, <2>7, <2>8, ExecutorMoves
<1>8. CASE e.budget.status = "active" /\ delta > 0
  <2>1. CASE ~Chargeable(budget, e.budget)
    <3>1. executors' = [executors EXCEPT ![w] = [e EXCEPT !.step = "raised"]] /\ UNCHANGED budgets
      BY <1>8, <2>1 DEF ChargeDuration, Raise, Becomes
    <3> QED
      BY <1>2, <1>5, <3>1, Stops DEF Stopped
  <2>2. CASE Chargeable(budget, e.budget)
    <3> DEFINE over == e.exceeded \/ updated.status = "exhausted"
               result == IF over THEN "failed" ELSE agent.status
               f == [Collected(charged) EXCEPT !.step = "release_lease"]
    <3>1. budgets' = [budgets EXCEPT ![e.run] = updated] /\ executors' = [executors EXCEPT ![w] = f]
      BY <1>8, <2>2 DEF ChargeDuration, Becomes
    <3>2. /\ updated \in Budget /\ updated.used = budget.used /\ updated.duration = delta
          /\ updated.attempts = budget.attempts
          /\ updated.status = IF Exceeds(budget.used, delta) THEN "exhausted" ELSE "active"
      <4>1. delta \in Nat /\ 0 \in Nat
        BY <1>6, <1>8
      <4>2. budget.used + 0 = budget.used /\ budget.duration + delta = delta
        BY <1>1, <1>3, <1>6 DEF Budget
      <4>3. /\ updated \in Budget /\ updated.used = budget.used + 0
            /\ updated.duration = budget.duration + delta /\ updated.attempts = budget.attempts
            /\ updated.status = IF Exceeds(budget.used + 0, budget.duration + delta)
                                THEN "exhausted" ELSE budget.status
        BY <1>1, <4>1, ChargeAdds
      <4> HIDE DEF delta, budget, updated
      <4> QED
        BY <1>3, <1>8, <4>2, <4>3
    <3> HIDE DEF updated, delta
    <3>3. over \in BOOLEAN /\ result \in {"none", "completed", "failed"}
      BY <1>4
    <3>4. charged = [e EXCEPT !.budget = updated, !.exceeded = over]
      BY <1>1 DEF Executor
    <3>5. charged.exceeded = over
      BY <1>1, <3>4 DEF Executor
    <3>6. f = [e EXCEPT !.budget = updated, !.exceeded = over, !.result = result,
                        !.step = "release_lease"]
      BY <1>1, <3>4, <3>5 DEF ResultOf, Executor
    <3> HIDE DEF over, result, charged, f
    <3>7. /\ f \in Executor /\ f.step = "release_lease" /\ f.run = e.run /\ f.lease = e.lease
          /\ f.held = e.held /\ f.budget = updated /\ f.last_usage = e.last_usage
          /\ f.exceeded = over /\ f.revoked = e.revoked /\ f.result = result
      BY <1>1, <3>2, <3>3, <3>6 DEF Executor, Steps, CloseSteps
    <3>8. updated.status = "active" => /\ ~Exceeds(updated.used, updated.duration)
                                       /\ delta <= MaxDuration
      BY <1>6, <3>2 DEF Exceeds
    <3>9. (updated.status = "exhausted" => over) /\ (e.exceeded => over)
      BY DEF over
    <3> QED
      BY <1>3, <1>7, <3>1, <3>2, <3>3, <3>7, <3>8, <3>9 DEF result
  <2> QED
    BY <2>1, <2>2
<1>9. CASE ~(e.budget.status = "active" /\ delta > 0)
  <2> DEFINE result == IF e.exceeded THEN "failed" ELSE agent.status
             f == [Collected(e) EXCEPT !.step = "release_lease"]
  <2>1. executors' = [executors EXCEPT ![w] = f] /\ UNCHANGED budgets
    BY <1>9 DEF ChargeDuration, Becomes
  <2>2. result \in {"none", "completed", "failed"}
    BY <1>4
  <2>3. f = [e EXCEPT !.result = result, !.step = "release_lease"]
    BY DEF ResultOf
  <2> HIDE DEF result, f
  <2>4. /\ f \in Executor /\ f.step = "release_lease" /\ f.run = e.run /\ f.lease = e.lease
        /\ f.held = e.held /\ f.budget = budget /\ f.last_usage = e.last_usage
        /\ f.exceeded = e.exceeded /\ f.revoked = e.revoked /\ f.result = result
        /\ e.exceeded \in BOOLEAN
    BY <1>1, <1>3, <2>2, <2>3 DEF Executor, Steps, CloseSteps
  <2>5. budget.status = "active" => /\ ~Exceeds(budget.used, budget.duration)
                                    /\ delta <= MaxDuration
    BY <1>3, <1>6, <1>9
  <2> QED
    BY <1>1, <1>3, <1>7, <2>1, <2>4, <2>5 DEF result
<1> QED
  BY <1>8, <1>9

\* The reservation is given back, or was exhausted; then the grant is revoked.
LEMMA ReturnSteps ==
    ASSUME GovernedInv, NEW w \in Workers, executors[w].run # NoRun,
           ReleaseBudget(w) \/ RevokeCredential(w)
    PROVE  GovernedInv'
<1> DEFINE e == executors[w]
           budget == budgets[e.run]
           agent == agents[e.run]
<1>1. /\ e \in Executor /\ e.run \in Runs /\ budget \in Budget /\ agent \in Agent
      /\ Agree(e, budget, agent, leases)
  BY RunFacts DEF Follows
<1>2. leases \in [LeaseIds -> Lease] /\ crashes \in 0..Crashes
  BY DEF GovernedInv, TypeOK
<1>3. CASE RevokeCredential(w)
  <2> DEFINE step == IF agent.status = "unstarted" THEN "raised" ELSE "done"
             f == [[e EXCEPT !.revoked = TRUE] EXCEPT !.step = step]
  <2>1. /\ e.step = "revoke" /\ UNCHANGED <<clock, leases, budgets, agents, crashes>>
        /\ executors' = [executors EXCEPT ![w] = f]
    BY <1>3 DEF RevokeCredential, Executing, Becomes
  <2>2. step \in Steps /\ step \in {"raised", "done"} /\ (step = "done" => agent.status # "unstarted")
    BY DEF Steps, Stopped
  <2> HIDE DEF step
  <2>3. /\ f \in Executor /\ f.step = step /\ f.run = e.run /\ f.lease = e.lease
        /\ f.held = e.held /\ f.budget = e.budget /\ f.last_usage = e.last_usage
        /\ f.exceeded = e.exceeded /\ f.revoked /\ f.result = e.result
    BY <1>1, <2>2 DEF Executor
  <2> HIDE DEF budget, agent, f
  <2>4. LeaseFollows(f, agent, leases)
    BY <1>1, <2>1, <2>2, <2>3 DEF Agree, LeaseFollows, Leased, Unleased, CloseSteps
  <2>5. BudgetFollows(f, budget, agent)
    BY <1>1, <2>1, <2>2, <2>3
    DEF Agree, BudgetFollows, Uncharged, Launched, StartSteps, PollSteps
  <2>6. AgentFollows(f, agent)
    BY <1>1, <2>1, <2>2, <2>3
    DEF Agree, AgentFollows, Closing, Launched, StartSteps, PollSteps, CloseSteps
  <2>7. ResultFollows(f, budget, agent)
    BY <1>1, <2>1, <2>2, <2>3
    DEF Agree, ResultFollows, FinalUsage, Uncharged, Launched, StartSteps, PollSteps
  <2>8. Agree(f, budget, agent, leases)
    BY <2>4, <2>5, <2>6, <2>7 DEF Agree
  <2>9. f.step # "idle" /\ crashes' \in 0..Crashes
    BY <1>2, <2>1, <2>2, <2>3
  <2> QED
    BY <2>1, <2>3, <2>8, <2>9, ExecutorOnly DEF budget, agent
<1>4. CASE ReleaseBudget(w)
  <2> DEFINE released == BudgetReleased(budget)
  <2>1. e.step = "release_budget" /\ UNCHANGED <<clock, leases, agents, crashes>>
    BY <1>4 DEF ReleaseBudget, Executing
\* With the reservation as it is after the step
  <2>2. ASSUME NEW given \in Budget,
               executors' = [executors EXCEPT
                   ![w] = [[e EXCEPT !.budget = given] EXCEPT !.step = "revoke"]],
               \/ budgets' = [budgets EXCEPT ![e.run] = given]
               \/ UNCHANGED budgets /\ given = budget,
               given.used = budget.used, given.attempts = budget.attempts,
               given.duration = budget.duration,
               \/ given.status = "released" /\ budget.status = "active"
               \/ given.status = budget.status /\ budget.status # "active"
        PROVE  GovernedInv'
    <3> DEFINE f == [[e EXCEPT !.budget = given] EXCEPT !.step = "revoke"]
    <3>1. /\ f \in Executor /\ f.step = "revoke" /\ f.run = e.run /\ f.lease = e.lease
          /\ f.held = e.held /\ f.budget = given /\ f.last_usage = e.last_usage
          /\ f.exceeded = e.exceeded /\ f.revoked = e.revoked /\ f.result = e.result
      BY <1>1 DEF Executor, Steps, CloseSteps
    <3>2. executors' = [executors EXCEPT ![w] = f]
      BY <2>2
    <3> HIDE DEF budget, agent, f
    <3>3. LeaseFollows(f, agent, leases)
      BY <1>1, <2>1, <3>1 DEF Agree, LeaseFollows, Leased, Unleased, CloseSteps
    <3>4. BudgetFollows(f, given, agent)
      BY <1>1, <2>1, <2>2, <3>1
      DEF Agree, BudgetFollows, ResultFollows, Uncharged, Launched, StartSteps, PollSteps
    <3>5. AgentFollows(f, agent)
      BY <1>1, <2>1, <3>1
      DEF Agree, AgentFollows, Closing, Launched, StartSteps, PollSteps, CloseSteps
    <3>6. ResultFollows(f, given, agent)
      BY <1>1, <2>1, <2>2, <3>1
      DEF Agree, ResultFollows, FinalUsage, Uncharged, Launched, StartSteps, PollSteps
    <3>7. Agree(f, given, agent, leases)
      BY <3>3, <3>4, <3>5, <3>6 DEF Agree
    <3>8. UNCHANGED agents /\ agent = agents[f.run] /\ f.step # "idle" /\ agent \in Agent
      BY <1>1, <2>1, <3>1 DEF agent
    <3>9. \/ budgets' = [budgets EXCEPT ![f.run] = given]
          \/ UNCHANGED budgets /\ given = budgets[f.run]
      BY <2>2, <3>1 DEF budget
    <3>10. leases' = leases /\ UNCHANGED clock /\ crashes' \in 0..Crashes
      BY <1>2, <2>1
    <3> QED
      BY <1>2, <2>2, <3>1, <3>2, <3>7, <3>8, <3>9, <3>10, ExecutorMoves
  <2>3. e.budget = budget
    BY <1>1 DEF Agree, BudgetFollows
  <2>4. CASE e.budget.status = "active" /\ Chargeable(budget, e.budget)
    <3>1. /\ released \in Budget /\ released.used = budget.used /\ released.status = "released"
          /\ released.attempts = budget.attempts /\ released.duration = budget.duration
      <4>1. budget.version + 1 \in Nat
        BY <1>1 DEF Budget
      <4> QED
        BY <1>1, <4>1 DEF BudgetReleased, Budget
    <3>2. budgets' = [budgets EXCEPT ![e.run] = released]
      BY <1>1, <1>4, <2>4 DEF ReleaseBudget
    <3>3. budgets'[e.run] = released
      BY <1>1, <3>2 DEF GovernedInv, TypeOK
    <3>4. executors' = [executors EXCEPT
                           ![w] = [[e EXCEPT !.budget = released] EXCEPT !.step = "revoke"]]
      BY <1>4, <2>4, <3>3 DEF ReleaseBudget, Becomes
    <3> HIDE DEF released
    <3> QED
      BY <2>2, <2>3, <2>4, <3>1, <3>2, <3>4
  <2>5. CASE e.budget.status = "active" /\ ~Chargeable(budget, e.budget)
    <3>1. executors' = [executors EXCEPT ![w] = [e EXCEPT !.step = "raised"]] /\ UNCHANGED budgets
      BY <1>4, <2>5 DEF ReleaseBudget, Raise, Becomes
    <3> QED
      BY <1>2, <2>1, <3>1, Stops DEF Stopped
  <2>6. CASE e.budget.status # "active"
    <3>1. UNCHANGED budgets /\ executors' = [executors EXCEPT ![w] = [e EXCEPT !.step = "revoke"]]
      BY <1>4, <2>6 DEF ReleaseBudget, Becomes
    <3>2. e = [e EXCEPT !.budget = budget]
      BY <1>1, <2>3 DEF Executor
    <3> QED
      BY <1>1, <2>2, <2>3, <2>6, <3>1, <3>2
  <2> QED
    BY <2>4, <2>5, <2>6
<1> QED
  BY <1>3, <1>4

-----------------------------------------------------------------------------
(* The environment's steps *)

\* A running agent belongs to an executor that has not closed yet.
LEMMA AgentSteps ==
    ASSUME GovernedInv, NEW r \in Runs,
           \/ \E usage \in 0..MaxWork : AgentReports(r, usage)
           \/ \E status \in {"completed", "failed"} : AgentEnds(r, status)
    PROVE  GovernedInv'
<1> DEFINE agent == agents[r]
<1>1. agent.status = "running" /\ UNCHANGED <<clock, leases, budgets, executors, crashes>>
  BY DEF AgentReports, AgentEnds
<1>2. PICK w \in Workers : executors[w].run = r
  BY <1>1 DEF GovernedInv, Untouched
<1> DEFINE e == executors[w]
           budget == budgets[r]
<1>3. r # NoRun
  BY LeaseTableAssumption
<1>4. /\ e \in Executor /\ budget \in Budget /\ agent \in Agent /\ e.step # "idle"
      /\ Agree(e, budget, agent, leases)
  BY <1>2, <1>3, RunFacts DEF Follows
<1>5. /\ ~Closing(e) /\ ~e.revoked /\ e.step # "duration" /\ e.result # "completed"
  BY <1>1, <1>4 DEF Agree, AgentFollows, ResultFollows, Closing, CloseSteps
<1>6. PICK later \in Agent : /\ agents' = [agents EXCEPT ![r] = later]
                             /\ later.status \in {"running", "completed", "failed"}
                             /\ later.launches = agent.launches
                             /\ later.signalled = agent.signalled
  <2>1. CASE \E usage \in 0..MaxWork : AgentReports(r, usage)
    <3>1. PICK usage \in 0..MaxWork :
             agents' = [agents EXCEPT ![r].reports = Append(@, usage)]
      BY <2>1 DEF AgentReports
    <3> DEFINE later == [agent EXCEPT !.reports = Append(agent.reports, usage)]
    <3>2. agents' = [agents EXCEPT ![r] = later]
      BY <3>1 DEF GovernedInv, TypeOK
    <3>3. agent.reports \in Seq(0..MaxWork)
      BY <1>4 DEF Agent
    <3>4. Append(agent.reports, usage) \in Seq(0..MaxWork)
      BY <3>3, AppendProperties
    <3>5. /\ later \in Agent /\ later.status = agent.status /\ later.launches = agent.launches
          /\ later.signalled = agent.signalled
      BY <1>4, <3>4 DEF Agent
    <3> QED
      BY <1>1, <3>2, <3>5
  <2>2. CASE \E status \in {"completed", "failed"} : AgentEnds(r, status)
    <3>1. PICK status \in {"completed", "failed"} :
             agents' = [agents EXCEPT ![r].status = status, ![r].ended_at = clock]
      BY <2>2 DEF AgentEnds
    <3> DEFINE later == [agent EXCEPT !.status = status, !.ended_at = clock]
    <3>2. agents' = [agents EXCEPT ![r] = later]
      BY <3>1 DEF GovernedInv, TypeOK
    <3>3. clock \in 0..MaxTime
      BY DEF GovernedInv, TypeOK
    <3>4. /\ later \in Agent /\ later.status = status /\ later.launches = agent.launches
          /\ later.signalled = agent.signalled
      BY <1>4, <3>3 DEF Agent
    <3> QED
      BY <3>2, <3>4
  <2> QED
    BY <2>1, <2>2
<1> HIDE DEF agent
<1>7. LeaseFollows(e, later, leases)
  BY <1>4, <1>6 DEF Agree, LeaseFollows
<1>8. BudgetFollows(e, budget, later)
  BY <1>4, <1>6 DEF Agree, BudgetFollows
<1>9. AgentFollows(e, later)
  BY <1>1, <1>4, <1>5, <1>6 DEF Agree, AgentFollows
<1>10. ResultFollows(e, budget, later)
  BY <1>4, <1>5 DEF Agree, ResultFollows
<1>11. Agree(e, budget, later, leases)
  BY <1>7, <1>8, <1>9, <1>10 DEF Agree
<1>12. /\ executors' = [executors EXCEPT ![w] = e] /\ leases \in [LeaseIds -> Lease]
       /\ crashes' \in 0..Crashes
  BY <1>1 DEF GovernedInv, TypeOK
<1> QED
  BY <1>1, <1>2, <1>3, <1>4, <1>6, <1>11, <1>12, ExecutorMoves

\* A sweep only makes live leases expire.
LEMMA SweepKeeps ==
    ASSUME GovernedInv, Sweep
    PROVE  GovernedInv'
<1>1. /\ leases \in [LeaseIds -> Lease] /\ UNCHANGED <<clock, budgets, agents, executors, crashes>>
      /\ leases' = RecoverOrphans(leases, clock)
  BY DEF Sweep, GovernedInv, TypeOK
<1>2. ASSUME NEW id \in LeaseIds
      PROVE  /\ leases'[id] \in Lease /\ leases'[id].run = leases[id].run
             /\ \/ leases'[id] = leases[id]
                \/ leases[id].status \in LiveStatuses /\ leases'[id].status = "expired"
  <2> DEFINE expired == [leases[id] EXCEPT !.status = "expired", !.version = @ + 1]
  <2>1. leases'[id] = IF id \in Elapsed(leases, clock) THEN expired ELSE leases[id]
    BY <1>1 DEF RecoverOrphans
  <2>2. expired \in Lease /\ expired.run = leases[id].run /\ expired.status = "expired"
    <3>1. leases[id] \in Lease /\ leases[id].version + 1 \in Nat
      BY <1>1 DEF Lease
    <3> QED
      BY <3>1 DEF Lease, TerminalLeaseStatuses
  <2> HIDE DEF expired
  <2> QED
    BY <1>1, <2>1, <2>2 DEF Elapsed, HasLiveStatus
<1>3. leases' \in [LeaseIds -> Lease]
  BY <1>1, <1>2 DEF RecoverOrphans
<1>4. TypeOK'
  BY <1>1, <1>3 DEF GovernedInv, TypeOK
<1>5. ASSUME NEW w \in Workers, executors[w].run # NoRun
      PROVE  Follows(w)'
  <2> DEFINE e == executors[w]
             agent == agents[e.run]
  <2>1. LeaseFollows(e, agent, leases) /\ Follows(w)
    BY <1>5, RunFacts DEF Follows, Agree
  <2>2. LeaseFollows(e, agent, leases')
    BY <1>2, <2>1 DEF LeaseFollows, Leased, LiveStatuses
  <2> QED
    BY <1>1, <2>1, <2>2 DEF Follows, Agree
<1>6. \A r \in Runs : Untouched(r) => Untouched(r)'
  BY <1>1, <1>2 DEF Untouched
<1>7. \A id \in LeaseIds : leases'[id].status = "none" => leases'[id].run = NoRun
  BY <1>2 DEF GovernedInv
<1> QED
  BY <1>1, <1>4, <1>5, <1>6, <1>7 DEF GovernedInv

-----------------------------------------------------------------------------
(* The theorems *)

\* Every step keeps the invariant.
LEMMA NextGoverned == GovernedInv /\ [Next]_vars => GovernedInv'
<1> SUFFICES ASSUME GovernedInv, [Next]_vars PROVE GovernedInv'
  OBVIOUS
<1>1. CASE UNCHANGED vars
  BY <1>1 DEF vars, GovernedInv, TypeOK, Follows, Untouched
<1>2. CASE Tick
  <2>1. clock' \in 0..MaxTime /\ UNCHANGED <<leases, budgets, agents, executors, crashes>>
    BY <1>2, GovernedExecutionAssumption DEF Tick, GovernedInv, TypeOK
  <2> QED
    BY <2>1 DEF GovernedInv, TypeOK, Follows, Untouched
<1>3. CASE Sweep
  BY <1>3, SweepKeeps
<1>4. ASSUME NEW r \in Runs,
             \/ \E usage \in 0..MaxWork : AgentReports(r, usage)
             \/ \E status \in {"completed", "failed"} : AgentEnds(r, status)
      PROVE  GovernedInv'
  BY <1>4, AgentSteps
<1>5. ASSUME NEW w \in Workers, NEW r \in Runs, Reserve(w, r)
      PROVE  GovernedInv'
  BY <1>5, ReserveKeeps
<1>6. ASSUME NEW w \in Workers, executors[w].step \notin {"idle", "raised"}
      PROVE  executors[w].run # NoRun
  BY <1>6 DEF GovernedInv, Unused
<1>7. ASSUME NEW w \in Workers, ExecutorStep(w)
      PROVE  GovernedInv'
  <2>1. executors[w].step \notin {"idle", "raised"}
    BY <1>7 DEF ExecutorStep, Executing, AuthorizeAttempt, AcquireLease, Launch, LaunchFails,
                FetchEvents, ObserveUsage, PersistCancel, Signal, HeartbeatIfDue, Collect, Deadline,
                ChargeFinalUsage, ChargeDuration, ReleaseLease, ReleaseBudget, RevokeCredential
  <2>2. executors[w].run # NoRun
    BY <1>6, <2>1
  <2> QED
    BY <1>7, <2>2, AuthorizeKeeps, AcquireKeeps, LaunchKeeps, LoopSteps, ObserveKeeps, LeaseSteps,
       SignalKeeps, DurationKeeps, ReturnSteps DEF ExecutorStep
<1>8. ASSUME NEW w \in Workers, Crash(w)
      PROVE  GovernedInv'
  <2>1. /\ executors[w].step \notin Stopped /\ UNCHANGED <<clock, leases, budgets, agents>>
        /\ executors' = [executors EXCEPT ![w] = [executors[w] EXCEPT !.step = "dead"]]
    BY <1>8 DEF Crash, Becomes
  <2>2. crashes' \in 0..Crashes
    BY <1>8, GovernedExecutionAssumption DEF Crash, GovernedInv, TypeOK
  <2>3. executors[w].run # NoRun
    BY <1>6, <2>1 DEF Stopped
  <2> QED
    BY <2>1, <2>2, <2>3, Stops
<1> QED
  BY <1>1, <1>2, <1>3, <1>4, <1>5, <1>7, <1>8 DEF Next

\* The stores, the agents and the executors stay in step.
THEOREM GovernedInvHolds == Spec => []GovernedInv
<1> QED
  BY InitGoverned, NextGoverned, PTL DEF Spec

\* Every reachable state is of its types.
THEOREM GovernedTypeCorrect == Spec => []TypeOK
<1>1. GovernedInv => TypeOK
  BY DEF GovernedInv
<1> QED
  BY <1>1, GovernedInvHolds, PTL

\* One reservation, one attempt, one lease, one launch: an executor that
\* comes late, or after a crash, never starts a second agent for the run.
THEOREM OneGovernedLaunch == Spec => []SingleGovernedLaunch
<1>1. GovernedInv => SingleGovernedLaunch
  <2> SUFFICES ASSUME GovernedInv, NEW r \in Runs
               PROVE  /\ agents[r].launches <= 1
                      /\ agents[r].launches = 1 => budgets[r].attempts = 1 /\ LeasesOf(r) # {}
    BY DEF SingleGovernedLaunch
  <2>1. CASE \A w \in Workers : executors[w].run # r
    BY <2>1 DEF GovernedInv, Untouched
  <2>2. ASSUME NEW w \in Workers, executors[w].run = r
        PROVE  /\ agents[r].launches <= 1
               /\ agents[r].launches = 1 => budgets[r].attempts = 1 /\ LeasesOf(r) # {}
    <3>1. Agree(executors[w], budgets[r], agents[r], leases)
      BY <2>2, RunFacts, LeaseTableAssumption DEF Follows
    <3> QED
      BY <2>2, <3>1 DEF Agree, AgentFollows, BudgetFollows, LeaseFollows, LeasesOf
  <2> QED
    BY <2>1, <2>2
<1> QED
  BY <1>1, GovernedInvHolds, PTL

\* The cancellation is persisted before the agent hears of it, whoever asked
\* for it.
THEOREM PersistedBeforeSignal == Spec => []CancelPersistedBeforeSignal
<1>1. GovernedInv => CancelPersistedBeforeSignal
  <2> SUFFICES ASSUME GovernedInv, NEW r \in Runs, agents[r].signalled
               PROVE  \A id \in LeasesOf(r) : leases[id].status # "active"
    BY DEF CancelPersistedBeforeSignal
  <2>1. PICK w \in Workers : executors[w].run = r
    BY DEF GovernedInv, Untouched
  <2>2. Agree(executors[w], budgets[r], agents[r], leases)
    BY <2>1, RunFacts, LeaseTableAssumption DEF Follows
  <2> QED
    BY <2>1, <2>2 DEF Agree, LeaseFollows, LeasesOf
<1> QED
  BY <1>1, GovernedInvHolds, PTL

\* A completed result is inside every limit, with all of its usage charged.
THEOREM CompletedInsideBudget == Spec => []CompletedWithinBudget
<1>1. GovernedInv => CompletedWithinBudget
  <2> SUFFICES ASSUME GovernedInv, NEW w \in Workers, executors[w].result = "completed"
               PROVE  LET r == executors[w].run
                      IN  /\ budgets[r].status \in {"active", "released"}
                          /\ budgets[r].used = FinalUsage(agents[r], executors[w])
                          /\ budgets[r].used <= MaxUsage
                          /\ agents[r].ended_at - agents[r].started_at <= MaxDuration
    BY DEF CompletedWithinBudget
  <2>1. executors[w].run # NoRun
    BY DEF GovernedInv, Unused
  <2>2. /\ Agree(executors[w], budgets[executors[w].run], agents[executors[w].run], leases)
        /\ budgets[executors[w].run] \in Budget
    BY <2>1, RunFacts DEF Follows
  <2>3. MaxUsage \in Nat
    BY GovernedExecutionAssumption
  <2> QED
    BY <2>2, <2>3 DEF Agree, ResultFollows, BudgetFollows, Exceeds, Budget
<1> QED
  BY <1>1, GovernedInvHolds, PTL

\* The grant outlives the agent, the lease and the reservation.
THEOREM GrantRevokedLast == Spec => []RevokedLast
<1>1. GovernedInv => RevokedLast
  <2> SUFFICES ASSUME GovernedInv, NEW w \in Workers, executors[w].revoked
               PROVE  LET r == executors[w].run
                      IN  /\ agents[r].status # "running"
                          /\ budgets[r].status # "active"
                          /\ \A id \in LeasesOf(r) : leases[id].status = "released"
    BY DEF RevokedLast
  <2>1. executors[w].run # NoRun
    BY DEF GovernedInv, Unused
  <2>2. Agree(executors[w], budgets[executors[w].run], agents[executors[w].run], leases)
    BY <2>1, RunFacts DEF Follows
  <2> QED
    BY <2>2 DEF Agree, AgentFollows, BudgetFollows, LeaseFollows, LeasesOf
<1> QED
  BY <1>1, GovernedInvHolds, PTL
=============================================================================
