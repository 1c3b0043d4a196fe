------------------------- MODULE GovernedExecution -------------------------
(***************************************************************************)
(* GovernedAgentExecutor: one use of an agent executor under a budget      *)
(* reservation, a worker lease and a credential grant, driven by the       *)
(* polling loop of TaskExecutionController._collect_agent.                 *)
(*                                                                         *)
(* The budget store and the lease store commit separately and the agent is *)
(* a process of its own, so every store transaction and every call of the  *)
(* wrapped executor is a step.  The sweep of any other process and the     *)
(* clock come between the steps.  The counted usage dimensions are one;    *)
(* the duration is charged once, after the agent ended.                    *)
(***************************************************************************)
EXTENDS LeaseTable, Sequences

CONSTANTS LeaseSeconds,      \* lease_seconds
          HeartbeatEvery,    \* max(1, lease_seconds // 3)
          MaxUsage,          \* maximum of the counted usage
          MaxDuration,       \* maximum_duration_ms
          MaxAttempts,       \* maximum_attempts
          MaxTime,           \* bound: last instant of the clock
          MaxWork,           \* bound: the largest usage an agent reports
          MaxReports,        \* bound: usage events of an agent
          Crashes            \* bound: executor processes that die

ASSUME GovernedExecutionAssumption ==
    /\ {LeaseSeconds, HeartbeatEvery, MaxDuration, MaxAttempts} \subseteq Nat \ {0}
    /\ {MaxUsage, MaxTime, MaxWork, MaxReports, Crashes} \subseteq Nat

VARIABLES clock,
          leases,      \* the worker lease store
          budgets,     \* the budget reservation of every run
          agents,      \* the process behind the wrapped executor, per run
          executors,   \* the GovernedAgentExecutor of each worker
          crashes      \* executor processes that died

vars == <<clock, leases, budgets, agents, executors, crashes>>

-----------------------------------------------------------------------------
(* Values *)

\* BudgetSnapshot
Budget == [status: {"none", "active", "exhausted", "released"}, version: Nat,
           used: Nat, duration: Nat, attempts: Nat]
NoBudget == [status |-> "none", version |-> 0, used |-> 0, duration |-> 0, attempts |-> 0]

\* The agent's process and the usage events it emitted, each with the
\* counters of the whole run so far.
Agent == [status: {"unstarted", "running", "completed", "failed"}, reports: Seq(0..MaxWork),
          launches: Nat, signalled: BOOLEAN, started_at: 0..MaxTime, ended_at: 0..MaxTime]
NoAgent == [status |-> "unstarted", reports |-> <<>>, launches |-> 0, signalled |-> FALSE,
            started_at |-> 0, ended_at |-> 0]

StartSteps == {"attempt", "acquire", "launch"}
PollSteps == {"poll", "observe", "heartbeat", "collect"}
CloseSteps == {"final", "duration", "release_lease", "release_budget", "revoke"}
Stopped == {"idle", "done", "raised", "dead"}
Steps == StartSteps \cup PollSteps \cup CloseSteps \cup Stopped \cup {"cancel", "signal"}

\* An executor: its copies of the budget snapshot and of the lease, the
\* events of this poll it has not looked at, and `after`, the step a
\* cancellation returns to.
Executor ==
    [step: Steps, after: Steps, run: Runs \cup {NoRun},
     budget: Budget, lease: LeaseIds \cup {"none"},
     held: [status: LiveStatuses \cup TerminalLeaseStatuses \cup {"none"},
            version: Nat, last_heartbeat_at: Int],
     pending: Seq(0..MaxWork), last_usage: 0..MaxWork, exceeded: BOOLEAN, timed_out: BOOLEAN,
     revoked: BOOLEAN, result: {"none", "completed", "failed"}]

NotHeld == [status |-> "none", version |-> 0, last_heartbeat_at |-> 0]

NewExecutor ==
    [step |-> "idle", after |-> "idle", run |-> NoRun, budget |-> NoBudget, lease |-> "none",
     held |-> NotHeld, pending |-> <<>>, last_usage |-> 0, exceeded |-> FALSE,
     timed_out |-> FALSE, revoked |-> FALSE, result |-> "none"]

TypeOK ==
    /\ clock \in 0..MaxTime
    /\ leases \in [LeaseIds -> Lease]
    /\ budgets \in [Runs -> Budget]
    /\ agents \in [Runs -> Agent]
    /\ executors \in [Workers -> Executor]
    /\ crashes \in 0..Crashes

Init ==
    /\ clock = 0
    /\ leases = [id \in LeaseIds |-> NoLease]
    /\ budgets = [r \in Runs |-> NoBudget]
    /\ agents = [r \in Runs |-> NoAgent]
    /\ executors = [w \in Workers |-> NewExecutor]
    /\ crashes = 0

-----------------------------------------------------------------------------
(* SqliteBudgetStore, one transaction per operator *)

\* reserve without the uniqueness of run_id
CanReserveAgain(reservation) == TRUE

\* run_id is UNIQUE in budget_reservations.
CanReserve(reservation) == reservation.status = "none"

Reserved == [NoBudget EXCEPT !.status = "active", !.version = 1]

\* _load and _require_active, for the snapshot a caller holds
Chargeable(reservation, snapshot) ==
    reservation.version = snapshot.version /\ reservation.status = "active"

\* authorize_attempt of a first attempt; a denial is persisted.
Attempted(reservation) ==
    [reservation EXCEPT !.version = @ + 1, !.attempts = @ + 1,
                        !.status = IF reservation.attempts + 1 > MaxAttempts
                                   THEN "exhausted" ELSE @]

\* charge that looks at the duration only
ExceedsDuration(used, duration) == duration > MaxDuration

Exceeds(used, duration) == used > MaxUsage \/ duration > MaxDuration

\* charge: the overage is persisted and then rejected.
Charged(reservation, used, duration) ==
    LET total == reservation.used + used
        elapsed == reservation.duration + duration
    IN  [reservation EXCEPT !.version = @ + 1, !.used = total, !.duration = elapsed,
                            !.status = IF Exceeds(total, elapsed) THEN "exhausted" ELSE @]

\* release that forgets the status
BudgetStillActive(reservation) == [reservation EXCEPT !.version = @ + 1]

BudgetReleased(reservation) == [reservation EXCEPT !.version = @ + 1, !.status = "released"]

-----------------------------------------------------------------------------
(* GovernedAgentExecutor *)

Executing(w, step) == executors[w].step = step

\* The executor goes on with the fields of e and the given step.
Becomes(w, e, step) == executors' = [executors EXCEPT ![w] = [e EXCEPT !.step = step]]

\* An error leaves the executor: the controller records a lifecycle error
\* and does not call it again.
Raise(w) == Becomes(w, executors[w], "raised")

\* The lease copy a transaction on lease id returned.
WithLease(e, table, id) ==
    [e EXCEPT !.lease = id,
              !.held = [status |-> table[id].status, version |-> table[id].version,
                        last_heartbeat_at |-> table[id].last_heartbeat_at]]

\* start: bindings and preflight hold, or it raises without a trace.
Reserve(w, r) ==
    /\ Executing(w, "idle")
    /\ IF CanReserve(budgets[r])
       THEN /\ budgets' = [budgets EXCEPT ![r] = Reserved]
            /\ Becomes(w, [executors[w] EXCEPT !.run = r, !.budget = Reserved], "attempt")
       ELSE Raise(w) /\ UNCHANGED budgets
    /\ UNCHANGED <<clock, leases, agents, crashes>>

AuthorizeAttempt(w) ==
    LET e == executors[w]
        updated == Attempted(budgets[e.run])
    IN  /\ Executing(w, "attempt")
        /\ IF Chargeable(budgets[e.run], e.budget)
           THEN /\ budgets' = [budgets EXCEPT ![e.run] = updated]
                /\ Becomes(w, [e EXCEPT !.budget = updated],
                           IF updated.status = "active" THEN "acquire" ELSE "raised")
           ELSE Raise(w) /\ UNCHANGED budgets
        /\ UNCHANGED <<clock, leases, agents, crashes>>

\* A refused lease leaves the reservation active.
AcquireLease(w) ==
    LET e == executors[w]
    IN  /\ Executing(w, "acquire")
        /\ \E id \in Drawable(leases) :
              IF CanAcquire(leases, e.run)
              THEN /\ leases' = Acquire(leases, id, w, e.run, clock, LeaseSeconds)
                   /\ Becomes(w, WithLease(e, leases', id), "launch")
              ELSE Raise(w) /\ UNCHANGED leases
        /\ UNCHANGED <<clock, budgets, agents, crashes>>

\* delegate.start
Launch(w) ==
    LET e == executors[w]
    IN  /\ Executing(w, "launch")
        /\ agents' = [agents EXCEPT ![e.run].status = "running", ![e.run].launches = @ + 1,
                                    ![e.run].started_at = clock]
        /\ Becomes(w, e, "poll")
        /\ UNCHANGED <<clock, leases, budgets, crashes>>

\* delegate.start raises; _close_without_worker gives everything back.
LaunchFails(w) ==
    /\ Executing(w, "launch")
    /\ Becomes(w, executors[w], "release_lease")
    /\ UNCHANGED <<clock, leases, budgets, agents, crashes>>

\* signalling first, and persisting the request never
StepOfCancelUnpersisted(e) == IF e.held.status = "active" THEN "signal" ELSE e.after

\* leaving the agent to its own end
StepOfCancelNever(e) == e.after

\* _request_cancel_before_signal: nothing to do when the copy of the lease
\* is not active, because the request was made before.
StepOfCancel(e) == IF e.held.status = "active" THEN "cancel" ELSE e.after

\* A report below the last one
Backwards(usage, e) == usage < e.last_usage

\* _charge_absolute_usage of one report, by executor w with the fields of d;
\* step `next` follows, after the cancellation if one is asked for.
ChargeUsage(w, d, usage, next) ==
    LET e == [d EXCEPT !.after = next]
        updated == Charged(budgets[e.run], usage - e.last_usage, 0)
        exceeded == [e EXCEPT !.exceeded = TRUE]
        charged == [e EXCEPT !.budget = updated, !.last_usage = usage,
                             !.exceeded = @ \/ updated.status = "exhausted"]
    IN  \/ /\ Backwards(usage, e)
           /\ Becomes(w, exceeded, StepOfCancel(exceeded))
           /\ UNCHANGED budgets
        \/ /\ ~Backwards(usage, e)
           /\ usage = e.last_usage \/ e.budget.status # "active"
           /\ Becomes(w, e, next)
           /\ UNCHANGED budgets
        \/ /\ usage > e.last_usage /\ e.budget.status = "active"
           /\ IF Chargeable(budgets[e.run], e.budget)
              THEN /\ budgets' = [budgets EXCEPT ![e.run] = updated]
                   /\ Becomes(w, charged, IF updated.status = "exhausted"
                                          THEN StepOfCancel(charged) ELSE next)
              ELSE Raise(w) /\ UNCHANGED budgets

\* delegate.events of collect, which passes no cursor: every event of the
\* run, the ones of earlier polls too.
FetchEvents(w) ==
    LET e == executors[w]
    IN  /\ Executing(w, "poll")
        /\ Becomes(w, [e EXCEPT !.pending = agents[e.run].reports], "observe")
        /\ UNCHANGED <<clock, leases, budgets, agents, crashes>>

\* _observe, one event at a time
ObserveUsage(w) ==
    LET e == executors[w]
    IN  /\ Executing(w, "observe")
        /\ IF e.pending = <<>>
           THEN Becomes(w, e, "heartbeat") /\ UNCHANGED budgets
           ELSE ChargeUsage(w, [e EXCEPT !.pending = Tail(@)], Head(e.pending), "observe")
        /\ UNCHANGED <<clock, leases, agents, crashes>>

\* The usage of the terminal result: the last report, if there was one
FinalUsage(agent, e) ==
    IF agent.reports = <<>> THEN e.last_usage ELSE agent.reports[Len(agent.reports)]

ChargeFinalUsage(w) ==
    LET e == executors[w]
    IN  /\ Executing(w, "final")
        /\ ChargeUsage(w, e, FinalUsage(agents[e.run], e), "duration")
        /\ UNCHANGED <<clock, leases, agents, crashes>>

PersistCancel(w) ==
    LET e == executors[w]
    IN  /\ Executing(w, "cancel")
        /\ IF CanRequestCancel(leases, e.lease, e.held.version, clock)
           THEN /\ leases' = RequestCancel(leases, e.lease, clock)
                /\ Becomes(w, WithLease(e, leases', e.lease), "signal")
           ELSE Raise(w) /\ UNCHANGED leases
        /\ UNCHANGED <<clock, budgets, agents, crashes>>

\* delegate.cancel
Signal(w) ==
    LET e == executors[w]
    IN  /\ Executing(w, "signal")
        /\ agents' = [agents EXCEPT ![e.run].signalled = TRUE]
        /\ Becomes(w, e, e.after)
        /\ UNCHANGED <<clock, leases, budgets, crashes>>

\* _heartbeat_if_due; when it is refused, the agent is to be cancelled and
\* the error raised.
HeartbeatIfDue(w) ==
    LET e == executors[w]
        due == e.held.status = "active" /\ clock - e.held.last_heartbeat_at >= HeartbeatEvery
        failed == [e EXCEPT !.after = "raised"]
    IN  /\ Executing(w, "heartbeat")
        /\ \/ /\ ~due
              /\ Becomes(w, e, "collect")
              /\ UNCHANGED leases
           \/ /\ due /\ CanHeartbeat(leases, e.lease, e.held.version, clock)
              /\ leases' = Heartbeat(leases, e.lease, clock, LeaseSeconds)
              /\ Becomes(w, WithLease(e, leases', e.lease), "collect")
           \/ /\ due /\ ~CanHeartbeat(leases, e.lease, e.held.version, clock)
              /\ Becomes(w, failed, StepOfCancel(failed))
              /\ UNCHANGED leases
        /\ UNCHANGED <<clock, budgets, agents, crashes>>

\* delegate.collect: still running, or the terminal result
Collect(w) ==
    LET e == executors[w]
    IN  /\ Executing(w, "collect")
        /\ Becomes(w, e, IF agents[e.run].status = "running" THEN "poll" ELSE "final")
        /\ UNCHANGED <<clock, leases, budgets, agents, crashes>>

\* The controller's deadline passes while the agent runs: cancel, and at the
\* second deadline a lifecycle error.
Deadline(w) ==
    LET e == [executors[w] EXCEPT !.timed_out = TRUE, !.after = "poll"]
    IN  /\ Executing(w, "collect")
        /\ agents[e.run].status = "running"
        /\ IF executors[w].timed_out THEN Raise(w)
           ELSE Becomes(w, e, IF e.held.status = "active" THEN "cancel" ELSE "signal")
        /\ UNCHANGED <<clock, leases, budgets, agents, crashes>>

\* collect that forgets an overage it met before
ResultOfAgentOnly(e, status) == status

\* An agent that completed over its budget has failed.
ResultOf(e, status) == IF e.exceeded THEN "failed" ELSE status

ChargeDuration(w) ==
    LET e == executors[w]
        agent == agents[e.run]
        delta == agent.ended_at - agent.started_at - e.budget.duration
        updated == Charged(budgets[e.run], 0, delta)
        charged == [e EXCEPT !.budget = updated, !.exceeded = @ \/ updated.status = "exhausted"]
        Collected(x) == [x EXCEPT !.result = ResultOf(x, agent.status)]
    IN  /\ Executing(w, "duration")
        /\ IF e.budget.status = "active" /\ delta > 0
           THEN IF Chargeable(budgets[e.run], e.budget)
                THEN /\ budgets' = [budgets EXCEPT ![e.run] = updated]
                     /\ Becomes(w, Collected(charged), "release_lease")
                ELSE Raise(w) /\ UNCHANGED budgets
           ELSE Becomes(w, Collected(e), "release_lease") /\ UNCHANGED budgets
        /\ UNCHANGED <<clock, leases, agents, crashes>>

\* _release_after_terminal, its three steps.  A lease that expired in the
\* meantime makes the first raise, and the others are not reached.
ReleaseLease(w) ==
    LET e == executors[w]
    IN  /\ Executing(w, "release_lease")
        /\ IF CanRelease(leases, e.lease, e.held.version)
           THEN /\ leases' = Release(leases, e.lease, clock)
                /\ Becomes(w, WithLease(e, leases', e.lease), "release_budget")
           ELSE Raise(w) /\ UNCHANGED leases
        /\ UNCHANGED <<clock, budgets, agents, crashes>>

ReleaseBudget(w) ==
    LET e == executors[w]
    IN  /\ Executing(w, "release_budget")
        /\ IF e.budget.status = "active"
           THEN IF Chargeable(budgets[e.run], e.budget)
                THEN /\ budgets' = [budgets EXCEPT ![e.run] = BudgetReleased(@)]
                     /\ Becomes(w, [e EXCEPT !.budget = budgets'[e.run]], "revoke")
                ELSE Raise(w) /\ UNCHANGED budgets
           ELSE Becomes(w, e, "revoke") /\ UNCHANGED budgets
        /\ UNCHANGED <<clock, leases, agents, crashes>>

\* The grant is revoked; a start that failed raises its error now.
RevokeCredential(w) ==
    LET e == executors[w]
    IN  /\ Executing(w, "revoke")
        /\ Becomes(w, [e EXCEPT !.revoked = TRUE],
                   IF agents[e.run].status = "unstarted" THEN "raised" ELSE "done")
        /\ UNCHANGED <<clock, leases, budgets, agents, crashes>>

-----------------------------------------------------------------------------
(* The environment *)

Tick ==
    /\ clock < MaxTime
    /\ clock' = clock + 1
    /\ UNCHANGED <<leases, budgets, agents, executors, crashes>>

\* recover_orphans of some other process
Sweep ==
    /\ CanRecoverOrphans(leases, clock)
    /\ leases' = RecoverOrphans(leases, clock)
    /\ UNCHANGED <<clock, budgets, agents, executors, crashes>>

\* An event with the counters of the run; they should grow.
AgentReports(r, usage) ==
    /\ agents[r].status = "running"
    /\ Len(agents[r].reports) < MaxReports
    /\ agents' = [agents EXCEPT ![r].reports = Append(@, usage)]
    /\ UNCHANGED <<clock, leases, budgets, executors, crashes>>

\* By itself, by the signal, or by the adapter's own timeout.
AgentEnds(r, status) ==
    /\ agents[r].status = "running"
    /\ agents' = [agents EXCEPT ![r].status = status, ![r].ended_at = clock]
    /\ UNCHANGED <<clock, leases, budgets, executors, crashes>>

Crash(w) ==
    /\ crashes < Crashes
    /\ executors[w].step \notin Stopped
    /\ crashes' = crashes + 1
    /\ Becomes(w, executors[w], "dead")
    /\ UNCHANGED <<clock, leases, budgets, agents>>

ExecutorStep(w) ==
    \/ AuthorizeAttempt(w)
    \/ AcquireLease(w)
    \/ Launch(w)
    \/ LaunchFails(w)
    \/ FetchEvents(w)
    \/ ObserveUsage(w)
    \/ PersistCancel(w)
    \/ Signal(w)
    \/ HeartbeatIfDue(w)
    \/ Collect(w)
    \/ Deadline(w)
    \/ ChargeFinalUsage(w)
    \/ ChargeDuration(w)
    \/ ReleaseLease(w)
    \/ ReleaseBudget(w)
    \/ RevokeCredential(w)

Next ==
    \/ Tick
    \/ Sweep
    \/ \E r \in Runs :
          \/ \E usage \in 0..MaxWork : AgentReports(r, usage)
          \/ \E status \in {"completed", "failed"} : AgentEnds(r, status)
    \/ \E w \in Workers :
          \/ \E r \in Runs : Reserve(w, r)
          \/ ExecutorStep(w)
          \/ Crash(w)

Spec == Init /\ [][Next]_vars

\* The controller keeps polling, and the adapter's timeout ends an agent
\* that does not end.
FairSpec ==
    /\ Spec
    /\ \A w \in Workers : WF_vars(ExecutorStep(w))
    /\ \A r \in Runs : WF_vars(\E status \in {"completed", "failed"} : AgentEnds(r, status))

-----------------------------------------------------------------------------
(* Properties *)

LeasesOf(r) == {id \in LeaseIds : leases[id].run = r}

\* However many executors are built for a run, one agent is started for it,
\* and only after an attempt was consumed and a lease was taken: a crash
\* between reservation and launch never leads to a second launch.
SingleGovernedLaunch ==
    \A r \in Runs :
        /\ agents[r].launches <= 1
        /\ agents[r].launches = 1 => budgets[r].attempts = 1 /\ LeasesOf(r) # {}

\* A cancellation is in the lease store before the agent hears of it
\* (ADR-0026: the signal is sent after the state is persisted), whichever
\* of overage, counters moving backwards, a refused heartbeat and the
\* deadline asked for it.
CancelPersistedBeforeSignal ==
    \A r \in Runs : agents[r].signalled =>
        \A id \in LeasesOf(r) : leases[id].status # "active"

\* A result is completed only if everything the agent reported was charged
\* to the reservation and fits it, also when the overage was met in a poll
\* long before the result was collected.
CompletedWithinBudget ==
    \A w \in Workers : executors[w].result = "completed" =>
        LET r == executors[w].run
        IN  /\ budgets[r].status \in {"active", "released"}
            /\ budgets[r].used = FinalUsage(agents[r], executors[w]) /\ budgets[r].used <= MaxUsage
            /\ agents[r].ended_at - agents[r].started_at <= MaxDuration

\* The grant is not revoked under a running agent, and an executor that
\* returned its result left nothing behind: lease, reservation and grant.
RevokedLast ==
    \A w \in Workers : executors[w].revoked =>
        LET r == executors[w].run
        IN  /\ agents[r].status # "running"
            /\ budgets[r].status # "active"
            /\ \A id \in LeasesOf(r) : leases[id].status = "released"

\* An agent over its budget is cancelled, unless its executor lost its lease
\* or its process before it could persist the cancellation: an overage met in
\* any poll, or in the final charge, reaches the agent.
OverageIsCancelled ==
    \A w \in Workers, r \in Runs :
        (executors[w].run = r /\ budgets[r].status = "exhausted" /\ executors[w].held.status = "active"
          /\ executors[w].last_usage > MaxUsage) ~>
            (agents[r].signalled \/ executors[w].step \in {"raised", "dead"})

\* The error of _charge_absolute_usage, "executor usage counters moved
\* backwards": only an agent whose own counters went down, or that really is
\* over its budget, is stopped.
StoppedOnlyForCause ==
    \A w \in Workers : executors[w].exceeded =>
        LET r == executors[w].run
            reports == agents[r].reports
        IN  \/ budgets[r].status = "exhausted"
            \/ \E i, j \in 1..Len(reports) : i < j /\ reports[i] > reports[j]

\* ADR-0025: the grant of a run is revoked after its terminal state.
TerminalRunRevokesGrant ==
    \A w \in Workers :
        (executors[w].run \in Runs /\ agents[executors[w].run].launches = 1
          /\ agents[executors[w].run].status # "running") ~> executors[w].revoked
=============================================================================
