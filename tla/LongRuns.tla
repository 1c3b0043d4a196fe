------------------------------ MODULE LongRuns ------------------------------
(***************************************************************************)
(* LongRunningExecutionService: supervisors drive long runs through        *)
(* service calls.  A call reads the handle of its run, writes the worker   *)
(* lease store, and appends to the long-run store.  The two stores commit  *)
(* separately, so a call is up to four steps, and other supervisors, the   *)
(* provider, the clock and crashes come between them.                      *)
(*                                                                         *)
(* A handle is the projection of SqliteLongRunStore; its event history is  *)
(* determined by it except for event types and details, which are left     *)
(* out with the soft limits and stall warnings that only choose them.      *)
(* All counted usage dimensions are one, and the provider spends one unit  *)
(* of it per event, so event_cursor is also the usage of the attempt.      *)
(***************************************************************************)
EXTENDS LeaseTable

CONSTANTS MaxAttempts,    \* policy.max_attempts
          LeaseSeconds,   \* policy.lease_seconds
          TaskMax,        \* hard limit of task_elapsed_ms
          AttemptMax,     \* hard limit of attempt_elapsed_ms
          UsageMax,       \* hard limit of the counted usage
          NoLeaseId,      \* worker_lease_id is None
          MaxTime,        \* bound: last instant of the clock
          MaxWork,        \* bound: events of one provider run
          MaxVersion,     \* bound: runs are observed and checkpointed below it
          Crashes         \* bound: supervisor crashes in a behaviour

ASSUME LongRunsAssumption ==
    /\ {MaxAttempts, LeaseSeconds, TaskMax, AttemptMax, UsageMax} \subseteq Nat \ {0}
    /\ {MaxTime, MaxWork, MaxVersion, Crashes} \subseteq Nat
    /\ AttemptMax <= TaskMax
    /\ NoLeaseId \notin LeaseIds

VARIABLES clock,       \* wall clock
          leases,      \* the worker lease store
          handles,     \* the projection of every run
          providers,   \* per run and attempt, the provider's own run
          calls,       \* the service call each supervisor is in
          crashes      \* crashes so far

vars == <<clock, leases, handles, providers, calls, crashes>>

-----------------------------------------------------------------------------
(* Values *)

Attempts == 1..MaxAttempts
Instants == 0..MaxTime
Dimensions == {"task_elapsed", "attempt_elapsed", "usage"}

BoundStatuses == {"running", "cancel_requested"}
TerminalStatuses == {"completed", "failed", "cancelled", "lost"}

Handle ==
    [status: BoundStatuses \cup TerminalStatuses \cup {"absent", "admitted"},
     version: Nat, attempt: 0..MaxAttempts,
     lease: LeaseIds \cup {NoLeaseId}, lease_version: Nat,
     started_at: Instants, created_at: Instants, updated_at: Instants,
     cursor: 0..MaxWork, used: Nat, hard: SUBSET Dimensions, checkpoint_count: Nat]

NoHandle ==
    [status |-> "absent", version |-> 0, attempt |-> 0,
     lease |-> NoLeaseId, lease_version |-> 0,
     started_at |-> 0, created_at |-> 0, updated_at |-> 0,
     cursor |-> 0, used |-> 0, hard |-> {}, checkpoint_count |-> 0]

\* ProviderRunStatus of a started run; queued behaves as running.
EndedStatuses == {"completed", "failed", "cancelled", "missing"}
Provider == [status: {"unstarted", "running"} \cup EndedStatuses,
             work: 0..MaxWork, started_at: Instants]

\* What a supervisor knows when it calls: a ProviderRunObservation, or (for
\* the calls that take `now`) the time, or (for bind) the reference.
Observation == [attempt: Attempts, status: {"running"} \cup EndedStatuses,
                cursor: 0..MaxWork, started_at: Instants, at: Instants]

Operations == {"bind", "observe", "checkpoint", "cancel", "finish", "recover", "retry"}
Steps == {"read", "lease", "acquire", "append", "compensate"}

Call == [op: Operations, step: Steps, run: Runs, current: Handle,
         obs: Observation, lease: LeaseIds \cup {NoLeaseId}, lease_version: Nat]

Idle == [op |-> "idle"]

TypeOK ==
    /\ clock \in Instants
    /\ leases \in [LeaseIds -> Lease]
    /\ handles \in [Runs -> Handle]
    /\ providers \in [Runs -> [Attempts -> Provider]]
    /\ calls \in [Workers -> Call \cup {Idle}]
    /\ crashes \in 0..Crashes

-----------------------------------------------------------------------------
(* Helpers of the service *)

\* _merge_usage before its arithmetic: the observation is of the bound
\* provider run and nothing in it moves backwards.
Mergeable(h, obs) ==
    /\ obs.attempt = h.attempt
    /\ obs.at >= h.updated_at
    /\ obs.cursor >= h.cursor

\* _merge_usage counting the whole attempt instead of what is new
MergedUsageTwice(h, obs) == h.used + obs.cursor

\* _merge_usage: the task's total grows by what the attempt reports anew.
MergedUsage(h, obs) == h.used + (obs.cursor - h.cursor)

\* _limits that forgets the task-wide totals
HardAttemptOnly(h, obs) == IF obs.at - h.started_at > AttemptMax THEN {"attempt_elapsed"} ELSE {}

\* _limits, the hard ones
Hard(h, obs) ==
    {d \in Dimensions :
        \/ d = "task_elapsed" /\ obs.at - h.created_at > TaskMax
        \/ d = "attempt_elapsed" /\ obs.at - h.started_at > AttemptMax
        \/ d = "usage" /\ MergedUsage(h, obs) > UsageMax}

\* _require_not_past_task_deadline
WithinDeadline(h, when) == when - h.created_at <= TaskMax

\* _terminal_status
TerminalStatus(status, hard) ==
    CASE status = "missing" -> "lost"
      [] status = "cancelled" -> "cancelled"
      [] status = "completed" /\ hard = {} -> "completed"
      [] OTHER -> "failed"

\* authorize_retry without the comparison with max_attempts
RetryAllowedAlways(h, when) ==
    h.status \in {"failed", "lost"} /\ when >= h.updated_at /\ WithinDeadline(h, when)

\* authorize_retry, its checks
RetryAllowed(h, when) ==
    /\ h.status \in {"failed", "lost"}
    /\ when >= h.updated_at
    /\ h.attempt < MaxAttempts
    /\ WithinDeadline(h, when)

\* bind_provider, its checks on the handle, the reference and the time
BindAccepted(h, obs) ==
    /\ h.status = "admitted"
    /\ obs.at >= h.updated_at
    /\ h.created_at <= obs.started_at /\ obs.started_at <= obs.at
    /\ obs.attempt = h.attempt
    /\ h.attempt <= MaxAttempts
    /\ WithinDeadline(h, obs.at)

\* observe and finish
ObserveAccepted(h, obs) ==
    h.status \in BoundStatuses /\ obs.status = "running" /\ Mergeable(h, obs)

FinishAccepted(h, obs) ==
    h.status \in BoundStatuses /\ obs.status \in EndedStatuses /\ Mergeable(h, obs)

\* recover, up to its sweep
RecoverAccepted(h, obs) ==
    h.status = "running" /\ obs.attempt = h.attempt /\ obs.status = "running"

\* checkpoint and request_cancel
RunningAccepted(h, when) == h.status = "running" /\ when >= h.updated_at

\* The checks of a call before its first write
Accepts(op, h, obs) ==
    CASE op = "bind" -> BindAccepted(h, obs)
      [] op = "observe" -> ObserveAccepted(h, obs)
      [] op = "finish" -> FinishAccepted(h, obs)
      [] op = "recover" -> RecoverAccepted(h, obs)
      [] op \in {"checkpoint", "cancel"} -> RunningAccepted(h, obs.at)
      [] op = "retry" -> RetryAllowed(h, obs.at)

\* observe that renews the lease also beyond a hard limit
LeaseOperationOfObserveRenewing(h, obs) ==
    IF h.status = "cancel_requested" THEN "none" ELSE "heartbeat"

\* observe: heartbeat, or the request to cancel when a hard limit is
\* exceeded; nothing more once the cancellation is recorded.
LeaseOperationOfObserve(h, obs) ==
    CASE h.status = "cancel_requested" -> "none"
      [] h.status # "cancel_requested" /\ Hard(h, obs) # {} -> "request_cancel"
      [] OTHER -> "heartbeat"

\* The lease transaction a call makes between reading and appending.
LeaseOperation(op, h, obs) ==
    CASE op = "bind" -> "acquire"
      [] op = "observe" -> LeaseOperationOfObserve(h, obs)
      [] op = "checkpoint" -> "heartbeat"
      [] op = "cancel" -> "request_cancel"
      [] op = "finish" -> "release"
      [] op = "recover" -> "recover_orphans"
      [] op = "retry" -> "none"

\* The handles the calls append.  `lease` is the lease id and version that
\* the call's lease transaction returned.
Leased(h, when, lease) ==
    [h EXCEPT !.version = @ + 1, !.lease = lease[1], !.lease_version = lease[2],
              !.updated_at = when]

Bound(h, obs, lease) ==
    [Leased(h, obs.at, lease) EXCEPT !.status = "running", !.started_at = obs.started_at,
                                     !.cursor = 0]

Checkpointed(h, obs, lease) ==
    [Leased(h, obs.at, lease) EXCEPT !.checkpoint_count = @ + 1]

CancelRequested(h, obs, lease) ==
    [Leased(h, obs.at, lease) EXCEPT !.status = "cancel_requested"]

Recovered(h, obs, lease) ==
    [Leased(h, obs.at, lease) EXCEPT !.cursor = obs.cursor, !.used = MergedUsage(h, obs)]

\* observe and finish, the fields they share
Merged(h, obs, lease) ==
    [Leased(h, obs.at, lease) EXCEPT !.cursor = obs.cursor, !.used = MergedUsage(h, obs),
                                     !.hard = @ \cup Hard(h, obs)]

Observed(h, obs, lease) ==
    [Merged(h, obs, lease) EXCEPT !.status = IF Hard(h, obs) # {} THEN "cancel_requested" ELSE @]

Finished(h, obs, lease) ==
    [Merged(h, obs, lease) EXCEPT !.status = TerminalStatus(obs.status, Hard(h, obs))]

\* authorize_retry that starts the task's totals anew
RetriedForgettingUsage(h, when) ==
    [h EXCEPT !.status = "admitted", !.version = @ + 1, !.attempt = @ + 1,
              !.lease = NoLeaseId, !.lease_version = 0, !.started_at = 0,
              !.cursor = 0, !.used = 0, !.updated_at = when]

\* authorize_retry: a new attempt, with the task's totals kept
Retried(h, when) ==
    [h EXCEPT !.status = "admitted", !.version = @ + 1, !.attempt = @ + 1,
              !.lease = NoLeaseId, !.lease_version = 0, !.started_at = 0,
              !.cursor = 0, !.updated_at = when]

Updated(c) ==
    LET lease == <<c.lease, c.lease_version>>
    IN  CASE c.op = "bind" -> Bound(c.current, c.obs, lease)
          [] c.op = "observe" -> Observed(c.current, c.obs, lease)
          [] c.op = "checkpoint" -> Checkpointed(c.current, c.obs, lease)
          [] c.op = "cancel" -> CancelRequested(c.current, c.obs, lease)
          [] c.op = "finish" -> Finished(c.current, c.obs, lease)
          [] c.op = "recover" -> Recovered(c.current, c.obs, lease)
          [] c.op = "retry" -> Retried(c.current, c.obs.at)

-----------------------------------------------------------------------------
(* Steps of a call *)

Init ==
    /\ clock = 0
    /\ leases = [id \in LeaseIds |-> NoLease]
    /\ handles = [r \in Runs |-> NoHandle]
    /\ providers = [r \in Runs |-> [k \in Attempts |->
                        [status |-> "unstarted", work |-> 0, started_at |-> 0]]]
    /\ calls = [s \in Workers |-> Idle]
    /\ crashes = 0

\* admit writes the long-run store only.
Admit(r) ==
    /\ handles[r].status = "absent"
    /\ handles' = [handles EXCEPT ![r] =
                      [NoHandle EXCEPT !.status = "admitted", !.version = 1, !.attempt = 1,
                                       !.created_at = clock, !.updated_at = clock]]
    /\ UNCHANGED <<clock, leases, providers, calls, crashes>>

Begin(s, op, r, obs) ==
    calls' = [calls EXCEPT ![s] =
                 [op |-> op, step |-> "read", run |-> r, current |-> NoHandle,
                  obs |-> obs, lease |-> NoLeaseId, lease_version |-> 0]]

\* A call that passed its checks on handle h, at its next write.
Proceed(s, op, r, h, obs) ==
    LET operation == LeaseOperation(op, h, obs)
    IN  calls' = [calls EXCEPT ![s] =
            [op |-> op, run |-> r, current |-> h, obs |-> obs,
             lease |-> h.lease, lease_version |-> h.lease_version,
             step |-> CASE operation = "none" -> "append"
                        [] operation = "acquire" -> "acquire"
                        [] OTHER -> "lease"]]

\* start_request, and the adapter's idempotent start_or_locate.
StartOrLocate(s, r) ==
    LET k == handles[r].attempt
        started == IF providers[r][k].status = "unstarted"
                   THEN [status |-> "running", work |-> 0, started_at |-> clock]
                   ELSE providers[r][k]
    IN  /\ calls[s] = Idle
        /\ handles[r].status = "admitted"
        /\ providers' = [providers EXCEPT ![r][k] = started]
        /\ Begin(s, "bind", r, [attempt |-> k, status |-> "running", cursor |-> 0,
                                started_at |-> started.started_at, at |-> clock])
        /\ UNCHANGED <<clock, leases, handles, crashes>>

\* The adapter's observe, of the provider run the handle names; the call
\* that reports it follows later.
Poll(s, r, op) ==
    LET k == handles[r].attempt
        p == providers[r][k]
    IN  /\ calls[s] = Idle
        /\ handles[r].status \in BoundStatuses
        /\ op \in {"observe", "finish", "recover"}
        /\ op = "finish" <=> p.status \in EndedStatuses
        /\ op = "observe" => handles[r].version < MaxVersion
        /\ Begin(s, op, r, [attempt |-> k, status |-> p.status, cursor |-> p.work,
                            started_at |-> p.started_at, at |-> clock])
        /\ UNCHANGED <<clock, leases, handles, providers, crashes>>

\* checkpoint, request_cancel and authorize_retry read the handle and then
\* the clock.
Ask(s, r, op) ==
    LET h == handles[r]
        obs == [attempt |-> h.attempt, status |-> "running", cursor |-> h.cursor,
                started_at |-> h.started_at, at |-> clock]
    IN  /\ calls[s] = Idle
        /\ op \in {"checkpoint", "cancel", "retry"}
        /\ op = "checkpoint" => h.version < MaxVersion
        /\ Accepts(op, h, obs)
        /\ Proceed(s, op, r, h, obs)
        /\ UNCHANGED <<clock, leases, handles, providers, crashes>>

\* _required and the checks of a call that brings an observation or a
\* reference; bind_provider samples the time now.  A call that raises here
\* leaves no trace.
ReadHandle(s) ==
    LET c == calls[s]
        h == handles[c.run]
        obs == IF c.op = "bind" THEN [c.obs EXCEPT !.at = clock] ELSE c.obs
    IN  /\ c # Idle
        /\ c.step = "read"
        /\ IF Accepts(c.op, h, obs)
           THEN Proceed(s, c.op, c.run, h, obs)
           ELSE calls' = [calls EXCEPT ![s] = Idle]
        /\ UNCHANGED <<clock, leases, handles, providers, crashes>>

\* _heartbeat, _request_lease_cancel or _release_lease with the lease version
\* of the handle that was read.
WriteLease(s) ==
    LET c == calls[s]
        id == c.current.lease
        version == c.current.lease_version
        operation == LeaseOperation(c.op, c.current, c.obs)
        Commit(table) ==
            /\ leases' = table
            /\ calls' = [calls EXCEPT ![s] = [c EXCEPT !.step = "append",
                                                       !.lease_version = table[id].version]]
        Raise == calls' = [calls EXCEPT ![s] = Idle] /\ UNCHANGED leases
    IN  /\ c # Idle
        /\ c.step = "lease" /\ c.op # "recover"
        /\ \/ /\ operation = "heartbeat"
              /\ IF CanHeartbeat(leases, id, version, c.obs.at)
                 THEN Commit(Heartbeat(leases, id, c.obs.at, LeaseSeconds))
                 ELSE Raise
           \/ /\ operation = "request_cancel"
              /\ IF CanRequestCancel(leases, id, version, c.obs.at)
                 THEN Commit(RequestCancel(leases, id, c.obs.at))
                 ELSE Raise
           \/ /\ operation = "release"
              /\ IF CanRelease(leases, id, version)
                 THEN Commit(Release(leases, id, c.obs.at))
                 ELSE Raise
        /\ UNCHANGED <<clock, handles, providers, crashes>>

\* recover: a lease that is live at the time of the observation is respected.
MayTakeOver(lease, when) == ~IsLive(lease, when)

\* recover sweeps before it merges the usage and looks at the limits: when
\* one of those raises, the sweep stays.
SweepForRecover(s) ==
    LET c == calls[s]
        id == c.current.lease
        table == RecoverOrphans(leases, c.obs.at)
        resumable == /\ table[id].status = "expired"
                     /\ Mergeable(c.current, c.obs)
                     /\ Hard(c.current, c.obs) = {}
    IN  /\ c # Idle
        /\ c.step = "lease" /\ c.op = "recover"
        /\ IF MayTakeOver(leases[id], c.obs.at) /\ CanRecoverOrphans(leases, c.obs.at)
           THEN /\ leases' = table
                /\ calls' = [calls EXCEPT ![s] =
                                IF resumable THEN [c EXCEPT !.step = "acquire"] ELSE Idle]
           ELSE calls' = [calls EXCEPT ![s] = Idle] /\ UNCHANGED leases
        /\ UNCHANGED <<clock, handles, providers, crashes>>

\* bind_provider and recover acquire a lease of their own.
AcquireForCall(s) ==
    LET c == calls[s]
    IN  /\ c # Idle
        /\ c.step = "acquire"
        /\ \/ /\ CanAcquire(leases, c.run)
              /\ \E id \in Drawable(leases) :
                    /\ leases' = Acquire(leases, id, s, c.run, c.obs.at, LeaseSeconds)
                    /\ calls' = [calls EXCEPT ![s] = [c EXCEPT !.step = "append", !.lease = id,
                                                               !.lease_version = 1]]
           \/ /\ ~CanAcquire(leases, c.run)
              /\ calls' = [calls EXCEPT ![s] = Idle]
              /\ UNCHANGED leases
        /\ UNCHANGED <<clock, handles, providers, crashes>>

\* append without the comparison of the version
AppendableAny(h, current) == h.status \notin TerminalStatuses \/ current.status \in TerminalStatuses

\* _append and SqliteLongRunStore.append: nothing was appended since the
\* read.  A version determines the whole handle.
Appendable(h, current) == h.version = current.version

AppendEvent(s) ==
    LET c == calls[s]
        applies == Appendable(handles[c.run], c.current)
    IN  /\ c # Idle
        /\ c.step = "append"
        /\ IF applies
           THEN handles' = [handles EXCEPT ![c.run] = Updated(c)]
           ELSE UNCHANGED handles
        /\ calls' = [calls EXCEPT ![s] = IF applies \/ c.op # "bind" THEN Idle
                                         ELSE [c EXCEPT !.step = "compensate"]]
        /\ UNCHANGED <<clock, leases, providers, crashes>>

\* Only bind_provider gives its lease back when the append is refused.
CompensateBind(s) ==
    LET c == calls[s]
    IN  /\ c # Idle
        /\ c.step = "compensate"
        /\ leases' = IF CanRelease(leases, c.lease, c.lease_version)
                     THEN Release(leases, c.lease, c.obs.at) ELSE leases
        /\ calls' = [calls EXCEPT ![s] = Idle]
        /\ UNCHANGED <<clock, handles, providers, crashes>>

\* The supervisor's process dies inside a call.
Crash(s) ==
    /\ crashes < Crashes
    /\ calls[s] # Idle
    /\ calls' = [calls EXCEPT ![s] = Idle]
    /\ crashes' = crashes + 1
    /\ UNCHANGED <<clock, leases, handles, providers>>

-----------------------------------------------------------------------------
(* The environment *)

Tick ==
    /\ clock < MaxTime
    /\ clock' = clock + 1
    /\ UNCHANGED <<leases, handles, providers, calls, crashes>>

ProviderWorks(r, k) ==
    /\ providers[r][k].status = "running"
    /\ providers[r][k].work < MaxWork
    /\ providers' = [providers EXCEPT ![r][k].work = @ + 1]
    /\ UNCHANGED <<clock, leases, handles, calls, crashes>>

\* The provider ends by itself, or on the adapter's request_cancel, which is
\* sent once cancel_requested is persisted.
ProviderEnds(r, k, status) ==
    /\ providers[r][k].status = "running"
    /\ status \in EndedStatuses
    /\ status = "cancelled" => handles[r].status = "cancel_requested" /\ handles[r].attempt = k
    /\ providers' = [providers EXCEPT ![r][k].status = status]
    /\ UNCHANGED <<clock, leases, handles, calls, crashes>>

CallStep(s) ==
    \/ ReadHandle(s)
    \/ WriteLease(s)
    \/ SweepForRecover(s)
    \/ AcquireForCall(s)
    \/ AppendEvent(s)
    \/ CompensateBind(s)

Next ==
    \/ Tick
    \/ \E r \in Runs : Admit(r)
    \/ \E r \in Runs, k \in Attempts :
          \/ ProviderWorks(r, k)
          \/ \E status \in EndedStatuses : ProviderEnds(r, k, status)
    \/ \E s \in Workers :
          \/ CallStep(s)
          \/ Crash(s)
          \/ \E r \in Runs :
                \/ StartOrLocate(s, r)
                \/ \E op \in Operations : Poll(s, r, op) \/ Ask(s, r, op)

Spec == Init /\ [][Next]_vars

\* Supervisors keep polling, reconcile ended providers with finish and
\* orphans with recover, and a call that began goes on.
SupervisionFairness ==
    /\ WF_vars(Tick)
    /\ \A s \in Workers : WF_vars(CallStep(s))
    /\ \A s \in Workers, r \in Runs :
          SF_vars(Poll(s, r, "finish")) /\ SF_vars(Poll(s, r, "recover"))

FairSpec == Spec /\ SupervisionFairness

-----------------------------------------------------------------------------
(* Properties *)

BoundLease(r) == leases[handles[r].lease]

\* The order of the two stores: a handle says cancel_requested only after
\* its lease refuses heartbeats, and says it is terminal only after its
\* lease was released; the lease version it records is one the lease had.
HandleFollowsLease ==
    \A r \in Runs :
        /\ handles[r].status = "cancel_requested" => BoundLease(r).status # "active"
        /\ handles[r].status \in TerminalStatuses => BoundLease(r).status = "released"
        /\ handles[r].status \in BoundStatuses =>
              /\ BoundLease(r).run = r
              /\ handles[r].lease_version <= BoundLease(r).version

\* A running handle moves to another lease only when the one it had is
\* expired: recovery never takes a run over from a live or released owner.
TakeoverOnlyAfterExpiry ==
    [][\A r \in Runs :
          (/\ handles[r].status \in BoundStatuses
           /\ handles'[r].lease # handles[r].lease) =>
              leases[handles[r].lease].status = "expired"]_vars

\* Within an attempt nothing recorded moves backwards, and a cancellation
\* is never taken back, whatever stale observations are delivered late.
ProgressIsMonotone ==
    [][\A r \in Runs :
          handles'[r].attempt = handles[r].attempt /\ handles[r].status # "absent" =>
              /\ handles'[r].cursor >= handles[r].cursor
              /\ handles'[r].updated_at >= handles[r].updated_at
              /\ handles[r].hard \subseteq handles'[r].hard
              /\ handles[r].status = "cancel_requested" => handles'[r].status # "running"]_vars

\* What the provider runs of the first n attempts have spent together.
Spent(provider) ==
    LET total[n \in 0..MaxAttempts] == IF n = 0 THEN 0 ELSE total[n - 1] + provider[n].work
    IN  total

\* The task's total usage is what its provider runs really spent, reported
\* once each: crashes, takeovers, retries and repeated observations neither
\* count an event twice nor lose one that a finished attempt reported.
UsageCountedOnce ==
    \A r \in Runs :
        LET spent == Spent(providers[r])[handles[r].attempt]
        IN  /\ handles[r].used <= spent
            /\ handles[r].status \in TerminalStatuses => handles[r].used = spent

\* Work is reported complete only inside every hard limit, also the limits
\* that add up over attempts.
CompletedWithinLimits ==
    \A r \in Runs : handles[r].status = "completed" =>
        /\ handles[r].used <= UsageMax
        /\ handles[r].updated_at - handles[r].created_at <= TaskMax
        /\ handles[r].updated_at - handles[r].started_at <= AttemptMax
        /\ handles[r].hard \subseteq {"attempt_elapsed"}

\* A run whose provider run cannot be found is recorded as lost, or the run
\* ends otherwise (ADR-0035: a provider run that is not found is recorded
\* as lost).
MissingProviderRecordedLost ==
    \A r \in Runs, k \in Attempts :
        (/\ handles[r].status \in BoundStatuses /\ handles[r].attempt = k
         /\ providers[r][k].status = "missing")
            ~> (handles[r].status \in TerminalStatuses)
=============================================================================
