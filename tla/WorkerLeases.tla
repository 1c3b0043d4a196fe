---------------------------- MODULE WorkerLeases ----------------------------
(***************************************************************************)
(* Workers that compete for the lease of a run through                     *)
(* SqliteWorkerLeaseStore, as GovernedAgentExecutor and the task-manager   *)
(* coordinator do: a worker acquires, keeps the WorkerLease it was         *)
(* returned, and passes that copy's version to every later call.           *)
(*                                                                         *)
(* The wall clock is common to the processes of the host and only moves    *)
(* forward.  A call samples `when` and then waits for the write lock, at   *)
(* most MaxWait (busy_timeout), so a transaction may work with a           *)
(* timestamp that is already old when it commits.  A worker is             *)
(* sequential: it samples after its previous call returned.                *)
(***************************************************************************)
EXTENDS LeaseTable

CONSTANTS MaxTime,     \* bound: last instant of the model's clock
          MaxWait,     \* longest wait for the write lock
          Durations,   \* lease_seconds callers ask for
          MaxVersion   \* bound: a lease is renewed below this version only

ASSUME WorkerLeasesAssumption ==
    /\ MaxTime \in Nat /\ MaxWait \in Nat /\ MaxVersion \in Nat
    /\ Durations \subseteq Nat \ {0}

VARIABLES clock,       \* the host's wall clock
          leases,      \* the worker_leases table
          held         \* the lease copy each worker works with

vars == <<clock, leases, held>>

\* A worker with no lease; `since` is when its last call returned.
Idle == [lease |-> "none", version |-> 0, expires_at |-> 0, since |-> 0]

Holds(w) == held[w].lease # "none"

\* The instants a call that started at or after `since` can have sampled.
Samples(since) == {t \in since..clock : clock - t <= MaxWait}

\* The copy the store returns to a caller.
Copy(table, id) ==
    [lease |-> id, version |-> table[id].version,
     expires_at |-> table[id].expires_at, since |-> clock]

TypeOK ==
    /\ clock \in 0..MaxTime
    /\ leases \in [LeaseIds -> Lease]
    /\ held \in [Workers -> [lease: LeaseIds \cup {"none"}, version: Nat,
                             expires_at: Int, since: 0..MaxTime]]

Init ==
    /\ clock = 0
    /\ leases = [id \in LeaseIds |-> NoLease]
    /\ held = [w \in Workers |-> Idle]

Tick ==
    /\ clock < MaxTime
    /\ clock' = clock + 1
    /\ UNCHANGED <<leases, held>>

AcquireLease(w, r) ==
    /\ ~Holds(w)
    /\ CanAcquire(leases, r)
    /\ \E id \in Drawable(leases), when \in Samples(held[w].since), seconds \in Durations :
          /\ leases' = Acquire(leases, id, w, r, when, seconds)
          /\ held' = [held EXCEPT ![w] = Copy(leases', id)]
    /\ UNCHANGED clock

HeartbeatLease(w) ==
    /\ Holds(w)
    /\ held[w].version < MaxVersion
    /\ \E when \in Samples(held[w].since), seconds \in Durations :
          /\ CanHeartbeat(leases, held[w].lease, held[w].version, when)
          /\ leases' = Heartbeat(leases, held[w].lease, when, seconds)
          /\ held' = [held EXCEPT ![w] = Copy(leases', held[w].lease)]
    /\ UNCHANGED clock

CancelLease(w) ==
    /\ Holds(w)
    /\ \E when \in Samples(held[w].since) :
          /\ CanRequestCancel(leases, held[w].lease, held[w].version, when)
          /\ leases' = RequestCancel(leases, held[w].lease, when)
          /\ held' = [held EXCEPT ![w] = Copy(leases', held[w].lease)]
    /\ UNCHANGED clock

ReleaseLease(w) ==
    /\ Holds(w)
    /\ CanRelease(leases, held[w].lease, held[w].version)
    /\ \E when \in Samples(held[w].since) :
          leases' = Release(leases, held[w].lease, when)
    /\ held' = [held EXCEPT ![w] = [Idle EXCEPT !.since = clock]]
    /\ UNCHANGED clock

\* The worker's process dies, or gives its copy up after a call raised.
Abandon(w) ==
    /\ Holds(w)
    /\ held' = [held EXCEPT ![w] = [Idle EXCEPT !.since = clock]]
    /\ UNCHANGED <<clock, leases>>

\* Any process may sweep; nothing ties the sweep to the leases it expires.
Sweep ==
    /\ \E when \in Samples(0) :
          /\ CanRecoverOrphans(leases, when)
          /\ leases' = RecoverOrphans(leases, when)
    /\ UNCHANGED <<clock, held>>

Next ==
    \/ Tick
    \/ Sweep
    \/ \E w \in Workers :
          \/ \E r \in Runs : AcquireLease(w, r)
          \/ HeartbeatLease(w)
          \/ CancelLease(w)
          \/ ReleaseLease(w)
          \/ Abandon(w)

Spec == Init /\ [][Next]_vars

\* Time passes, and somebody keeps sweeping: every tick of the task-manager
\* coordinator begins with recover_orphans.
FairSpec == Spec /\ WF_vars(Tick) /\ WF_vars(Sweep)

-----------------------------------------------------------------------------
(* Properties *)

\* A worker believes it owns a run while the deadline of its copy is ahead.
Believes(w, r) ==
    /\ Holds(w)
    /\ leases[held[w].lease].run = r
    /\ clock < held[w].expires_at

\* The index does its work: at most one lease of a run has a live status.
OneLiveLeasePerRun ==
    \A r \in Runs : \A a, b \in LiveLeasesOf(leases, r) : a = b

\* The inductive strengthening of ExclusiveOwnership: while a lease has a
\* live status only its holder changes it, so the copy is exact; a lease is
\* expired under a holder only when the deadline of the copy has passed.
CopyFaithful(w) ==
    LET lease == leases[held[w].lease]
    IN  /\ lease.worker = w
        /\ lease.acquired_at <= held[w].since /\ held[w].since <= clock
        /\ lease.expires_at = held[w].expires_at
        /\ \/ HasLiveStatus(lease) /\ lease.version = held[w].version
           \/ lease.status = "expired" /\ lease.expires_at <= clock

CopiesFaithful == \A w \in Workers : Holds(w) => CopyFaithful(w)

\* What the lease is for.  No two workers believe at the same instant that
\* they own a run, although a worker reads only its own copy, timestamps are
\* stale when they are used, release ignores the deadline, and a third
\* process may expire the lease at any moment (sqlite_workers.py, all calls).
ExclusiveOwnership ==
    \A r \in Runs : \A v, w \in Workers : Believes(v, r) /\ Believes(w, r) => v = w

\* The owner of a run, seen from outside: the worker that believes it is.
Owner ==
    [r \in Runs |-> IF \E w \in Workers : Believes(w, r)
                   THEN CHOOSE w \in Workers : Believes(w, r)
                   ELSE NoWorker]

Ownership == INSTANCE RunOwnership WITH owner <- Owner

\* Leases, with their stale timestamps, late calls and sweeps, act as a lock
\* that may lapse: a run never passes from one worker straight to another,
\* and a renewal that arrives after the deadline cannot take a run back from
\* its next owner.
LeasesImplementOwnership == Ownership!Spec

\* Every row the store wrote with the unvalidated model_copy can be read
\* back by _decode; a single row that cannot would make every later
\* recover_orphans raise, for all runs.
StoredLeasesDecode ==
    \A id \in LeaseIds : leases[id].status # "none" => Decodable(leases[id])

\* A lease that reached released or expired never changes again: a late
\* heartbeat, cancel or release of the former holder is refused.
TerminalLeasesFrozen ==
    [][\A id \in LeaseIds :
          leases[id].status \in TerminalLeaseStatuses => leases'[id] = leases[id]]_vars

\* A lease whose deadline has passed does not block its run for ever, also
\* when its holder died: it is swept, released, or (by a call that sampled
\* its time before the deadline) renewed.
ElapsedLeasesReclaimed ==
    \A id \in LeaseIds :
        (HasLiveStatus(leases[id]) /\ leases[id].expires_at <= clock)
            ~> ~(HasLiveStatus(leases[id]) /\ leases[id].expires_at <= clock)
=============================================================================
