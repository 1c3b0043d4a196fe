----------------------------- MODULE LeaseTable -----------------------------
(***************************************************************************)
(* The worker_leases table of SqliteWorkerLeaseStore and its transactions, *)
(* as operators on a table value.  A table maps every lease id that will   *)
(* ever be drawn (uuid4) to its row; an id not yet drawn maps to NoLease.  *)
(*                                                                         *)
(* Every operation of the store is one BEGIN IMMEDIATE transaction, so an  *)
(* operation is a guard (the checks that raise WorkerLeaseError) and the   *)
(* table it commits.  `when` is the caller's timestamp: it is sampled      *)
(* before the transaction gets the write lock.  One unit of time is the    *)
(* store's resolution, one microsecond.                                    *)
(*                                                                         *)
(* WorkerLeases runs these operators with independent workers, LongRuns    *)
(* with the long-running execution service.                                *)
(***************************************************************************)
EXTENDS Integers

CONSTANTS LeaseIds,   \* the ids uuid4 will draw
          Workers,    \* worker_id of a lease
          Runs,       \* run_id of a lease
          NoWorker,   \* worker of an id not drawn yet
          NoRun       \* run of an id not drawn yet

ASSUME LeaseTableAssumption == NoRun \notin Runs /\ NoWorker \notin Workers

LiveStatuses == {"active", "cancel_requested"}
TerminalLeaseStatuses == {"released", "expired"}

Lease ==
    [status: LiveStatuses \cup TerminalLeaseStatuses \cup {"none"},
     worker: Workers \cup {NoWorker}, run: Runs \cup {NoRun},
     version: Nat, acquired_at: Int, last_heartbeat_at: Int, expires_at: Int]

NoLease ==
    [status |-> "none", worker |-> NoWorker, run |-> NoRun,
     version |-> 0, acquired_at |-> 0, last_heartbeat_at |-> 0, expires_at |-> 0]

HasLiveStatus(lease) == lease.status \in LiveStatuses

\* WorkerLease.is_live: a live status and a deadline still ahead.
IsLive(lease, when) == HasLiveStatus(lease) /\ when < lease.expires_at

\* WorkerLease.validate_times.  The store writes rows with model_copy, which
\* does not validate, and validates them when it reads them back (_decode).
Decodable(lease) ==
    /\ lease.last_heartbeat_at >= lease.acquired_at
    /\ lease.expires_at > lease.last_heartbeat_at

Drawable(table) == {id \in LeaseIds : table[id].status = "none"}

LiveLeasesOf(table, run) ==
    {id \in LeaseIds : table[id].run = run /\ HasLiveStatus(table[id])}

\* one_live_lease_per_run, dropped
CanAcquireWithoutIndex(table, run) == TRUE

\* The partial unique index one_live_lease_per_run decides on the stored
\* status alone: an elapsed lease still blocks until it is marked expired.
CanAcquire(table, run) == LiveLeasesOf(table, run) = {}

Acquire(table, id, worker, run, when, seconds) ==
    [table EXCEPT ![id] =
        [status |-> "active", worker |-> worker, run |-> run, version |-> 1,
         acquired_at |-> when, last_heartbeat_at |-> when,
         expires_at |-> when + seconds]]

\* _load_for_update: the row exists, decodes and has the expected version.
Loaded(table, id, expected_version) ==
    /\ table[id].status # "none"
    /\ Decodable(table[id])
    /\ table[id].version = expected_version

\* a heartbeat that compares the deadline, but neither status nor version
CanHeartbeatAnyVersion(table, id, expected_version, when) ==
    table[id].status # "none" /\ when < table[id].expires_at

CanHeartbeat(table, id, expected_version, when) ==
    /\ Loaded(table, id, expected_version)
    /\ table[id].status = "active"
    /\ when < table[id].expires_at

Heartbeat(table, id, when, seconds) ==
    [table EXCEPT ![id].version = @ + 1,
                  ![id].last_heartbeat_at = when,
                  ![id].expires_at = when + seconds]

CanRequestCancel(table, id, expected_version, when) ==
    /\ Loaded(table, id, expected_version)
    /\ table[id].status = "active"
    /\ when < table[id].expires_at

RequestCancel(table, id, when) ==
    [table EXCEPT ![id].status = "cancel_requested",
                  ![id].version = @ + 1,
                  ![id].last_heartbeat_at = when]

\* release has no check of the deadline: an elapsed lease whose status is
\* still live may be released.
CanRelease(table, id, expected_version) ==
    Loaded(table, id, expected_version) /\ HasLiveStatus(table[id])

\* release that stores the caller's time as it is
ReleaseUnclamped(table, id, when) ==
    [table EXCEPT ![id].status = "released",
                  ![id].version = @ + 1,
                  ![id].last_heartbeat_at = when]

\* The heartbeat it records is clamped below the deadline.
Release(table, id, when) ==
    LET lastTick == table[id].expires_at - 1
    IN  [table EXCEPT ![id].status = "released",
                      ![id].version = @ + 1,
                      ![id].last_heartbeat_at = IF when < lastTick THEN when ELSE lastTick]

\* the selection of recover_orphans reduced to active leases
ElapsedActive(table, when) ==
    {id \in LeaseIds : table[id].status = "active" /\ table[id].expires_at <= when}

\* the selection of recover_orphans one tick early
ElapsedEarly(table, when) ==
    {id \in LeaseIds : HasLiveStatus(table[id]) /\ table[id].expires_at <= when + 1}

\* the selection of recover_orphans without its filter on the status
ElapsedAnyStatus(table, when) ==
    {id \in LeaseIds : table[id].status # "none" /\ table[id].expires_at <= when}

\* The rows recover_orphans selects, whatever their run.
Elapsed(table, when) ==
    {id \in LeaseIds : HasLiveStatus(table[id]) /\ table[id].expires_at <= when}

\* One row that does not decode makes the whole sweep raise.
CanRecoverOrphans(table, when) == \A id \in Elapsed(table, when) : Decodable(table[id])

RecoverOrphans(table, when) ==
    [id \in LeaseIds |->
        IF id \in Elapsed(table, when)
        THEN [table[id] EXCEPT !.status = "expired", !.version = @ + 1]
        ELSE table[id]]
=============================================================================
