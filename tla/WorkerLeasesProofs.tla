------------------------- MODULE WorkerLeasesProofs -------------------------
(***************************************************************************)
(* WorkerLeases is proved for every set of workers, runs and lease ids,    *)
(* every duration, and every wait for the write lock.  Inv is inductive:   *)
(* TypeOK, the index, readable rows, and copies that agree with the table. *)
(***************************************************************************)
EXTENDS WorkerLeases, TLAPS

Inv == TypeOK /\ OneLiveLeasePerRun /\ StoredLeasesDecode /\ CopiesFaithful

USE LeaseTableAssumption, WorkerLeasesAssumption

\* Samples are instants of the clock's past, not before `since`.
LEMMA SamplesArePast ==
    ASSUME TypeOK, NEW since \in 0..MaxTime, NEW when \in Samples(since)
    PROVE  when \in Int /\ since <= when /\ when <= clock
BY DEF TypeOK, Samples

\* The initial state satisfies the inductive invariant.
LEMMA InitInv == Init => Inv
<1> SUFFICES ASSUME Init PROVE Inv
  OBVIOUS
<1>1. TypeOK
  BY DEF Init, TypeOK, Idle, NoLease, Lease, LiveStatuses, TerminalLeaseStatuses
<1>2. OneLiveLeasePerRun
  BY DEF Init, OneLiveLeasePerRun, LiveLeasesOf, HasLiveStatus, LiveStatuses, NoLease
<1>3. StoredLeasesDecode
  BY DEF Init, StoredLeasesDecode, NoLease
<1>4. CopiesFaithful
  BY DEF Init, CopiesFaithful, Holds, Idle
<1> QED BY <1>1, <1>2, <1>3, <1>4 DEF Inv

\* Replacing one row of the table by a well-typed row keeps the table typed.
LEMMA RowUpdate ==
    ASSUME NEW table \in [LeaseIds -> Lease], NEW id \in LeaseIds, NEW row \in Lease
    PROVE  [table EXCEPT ![id] = row] \in [LeaseIds -> Lease]
OBVIOUS

\* A holder's row is a row of the table, and it is not released.
LEMMA HeldRow ==
    ASSUME Inv, NEW w \in Workers, Holds(w)
    PROVE  /\ held[w].lease \in LeaseIds
           /\ leases[held[w].lease] \in Lease
           /\ leases[held[w].lease].status # "none"
           /\ Decodable(leases[held[w].lease])
           /\ held[w].since \in 0..MaxTime
BY DEF Inv, TypeOK, Holds, CopiesFaithful, CopyFaithful, StoredLeasesDecode, HasLiveStatus, LiveStatuses

\* Every step preserves the inductive invariant.
LEMMA AcquireInv ==
    ASSUME Inv, NEW w \in Workers, NEW r \in Runs, AcquireLease(w, r)
    PROVE  Inv'
<1>1. PICK id \in Drawable(leases), when \in Samples(held[w].since), seconds \in Durations :
         /\ leases' = Acquire(leases, id, w, r, when, seconds)
         /\ held' = [held EXCEPT ![w] = Copy(leases', id)]
  BY DEF AcquireLease
<1> DEFINE row == [status |-> "active", worker |-> w, run |-> r, version |-> 1,
                   acquired_at |-> when, last_heartbeat_at |-> when,
                   expires_at |-> when + seconds]
<1>2. /\ id \in LeaseIds /\ leases[id].status = "none" /\ ~Holds(w)
      /\ clock' = clock /\ CanAcquire(leases, r) /\ seconds \in Nat \ {0}
  BY <1>1 DEF AcquireLease, Drawable
<1>3. held[w].since \in 0..MaxTime
  BY DEF Inv, TypeOK
<1>4. when \in Int /\ when <= clock
  BY <1>3, SamplesArePast DEF Inv
<1>5. row \in Lease
  BY <1>2, <1>4 DEF Lease, LiveStatuses
<1>6. leases' = [leases EXCEPT ![id] = row]
  BY <1>1 DEF Acquire
<1>7. leases' \in [LeaseIds -> Lease]
  BY <1>2, <1>5, <1>6, RowUpdate DEF Inv, TypeOK
<1>8. leases'[id] = row /\ \A k \in LeaseIds : k # id => leases'[k] = leases[k]
  BY <1>2, <1>6 DEF Inv, TypeOK
<1>9. Copy(leases', id) = [lease |-> id, version |-> 1, expires_at |-> when + seconds, since |-> clock]
  BY <1>8 DEF Copy
<1> HIDE DEF row
<1>10. TypeOK'
  BY <1>1, <1>2, <1>4, <1>7, <1>9 DEF Inv, TypeOK
<1>11. OneLiveLeasePerRun'
  BY <1>2, <1>8 DEF Inv, OneLiveLeasePerRun, CanAcquire, LiveLeasesOf, row, TypeOK
<1>12. StoredLeasesDecode'
  BY <1>2, <1>4, <1>8 DEF Inv, StoredLeasesDecode, Decodable, row
<1>13. CopiesFaithful'
  <2> SUFFICES ASSUME NEW v \in Workers, Holds(v)'
               PROVE  CopyFaithful(v)'
    BY DEF CopiesFaithful
  <2>1. CASE v = w
    BY <2>1, <1>1, <1>2, <1>4, <1>8, <1>9 DEF Inv, TypeOK, CopyFaithful, row, HasLiveStatus, LiveStatuses
  <2>2. CASE v # w
    <3>1. held'[v] = held[v] /\ Holds(v)
      BY <2>2, <1>1 DEF Inv, TypeOK, Holds
    <3>2. leases'[held[v].lease] = leases[held[v].lease]
      BY <3>1, <1>2, <1>8, HeldRow
    <3> QED BY <3>1, <3>2, <1>2 DEF Inv, CopiesFaithful, CopyFaithful
  <2> QED BY <2>1, <2>2
<1> QED BY <1>10, <1>11, <1>12, <1>13 DEF Inv

\* What heartbeat, request_cancel and release have in common: the holder
\* rewrites its own row, keeps its owner and its acquisition, and either
\* keeps a fresh copy or drops it.
LEMMA HolderStepInv ==
    ASSUME Inv, NEW w \in Workers, Holds(w), clock' = clock,
           HasLiveStatus(leases[held[w].lease]),
           NEW row \in Lease,
           leases' = [leases EXCEPT ![held[w].lease] = row],
           row.worker = leases[held[w].lease].worker,
           row.run = leases[held[w].lease].run,
           row.acquired_at = leases[held[w].lease].acquired_at,
           Decodable(row),
           \/ /\ held' = [held EXCEPT ![w] = Copy(leases', held[w].lease)]
              /\ HasLiveStatus(row)
           \/ /\ held' = [held EXCEPT ![w] = [Idle EXCEPT !.since = clock]]
              /\ row.status = "released"
    PROVE  Inv'
<1> DEFINE id == held[w].lease
<1>1. id \in LeaseIds /\ leases[id] \in Lease /\ leases[id].status # "none"
      /\ held[w].since \in 0..MaxTime
  BY HeldRow
<1>2. leases' \in [LeaseIds -> Lease]
  BY <1>1, RowUpdate DEF Inv, TypeOK
<1>3. leases'[id] = row /\ \A k \in LeaseIds : k # id => leases'[k] = leases[k]
  BY <1>1 DEF Inv, TypeOK
<1>4. Copy(leases', id) = [lease |-> id, version |-> row.version,
                           expires_at |-> row.expires_at, since |-> clock]
  BY <1>3 DEF Copy
<1>5. row.version \in Nat /\ row.expires_at \in Int /\ row.acquired_at \in Int
      /\ clock \in 0..MaxTime /\ row.acquired_at <= clock /\ row.worker = w
  BY <1>1 DEF Inv, TypeOK, Lease, CopiesFaithful, CopyFaithful
<1>6. TypeOK'
  BY <1>1, <1>2, <1>4, <1>5 DEF Inv, TypeOK, Idle
<1>7. OneLiveLeasePerRun'
  BY <1>1, <1>3 DEF Inv, OneLiveLeasePerRun, LiveLeasesOf
<1>8. StoredLeasesDecode'
  BY <1>1, <1>3 DEF Inv, StoredLeasesDecode
<1>9. CopiesFaithful'
  <2> SUFFICES ASSUME NEW v \in Workers, Holds(v)'
               PROVE  CopyFaithful(v)'
    BY DEF CopiesFaithful
  <2>1. CASE v = w
    BY <2>1, <1>1, <1>3, <1>4, <1>5 DEF Inv, TypeOK, Holds, Idle, CopyFaithful
  <2>2. CASE v # w
    <3>1. held'[v] = held[v] /\ Holds(v)
      BY <2>2 DEF Inv, TypeOK, Holds
    <3>2. held[v].lease \in LeaseIds /\ held[v].lease # id
      BY <3>1, <2>2, HeldRow DEF Inv, CopiesFaithful, CopyFaithful
    <3>3. leases'[held[v].lease] = leases[held[v].lease]
      BY <3>2, <1>3
    <3> QED BY <3>1, <3>3 DEF Inv, CopiesFaithful, CopyFaithful
  <2> QED BY <2>1, <2>2
<1> QED BY <1>6, <1>7, <1>8, <1>9 DEF Inv

\* A heartbeat preserves the inductive invariant.
LEMMA HeartbeatInv ==
    ASSUME Inv, NEW w \in Workers, HeartbeatLease(w)
    PROVE  Inv'
<1> DEFINE id == held[w].lease
<1>1. PICK when \in Samples(held[w].since), seconds \in Durations :
         /\ CanHeartbeat(leases, id, held[w].version, when)
         /\ leases' = Heartbeat(leases, id, when, seconds)
         /\ held' = [held EXCEPT ![w] = Copy(leases', id)]
  BY DEF HeartbeatLease
<1>2. Holds(w) /\ clock' = clock /\ seconds \in Nat \ {0}
  BY DEF HeartbeatLease
<1>3. id \in LeaseIds /\ leases[id] \in Lease /\ held[w].since \in 0..MaxTime
  BY <1>2, HeldRow
<1>4. when \in Int /\ held[w].since <= when
  BY <1>3, SamplesArePast DEF Inv
<1>5. leases[id].acquired_at <= when
  BY <1>2, <1>3, <1>4 DEF Inv, CopiesFaithful, CopyFaithful, Lease
<1> DEFINE row == [leases[id] EXCEPT !.version = @ + 1, !.last_heartbeat_at = when,
                                     !.expires_at = when + seconds]
<1>6. leases[id].version + 1 \in Nat /\ when + seconds \in Int
  BY <1>2, <1>3, <1>4 DEF Lease
<1>7. row \in Lease
  BY <1>6, <1>3, <1>4 DEF Lease
<1>8. Decodable(row)
  BY <1>2, <1>3, <1>4, <1>5 DEF Lease, Decodable
<1>9. row \in Lease /\ Decodable(row)
  BY <1>7, <1>8
<1>10. leases' = [leases EXCEPT ![id] = row]
  BY <1>1, <1>3 DEF Heartbeat, Inv, TypeOK
<1>11. /\ row.worker = leases[id].worker /\ row.run = leases[id].run
      /\ row.acquired_at = leases[id].acquired_at
      /\ HasLiveStatus(leases[id]) /\ HasLiveStatus(row)
  BY <1>1, <1>3 DEF Lease, CanHeartbeat, HasLiveStatus, LiveStatuses
<1> HIDE DEF row
<1> QED BY <1>1, <1>2, <1>9, <1>10, <1>11, HolderStepInv

\* A cancellation request preserves the inductive invariant.
LEMMA CancelInv ==
    ASSUME Inv, NEW w \in Workers, CancelLease(w)
    PROVE  Inv'
<1> DEFINE id == held[w].lease
<1>1. PICK when \in Samples(held[w].since) :
         /\ CanRequestCancel(leases, id, held[w].version, when)
         /\ leases' = RequestCancel(leases, id, when)
         /\ held' = [held EXCEPT ![w] = Copy(leases', id)]
  BY DEF CancelLease
<1>2. Holds(w) /\ clock' = clock
  BY DEF CancelLease
<1>3. id \in LeaseIds /\ leases[id] \in Lease /\ held[w].since \in 0..MaxTime
  BY <1>2, HeldRow
<1>4. when \in Int /\ held[w].since <= when
  BY <1>3, SamplesArePast DEF Inv
<1>5. leases[id].acquired_at <= when /\ when < leases[id].expires_at
  BY <1>1, <1>2, <1>3, <1>4
     DEF Inv, CopiesFaithful, CopyFaithful, Lease, CanRequestCancel
<1> DEFINE row == [leases[id] EXCEPT !.status = "cancel_requested", !.version = @ + 1,
                                     !.last_heartbeat_at = when]
<1>6. leases[id].version + 1 \in Nat
  BY <1>3 DEF Lease
<1>7. row \in Lease
  BY <1>6, <1>3, <1>4 DEF Lease, LiveStatuses
<1>8. Decodable(row)
  BY <1>3, <1>4, <1>5 DEF Lease, Decodable
<1>9. row \in Lease /\ Decodable(row)
  BY <1>7, <1>8
<1>10. leases' = [leases EXCEPT ![id] = row]
  BY <1>1, <1>3 DEF RequestCancel, Inv, TypeOK
<1>11. /\ row.worker = leases[id].worker /\ row.run = leases[id].run
      /\ row.acquired_at = leases[id].acquired_at
      /\ HasLiveStatus(leases[id]) /\ HasLiveStatus(row)
  BY <1>1, <1>3 DEF Lease, CanRequestCancel, HasLiveStatus, LiveStatuses
<1> HIDE DEF row
<1> QED BY <1>1, <1>2, <1>9, <1>10, <1>11, HolderStepInv

\* A release preserves the inductive invariant.
LEMMA ReleaseInv ==
    ASSUME Inv, NEW w \in Workers, ReleaseLease(w)
    PROVE  Inv'
<1> DEFINE id == held[w].lease
<1>1. PICK when \in Samples(held[w].since) : leases' = Release(leases, id, when)
  BY DEF ReleaseLease
<1>2. /\ Holds(w) /\ clock' = clock /\ CanRelease(leases, id, held[w].version)
      /\ held' = [held EXCEPT ![w] = [Idle EXCEPT !.since = clock]]
  BY DEF ReleaseLease
<1>3. /\ id \in LeaseIds /\ leases[id] \in Lease /\ held[w].since \in 0..MaxTime
      /\ Decodable(leases[id])
  BY <1>2, HeldRow
<1>4. when \in Int /\ held[w].since <= when
  BY <1>3, SamplesArePast DEF Inv
<1> DEFINE beat == IF when < leases[id].expires_at - 1 THEN when ELSE leases[id].expires_at - 1
           row == [leases[id] EXCEPT !.status = "released", !.version = @ + 1,
                                     !.last_heartbeat_at = beat]
<1>5. leases[id].acquired_at <= when
  BY <1>2, <1>3, <1>4 DEF Inv, CopiesFaithful, CopyFaithful, Lease
<1>6. beat \in Int /\ leases[id].acquired_at <= beat /\ beat < leases[id].expires_at
  BY <1>3, <1>4, <1>5 DEF Lease, Decodable
<1>7. leases' = [leases EXCEPT ![id] = row]
  BY <1>1, <1>3 DEF Release, Inv, TypeOK
<1> HIDE DEF beat
<1>8. leases[id].version + 1 \in Nat
  BY <1>3 DEF Lease
<1>9. row \in Lease
  BY <1>8, <1>3, <1>6 DEF Lease, TerminalLeaseStatuses
<1>10. Decodable(row)
  BY <1>3, <1>6 DEF Lease, Decodable
<1>11. row \in Lease /\ Decodable(row)
  BY <1>9, <1>10
<1>12. /\ row.worker = leases[id].worker /\ row.run = leases[id].run
      /\ row.acquired_at = leases[id].acquired_at /\ row.status = "released"
      /\ HasLiveStatus(leases[id])
  BY <1>2, <1>3 DEF Lease, CanRelease
<1> HIDE DEF row
<1> QED BY <1>2, <1>7, <1>11, <1>12, HolderStepInv

\* A sweep preserves the inductive invariant.
LEMMA SweepInv == ASSUME Inv, Sweep PROVE Inv'
<1>1. PICK when \in Samples(0) : leases' = RecoverOrphans(leases, when)
  BY DEF Sweep
<1>2. held' = held /\ clock' = clock
  BY DEF Sweep
<1>3. when \in Int /\ when <= clock
  BY SamplesArePast DEF Inv
<1>4. \A id \in LeaseIds :
         \/ leases'[id] = leases[id]
         \/ /\ HasLiveStatus(leases[id]) /\ leases[id].expires_at <= when
            /\ leases'[id] = [leases[id] EXCEPT !.status = "expired", !.version = @ + 1]
  BY <1>1 DEF RecoverOrphans, Elapsed
<1>5. leases' \in [LeaseIds -> Lease]
  <2>1. ASSUME NEW l \in Lease
        PROVE  [l EXCEPT !.status = "expired", !.version = @ + 1] \in Lease
    <3>1. l.version + 1 \in Nat
      BY DEF Lease
    <3> QED BY <3>1 DEF Lease, TerminalLeaseStatuses
  <2>2. \A id \in LeaseIds : leases[id] \in Lease
    BY DEF Inv, TypeOK
  <2>3. \A id \in LeaseIds : leases'[id] \in Lease
    BY <1>4, <2>1, <2>2
  <2> QED BY <1>1, <2>3 DEF RecoverOrphans
<1>6. TypeOK'
  BY <1>2, <1>5 DEF Inv, TypeOK
<1>7. OneLiveLeasePerRun'
  <2>1. \A r \in Runs : LiveLeasesOf(leases', r) \subseteq LiveLeasesOf(leases, r)
    BY <1>4 DEF LiveLeasesOf, HasLiveStatus, LiveStatuses, Inv, TypeOK, Lease
  <2> QED BY <2>1 DEF OneLiveLeasePerRun, Inv
<1>8. StoredLeasesDecode'
  <2> SUFFICES ASSUME NEW id \in LeaseIds, leases'[id].status # "none"
               PROVE  Decodable(leases'[id])
    BY DEF StoredLeasesDecode, Decodable
  <2>1. leases[id] \in Lease
    BY DEF Inv, TypeOK
  <2>2. CASE leases'[id] = leases[id]
    BY <2>2 DEF Inv, StoredLeasesDecode
  <2>3. CASE /\ HasLiveStatus(leases[id])
             /\ leases'[id] = [leases[id] EXCEPT !.status = "expired", !.version = @ + 1]
    <3>1. Decodable(leases[id])
      BY <2>3 DEF Inv, StoredLeasesDecode, HasLiveStatus, LiveStatuses
    <3>2. /\ leases'[id].last_heartbeat_at = leases[id].last_heartbeat_at
          /\ leases'[id].acquired_at = leases[id].acquired_at
          /\ leases'[id].expires_at = leases[id].expires_at
      BY <2>1, <2>3 DEF Lease
    <3> QED BY <3>1, <3>2 DEF Decodable
  <2> QED BY <1>4, <2>2, <2>3
<1>9. CopiesFaithful'
  <2> SUFFICES ASSUME NEW w \in Workers, Holds(w) PROVE CopyFaithful(w)'
    BY <1>2 DEF CopiesFaithful, Holds
  <2>1. held[w].lease \in LeaseIds /\ leases[held[w].lease] \in Lease
    BY HeldRow
  <2>2. CopyFaithful(w) /\ clock \in Int
    BY DEF Inv, CopiesFaithful, TypeOK
  <2>3. CASE leases'[held[w].lease] = leases[held[w].lease]
    BY <1>2, <2>2, <2>3 DEF CopyFaithful
  <2>4. CASE /\ leases[held[w].lease].expires_at <= when
             /\ leases'[held[w].lease] = [leases[held[w].lease] EXCEPT !.status = "expired",
                                                                     !.version = @ + 1]
    BY <1>2, <1>3, <2>1, <2>2, <2>4 DEF CopyFaithful, Lease
  <2> QED BY <1>4, <2>1, <2>3, <2>4
<1> QED BY <1>6, <1>7, <1>8, <1>9 DEF Inv

\* A tick of the clock, and a worker that gives its copy up.
LEMMA TickInv == ASSUME Inv, Tick PROVE Inv'
<1>1. leases' = leases /\ held' = held /\ clock' = clock + 1 /\ clock < MaxTime
  BY DEF Tick
<1>2. TypeOK'
  BY <1>1 DEF Inv, TypeOK
<1>3. OneLiveLeasePerRun' /\ StoredLeasesDecode'
  BY <1>1 DEF Inv, OneLiveLeasePerRun, StoredLeasesDecode, LiveLeasesOf, HasLiveStatus, Decodable
<1>4. CopiesFaithful'
  <2> SUFFICES ASSUME NEW w \in Workers, Holds(w) PROVE CopyFaithful(w)'
    BY <1>1 DEF CopiesFaithful, Holds
  <2> QED BY <1>1, HeldRow DEF Inv, TypeOK, CopiesFaithful, CopyFaithful, Lease, HasLiveStatus
<1> QED BY <1>2, <1>3, <1>4 DEF Inv

\* A worker that gives its copy up leaves the table as it is.
LEMMA AbandonInv == ASSUME Inv, NEW w \in Workers, Abandon(w) PROVE Inv'
<1>1. /\ leases' = leases /\ clock' = clock
      /\ held' = [held EXCEPT ![w] = [Idle EXCEPT !.since = clock]]
  BY DEF Abandon
<1>2. TypeOK'
  BY <1>1 DEF Inv, TypeOK, Idle
<1>3. OneLiveLeasePerRun' /\ StoredLeasesDecode'
  BY <1>1 DEF Inv, OneLiveLeasePerRun, StoredLeasesDecode, LiveLeasesOf, HasLiveStatus, Decodable
<1>4. CopiesFaithful'
  BY <1>1 DEF Inv, TypeOK, CopiesFaithful, CopyFaithful, Holds, Idle, HasLiveStatus
<1> QED BY <1>2, <1>3, <1>4 DEF Inv

\* The inductive invariant holds in every reachable state.
THEOREM InvHolds == Spec => []Inv
<1>1. Inv /\ [Next]_vars => Inv'
  <2> SUFFICES ASSUME Inv, [Next]_vars PROVE Inv'
    OBVIOUS
  <2>1. CASE UNCHANGED vars
    BY <2>1 DEF vars, Inv, TypeOK, OneLiveLeasePerRun, StoredLeasesDecode, CopiesFaithful,
                CopyFaithful, Holds, LiveLeasesOf, HasLiveStatus, Decodable
  <2>2. CASE Next
    BY <2>2, TickInv, SweepInv, AcquireInv, HeartbeatInv, CancelInv, ReleaseInv, AbandonInv
       DEF Next
  <2> QED BY <2>1, <2>2
<1> QED BY <1>1, InitInv, PTL DEF Spec

\* WorkerLeases is type-correct: versions stay natural numbers, and every
\* worker's copy names a lease id or nothing.
THEOREM TypeCorrect == Spec => []TypeOK
<1>1. Inv => TypeOK
  BY DEF Inv
<1> QED BY <1>1, InvHolds, PTL

\* At most one lease of a run has a live status, for any number of workers
\* that acquire, renew, cancel, release, die and sweep in any order.
THEOREM OneLiveLease == Spec => []OneLiveLeasePerRun
<1>1. Inv => OneLiveLeasePerRun
  BY DEF Inv
<1> QED BY <1>1, InvHolds, PTL

\* Every row the store writes can be read back.
THEOREM RowsDecode == Spec => []StoredLeasesDecode
<1>1. Inv => StoredLeasesDecode
  BY DEF Inv
<1> QED BY <1>1, InvHolds, PTL

\* A worker that believes it owns a run holds a live lease of it.
LEMMA BelieverHasLease ==
    ASSUME Inv, NEW u \in Workers, NEW r \in Runs, Believes(u, r)
    PROVE  /\ held[u].lease \in LiveLeasesOf(leases, r)
           /\ leases[held[u].lease].worker = u
<1>1. Holds(u) /\ leases[held[u].lease].run = r /\ clock < held[u].expires_at
  BY DEF Believes
<1>2. held[u].lease \in LeaseIds /\ leases[held[u].lease] \in Lease /\ CopyFaithful(u)
  BY <1>1, HeldRow DEF Inv, CopiesFaithful
<1>3. HasLiveStatus(leases[held[u].lease])
  BY <1>1, <1>2 DEF CopyFaithful, Inv, TypeOK, Lease
<1> QED BY <1>1, <1>2, <1>3 DEF LiveLeasesOf, CopyFaithful

\* Two believers would hold two live leases of one run.
LEMMA InvExclusive == Inv => ExclusiveOwnership
<1> SUFFICES ASSUME Inv, NEW r \in Runs, NEW v \in Workers, NEW w \in Workers,
                    Believes(v, r), Believes(w, r)
             PROVE  v = w
  BY DEF ExclusiveOwnership
<1>1. held[v].lease = held[w].lease
  BY BelieverHasLease DEF Inv, OneLiveLeasePerRun
<1> QED BY <1>1, BelieverHasLease

\* No two workers believe at the same instant that they own a run.
THEOREM LeaseExclusion == Spec => []ExclusiveOwnership
BY InvExclusive, InvHolds, PTL

\* A worker's copy agrees with its row while the lease is live.
THEOREM CopiesAreFaithful == Spec => []CopiesFaithful
<1>1. Inv => CopiesFaithful
  BY DEF Inv
<1> QED BY <1>1, InvHolds, PTL

\* A lease that reached a terminal status is never written again.
THEOREM TerminalFrozen == Spec => TerminalLeasesFrozen
<1> DEFINE Frozen == \A id \in LeaseIds :
                        leases[id].status \in TerminalLeaseStatuses => leases'[id] = leases[id]
<1>1. Inv /\ [Next]_vars => [Frozen]_vars
  <2> SUFFICES ASSUME Inv, Next, NEW id \in LeaseIds,
                      leases[id].status \in TerminalLeaseStatuses
               PROVE  leases'[id] = leases[id]
    OBVIOUS
  <2> USE DEF TerminalLeaseStatuses
  <2>1. CASE Tick
    BY <2>1 DEF Tick
  <2>2. CASE Sweep
    BY <2>2 DEF Sweep, RecoverOrphans, Elapsed, HasLiveStatus, LiveStatuses
  <2>3. ASSUME NEW w \in Workers, NEW r \in Runs, AcquireLease(w, r)
        PROVE  leases'[id] = leases[id]
    BY <2>3 DEF AcquireLease, Acquire, Drawable, Inv, TypeOK
  <2>4. ASSUME NEW w \in Workers, HeartbeatLease(w)
        PROVE  leases'[id] = leases[id]
    BY <2>4 DEF HeartbeatLease, CanHeartbeat, Heartbeat, Inv, TypeOK
  <2>5. ASSUME NEW w \in Workers, CancelLease(w)
        PROVE  leases'[id] = leases[id]
    BY <2>5 DEF CancelLease, CanRequestCancel, RequestCancel, Inv, TypeOK
  <2>6. ASSUME NEW w \in Workers, ReleaseLease(w)
        PROVE  leases'[id] = leases[id]
    BY <2>6 DEF ReleaseLease, CanRelease, Release, HasLiveStatus, LiveStatuses, Inv, TypeOK
  <2>7. ASSUME NEW w \in Workers, Abandon(w)
        PROVE  leases'[id] = leases[id]
    BY <2>7 DEF Abandon
  <2> QED BY <2>1, <2>2, <2>3, <2>4, <2>5, <2>6, <2>7 DEF Next
<1> QED BY <1>1, InvHolds, PTL DEF Spec, TerminalLeasesFrozen

-----------------------------------------------------------------------------
(* WorkerLeases implements RunOwnership *)

Gains(v, r) == ~Believes(v, r) /\ Believes(v, r)'

\* An acquisition gives its worker one run that nobody believed to own.
LEMMA AcquireGains ==
    ASSUME Inv, NEW w \in Workers, NEW s \in Runs, AcquireLease(w, s)
    PROVE  /\ \A u \in Workers : ~Believes(u, s)
           /\ \A q \in Runs : ~Believes(w, q)
           /\ \A q \in Runs : Believes(w, q)' => q = s
           /\ \A u \in Workers, q \in Runs : u # w => (Believes(u, q)' <=> Believes(u, q))
<1>1. PICK id \in Drawable(leases), when \in Samples(held[w].since), seconds \in Durations :
         /\ leases' = Acquire(leases, id, w, s, when, seconds)
         /\ held' = [held EXCEPT ![w] = Copy(leases', id)]
  BY DEF AcquireLease
<1>2. /\ id \in LeaseIds /\ leases[id].status = "none" /\ ~Holds(w)
      /\ clock' = clock /\ LiveLeasesOf(leases, s) = {}
  BY <1>1 DEF AcquireLease, Drawable, CanAcquire
<1>3. leases'[id].run = s /\ \A k \in LeaseIds : k # id => leases'[k] = leases[k]
  BY <1>1, <1>2 DEF Acquire, Inv, TypeOK
<1>4. \A u \in Workers : ~Believes(u, s)
  BY <1>2, BelieverHasLease
<1>5. \A q \in Runs : ~Believes(w, q)
  BY <1>2 DEF Believes
<1>6. held'[w].lease = id
  BY <1>1 DEF Inv, TypeOK, Copy
<1>7. \A q \in Runs : Believes(w, q)' => q = s
  BY <1>3, <1>6 DEF Believes
<1>8. ASSUME NEW u \in Workers, NEW q \in Runs, u # w
      PROVE  Believes(u, q)' <=> Believes(u, q)
  <2>1. held'[u] = held[u]
    BY <1>1, <1>8 DEF Inv, TypeOK
  <2>2. CASE ~Holds(u)
    BY <2>1, <2>2 DEF Believes, Holds
  <2>3. CASE Holds(u)
    <3>1. leases'[held[u].lease] = leases[held[u].lease]
      BY <2>3, <1>2, <1>3, HeldRow
    <3> QED BY <2>1, <3>1, <1>2 DEF Believes, Holds
  <2> QED BY <2>2, <2>3
<1> QED BY <1>4, <1>5, <1>7, <1>8

\* A step that rewrites the row of its holder and keeps the row's run does
\* not change what another worker believes.
LEMMA HolderOthers ==
    ASSUME Inv, NEW w \in Workers, clock' = clock,
           held[w].lease \in LeaseIds, NEW row,
           leases' = [leases EXCEPT ![held[w].lease] = row],
           row.run = leases[held[w].lease].run,
           NEW copy, held' = [held EXCEPT ![w] = copy],
           NEW u \in Workers, u # w, NEW q \in Runs
    PROVE  Believes(u, q)' <=> Believes(u, q)
<1>1. held'[u] = held[u]
  BY DEF Inv, TypeOK
<1>2. CASE ~Holds(u)
  BY <1>1, <1>2 DEF Believes, Holds
<1>3. CASE Holds(u)
  <2>1. leases'[held[u].lease].run = leases[held[u].lease].run
    BY <1>3, HeldRow DEF Inv, TypeOK
  <2> QED BY <1>1, <2>1 DEF Believes, Holds
<1> QED BY <1>2, <1>3

\* A heartbeat may bring a worker back that let its deadline pass, while its
\* row is live and hence nobody else owns the run.
LEMMA HeartbeatGains ==
    ASSUME Inv, NEW w \in Workers, HeartbeatLease(w), NEW s \in Runs, Gains(w, s)
    PROVE  /\ \A u \in Workers : ~Believes(u, s)
           /\ \A q \in Runs : ~Believes(w, q)
           /\ \A q \in Runs : Believes(w, q)' => q = s
           /\ \A u \in Workers, q \in Runs : u # w => (Believes(u, q)' <=> Believes(u, q))
<1> DEFINE id == held[w].lease
<1>1. PICK when \in Samples(held[w].since), seconds \in Durations :
         /\ CanHeartbeat(leases, id, held[w].version, when)
         /\ leases' = Heartbeat(leases, id, when, seconds)
         /\ held' = [held EXCEPT ![w] = Copy(leases', id)]
  BY DEF HeartbeatLease
<1>2. Holds(w) /\ clock' = clock
  BY DEF HeartbeatLease
<1>3. id \in LeaseIds /\ leases[id] \in Lease
  BY <1>2, HeldRow
<1> DEFINE row == [leases[id] EXCEPT !.version = @ + 1, !.last_heartbeat_at = when,
                                     !.expires_at = when + seconds]
<1>4. leases' = [leases EXCEPT ![id] = row]
  BY <1>1, <1>3 DEF Heartbeat, Inv, TypeOK
<1>5. row.run = leases[id].run
  BY <1>3 DEF Lease
<1>6. HasLiveStatus(leases[id]) /\ leases[id].worker = w
  BY <1>1, <1>2 DEF CanHeartbeat, HasLiveStatus, LiveStatuses, Inv, CopiesFaithful, CopyFaithful
<1> HIDE DEF row
<1>7. held'[w].lease = id /\ leases'[id].run = leases[id].run
  BY <1>1, <1>3, <1>4, <1>5 DEF Inv, TypeOK, Copy
<1>8. leases[id].run = s
  BY <1>7 DEF Gains, Believes
<1>9. \A q \in Runs : ~Believes(w, q)
  BY <1>8 DEF Gains, Believes
<1>10. \A q \in Runs : Believes(w, q)' => q = s
  BY <1>7, <1>8 DEF Believes
<1>11. ASSUME NEW u \in Workers, Believes(u, s) PROVE FALSE
  <2>1. id \in LiveLeasesOf(leases, s)
    BY <1>3, <1>6, <1>8 DEF LiveLeasesOf
  <2>2. held[u].lease = id
    BY <2>1, <1>11, BelieverHasLease DEF Inv, OneLiveLeasePerRun
  <2> QED BY <2>2, <1>6, <1>9, <1>11, BelieverHasLease
<1>12. \A u \in Workers, q \in Runs : u # w => (Believes(u, q)' <=> Believes(u, q))
  BY <1>1, <1>2, <1>3, <1>4, <1>5, HolderOthers
<1> QED BY <1>9, <1>10, <1>11, <1>12

\* A heartbeat, a cancellation request or a release of one worker does not
\* make another one believe anything new, and the last two nobody.
LEMMA NoOtherGain ==
    ASSUME Inv, NEW w \in Workers, NEW u \in Workers, NEW q \in Runs, Gains(u, q),
           HeartbeatLease(w) \/ CancelLease(w) \/ ReleaseLease(w)
    PROVE  u = w /\ HeartbeatLease(w)
<1> DEFINE id == held[w].lease
<1>1. Holds(w) /\ clock' = clock
  BY DEF HeartbeatLease, CancelLease, ReleaseLease
<1>2. id \in LeaseIds /\ leases[id] \in Lease
  BY <1>1, HeldRow
<1>3. PICK row, copy :
        /\ leases' = [leases EXCEPT ![id] = row] /\ row.run = leases[id].run
        /\ held' = [held EXCEPT ![w] = copy]
  <2>1. CASE HeartbeatLease(w)
    <3>1. PICK when, seconds : /\ leases' = Heartbeat(leases, id, when, seconds)
                               /\ held' = [held EXCEPT ![w] = Copy(leases', id)]
      BY <2>1 DEF HeartbeatLease
    <3> DEFINE r == [leases[id] EXCEPT !.version = @ + 1, !.last_heartbeat_at = when,
                                       !.expires_at = when + seconds]
    <3>2. leases' = [leases EXCEPT ![id] = r]
      BY <3>1, <1>2 DEF Heartbeat, Inv, TypeOK
    <3>3. r.run = leases[id].run
      BY <1>2 DEF Lease
    <3> QED BY <3>1, <3>2, <3>3
  <2>2. CASE CancelLease(w)
    <3>1. PICK when : /\ leases' = RequestCancel(leases, id, when)
                      /\ held' = [held EXCEPT ![w] = Copy(leases', id)]
      BY <2>2 DEF CancelLease
    <3> DEFINE r == [leases[id] EXCEPT !.status = "cancel_requested", !.version = @ + 1,
                                       !.last_heartbeat_at = when]
    <3>2. leases' = [leases EXCEPT ![id] = r]
      BY <3>1, <1>2 DEF RequestCancel, Inv, TypeOK
    <3>3. r.run = leases[id].run
      BY <1>2 DEF Lease
    <3> QED BY <3>1, <3>2, <3>3
  <2>3. CASE ReleaseLease(w)
    <3>1. PICK when : /\ leases' = Release(leases, id, when)
                      /\ held' = [held EXCEPT ![w] = [Idle EXCEPT !.since = clock]]
      BY <2>3 DEF ReleaseLease
    <3> DEFINE beat == IF when < leases[id].expires_at - 1 THEN when ELSE leases[id].expires_at - 1
               r == [leases[id] EXCEPT !.status = "released", !.version = @ + 1,
                                       !.last_heartbeat_at = beat]
    <3>2. leases' = [leases EXCEPT ![id] = r]
      BY <3>1, <1>2 DEF Release, Inv, TypeOK
    <3>3. r.run = leases[id].run
      BY <1>2 DEF Lease
    <3> QED BY <3>1, <3>2, <3>3
  <2> QED BY <2>1, <2>2, <2>3
<1>4. u = w
  BY <1>1, <1>2, <1>3, HolderOthers DEF Gains
<1>5. ~ReleaseLease(w)
  <2> SUFFICES ASSUME ReleaseLease(w) PROVE FALSE
    OBVIOUS
  <2>1. held'[w].lease = "none"
    BY DEF ReleaseLease, Inv, TypeOK, Idle
  <2> QED BY <2>1, <1>4 DEF Gains, Believes, Holds
<1>6. ~CancelLease(w)
  <2> SUFFICES ASSUME CancelLease(w) PROVE FALSE
    OBVIOUS
  <2>1. PICK when : /\ leases' = RequestCancel(leases, id, when)
                    /\ held' = [held EXCEPT ![w] = Copy(leases', id)]
    BY DEF CancelLease
  <2>2. leases'[id].expires_at = leases[id].expires_at /\ leases'[id].run = leases[id].run
    BY <2>1, <1>2 DEF RequestCancel, Inv, TypeOK, Lease
  <2>3. held'[w].lease = id /\ held'[w].expires_at = leases[id].expires_at
    BY <2>1, <2>2 DEF Copy, Inv, TypeOK
  <2>4. leases[id].expires_at = held[w].expires_at
    BY <1>1 DEF Inv, CopiesFaithful, CopyFaithful
  <2> QED BY <2>2, <2>3, <2>4, <1>1, <1>4 DEF Gains, Believes, Holds
<1> QED BY <1>4, <1>5, <1>6

\* Whoever comes to own a run finds it free and owned no other, and nothing
\* else changes hands in that step.
LEMMA GainIsExclusive ==
    ASSUME Inv, Next, NEW v \in Workers, NEW r \in Runs, Gains(v, r)
    PROVE  /\ \A u \in Workers : ~Believes(u, r)
           /\ \A q \in Runs : ~Believes(v, q)
           /\ \A q \in Runs : Believes(v, q)' => q = r
           /\ \A u \in Workers, q \in Runs : u # v => (Believes(u, q)' <=> Believes(u, q))
<1>1. ~Tick
  BY DEF Tick, Gains, Believes, Holds, Inv, TypeOK
<1>2. ~Sweep
  <2> SUFFICES ASSUME Sweep PROVE FALSE
    OBVIOUS
  <2>1. held' = held /\ clock' = clock /\ \A id \in LeaseIds : leases'[id].run = leases[id].run
    <3>1. PICK when : leases' = RecoverOrphans(leases, when)
      BY DEF Sweep
    <3>2. ASSUME NEW id \in LeaseIds PROVE leases'[id].run = leases[id].run
      <4>1. leases[id] \in Lease
        BY DEF Inv, TypeOK
      <4>2. \/ leases'[id] = leases[id]
            \/ leases'[id] = [leases[id] EXCEPT !.status = "expired", !.version = @ + 1]
        BY <3>1 DEF RecoverOrphans
      <4> QED BY <4>1, <4>2 DEF Lease
    <3> QED BY <3>2 DEF Sweep
  <2>2. Holds(v)
    BY <2>1 DEF Gains, Believes, Holds
  <2> QED BY <2>1, <2>2, HeldRow DEF Gains, Believes, Holds
<1>3. ASSUME NEW w \in Workers PROVE ~Abandon(w)
  <2> SUFFICES ASSUME Abandon(w) PROVE FALSE
    OBVIOUS
  <2>1. /\ leases' = leases /\ clock' = clock
        /\ held' = [held EXCEPT ![w] = [Idle EXCEPT !.since = clock]]
    BY DEF Abandon
  <2>2. held'[v] = held[v] \/ held'[v].lease = "none"
    BY <2>1 DEF Inv, TypeOK, Idle
  <2> QED BY <2>1, <2>2 DEF Gains, Believes, Holds
<1>4. ASSUME NEW w \in Workers, NEW s \in Runs, AcquireLease(w, s) PROVE v = w /\ r = s
  BY <1>4, AcquireGains DEF Gains
<1>5. CASE \E w \in Workers, s \in Runs : AcquireLease(w, s)
  BY <1>4, <1>5, AcquireGains
<1>6. CASE \E w \in Workers : HeartbeatLease(w) \/ CancelLease(w) \/ ReleaseLease(w)
  BY <1>6, NoOtherGain, HeartbeatGains
<1> QED BY <1>1, <1>2, <1>3, <1>5, <1>6 DEF Next

\* Owner names the believer, and NoWorker when there is none.
LEMMA OwnerIsBeliever ==
    ASSUME ExclusiveOwnership, NEW r \in Runs
    PROVE  /\ \A v \in Workers : Owner[r] = v <=> Believes(v, r)
           /\ (\A v \in Workers : ~Believes(v, r)) <=> Owner[r] = NoWorker
BY DEF Owner, ExclusiveOwnership

\* The same in the next state.
LEMMA OwnerIsBelieverNext ==
    ASSUME ExclusiveOwnership', NEW r \in Runs
    PROVE  /\ \A v \in Workers : Owner'[r] = v <=> Believes(v, r)'
           /\ (\A v \in Workers : ~Believes(v, r)') <=> Owner'[r] = NoWorker
BY DEF Owner, ExclusiveOwnership

\* The lease protocol implements a lock per run that may lapse: a run never
\* passes from one worker straight to another.
THEOREM LeasesRefineOwnership == Spec => LeasesImplementOwnership
<1>1. Init => Ownership!Init
  <2> SUFFICES ASSUME Init PROVE Ownership!Init
    OBVIOUS
  <2>1. \A w \in Workers, r \in Runs : ~Believes(w, r)
    BY DEF Init, Believes, Holds, Idle
  <2> QED BY <2>1 DEF Owner, Ownership!Init
<1>2. ASSUME Inv, Inv', [Next]_vars PROVE [Ownership!Next]_Owner
  <2>1. ExclusiveOwnership /\ ExclusiveOwnership'
    BY <1>2, InvExclusive, PTL
  <2>2. Owner = [r \in Runs |-> Owner[r]] /\ Owner' = [r \in Runs |-> Owner'[r]]
    BY DEF Owner
  <2>3. CASE UNCHANGED vars
    BY <2>3 DEF vars, Owner, Believes, Holds
  <2>4. CASE Next /\ \E v \in Workers, r \in Runs : Gains(v, r)
    <3>1. PICK v \in Workers, r \in Runs : Gains(v, r)
      BY <2>4
    <3>2. /\ \A u \in Workers : ~Believes(u, r)
          /\ \A q \in Runs : ~Believes(v, q)
          /\ \A q \in Runs : Believes(v, q)' => q = r
          /\ \A u \in Workers, q \in Runs : u # v => (Believes(u, q)' <=> Believes(u, q))
      BY <1>2, <2>4, <3>1, GainIsExclusive
    <3>3. Owner[r] = NoWorker /\ \A q \in Runs : Owner[q] # v
      BY <2>1, <3>2, OwnerIsBeliever
    <3>4. Owner'[r] = v
      BY <2>1, <3>1, OwnerIsBelieverNext DEF Gains
    <3>5. ASSUME NEW q \in Runs, q # r PROVE Owner'[q] = Owner[q]
      <4>1. CASE \E u \in Workers : Believes(u, q)
        BY <4>1, <3>2, <2>1, OwnerIsBeliever, OwnerIsBelieverNext
      <4>2. CASE \A u \in Workers : ~Believes(u, q)
        BY <4>2, <3>2, <3>5, <2>1, OwnerIsBeliever, OwnerIsBelieverNext
      <4> QED BY <4>1, <4>2
    <3>6. Owner' = [Owner EXCEPT ![r] = v]
      BY <2>2, <3>4, <3>5
    <3> QED BY <3>3, <3>6 DEF Ownership!Next, Ownership!Take
  <2>5. CASE ~\E v \in Workers, r \in Runs : Gains(v, r)
    <3> DEFINE lost == {r \in Runs : \A v \in Workers : ~Believes(v, r)'}
    <3>1. ASSUME NEW r \in Runs
          PROVE  Owner'[r] = IF r \in lost THEN NoWorker ELSE Owner[r]
      <4>1. CASE r \in lost
        BY <4>1, <2>1, OwnerIsBelieverNext
      <4>2. CASE r \notin lost
        <5>1. PICK v \in Workers : Believes(v, r)'
          BY <4>2
        <5>2. Believes(v, r)
          BY <5>1, <2>5 DEF Gains
        <5> QED BY <4>2, <5>1, <5>2, <2>1, OwnerIsBeliever, OwnerIsBelieverNext
      <4> QED BY <4>1, <4>2
    <3> HIDE DEF lost
    <3>2. lost \in SUBSET Runs
      BY DEF lost
    <3>3. Owner' = [r \in Runs |-> IF r \in lost THEN NoWorker ELSE Owner[r]]
      BY <2>2, <3>1
    <3> QED BY <3>2, <3>3 DEF Ownership!Next, Ownership!Lapse
  <2> QED BY <1>2, <2>3, <2>4, <2>5
<1> QED BY <1>1, <1>2, InvHolds, PTL DEF Spec, LeasesImplementOwnership, Ownership!Spec
=============================================================================
