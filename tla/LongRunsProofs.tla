--------------------------- MODULE LongRunsProofs ---------------------------
(***************************************************************************)
(* What supervisors may rely on although the lease store and the long-run  *)
(* store commit separately, proved for any runs, leases, supervisors and   *)
(* crashes, any limits and numbers of attempts.                            *)
(*                                                                         *)
(* The argument has two halves.  The lease table only grows: a row that    *)
(* was drawn keeps its run, its version goes up, and its status only goes  *)
(* on.  And a version determines the handle: a call whose append is        *)
(* accepted appends to the very handle it read.  What a task has spent is  *)
(* counted on top of that: the attempts before a handle's own are over,    *)
(* and of its own it counts what its cursor says.                          *)
(***************************************************************************)
EXTENDS LongRuns, WellFoundedInduction, TLAPS

-----------------------------------------------------------------------------
(* The inductive invariant *)

\* What a handle says of its lease
FollowsLease(h, r, table) ==
    /\ h.status \in BoundStatuses \cup TerminalStatuses =>
          h.lease \in LeaseIds /\ table[h.lease].run = r
    /\ h.status \in BoundStatuses => h.lease_version <= table[h.lease].version
    /\ h.status = "cancel_requested" => table[h.lease].status # "active"
    /\ h.status \in TerminalStatuses => table[h.lease].status = "released"

\* A limit of the whole task that was exceeded once is exceeded for good.
RemembersLimits(h) ==
    /\ "task_elapsed" \in h.hard => h.updated_at - h.created_at > TaskMax
    /\ "usage" \in h.hard => h.used > UsageMax

CompletedFits(h) ==
    h.status = "completed" =>
        /\ h.used <= UsageMax
        /\ h.updated_at - h.created_at <= TaskMax
        /\ h.updated_at - h.started_at <= AttemptMax

\* A handle of run r, with the leases and the provider runs of its attempts
HandleOK(h, r, table, provider) ==
    /\ h.version = 0 <=> h.status = "absent"
    /\ h.status # "absent" => h.attempt \in Attempts
    /\ h.status = "admitted" => h.cursor = 0
    /\ h.status \in BoundStatuses => provider[h.attempt].status # "unstarted"
    /\ RemembersLimits(h) /\ CompletedFits(h) /\ FollowsLease(h, r, table)

\* A call past its checks has read a handle that was right and, unless the
\* version went on, still is there.
ReadOK(c, h, table, provider) ==
    /\ Accepts(c.op, c.current, c.obs)
    /\ HandleOK(c.current, c.run, table, provider)
    /\ c.current.version <= h.version
    /\ c.current.version = h.version => c.current = h

\* What the lease transaction of a call did, until the call is over
WroteOK(c, table) ==
    LET operation == LeaseOperation(c.op, c.current, c.obs)
    IN  /\ c.step = "acquire" => c.op \in {"bind", "recover"}
        /\ c.op = "recover" /\ c.step \in {"acquire", "append"} =>
              /\ Mergeable(c.current, c.obs) /\ Hard(c.current, c.obs) = {}
              /\ table[c.current.lease].status = "expired"
        /\ c.op \in {"bind", "recover"} /\ c.step \in {"append", "compensate"} =>
              /\ c.lease \in LeaseIds /\ table[c.lease].run = c.run
              /\ c.lease_version <= table[c.lease].version
        /\ c.op \notin {"bind", "recover"} /\ c.step # "read" => c.lease = c.current.lease
        /\ c.op \notin {"bind", "recover", "retry"} /\ c.step = "append" =>
              /\ c.lease_version <= table[c.lease].version
              /\ operation = "request_cancel" => table[c.lease].status # "active"
              /\ operation = "release" => table[c.lease].status = "released"
        /\ c.step = "lease" => operation \notin {"none", "acquire"}
        /\ c.step = "compensate" => c.op = "bind"

CallOK(c, h, table, provider) ==
    /\ c.op = "bind" => provider[c.obs.attempt].status # "unstarted"
    /\ c.step # "read" => ReadOK(c, h, table, provider)
    /\ WroteOK(c, table)

LongInv ==
    /\ TypeOK
    /\ \A id \in LeaseIds : leases[id].status = "none" => leases[id].run = NoRun
    /\ \A r \in Runs : HandleOK(handles[r], r, leases, providers[r])
    /\ \A s \in Workers : calls[s] # Idle =>
          LET c == calls[s]
          IN  CallOK(c, handles[c.run], leases, providers[c.run])

-----------------------------------------------------------------------------
(* Frames *)

\* The lease table after some transactions of the store
Grown(before, after) ==
    \A id \in LeaseIds :
        \/ before[id].status = "none"
        \/ /\ after[id].run = before[id].run /\ after[id].version >= before[id].version
           /\ before[id].status # "active" => after[id].status # "active"
           /\ before[id].status \in TerminalLeaseStatuses => after[id].status = before[id].status

Drawn(table) == \A id \in LeaseIds : table[id].status = "none" => table[id].run = NoRun

Started(before, after) ==
    \A k \in Attempts : before[k].status # "unstarted" => after[k].status # "unstarted"

\* A table that stays has grown by nothing.
LEMMA GrownReflexive ==
    ASSUME NEW table \in [LeaseIds -> Lease]
    PROVE  Grown(table, table)
<1>1. ASSUME NEW id \in LeaseIds PROVE table[id].version >= table[id].version
  <2>1. table[id].version \in Nat
    BY DEF Lease
  <2> QED
    BY <2>1
<1> QED
  BY <1>1, Zenon DEF Grown

\* A handle stays right while the table grows and provider runs start.
LEMMA HandleKeeps ==
    ASSUME NEW r \in Runs, NEW h \in Handle,
           NEW table \in [LeaseIds -> Lease], NEW after \in [LeaseIds -> Lease],
           NEW p, NEW q,
           HandleOK(h, r, table, p), Grown(table, after), Drawn(table), Started(p, q)
    PROVE  HandleOK(h, r, after, q)
<1>1. FollowsLease(h, r, after)
  <2>1. FollowsLease(h, r, table) /\ r # NoRun
    BY LeaseTableAssumption DEF HandleOK
  <2>2. h.lease_version \in Nat
    BY DEF Handle
  <2>3. CASE h.status \notin BoundStatuses \cup TerminalStatuses
    BY <2>3 DEF FollowsLease, BoundStatuses
  <2>4. CASE h.status \in BoundStatuses \cup TerminalStatuses
    <3>1. /\ h.lease \in LeaseIds /\ table[h.lease].run = r /\ table[h.lease].status # "none"
          /\ table[h.lease].version \in Nat /\ after[h.lease].version \in Nat
      BY <2>1, <2>4 DEF FollowsLease, Drawn, Lease
    <3> QED
      BY <2>1, <2>2, <3>1 DEF FollowsLease, Grown, TerminalLeaseStatuses
  <2> QED
    BY <2>3, <2>4
<1>2. h.status \in BoundStatuses => q[h.attempt].status # "unstarted"
  BY DEF HandleOK, Started, BoundStatuses
<1> QED
  BY <1>1, <1>2 DEF HandleOK

\* So does a call, while the version of its handle only goes up.
LEMMA CallKeeps ==
    ASSUME NEW c \in Call, NEW h \in Handle, NEW new \in Handle,
           NEW table \in [LeaseIds -> Lease], NEW after \in [LeaseIds -> Lease],
           NEW p, NEW q,
           CallOK(c, h, table, p), Grown(table, after), Drawn(table), Started(p, q),
           new = h \/ new.version > h.version
    PROVE  CallOK(c, new, after, q)
<1>1. /\ c.run \in Runs /\ c.run # NoRun /\ c.current \in Handle /\ c.obs.attempt \in Attempts
      /\ c.lease_version \in Nat
  BY LeaseTableAssumption DEF Call, Observation
<1>2. c.op = "bind" => q[c.obs.attempt].status # "unstarted"
  BY <1>1 DEF CallOK, Started
<1>3. c.step # "read" => ReadOK(c, new, after, q)
  <2> SUFFICES ASSUME c.step # "read" PROVE ReadOK(c, new, after, q)
    OBVIOUS
  <2>1. ReadOK(c, h, table, p)
    BY DEF CallOK
  <2>2. HandleOK(c.current, c.run, after, q)
    BY <1>1, <2>1, HandleKeeps DEF ReadOK
  <2>3. h.version \in Nat /\ new.version \in Nat /\ c.current.version \in Nat
    BY <1>1 DEF Handle
  <2> QED
    BY <2>1, <2>2, <2>3 DEF ReadOK
<1>4. ASSUME NEW id \in LeaseIds, table[id].run = c.run
      PROVE  /\ after[id].run = c.run /\ after[id].version >= table[id].version
             /\ table[id].version \in Nat /\ after[id].version \in Nat
             /\ table[id].status # "active" => after[id].status # "active"
             /\ table[id].status \in TerminalLeaseStatuses => after[id].status = table[id].status
  BY <1>1, <1>4 DEF Grown, Drawn, Lease
<1>5. c.step # "read" /\ c.op \notin {"bind", "retry"} =>
         c.current.lease \in LeaseIds /\ table[c.current.lease].run = c.run
  <2> SUFFICES ASSUME c.step # "read", c.op \notin {"bind", "retry"}
               PROVE  c.current.lease \in LeaseIds /\ table[c.current.lease].run = c.run
    OBVIOUS
  <2>1. Accepts(c.op, c.current, c.obs) /\ FollowsLease(c.current, c.run, table)
    BY DEF CallOK, ReadOK, HandleOK
  <2>2. c.op \in {"observe", "checkpoint", "cancel", "finish", "recover"}
    BY DEF Call, Operations
  <2>3. c.current.status \in BoundStatuses
    BY <2>1, <2>2
    DEF Accepts, ObserveAccepted, FinishAccepted, RecoverAccepted, RunningAccepted, BoundStatuses
  <2> QED
    BY <2>1, <2>3 DEF FollowsLease
<1>6. WroteOK(c, after)
  <2>1. WroteOK(c, table)
    BY DEF CallOK
  <2>2. c.op = "recover" /\ c.step \in {"acquire", "append"} => after[c.current.lease].status = "expired"
    BY <1>4, <1>5, <2>1 DEF WroteOK, TerminalLeaseStatuses
  <2>3. c.op \in {"bind", "recover"} /\ c.step \in {"append", "compensate"} =>
           /\ c.lease \in LeaseIds /\ after[c.lease].run = c.run
           /\ c.lease_version <= after[c.lease].version
    BY <1>1, <1>4, <2>1 DEF WroteOK
  <2>4. c.op \notin {"bind", "recover", "retry"} /\ c.step = "append" =>
           /\ c.lease_version <= after[c.lease].version
           /\ LeaseOperation(c.op, c.current, c.obs) = "request_cancel" => after[c.lease].status # "active"
           /\ LeaseOperation(c.op, c.current, c.obs) = "release" => after[c.lease].status = "released"
    BY <1>1, <1>4, <1>5, <2>1 DEF WroteOK, TerminalLeaseStatuses
  <2> QED
    BY <2>1, <2>2, <2>3, <2>4 DEF WroteOK
<1> QED
  BY <1>2, <1>3, <1>6 DEF CallOK

\* A step that lets the table grow and the versions go up, and leaves every
\* call alone, over, or right
LEMMA Frame ==
    ASSUME LongInv, TypeOK', Grown(leases, leases'), Drawn(leases'),
           \A r \in Runs : \/ handles'[r] = handles[r]
                           \/ /\ handles'[r].version > handles[r].version
                              /\ HandleOK(handles'[r], r, leases', providers'[r]),
           \A r \in Runs : Started(providers[r], providers'[r]),
           \A s \in Workers : \/ calls'[s] \in {calls[s], Idle}
                              \/ LET c == calls'[s]
                                 IN  CallOK(c, handles'[c.run], leases', providers'[c.run])
    PROVE  LongInv'
<1>1. /\ leases \in [LeaseIds -> Lease] /\ leases' \in [LeaseIds -> Lease] /\ Drawn(leases)
      /\ \A r \in Runs : handles[r] \in Handle /\ handles'[r] \in Handle
  BY DEF LongInv, TypeOK, Drawn
<1>2. ASSUME NEW r \in Runs PROVE HandleOK(handles'[r], r, leases', providers'[r])
  BY <1>1, HandleKeeps DEF LongInv
<1>3. ASSUME NEW s \in Workers, calls'[s] # Idle
      PROVE  LET c == calls'[s]
             IN  CallOK(c, handles'[c.run], leases', providers'[c.run])
  <2>1. CASE calls'[s] = calls[s]
    <3>1. calls[s] \in Call /\ calls[s].run \in Runs
      BY <1>3, <2>1 DEF LongInv, TypeOK, Call
    <3>2. CallOK(calls[s], handles[calls[s].run], leases, providers[calls[s].run])
      BY <1>3, <2>1 DEF LongInv
    <3>3. \/ handles'[calls[s].run] = handles[calls[s].run]
          \/ handles'[calls[s].run].version > handles[calls[s].run].version
      BY <3>1
    <3>4. CallOK(calls[s], handles'[calls[s].run], leases', providers'[calls[s].run])
      BY <1>1, <3>1, <3>2, <3>3, CallKeeps
    <3> QED
      BY <2>1, <3>4
  <2> QED
    BY <1>3, <2>1
<1> QED
  BY <1>2, <1>3 DEF LongInv, Drawn

\* Lease transactions let the table grow.
LEMMA RowWritten ==
    ASSUME NEW table \in [LeaseIds -> Lease], Drawn(table), NEW id \in LeaseIds,
           NEW after \in [LeaseIds -> Lease], \A x \in LeaseIds \ {id} : after[x] = table[x],
           after[id].status # "none",
           \/ table[id].status = "none"
           \/ /\ table[id].status \in LiveStatuses
              /\ after[id].run = table[id].run /\ after[id].version >= table[id].version
              /\ table[id].status # "active" => after[id].status # "active"
    PROVE  Grown(table, after) /\ Drawn(after)
<1>1. Grown(table, table)
  BY GrownReflexive
<1> QED
  BY <1>1 DEF Grown, Drawn, LiveStatuses, TerminalLeaseStatuses

\* The transactions of the holder of a lease
LEMMA StoreWrites ==
    ASSUME NEW table \in [LeaseIds -> Lease], Drawn(table), NEW id \in LeaseIds, NEW when \in Int
    PROVE  /\ table[id].status = "active" =>
                 LET after == Heartbeat(table, id, when, LeaseSeconds)
                 IN  after \in [LeaseIds -> Lease] /\ Grown(table, after) /\ Drawn(after)
           /\ table[id].status = "active" =>
                 LET after == RequestCancel(table, id, when)
                 IN  /\ after \in [LeaseIds -> Lease] /\ Grown(table, after) /\ Drawn(after)
                     /\ after[id].status = "cancel_requested"
           /\ table[id].status \in LiveStatuses =>
                 LET after == Release(table, id, when)
                 IN  /\ after \in [LeaseIds -> Lease] /\ Grown(table, after) /\ Drawn(after)
                     /\ after[id].status = "released"
<1> DEFINE row == table[id]
           cancelled == [row EXCEPT !.status = "cancel_requested", !.version = @ + 1,
                                    !.last_heartbeat_at = when]
           beaten == [row EXCEPT !.version = @ + 1, !.last_heartbeat_at = when,
                                 !.expires_at = when + LeaseSeconds]
           last == IF when < row.expires_at - 1 THEN when ELSE row.expires_at - 1
           released == [row EXCEPT !.status = "released", !.version = @ + 1,
                                   !.last_heartbeat_at = last]
<1>1. row \in Lease /\ LeaseSeconds \in Nat
  BY LongRunsAssumption
<1>2. /\ when + LeaseSeconds \in Int /\ row.version + 1 \in Nat /\ row.version + 1 >= row.version
      /\ last \in Int
  BY <1>1 DEF Lease
<1>3. /\ RequestCancel(table, id, when) = [table EXCEPT ![id] = cancelled]
      /\ Heartbeat(table, id, when, LeaseSeconds) = [table EXCEPT ![id] = beaten]
      /\ Release(table, id, when) = [table EXCEPT ![id] = released]
  BY <1>1 DEF RequestCancel, Heartbeat, Release, Lease
<1> HIDE DEF last
<1>4. /\ cancelled \in Lease /\ cancelled.run = row.run /\ cancelled.status = "cancel_requested"
      /\ cancelled.version = row.version + 1
  BY <1>1, <1>2 DEF Lease, LiveStatuses
<1>5. /\ beaten \in Lease /\ beaten.run = row.run /\ beaten.status = row.status
      /\ beaten.version = row.version + 1
  BY <1>1, <1>2 DEF Lease
<1>6. /\ released \in Lease /\ released.run = row.run /\ released.status = "released"
      /\ released.version = row.version + 1
  BY <1>1, <1>2 DEF Lease, TerminalLeaseStatuses
<1> HIDE DEF cancelled, beaten, released
<1>7. ASSUME NEW new \in Lease
      PROVE  /\ [table EXCEPT ![id] = new] \in [LeaseIds -> Lease]
             /\ [table EXCEPT ![id] = new][id] = new
             /\ \A x \in LeaseIds \ {id} : [table EXCEPT ![id] = new][x] = table[x]
  OBVIOUS
<1>8. ASSUME NEW new \in Lease, new.run = row.run, new.version = row.version + 1,
             row.status \in LiveStatuses, new.status # "none",
             row.status # "active" => new.status # "active"
      PROVE  /\ Grown(table, [table EXCEPT ![id] = new])
             /\ Drawn([table EXCEPT ![id] = new])
  <2> DEFINE after == [table EXCEPT ![id] = new]
  <2>1. after \in [LeaseIds -> Lease] /\ after[id] = new /\ \A x \in LeaseIds \ {id} : after[x] = table[x]
    BY <1>7
  <2> HIDE DEF after
  <2>2. Grown(table, after) /\ Drawn(after)
    BY <1>2, <1>8, <2>1, RowWritten
  <2> QED
    BY <2>2 DEF after
<1>9. row.status = "active" =>
         /\ Grown(table, [table EXCEPT ![id] = cancelled]) /\ Drawn([table EXCEPT ![id] = cancelled])
         /\ Grown(table, [table EXCEPT ![id] = beaten]) /\ Drawn([table EXCEPT ![id] = beaten])
  BY <1>4, <1>5, <1>8 DEF LiveStatuses
<1>10. row.status \in LiveStatuses =>
         Grown(table, [table EXCEPT ![id] = released]) /\ Drawn([table EXCEPT ![id] = released])
  BY <1>6, <1>8
<1> QED
  BY <1>3, <1>4, <1>5, <1>6, <1>7, <1>9, <1>10

\* A lease is drawn only for an id that no run has.
LEMMA AcquireWrites ==
    ASSUME NEW table \in [LeaseIds -> Lease], Drawn(table), NEW id \in Drawable(table),
           NEW s \in Workers, NEW r \in Runs, NEW when \in Int
    PROVE  LET after == Acquire(table, id, s, r, when, LeaseSeconds)
           IN  /\ after \in [LeaseIds -> Lease] /\ Grown(table, after) /\ Drawn(after)
               /\ after[id].run = r /\ after[id].version = 1
<1> DEFINE row == [status |-> "active", worker |-> s, run |-> r, version |-> 1,
                   acquired_at |-> when, last_heartbeat_at |-> when,
                   expires_at |-> when + LeaseSeconds]
<1>1. LeaseSeconds \in Nat /\ id \in LeaseIds /\ table[id].status = "none"
  BY LongRunsAssumption DEF Drawable
<1>2. row \in Lease /\ row.status = "active" /\ row.run = r /\ row.version = 1
  BY <1>1 DEF Lease, LiveStatuses
<1>3. Acquire(table, id, s, r, when, LeaseSeconds) = [table EXCEPT ![id] = row]
  BY DEF Acquire
<1> HIDE DEF row
<1> DEFINE after == [table EXCEPT ![id] = row]
<1>4. after \in [LeaseIds -> Lease] /\ after[id] = row /\ \A x \in LeaseIds \ {id} : after[x] = table[x]
  BY <1>1, <1>2
<1> HIDE DEF after
<1>5. Grown(table, after) /\ Drawn(after)
  BY <1>1, <1>2, <1>4, RowWritten
<1> QED
  BY <1>2, <1>3, <1>4, <1>5 DEF after

\* A sweep only takes live leases to expired.
LEMMA SweepWrites ==
    ASSUME NEW table \in [LeaseIds -> Lease], Drawn(table), NEW when \in Int
    PROVE  LET after == RecoverOrphans(table, when)
           IN  after \in [LeaseIds -> Lease] /\ Grown(table, after) /\ Drawn(after)
<1> DEFINE after == RecoverOrphans(table, when)
<1>1. ASSUME NEW id \in LeaseIds
      PROVE  /\ after[id] \in Lease /\ after[id].run = table[id].run
             /\ after[id].version >= table[id].version
             /\ after[id].status = "none" => table[id].status = "none"
             /\ \/ after[id].status = table[id].status
                \/ table[id].status \in LiveStatuses /\ after[id].status = "expired"
  <2> DEFINE expired == [table[id] EXCEPT !.status = "expired", !.version = @ + 1]
  <2>1. after[id] = IF id \in Elapsed(table, when) THEN expired ELSE table[id]
    BY DEF RecoverOrphans
  <2>2. table[id].version \in Nat /\ table[id].version + 1 \in Nat
    BY DEF Lease
  <2>3. /\ expired \in Lease /\ expired.run = table[id].run /\ expired.status = "expired"
        /\ expired.version = table[id].version + 1
    BY <2>2 DEF Lease, TerminalLeaseStatuses
  <2> HIDE DEF expired
  <2> QED
    BY <2>1, <2>2, <2>3 DEF Elapsed, HasLiveStatus
<1>2. after \in [LeaseIds -> Lease]
  BY <1>1 DEF RecoverOrphans
<1>3. Drawn(after)
  BY <1>1 DEF Drawn
<1>4. Grown(table, after)
  BY <1>1 DEF Grown, LiveStatuses, TerminalLeaseStatuses
<1> QED
  BY <1>2, <1>3, <1>4

-----------------------------------------------------------------------------
(* The handles that are appended *)

\* The hard limits that an observation exceeds
LEMMA HardLimits ==
    ASSUME NEW h, NEW obs
    PROVE  /\ "task_elapsed" \in Hard(h, obs) <=> obs.at - h.created_at > TaskMax
           /\ "attempt_elapsed" \in Hard(h, obs) <=> obs.at - h.started_at > AttemptMax
           /\ "usage" \in Hard(h, obs) <=> MergedUsage(h, obs) > UsageMax
           /\ Hard(h, obs) \subseteq Dimensions
BY DEF Hard, Dimensions

\* A new handle: what is appended to the handle a call has read
NewHandleOK(h, new, r, table, provider) ==
    /\ new \in Handle /\ new.version = h.version + 1
    /\ HandleOK(new, r, table, provider)
    /\ h.status \in BoundStatuses /\ new.lease # h.lease => table[h.lease].status = "expired"
    /\ new.attempt = h.attempt =>
          /\ new.cursor >= h.cursor /\ new.updated_at >= h.updated_at
          /\ h.hard \subseteq new.hard
          /\ h.status = "cancel_requested" => new.status # "running"

\* bind_provider
LEMMA BindAppends ==
    ASSUME NEW c \in Call, NEW h \in Handle, NEW table \in [LeaseIds -> Lease], NEW provider,
           c.current = h, c.step = "append", c.op = "bind", CallOK(c, h, table, provider)
    PROVE  NewHandleOK(h, Updated(c), c.run, table, provider)
<1> DEFINE obs == c.obs
           new == [h EXCEPT !.version = h.version + 1, !.lease = c.lease,
                            !.lease_version = c.lease_version, !.updated_at = obs.at,
                            !.status = "running", !.started_at = obs.started_at, !.cursor = 0]
<1>1. Updated(c) = new
  BY DEF Updated, Bound, Leased, Handle
<1>2. /\ obs \in Observation /\ c.lease_version \in Nat /\ BindAccepted(h, obs)
      /\ HandleOK(h, c.run, table, provider) /\ WroteOK(c, table)
      /\ provider[obs.attempt].status # "unstarted"
  BY DEF Call, CallOK, ReadOK, Accepts
<1>3. c.lease \in LeaseIds /\ table[c.lease].run = c.run /\ c.lease_version <= table[c.lease].version
  BY <1>2 DEF WroteOK
<1>4. /\ h.version + 1 \in Nat /\ obs.at \in Instants /\ obs.started_at \in Instants
      /\ 0 \in 0..MaxWork /\ h.version \in Nat
  BY <1>2, LongRunsAssumption DEF Handle, Observation
<1>5. /\ new \in Handle /\ new.version = h.version + 1 /\ new.status = "running"
      /\ new.lease = c.lease /\ new.lease_version = c.lease_version /\ new.attempt = h.attempt
      /\ new.cursor = 0 /\ new.updated_at = obs.at /\ new.hard = h.hard /\ new.used = h.used
      /\ new.created_at = h.created_at
  BY <1>2, <1>3, <1>4 DEF Handle, BoundStatuses
<1> HIDE DEF new
<1>6. RemembersLimits(new)
  BY <1>2, <1>4, <1>5, LongRunsAssumption
  DEF HandleOK, RemembersLimits, BindAccepted, Handle, Instants
<1>7. CompletedFits(new) /\ FollowsLease(new, c.run, table)
  BY <1>3, <1>5 DEF CompletedFits, FollowsLease, TerminalStatuses
<1>8. HandleOK(new, c.run, table, provider)
  BY <1>2, <1>4, <1>5, <1>6, <1>7 DEF HandleOK, BindAccepted, Observation
<1> QED
  BY <1>1, <1>2, <1>4, <1>5, <1>8 DEF NewHandleOK, BindAccepted, HandleOK, BoundStatuses

\* checkpoint and request_cancel
LEMMA RunningAppends ==
    ASSUME NEW c \in Call, NEW h \in Handle, NEW table \in [LeaseIds -> Lease], NEW provider,
           c.current = h, c.step = "append", c.op \in {"checkpoint", "cancel"},
           CallOK(c, h, table, provider)
    PROVE  NewHandleOK(h, Updated(c), c.run, table, provider)
<1> DEFINE obs == c.obs
           leased == [h EXCEPT !.version = h.version + 1, !.lease = c.lease,
                               !.lease_version = c.lease_version, !.updated_at = obs.at]
           new == IF c.op = "checkpoint"
                  THEN [leased EXCEPT !.checkpoint_count = h.checkpoint_count + 1]
                  ELSE [leased EXCEPT !.status = "cancel_requested"]
<1>1. Updated(c) = new
  BY DEF Updated, Checkpointed, CancelRequested, Leased, Handle
<1>2. /\ obs \in Observation /\ c.lease_version \in Nat /\ RunningAccepted(h, obs.at)
      /\ HandleOK(h, c.run, table, provider) /\ WroteOK(c, table)
  BY DEF Call, CallOK, ReadOK, Accepts
<1>3. /\ h.status = "running" /\ obs.at >= h.updated_at /\ c.lease = h.lease
      /\ h.lease \in LeaseIds /\ table[h.lease].run = c.run
      /\ c.lease_version <= table[h.lease].version
      /\ c.op = "cancel" => table[h.lease].status # "active"
  BY <1>2 DEF RunningAccepted, HandleOK, FollowsLease, WroteOK, LeaseOperation, BoundStatuses
<1>4. /\ h.version + 1 \in Nat /\ h.version \in Nat /\ obs.at \in Instants
      /\ h.checkpoint_count + 1 \in Nat
  BY <1>2 DEF Handle, Observation
<1>5. leased \in Handle
  BY <1>2, <1>3, <1>4 DEF Handle
<1>6. /\ new \in Handle /\ new.version = h.version + 1 /\ new.lease = c.lease
      /\ new.status = IF c.op = "cancel" THEN "cancel_requested" ELSE "running"
      /\ new.lease_version = c.lease_version /\ new.attempt = h.attempt
      /\ new.cursor = h.cursor /\ new.updated_at = obs.at /\ new.hard = h.hard
      /\ new.used = h.used /\ new.created_at = h.created_at
  <2>1. /\ leased.version = h.version + 1 /\ leased.lease = c.lease /\ leased.status = h.status
        /\ leased.lease_version = c.lease_version /\ leased.attempt = h.attempt
        /\ leased.cursor = h.cursor /\ leased.updated_at = obs.at /\ leased.hard = h.hard
        /\ leased.used = h.used /\ leased.created_at = h.created_at
    BY DEF Handle
  <2> HIDE DEF leased
  <2>2. CASE c.op = "checkpoint"
    BY <1>3, <1>4, <1>5, <2>1, <2>2 DEF Handle
  <2>3. CASE c.op = "cancel"
    BY <1>3, <1>5, <2>1, <2>3 DEF Handle, BoundStatuses
  <2> QED
    BY <2>2, <2>3
<1> HIDE DEF new
<1>7. RemembersLimits(new)
  BY <1>2, <1>3, <1>4, <1>6, LongRunsAssumption DEF HandleOK, RemembersLimits, Handle, Instants
<1>8. CompletedFits(new) /\ FollowsLease(new, c.run, table)
  BY <1>3, <1>6 DEF CompletedFits, FollowsLease, BoundStatuses, TerminalStatuses
<1>9. HandleOK(new, c.run, table, provider)
  BY <1>2, <1>3, <1>4, <1>6, <1>7, <1>8 DEF HandleOK, BoundStatuses
<1>10. h.cursor \in Nat
  BY DEF Handle
<1> QED
  BY <1>1, <1>3, <1>6, <1>9, <1>10 DEF NewHandleOK

\* authorize_retry
LEMMA RetryAppends ==
    ASSUME NEW c \in Call, NEW h \in Handle, NEW table \in [LeaseIds -> Lease], NEW provider,
           c.current = h, c.step = "append", c.op = "retry", CallOK(c, h, table, provider)
    PROVE  NewHandleOK(h, Updated(c), c.run, table, provider)
<1> DEFINE obs == c.obs
           new == [h EXCEPT !.status = "admitted", !.version = h.version + 1,
                            !.attempt = h.attempt + 1, !.lease = NoLeaseId, !.lease_version = 0,
                            !.started_at = 0, !.cursor = 0, !.updated_at = obs.at]
<1>1. Updated(c) = new
  BY DEF Updated, Retried
<1>2. /\ obs \in Observation /\ RetryAllowed(h, obs.at) /\ HandleOK(h, c.run, table, provider)
  BY DEF Call, CallOK, ReadOK, Accepts
<1>3. /\ h.version + 1 \in Nat /\ h.version \in Nat /\ obs.at \in Instants /\ 0 \in 0..MaxWork
      /\ 0 \in Instants /\ h.attempt + 1 \in Attempts /\ h.attempt + 1 \in 0..MaxAttempts
      /\ h.attempt + 1 # h.attempt
  BY <1>2, LongRunsAssumption DEF Handle, Observation, RetryAllowed, Attempts, Instants
<1>4. /\ new \in Handle /\ new.version = h.version + 1 /\ new.status = "admitted"
      /\ new.attempt = h.attempt + 1 /\ new.cursor = 0 /\ new.updated_at = obs.at
      /\ new.hard = h.hard /\ new.used = h.used /\ new.created_at = h.created_at
  BY <1>3 DEF Handle
<1> HIDE DEF new
<1>5. RemembersLimits(new)
  BY <1>2, <1>3, <1>4, LongRunsAssumption
  DEF HandleOK, RemembersLimits, RetryAllowed, Handle, Instants
<1>6. CompletedFits(new) /\ FollowsLease(new, c.run, table)
  BY <1>4 DEF CompletedFits, FollowsLease, BoundStatuses, TerminalStatuses
<1>7. HandleOK(new, c.run, table, provider)
  BY <1>3, <1>4, <1>5, <1>6 DEF HandleOK, BoundStatuses
<1>8. h.status \notin BoundStatuses
  BY <1>2 DEF RetryAllowed, BoundStatuses
<1> QED
  BY <1>1, <1>3, <1>4, <1>7, <1>8 DEF NewHandleOK

\* recover
LEMMA RecoverAppends ==
    ASSUME NEW c \in Call, NEW h \in Handle, NEW table \in [LeaseIds -> Lease], NEW provider,
           c.current = h, c.step = "append", c.op = "recover", CallOK(c, h, table, provider)
    PROVE  NewHandleOK(h, Updated(c), c.run, table, provider)
<1> DEFINE obs == c.obs
           used == MergedUsage(h, obs)
           new == [h EXCEPT !.version = h.version + 1, !.lease = c.lease,
                            !.lease_version = c.lease_version, !.updated_at = obs.at,
                            !.cursor = obs.cursor, !.used = used]
<1>1. Updated(c) = new
  <2>1. Leased(h, obs.at, <<c.lease, c.lease_version>>) =
           [h EXCEPT !.version = h.version + 1, !.lease = c.lease,
                     !.lease_version = c.lease_version, !.updated_at = obs.at]
    BY DEF Leased
  <2> QED
    BY <2>1 DEF Updated, Recovered, Handle
<1>2. /\ obs \in Observation /\ c.lease_version \in Nat /\ RecoverAccepted(h, obs)
      /\ HandleOK(h, c.run, table, provider) /\ WroteOK(c, table)
  BY DEF Call, CallOK, ReadOK, Accepts
<1>3. /\ h.status = "running" /\ Mergeable(h, obs) /\ table[h.lease].status = "expired"
      /\ c.lease \in LeaseIds /\ table[c.lease].run = c.run
      /\ c.lease_version <= table[c.lease].version
  BY <1>2 DEF WroteOK, RecoverAccepted
<1>4. /\ h.version + 1 \in Nat /\ h.version \in Nat /\ obs.at \in Instants
      /\ obs.cursor \in 0..MaxWork /\ obs.cursor >= h.cursor /\ obs.at >= h.updated_at
  BY <1>2, <1>3 DEF Handle, Observation, Mergeable
<1>5. used \in Nat /\ used >= h.used
  BY <1>4, LongRunsAssumption DEF Handle, MergedUsage
<1> HIDE DEF used
<1>6. /\ new \in Handle /\ new.version = h.version + 1 /\ new.status = "running"
      /\ new.lease = c.lease /\ new.lease_version = c.lease_version /\ new.attempt = h.attempt
      /\ new.cursor = obs.cursor /\ new.updated_at = obs.at /\ new.hard = h.hard
      /\ new.used = used /\ new.created_at = h.created_at
  BY <1>2, <1>3, <1>4, <1>5 DEF Handle
<1> HIDE DEF new
<1>7. RemembersLimits(new)
  BY <1>2, <1>4, <1>5, <1>6, LongRunsAssumption DEF HandleOK, RemembersLimits, Handle, Instants
<1>8. CompletedFits(new) /\ FollowsLease(new, c.run, table)
  BY <1>3, <1>6 DEF CompletedFits, FollowsLease, BoundStatuses, TerminalStatuses
<1>9. HandleOK(new, c.run, table, provider)
  BY <1>2, <1>3, <1>4, <1>6, <1>7, <1>8 DEF HandleOK, BoundStatuses
<1> QED
  BY <1>1, <1>3, <1>4, <1>6, <1>9 DEF NewHandleOK

\* observe and finish
LEMMA MergedAppends ==
    ASSUME NEW c \in Call, NEW h \in Handle, NEW table \in [LeaseIds -> Lease], NEW provider,
           c.current = h, c.step = "append", c.op \in {"observe", "finish"},
           CallOK(c, h, table, provider)
    PROVE  NewHandleOK(h, Updated(c), c.run, table, provider)
<1> DEFINE obs == c.obs
           hard == Hard(h, obs)
           used == MergedUsage(h, obs)
           status == IF c.op = "finish" THEN TerminalStatus(obs.status, hard)
                     ELSE IF hard # {} THEN "cancel_requested" ELSE h.status
           new == [h EXCEPT !.version = h.version + 1, !.lease = c.lease,
                            !.lease_version = c.lease_version, !.updated_at = obs.at,
                            !.cursor = obs.cursor, !.used = used, !.hard = h.hard \cup hard,
                            !.status = status]
<1>1. Updated(c) = new
  <2>1. Leased(h, obs.at, <<c.lease, c.lease_version>>) =
           [h EXCEPT !.version = h.version + 1, !.lease = c.lease,
                     !.lease_version = c.lease_version, !.updated_at = obs.at]
    BY DEF Leased
  <2>2. Merged(h, obs, <<c.lease, c.lease_version>>) =
           [h EXCEPT !.version = h.version + 1, !.lease = c.lease,
                     !.lease_version = c.lease_version, !.updated_at = obs.at,
                     !.cursor = obs.cursor, !.used = used, !.hard = h.hard \cup hard]
    BY <2>1 DEF Merged, Handle
  <2>3. Updated(c) = IF c.op = "finish" THEN Finished(h, obs, <<c.lease, c.lease_version>>)
                     ELSE Observed(h, obs, <<c.lease, c.lease_version>>)
    BY DEF Updated
  <2> HIDE DEF hard, used
  <2>4. CASE c.op = "finish"
    BY <2>2, <2>3, <2>4 DEF Finished, Handle, hard
  <2>5. CASE c.op = "observe"
    BY <2>2, <2>3, <2>5 DEF Observed, Handle, hard
  <2> QED
    BY <2>4, <2>5
<1>2. /\ obs \in Observation /\ c.lease_version \in Nat
      /\ HandleOK(h, c.run, table, provider) /\ WroteOK(c, table)
      /\ c.op = "observe" => ObserveAccepted(h, obs)
      /\ c.op = "finish" => FinishAccepted(h, obs)
  BY DEF Call, CallOK, ReadOK, Accepts
<1>3. /\ h.status \in BoundStatuses /\ Mergeable(h, obs)
      /\ c.lease = h.lease /\ h.lease \in LeaseIds /\ table[h.lease].run = c.run
      /\ c.lease_version <= table[h.lease].version
  BY <1>2 DEF WroteOK, ObserveAccepted, FinishAccepted, HandleOK, FollowsLease
<1>4. /\ h.version + 1 \in Nat /\ h.version \in Nat /\ obs.at \in Instants
      /\ obs.cursor \in 0..MaxWork /\ obs.cursor >= h.cursor /\ obs.at >= h.updated_at
  BY <1>2, <1>3 DEF Handle, Observation, Mergeable
<1>5. used \in Nat /\ used >= h.used /\ h.used \in Nat
  BY <1>4, LongRunsAssumption DEF Handle, MergedUsage
<1>6. /\ "task_elapsed" \in hard <=> obs.at - h.created_at > TaskMax
      /\ "attempt_elapsed" \in hard <=> obs.at - h.started_at > AttemptMax
      /\ "usage" \in hard <=> used > UsageMax
      /\ hard \subseteq Dimensions
  BY HardLimits
<1>7. /\ status \in BoundStatuses \cup TerminalStatuses
      /\ c.op = "finish" => status \in TerminalStatuses /\ table[h.lease].status = "released"
      /\ c.op = "observe" => status \in BoundStatuses
      /\ status = "completed" => c.op = "finish" /\ hard = {}
      /\ c.op = "observe" /\ h.status = "cancel_requested" => status = "cancel_requested"
      /\ status = "cancel_requested" => table[h.lease].status # "active"
  <2> HIDE DEF hard, used
  <2>1. CASE c.op = "finish"
    <3>1. LeaseOperation(c.op, h, obs) = "release"
      BY <2>1 DEF LeaseOperation
    <3>2. table[h.lease].status = "released"
      BY <1>2, <1>3, <2>1, <3>1 DEF WroteOK
    <3>3. status \in TerminalStatuses /\ (status = "completed" => hard = {})
      BY <2>1 DEF TerminalStatus, TerminalStatuses
    <3> QED
      BY <2>1, <3>2, <3>3 DEF TerminalStatuses
  <2>2. CASE c.op = "observe"
    <3>1. status \in BoundStatuses /\ (h.status = "cancel_requested" => status = "cancel_requested")
      BY <1>3, <2>2 DEF BoundStatuses
    <3>2. CASE h.status = "cancel_requested"
      BY <1>2, <2>2, <3>1, <3>2 DEF HandleOK, FollowsLease, BoundStatuses
    <3>3. CASE h.status = "running" /\ hard # {}
      <4>1. LeaseOperation(c.op, h, obs) = "request_cancel"
        BY <2>2, <3>3 DEF LeaseOperation, LeaseOperationOfObserve, hard
      <4> QED
        BY <1>2, <1>3, <2>2, <3>1, <4>1 DEF WroteOK, BoundStatuses
    <3>4. CASE h.status = "running" /\ hard = {}
      BY <2>2, <3>1, <3>4 DEF BoundStatuses
    <3> QED
      BY <1>3, <3>2, <3>3, <3>4 DEF BoundStatuses
  <2> QED
    BY <2>1, <2>2
<1> HIDE DEF used, hard, status
<1>8. /\ new \in Handle /\ new.version = h.version + 1 /\ new.status = status
      /\ new.lease = c.lease /\ new.lease_version = c.lease_version /\ new.attempt = h.attempt
      /\ new.cursor = obs.cursor /\ new.updated_at = obs.at /\ new.hard = h.hard \cup hard
      /\ new.used = used /\ new.created_at = h.created_at /\ new.started_at = h.started_at
  BY <1>2, <1>3, <1>4, <1>5, <1>6, <1>7 DEF Handle
<1> HIDE DEF new
<1>9. RemembersLimits(new)
  BY <1>2, <1>4, <1>5, <1>6, <1>8, LongRunsAssumption
  DEF HandleOK, RemembersLimits, Handle, Instants
<1>10. CompletedFits(new)
  BY <1>4, <1>5, <1>6, <1>7, <1>8, LongRunsAssumption DEF CompletedFits, Handle, Instants
<1>11. FollowsLease(new, c.run, table)
  BY <1>3, <1>7, <1>8 DEF FollowsLease, BoundStatuses, TerminalStatuses
<1>12. HandleOK(new, c.run, table, provider)
  BY <1>2, <1>3, <1>4, <1>7, <1>8, <1>9, <1>10, <1>11
  DEF HandleOK, BoundStatuses, TerminalStatuses
<1>13. h.status = "cancel_requested" => status # "running"
  BY <1>7 DEF TerminalStatuses
<1> QED
  BY <1>1, <1>3, <1>4, <1>8, <1>12, <1>13 DEF NewHandleOK

\* Whatever call appends, its handle is right.
LEMMA CallAppends ==
    ASSUME NEW c \in Call, NEW h \in Handle, NEW table \in [LeaseIds -> Lease], NEW provider,
           c.current = h, c.step = "append", CallOK(c, h, table, provider)
    PROVE  NewHandleOK(h, Updated(c), c.run, table, provider)
<1>1. c.op \in Operations
  BY DEF Call
<1> QED
  BY <1>1, BindAppends, RunningAppends, RetryAppends, RecoverAppends, MergedAppends DEF Operations

-----------------------------------------------------------------------------
(* The steps *)

\* At first no run is admitted and no call has begun.
LEMMA InitLong == Init => LongInv
<1> SUFFICES ASSUME Init PROVE LongInv
  OBVIOUS
<1>1. NoLease \in Lease /\ NoLease.run = NoRun
  BY DEF NoLease, Lease
<1>2. 0 \in Instants /\ 0 \in 0..MaxWork /\ 0 \in 0..MaxAttempts /\ 0 \in 0..Crashes
  BY LongRunsAssumption DEF Instants
<1>3. /\ NoHandle \in Handle /\ NoHandle.version = 0 /\ NoHandle.status = "absent"
      /\ NoHandle.hard = {}
  BY <1>2 DEF NoHandle, Handle
<1>4. [status |-> "unstarted", work |-> 0, started_at |-> 0] \in Provider
  BY <1>2 DEF Provider
<1>5. TypeOK
  BY <1>1, <1>2, <1>3, <1>4 DEF Init, TypeOK
<1>6. ASSUME NEW r \in Runs PROVE HandleOK(handles[r], r, leases, providers[r])
  BY <1>3 DEF Init, HandleOK, RemembersLimits, CompletedFits, FollowsLease,
              BoundStatuses, TerminalStatuses
<1>7. \A s \in Workers : calls[s] = Idle
  BY DEF Init
<1> QED
  BY <1>1, <1>5, <1>6, <1>7 DEF Init, LongInv

\* What the invariant says of a call
LEMMA CallFacts ==
    ASSUME LongInv, NEW s \in Workers, calls[s] # Idle
    PROVE  /\ calls[s] \in Call /\ calls[s].run \in Runs /\ calls[s].obs \in Observation
           /\ handles[calls[s].run] \in Handle /\ leases \in [LeaseIds -> Lease] /\ Drawn(leases)
           /\ CallOK(calls[s], handles[calls[s].run], leases, providers[calls[s].run])
BY DEF LongInv, TypeOK, Call, Drawn

\* A step of one call that may write the lease store
LEMMA CallMoves ==
    ASSUME LongInv, NEW s \in Workers, NEW d \in Call \cup {Idle},
           NEW table \in [LeaseIds -> Lease], Grown(leases, table), Drawn(table),
           calls' = [calls EXCEPT ![s] = d], leases' = table,
           UNCHANGED <<clock, handles, providers>>, crashes' \in 0..Crashes,
           d # Idle => CallOK(d, handles[d.run], table, providers[d.run])
    PROVE  LongInv'
<1>1. TypeOK'
  BY DEF LongInv, TypeOK
<1>2. calls'[s] = d /\ \A x \in Workers \ {s} : calls'[x] = calls[x]
  BY DEF LongInv, TypeOK
<1>3. \A x \in Workers : \/ calls'[x] \in {calls[x], Idle}
                         \/ LET c == calls'[x]
                            IN  CallOK(c, handles'[c.run], leases', providers'[c.run])
  BY <1>2
<1>4. \A r \in Runs : handles'[r] = handles[r] /\ Started(providers[r], providers'[r])
  BY DEF Started
<1> QED
  BY <1>1, <1>3, <1>4, Frame

\* A call that is over, or dead
LEMMA CallEnds ==
    ASSUME LongInv, NEW s \in Workers, calls' = [calls EXCEPT ![s] = Idle],
           UNCHANGED <<clock, leases, handles, providers>>, crashes' \in 0..Crashes
    PROVE  LongInv'
<1>1. leases \in [LeaseIds -> Lease] /\ Drawn(leases)
  BY DEF LongInv, TypeOK, Drawn
<1> QED
  BY <1>1, GrownReflexive, CallMoves

\* A call that reads a handle and passes its checks
LEMMA ProceedKeeps ==
    ASSUME LongInv, NEW s \in Workers, NEW op \in Operations, NEW r \in Runs,
           NEW obs \in Observation, Accepts(op, handles[r], obs), Proceed(s, op, r, handles[r], obs),
           op = "bind" => providers[r][obs.attempt].status # "unstarted",
           UNCHANGED <<clock, leases, handles, providers, crashes>>
    PROVE  LongInv'
<1> DEFINE h == handles[r]
           operation == LeaseOperation(op, h, obs)
           step == CASE operation = "none" -> "append"
                     [] operation = "acquire" -> "acquire"
                     [] OTHER -> "lease"
           d == [op |-> op, run |-> r, current |-> h, obs |-> obs, lease |-> h.lease,
                 lease_version |-> h.lease_version, step |-> step]
<1>1. h \in Handle /\ leases \in [LeaseIds -> Lease] /\ Drawn(leases) /\ crashes' \in 0..Crashes
  BY DEF LongInv, TypeOK, Drawn
<1>2. calls' = [calls EXCEPT ![s] = d]
  BY DEF Proceed
<1>3. /\ step \in {"append", "acquire", "lease"}
      /\ step = "append" => operation = "none"
      /\ step = "acquire" => operation = "acquire"
      /\ step = "lease" => operation \notin {"none", "acquire"}
  OBVIOUS
<1>4. /\ operation = "acquire" => op = "bind"
      /\ op = "recover" => operation = "recover_orphans"
      /\ operation = "none" => op = "retry" \/ (op = "observe" /\ h.status = "cancel_requested")
      /\ op = "bind" => operation = "acquire"
  BY DEF LeaseOperation, LeaseOperationOfObserve, Operations
<1>5. HandleOK(h, r, leases, providers[r])
  BY DEF LongInv
<1> HIDE DEF step
<1>6. d \in Call
  <2>1. h.lease \in LeaseIds \cup {NoLeaseId} /\ h.lease_version \in Nat /\ step \in Steps
    BY <1>1, <1>3 DEF Handle, Steps
  <2> QED
    BY <1>1, <2>1 DEF Call
<1>7. /\ d.op = op /\ d.run = r /\ d.current = h /\ d.obs = obs /\ d.lease = h.lease
      /\ d.lease_version = h.lease_version /\ d.step = step
  OBVIOUS
<1> HIDE DEF d
<1>8. ReadOK(d, h, leases, providers[r])
  BY <1>1, <1>5, <1>7 DEF ReadOK, Handle
<1>9. WroteOK(d, leases)
  <2> HIDE DEF operation
  <2>1. operation = LeaseOperation(d.op, d.current, d.obs)
    BY <1>7 DEF operation
  <2>2. op = "observe" /\ operation = "none" => d.lease_version <= leases[d.lease].version
    BY <1>4, <1>5, <1>7 DEF HandleOK, FollowsLease, BoundStatuses
  <2>3. d.step = "append" /\ op \notin {"bind", "recover", "retry"} => op = "observe" /\ operation = "none"
    BY <1>3, <1>4, <1>7
  <2> QED
    BY <1>3, <1>4, <1>7, <2>1, <2>2, <2>3 DEF WroteOK
<1>10. CallOK(d, handles[d.run], leases, providers[d.run])
  BY <1>7, <1>8, <1>9 DEF CallOK
<1> HIDE DEF h
<1> QED
  BY <1>1, <1>2, <1>6, <1>10, GrownReflexive, CallMoves

\* A call that brings a reference or an observation
LEMMA BeginKeeps ==
    ASSUME LongInv, NEW s \in Workers, NEW op \in Operations, NEW r \in Runs,
           NEW obs \in Observation, Begin(s, op, r, obs),
           op = "bind" => providers[r][obs.attempt].status # "unstarted",
           UNCHANGED <<clock, leases, handles, providers, crashes>>
    PROVE  LongInv'
<1> DEFINE d == [op |-> op, step |-> "read", run |-> r, current |-> NoHandle,
                 obs |-> obs, lease |-> NoLeaseId, lease_version |-> 0]
<1>1. leases \in [LeaseIds -> Lease] /\ Drawn(leases) /\ crashes' \in 0..Crashes
  BY DEF LongInv, TypeOK, Drawn
<1>2. calls' = [calls EXCEPT ![s] = d]
  BY DEF Begin
<1>3. NoHandle \in Handle
  BY LongRunsAssumption DEF NoHandle, Handle, Instants
<1>4. d \in Call
  BY <1>3 DEF Call, Steps
<1>5. d.op = op /\ d.step = "read" /\ d.run = r /\ d.obs = obs
  OBVIOUS
<1> HIDE DEF d
<1>6. CallOK(d, handles[d.run], leases, providers[d.run])
  BY <1>5 DEF CallOK, WroteOK
<1> QED
  BY <1>1, <1>2, <1>4, <1>6, GrownReflexive, CallMoves

\* The calls that begin
LEMMA PollKeeps ==
    ASSUME LongInv, NEW s \in Workers, NEW r \in Runs, NEW op \in Operations, Poll(s, r, op)
    PROVE  LongInv'
<1> DEFINE k == handles[r].attempt
           p == providers[r][k]
           obs == [attempt |-> k, status |-> p.status, cursor |-> p.work,
                   started_at |-> p.started_at, at |-> clock]
<1>1. /\ handles[r].status \in BoundStatuses /\ op # "bind" /\ Begin(s, op, r, obs)
      /\ UNCHANGED <<clock, leases, handles, providers, crashes>>
  BY DEF Poll
<1>2. HandleOK(handles[r], r, leases, providers[r]) /\ clock \in Instants
  BY DEF LongInv, TypeOK
<1>3. k \in Attempts /\ p.status # "unstarted"
  BY <1>1, <1>2 DEF HandleOK, BoundStatuses
<1>4. p \in Provider
  BY <1>3 DEF LongInv, TypeOK
<1>5. obs \in Observation
  BY <1>2, <1>3, <1>4 DEF Observation, Provider
<1> HIDE DEF obs
<1> QED
  BY <1>1, <1>5, BeginKeeps

\* The calls that take the time only
LEMMA AskKeeps ==
    ASSUME LongInv, NEW s \in Workers, NEW r \in Runs, NEW op \in Operations, Ask(s, r, op)
    PROVE  LongInv'
<1> DEFINE h == handles[r]
           obs == [attempt |-> h.attempt, status |-> "running", cursor |-> h.cursor,
                   started_at |-> h.started_at, at |-> clock]
<1>1. /\ op \in {"checkpoint", "cancel", "retry"} /\ Accepts(op, h, obs) /\ Proceed(s, op, r, h, obs)
      /\ UNCHANGED <<clock, leases, handles, providers, crashes>>
  BY DEF Ask
<1>2. HandleOK(h, r, leases, providers[r]) /\ clock \in Instants /\ h \in Handle
  BY DEF LongInv, TypeOK
<1>3. h.status # "absent"
  BY <1>1 DEF Accepts, RunningAccepted, RetryAllowed
<1>4. h.attempt \in Attempts
  BY <1>2, <1>3 DEF HandleOK
<1>5. obs \in Observation
  BY <1>2, <1>4 DEF Observation, Handle
<1> HIDE DEF obs
<1> QED
  BY <1>1, <1>5, ProceedKeeps

\* A call that reads its handle, and raises or goes on
LEMMA ReadKeeps ==
    ASSUME LongInv, NEW s \in Workers, ReadHandle(s)
    PROVE  LongInv'
<1> DEFINE c == calls[s]
           h == handles[c.run]
           obs == IF c.op = "bind" THEN [c.obs EXCEPT !.at = clock] ELSE c.obs
<1>1. /\ c # Idle /\ UNCHANGED <<clock, leases, handles, providers, crashes>>
      /\ IF Accepts(c.op, h, obs) THEN Proceed(s, c.op, c.run, h, obs)
         ELSE calls' = [calls EXCEPT ![s] = Idle]
  BY DEF ReadHandle
<1>2. /\ c \in Call /\ c.run \in Runs /\ c.obs \in Observation /\ c.op \in Operations
      /\ CallOK(c, h, leases, providers[c.run])
  BY <1>1, CallFacts DEF Call
<1>3. clock \in Instants /\ crashes' \in 0..Crashes
  BY <1>1 DEF LongInv, TypeOK
<1>4. obs \in Observation /\ obs.attempt = c.obs.attempt
  BY <1>2, <1>3 DEF Observation
<1>5. c.op = "bind" => providers[c.run][obs.attempt].status # "unstarted"
  BY <1>2, <1>4 DEF CallOK
<1> HIDE DEF obs
<1>6. CASE Accepts(c.op, h, obs)
  BY <1>1, <1>2, <1>4, <1>5, <1>6, ProceedKeeps
<1>7. CASE ~Accepts(c.op, h, obs)
  BY <1>1, <1>3, <1>7, CallEnds
<1> QED
  BY <1>6, <1>7

\* start_or_locate, and the reference it returns
LEMMA StartKeeps ==
    ASSUME LongInv, NEW s \in Workers, NEW r \in Runs, StartOrLocate(s, r)
    PROVE  LongInv'
<1> DEFINE k == handles[r].attempt
           old == providers[r][k]
           started == IF old.status = "unstarted"
                      THEN [status |-> "running", work |-> 0, started_at |-> clock] ELSE old
           obs == [attempt |-> k, status |-> "running", cursor |-> 0,
                   started_at |-> started.started_at, at |-> clock]
           d == [op |-> "bind", step |-> "read", run |-> r, current |-> NoHandle,
                 obs |-> obs, lease |-> NoLeaseId, lease_version |-> 0]
<1>1. /\ handles[r].status = "admitted" /\ providers' = [providers EXCEPT ![r][k] = started]
      /\ calls' = [calls EXCEPT ![s] = d] /\ UNCHANGED <<clock, leases, handles, crashes>>
  BY DEF StartOrLocate, Begin
<1>2. HandleOK(handles[r], r, leases, providers[r]) /\ clock \in Instants
  BY DEF LongInv, TypeOK
<1>3. k \in Attempts
  BY <1>1, <1>2 DEF HandleOK
<1>4. old \in Provider /\ 0 \in 0..MaxWork /\ NoHandle \in Handle
  BY <1>3, LongRunsAssumption DEF LongInv, TypeOK, NoHandle, Handle, Instants
<1>5. started \in Provider /\ started.status # "unstarted"
  BY <1>2, <1>4 DEF Provider
<1> HIDE DEF started
<1>6. obs \in Observation /\ obs.attempt = k
  BY <1>2, <1>3, <1>4, <1>5 DEF Observation, Provider
<1> HIDE DEF obs
<1>7. /\ d \in Call /\ d.op = "bind" /\ d.step = "read" /\ d.run = r /\ d.obs = obs
  BY <1>4, <1>6 DEF Call, Operations, Steps
<1> HIDE DEF d
<1>8. /\ providers' \in [Runs -> [Attempts -> Provider]] /\ providers'[r][k] = started
      /\ \A x \in Runs, n \in Attempts :
            x # r \/ n # k => providers'[x][n] = providers[x][n]
  BY <1>1, <1>3, <1>5 DEF LongInv, TypeOK
<1>9. TypeOK'
  BY <1>1, <1>7, <1>8 DEF LongInv, TypeOK
<1>10. \A x \in Runs : Started(providers[x], providers'[x])
  BY <1>5, <1>8 DEF Started
<1>11. CallOK(d, handles'[d.run], leases', providers'[d.run])
  BY <1>5, <1>6, <1>7, <1>8 DEF CallOK, WroteOK
<1>12. \A x \in Workers : \/ calls'[x] \in {calls[x], Idle}
                          \/ LET c == calls'[x]
                             IN  CallOK(c, handles'[c.run], leases', providers'[c.run])
  BY <1>1, <1>11 DEF LongInv, TypeOK
<1>13. Grown(leases, leases') /\ Drawn(leases')
  BY <1>1, GrownReflexive DEF LongInv, TypeOK, Drawn
<1> QED
  BY <1>1, <1>9, <1>10, <1>12, <1>13, Frame

\* The lease transactions of a call
LEMMA WriteKeeps ==
    ASSUME LongInv, NEW s \in Workers, WriteLease(s)
    PROVE  LongInv'
<1> DEFINE c == calls[s]
           id == c.current.lease
           operation == LeaseOperation(c.op, c.current, c.obs)
           d(table) == [c EXCEPT !.step = "append", !.lease_version = table[id].version]
<1>1. /\ c # Idle /\ c.step = "lease" /\ c.op # "recover"
      /\ UNCHANGED <<clock, handles, providers, crashes>>
  BY DEF WriteLease
<1>2. /\ c \in Call /\ c.run \in Runs /\ c.obs \in Observation /\ c.obs.at \in Int
      /\ leases \in [LeaseIds -> Lease] /\ Drawn(leases)
      /\ CallOK(c, handles[c.run], leases, providers[c.run])
  BY <1>1, CallFacts, LongRunsAssumption DEF Observation, Instants
<1>3. /\ ReadOK(c, handles[c.run], leases, providers[c.run]) /\ WroteOK(c, leases)
      /\ c.op \in {"observe", "checkpoint", "cancel", "finish"} /\ c.lease = id
      /\ operation \in {"heartbeat", "request_cancel", "release"}
  <2>1. ReadOK(c, handles[c.run], leases, providers[c.run]) /\ WroteOK(c, leases)
    BY <1>1, <1>2 DEF CallOK
  <2>2. operation \notin {"none", "acquire"}
    BY <1>1, <2>1 DEF WroteOK
  <2>3. c.op \in {"observe", "checkpoint", "cancel", "finish"}
    BY <1>1, <1>2, <2>2 DEF LeaseOperation, Call, Operations
  <2> QED
    BY <1>1, <2>1, <2>2, <2>3 DEF LeaseOperation, LeaseOperationOfObserve, WroteOK
<1>4. c.current.status \in BoundStatuses
  BY <1>3 DEF ReadOK, Accepts, ObserveAccepted, FinishAccepted, RunningAccepted, BoundStatuses
<1>5. id \in LeaseIds /\ leases[id].run = c.run
  BY <1>3, <1>4 DEF ReadOK, HandleOK, FollowsLease
<1>6. crashes' \in 0..Crashes
  BY <1>1 DEF LongInv, TypeOK
\* With the table of the transaction
<1>7. ASSUME NEW table \in [LeaseIds -> Lease], Grown(leases, table), Drawn(table),
             leases' = table, calls' = [calls EXCEPT ![s] = d(table)],
             operation = "request_cancel" => table[id].status # "active",
             operation = "release" => table[id].status = "released"
      PROVE  LongInv'
  <2> DEFINE new == [c EXCEPT !.step = "append", !.lease_version = table[id].version]
  <2>1. table[id].version \in Nat
    BY <1>5 DEF Lease
  <2>2. /\ new \in Call /\ new.op = c.op /\ new.run = c.run /\ new.current = c.current
        /\ new.obs = c.obs /\ new.lease = c.lease /\ new.step = "append"
        /\ new.lease_version = table[id].version
    BY <1>2, <2>1 DEF Call, Steps
  <2>3. calls' = [calls EXCEPT ![s] = new]
    BY <1>7
  <2> HIDE DEF new, d
  <2>4. CallOK(c, handles[c.run], table, providers[c.run])
    <3>1. handles[c.run] \in Handle /\ Started(providers[c.run], providers[c.run])
      BY <1>1, CallFacts DEF Started
    <3> QED
      BY <1>2, <1>7, <3>1, CallKeeps
  <2>5. ReadOK(new, handles[new.run], table, providers[new.run])
    BY <1>1, <2>2, <2>4 DEF CallOK, ReadOK
  <2>6. WroteOK(new, table)
    BY <1>3, <1>7, <2>1, <2>2 DEF WroteOK
  <2>7. CallOK(new, handles[new.run], table, providers[new.run])
    BY <1>3, <2>2, <2>5, <2>6 DEF CallOK
  <2> QED
    BY <1>1, <1>6, <1>7, <2>2, <2>3, <2>7, CallMoves
<1>8. CASE UNCHANGED leases /\ calls' = [calls EXCEPT ![s] = Idle]
  BY <1>1, <1>6, <1>8, CallEnds
<1>9. CASE /\ operation = "heartbeat" /\ leases[id].status = "active"
           /\ leases' = Heartbeat(leases, id, c.obs.at, LeaseSeconds)
           /\ calls' = [calls EXCEPT ![s] = d(Heartbeat(leases, id, c.obs.at, LeaseSeconds))]
  <2> DEFINE table == Heartbeat(leases, id, c.obs.at, LeaseSeconds)
  <2>1. table \in [LeaseIds -> Lease] /\ Grown(leases, table) /\ Drawn(table)
    BY <1>2, <1>5, <1>9, StoreWrites
  <2> QED
    BY <1>7, <1>9, <2>1
<1>10. CASE /\ operation = "request_cancel" /\ leases[id].status = "active"
            /\ leases' = RequestCancel(leases, id, c.obs.at)
            /\ calls' = [calls EXCEPT ![s] = d(RequestCancel(leases, id, c.obs.at))]
  <2> DEFINE table == RequestCancel(leases, id, c.obs.at)
  <2>1. /\ table \in [LeaseIds -> Lease] /\ Grown(leases, table) /\ Drawn(table)
        /\ table[id].status = "cancel_requested"
    BY <1>2, <1>5, <1>10, StoreWrites
  <2> QED
    BY <1>7, <1>10, <2>1
<1>11. CASE /\ operation = "release" /\ leases[id].status \in LiveStatuses
            /\ leases' = Release(leases, id, c.obs.at)
            /\ calls' = [calls EXCEPT ![s] = d(Release(leases, id, c.obs.at))]
  <2> DEFINE table == Release(leases, id, c.obs.at)
  <2>1. /\ table \in [LeaseIds -> Lease] /\ Grown(leases, table) /\ Drawn(table)
        /\ table[id].status = "released"
    BY <1>2, <1>5, <1>11, StoreWrites
  <2> QED
    BY <1>7, <1>11, <2>1
<1> QED
  BY <1>8, <1>9, <1>10, <1>11
  DEF WriteLease, CanHeartbeat, CanRequestCancel, CanRelease, HasLiveStatus

\* recover sweeps; the lease it found stays respected, or is expired now.
LEMMA SweepKeeps ==
    ASSUME LongInv, NEW s \in Workers, SweepForRecover(s)
    PROVE  LongInv'
<1> DEFINE c == calls[s]
           id == c.current.lease
           table == RecoverOrphans(leases, c.obs.at)
           resumable == /\ table[id].status = "expired" /\ Mergeable(c.current, c.obs)
                        /\ Hard(c.current, c.obs) = {}
           d == [c EXCEPT !.step = "acquire"]
<1>1. /\ c # Idle /\ c.step = "lease" /\ c.op = "recover"
      /\ UNCHANGED <<clock, handles, providers, crashes>>
      /\ \/ leases' = table /\ calls' = [calls EXCEPT ![s] = IF resumable THEN d ELSE Idle]
         \/ UNCHANGED leases /\ calls' = [calls EXCEPT ![s] = Idle]
  BY DEF SweepForRecover
<1>2. /\ c \in Call /\ c.run \in Runs /\ c.obs.at \in Int /\ crashes' \in 0..Crashes
      /\ leases \in [LeaseIds -> Lease] /\ Drawn(leases) /\ handles[c.run] \in Handle
      /\ CallOK(c, handles[c.run], leases, providers[c.run])
  BY <1>1, CallFacts, LongRunsAssumption DEF Observation, Instants, LongInv, TypeOK
<1>3. table \in [LeaseIds -> Lease] /\ Grown(leases, table) /\ Drawn(table)
  BY <1>2, SweepWrites
<1> HIDE DEF table
<1>4. CallOK(c, handles[c.run], table, providers[c.run])
  <2>1. Started(providers[c.run], providers[c.run])
    BY DEF Started
  <2> QED
    BY <1>2, <1>3, <2>1, CallKeeps
<1>5. /\ d \in Call /\ d.op = "recover" /\ d.step = "acquire" /\ d.run = c.run
      /\ d.current = c.current /\ d.obs = c.obs
  BY <1>1, <1>2 DEF Call, Steps
<1> HIDE DEF d
<1>6. resumable => CallOK(d, handles[d.run], table, providers[d.run])
  BY <1>1, <1>4, <1>5 DEF CallOK, ReadOK, WroteOK
<1>7. CASE leases' = table /\ resumable /\ calls' = [calls EXCEPT ![s] = d]
  BY <1>1, <1>2, <1>3, <1>5, <1>6, <1>7, CallMoves
<1>8. CASE leases' = table /\ calls' = [calls EXCEPT ![s] = Idle]
  BY <1>1, <1>2, <1>3, <1>8, CallMoves
<1>9. CASE UNCHANGED leases /\ calls' = [calls EXCEPT ![s] = Idle]
  BY <1>1, <1>2, <1>9, CallEnds
<1> QED
  BY <1>1, <1>7, <1>8, <1>9

\* A call that acquires a lease of its own
LEMMA AcquireKeeps ==
    ASSUME LongInv, NEW s \in Workers, AcquireForCall(s)
    PROVE  LongInv'
<1> DEFINE c == calls[s]
<1>1. /\ c # Idle /\ c.step = "acquire" /\ UNCHANGED <<clock, handles, providers, crashes>>
  BY DEF AcquireForCall
<1>2. /\ c \in Call /\ c.run \in Runs /\ c.obs.at \in Int /\ crashes' \in 0..Crashes
      /\ leases \in [LeaseIds -> Lease] /\ Drawn(leases) /\ handles[c.run] \in Handle
      /\ CallOK(c, handles[c.run], leases, providers[c.run])
  BY <1>1, CallFacts, LongRunsAssumption DEF Observation, Instants, LongInv, TypeOK
<1>3. c.op \in {"bind", "recover"}
  BY <1>1, <1>2 DEF CallOK, WroteOK
<1>4. ASSUME NEW id \in Drawable(leases),
             leases' = Acquire(leases, id, s, c.run, c.obs.at, LeaseSeconds),
             calls' = [calls EXCEPT ![s] = [c EXCEPT !.step = "append", !.lease = id,
                                                     !.lease_version = 1]]
      PROVE  LongInv'
  <2> DEFINE table == Acquire(leases, id, s, c.run, c.obs.at, LeaseSeconds)
             d == [c EXCEPT !.step = "append", !.lease = id, !.lease_version = 1]
  <2>1. /\ table \in [LeaseIds -> Lease] /\ Grown(leases, table) /\ Drawn(table)
        /\ table[id].run = c.run /\ table[id].version = 1 /\ id \in LeaseIds
    BY <1>2, AcquireWrites DEF Drawable
  <2>2. leases' = table /\ calls' = [calls EXCEPT ![s] = d]
    BY <1>4
  <2> HIDE DEF table
  <2>3. CallOK(c, handles[c.run], table, providers[c.run])
    <3>1. Started(providers[c.run], providers[c.run])
      BY DEF Started
    <3> QED
      BY <1>2, <2>1, <3>1, CallKeeps
  <2>4. /\ d \in Call /\ d.op = c.op /\ d.step = "append" /\ d.run = c.run /\ d.lease = id
        /\ d.current = c.current /\ d.obs = c.obs /\ d.lease_version = 1
    BY <1>2, <2>1 DEF Call, Steps
  <2> HIDE DEF d
  <2>5. CallOK(d, handles[d.run], table, providers[d.run])
    BY <1>1, <1>3, <2>1, <2>3, <2>4 DEF CallOK, ReadOK, WroteOK
  <2> QED
    BY <1>1, <1>2, <2>1, <2>2, <2>4, <2>5, CallMoves
<1>5. CASE UNCHANGED leases /\ calls' = [calls EXCEPT ![s] = Idle]
  BY <1>1, <1>2, <1>5, CallEnds
<1> QED
  BY <1>4, <1>5 DEF AcquireForCall

\* What an append that is accepted does: the handle it appends to is the one
\* the call has read.
LEMMA AppendFacts ==
    ASSUME LongInv, NEW s \in Workers, calls[s] # Idle, calls[s].step = "append",
           Appendable(handles[calls[s].run], calls[s].current)
    PROVE  LET c == calls[s]
           IN  NewHandleOK(handles[c.run], Updated(c), c.run, leases, providers[c.run])
<1> DEFINE c == calls[s]
<1>1. /\ c \in Call /\ c.run \in Runs /\ handles[c.run] \in Handle
      /\ leases \in [LeaseIds -> Lease]
      /\ CallOK(c, handles[c.run], leases, providers[c.run])
  BY CallFacts
<1>2. c.current = handles[c.run]
  BY <1>1 DEF CallOK, ReadOK, Appendable
<1> QED
  BY <1>1, <1>2, CallAppends

\* The append, or what follows when it is refused
LEMMA AppendKeeps ==
    ASSUME LongInv, NEW s \in Workers, AppendEvent(s)
    PROVE  LongInv'
<1> DEFINE c == calls[s]
           h == handles[c.run]
           d == [c EXCEPT !.step = "compensate"]
<1>1. c # Idle /\ c.step = "append" /\ UNCHANGED <<clock, leases, providers, crashes>>
  BY DEF AppendEvent
<1>2. /\ c \in Call /\ c.run \in Runs /\ h \in Handle /\ crashes' \in 0..Crashes
      /\ leases \in [LeaseIds -> Lease] /\ Drawn(leases) /\ Grown(leases, leases)
      /\ CallOK(c, h, leases, providers[c.run])
  BY <1>1, CallFacts, GrownReflexive DEF LongInv, TypeOK
<1>3. CASE /\ Appendable(h, c.current) /\ handles' = [handles EXCEPT ![c.run] = Updated(c)]
           /\ calls' = [calls EXCEPT ![s] = Idle]
  <2> DEFINE new == Updated(c)
  <2>1. NewHandleOK(h, new, c.run, leases, providers[c.run])
    BY <1>1, <1>3, AppendFacts
  <2> HIDE DEF new
  <2>2. new \in Handle /\ new.version > h.version /\ HandleOK(new, c.run, leases, providers[c.run])
    BY <1>2, <2>1 DEF NewHandleOK, Handle
  <2>3. /\ handles' \in [Runs -> Handle] /\ handles'[c.run] = new
        /\ \A r \in Runs \ {c.run} : handles'[r] = handles[r]
    BY <1>2, <1>3, <2>2 DEF LongInv, TypeOK, new
  <2>4. TypeOK'
    BY <1>1, <1>3, <2>3 DEF LongInv, TypeOK
  <2>5. \A r \in Runs : \/ handles'[r] = handles[r]
                        \/ /\ handles'[r].version > handles[r].version
                           /\ HandleOK(handles'[r], r, leases', providers'[r])
    BY <1>1, <2>2, <2>3
  <2>6. \A x \in Workers : calls'[x] \in {calls[x], Idle}
    BY <1>3 DEF LongInv, TypeOK
  <2>7. \A r \in Runs : Started(providers[r], providers'[r])
    BY <1>1 DEF Started
  <2> QED
    BY <1>1, <1>2, <2>4, <2>5, <2>6, <2>7, Frame
<1>4. CASE UNCHANGED handles /\ calls' = [calls EXCEPT ![s] = Idle]
  BY <1>1, <1>2, <1>4, CallEnds
<1>5. CASE c.op = "bind" /\ UNCHANGED handles /\ calls' = [calls EXCEPT ![s] = d]
  <2>1. /\ d \in Call /\ d.op = "bind" /\ d.step = "compensate" /\ d.run = c.run /\ d.lease = c.lease
        /\ d.current = c.current /\ d.obs = c.obs /\ d.lease_version = c.lease_version
    BY <1>2, <1>5 DEF Call, Steps
  <2>2. calls' = [calls EXCEPT ![s] = d]
    BY <1>5
  <2> HIDE DEF d
  <2>3. CallOK(d, handles[d.run], leases, providers[d.run])
    BY <1>1, <1>2, <1>5, <2>1 DEF CallOK, ReadOK, WroteOK
  <2> QED
    BY <1>1, <1>2, <1>5, <2>1, <2>2, <2>3, CallMoves
<1> QED
  BY <1>3, <1>4, <1>5 DEF AppendEvent

\* bind_provider gives its lease back.
LEMMA CompensateKeeps ==
    ASSUME LongInv, NEW s \in Workers, CompensateBind(s)
    PROVE  LongInv'
<1> DEFINE c == calls[s]
<1>1. /\ c # Idle /\ c.step = "compensate" /\ calls' = [calls EXCEPT ![s] = Idle]
      /\ UNCHANGED <<clock, handles, providers, crashes>>
      /\ \/ leases' = leases
         \/ leases' = Release(leases, c.lease, c.obs.at) /\ leases[c.lease].status \in LiveStatuses
  BY DEF CompensateBind, CanRelease, HasLiveStatus
<1>2. /\ c \in Call /\ c.obs.at \in Int /\ crashes' \in 0..Crashes
      /\ leases \in [LeaseIds -> Lease] /\ Drawn(leases)
      /\ CallOK(c, handles[c.run], leases, providers[c.run])
  BY <1>1, CallFacts, LongRunsAssumption DEF Observation, Instants, LongInv, TypeOK
<1>3. c.lease \in LeaseIds
  BY <1>1, <1>2 DEF CallOK, WroteOK
<1>4. CASE leases' = leases
  BY <1>1, <1>2, <1>4, CallEnds
<1>5. CASE leases' = Release(leases, c.lease, c.obs.at) /\ leases[c.lease].status \in LiveStatuses
  <2> DEFINE table == Release(leases, c.lease, c.obs.at)
  <2>1. table \in [LeaseIds -> Lease] /\ Grown(leases, table) /\ Drawn(table)
    BY <1>2, <1>3, <1>5, StoreWrites
  <2> HIDE DEF table
  <2>2. leases' = table
    BY <1>5 DEF table
  <2> QED
    BY <1>1, <1>2, <2>1, <2>2, CallMoves
<1> QED
  BY <1>1, <1>4, <1>5

\* admit
LEMMA AdmitKeeps ==
    ASSUME LongInv, NEW r \in Runs, Admit(r)
    PROVE  LongInv'
<1> DEFINE new == [NoHandle EXCEPT !.status = "admitted", !.version = 1, !.attempt = 1,
                                   !.created_at = clock, !.updated_at = clock]
<1>1. /\ handles[r].status = "absent" /\ handles' = [handles EXCEPT ![r] = new]
      /\ UNCHANGED <<clock, leases, providers, calls, crashes>>
  BY DEF Admit
<1>2. /\ clock \in Instants /\ handles[r].version = 0 /\ leases \in [LeaseIds -> Lease]
      /\ Drawn(leases) /\ Grown(leases, leases)
  BY <1>1, GrownReflexive DEF LongInv, TypeOK, HandleOK, Drawn
<1>3. 0 \in 0..MaxWork /\ 0 \in Instants /\ 1 \in 0..MaxAttempts /\ 1 \in Attempts
  <2>1. MaxAttempts \in Nat \ {0} /\ MaxWork \in Nat /\ MaxTime \in Nat
    BY LongRunsAssumption
  <2> QED
    BY <2>1 DEF Attempts, Instants
<1>4. /\ new \in Handle /\ new.status = "admitted" /\ new.version = 1 /\ new.attempt = 1
      /\ new.cursor = 0 /\ new.hard = {}
  BY <1>2, <1>3 DEF NoHandle, Handle
<1> HIDE DEF new
<1>5. HandleOK(new, r, leases, providers[r])
  BY <1>3, <1>4 DEF HandleOK, RemembersLimits, CompletedFits, FollowsLease,
                    BoundStatuses, TerminalStatuses
<1>6. handles'[r] = new /\ \A x \in Runs \ {r} : handles'[x] = handles[x]
  BY <1>1 DEF LongInv, TypeOK
<1>7. TypeOK'
  BY <1>1, <1>4 DEF LongInv, TypeOK
<1>8. \A x \in Runs : \/ handles'[x] = handles[x]
                      \/ /\ handles'[x].version > handles[x].version
                         /\ HandleOK(handles'[x], x, leases', providers'[x])
  BY <1>1, <1>2, <1>4, <1>5, <1>6
<1>9. \A x \in Runs : Started(providers[x], providers'[x])
  BY <1>1 DEF Started
<1>10. \A x \in Workers : calls'[x] \in {calls[x], Idle}
  BY <1>1
<1> QED
  BY <1>1, <1>2, <1>7, <1>8, <1>9, <1>10, Frame

\* A step of one provider run that has started
LEMMA ProviderKeeps ==
    ASSUME LongInv, NEW r \in Runs, NEW k \in Attempts, NEW new \in Provider,
           new.status # "unstarted", providers' = [providers EXCEPT ![r][k] = new],
           UNCHANGED <<clock, leases, handles, calls, crashes>>
    PROVE  LongInv'
<1>1. /\ leases \in [LeaseIds -> Lease] /\ Drawn(leases) /\ Grown(leases, leases)
  BY GrownReflexive DEF LongInv, TypeOK, Drawn
<1>2. /\ providers' \in [Runs -> [Attempts -> Provider]] /\ providers'[r][k] = new
      /\ \A x \in Runs, n \in Attempts : x # r \/ n # k => providers'[x][n] = providers[x][n]
  BY DEF LongInv, TypeOK
<1>3. TypeOK'
  BY <1>2 DEF LongInv, TypeOK
<1>4. \A x \in Runs : Started(providers[x], providers'[x])
  BY <1>2 DEF Started
<1> QED
  BY <1>1, <1>3, <1>4, Frame

\* The provider
LEMMA ProviderStepKeeps ==
    ASSUME LongInv, NEW r \in Runs, NEW k \in Attempts,
           ProviderWorks(r, k) \/ \E status \in EndedStatuses : ProviderEnds(r, k, status)
    PROVE  LongInv'
<1> DEFINE p == providers[r][k]
<1>1. p \in Provider /\ p.work \in 0..MaxWork /\ MaxWork \in Nat /\ providers \in [Runs -> [Attempts -> Provider]]
  BY LongRunsAssumption DEF LongInv, TypeOK, Provider
<1>2. CASE ProviderWorks(r, k)
  <2> DEFINE new == [p EXCEPT !.work = p.work + 1]
  <2>1. /\ p.status = "running" /\ p.work < MaxWork
        /\ UNCHANGED <<clock, leases, handles, calls, crashes>>
        /\ providers' = [providers EXCEPT ![r][k].work = @ + 1]
    BY <1>2 DEF ProviderWorks
  <2>2. p.work + 1 \in 0..MaxWork
    BY <1>1, <2>1
  <2>3. new \in Provider /\ new.status # "unstarted"
    BY <1>1, <2>1, <2>2 DEF Provider
  <2>4. providers' = [providers EXCEPT ![r][k] = new]
    BY <1>1, <2>1
  <2> HIDE DEF new
  <2> QED
    BY <2>1, <2>3, <2>4, ProviderKeeps
<1>3. ASSUME NEW status \in EndedStatuses, ProviderEnds(r, k, status) PROVE LongInv'
  <2> DEFINE new == [p EXCEPT !.status = status]
  <2>1. /\ UNCHANGED <<clock, leases, handles, calls, crashes>>
        /\ providers' = [providers EXCEPT ![r][k].status = status]
    BY <1>3 DEF ProviderEnds
  <2>2. new \in Provider /\ new.status # "unstarted"
    BY <1>1 DEF Provider, EndedStatuses
  <2>3. providers' = [providers EXCEPT ![r][k] = new]
    BY <1>1, <2>1
  <2> HIDE DEF new
  <2> QED
    BY <2>1, <2>2, <2>3, ProviderKeeps
<1> QED
  BY <1>2, <1>3

\* The clock, and a step that changes nothing
LEMMA TickKeeps ==
    ASSUME LongInv, Tick \/ UNCHANGED vars
    PROVE  LongInv'
<1>1. UNCHANGED <<leases, handles, providers, calls, crashes>> /\ clock' \in Instants
  BY LongRunsAssumption DEF Tick, vars, Instants, LongInv, TypeOK
<1>2. leases \in [LeaseIds -> Lease] /\ Drawn(leases) /\ Grown(leases, leases)
  BY GrownReflexive DEF LongInv, TypeOK, Drawn
<1>3. TypeOK'
  BY <1>1 DEF LongInv, TypeOK
<1>4. \A x \in Runs : handles'[x] = handles[x] /\ Started(providers[x], providers'[x])
  BY <1>1 DEF Started
<1>5. \A x \in Workers : calls'[x] \in {calls[x], Idle}
  BY <1>1
<1> QED
  BY <1>1, <1>2, <1>3, <1>4, <1>5, Frame

\* Every step
LEMMA NextLong ==
    ASSUME LongInv, [Next]_vars
    PROVE  LongInv'
<1>1. ASSUME NEW s \in Workers, CallStep(s) PROVE LongInv'
  BY <1>1, ReadKeeps, WriteKeeps, SweepKeeps, AcquireKeeps, AppendKeeps, CompensateKeeps
  DEF CallStep
<1>2. ASSUME NEW s \in Workers, Crash(s) PROVE LongInv'
  <2>1. crashes' \in 0..Crashes
    BY <1>2, LongRunsAssumption DEF Crash, LongInv, TypeOK
  <2> QED
    BY <1>2, <2>1, CallEnds DEF Crash
<1> QED
  BY <1>1, <1>2, TickKeeps, AdmitKeeps, ProviderStepKeeps, StartKeeps, PollKeeps, AskKeeps
  DEF Next

-----------------------------------------------------------------------------
(* What follows *)

\* Every reachable state satisfies the invariant: handles agree with their
\* leases whatever calls are on their way, and calls with what they read.
THEOREM LongInvHolds == Spec => []LongInv
<1>1. Init => LongInv
  BY InitLong
<1>2. LongInv /\ [Next]_vars => LongInv'
  BY NextLong
<1> QED
  BY <1>1, <1>2, PTL DEF Spec

\* The stores and the calls keep their types: versions, attempts, cursors,
\* limits and lease ids stay in their ranges.
THEOREM LongTypeCorrect == Spec => []TypeOK
<1>1. LongInv => TypeOK
  BY DEF LongInv
<1> QED
  BY <1>1, LongInvHolds, PTL

\* A handle says cancel_requested only after its lease stopped being active,
\* and terminal only after its lease was released; the lease it names is its
\* run's, at a version the lease had (_heartbeat, _request_lease_cancel and
\* _release_lease before _append).
THEOREM HandlesFollowLeases == Spec => []HandleFollowsLease
<1>1. LongInv => HandleFollowsLease
  <2> SUFFICES ASSUME LongInv, NEW r \in Runs PROVE FollowsLease(handles[r], r, leases)
    BY DEF HandleFollowsLease, FollowsLease, BoundLease
  <2> QED
    BY DEF LongInv, HandleOK
<1> QED
  BY <1>1, LongInvHolds, PTL

\* Work is recorded completed only inside every hard limit, also those that
\* add up over the attempts (_limits, _terminal_status).
THEOREM CompletedInsideLimits == Spec => []CompletedWithinLimits
<1>1. LongInv => CompletedWithinLimits
  <2> SUFFICES ASSUME LongInv, NEW r \in Runs, handles[r].status = "completed"
               PROVE  /\ handles[r].used <= UsageMax
                      /\ handles[r].updated_at - handles[r].created_at <= TaskMax
                      /\ handles[r].updated_at - handles[r].started_at <= AttemptMax
                      /\ handles[r].hard \subseteq {"attempt_elapsed"}
    BY DEF CompletedWithinLimits
  <2> DEFINE h == handles[r]
  <2>1. CompletedFits(h) /\ RemembersLimits(h) /\ h \in Handle
    BY DEF LongInv, HandleOK, TypeOK
  <2>2. /\ h.used <= UsageMax /\ h.updated_at - h.created_at <= TaskMax
        /\ h.updated_at - h.started_at <= AttemptMax
    BY <2>1 DEF CompletedFits
  <2>3. /\ h.used \in Int /\ h.updated_at - h.created_at \in Int /\ TaskMax \in Int
        /\ UsageMax \in Int /\ h.hard \subseteq Dimensions
    BY <2>1, LongRunsAssumption DEF Handle, Instants
  <2>4. "task_elapsed" \notin h.hard /\ "usage" \notin h.hard
    BY <2>1, <2>2, <2>3 DEF RemembersLimits
  <2> QED
    BY <2>2, <2>3, <2>4 DEF Dimensions
<1> QED
  BY <1>1, LongInvHolds, PTL

\* A step leaves a handle alone, admits it, or appends to it what its call
\* computed from it.
LEMMA HandleSteps ==
    ASSUME LongInv, [Next]_vars, NEW r \in Runs
    PROVE  \/ handles'[r] = handles[r]
           \/ handles[r].status = "absent"
           \/ NewHandleOK(handles[r], handles'[r], r, leases, providers[r])
<1>1. CASE UNCHANGED handles
  BY <1>1
<1>2. ASSUME NEW x \in Runs, Admit(x)
      PROVE  handles'[r] = handles[r] \/ handles[r].status = "absent"
  BY <1>2 DEF Admit, LongInv, TypeOK
<1>3. ASSUME NEW s \in Workers, AppendEvent(s), handles'[r] # handles[r]
      PROVE  NewHandleOK(handles[r], handles'[r], r, leases, providers[r])
  <2> DEFINE c == calls[s]
             new == Updated(c)
  <2>1. /\ c # Idle /\ c.step = "append" /\ Appendable(handles[c.run], c.current)
        /\ handles' = [handles EXCEPT ![c.run] = new]
    BY <1>3 DEF AppendEvent
  <2>2. c.run \in Runs /\ NewHandleOK(handles[c.run], new, c.run, leases, providers[c.run])
    BY <2>1, CallFacts, AppendFacts
  <2> HIDE DEF new
  <2>3. c.run = r /\ handles'[r] = new
    BY <1>3, <2>1, <2>2 DEF LongInv, TypeOK
  <2> QED
    BY <2>2, <2>3
<1>4. ASSUME NEW s \in Workers,
             \/ ReadHandle(s) \/ WriteLease(s) \/ SweepForRecover(s) \/ AcquireForCall(s)
             \/ CompensateBind(s) \/ Crash(s)
      PROVE  UNCHANGED handles
  BY <1>4 DEF ReadHandle, WriteLease, SweepForRecover, AcquireForCall, CompensateBind, Crash
<1>5. ASSUME NEW s \in Workers, NEW x \in Runs, NEW op \in Operations,
             StartOrLocate(s, x) \/ Poll(s, x, op) \/ Ask(s, x, op)
      PROVE  UNCHANGED handles
  BY <1>5 DEF StartOrLocate, Poll, Ask
<1>6. ASSUME NEW x \in Runs, NEW k \in Attempts, NEW status \in EndedStatuses,
             ProviderWorks(x, k) \/ ProviderEnds(x, k, status)
      PROVE  UNCHANGED handles
  BY <1>6 DEF ProviderWorks, ProviderEnds
<1>7. Tick \/ UNCHANGED vars => UNCHANGED handles
  BY DEF Tick, vars
<1>8. Operations # {} /\ EndedStatuses # {}
  BY DEF Operations, EndedStatuses
<1> QED
  BY <1>1, <1>2, <1>3, <1>4, <1>5, <1>6, <1>7, <1>8 DEF Next, CallStep

\* A running handle moves to another lease only when the one it had is
\* expired (recover).
THEOREM TakeoverAfterExpiry == Spec => TakeoverOnlyAfterExpiry
<1>1. ASSUME LongInv, [Next]_vars, NEW r \in Runs,
             handles[r].status \in BoundStatuses, handles'[r].lease # handles[r].lease
      PROVE  leases[handles[r].lease].status = "expired"
  BY <1>1, HandleSteps DEF NewHandleOK, BoundStatuses
<1>2. LongInv /\ [Next]_vars =>
         [\A r \in Runs :
             (/\ handles[r].status \in BoundStatuses
              /\ handles'[r].lease # handles[r].lease) =>
                 leases[handles[r].lease].status = "expired"]_vars
  BY <1>1
<1> QED
  BY <1>2, LongInvHolds, PTL DEF Spec, TakeoverOnlyAfterExpiry

\* Within an attempt nothing recorded moves backwards and no cancellation is
\* taken back, however late an observation arrives (_merge_usage, _append).
THEOREM ProgressMonotone == Spec => ProgressIsMonotone
<1>1. ASSUME LongInv, [Next]_vars, NEW r \in Runs,
             handles'[r].attempt = handles[r].attempt, handles[r].status # "absent"
      PROVE  /\ handles'[r].cursor >= handles[r].cursor
             /\ handles'[r].updated_at >= handles[r].updated_at
             /\ handles[r].hard \subseteq handles'[r].hard
             /\ handles[r].status = "cancel_requested" => handles'[r].status # "running"
  <2>1. handles[r].cursor \in Int /\ handles[r].updated_at \in Int
    BY <1>1, LongRunsAssumption DEF LongInv, TypeOK, Handle, Instants
  <2> QED
    BY <1>1, <2>1, HandleSteps DEF NewHandleOK
<1>2. LongInv /\ [Next]_vars =>
         [\A r \in Runs :
             handles'[r].attempt = handles[r].attempt /\ handles[r].status # "absent" =>
                /\ handles'[r].cursor >= handles[r].cursor
                /\ handles'[r].updated_at >= handles[r].updated_at
                /\ handles[r].hard \subseteq handles'[r].hard
                /\ handles[r].status = "cancel_requested" => handles'[r].status # "running"]_vars
  BY <1>1
<1> QED
  BY <1>2, LongInvHolds, PTL DEF Spec, ProgressIsMonotone

-----------------------------------------------------------------------------
(* Sums over attempts.  Spent is recursive, and what it computes is derived *)
(* from the least attempt at which another sum would differ.                *)

\* Every set of numbers has a least one.
LEMMA LeastOf ==
    ASSUME NEW T, T \subseteq Nat, T # {}
    PROVE  \E x \in T : \A y \in T : x <= y
<1> DEFINE less == OpToRel(<, Nat)
<1>1. \A x, y \in Nat : <<x, y>> \in less <=> x < y
  BY DEF OpToRel
<1>2. PICK x \in T : \A y \in T : <<y, x>> \notin less
  <2>1. IsWellFoundedOn(less, Nat)
    BY NatLessThanWellFounded
  <2> HIDE DEF less
  <2> QED
    BY <2>1, WFMin
<1> HIDE DEF less
<1>3. ASSUME NEW y \in T PROVE x <= y
  <2>1. x \in Nat /\ y \in Nat /\ ~(y < x)
    BY <1>1, <1>2
  <2> QED
    BY <2>1
<1> QED
  BY <1>3

\* f adds up what the attempts up to m have spent.
Adds(f, p, m) ==
    /\ f \in [0..m -> Nat] /\ f[0] = 0
    /\ \A n \in 1..m : f[n] = f[n - 1] + p[n].work

\* There are such sums.
LEMMA SumsExist ==
    ASSUME NEW p \in [Attempts -> Provider]
    PROVE  \A m \in 0..MaxAttempts : \E f \in [0..m -> Nat] : Adds(f, p, m)
<1> DEFINE T == {m \in 0..MaxAttempts : ~ \E f \in [0..m -> Nat] : Adds(f, p, m)}
<1>0. MaxAttempts \in Nat /\ MaxWork \in Nat
  BY LongRunsAssumption
<1> SUFFICES ASSUME T # {} PROVE FALSE
  OBVIOUS
<1>1. T \subseteq Nat
  BY <1>0
<1>2. PICK m \in T : \A y \in T : m <= y
  <2> HIDE DEF T
  <2> QED
    BY <1>1, LeastOf
<1>3. m \in 0..MaxAttempts /\ ~ \E f \in [0..m -> Nat] : Adds(f, p, m)
  OBVIOUS
<1>4. CASE m = 0
  <2>1. [n \in 0..0 |-> 0] \in [0..0 -> Nat] /\ Adds([n \in 0..0 |-> 0], p, 0)
    BY DEF Adds
  <2> QED
    BY <1>3, <1>4, <2>1
<1>5. CASE m # 0
  <2>1. m - 1 \in 0..MaxAttempts /\ m \in 1..MaxAttempts /\ m \in Nat /\ m - 1 \in Nat
    BY <1>0, <1>3, <1>5
  <2>2. m - 1 \notin T
    <3>1. ~ (m <= m - 1)
      BY <2>1
    <3> QED
      BY <1>2, <3>1
  <2>3. PICK f \in [0..(m-1) -> Nat] : Adds(f, p, m - 1)
    BY <2>1, <2>2
  <2>4. p[m].work \in Nat
    BY <1>0, <2>1 DEF Provider, Attempts
  <2> DEFINE g == [n \in 0..m |-> IF n = m THEN f[m - 1] + p[m].work ELSE f[n]]
  <2>5. g \in [0..m -> Nat]
    <3>1. ASSUME NEW n \in 0..m PROVE (IF n = m THEN f[m - 1] + p[m].work ELSE f[n]) \in Nat
      BY <2>1, <2>4
    <3> QED
      BY <3>1
  <2>6. g[0] = 0
    BY <1>5, <2>1, <2>3 DEF Adds
  <2>7. ASSUME NEW n \in 1..m PROVE g[n] = g[n - 1] + p[n].work
    <3>1. n \in 0..m /\ n - 1 \in 0..m /\ n - 1 # m
      BY <2>1
    <3>2. CASE n = m
      BY <3>1, <3>2
    <3>3. CASE n # m
      <4>1. n \in 1..(m-1)
        BY <2>1, <3>3
      <4> QED
        BY <2>3, <3>1, <3>3, <4>1 DEF Adds
    <3> QED
      BY <3>2, <3>3
  <2> HIDE DEF g
  <2>8. Adds(g, p, m)
    BY <2>5, <2>6, <2>7 DEF Adds
  <2> QED
    BY <1>3, <2>5, <2>8
<1> QED
  BY <1>4, <1>5

\* Spent adds up, attempt after attempt.
LEMMA SpentAdds ==
    ASSUME NEW p \in [Attempts -> Provider]
    PROVE  Adds(Spent(p), p, MaxAttempts)
<1> DEFINE step(f) == [n \in 0..MaxAttempts |-> IF n = 0 THEN 0 ELSE f[n - 1] + p[n].work]
<1>0. MaxAttempts \in Nat
  BY LongRunsAssumption
<1>1. PICK f \in [0..MaxAttempts -> Nat] : Adds(f, p, MaxAttempts)
  BY <1>0, SumsExist
<1>2. f = step(f)
  <2>1. ASSUME NEW n \in 0..MaxAttempts
        PROVE  f[n] = IF n = 0 THEN 0 ELSE f[n - 1] + p[n].work
    BY <1>0, <1>1 DEF Adds
  <2> QED
    BY <2>1
<1>3. Spent(p) = CHOOSE g : g = step(g)
  BY DEF Spent
<1>4. Spent(p) = step(Spent(p))
  BY <1>2, <1>3
<1> HIDE DEF step
<1>5. \A n \in 0..MaxAttempts :
         LET g == Spent(p) IN g[n] = IF n = 0 THEN 0 ELSE g[n - 1] + p[n].work
  BY <1>4 DEF step
<1> DEFINE g == Spent(p)
<1> HIDE DEF g
<1>6. DOMAIN g = 0..MaxAttempts /\ g = [n \in 0..MaxAttempts |-> g[n]]
  BY <1>4 DEF step, g
<1>7. \A n \in 0..MaxAttempts : g[n] = f[n]
  <2> DEFINE T == {n \in 0..MaxAttempts : g[n] # f[n]}
  <2> SUFFICES ASSUME T # {} PROVE FALSE
    OBVIOUS
  <2>1. T \subseteq Nat
    BY <1>0
  <2>2. PICK n \in T : \A y \in T : n <= y
    <3> HIDE DEF T
    <3> QED
      BY <2>1, LeastOf
  <2>3. n \in 0..MaxAttempts /\ g[n] # f[n]
    OBVIOUS
  <2>4. n # 0
    BY <1>1, <1>5, <2>3 DEF Adds, g
  <2>5. n - 1 \in 0..MaxAttempts /\ n \in 1..MaxAttempts /\ ~ (n <= n - 1)
    BY <1>0, <2>3, <2>4
  <2>6. g[n - 1] = f[n - 1]
    BY <2>2, <2>5
  <2>7. f[n] = f[n - 1] + p[n].work
    BY <1>1, <2>5 DEF Adds
  <2>8. g[n] = g[n - 1] + p[n].work
    BY <1>5, <2>3, <2>4 DEF g
  <2> QED
    BY <2>3, <2>6, <2>7, <2>8
<1>8. g = f
  BY <1>6, <1>7
<1> QED
  BY <1>1, <1>8 DEF g
\* The first attempts of two runs that spent the same have the same sum.
LEMMA SpentAgrees ==
    ASSUME NEW p \in [Attempts -> Provider], NEW q \in [Attempts -> Provider],
           NEW m \in 0..MaxAttempts, \A k \in 1..m : q[k].work = p[k].work
    PROVE  Spent(q)[m] = Spent(p)[m]
<1> DEFINE f == Spent(p)
           g == Spent(q)
           T == {n \in 0..m : g[n] # f[n]}
<1>1. Adds(f, p, MaxAttempts) /\ Adds(g, q, MaxAttempts) /\ MaxAttempts \in Nat
  BY SpentAdds, LongRunsAssumption
<1> HIDE DEF f, g
<1>2. SUFFICES ASSUME T # {} PROVE FALSE
  BY <1>1 DEF f, g
<1>3. PICK n \in T : \A y \in T : n <= y
  <2>1. T \subseteq Nat
    BY <1>1
  <2> HIDE DEF T
  <2> QED
    BY <1>2, <2>1, LeastOf
<1>4. n \in 0..m /\ g[n] # f[n]
  OBVIOUS
<1>5. n # 0
  BY <1>1, <1>4 DEF Adds
<1>6. n - 1 \in 0..m /\ n \in 1..m /\ n \in 1..MaxAttempts /\ ~(n <= n - 1)
  BY <1>1, <1>4, <1>5
<1>7. g[n - 1] = f[n - 1]
  BY <1>3, <1>6
<1>8. f[n] = f[n - 1] + p[n].work /\ g[n] = g[n - 1] + q[n].work
  BY <1>1, <1>6 DEF Adds
<1> QED
  BY <1>4, <1>6, <1>7, <1>8

-----------------------------------------------------------------------------
(* What a task has spent *)

\* A handle counts the attempts before its own, which are over, and of its
\* own what its cursor says.
UsageOK(h, p) ==
    /\ h.status = "absent" => h = NoHandle
    /\ \A k \in Attempts : k < h.attempt => p[k].status \in EndedStatuses
    /\ h.status # "absent" => /\ h.cursor <= p[h.attempt].work
                              /\ h.used = Spent(p)[h.attempt - 1] + h.cursor
    /\ h.status \in TerminalStatuses =>
          p[h.attempt].status \in EndedStatuses /\ h.cursor = p[h.attempt].work

\* A report tells no more than the provider run did, and all of it once the
\* run is over.
ReportOK(obs, p) ==
    /\ obs.cursor <= p[obs.attempt].work
    /\ obs.status \in EndedStatuses =>
          p[obs.attempt].status \in EndedStatuses /\ obs.cursor = p[obs.attempt].work

Unspent(p) == \A k \in Attempts : p[k].status = "unstarted" => p[k].work = 0

UsageInv ==
    /\ \A r \in Runs : UsageOK(handles[r], providers[r]) /\ Unspent(providers[r])
    /\ \A s \in Workers : calls[s] # Idle => ReportOK(calls[s].obs, providers[calls[s].run])

\* Provider runs go on, and those that are over stay as they are.
GoesOn(p, q) ==
    \A k \in Attempts : /\ q[k].work >= p[k].work
                        /\ p[k].status \in EndedStatuses => q[k] = p[k]

\* A report stays true while the provider goes on.
LEMMA ReportKeeps ==
    ASSUME NEW obs \in Observation, NEW p \in [Attempts -> Provider],
           NEW q \in [Attempts -> Provider], ReportOK(obs, p), GoesOn(p, q)
    PROVE  ReportOK(obs, q)
<1>1. obs.attempt \in Attempts /\ obs.cursor \in Nat
  BY DEF Observation
<1>2. p[obs.attempt].work \in Nat /\ q[obs.attempt].work \in Nat
  BY <1>1 DEF Provider
<1> QED
  BY <1>1, <1>2 DEF ReportOK, GoesOn

\* What a handle counts stays true while the provider goes on: the attempts
\* before its own are over.
LEMMA UsageKeeps ==
    ASSUME NEW h \in Handle, h.status # "absent" => h.attempt \in Attempts,
           NEW p \in [Attempts -> Provider], NEW q \in [Attempts -> Provider],
           UsageOK(h, p), GoesOn(p, q)
    PROVE  UsageOK(h, q)
<1>1. \A k \in Attempts : k < h.attempt => q[k] = p[k] /\ q[k].status \in EndedStatuses
  BY DEF UsageOK, GoesOn
<1>2. ASSUME h.status # "absent"
      PROVE  h.cursor <= q[h.attempt].work /\ h.used = Spent(q)[h.attempt - 1] + h.cursor
  <2>1. h.attempt \in Attempts /\ h.cursor \in Nat /\ MaxAttempts \in Nat
    BY <1>2, LongRunsAssumption DEF Handle
  <2>2. p[h.attempt].work \in Nat /\ q[h.attempt].work \in Nat
    BY <2>1 DEF Provider
  <2>3. h.cursor <= q[h.attempt].work
    BY <1>2, <2>1, <2>2 DEF UsageOK, GoesOn
  <2>4. h.attempt - 1 \in 0..MaxAttempts
    BY <2>1 DEF Attempts
  <2>5. \A k \in 1..(h.attempt - 1) : q[k].work = p[k].work
    BY <1>1, <2>1 DEF Attempts
  <2>6. Spent(q)[h.attempt - 1] = Spent(p)[h.attempt - 1]
    BY <2>4, <2>5, SpentAgrees
  <2> QED
    BY <1>2, <2>3, <2>6 DEF UsageOK
<1>3. h.status \in TerminalStatuses =>
         q[h.attempt].status \in EndedStatuses /\ h.cursor = q[h.attempt].work
  BY DEF UsageOK, GoesOn, TerminalStatuses
<1> QED
  BY <1>1, <1>2, <1>3 DEF UsageOK

\* A step that lets provider runs go on, appends handles that count right,
\* and leaves every call alone, over, or with a true report
LEMMA UsageFrame ==
    ASSUME LongInv, UsageInv, LongInv',
           \A r \in Runs : GoesOn(providers[r], providers'[r]) /\ Unspent(providers'[r]),
           \A r \in Runs : handles'[r] = handles[r] \/ UsageOK(handles'[r], providers'[r]),
           \A s \in Workers :
               \/ calls'[s] = Idle
               \/ /\ calls[s] # Idle
                  /\ calls'[s].obs = calls[s].obs /\ calls'[s].run = calls[s].run
               \/ ReportOK(calls'[s].obs, providers'[calls'[s].run])
    PROVE  UsageInv'
<1>1. \A r \in Runs : /\ providers[r] \in [Attempts -> Provider] /\ handles[r] \in Handle
                      /\ providers'[r] \in [Attempts -> Provider]
                      /\ handles[r].status # "absent" => handles[r].attempt \in Attempts
  BY DEF LongInv, TypeOK, HandleOK
<1>2. \A r \in Runs : UsageOK(handles'[r], providers'[r])
  BY <1>1, UsageKeeps DEF UsageInv
<1>3. ASSUME NEW s \in Workers, calls'[s] # Idle
      PROVE  ReportOK(calls'[s].obs, providers'[calls'[s].run])
  <2>1. ASSUME calls[s] # Idle, calls'[s].obs = calls[s].obs, calls'[s].run = calls[s].run
        PROVE  ReportOK(calls'[s].obs, providers'[calls'[s].run])
    <3> DEFINE c == calls[s]
    <3>1. c.obs \in Observation /\ c.run \in Runs /\ ReportOK(c.obs, providers[c.run])
      BY <2>1, CallFacts DEF UsageInv
    <3>2. ReportOK(c.obs, providers'[c.run])
      BY <1>1, <3>1, ReportKeeps
    <3> QED
      BY <2>1, <3>2
  <2> QED
    BY <1>3, <2>1
<1> QED
  BY <1>2, <1>3 DEF UsageInv

\* A step of one call that neither appends nor touches a provider
LEMMA CallCounts ==
    ASSUME LongInv, UsageInv, LongInv', NEW s \in Workers, NEW d,
           calls' = [calls EXCEPT ![s] = d], UNCHANGED <<handles, providers>>,
           \/ d = Idle
           \/ calls[s] # Idle /\ d.obs = calls[s].obs /\ d.run = calls[s].run
           \/ ReportOK(d.obs, providers[d.run])
    PROVE  UsageInv'
<1>1. calls'[s] = d /\ \A x \in Workers \ {s} : calls'[x] = calls[x]
  BY DEF LongInv, TypeOK
<1>2. \A r \in Runs : GoesOn(providers[r], providers'[r]) /\ Unspent(providers'[r])
  <2>1. ASSUME NEW r \in Runs, NEW k \in Attempts PROVE providers[r][k].work \in Nat
    BY DEF LongInv, TypeOK, Provider
  <2>2. \A r \in Runs, k \in Attempts : providers[r][k].work >= providers[r][k].work
    BY <2>1
  <2> QED
    BY <2>2 DEF GoesOn, UsageInv
<1>3. \A x \in Workers :
         \/ calls'[x] = Idle
         \/ /\ calls[x] # Idle
            /\ calls'[x].obs = calls[x].obs /\ calls'[x].run = calls[x].run
         \/ ReportOK(calls'[x].obs, providers'[calls'[x].run])
  BY <1>1
<1> QED
  BY <1>2, <1>3, UsageFrame

\* The calls that begin with a report, or go on after reading
LEMMA ReadCounts ==
    ASSUME LongInv, UsageInv, LongInv', NEW s \in Workers, NEW r \in Runs, NEW op \in Operations,
           ReadHandle(s) \/ Poll(s, r, op) \/ Ask(s, r, op)
    PROVE  UsageInv'
<1>1. CASE ReadHandle(s)
  <2> DEFINE c == calls[s]
             h == handles[c.run]
             obs == IF c.op = "bind" THEN [c.obs EXCEPT !.at = clock] ELSE c.obs
             operation == LeaseOperation(c.op, h, obs)
             d == [op |-> c.op, run |-> c.run, current |-> h, obs |-> obs,
                   lease |-> h.lease, lease_version |-> h.lease_version,
                   step |-> CASE operation = "none" -> "append"
                              [] operation = "acquire" -> "acquire"
                              [] OTHER -> "lease"]
  <2>1. /\ c # Idle /\ UNCHANGED <<handles, providers>>
        /\ calls' = [calls EXCEPT ![s] = d] \/ calls' = [calls EXCEPT ![s] = Idle]
    BY <1>1 DEF ReadHandle, Proceed
  <2>2. c.obs \in Observation /\ ReportOK(c.obs, providers[c.run])
    BY <2>1, CallFacts DEF UsageInv
  <2>3. obs.attempt = c.obs.attempt /\ obs.cursor = c.obs.cursor /\ obs.status = c.obs.status
    BY <2>2 DEF Observation
  <2> HIDE DEF obs
  <2>4. d.obs = obs /\ d.run = c.run
    OBVIOUS
  <2> HIDE DEF d
  <2>5. ReportOK(d.obs, providers[d.run])
    BY <2>2, <2>3, <2>4 DEF ReportOK
  <2> QED
    BY <2>1, <2>5, CallCounts
<1>2. CASE Poll(s, r, op)
  <2> DEFINE k == handles[r].attempt
             p == providers[r][k]
             obs == [attempt |-> k, status |-> p.status, cursor |-> p.work,
                     started_at |-> p.started_at, at |-> clock]
             d == [op |-> op, step |-> "read", run |-> r, current |-> NoHandle,
                   obs |-> obs, lease |-> NoLeaseId, lease_version |-> 0]
  <2>1. /\ handles[r].status \in BoundStatuses /\ calls' = [calls EXCEPT ![s] = d]
        /\ UNCHANGED <<handles, providers>>
    BY <1>2 DEF Poll, Begin
  <2>2. k \in Attempts
    BY <2>1 DEF LongInv, HandleOK, BoundStatuses
  <2>3. p.work \in Nat
    BY <2>2 DEF LongInv, TypeOK, Provider
  <2>4. obs.cursor <= p.work /\ obs.cursor = p.work /\ obs.attempt = k /\ obs.status = p.status
    BY <2>3
  <2> HIDE DEF obs
  <2>5. d.obs = obs /\ d.run = r
    OBVIOUS
  <2> HIDE DEF d
  <2>6. ReportOK(d.obs, providers[d.run])
    BY <2>4, <2>5 DEF ReportOK
  <2> QED
    BY <2>1, <2>6, CallCounts
<1>3. CASE Ask(s, r, op)
  <2> DEFINE h == handles[r]
             obs == [attempt |-> h.attempt, status |-> "running", cursor |-> h.cursor,
                     started_at |-> h.started_at, at |-> clock]
             operation == LeaseOperation(op, h, obs)
             d == [op |-> op, run |-> r, current |-> h, obs |-> obs,
                   lease |-> h.lease, lease_version |-> h.lease_version,
                   step |-> CASE operation = "none" -> "append"
                              [] operation = "acquire" -> "acquire"
                              [] OTHER -> "lease"]
  <2>1. /\ op \in {"checkpoint", "cancel", "retry"} /\ Accepts(op, h, obs)
        /\ calls' = [calls EXCEPT ![s] = d] /\ UNCHANGED <<handles, providers>>
    BY <1>3 DEF Ask, Proceed
  <2>2. h.status # "absent"
    BY <2>1 DEF Accepts, RunningAccepted, RetryAllowed
  <2>3. h.cursor <= providers[r][h.attempt].work
    BY <2>2 DEF UsageInv, UsageOK
  <2>4. obs.cursor = h.cursor /\ obs.attempt = h.attempt /\ obs.status = "running"
    OBVIOUS
  <2> HIDE DEF obs
  <2>5. d.obs = obs /\ d.run = r
    OBVIOUS
  <2> HIDE DEF d
  <2>6. ReportOK(d.obs, providers[d.run])
    BY <2>3, <2>4, <2>5 DEF ReportOK, EndedStatuses
  <2> QED
    BY <2>1, <2>6, CallCounts
<1> QED
  BY <1>1, <1>2, <1>3

\* The lease transactions of a call
LEMMA LeaseStepsCount ==
    ASSUME LongInv, UsageInv, LongInv', NEW s \in Workers,
           \/ WriteLease(s) \/ SweepForRecover(s) \/ AcquireForCall(s)
           \/ CompensateBind(s) \/ Crash(s)
    PROVE  UsageInv'
<1> DEFINE c == calls[s]
<1>1. c # Idle /\ UNCHANGED <<handles, providers>>
  BY DEF WriteLease, SweepForRecover, AcquireForCall, CompensateBind, Crash
<1>2. c \in Call
  BY <1>1, CallFacts
<1>3. CASE CompensateBind(s) \/ Crash(s)
  <2>1. calls' = [calls EXCEPT ![s] = Idle]
    BY <1>3 DEF CompensateBind, Crash
  <2> QED
    BY <1>1, <2>1, CallCounts
<1>4. CASE WriteLease(s)
  <2> DEFINE d(table) == [c EXCEPT !.step = "append", !.lease_version = table[c.current.lease].version]
  <2>1. \A table : d(table).obs = c.obs /\ d(table).run = c.run
    BY <1>2 DEF Call
  <2>2. \/ calls' = [calls EXCEPT ![s] = Idle]
        \/ \E table : calls' = [calls EXCEPT ![s] = d(table)]
    BY <1>4 DEF WriteLease
  <2> HIDE DEF d
  <2> QED
    BY <1>1, <2>1, <2>2, CallCounts
<1>5. CASE SweepForRecover(s)
  <2> DEFINE d == [c EXCEPT !.step = "acquire"]
  <2>1. d.obs = c.obs /\ d.run = c.run
    BY <1>2 DEF Call
  <2>2. calls' = [calls EXCEPT ![s] = Idle] \/ calls' = [calls EXCEPT ![s] = d]
    BY <1>5 DEF SweepForRecover
  <2> HIDE DEF d
  <2> QED
    BY <1>1, <2>1, <2>2, CallCounts
<1>6. CASE AcquireForCall(s)
  <2> DEFINE d(id) == [c EXCEPT !.step = "append", !.lease = id, !.lease_version = 1]
  <2>1. \A id : d(id).obs = c.obs /\ d(id).run = c.run
    BY <1>2 DEF Call
  <2>2. \/ calls' = [calls EXCEPT ![s] = Idle]
        \/ \E id : calls' = [calls EXCEPT ![s] = d(id)]
    BY <1>6 DEF AcquireForCall
  <2> HIDE DEF d
  <2> QED
    BY <1>1, <2>1, <2>2, CallCounts
<1> QED
  BY <1>3, <1>4, <1>5, <1>6

\* What a call appends counts right: what is new since the handle it read,
\* or, for a retry, the whole of the attempt that is over.
LEMMA AppendCounts ==
    ASSUME NEW c \in Call, NEW h \in Handle, NEW p \in [Attempts -> Provider],
           NEW table, c.current = h, c.step = "append", CallOK(c, h, table, p),
           UsageOK(h, p), ReportOK(c.obs, p)
    PROVE  UsageOK(Updated(c), p)
<1> DEFINE obs == c.obs
           lease == <<c.lease, c.lease_version>>
           new == Updated(c)
<1> SUFFICES UsageOK(new, p)
  OBVIOUS
<1>1. Accepts(c.op, h, obs) /\ c.op \in Operations /\ WroteOK(c, table) /\ HandleOK(h, c.run, table, p)
  BY DEF CallOK, ReadOK, Call
<1>2. h.status # "absent" /\ h.attempt \in Attempts
  <2>1. h.status # "absent"
    BY <1>1 DEF Accepts, BindAccepted, ObserveAccepted, FinishAccepted, RecoverAccepted,
                RunningAccepted, RetryAllowed, Operations, BoundStatuses
  <2> QED
    BY <1>1, <2>1 DEF HandleOK
<1>3. /\ h.cursor \in Nat /\ h.used \in Nat /\ obs.cursor \in Nat /\ obs.attempt \in Attempts
      /\ p[h.attempt].work \in Nat /\ p[h.attempt] \in Provider
  BY <1>2 DEF Handle, Call, Observation, Provider
<1>4. /\ \A k \in Attempts : k < h.attempt => p[k].status \in EndedStatuses
      /\ h.cursor <= p[h.attempt].work /\ h.used = Spent(p)[h.attempt - 1] + h.cursor
  BY <1>2 DEF UsageOK
<1>5. Adds(Spent(p), p, MaxAttempts) /\ MaxAttempts \in Nat
  BY SpentAdds, LongRunsAssumption
<1>6. Spent(p)[h.attempt - 1] \in Nat
  BY <1>2, <1>5 DEF Adds, Attempts
\* The calls that do not count
<1>7. CASE c.op \in {"bind", "checkpoint", "cancel"}
  <2>1. /\ new.attempt = h.attempt /\ new.used = h.used /\ new.cursor = h.cursor
        /\ new.status \in BoundStatuses
    <3>1. CASE c.op = "bind"
      <4>1. h.cursor = 0
        BY <1>1, <3>1 DEF HandleOK, Accepts, BindAccepted
      <4>2. new = Bound(h, obs, lease)
        BY <3>1 DEF Updated
      <4> QED
        BY <4>1, <4>2 DEF Bound, Leased, Handle, BoundStatuses
    <3>2. CASE c.op = "checkpoint"
      <4>1. new = Checkpointed(h, obs, lease) /\ h.status = "running"
        BY <1>1, <3>2 DEF Updated, Accepts, RunningAccepted
      <4> QED
        BY <4>1 DEF Checkpointed, Leased, Handle, BoundStatuses
    <3>3. CASE c.op = "cancel"
      <4>1. new = CancelRequested(h, obs, lease)
        BY <3>3 DEF Updated
      <4> QED
        BY <4>1 DEF CancelRequested, Leased, Handle, BoundStatuses
    <3> QED
      BY <1>7, <3>1, <3>2, <3>3
  <2> HIDE DEF new
  <2>2. new.status # "absent" /\ new.status \notin TerminalStatuses
    BY <2>1 DEF BoundStatuses, TerminalStatuses
  <2>3. new.used = Spent(p)[new.attempt - 1] + new.cursor
    BY <1>4, <2>1
  <2>4. new.cursor <= p[new.attempt].work /\ \A k \in Attempts : k < new.attempt => p[k].status \in EndedStatuses
    BY <1>4, <2>1
  <2> QED
    BY <2>2, <2>3, <2>4 DEF UsageOK
\* The calls that bring a report
<1>8. CASE c.op \in {"observe", "finish", "recover"}
  <2>1. /\ obs.attempt = h.attempt /\ obs.cursor >= h.cursor
        /\ h.status \in BoundStatuses
        /\ c.op = "finish" => obs.status \in EndedStatuses
    BY <1>1, <1>8 DEF Accepts, ObserveAccepted, FinishAccepted, RecoverAccepted, Mergeable,
                      WroteOK, BoundStatuses
  <2>2. /\ new.attempt = h.attempt /\ new.used = h.used + (obs.cursor - h.cursor)
        /\ new.cursor = obs.cursor /\ new.status # "absent"
        /\ new.status \in TerminalStatuses => c.op = "finish"
    <3>1. CASE c.op = "recover"
      <4>1. new = Recovered(h, obs, lease)
        BY <3>1 DEF Updated
      <4> QED
        BY <2>1, <4>1 DEF Recovered, Leased, MergedUsage, Handle, BoundStatuses, TerminalStatuses
    <3>2. CASE c.op = "observe"
      <4> DEFINE merged == Merged(h, obs, lease)
      <4>1. /\ merged.attempt = h.attempt /\ merged.used = h.used + (obs.cursor - h.cursor)
            /\ merged.cursor = obs.cursor /\ merged.status = h.status
            /\ DOMAIN merged = DOMAIN h
        BY DEF Merged, Leased, MergedUsage, Handle
      <4>2. new = [merged EXCEPT !.status = IF Hard(h, obs) # {} THEN "cancel_requested" ELSE @]
        BY <3>2 DEF Updated, Observed
      <4>3. "status" \in DOMAIN h /\ "attempt" \in DOMAIN h
        BY DEF Handle
      <4> HIDE DEF merged
      <4> QED
        BY <2>1, <3>2, <4>1, <4>2, <4>3 DEF BoundStatuses, TerminalStatuses
    <3>3. CASE c.op = "finish"
      <4> DEFINE merged == Merged(h, obs, lease)
                 status == TerminalStatus(obs.status, Hard(h, obs))
      <4>1. /\ merged.attempt = h.attempt /\ merged.used = h.used + (obs.cursor - h.cursor)
            /\ merged.cursor = obs.cursor
            /\ DOMAIN merged = DOMAIN h
        BY DEF Merged, Leased, MergedUsage, Handle
      <4>2. new = [merged EXCEPT !.status = status]
        BY <3>3 DEF Updated, Finished
      <4>3. "status" \in DOMAIN h
        BY DEF Handle
      <4>4. status # "absent"
        BY DEF TerminalStatus
      <4> HIDE DEF merged, status
      <4> QED
        BY <3>3, <4>1, <4>2, <4>3, <4>4
    <3> QED
      BY <1>8, <3>1, <3>2, <3>3
  <2> HIDE DEF new
  <2>3. obs.cursor <= p[h.attempt].work
    BY <2>1 DEF ReportOK
  <2>4. new.used = Spent(p)[h.attempt - 1] + new.cursor
    <3> DEFINE before == Spent(p)[h.attempt - 1]
    <3>1. before \in Nat /\ h.used = before + h.cursor
      BY <1>4, <1>6
    <3> HIDE DEF before
    <3>2. new.used = before + new.cursor
      BY <1>3, <2>2, <3>1
    <3> QED
      BY <3>2 DEF before
  <2>5. c.op = "finish" => p[h.attempt].status \in EndedStatuses /\ obs.cursor = p[h.attempt].work
    BY <2>1 DEF ReportOK
  <2>6. new.cursor <= p[new.attempt].work /\ \A k \in Attempts : k < new.attempt => p[k].status \in EndedStatuses
    BY <1>4, <2>2, <2>3
  <2>7. new.used = Spent(p)[new.attempt - 1] + new.cursor
    BY <2>2, <2>4
  <2>8. new.status \in TerminalStatuses =>
           p[new.attempt].status \in EndedStatuses /\ new.cursor = p[new.attempt].work
    BY <2>2, <2>5
  <2> QED
    BY <2>2, <2>6, <2>7, <2>8 DEF UsageOK
\* The retry
<1>9. CASE c.op = "retry"
  <2>1. /\ h.status \in TerminalStatuses /\ h.attempt < MaxAttempts
    BY <1>1, <1>9 DEF Accepts, RetryAllowed, TerminalStatuses
  <2>2. new = Retried(h, obs.at)
    BY <1>9 DEF Updated
  <2>3. /\ new.attempt = h.attempt + 1 /\ new.used = h.used /\ new.cursor = 0
        /\ new.status = "admitted"
    BY <2>2 DEF Retried, Handle
  <2> HIDE DEF new
  <2>4. p[h.attempt].status \in EndedStatuses /\ h.cursor = p[h.attempt].work
    BY <2>1 DEF UsageOK
  <2>5. /\ h.attempt \in 1..MaxAttempts /\ h.attempt + 1 \in Attempts /\ (h.attempt + 1) - 1 = h.attempt
        /\ \A k \in Attempts : k < h.attempt + 1 => k < h.attempt \/ k = h.attempt
    BY <1>2, <1>5, <2>1 DEF Attempts
  <2>6. Spent(p)[h.attempt] = Spent(p)[h.attempt - 1] + p[h.attempt].work
    BY <1>5, <2>5 DEF Adds
  <2>7. new.used = Spent(p)[new.attempt - 1] + new.cursor
    <3> DEFINE total == Spent(p)[h.attempt]
    <3>1. total = h.used
      BY <1>4, <2>4, <2>6
    <3> HIDE DEF total
    <3>2. new.used = total + 0
      BY <1>3, <2>3, <3>1
    <3>3. new.attempt - 1 = h.attempt
      BY <2>3, <2>5
    <3> QED
      BY <2>3, <3>2, <3>3 DEF total
  <2>8. new.cursor <= p[new.attempt].work
    <3>1. p[new.attempt].work \in Nat
      BY <2>3, <2>5 DEF Provider
    <3> QED
      BY <2>3, <3>1
  <2>9. \A k \in Attempts : k < new.attempt => p[k].status \in EndedStatuses
    BY <1>4, <2>3, <2>4, <2>5
  <2>10. new.status # "absent" /\ new.status \notin TerminalStatuses
    BY <2>3 DEF TerminalStatuses
  <2> QED
    BY <2>7, <2>8, <2>9, <2>10 DEF UsageOK
<1> QED
  BY <1>1, <1>7, <1>8, <1>9 DEF Operations

\* Steps that leave the providers alone let them go on.
LEMMA StillGoesOn ==
    ASSUME LongInv, UsageInv, UNCHANGED providers
    PROVE  \A r \in Runs : GoesOn(providers[r], providers'[r]) /\ Unspent(providers'[r])
<1>1. ASSUME NEW r \in Runs, NEW k \in Attempts PROVE providers[r][k].work >= providers[r][k].work
  <2>1. providers[r][k].work \in Nat
    BY DEF LongInv, TypeOK, Provider
  <2> QED
    BY <2>1
<1> QED
  BY <1>1 DEF GoesOn, UsageInv

\* The append
LEMMA AppendStepCounts ==
    ASSUME LongInv, UsageInv, LongInv', NEW s \in Workers, AppendEvent(s)
    PROVE  UsageInv'
<1> DEFINE c == calls[s]
           new == Updated(c)
           d == [c EXCEPT !.step = "compensate"]
<1>1. /\ c # Idle /\ c.step = "append" /\ UNCHANGED providers
      /\ \/ handles' = handles
         \/ Appendable(handles[c.run], c.current) /\ handles' = [handles EXCEPT ![c.run] = new]
      /\ calls' = [calls EXCEPT ![s] = Idle] \/ calls' = [calls EXCEPT ![s] = d]
  BY DEF AppendEvent
<1>2. /\ c \in Call /\ c.run \in Runs /\ handles[c.run] \in Handle
      /\ CallOK(c, handles[c.run], leases, providers[c.run])
      /\ providers[c.run] \in [Attempts -> Provider]
      /\ UsageOK(handles[c.run], providers[c.run]) /\ ReportOK(c.obs, providers[c.run])
  BY <1>1, CallFacts DEF LongInv, TypeOK, UsageInv
<1>3. d.obs = c.obs /\ d.run = c.run
  BY <1>2 DEF Call
<1> HIDE DEF d
<1>4. \A x \in Workers :
         \/ calls'[x] = Idle
         \/ /\ calls[x] # Idle
            /\ calls'[x].obs = calls[x].obs /\ calls'[x].run = calls[x].run
         \/ ReportOK(calls'[x].obs, providers'[calls'[x].run])
  <2>1. \A x \in Workers \ {s} : calls'[x] = calls[x]
    BY <1>1 DEF LongInv, TypeOK
  <2>2. calls'[s] = Idle \/ calls'[s] = d
    BY <1>1 DEF LongInv, TypeOK
  <2>3. \A x \in Workers \ {s} :
           calls'[x] = Idle \/ (calls[x] # Idle /\ calls'[x].obs = calls[x].obs
                                /\ calls'[x].run = calls[x].run)
    BY <2>1
  <2> QED
    BY <1>1, <1>3, <2>2, <2>3
<1>5. Appendable(handles[c.run], c.current) => UsageOK(new, providers[c.run])
  <2> SUFFICES ASSUME Appendable(handles[c.run], c.current) PROVE UsageOK(new, providers[c.run])
    OBVIOUS
  <2>1. c.current = handles[c.run]
    BY <1>1, <1>2 DEF CallOK, ReadOK, Appendable
  <2> QED
    BY <1>1, <1>2, <2>1, AppendCounts
<1> HIDE DEF new
<1>6. \A r \in Runs : handles'[r] = handles[r] \/ UsageOK(handles'[r], providers'[r])
  BY <1>1, <1>2, <1>5 DEF LongInv, TypeOK
<1> QED
  BY <1>1, <1>4, <1>6, StillGoesOn, UsageFrame

\* admit: nothing is spent
LEMMA AdmitCounts ==
    ASSUME LongInv, UsageInv, LongInv', NEW r \in Runs, Admit(r)
    PROVE  UsageInv'
<1> DEFINE new == [NoHandle EXCEPT !.status = "admitted", !.version = 1, !.attempt = 1,
                                   !.created_at = clock, !.updated_at = clock]
           p == providers[r]
<1>1. /\ handles' = [handles EXCEPT ![r] = new] /\ UNCHANGED <<providers, calls>>
  BY DEF Admit
<1>2. new.status = "admitted" /\ new.attempt = 1 /\ new.used = 0 /\ new.cursor = 0
  BY DEF NoHandle
<1> HIDE DEF new
<1>3. p \in [Attempts -> Provider] /\ 1 \in Attempts
  BY LongRunsAssumption DEF LongInv, TypeOK, Attempts
<1>4. p[1].work \in Nat
  BY <1>3 DEF Provider
<1>5. Spent(p)[new.attempt - 1] = 0
  <2>1. new.attempt - 1 = 0
    BY <1>2
  <2>2. Spent(p)[0] = 0
    BY <1>3, SpentAdds DEF Adds
  <2> QED
    BY <2>1, <2>2
<1>6. new.used = Spent(p)[new.attempt - 1] + new.cursor
  BY <1>2, <1>5
<1>7. \A k \in Attempts : ~(k < new.attempt)
  BY <1>2 DEF Attempts
<1>8. new.cursor <= p[new.attempt].work
  BY <1>2, <1>4
<1>9. UsageOK(new, p)
  BY <1>2, <1>6, <1>7, <1>8 DEF UsageOK, TerminalStatuses
<1>10. \A x \in Runs : handles'[x] = handles[x] \/ UsageOK(handles'[x], providers'[x])
  BY <1>1, <1>9 DEF LongInv, TypeOK
<1>11. \A s \in Workers : calls'[s] = Idle \/ (calls[s] # Idle /\ calls'[s].obs = calls[s].obs
                                               /\ calls'[s].run = calls[s].run)
  BY <1>1
<1> QED
  BY <1>1, <1>10, <1>11, StillGoesOn, UsageFrame

\* A step of one provider run, which goes on
LEMMA ProviderCounts ==
    ASSUME LongInv, UsageInv, LongInv', NEW r \in Runs, NEW k \in Attempts, NEW new \in Provider,
           providers' = [providers EXCEPT ![r][k] = new], UNCHANGED handles,
           new = providers[r][k] \/ providers[r][k].status \notin EndedStatuses,
           new.work >= providers[r][k].work, new.status = "unstarted" => new.work = 0,
           \A s \in Workers :
               \/ calls'[s] = calls[s]
               \/ ReportOK(calls'[s].obs, providers'[calls'[s].run])
    PROVE  UsageInv'
<1>1. /\ \A x \in Runs, n \in Attempts : x # r \/ n # k => providers'[x][n] = providers[x][n]
      /\ providers'[r][k] = new
  BY DEF LongInv, TypeOK
<1>2. \A x \in Runs, n \in Attempts : providers[x][n].work >= providers[x][n].work
  <2>1. \A x \in Runs, n \in Attempts : providers[x][n].work \in Nat
    BY DEF LongInv, TypeOK, Provider
  <2> QED
    BY <2>1
<1>3. \A x \in Runs : GoesOn(providers[x], providers'[x]) /\ Unspent(providers'[x])
  BY <1>1, <1>2 DEF GoesOn, Unspent, UsageInv
<1>4. \A s \in Workers :
         \/ calls'[s] = Idle
         \/ calls[s] # Idle /\ calls'[s].obs = calls[s].obs /\ calls'[s].run = calls[s].run
         \/ ReportOK(calls'[s].obs, providers'[calls'[s].run])
  OBVIOUS
<1> QED
  BY <1>3, <1>4, UsageFrame

\* The provider, and start_or_locate
LEMMA ProviderStepCounts ==
    ASSUME LongInv, UsageInv, LongInv', NEW r \in Runs, NEW k \in Attempts,
           ProviderWorks(r, k) \/ \E status \in EndedStatuses : ProviderEnds(r, k, status)
    PROVE  UsageInv'
<1> DEFINE p == providers[r][k]
<1>1. p \in Provider /\ p.work \in Nat /\ MaxWork \in Nat
  BY LongRunsAssumption DEF LongInv, TypeOK, Provider
<1>2. CASE ProviderWorks(r, k)
  <2> DEFINE new == [p EXCEPT !.work = p.work + 1]
  <2>1. /\ p.status = "running" /\ p.work < MaxWork /\ UNCHANGED <<handles, calls>>
        /\ providers' = [providers EXCEPT ![r][k] = new]
    BY <1>2 DEF ProviderWorks
  <2>2. new \in Provider /\ new.work >= p.work /\ new.status # "unstarted"
    BY <1>1, <2>1 DEF Provider
  <2> HIDE DEF new
  <2> QED
    BY <2>1, <2>2, ProviderCounts DEF EndedStatuses
<1>3. ASSUME NEW status \in EndedStatuses, ProviderEnds(r, k, status) PROVE UsageInv'
  <2> DEFINE new == [p EXCEPT !.status = status]
  <2>1. /\ p.status = "running" /\ UNCHANGED <<handles, calls>>
        /\ providers' = [providers EXCEPT ![r][k] = new]
    BY <1>3 DEF ProviderEnds
  <2>2. new \in Provider /\ new.work >= p.work /\ new.status # "unstarted"
    BY <1>1 DEF Provider, EndedStatuses
  <2> HIDE DEF new
  <2> QED
    BY <2>1, <2>2, ProviderCounts DEF EndedStatuses
<1> QED
  BY <1>2, <1>3

\* start_or_locate starts a provider run that has spent nothing.
LEMMA StartCounts ==
    ASSUME LongInv, UsageInv, LongInv', NEW s \in Workers, NEW r \in Runs, StartOrLocate(s, r)
    PROVE  UsageInv'
<1> DEFINE k == handles[r].attempt
           old == providers[r][k]
           started == IF old.status = "unstarted"
                      THEN [status |-> "running", work |-> 0, started_at |-> clock] ELSE old
           obs == [attempt |-> k, status |-> "running", cursor |-> 0,
                   started_at |-> started.started_at, at |-> clock]
           d == [op |-> "bind", step |-> "read", run |-> r, current |-> NoHandle,
                 obs |-> obs, lease |-> NoLeaseId, lease_version |-> 0]
<1>1. /\ handles[r].status = "admitted" /\ providers' = [providers EXCEPT ![r][k] = started]
      /\ calls' = [calls EXCEPT ![s] = d] /\ UNCHANGED handles
  BY DEF StartOrLocate, Begin
<1>2. k \in Attempts /\ clock \in Instants
  BY <1>1 DEF LongInv, TypeOK, HandleOK
<1>3. old \in Provider /\ old.work \in Nat /\ 0 \in 0..MaxWork
      /\ (old.status = "unstarted" => old.work = 0)
  BY <1>2, LongRunsAssumption DEF LongInv, TypeOK, Provider, UsageInv, Unspent
<1>4. /\ started \in Provider /\ started.work >= old.work /\ started.status # "unstarted"
      /\ started = old \/ old.status \notin EndedStatuses
      /\ started.work \in Nat
  BY <1>2, <1>3 DEF Provider, EndedStatuses
<1> HIDE DEF started
<1>5. obs.attempt = k /\ obs.cursor = 0 /\ obs.status = "running"
  OBVIOUS
<1> HIDE DEF obs
<1>6. d.obs = obs /\ d.run = r
  OBVIOUS
<1> HIDE DEF d
<1>7. providers'[r][k] = started
  BY <1>1, <1>2 DEF LongInv, TypeOK
<1>8. ReportOK(d.obs, providers'[d.run])
  BY <1>4, <1>5, <1>6, <1>7 DEF ReportOK, EndedStatuses
<1>9. \A x \in Workers : calls'[x] = calls[x] \/ ReportOK(calls'[x].obs, providers'[calls'[x].run])
  BY <1>1, <1>8 DEF LongInv, TypeOK
<1> QED
  BY <1>1, <1>2, <1>4, <1>9, ProviderCounts

\* Every step
LEMMA NextCounts ==
    ASSUME LongInv, UsageInv, [Next]_vars
    PROVE  UsageInv'
<1>1. LongInv'
  BY NextLong
<1>2. ASSUME Tick \/ UNCHANGED vars PROVE UsageInv'
  <2>1. UNCHANGED <<handles, providers, calls>>
    BY <1>2 DEF Tick, vars
  <2>2. \A s \in Workers : calls'[s] = Idle \/ (calls[s] # Idle /\ calls'[s].obs = calls[s].obs
                                                /\ calls'[s].run = calls[s].run)
    BY <2>1
  <2> QED
    BY <1>1, <2>1, <2>2, StillGoesOn, UsageFrame
<1>3. ASSUME NEW s \in Workers, CallStep(s) \/ Crash(s) PROVE UsageInv'
  <2>1. ASSUME ReadHandle(s) PROVE UsageInv'
    <3>1. calls[s] # Idle
      BY <2>1 DEF ReadHandle
    <3>2. calls[s].run \in Runs /\ "bind" \in Operations
      BY <3>1, CallFacts DEF Operations
    <3> QED
      BY <1>1, <2>1, <3>2, ReadCounts
  <2> QED
    BY <1>1, <1>3, <2>1, LeaseStepsCount, AppendStepCounts DEF CallStep
<1> QED
  BY <1>1, <1>2, <1>3, AdmitCounts, ProviderStepCounts, StartCounts, ReadCounts DEF Next

\* At first nothing is spent.
LEMMA InitCounts == Init => UsageInv
BY DEF Init, UsageInv, UsageOK, Unspent, NoHandle, TerminalStatuses, Attempts

\* A task's recorded usage is what its provider runs have really spent, each
\* unit once, and once an attempt is recorded as over nothing it spent is
\* missing (_merge_usage, authorize_retry).
THEOREM UsageIsCountedOnce == Spec => []UsageCountedOnce
<1>1. Init => LongInv /\ UsageInv
  BY InitLong, InitCounts
<1>2. (LongInv /\ UsageInv) /\ [Next]_vars => (LongInv /\ UsageInv)'
  BY NextLong, NextCounts
<1>3. LongInv /\ UsageInv => UsageCountedOnce
  <2> SUFFICES ASSUME LongInv, UsageInv, NEW r \in Runs
               PROVE  /\ handles[r].used <= Spent(providers[r])[handles[r].attempt]
                      /\ handles[r].status \in TerminalStatuses =>
                            handles[r].used = Spent(providers[r])[handles[r].attempt]
    BY DEF UsageCountedOnce
  <2> DEFINE h == handles[r]
             p == providers[r]
  <2>1. /\ h \in Handle /\ p \in [Attempts -> Provider] /\ UsageOK(h, p)
        /\ h.status # "absent" => h.attempt \in Attempts
    BY DEF LongInv, TypeOK, HandleOK, UsageInv
  <2>2. Adds(Spent(p), p, MaxAttempts) /\ MaxAttempts \in Nat
    BY <2>1, SpentAdds, LongRunsAssumption
  <2>3. CASE h.status = "absent"
    <3>1. h.used = 0 /\ h.attempt = 0 /\ h.status \notin TerminalStatuses
      BY <2>1, <2>3 DEF UsageOK, NoHandle, TerminalStatuses
    <3>2. Spent(p)[0] = 0
      BY <2>2 DEF Adds
    <3> QED
      BY <3>1, <3>2
  <2>4. CASE h.status # "absent"
    <3>1. h.attempt \in 1..MaxAttempts /\ h.attempt - 1 \in 0..MaxAttempts
      BY <2>1, <2>2, <2>4 DEF Attempts
    <3> DEFINE before == Spent(p)[h.attempt - 1]
               work == p[h.attempt].work
    <3>2. Spent(p)[h.attempt] = before + work /\ before \in Nat
      BY <2>2, <3>1 DEF Adds
    <3>3. work \in Nat /\ h.cursor \in Nat
      <4>1. p[h.attempt] \in Provider
        BY <2>1, <3>1 DEF Attempts
      <4> QED
        BY <2>1, <4>1 DEF Provider, Handle
    <3>4. h.used = before + h.cursor /\ h.cursor <= work
          /\ (h.status \in TerminalStatuses => h.cursor = work)
      BY <2>1, <2>4 DEF UsageOK
    <3> HIDE DEF before, work, h
    <3> QED
      BY <3>2, <3>3, <3>4 DEF h
  <2> QED
    BY <2>3, <2>4
<1> QED
  BY <1>1, <1>2, <1>3, PTL DEF Spec
=============================================================================
