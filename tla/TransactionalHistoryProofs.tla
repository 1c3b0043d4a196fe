--------------------- MODULE TransactionalHistoryProofs ---------------------
(***************************************************************************)
(* What the two append-only truths of TransactionalExecution and the       *)
(* repository agree on, proved for any number of callers, jobs, runs and   *)
(* tasks, of repetitions and of crashes.                                   *)
(*                                                                         *)
(* The argument: every commit appends a record to the one run of its task, *)
(* so the number of records a call has read decides, when it is compared   *)
(* again, that the state of the task is still the one the call was based   *)
(* on.  And what a call has done in the repository stays done.  Each job   *)
(* is then a run of the pipeline: its records tell its stages in order.    *)
(***************************************************************************)
EXTENDS TransactionalExecutionProofs, SequenceTheorems

-----------------------------------------------------------------------------
(* The inductive invariant *)

Merged(j) == \E i \in 1..Len(target) : target[i] = j

\* The records of a run whose decision was approve
Approved(recs) == Len(recs) >= 3 /\ recs[3].state = "integrating"

\* The records of a run of this job's task
OwnedBy(j, recs) == recs # <<>> /\ recs[1].task = TaskOf[j]

\* The records of one run, and the history of their task
RunOK(recs, h) ==
    recs # <<>> =>
        /\ \A i \in 1..Len(recs) : recs[i].task = recs[1].task
        /\ h # <<>> /\ current_state(h) = recs[Len(recs)].state

\* The worktree of a job and what the target branch has of it
WorktreeOK(j, recs, state) ==
    /\ workspace[j] \in {"committed", "removed"} => OwnedBy(j, recs) /\ Approved(recs)
    /\ \A i \in 1..Len(target) :
          target[i] = j => i = base[j] + 1 /\ workspace[j] \in {"committed", "removed"}
    /\ (OwnedBy(j, recs) /\ state = "completed") \/ workspace[j] = "removed" => Merged(j)

\* A transition that the workflow allows its actor
Legal(tr) == tr.to \in ALLOWED_TRANSITIONS[tr.from] /\ Authorized(tr.actor, tr.from, tr.to)

ExecuteSteps == {"list", "intent", "launch", "collect", "outcome"}

\* A call of a later stage, with the records of its run, the state of its
\* task, and whether its job is merged
StageCallOK(c, recs, state, merged) ==
    /\ OwnedBy(c.job, recs) /\ c.run_seq <= Len(recs)
    /\ Len(recs) = c.run_seq => StageReady(c.op, recs, state)
    /\ c.state \in StageResults(c.op)
    /\ c.op # "cleanup" =>
          /\ Len(c.buffered) = 1 /\ c.buffered[1].to = c.state /\ Legal(c.buffered[1])
          /\ Len(recs) = c.run_seq => c.buffered[1].from = state
    /\ c.op = "integrate" => Approved(recs) /\ (c.step = "commit" => merged)
    /\ c.op = "cleanup" => c.buffered = <<>> /\ merged

CallOK(c, recs, state, merged) ==
    /\ c.op = "execute" <=> c.step \in ExecuteSteps
    /\ c.step \in {"git_commit", "git_merge"} => c.op = "integrate"
    /\ c.step = "remove" => c.op = "cleanup"
    /\ c.step = "outcome" => /\ c.state \in {"failed", "repairing", "reviewing"}
                             /\ c.buffered = ExecutionPath(c.state, AuthorityOf[c.job])
    /\ c.op # "execute" => StageCallOK(c, recs, state, merged)

HistoryInv ==
    /\ \A t \in Tasks : IsWorkflowPath(history[t])
    /\ \A r \in Runs : RunOK(records[r], history[records[r][1].task])
    /\ \A q, r \in Runs :
          records[q] # <<>> /\ records[r] # <<>> /\ records[q][1].task = records[r][1].task => q = r
    /\ \A j \in Jobs : WorktreeOK(j, records[RunOf[j]], StateOf(j))
    /\ \A c \in Callers, j \in Jobs : calls[c] # Idle /\ calls[c].job = j =>
          CallOK(calls[c], records[RunOf[j]], StateOf(j), Merged(j))

-----------------------------------------------------------------------------
(* Histories *)

\* A legal transition from where a path has come extends the path.
LEMMA PathExtends ==
    ASSUME NEW h \in Seq(Transition), IsWorkflowPath(h),
           NEW tr \in Transition, Legal(tr), tr.from = current_state(h)
    PROVE  /\ IsWorkflowPath(h \o <<tr>>) /\ h \o <<tr>> # <<>>
           /\ current_state(h \o <<tr>>) = tr.to
<1> DEFINE n == Len(h) + 1
           new == h \o <<tr>>
<1>1. /\ Len(h) \in Nat /\ Len(new) = n /\ new[n] = tr
      /\ \A i \in 1..Len(h) : new[i] = h[i]
  OBVIOUS
<1>2. current_state(h) = IF n = 1 THEN "draft" ELSE h[n - 1].to
  BY <1>1 DEF current_state
<1> HIDE DEF new
<1>3. ASSUME NEW i \in 1..n
      PROVE  /\ new[i].from = (IF i = 1 THEN "draft" ELSE new[i - 1].to)
             /\ Legal(new[i])
  <2>1. CASE i = n
    <3>1. i # 1 => i - 1 \in 1..Len(h)
      BY <1>1, <2>1
    <3> QED
      BY <1>1, <1>2, <2>1, <3>1
  <2>2. CASE i # n
    <3>1. i \in 1..Len(h) /\ (i # 1 => i - 1 \in 1..Len(h))
      BY <1>1, <2>2
    <3> QED
      BY <1>1, <3>1 DEF IsWorkflowPath, Legal
  <2> QED
    BY <2>1, <2>2
<1>4. IsWorkflowPath(new)
  BY <1>1, <1>3 DEF IsWorkflowPath, Legal
<1>5. new # <<>> /\ current_state(new) = tr.to
  BY <1>1 DEF current_state, new
<1> QED
  BY <1>4, <1>5 DEF new

\* What execute buffers is a path of the workflow to the outcome.
LEMMA ExecutionIsPath ==
    ASSUME NEW outcome \in {"failed", "repairing", "reviewing"},
           NEW authority \in {"human", "policy"}
    PROVE  LET h == ExecutionPath(outcome, authority)
           IN  h \in Seq(Transition) /\ IsWorkflowPath(h) /\ h # <<>> /\ current_state(h) = outcome
<1> DEFINE s1 == Step("draft", "planned", "system")
           s2 == Step("planned", "implementing", authority)
           s3 == Step("implementing", "verifying", "system")
           s4 == Step("verifying", outcome, "system")
           sf == Step("implementing", "failed", "system")
<1>1. /\ s1 \in Transition /\ s2 \in Transition /\ s3 \in Transition /\ s4 \in Transition
      /\ sf \in Transition
  BY StepTyped DEF TaskStates, ActorTypes
<1>2. Legal(s1) /\ Legal(s2) /\ Legal(s3) /\ Legal(sf) /\ (outcome # "failed" => Legal(s4))
  BY DEF Legal, Step, ALLOWED_TRANSITIONS, Authorized, TaskStates
<1>3. /\ s1.from = "draft" /\ s1.to = s2.from /\ s2.to = s3.from /\ s3.to = s4.from
      /\ s2.to = sf.from /\ sf.to = "failed" /\ s4.to = outcome
  BY DEF Step
<1> DEFINE begun == <<s1, s2>>
           failed == Append(begun, sf)
           ended == begun \o <<s3, s4>>
<1>4. ExecutionPath(outcome, authority) = IF outcome = "failed" THEN failed ELSE ended
  BY Zenon DEF ExecutionPath
<1> HIDE DEF s1, s2, s3, s4, sf
<1>5. begun \in Seq(Transition) /\ Len(begun) = 2 /\ begun[1] = s1 /\ begun[2] = s2
  BY <1>1
<1>6. <<s3, s4>> \in Seq(Transition) /\ Len(<<s3, s4>>) = 2 /\ <<s3, s4>>[1] = s3 /\ <<s3, s4>>[2] = s4
  BY <1>1
<1> HIDE DEF begun
\* A path is checked step by step.
<1>7. ASSUME NEW h \in Seq(Transition), Len(h) \in {3, 4}, h[1] = s1, h[2] = s2,
             Legal(h[3]) /\ h[3].from = "implementing",
             Len(h) = 4 => Legal(h[4]) /\ h[4].from = h[3].to
      PROVE  IsWorkflowPath(h) /\ h # <<>> /\ current_state(h) = h[Len(h)].to
  <2>1. ASSUME NEW i \in 1..Len(h)
        PROVE  h[i].from = (IF i = 1 THEN "draft" ELSE h[i - 1].to) /\ Legal(h[i])
    <3>1. i \in 1..4 /\ (i = 4 => Len(h) = 4)
      <4> DEFINE n == Len(h)
      <4>1. (n = 3 \/ n = 4) /\ i \in 1..n
        BY <1>7, Zenon
      <4> HIDE DEF n
      <4>2. i \in 1..4 /\ (i = 4 => n = 4)
        BY <4>1
      <4> QED
        BY <4>2 DEF n
    <3>2. s2.to = "implementing"
      BY DEF s2, Step
    <3>3. CASE i = 1
      BY <1>2, <1>3, <1>7, <3>3
    <3>4. CASE i = 2
      BY <1>2, <1>3, <1>7, <3>4
    <3>5. CASE i = 3
      <4>1. i - 1 = 2
        BY <3>5
      <4> QED
        BY <1>7, <3>2, <3>5, <4>1
    <3>6. CASE i = 4
      <4>1. i - 1 = 3
        BY <3>6
      <4> QED
        BY <1>7, <3>1, <3>6, <4>1
    <3> QED
      BY <3>1, <3>3, <3>4, <3>5, <3>6
  <2>2. IsWorkflowPath(h)
    BY <2>1 DEF IsWorkflowPath, Legal
  <2> QED
    BY <1>7, <2>2 DEF current_state
<1>8. /\ failed \in Seq(Transition) /\ Len(failed) = 3 /\ failed[1] = s1 /\ failed[2] = s2
      /\ failed[3] = sf
  <2>1. /\ failed \in Seq(Transition) /\ Len(failed) = Len(begun) + 1
        /\ \A i \in 1..Len(begun) : failed[i] = begun[i]
        /\ failed[Len(begun) + 1] = sf
    <3>1. ASSUME NEW h \in Seq(Transition), NEW tr \in Transition
          PROVE  /\ Append(h, tr) \in Seq(Transition) /\ Len(Append(h, tr)) = Len(h) + 1
                 /\ \A i \in 1..Len(h) : Append(h, tr)[i] = h[i]
                 /\ Append(h, tr)[Len(h) + 1] = tr
      OBVIOUS
    <3>2. begun \in Seq(Transition) /\ sf \in Transition
      BY <1>1, <1>5
    <3> HIDE DEF failed
    <3>3. failed = Append(begun, sf)
      BY DEF failed
    <3> QED
      BY ONLY <3>1, <3>2, <3>3, Zenon
  <2>2. 1 \in 1..Len(begun) /\ 2 \in 1..Len(begun) /\ Len(begun) + 1 = 3
    BY <1>5
  <2> HIDE DEF failed
  <2> QED
    BY <1>5, <2>1, <2>2, Zenon
<1>9. /\ ended \in Seq(Transition) /\ Len(ended) = 4 /\ ended[1] = s1 /\ ended[2] = s2
      /\ ended[3] = s3 /\ ended[4] = s4
  <2> DEFINE last == <<s3, s4>>
  <2> HIDE DEF last
  <2>1. last \in Seq(Transition) /\ Len(last) = 2 /\ last[1] = s3 /\ last[2] = s4 /\ ended = begun \o last
    BY <1>6 DEF last
  <2> HIDE DEF ended
  <2>2. /\ ended \in Seq(Transition) /\ Len(ended) = Len(begun) + Len(last)
        /\ \A i \in 1 .. Len(begun) + Len(last) :
              ended[i] = IF i <= Len(begun) THEN begun[i] ELSE last[i - Len(begun)]
    BY <1>5, <2>1, ConcatProperties
  <2> QED
    BY <1>5, <2>1, <2>2
<1>10. s3.from = "implementing" /\ sf.from = "implementing"
  BY DEF s3, sf, Step
<1> HIDE DEF failed, ended
<1>11. IsWorkflowPath(failed) /\ failed # <<>> /\ current_state(failed) = "failed"
  BY <1>2, <1>3, <1>7, <1>8, <1>10
<1>12. outcome # "failed" => IsWorkflowPath(ended) /\ ended # <<>> /\ current_state(ended) = outcome
  BY <1>2, <1>3, <1>7, <1>9, <1>10
<1> QED
  BY <1>4, <1>8, <1>9, <1>11, <1>12

-----------------------------------------------------------------------------
(* Frames *)

\* A call stays right while records are appended to its run.
LEMMA StageCallKeeps ==
    ASSUME NEW c \in Call, NEW recs \in Seq(Record), NEW state, NEW merged \in BOOLEAN,
           NEW after \in Seq(Record), NEW later, NEW done \in BOOLEAN,
           CallOK(c, recs, state, merged), merged => done,
           c.op # "execute" =>
              \/ after = recs /\ later = state
              \/ \E record \in Record : after = Append(recs, record)
    PROVE  CallOK(c, after, later, done)
<1>1. CASE c.op = "execute"
  BY <1>1 DEF CallOK
<1>2. CASE c.op # "execute" /\ after = recs /\ later = state
  BY <1>2 DEF CallOK, StageCallOK
<1>3. ASSUME c.op # "execute", NEW record \in Record, after = Append(recs, record)
      PROVE  CallOK(c, after, later, done)
  <2>1. StageCallOK(c, recs, state, merged) /\ c.run_seq \in Nat
    BY <1>3 DEF CallOK, Call
  <2>2. /\ Len(recs) \in Nat /\ Len(after) = Len(recs) + 1
        /\ \A i \in 1..Len(recs) : after[i] = recs[i]
    BY <1>3
  <2>3. OwnedBy(c.job, after) /\ Len(after) # c.run_seq /\ c.run_seq <= Len(after)
    BY <2>1, <2>2 DEF StageCallOK, OwnedBy
  <2>4. Approved(recs) => Approved(after)
    BY <2>2 DEF Approved
  <2>5. StageCallOK(c, after, later, done)
    BY <2>1, <2>3, <2>4 DEF StageCallOK
  <2> QED
    BY <1>3, <2>5 DEF CallOK
<1> QED
  BY <1>1, <1>2, <1>3

\* A step that commits nothing
LEMMA QuietFrame ==
    ASSUME TypeOK, TypeOK', HistoryInv, history' = history, records' = records,
           \A j \in Jobs : WorktreeOK(j, records[RunOf[j]], StateOf(j))',
           \A j \in Jobs : Merged(j) => Merged(j)',
           \A c \in Callers, j \in Jobs :
              \/ calls'[c] \in {calls[c], Idle}
              \/ calls'[c].job = j =>
                    CallOK(calls'[c], records[RunOf[j]], StateOf(j), Merged(j)')
    PROVE  HistoryInv'
<1>1. \A j \in Jobs : StateOf(j)' = StateOf(j)
  BY DEF StateOf
<1>2. ASSUME NEW c \in Callers, NEW j \in Jobs, calls'[c] # Idle, calls'[c].job = j
      PROVE  CallOK(calls'[c], records'[RunOf[j]], StateOf(j)', Merged(j)')
  <2>1. RunOf[j] \in Runs
    BY TransactionalExecutionAssumption
  <2>2. CASE calls'[c] = calls[c]
    <3>1. calls[c] \in Call /\ CallOK(calls[c], records[RunOf[j]], StateOf(j), Merged(j))
      BY <1>2, <2>2 DEF HistoryInv, TypeOK
    <3>2. records[RunOf[j]] \in Seq(Record) /\ Merged(j) \in BOOLEAN /\ Merged(j)' \in BOOLEAN
      BY <2>1 DEF TypeOK, Merged
    <3>3. Merged(j) => Merged(j)'
      OBVIOUS
    <3> QED
      BY <1>1, <2>1, <2>2, <3>1, <3>2, <3>3, StageCallKeeps
  <2>3. CASE CallOK(calls'[c], records[RunOf[j]], StateOf(j), Merged(j)')
    BY <1>1, <2>1, <2>3
  <2> QED
    BY <1>2, <2>2, <2>3
<1> QED
  BY <1>2 DEF HistoryInv

\* A record is appended to the one run of its task.
LEMMA OneRunFrame ==
    ASSUME HistoryInv, NEW r \in Runs, NEW t \in Tasks,
           \/ records[r] = <<>> /\ history[t] = <<>>
           \/ records[r] # <<>> /\ records[r][1].task = t
    PROVE  \A q \in Runs \ {r} : records[q] # <<>> => records[q][1].task # t
BY DEF HistoryInv, RunOK

\* A commit, with the record and the history it leaves
LEMMA CommitFrame ==
    ASSUME TypeOK, TypeOK', HistoryInv, NEW j \in Jobs, NEW h \in Seq(Transition),
           NEW record \in Record,
           records' = [records EXCEPT ![RunOf[j]] = Append(records[RunOf[j]], record)],
           history' = [history EXCEPT ![TaskOf[j]] = h],
           record.task = TaskOf[j], record.state = current_state(h),
           IsWorkflowPath(h), h # <<>>,
           \/ records[RunOf[j]] = <<>> /\ history[TaskOf[j]] = <<>>
           \/ OwnedBy(j, records[RunOf[j]]),
           record.state = "completed" => Merged(j),
           \A c \in Callers : calls'[c] \in {calls[c], Idle},
           UNCHANGED git
    PROVE  HistoryInv'
<1> DEFINE r == RunOf[j]
           t == TaskOf[j]
           recs == Append(records[r], record)
<1>1. r \in Runs /\ t \in Tasks /\ records[r] \in Seq(Record)
  BY TransactionalExecutionAssumption DEF TypeOK
<1>2. /\ recs \in Seq(Record) /\ recs # <<>> /\ Len(recs) = Len(records[r]) + 1
      /\ recs[Len(recs)] = record /\ \A i \in 1..Len(records[r]) : recs[i] = records[r][i]
  <2>1. ASSUME NEW s \in Seq(Record), NEW x \in Record
        PROVE  /\ Append(s, x) \in Seq(Record) /\ Append(s, x) # <<>>
               /\ Len(Append(s, x)) = Len(s) + 1 /\ Append(s, x)[Len(s) + 1] = x
               /\ \A i \in 1..Len(s) : Append(s, x)[i] = s[i]
    BY AppendProperties
  <2>2. records[r] \in Seq(Record) /\ record \in Record
    BY <1>1
  <2> QED
    BY ONLY <2>1, <2>2, Zenon
<1>3. /\ records'[r] = recs /\ \A q \in Runs \ {r} : records'[q] = records[q]
      /\ history'[t] = h /\ \A u \in Tasks \ {t} : history'[u] = history[u]
  BY <1>1 DEF TypeOK
<1> HIDE DEF recs
<1>4. \A q \in Runs \ {r} : records[q] # <<>> => records[q][1].task # t
  <2>1. \/ records[r] = <<>> /\ history[t] = <<>>
        \/ records[r] # <<>> /\ records[r][1].task = t
    BY DEF OwnedBy
  <2> QED
    BY <1>1, <2>1, OneRunFrame
<1>5. \A i \in 1..Len(recs) : recs[i].task = t
  <2>1. Len(records[r]) \in Nat /\ (records[r] = <<>> => Len(records[r]) = 0)
    BY <1>1
  <2>2. records[r] # <<>> => \A i \in 1..Len(records[r]) : records[r][i].task = t
    BY <1>1 DEF HistoryInv, RunOK, OwnedBy
  <2> QED
    BY <1>2, <2>1, <2>2
<1>6. recs[1].task = t
  BY <1>1, <1>2, <1>5
<1>7. ASSUME NEW q \in Runs, records'[q] # <<>>
      PROVE  /\ records'[q][1].task \in Tasks
             /\ \A i \in 1..Len(records'[q]) : records'[q][i].task = records'[q][1].task
             /\ history'[records'[q][1].task] # <<>>
             /\ current_state(history'[records'[q][1].task]) = records'[q][Len(records'[q])].state
  <2>1. CASE q = r
    <3>1. records'[q] = recs /\ recs[Len(recs)] = record /\ history'[t] = h
      BY <1>2, <1>3, <2>1
    <3> QED
      BY <1>1, <1>5, <1>6, <3>1
  <2>2. CASE q # r
    <3>1. records'[q] = records[q] /\ records[q] # <<>> /\ records[q] \in Seq(Record)
      BY <1>3, <1>7, <2>2 DEF TypeOK
    <3>2. records[q][1] \in Record
      BY <3>1
    <3>3. records[q][1].task \in Tasks \ {t}
      BY <1>4, <2>2, <3>1, <3>2 DEF Record
    <3>4. history'[records[q][1].task] = history[records[q][1].task]
      BY <1>3, <3>3
    <3>5. RunOK(records[q], history[records[q][1].task])
      BY DEF HistoryInv
    <3> QED
      BY <3>1, <3>3, <3>4, <3>5 DEF RunOK
  <2> QED
    BY <2>1, <2>2
<1>8. \A q \in Runs : RunOK(records'[q], history'[records'[q][1].task])
  BY <1>7 DEF RunOK
<1>9. \A p, q \in Runs :
         records'[p] # <<>> /\ records'[q] # <<>> /\ records'[p][1].task = records'[q][1].task => p = q
  BY <1>3, <1>4, <1>6 DEF HistoryInv
<1>10. \A u \in Tasks : IsWorkflowPath(history'[u])
  BY <1>3 DEF HistoryInv

\* A job either names this run and task or is not disturbed.
<1>11. ASSUME NEW k \in Jobs, OwnedBy(k, records'[RunOf[k]]) \/ OwnedBy(k, records[RunOf[k]])
       PROVE  \/ k = j
              \/ records'[RunOf[k]] = records[RunOf[k]] /\ StateOf(k)' = StateOf(k)
  <2>1. RunOf[k] \in Runs /\ TaskOf[k] \in Tasks
    BY TransactionalExecutionAssumption
  <2>2. CASE RunOf[k] = r
    <3>1. TaskOf[k] = t
      BY <1>3, <1>6, <1>11, <2>2 DEF OwnedBy
    <3> QED
      BY <2>2, <3>1, JobAssumption
  <2>3. CASE RunOf[k] # r
    <3>1. records'[RunOf[k]] = records[RunOf[k]]
      BY <1>3, <2>1, <2>3
    <3>2. TaskOf[k] # t
      BY <1>4, <1>11, <2>1, <2>3, <3>1 DEF OwnedBy
    <3> QED
      BY <1>3, <2>1, <3>1, <3>2 DEF StateOf
  <2> QED
    BY <2>2, <2>3
<1>12. \A k \in Jobs : Merged(k)' <=> Merged(k)
  BY DEF git, Merged
<1>13. ASSUME NEW k \in Jobs
       PROVE  WorktreeOK(k, records[RunOf[k]], StateOf(k))'
  <2>1. WorktreeOK(k, records[RunOf[k]], StateOf(k))
    BY DEF HistoryInv
  <2>2. /\ workspace' = workspace /\ target' = target /\ base' = base
    BY DEF git
  <2>3. CASE k = j
    <3>1. StateOf(k)' = record.state /\ records'[RunOf[k]] = recs
      BY <1>1, <1>3, <2>3 DEF StateOf
    <3>2. OwnedBy(j, recs)
      BY <1>2, <1>6 DEF OwnedBy
    <3>3. Approved(records[r]) => Approved(recs)
      <4>1. Len(records[r]) \in Nat
        BY <1>1
      <4> QED
        BY <1>2, <4>1 DEF Approved
    <3> QED
      BY <1>12, <2>1, <2>2, <2>3, <3>1, <3>2, <3>3 DEF WorktreeOK
  <2>4. CASE k # j
    <3>1. OwnedBy(k, records'[RunOf[k]]) \/ OwnedBy(k, records[RunOf[k]]) =>
             records'[RunOf[k]] = records[RunOf[k]] /\ StateOf(k)' = StateOf(k)
      BY <1>11, <2>4
    <3> QED
      BY <1>12, <2>1, <2>2, <3>1 DEF WorktreeOK
  <2> QED
    BY <2>3, <2>4
<1>14. ASSUME NEW c \in Callers, NEW k \in Jobs, calls'[c] # Idle, calls'[c].job = k
       PROVE  CallOK(calls'[c], records'[RunOf[k]], StateOf(k)', Merged(k)')
  <2>1. calls'[c] = calls[c] /\ calls[c] # Idle
    BY <1>14
  <2>2. calls[c] \in Call /\ calls[c].job = k /\ RunOf[k] \in Runs
    BY <1>14, <2>1, TransactionalExecutionAssumption DEF TypeOK
  <2>3. CallOK(calls[c], records[RunOf[k]], StateOf(k), Merged(k))
    BY <2>1, <2>2 DEF HistoryInv
  <2>4. calls[c].op # "execute" =>
           \/ records'[RunOf[k]] = records[RunOf[k]] /\ StateOf(k)' = StateOf(k)
           \/ \E rec \in Record : records'[RunOf[k]] = Append(records[RunOf[k]], rec)
    <3>1. calls[c].op # "execute" => OwnedBy(k, records[RunOf[k]])
      BY <2>2, <2>3 DEF CallOK, StageCallOK
    <3>2. k = j => records'[RunOf[k]] = Append(records[RunOf[k]], record)
      BY <1>3 DEF recs
    <3> QED
      BY <1>11, <3>1, <3>2
  <2>5. /\ records[RunOf[k]] \in Seq(Record) /\ records'[RunOf[k]] \in Seq(Record)
        /\ Merged(k) \in BOOLEAN /\ Merged(k)' \in BOOLEAN
    BY <2>2 DEF TypeOK, Merged
  <2>6. Merged(k) => Merged(k)'
    BY <1>12
  <2> DEFINE call == calls[c]
             before == records[RunOf[k]]
             after == records'[RunOf[k]]
             state == StateOf(k)
             later == StateOf(k)'
             merged == Merged(k)
             done == Merged(k)'
  <2>7. /\ call \in Call /\ before \in Seq(Record) /\ after \in Seq(Record)
        /\ merged \in BOOLEAN /\ done \in BOOLEAN
    BY <2>2, <2>5
  <2>8. CallOK(call, before, state, merged) /\ (merged => done)
    BY <2>3, <2>6
  <2>9. call.op # "execute" =>
           (after = before /\ later = state) \/ \E rec \in Record : after = Append(before, rec)
    BY <2>4
  <2> HIDE DEF call, before, after, state, later, merged, done
  <2>10. CallOK(call, after, later, done)
    BY <2>7, <2>8, <2>9, StageCallKeeps
  <2> QED
    BY <2>1, <2>10 DEF call, after, later, done
<1> QED
  BY <1>8, <1>9, <1>10, <1>13, <1>14 DEF HistoryInv

-----------------------------------------------------------------------------
(* The steps *)

\* At first there is no record, no worktree, and no call.
LEMMA InitHistory == Init => HistoryInv
<1> SUFFICES ASSUME Init PROVE HistoryInv
  OBVIOUS
<1>1. /\ \A t \in Tasks : history[t] = <<>>
      /\ \A r \in Runs : records[r] = <<>>
      /\ \A j \in Jobs : workspace[j] = "none" /\ RunOf[j] \in Runs
      /\ \A c \in Callers : calls[c] = Idle
      /\ target = <<>>
  BY TransactionalExecutionAssumption DEF Init
<1>2. \A t \in Tasks : IsWorkflowPath(history[t])
  BY <1>1 DEF IsWorkflowPath
<1>3. \A j \in Jobs : WorktreeOK(j, records[RunOf[j]], StateOf(j))
  BY <1>1 DEF WorktreeOK, OwnedBy
<1> QED
  BY <1>1, <1>2, <1>3 DEF HistoryInv, RunOK

\* A step of one call that leaves the store and the repository alone
LEMMA CallMoves ==
    ASSUME TypeOK, TypeOK', HistoryInv, NEW c \in Callers, NEW d,
           calls' = [calls EXCEPT ![c] = d],
           UNCHANGED <<history, records, workspace, base, target>>,
           d = Idle \/ \A j \in Jobs : d.job = j => CallOK(d, records[RunOf[j]], StateOf(j), Merged(j))
    PROVE  HistoryInv'
<1>1. calls'[c] = d /\ \A x \in Callers \ {c} : calls'[x] = calls[x]
  BY DEF TypeOK
<1>2. \A j \in Jobs : Merged(j)' <=> Merged(j)
  BY DEF Merged
<1>3. \A j \in Jobs : WorktreeOK(j, records[RunOf[j]], StateOf(j))'
  BY DEF HistoryInv, WorktreeOK, Merged, StateOf
<1>4. ASSUME NEW x \in Callers, NEW j \in Jobs
      PROVE  \/ calls'[x] \in {calls[x], Idle}
             \/ calls'[x].job = j => CallOK(calls'[x], records[RunOf[j]], StateOf(j), Merged(j)')
  <2>1. CASE x # c \/ d = Idle
    BY <1>1, <2>1
  <2>2. CASE x = c /\ d # Idle
    <3>1. d.job = j => CallOK(d, records[RunOf[j]], StateOf(j), Merged(j))
      BY <2>2
    <3>2. Merged(j)' = Merged(j)
      BY <1>2 DEF Merged
    <3> QED
      BY <1>1, <2>2, <3>1, <3>2
  <2> QED
    BY <2>1, <2>2
<1> QED
  BY <1>2, <1>3, <1>4, QuietFrame

\* What the invariant says of a call that is under way
LEMMA HistoryCallFacts ==
    ASSUME TypeOK, HistoryInv, NEW c \in Callers, calls[c] # Idle
    PROVE  LET j == calls[c].job
           IN  /\ calls[c] \in Call /\ j \in Jobs /\ TaskOf[j] \in Tasks /\ RunOf[j] \in Runs
               /\ records[RunOf[j]] \in Seq(Record) /\ history[TaskOf[j]] \in Seq(Transition)
               /\ CallOK(calls[c], records[RunOf[j]], StateOf(j), Merged(j))
BY TransactionalExecutionAssumption DEF TypeOK, HistoryInv, Call

\* execute, except for its commit of the outcome and the launch
LEMMA ExecuteHistory ==
    ASSUME TypeOK, TypeOK', HistoryInv, NEW c \in Callers,
           \/ \E j \in Jobs : BeginExecute(c, j)
           \/ ListPreexisting(c) \/ CommitIntent(c) \/ LifecycleError(c) \/ Crash(c)
           \/ \E outcome \in {"failed", "repairing", "reviewing"} : CollectOutcome(c, outcome)
    PROVE  HistoryInv'
<1>1. UNCHANGED <<history, records, workspace, base, target>>
  BY DEF BeginExecute, ListPreexisting, CommitIntent, LifecycleError, Crash, CollectOutcome, store, git
<1>2. CASE calls' = [calls EXCEPT ![c] = Idle]
  BY <1>1, <1>2, CallMoves
<1>3. ASSUME NEW j \in Jobs, BeginExecute(c, j) PROVE HistoryInv'
  <2> DEFINE d == [op |-> "execute", step |-> "list", job |-> j, known |-> {},
                   buffered |-> <<>>, state |-> "draft", task_seq |-> 0, run_seq |-> 0]
  <2>1. calls' = [calls EXCEPT ![c] = d]
    BY <1>3 DEF BeginExecute
  <2>2. d.op = "execute" /\ d.step = "list"
    OBVIOUS
  <2> HIDE DEF d
  <2>3. \A k \in Jobs : CallOK(d, records[RunOf[k]], StateOf(k), Merged(k))
    BY <2>2 DEF CallOK, ExecuteSteps
  <2> QED
    BY <1>1, <2>1, <2>3, CallMoves
\* A call of execute that goes on
<1>4. ASSUME calls[c] # Idle, calls[c].step \in ExecuteSteps, NEW d,
             calls' = [calls EXCEPT ![c] = d], d.op = calls[c].op,
             \/ d.step \in {"intent", "launch"}
             \/ /\ d.step = "outcome" /\ d.state \in {"failed", "repairing", "reviewing"}
                /\ d.buffered = ExecutionPath(d.state, AuthorityOf[d.job])
      PROVE  HistoryInv'
  <2>1. calls[c].op = "execute"
    BY <1>4, HistoryCallFacts DEF CallOK
  <2>2. \A k \in Jobs : CallOK(d, records[RunOf[k]], StateOf(k), Merged(k))
    BY <1>4, <2>1 DEF CallOK, ExecuteSteps
  <2> QED
    BY <1>1, <1>4, <2>2, CallMoves
<1>5. CASE ListPreexisting(c)
  <2> DEFINE known == ListManifests(registry[calls[c].job])
             d == [calls[c] EXCEPT !.step = "intent", !.known = known]
  <2>1. calls' = [calls EXCEPT ![c] = d] /\ calls[c] # Idle /\ calls[c].step = "list"
    BY <1>5 DEF ListPreexisting, At
  <2>2. d.op = calls[c].op /\ d.step = "intent"
    BY <2>1, HistoryCallFacts DEF Call
  <2> HIDE DEF d
  <2> QED
    BY <1>4, <2>1, <2>2 DEF ExecuteSteps
<1>6. CASE CommitIntent(c) /\ Goto(c, "launch")
  <2> DEFINE d == [calls[c] EXCEPT !.step = "launch"]
  <2>1. calls' = [calls EXCEPT ![c] = d] /\ calls[c] # Idle /\ calls[c].step = "intent"
    BY <1>6 DEF CommitIntent, At, Goto
  <2>2. d.op = calls[c].op /\ d.step = "launch"
    BY <2>1, HistoryCallFacts DEF Call
  <2> HIDE DEF d
  <2> QED
    BY <1>4, <2>1, <2>2 DEF ExecuteSteps
<1>7. ASSUME NEW outcome \in {"failed", "repairing", "reviewing"}, CollectOutcome(c, outcome)
      PROVE  HistoryInv'
  <2> DEFINE path == ExecutionPath(outcome, AuthorityOf[calls[c].job])
             d == [calls[c] EXCEPT !.step = "outcome", !.state = outcome, !.buffered = path]
  <2>1. calls' = [calls EXCEPT ![c] = d] /\ calls[c] # Idle /\ calls[c].step = "collect"
    BY <1>7 DEF CollectOutcome, At
  <2> HIDE DEF path
  <2>2. /\ d.op = calls[c].op /\ d.step = "outcome" /\ d.state = outcome /\ d.buffered = path
        /\ d.job = calls[c].job
    BY <2>1, HistoryCallFacts DEF Call
  <2> HIDE DEF d
  <2>3. d.buffered = ExecutionPath(d.state, AuthorityOf[d.job])
    BY <2>2 DEF path
  <2> QED
    BY <1>4, <2>1, <2>2, <2>3 DEF ExecuteSteps
<1> QED
  BY <1>2, <1>3, <1>5, <1>6, <1>7 DEF CommitIntent, LifecycleError, Crash, End

\* A stage begins with what it has read, and buffers a legal transition.
LEMMA BeginStageHistory ==
    ASSUME TypeOK, TypeOK', HistoryInv, NEW c \in Callers, NEW j \in Jobs,
           NEW op, NEW result, NEW actor, BeginStage(c, j, op, result, actor)
    PROVE  HistoryInv'
<1> DEFINE t == TaskOf[j]
           recs == records[RunOf[j]]
           state == current_state(history[t])
           tr == Step(state, result, actor)
           staged == IF op = "cleanup" THEN <<>> ELSE <<tr>>
           step == CASE op = "integrate" -> "git_commit"
                     [] op = "cleanup" -> "remove"
                     [] OTHER -> "commit"
           d == [op |-> op, job |-> j, known |-> manifests[j], buffered |-> staged, state |-> result,
                 task_seq |-> Len(history[t]), run_seq |-> Len(recs), step |-> step]
<1>1. /\ calls' = [calls EXCEPT ![c] = d] /\ OwnedBy(j, recs) /\ StageReady(op, recs, state)
      /\ op \in {"review", "decide", "integrate", "cleanup"}
      /\ result \in StageResults(op) /\ actor \in StageActors(op)
      /\ op \in {"review", "decide"} => CanTransition(state, result, actor, "passing", "none", TRUE)
      /\ UNCHANGED <<history, records, workspace, base, target>>
  BY DEF BeginStage, OwnedBy, Operations, store, git
<1>2. /\ step \notin ExecuteSteps /\ (step = "remove" => op = "cleanup")
      /\ step \in {"git_commit", "git_merge"} => op = "integrate"
      /\ op = "integrate" => step # "commit"
  BY DEF ExecuteSteps
<1>3. recs \in Seq(Record) /\ state = StateOf(j)
  BY TransactionalExecutionAssumption DEF TypeOK, StateOf
<1>4. op # "cleanup" => Legal(tr)
  <2>1. tr.from = state /\ tr.to = result /\ tr.actor = actor
    BY DEF Step
  <2>2. op \in {"review", "decide"} => Legal(tr)
    BY <1>1, <2>1 DEF CanTransition, Legal
  <2>3. op = "integrate" => state = "integrating" /\ result = "completed" /\ actor = "human"
    BY <1>1 DEF StageReady, StageResults, StageActors
  <2>4. op = "integrate" => Legal(tr)
    BY <2>1, <2>3 DEF Legal, ALLOWED_TRANSITIONS, Authorized, TaskStates
  <2> QED
    BY <1>1, <2>2, <2>4
<1>5. op = "integrate" => Approved(recs)
  BY <1>1 DEF StageReady, Approved
<1>6. op = "cleanup" => Merged(j)
  <2>1. op = "cleanup" => state = "completed"
    BY <1>1 DEF StageReady
  <2>2. WorktreeOK(j, recs, StateOf(j))
    BY DEF HistoryInv
  <2> QED
    BY <1>1, <1>3, <2>1, <2>2 DEF WorktreeOK
<1>7. op # "cleanup" => Len(staged) = 1 /\ staged[1].to = result /\ staged[1] = tr /\ staged[1].from = state
  BY DEF Step
<1>8. op = "cleanup" => staged = <<>>
  OBVIOUS
<1>9. /\ d.op = op /\ d.job = j /\ d.buffered = staged /\ d.state = result
      /\ d.run_seq = Len(recs) /\ d.step = step
  OBVIOUS
<1>10. Len(recs) \in Nat
  BY <1>3
<1> HIDE DEF d, staged, step, tr, recs, state
<1>11. StageCallOK(d, recs, state, Merged(j))
  BY <1>1, <1>2, <1>4, <1>5, <1>6, <1>7, <1>8, <1>9, <1>10 DEF StageCallOK
<1>12. CallOK(d, recs, state, Merged(j))
  BY <1>1, <1>2, <1>9, <1>11 DEF CallOK, ExecuteSteps
<1>13. \A k \in Jobs : d.job = k => CallOK(d, records[RunOf[k]], StateOf(k), Merged(k))
  BY <1>3, <1>9, <1>12 DEF recs
<1> QED
  BY <1>1, <1>13, CallMoves

\* A call of a later stage goes on to another step of its stage.
LEMMA StageGoes ==
    ASSUME NEW c \in Call, NEW recs, NEW state, NEW merged \in BOOLEAN, NEW done \in BOOLEAN,
           CallOK(c, recs, state, merged), merged => done, c.op # "execute",
           NEW step \in {"git_merge", "commit"},
           step = "git_merge" => c.op = "integrate", step = "commit" /\ c.op = "integrate" => done
    PROVE  CallOK([c EXCEPT !.step = step], recs, state, done)
<1> DEFINE d == [c EXCEPT !.step = step]
<1>1. /\ d.op = c.op /\ d.step = step /\ d.state = c.state /\ d.buffered = c.buffered
      /\ d.job = c.job /\ d.run_seq = c.run_seq
  BY DEF Call
<1> HIDE DEF d
<1>2. StageCallOK(d, recs, state, done)
  BY <1>1 DEF CallOK, StageCallOK
<1>3. CallOK(d, recs, state, done)
  BY <1>1, <1>2 DEF CallOK, ExecuteSteps
<1> QED
  BY <1>3 DEF d

\* A step of one call that commits nothing but may change the repository
LEMMA GitFrame ==
    ASSUME TypeOK, TypeOK', HistoryInv, NEW c \in Callers, NEW d,
           calls' = [calls EXCEPT ![c] = d], UNCHANGED <<history, records>>,
           \A j \in Jobs : WorktreeOK(j, records[RunOf[j]], StateOf(j))',
           \A j \in Jobs : Merged(j) => Merged(j)',
           d = Idle \/ \A j \in Jobs : d.job = j => CallOK(d, records[RunOf[j]], StateOf(j), Merged(j)')
    PROVE  HistoryInv'
<1>1. calls'[c] = d /\ \A x \in Callers \ {c} : calls'[x] = calls[x]
  BY DEF TypeOK
<1>2. ASSUME NEW x \in Callers, NEW j \in Jobs
      PROVE  \/ calls'[x] \in {calls[x], Idle}
             \/ calls'[x].job = j => CallOK(calls'[x], records[RunOf[j]], StateOf(j), Merged(j)')
  BY <1>1
<1> QED
  BY <1>2, QuietFrame

\* What is said of a job whose part of the repository stays
LEMMA WorktreeKeeps ==
    ASSUME NEW j \in Jobs, UNCHANGED <<history, records>>,
           WorktreeOK(j, records[RunOf[j]], StateOf(j)),
           workspace'[j] = workspace[j], base'[j] = base[j],
           Merged(j) => Merged(j)',
           \A i \in 1..Len(target') : target'[i] = j => i \in 1..Len(target) /\ target[i] = j
    PROVE  WorktreeOK(j, records[RunOf[j]], StateOf(j))'
BY DEF WorktreeOK, StateOf

\* The controller makes the worktree.
LEMMA LaunchHistory ==
    ASSUME TypeOK, TypeOK', HistoryInv, NEW c \in Callers, Launch(c)
    PROVE  HistoryInv'
<1> DEFINE j == calls[c].job
           d == [calls[c] EXCEPT !.step = "collect"]
<1>1. /\ calls[c] # Idle /\ calls[c].step = "launch" /\ UNCHANGED <<history, records, target>>
      /\ \/ /\ workspace[j] = "none" /\ workspace' = [workspace EXCEPT ![j] = "changed"]
            /\ \E b \in 0..Len(target) : base' = [base EXCEPT ![j] = b]
            /\ calls' = [calls EXCEPT ![c] = d]
         \/ UNCHANGED <<workspace, base>> /\ calls' = [calls EXCEPT ![c] = Idle]
  BY DEF Launch, At, Goto, End, store
<1>2. /\ calls[c] \in Call /\ j \in Jobs /\ CallOK(calls[c], records[RunOf[j]], StateOf(j), Merged(j))
  BY <1>1, HistoryCallFacts
<1>3. CASE UNCHANGED <<workspace, base>> /\ calls' = [calls EXCEPT ![c] = Idle]
  BY <1>1, <1>3, CallMoves
<1>4. CASE /\ workspace[j] = "none" /\ workspace' = [workspace EXCEPT ![j] = "changed"]
           /\ \E b \in 0..Len(target) : base' = [base EXCEPT ![j] = b]
           /\ calls' = [calls EXCEPT ![c] = d]
  <2>1. d.op = "execute" /\ d.step = "collect"
    BY <1>1, <1>2 DEF CallOK, ExecuteSteps, Call
  <2>2. calls' = [calls EXCEPT ![c] = d]
    BY <1>4
  <2> HIDE DEF d
  <2>3. \A k \in Jobs : Merged(k)' <=> Merged(k)
    BY <1>1 DEF Merged
  <2>4. ASSUME NEW k \in Jobs PROVE WorktreeOK(k, records[RunOf[k]], StateOf(k))'
    <3>1. WorktreeOK(k, records[RunOf[k]], StateOf(k))
      BY DEF HistoryInv
    <3>2. CASE k # j
      <4>1. workspace'[k] = workspace[k] /\ base'[k] = base[k]
        BY <1>4, <3>2 DEF TypeOK
      <4> QED
        BY <1>1, <2>3, <3>1, <4>1, WorktreeKeeps
    <3>3. CASE k = j
      <4>1. workspace'[k] = "changed" /\ workspace[k] = "none"
        BY <1>4, <3>3 DEF TypeOK
      <4>2. \A i \in 1..Len(target) : target[i] # k
        BY <3>1, <4>1 DEF WorktreeOK
      <4> QED
        BY <1>1, <2>3, <3>1, <4>1, <4>2 DEF WorktreeOK, StateOf
    <3> QED
      BY <3>2, <3>3
  <2>5. \A k \in Jobs : CallOK(d, records[RunOf[k]], StateOf(k), Merged(k)')
    BY <2>1 DEF CallOK, ExecuteSteps
  <2> QED
    BY <1>1, <2>2, <2>3, <2>4, <2>5, GitFrame
<1> QED
  BY <1>1, <1>3, <1>4

\* The integrator commits the reviewed worktree.
LEMMA GitCommitHistory ==
    ASSUME TypeOK, TypeOK', HistoryInv, NEW c \in Callers, GitCommit(c)
    PROVE  HistoryInv'
<1> DEFINE j == calls[c].job
           d == [calls[c] EXCEPT !.step = "git_merge"]
<1>1. /\ calls[c] # Idle /\ calls[c].step = "git_commit" /\ UNCHANGED <<history, records, target, base>>
      /\ \/ /\ workspace[j] \in {"changed", "committed"}
            /\ workspace' = [workspace EXCEPT ![j] = "committed"]
            /\ calls' = [calls EXCEPT ![c] = d]
         \/ UNCHANGED workspace /\ calls' = [calls EXCEPT ![c] = Idle]
  BY DEF GitCommit, CommitReachable, At, Goto, End, store
<1>2. /\ calls[c] \in Call /\ j \in Jobs /\ CallOK(calls[c], records[RunOf[j]], StateOf(j), Merged(j))
      /\ calls[c].op = "integrate"
  BY <1>1, HistoryCallFacts DEF CallOK
<1>3. CASE UNCHANGED workspace /\ calls' = [calls EXCEPT ![c] = Idle]
  BY <1>1, <1>3, CallMoves
<1>4. CASE /\ workspace[j] \in {"changed", "committed"}
           /\ workspace' = [workspace EXCEPT ![j] = "committed"]
           /\ calls' = [calls EXCEPT ![c] = d]
  <2>1. \A k \in Jobs : Merged(k)' <=> Merged(k)
    BY <1>1 DEF Merged
  <2>2. OwnedBy(j, records[RunOf[j]]) /\ Approved(records[RunOf[j]])
    BY <1>2 DEF CallOK, StageCallOK
  <2>3. ASSUME NEW k \in Jobs PROVE WorktreeOK(k, records[RunOf[k]], StateOf(k))'
    <3>1. WorktreeOK(k, records[RunOf[k]], StateOf(k))
      BY DEF HistoryInv
    <3>2. CASE k # j
      <4>1. workspace'[k] = workspace[k] /\ base'[k] = base[k]
        BY <1>1, <1>4, <3>2 DEF TypeOK
      <4> QED
        BY <1>1, <2>1, <3>1, <4>1, WorktreeKeeps
    <3>3. CASE k = j
      <4>1. workspace'[k] = "committed" /\ workspace[k] # "removed"
        BY <1>2, <1>4, <3>3 DEF TypeOK
      <4> HIDE DEF j
      <4> QED
        BY <1>1, <2>1, <2>2, <3>1, <3>3, <4>1 DEF WorktreeOK, StateOf
    <3> QED
      BY <3>2, <3>3
  <2>4. \A k \in Jobs : d.job = k => CallOK(d, records[RunOf[k]], StateOf(k), Merged(k)')
    <3>1. d.job = j
      BY <1>2 DEF Call
    <3>2. Merged(j) \in BOOLEAN
      BY DEF Merged
    <3>3. CallOK(d, records[RunOf[j]], StateOf(j), Merged(j))
      BY <1>2, <3>2, StageGoes
    <3>4. \A k \in Jobs : Merged(k)' = Merged(k)
      BY <2>1 DEF Merged
    <3> HIDE DEF d, j
    <3> QED
      BY <3>1, <3>3, <3>4
  <2>5. calls' = [calls EXCEPT ![c] = d]
    BY <1>4
  <2> HIDE DEF d
  <2> QED
    BY <1>1, <2>1, <2>3, <2>4, <2>5, GitFrame
<1> QED
  BY <1>1, <1>3, <1>4

\* A commit arrives on the target branch, of job k or of nobody in the model.
LEMMA TargetGrows ==
    ASSUME TypeOK, HistoryInv, NEW x, target' = Append(target, x), x \in Jobs \cup {Elsewhere},
           UNCHANGED <<history, records, workspace, base>>,
           x \in Jobs => workspace[x] = "committed" /\ Len(target) = base[x]
    PROVE  /\ \A j \in Jobs : WorktreeOK(j, records[RunOf[j]], StateOf(j))'
           /\ \A j \in Jobs : Merged(j) => Merged(j)'
           /\ x \in Jobs => Merged(x)'
<1>1. /\ Len(target) \in Nat /\ Len(target') = Len(target) + 1 /\ target'[Len(target) + 1] = x
      /\ \A i \in 1..Len(target) : target'[i] = target[i]
  BY DEF TypeOK
<1>2. \A j \in Jobs : Merged(j) => Merged(j)'
  BY <1>1 DEF Merged
<1>3. x \in Jobs => Merged(x)'
  BY <1>1 DEF Merged
<1>4. ASSUME NEW j \in Jobs PROVE WorktreeOK(j, records[RunOf[j]], StateOf(j))'
  <2>1. WorktreeOK(j, records[RunOf[j]], StateOf(j))
    BY DEF HistoryInv
  <2>2. ASSUME NEW i \in 1..Len(target'), target'[i] = j
        PROVE  i = base[j] + 1 /\ workspace[j] \in {"committed", "removed"}
    <3>1. CASE i \in 1..Len(target)
      BY <1>1, <2>1, <2>2, <3>1 DEF WorktreeOK
    <3>2. CASE i = Len(target) + 1
      BY <1>1, <2>2, <3>2
    <3> QED
      BY <1>1, <3>1, <3>2
  <2> QED
    BY <1>2, <2>1, <2>2 DEF WorktreeOK, StateOf
<1> QED
  BY <1>2, <1>3, <1>4

\* The merge, or the recognition that it was made
LEMMA GitMergeHistory ==
    ASSUME TypeOK, TypeOK', HistoryInv, NEW c \in Callers, GitMerge(c)
    PROVE  HistoryInv'
<1> DEFINE j == calls[c].job
           d == [calls[c] EXCEPT !.step = "commit"]
<1>1. /\ calls[c] # Idle /\ calls[c].step = "git_merge"
      /\ UNCHANGED <<history, records, workspace, base>>
      /\ calls' = [calls EXCEPT ![c] = d] \/ calls' = [calls EXCEPT ![c] = Idle]
      /\ \/ /\ workspace[j] = "committed" /\ Len(target) = base[j] /\ target' = Append(target, j)
         \/ target' = target /\ calls' = [calls EXCEPT ![c] = Idle]
         \/ target' = target /\ MergedLast(j)
  BY DEF GitMerge, MergeAlreadyDone, CompleteTransition, At, Goto, End, store
<1>2. /\ calls[c] \in Call /\ j \in Jobs /\ CallOK(calls[c], records[RunOf[j]], StateOf(j), Merged(j))
      /\ calls[c].op = "integrate"
  BY <1>1, HistoryCallFacts DEF CallOK
<1>3. Merged(j) \in BOOLEAN /\ Merged(j)' \in BOOLEAN
  BY DEF Merged

\* With the job merged, the call may go on to its commit.
<1>4. ASSUME NEW k \in Jobs, k = j, Merged(k) => Merged(k)', Merged(k)'
      PROVE  \A x \in Jobs : d.job = x => CallOK(d, records[RunOf[x]], StateOf(x), Merged(x)')
  <2>1. d.job = k
    BY <1>2, <1>4 DEF Call
  <2> DEFINE merged == Merged(k)
             done == Merged(k)'
             recs == records[RunOf[k]]
             state == StateOf(k)
             call == calls[c]
  <2>2. merged \in BOOLEAN /\ done \in BOOLEAN
    BY DEF Merged
  <2>3. call \in Call /\ call.op = "integrate" /\ CallOK(call, recs, state, merged) /\ done
    BY <1>2, <1>4
  <2> HIDE DEF merged, done, recs, state, call
  <2>4. CallOK([call EXCEPT !.step = "commit"], recs, state, done)
    BY <2>2, <2>3, StageGoes
  <2> QED
    BY <2>1, <2>4 DEF done, recs, state, call
<1>5. CASE target' = target /\ calls' = [calls EXCEPT ![c] = Idle]
  BY <1>1, <1>5, CallMoves
<1>6. CASE target' = target /\ MergedLast(j) /\ calls' = [calls EXCEPT ![c] = d]
  <2>1. PICK k \in Jobs : k = j
    BY <1>2
  <2>2. Merged(k)
    <3>1. target \in Seq(Jobs \cup {Elsewhere}) /\ target # <<>> /\ target[Len(target)] = k
      BY <1>6, <2>1 DEF MergedLast, TypeOK
    <3>2. Len(target) \in 1..Len(target)
      BY <3>1
    <3> QED
      BY <3>1, <3>2 DEF Merged
  <2>3. \A x \in Jobs : Merged(x)' <=> Merged(x)
    BY <1>6 DEF Merged
  <2>4. \A x \in Jobs : d.job = x => CallOK(d, records[RunOf[x]], StateOf(x), Merged(x)')
    BY <1>4, <2>1, <2>2, <2>3
  <2>5. \A x \in Jobs : Merged(x)' = Merged(x)
    BY <2>3 DEF Merged
  <2>6. \A x \in Jobs : d.job = x => CallOK(d, records[RunOf[x]], StateOf(x), Merged(x))
    BY <2>4, <2>5
  <2>7. calls' = [calls EXCEPT ![c] = d]
    BY <1>6
  <2> HIDE DEF d
  <2> QED
    BY <1>1, <1>6, <2>6, <2>7, CallMoves
<1>7. CASE workspace[j] = "committed" /\ Len(target) = base[j] /\ target' = Append(target, j)
  <2>1. PICK k \in Jobs : k = j
    BY <1>2
  <2>2. target' = Append(target, k) /\ workspace[k] = "committed" /\ Len(target) = base[k]
    BY <1>7, <2>1
  <2>3. /\ \A x \in Jobs : WorktreeOK(x, records[RunOf[x]], StateOf(x))'
        /\ \A x \in Jobs : Merged(x) => Merged(x)'
        /\ Merged(k)'
    BY <1>1, <2>2, TargetGrows
  <2>4. \A x \in Jobs : d.job = x => CallOK(d, records[RunOf[x]], StateOf(x), Merged(x)')
    BY <1>4, <2>1, <2>3
  <2> HIDE DEF d
  <2> QED
    BY <1>1, <2>3, <2>4, GitFrame
<1> QED
  BY <1>1, <1>5, <1>6, <1>7

\* cleanup removes the worktree.
LEMMA RemoveHistory ==
    ASSUME TypeOK, TypeOK', HistoryInv, NEW c \in Callers, RemoveWorkspace(c)
    PROVE  HistoryInv'
<1> DEFINE j == calls[c].job
           d == [calls[c] EXCEPT !.step = "commit"]
<1>1. /\ calls[c] # Idle /\ calls[c].step = "remove" /\ UNCHANGED <<history, records, target, base>>
      /\ \/ /\ workspace[j] \in {"committed", "removed"}
            /\ workspace' = [workspace EXCEPT ![j] = "removed"]
            /\ calls' = [calls EXCEPT ![c] = d]
         \/ UNCHANGED workspace /\ calls' = [calls EXCEPT ![c] = Idle]
  BY DEF RemoveWorkspace, At, Goto, End, store
<1>2. /\ calls[c] \in Call /\ j \in Jobs /\ CallOK(calls[c], records[RunOf[j]], StateOf(j), Merged(j))
      /\ calls[c].op = "cleanup"
  BY <1>1, HistoryCallFacts DEF CallOK
<1>3. CASE UNCHANGED workspace /\ calls' = [calls EXCEPT ![c] = Idle]
  BY <1>1, <1>3, CallMoves
<1>4. CASE /\ workspace[j] \in {"committed", "removed"}
           /\ workspace' = [workspace EXCEPT ![j] = "removed"]
           /\ calls' = [calls EXCEPT ![c] = d]
  <2>1. \A k \in Jobs : Merged(k)' <=> Merged(k)
    BY <1>1 DEF Merged
  <2>2. Merged(j)
    BY <1>2 DEF CallOK, StageCallOK
  <2>3. ASSUME NEW k \in Jobs PROVE WorktreeOK(k, records[RunOf[k]], StateOf(k))'
    <3>1. WorktreeOK(k, records[RunOf[k]], StateOf(k))
      BY DEF HistoryInv
    <3>2. CASE k # j
      <4>1. workspace'[k] = workspace[k] /\ base'[k] = base[k]
        BY <1>1, <1>4, <3>2 DEF TypeOK
      <4> QED
        BY <1>1, <2>1, <3>1, <4>1, WorktreeKeeps
    <3>3. CASE k = j
      <4>1. workspace'[k] = "removed" /\ workspace[k] \in {"committed", "removed"}
        BY <1>2, <1>4, <3>3 DEF TypeOK
      <4>2. Merged(k)
        BY <2>2, <3>3
      <4> HIDE DEF j
      <4> QED
        BY <1>1, <2>1, <3>1, <4>1, <4>2 DEF WorktreeOK, StateOf
    <3> QED
      BY <3>2, <3>3
  <2>4. \A k \in Jobs : d.job = k => CallOK(d, records[RunOf[k]], StateOf(k), Merged(k)')
    <3>1. d.job = j
      BY <1>2 DEF Call
    <3>2. Merged(j) \in BOOLEAN
      BY DEF Merged
    <3>3. CallOK(d, records[RunOf[j]], StateOf(j), Merged(j))
      BY <1>2, <3>2, StageGoes
    <3>4. \A k \in Jobs : Merged(k)' = Merged(k)
      BY <2>1 DEF Merged
    <3> HIDE DEF d, j
    <3> QED
      BY <3>1, <3>3, <3>4
  <2>5. calls' = [calls EXCEPT ![c] = d]
    BY <1>4
  <2> HIDE DEF d
  <2> QED
    BY <1>1, <2>1, <2>3, <2>4, <2>5, GitFrame
<1> QED
  BY <1>1, <1>3, <1>4

\* A commit made elsewhere
LEMMA AdvanceHistory ==
    ASSUME TypeOK, TypeOK', HistoryInv, TargetAdvances
    PROVE  HistoryInv'
<1>1. /\ UNCHANGED <<history, records, workspace, base, calls>>
      /\ target' = Append(target, Elsewhere) /\ Elsewhere \notin Jobs
  BY TransactionalExecutionAssumption DEF TargetAdvances, store
<1>2. /\ \A x \in Jobs : WorktreeOK(x, records[RunOf[x]], StateOf(x))'
      /\ \A x \in Jobs : Merged(x) => Merged(x)'
  BY <1>1, TargetGrows
<1>3. \A x \in Callers : calls'[x] = calls[x]
  BY <1>1
<1> QED
  BY <1>1, <1>2, <1>3, QuietFrame

\* execute commits its outcome: the first record of its run, on an empty
\* history.
LEMMA CommitOutcomeHistory ==
    ASSUME TypeOK, TypeOK', HistoryInv, NEW c \in Callers, CommitOutcome(c)
    PROVE  HistoryInv'
<1> DEFINE k == calls[c].job
<1>1. /\ calls[c] # Idle /\ calls[c].step = "outcome" /\ UNCHANGED git
      /\ calls' = [calls EXCEPT ![c] = Idle]
  BY DEF CommitOutcome, At, End
<1>2. /\ k \in Jobs /\ AuthorityOf[k] \in {"human", "policy"}
      /\ CallOK(calls[c], records[RunOf[k]], StateOf(k), Merged(k))
      /\ calls[c].state \in {"failed", "repairing", "reviewing"}
      /\ calls[c].buffered = ExecutionPath(calls[c].state, AuthorityOf[k])
  BY <1>1, HistoryCallFacts, TransactionalExecutionAssumption DEF CallOK
<1>3. CASE UNCHANGED <<history, records>>
  BY <1>1, <1>3, CallMoves DEF git
<1>4. CASE ~UNCHANGED <<history, records>>
  <2>1. PICK j \in Jobs : j = k
    BY <1>2
  <2> DEFINE h == calls[c].buffered
             record == [task |-> TaskOf[j], stage |-> "execution", state |-> calls[c].state]
  <2>2. RunOf[j] \in Runs /\ TaskOf[j] \in Tasks
    BY TransactionalExecutionAssumption
  <2>3. /\ Len(history[TaskOf[j]]) = 0 /\ Len(records[RunOf[j]]) = 0
        /\ history' = [history EXCEPT ![TaskOf[j]] = history[TaskOf[j]] \o h]
        /\ records' = [records EXCEPT ![RunOf[j]] = Append(records[RunOf[j]], record)]
    BY <1>4, <2>1 DEF CommitOutcome, TransactionApplies, store
  <2>4. history[TaskOf[j]] = <<>> /\ records[RunOf[j]] = <<>>
    BY <2>2, <2>3 DEF TypeOK
  <2>5. h \in Seq(Transition) /\ IsWorkflowPath(h) /\ h # <<>> /\ current_state(h) = calls[c].state
    BY <1>2, ExecutionIsPath
  <2>6. record \in Record /\ record.task = TaskOf[j] /\ record.state = calls[c].state
    BY <1>2, <2>2 DEF Record, TaskStates
  <2>7. record.state # "completed"
    BY <1>2, <2>6
  <2> HIDE DEF h, record
  <2>8. history[TaskOf[j]] \o h = h
    BY <2>4, <2>5
  <2>9. /\ history' = [history EXCEPT ![TaskOf[j]] = h]
        /\ record.state = current_state(h)
        /\ \A x \in Callers : calls'[x] \in {calls[x], Idle}
    BY <1>1, <2>3, <2>5, <2>6, <2>8 DEF TypeOK
  <2> QED
    BY <1>1, <2>3, <2>4, <2>5, <2>6, <2>7, <2>9, CommitFrame
<1> QED
  BY <1>3, <1>4

\* A stage commits.  Its run has as many records as it has read, so the
\* state is the one its transition starts from.
LEMMA CommitStageHistory ==
    ASSUME TypeOK, TypeOK', HistoryInv, NEW c \in Callers, CommitStage(c)
    PROVE  HistoryInv'
<1> DEFINE k == calls[c].job
<1>1. /\ calls[c] # Idle /\ calls[c].step = "commit" /\ UNCHANGED git
      /\ calls' = [calls EXCEPT ![c] = Idle]
  BY DEF CommitStage, At, End
<1>2. /\ k \in Jobs /\ calls[c] \in Call
      /\ CallOK(calls[c], records[RunOf[k]], StateOf(k), Merged(k))
      /\ calls[c].op \in {"review", "decide", "integrate", "cleanup"}
  BY <1>1, HistoryCallFacts DEF CallOK, ExecuteSteps, Call, Operations
<1>3. CASE UNCHANGED <<history, records>>
  BY <1>1, <1>3, CallMoves DEF git
<1>4. CASE ~UNCHANGED <<history, records>>
  <2>1. PICK j \in Jobs : j = k
    BY <1>2
  <2> DEFINE call == calls[c]
             recs == records[RunOf[j]]
             g == history[TaskOf[j]]
             record == [task |-> TaskOf[j], stage |-> StageOf(call.op), state |-> call.state]
  <2>2. RunOf[j] \in Runs /\ TaskOf[j] \in Tasks
    BY TransactionalExecutionAssumption
  <2>3. /\ Len(recs) = call.run_seq
        /\ history' = [history EXCEPT ![TaskOf[j]] = g \o call.buffered]
        /\ records' = [records EXCEPT ![RunOf[j]] = Append(recs, record)]
    BY <1>4, <2>1 DEF CommitStage, TransactionApplies, store
  <2>4. g \in Seq(Transition) /\ IsWorkflowPath(g) /\ recs \in Seq(Record) /\ StateOf(j) = current_state(g)
    BY <2>2 DEF TypeOK, HistoryInv, StateOf
  <2>5. /\ StageCallOK(call, recs, current_state(g), Merged(j))
        /\ call.buffered \in Seq(Transition) /\ call.state \in TaskStates
        /\ call.op \in {"review", "decide", "integrate", "cleanup"} /\ call.step = "commit"
    BY <1>1, <1>2, <2>1, <2>4 DEF CallOK, Call
  <2>6. call.job = j
    BY <2>1
  <2>7. /\ OwnedBy(j, recs) /\ StageReady(call.op, recs, current_state(g))
        /\ call.state \in StageResults(call.op)
    BY <2>3, <2>5, <2>6 DEF StageCallOK
  <2>8. g # <<>>
    <3>1. RunOK(recs, history[recs[1].task]) /\ recs # <<>> /\ recs[1].task = TaskOf[j]
      BY <2>2, <2>7 DEF HistoryInv, OwnedBy
    <3> QED
      BY <3>1 DEF RunOK
  <2>9. call.state = "completed" => Merged(j)
    BY <2>5, <2>7 DEF StageCallOK, StageResults
  <2>10. record \in Record /\ record.task = TaskOf[j] /\ record.state = call.state
    BY <2>2, <2>5 DEF Record, StageOf
  <2> HIDE DEF record, recs
  <2> DEFINE h == g \o call.buffered
  <2>11. h \in Seq(Transition) /\ IsWorkflowPath(h) /\ h # <<>> /\ current_state(h) = call.state
    <3> DEFINE tr == call.buffered[1]
    <3>1. CASE call.op = "cleanup"
      <4>1. call.buffered = <<>> /\ current_state(g) = "completed" /\ call.state = "completed"
        BY <2>5, <2>7, <3>1 DEF StageCallOK, StageReady, StageResults
      <4>2. h = g
        BY <2>4, <4>1
      <4> QED
        BY <2>4, <2>8, <4>1, <4>2
    <3>2. CASE call.op # "cleanup"
      <4>1. Len(call.buffered) = 1 /\ tr.to = call.state /\ Legal(tr) /\ tr.from = current_state(g)
        BY <2>3, <2>5, <3>2 DEF StageCallOK
      <4>2. call.buffered = <<tr>> /\ tr \in Transition
        BY <2>5, <4>1
      <4> HIDE DEF tr, g, call
      <4>3. h \in Seq(Transition)
        BY <2>4, <2>5
      <4> QED
        BY <2>4, <4>1, <4>2, <4>3, PathExtends
    <3> QED
      BY <3>1, <3>2
  <2>12. /\ history' = [history EXCEPT ![TaskOf[j]] = h]
         /\ record.state = current_state(h)
         /\ \A x \in Callers : calls'[x] \in {calls[x], Idle}
    BY <1>1, <2>3, <2>10, <2>11 DEF TypeOK
  <2>13. record.state = "completed" => Merged(j)
    BY <2>9, <2>10
  <2> HIDE DEF h, g
  <2> QED
    BY <1>1, <2>3, <2>7, <2>10, <2>11, <2>12, <2>13, CommitFrame DEF recs
<1> QED
  BY <1>3, <1>4

\* Every step keeps the invariant.
LEMMA NextHistory ==
    ASSUME TypeOK, TypeOK', HistoryInv, [Next]_vars
    PROVE  HistoryInv'
<1>1. CASE UNCHANGED vars
  <2>1. /\ UNCHANGED <<history, records>> /\ \A x \in Callers : calls'[x] = calls[x]
        /\ workspace' = workspace /\ base' = base /\ target' = target
    BY <1>1 DEF vars
  <2>2. \A j \in Jobs : (Merged(j)' <=> Merged(j)) /\ StateOf(j)' = StateOf(j)
    BY <2>1 DEF Merged, StateOf
  <2>3. \A j \in Jobs : WorktreeOK(j, records[RunOf[j]], StateOf(j))'
    BY <2>1, <2>2, WorktreeKeeps DEF HistoryInv
  <2> QED
    BY <2>1, <2>2, <2>3, QuietFrame
<1>2. CASE TargetAdvances
  BY <1>2, AdvanceHistory
<1>3. ASSUME NEW c \in Callers, CallerNext(c) PROVE HistoryInv'
  <2>1. CASE \/ \E j \in Jobs : BeginExecute(c, j)
             \/ ListPreexisting(c) \/ CommitIntent(c) \/ LifecycleError(c) \/ Crash(c)
             \/ \E outcome \in {"failed", "repairing", "reviewing"} : CollectOutcome(c, outcome)
    BY <2>1, ExecuteHistory
  <2>2. CASE Launch(c)
    BY <2>2, LaunchHistory
  <2>3. CASE GitCommit(c)
    BY <2>3, GitCommitHistory
  <2>4. CASE GitMerge(c)
    BY <2>4, GitMergeHistory
  <2>5. CASE RemoveWorkspace(c)
    BY <2>5, RemoveHistory
  <2>6. CASE CommitOutcome(c)
    BY <2>6, CommitOutcomeHistory
  <2>7. CASE CommitStage(c)
    BY <2>7, CommitStageHistory
  <2>8. ASSUME NEW j \in Jobs, NEW op, BeginAnyStage(c, j, op) PROVE HistoryInv'
    BY <2>8, BeginStageHistory DEF BeginAnyStage
  <2> QED
    BY <1>3, <2>1, <2>2, <2>3, <2>4, <2>5, <2>6, <2>7, <2>8 DEF CallerNext, CallStep
<1> QED
  BY <1>1, <1>2, <1>3 DEF Next

-----------------------------------------------------------------------------
(* Theorems *)

\* The invariant of the histories, the records and the repository holds
\* however the calls of transactional_execution.py overlap, repeat each other
\* and are cut off.
THEOREM HistoryInvHolds == Spec => []HistoryInv
<1>1. Init => HistoryInv
  BY InitHistory
<1>2. TypeOK /\ TypeOK' /\ HistoryInv /\ [Next]_vars => HistoryInv'
  BY NextHistory
<1> QED
  BY <1>1, <1>2, TypeCorrect, PTL DEF Spec

\* The stored history of every task is a path of the workflow made by
\* entitled actors: no call commits a transition on a state that is gone.
THEOREM HistoriesAreWorkflowPaths == Spec => []HistoryIsWorkflowPath
<1>1. HistoryInv => HistoryIsWorkflowPath
  BY DEF HistoryInv, HistoryIsWorkflowPath
<1> QED
  BY <1>1, HistoryInvHolds, PTL

\* workflow_transitions and run_records agree: a task has one run, and its
\* last record tells the state the task is in.
THEOREM RecordsAndHistoriesAgree == Spec => []RecordsMatchHistory
<1>1. TypeOK /\ HistoryInv => RecordsMatchHistory
  <2> SUFFICES ASSUME TypeOK, HistoryInv PROVE RecordsMatchHistory
    OBVIOUS
  <2>1. ASSUME NEW r \in Runs, records[r] # <<>>
        PROVE  LET last == records[r][Len(records[r])]
               IN  current_state(history[last.task]) = last.state
    <3>1. records[r] \in Seq(Record) /\ RunOK(records[r], history[records[r][1].task])
      BY DEF TypeOK, HistoryInv
    <3>2. Len(records[r]) \in 1..Len(records[r])
      BY <2>1, <3>1
    <3> QED
      BY <2>1, <3>1, <3>2 DEF RunOK
  <2>2. ASSUME NEW j \in Jobs, NEW k \in Jobs, TaskOf[j] = TaskOf[k], Owns(j), Owns(k)
        PROVE  RunOf[j] = RunOf[k]
    <3>1. RunOf[j] \in Runs /\ RunOf[k] \in Runs
      BY TransactionalExecutionAssumption
    <3> QED
      BY <2>2, <3>1 DEF HistoryInv, Owns
  <2> QED
    BY <2>1, <2>2 DEF RecordsMatchHistory
<1> QED
  BY <1>1, HistoryInvHolds, TypeCorrect, PTL

\* LocalGitIntegrator commits and merges only for a run whose decision was
\* approve, and merges it once, however often integrate is repeated.
THEOREM IntegrationIsApproved == Spec => []IntegratedOnlyIfApproved
<1>1. TypeOK /\ HistoryInv => IntegratedOnlyIfApproved
  <2> SUFFICES ASSUME TypeOK, HistoryInv PROVE IntegratedOnlyIfApproved
    OBVIOUS
  <2>1. ASSUME NEW j \in Jobs,
               workspace[j] \in {"committed", "removed"} \/ \E i \in 1..Len(target) : target[i] = j
        PROVE  Owns(j) /\ Len(records[RunOf[j]]) >= 3 /\ records[RunOf[j]][3].state = "integrating"
    <3>1. WorktreeOK(j, records[RunOf[j]], StateOf(j))
      BY DEF HistoryInv
    <3> QED
      BY <2>1, <3>1 DEF WorktreeOK, OwnedBy, Approved, Owns
  <2>2. ASSUME NEW i \in 1..Len(target), NEW k \in 1..Len(target),
               target[i] = target[k], target[i] # Elsewhere
        PROVE  i = k
    <3>1. PICK j \in Jobs : j = target[i]
      BY <2>2 DEF TypeOK
    <3>2. WorktreeOK(j, records[RunOf[j]], StateOf(j))
      BY DEF HistoryInv
    <3> QED
      BY <2>2, <3>1, <3>2 DEF WorktreeOK
  <2> QED
    BY <2>1, <2>2 DEF IntegratedOnlyIfApproved
<1> QED
  BY <1>1, HistoryInvHolds, TypeCorrect, PTL

\* A completed task is merged, and cleanup removes a worktree only when its
\* content is: no crash or retry loses an approved patch.
THEOREM CompletionIsMerged == Spec => []CompletedIsMerged
<1>1. HistoryInv => CompletedIsMerged
  BY DEF HistoryInv, WorktreeOK, Merged, Owns, OwnedBy, CompletedIsMerged
<1> QED
  BY <1>1, HistoryInvHolds, PTL

-----------------------------------------------------------------------------
(* The pipeline *)

\* What each record of a run says after the ones before it
StagesTold(recs) ==
    /\ Len(recs) <= 5
    /\ Len(recs) >= 2 => recs[1].state = "reviewing"
    /\ Len(recs) >= 3 => recs[2].state = "merge_review"
    /\ Len(recs) >= 4 => recs[3].state = "integrating" /\ recs[4].state = "completed"
    /\ Len(recs) >= 5 => recs[5].state = "completed"

\* What a call relies on that the records of its run tell, or will tell
CallFollows(c, recs, launched, worktree) ==
    /\ c.step \in {"collect", "outcome"} => launched > 0
    /\ c.op = "cleanup" =>
          Len(recs) >= 4 /\ (c.step = "commit" => worktree = "removed")

\* The records tell the stages in order, after the agent was started, and
\* the last one tells of a worktree that is gone.
PipelineInv ==
    /\ \A r \in Runs : StagesTold(records[r])
    /\ \A j \in Jobs : OwnedBy(j, records[RunOf[j]]) =>
          launches[j] > 0 /\ (Len(records[RunOf[j]]) = 5 => workspace[j] = "removed")
    /\ \A c \in Callers, j \in Jobs : calls[c] # Idle /\ calls[c].job = j =>
          CallFollows(calls[c], records[RunOf[j]], launches[j], workspace[j])

\* A step of one call that commits no record
LEMMA PipelineFrame ==
    ASSUME TypeOK, TypeOK', PipelineInv, NEW c \in Callers, NEW d,
           calls' = [calls EXCEPT ![c] = d], UNCHANGED records,
           \A j \in Jobs : launches[j] > 0 => launches'[j] > 0,
           \A j \in Jobs : workspace[j] = "removed" => workspace'[j] = "removed",
           \/ d = Idle
           \/ \A j \in Jobs : d.job = j =>
                 CallFollows(d, records[RunOf[j]], launches'[j], workspace'[j])
    PROVE  PipelineInv'
<1>1. calls'[c] = d /\ \A x \in Callers \ {c} : calls'[x] = calls[x]
  BY DEF TypeOK
<1>2. ASSUME NEW x \in Callers, NEW j \in Jobs, calls'[x] # Idle, calls'[x].job = j
      PROVE  CallFollows(calls'[x], records[RunOf[j]], launches'[j], workspace'[j])
  <2>1. CASE x = c
    BY <1>1, <1>2, <2>1
  <2>2. CASE x # c
    <3>1. CallFollows(calls[x], records[RunOf[j]], launches[j], workspace[j])
      BY <1>1, <1>2, <2>2 DEF PipelineInv
    <3> QED
      BY <1>1, <2>2, <3>1 DEF CallFollows
  <2> QED
    BY <2>1, <2>2
<1>3. ASSUME NEW j \in Jobs, OwnedBy(j, records[RunOf[j]])
      PROVE  launches'[j] > 0 /\ (Len(records[RunOf[j]]) = 5 => workspace'[j] = "removed")
  BY <1>3 DEF PipelineInv
<1>4. \A r \in Runs : StagesTold(records'[r])
  BY DEF PipelineInv
<1> QED
  BY <1>2, <1>3, <1>4 DEF PipelineInv, OwnedBy

\* A step of the pipeline that appends a record to the run of a job
LEMMA TellStep ==
    ASSUME NEW j \in Jobs, NEW results, NEW result, Told(j) = results,
           Told(j)' = Append(results, result),
           \A k \in Jobs \ {j} : Told(k)' = Told(k),
           UNCHANGED <<launches, target, workspace>>
    PROVE  Pipeline!Tell(j, results, result)
<1>1. [k \in Jobs |-> Told(k)'] = [[k \in Jobs |-> Told(k)] EXCEPT ![j] = Append(results, result)]
  OBVIOUS
<1>2. [k \in Jobs |-> Told(k)][j] = results
  OBVIOUS
<1> QED
  BY <1>1, <1>2 DEF Pipeline!Tell

\* The results of the records, and what one more record does to them
States(recs) == [i \in 1..Len(recs) |-> recs[i].state]

LEMMA StatesGrow ==
    ASSUME NEW recs \in Seq(Record), NEW record \in Record
    PROVE  States(Append(recs, record)) = Append(States(recs), record.state)
<1> DEFINE n == Len(recs)
           new == Append(recs, record)
<1>1. n \in Nat /\ Len(new) = n + 1 /\ new[n + 1] = record /\ \A i \in 1..n : new[i] = recs[i]
  OBVIOUS
<1>2. States(recs) \in Seq({recs[i].state : i \in 1..n}) /\ Len(States(recs)) = n
  BY DEF States
<1> HIDE DEF new
<1>3. States(new) = [i \in 1..(n + 1) |-> IF i = n + 1 THEN record.state ELSE recs[i].state]
  BY <1>1 DEF States
<1>4. Append(States(recs), record.state)
          = [i \in 1..(n + 1) |-> IF i = n + 1 THEN record.state ELSE recs[i].state]
  BY <1>2 DEF States
<1> QED
  BY <1>3, <1>4 DEF new

\* The records of a run are those of one job: the others with the same run
\* are of other tasks.
LEMMA ToldGrows ==
    ASSUME TypeOK, TypeOK', NEW j \in Jobs, NEW record \in Record, record.task = TaskOf[j],
           records' = [records EXCEPT ![RunOf[j]] = Append(records[RunOf[j]], record)],
           records[RunOf[j]] = <<>> \/ OwnedBy(j, records[RunOf[j]])
    PROVE  /\ Told(j) = States(records[RunOf[j]])
           /\ Told(j)' = Append(States(records[RunOf[j]]), record.state)
           /\ \A k \in Jobs \ {j} : Told(k)' = Told(k)
<1> DEFINE recs == records[RunOf[j]]
<1>1. recs \in Seq(Record) /\ RunOf[j] \in Runs /\ records'[RunOf[j]] = Append(recs, record)
  BY TransactionalExecutionAssumption DEF TypeOK
<1>2. \A r \in Runs \ {RunOf[j]} : records'[r] = records[r]
  BY DEF TypeOK
<1> HIDE DEF recs
<1>3. /\ Append(recs, record) # <<>>
      /\ Append(recs, record)[1].task = TaskOf[j]
  <2>1. CASE recs = <<>>
    BY <2>1
  <2>2. CASE recs # <<>>
    <3>1. Len(recs) >= 1 /\ recs[1].task = TaskOf[j]
      BY <1>1, <2>2 DEF OwnedBy, recs
    <3> QED
      BY <1>1, <3>1
  <2> QED
    BY <2>1, <2>2
<1>4. Told(j) = States(recs)
  <2>1. CASE recs = <<>>
    <3>1. ~Owns(j)
      BY <2>1 DEF Owns, recs
    <3>2. States(recs) = <<>>
      BY <2>1 DEF States
    <3> QED
      BY <3>1, <3>2 DEF Told
  <2>2. CASE recs # <<>>
    BY <2>2 DEF Told, Owns, OwnedBy, States, recs
  <2> QED
    BY <2>1, <2>2
<1>5. Told(j)' = States(Append(recs, record))
  <2>1. Owns(j)'
    BY <1>1, <1>3 DEF Owns
  <2>2. Told(j)' = [i \in 1..Len(records'[RunOf[j]]) |-> records'[RunOf[j]][i].state]
    BY <2>1 DEF Told
  <2> QED
    BY <1>1, <2>2 DEF States
<1>6. ASSUME NEW k \in Jobs \ {j} PROVE Told(k)' = Told(k)
  <2>1. RunOf[k] \in Runs
    BY TransactionalExecutionAssumption
  <2>2. CASE RunOf[k] # RunOf[j]
    BY <1>2, <2>1, <2>2 DEF Told, Owns
  <2>3. CASE RunOf[k] = RunOf[j]
    <3>1. TaskOf[k] # TaskOf[j]
      BY <2>3, JobAssumption
    <3>2. ~Owns(k)
      BY <2>3, <3>1 DEF Owns, OwnedBy
    <3>3. ~Owns(k)'
      BY <1>1, <1>3, <2>3, <3>1 DEF Owns
    <3> QED
      BY <3>2, <3>3 DEF Told
  <2> QED
    BY <2>2, <2>3
<1> QED
  BY <1>1, <1>4, <1>5, <1>6, StatesGrow DEF recs

\* What the results are once their number is known
LEMMA StatesKnown ==
    ASSUME NEW recs \in Seq(Record), StagesTold(recs)
    PROVE  /\ recs = <<>> => States(recs) = <<>>
           /\ Len(recs) = 1 /\ recs[1].state = "reviewing" => States(recs) = <<"reviewing">>
           /\ Len(recs) = 2 /\ recs[2].state = "merge_review" =>
                 States(recs) = <<"reviewing", "merge_review">>
           /\ Len(recs) = 3 /\ recs[3].state = "integrating" => States(recs) = Pipeline!Approved
           /\ Len(recs) = 4 => States(recs) = Append(Pipeline!Approved, "completed")
<1>1. CASE recs = <<>>
  BY <1>1 DEF States
<1>2. CASE Len(recs) = 1
  BY <1>2 DEF States
<1>3. CASE Len(recs) = 2
  BY <1>3 DEF States, StagesTold
<1>4. CASE Len(recs) = 3
  <2>1. recs[1].state = "reviewing" /\ recs[2].state = "merge_review"
    BY <1>4 DEF StagesTold
  <2>2. States(recs) = [i \in 1..3 |-> recs[i].state]
    BY <1>4 DEF States
  <2>3. recs[3].state = "integrating" =>
            States(recs) = <<"reviewing", "merge_review", "integrating">>
    BY <2>1, <2>2
  <2> QED
    BY <1>4, <2>3 DEF Pipeline!Approved
<1>5. CASE Len(recs) = 4
  <2>1. /\ recs[1].state = "reviewing" /\ recs[2].state = "merge_review"
        /\ recs[3].state = "integrating" /\ recs[4].state = "completed"
    BY <1>5 DEF StagesTold
  <2>2. States(recs) = [i \in 1..4 |-> recs[i].state]
    BY <1>5 DEF States
  <2>3. States(recs) = <<"reviewing", "merge_review", "integrating", "completed">>
    BY <2>1, <2>2
  <2>4. States(recs) = Append(<<"reviewing", "merge_review", "integrating">>, "completed")
    BY <2>3
  <2>5. States(recs) = Append(Pipeline!Approved, "completed")
    BY <2>4 DEF Pipeline!Approved
  <2> QED
    BY <1>5, <2>5
<1> QED
  BY <1>1, <1>2, <1>3, <1>4, <1>5

\* A step that the pipeline does not see
LEMMA Unseen ==
    ASSUME UNCHANGED <<records, launches>>,
           \A j \in Jobs : /\ Merged(j) <=> Merged(j)'
                           /\ workspace[j] = "removed" <=> workspace'[j] = "removed"
    PROVE  UNCHANGED Pipeline!vars
<1>1. \A j \in Jobs : Told(j)' = Told(j)
  BY DEF Told, Owns
<1>2. {j \in Jobs : Merged(j)'} = {j \in Jobs : Merged(j)}
  OBVIOUS
<1>3. {j \in Jobs : workspace'[j] = "removed"} = {j \in Jobs : workspace[j] = "removed"}
  OBVIOUS
<1>4. [j \in Jobs |-> Told(j)'] = [j \in Jobs |-> Told(j)]
  BY <1>1
<1> QED
  BY <1>2, <1>3, <1>4 DEF Pipeline!vars, Merged

\* execute, except for its launch and its commit of the outcome
LEMMA ExecutePipeline ==
    ASSUME TypeOK, TypeOK', HistoryInv, PipelineInv, NEW c \in Callers,
           \/ \E j \in Jobs : BeginExecute(c, j)
           \/ ListPreexisting(c) \/ CommitIntent(c) \/ LifecycleError(c) \/ Crash(c)
           \/ \E outcome \in {"failed", "repairing", "reviewing"} : CollectOutcome(c, outcome)
    PROVE  PipelineInv' /\ UNCHANGED Pipeline!vars
<1>1. UNCHANGED <<records, launches, workspace, target>>
  BY DEF BeginExecute, ListPreexisting, CommitIntent, LifecycleError, Crash, CollectOutcome, store, git
<1>2. UNCHANGED Pipeline!vars
  BY <1>1, Unseen DEF Merged
<1>3. ASSUME NEW d, calls' = [calls EXCEPT ![c] = d], 
             d = Idle \/ \A j \in Jobs : d.job = j =>
                 CallFollows(d, records[RunOf[j]], launches[j], workspace[j])
      PROVE  PipelineInv'
  BY <1>1, <1>3, PipelineFrame
<1>4. CASE calls' = [calls EXCEPT ![c] = Idle]
  BY <1>2, <1>3, <1>4
<1>5. ASSUME NEW j \in Jobs, BeginExecute(c, j) PROVE PipelineInv'
  <2> DEFINE d == [op |-> "execute", step |-> "list", job |-> j, known |-> {},
                   buffered |-> <<>>, state |-> "draft", task_seq |-> 0, run_seq |-> 0]
  <2>1. calls' = [calls EXCEPT ![c] = d] /\ d.op = "execute" /\ d.step = "list"
    BY <1>5 DEF BeginExecute
  <2> HIDE DEF d
  <2> QED
    BY <1>3, <2>1 DEF CallFollows
\* A call of execute that goes on
<1>6. ASSUME calls[c] # Idle, calls[c].step \in ExecuteSteps, NEW d,
             calls' = [calls EXCEPT ![c] = d], d.op = calls[c].op, d.job = calls[c].job,
             d.step \in {"intent", "launch"} \/ (calls[c].step = "collect" /\ d.step = "outcome")
      PROVE  PipelineInv'
  <2>1. calls[c].op = "execute"
    BY <1>6, HistoryCallFacts DEF CallOK
  <2>2. \A j \in Jobs : d.job = j => CallFollows(calls[c], records[RunOf[j]], launches[j], workspace[j])
    BY <1>6 DEF PipelineInv
  <2>3. \A j \in Jobs : d.job = j => CallFollows(d, records[RunOf[j]], launches[j], workspace[j])
    BY <1>6, <2>1, <2>2 DEF CallFollows
  <2> QED
    BY <1>3, <1>6, <2>3
<1>7. CASE ListPreexisting(c)
  <2> DEFINE known == ListManifests(registry[calls[c].job])
             d == [calls[c] EXCEPT !.step = "intent", !.known = known]
  <2>1. calls' = [calls EXCEPT ![c] = d] /\ calls[c] # Idle /\ calls[c].step = "list"
    BY <1>7 DEF ListPreexisting, At
  <2>2. d.op = calls[c].op /\ d.step \in {"intent", "launch"} /\ d.job = calls[c].job
    BY <2>1, HistoryCallFacts DEF Call
  <2>3. calls[c].step \in ExecuteSteps
    BY <2>1 DEF ExecuteSteps
  <2> HIDE DEF d
  <2> QED
    BY <1>2, <1>6, <2>1, <2>2, <2>3
<1>8. CASE CommitIntent(c) /\ Goto(c, "launch")
  <2> DEFINE d == [calls[c] EXCEPT !.step = "launch"]
  <2>1. calls' = [calls EXCEPT ![c] = d] /\ calls[c] # Idle /\ calls[c].step = "intent"
    BY <1>8 DEF CommitIntent, At, Goto
  <2>2. d.op = calls[c].op /\ d.step \in {"intent", "launch"} /\ d.job = calls[c].job
    BY <2>1, HistoryCallFacts DEF Call
  <2>3. calls[c].step \in ExecuteSteps
    BY <2>1 DEF ExecuteSteps
  <2> HIDE DEF d
  <2> QED
    BY <1>2, <1>6, <2>1, <2>2, <2>3
<1>9. ASSUME NEW outcome \in {"failed", "repairing", "reviewing"}, CollectOutcome(c, outcome)
      PROVE  PipelineInv'
  <2> DEFINE path == ExecutionPath(outcome, AuthorityOf[calls[c].job])
             d == [calls[c] EXCEPT !.step = "outcome", !.state = outcome, !.buffered = path]
  <2>1. calls' = [calls EXCEPT ![c] = d] /\ calls[c] # Idle /\ calls[c].step = "collect"
    BY <1>9 DEF CollectOutcome, At
  <2> HIDE DEF path
  <2>2. d.op = calls[c].op /\ d.step = "outcome" /\ d.job = calls[c].job
    BY <2>1, HistoryCallFacts DEF Call
  <2> HIDE DEF d
  <2> QED
    BY <1>6, <2>1, <2>2 DEF ExecuteSteps
<1>10. PipelineInv'
  BY <1>4, <1>5, <1>7, <1>8, <1>9 DEF CommitIntent, LifecycleError, Crash, End
<1> QED
  BY <1>2, <1>10

\* A stage begins when the records of its run are as many as it demands.
LEMMA BeginStagePipeline ==
    ASSUME TypeOK, TypeOK', PipelineInv, NEW c \in Callers, NEW j \in Jobs,
           NEW op, NEW result, NEW actor, BeginStage(c, j, op, result, actor)
    PROVE  PipelineInv' /\ UNCHANGED Pipeline!vars
<1>1. UNCHANGED <<records, launches, workspace, target>>
  BY DEF BeginStage, store, git
<1>2. UNCHANGED Pipeline!vars
  BY <1>1, Unseen DEF Merged
<1> DEFINE t == TaskOf[j]
           recs == records[RunOf[j]]
           state == current_state(history[t])
           staged == IF op = "cleanup" THEN <<>> ELSE <<Step(state, result, actor)>>
           first == CASE op = "integrate" -> "git_commit"
                      [] op = "cleanup" -> "remove"
                      [] OTHER -> "commit"
           d == [op |-> op, job |-> j, known |-> manifests[j], buffered |-> staged, state |-> result,
                 task_seq |-> Len(history[t]), run_seq |-> Len(recs), step |-> first]
<1>3. calls' = [calls EXCEPT ![c] = d]
  BY DEF BeginStage
<1>4. d.op = op /\ d.job = j /\ d.step = first
  OBVIOUS
<1> HIDE DEF d
<1>5. Len(recs) \in Nat
  BY TransactionalExecutionAssumption DEF TypeOK
<1>6. op = "cleanup" => Len(recs) = 4 /\ first # "commit"
  BY DEF BeginStage, StageReady
<1>7. first \notin {"collect", "outcome"}
  OBVIOUS
<1> HIDE DEF first, recs
<1>8. CallFollows(d, recs, launches[j], workspace[j])
  <2>1. op = "cleanup" => Len(recs) >= 4
    BY <1>5, <1>6
  <2>2. d.op = "cleanup" => op = "cleanup"
    BY <1>4
  <2>3. op = "cleanup" => d.step # "commit"
    BY <1>4, <1>6
  <2>4. d.step \notin {"collect", "outcome"}
    BY <1>4, <1>7
  <2> QED
    BY <2>1, <2>2, <2>3, <2>4 DEF CallFollows
<1>9. \A k \in Jobs : d.job = k => CallFollows(d, records[RunOf[k]], launches'[k], workspace'[k])
  BY <1>1, <1>4, <1>8 DEF recs
<1> QED
  BY <1>1, <1>2, <1>3, <1>9, PipelineFrame

\* The one launch of a job starts its run.
LEMMA LaunchPipeline ==
    ASSUME TypeOK, TypeOK', HistoryInv, LaunchInv, PipelineInv, NEW c \in Callers, Launch(c)
    PROVE  PipelineInv' /\ Pipeline!Next
<1> DEFINE j == calls[c].job
           d == [calls[c] EXCEPT !.step = "collect"]
<1>1. /\ calls[c] # Idle /\ calls[c].step = "launch" /\ UNCHANGED <<history, records, target>>
      /\ launches' = [launches EXCEPT ![j] = launches[j] + 1]
      /\ \/ /\ workspace[j] = "none" /\ workspace' = [workspace EXCEPT ![j] = "changed"]
            /\ calls' = [calls EXCEPT ![c] = d]
         \/ UNCHANGED workspace /\ calls' = [calls EXCEPT ![c] = Idle]
  BY DEF Launch, At, Goto, End, store
<1>2. /\ calls[c] \in Call /\ j \in Jobs /\ CallOK(calls[c], records[RunOf[j]], StateOf(j), Merged(j))
      /\ calls[c].op = "execute"
  BY <1>1, HistoryCallFacts DEF CallOK, ExecuteSteps
<1>3. launches[j] = 0
  BY <1>1 DEF LaunchInv, IntentHeld, At
<1>4. d.op = "execute" /\ d.step = "collect" /\ d.job = j
  BY <1>2 DEF Call
<1> HIDE DEF d, j
<1>5. launches'[j] = 1 /\ \A k \in Jobs \ {j} : launches'[k] = launches[k]
  BY <1>1, <1>2, <1>3 DEF TypeOK
<1>6. \A k \in Jobs : launches[k] > 0 => launches'[k] > 0
  BY <1>5
<1>7. \A k \in Jobs : workspace[k] = "removed" <=> workspace'[k] = "removed"
  BY <1>1, <1>2 DEF TypeOK
<1>8. \A k \in Jobs : d.job = k => CallFollows(d, records[RunOf[k]], launches'[k], workspace'[k])
  BY <1>4, <1>5 DEF CallFollows
<1>9. PipelineInv'
  <2>1. UNCHANGED records /\ \A k \in Jobs : workspace[k] = "removed" => workspace'[k] = "removed"
    BY <1>1, <1>7
  <2>2. CASE calls' = [calls EXCEPT ![c] = d]
    BY <1>6, <1>8, <2>1, <2>2, PipelineFrame
  <2>3. CASE calls' = [calls EXCEPT ![c] = Idle]
    BY <1>6, <2>1, <2>3, PipelineFrame
  <2> QED
    BY <1>1, <2>2, <2>3
<1>10. PICK i \in Jobs : i = j
  BY <1>2
<1>11. Pipeline!Start(i)
  <2>1. \A k \in Jobs : Told(k)' = Told(k)
    BY <1>1 DEF Told, Owns
  <2>2. [k \in Jobs |-> Told(k)'] = [k \in Jobs |-> Told(k)]
    BY <2>1
  <2>3. launches' = [launches EXCEPT ![i] = 1] /\ launches[i] = 0
    BY <1>1, <1>3, <1>10
  <2>4. {k \in Jobs : workspace'[k] = "removed"} = {k \in Jobs : workspace[k] = "removed"}
    BY <1>7
  <2> QED
    BY <1>1, <2>2, <2>3, <2>4 DEF Pipeline!Start
<1> QED
  BY <1>9, <1>11 DEF Pipeline!Next

\* A commit in the worktree is between two records.
LEMMA GitCommitPipeline ==
    ASSUME TypeOK, TypeOK', HistoryInv, PipelineInv, NEW c \in Callers, GitCommit(c)
    PROVE  PipelineInv' /\ UNCHANGED Pipeline!vars
<1> DEFINE j == calls[c].job
           d == [calls[c] EXCEPT !.step = "git_merge"]
<1>1. /\ calls[c] # Idle /\ calls[c].step = "git_commit" /\ UNCHANGED <<records, target, launches>>
      /\ \/ /\ workspace[j] \in {"changed", "committed"}
            /\ workspace' = [workspace EXCEPT ![j] = "committed"]
            /\ calls' = [calls EXCEPT ![c] = d]
         \/ UNCHANGED workspace /\ calls' = [calls EXCEPT ![c] = Idle]
  BY DEF GitCommit, CommitReachable, At, Goto, End, store
<1>2. calls[c] \in Call /\ j \in Jobs /\ calls[c].op = "integrate"
  BY <1>1, HistoryCallFacts DEF CallOK
<1>3. d.op = "integrate" /\ d.step = "git_merge"
  BY <1>2 DEF Call
<1> HIDE DEF d, j
<1>4. \A k \in Jobs : workspace[k] = "removed" <=> workspace'[k] = "removed"
  BY <1>1, <1>2 DEF TypeOK
<1>5. \A k \in Jobs : CallFollows(d, records[RunOf[k]], launches'[k], workspace'[k])
  BY <1>3 DEF CallFollows
<1>6. PipelineInv'
  <2>1. /\ UNCHANGED records /\ \A k \in Jobs : workspace[k] = "removed" => workspace'[k] = "removed"
        /\ \A k \in Jobs : launches[k] > 0 => launches'[k] > 0
    BY <1>1, <1>4
  <2>2. CASE calls' = [calls EXCEPT ![c] = d]
    BY <1>5, <2>1, <2>2, PipelineFrame
  <2>3. CASE calls' = [calls EXCEPT ![c] = Idle]
    BY <2>1, <2>3, PipelineFrame
  <2> QED
    BY <1>1, <2>2, <2>3
<1> QED
  BY <1>1, <1>4, <1>6, Unseen DEF Merged

\* The state of a completed task is the last that the records of its run tell.
LEMMA ToldCompleted ==
    ASSUME TypeOK, HistoryInv, PipelineInv, NEW j \in Jobs,
           OwnedBy(j, records[RunOf[j]]), Len(records[RunOf[j]]) >= 4
    PROVE  Merged(j)
<1> DEFINE recs == records[RunOf[j]]
<1>1. RunOf[j] \in Runs
  BY TransactionalExecutionAssumption
<1>2. recs \in Seq(Record) /\ StagesTold(recs) /\ RunOK(recs, history[recs[1].task])
      /\ WorktreeOK(j, recs, StateOf(j)) /\ OwnedBy(j, recs) /\ Len(recs) >= 4
  BY <1>1 DEF TypeOK, PipelineInv, HistoryInv
<1> HIDE DEF recs
<1>3. StateOf(j) = recs[Len(recs)].state
  BY <1>2 DEF RunOK, OwnedBy, StateOf
<1>4. recs[Len(recs)].state = "completed"
  <2>1. Len(recs) = 4 \/ Len(recs) = 5
    <3> DEFINE n == Len(recs)
    <3>1. n \in Nat /\ n >= 4 /\ n <= 5
      BY <1>2 DEF StagesTold
    <3> HIDE DEF n
    <3>2. n = 4 \/ n = 5
      BY <3>1
    <3> QED
      BY <3>2 DEF n
  <2> QED
    BY <1>2, <2>1 DEF StagesTold
<1> QED
  BY <1>2, <1>3, <1>4 DEF WorktreeOK

\* What a job's run has told, by the number of its records
LEMMA ToldKnown ==
    ASSUME TypeOK, PipelineInv, NEW j \in Jobs, OwnedBy(j, records[RunOf[j]])
    PROVE  /\ Len(records[RunOf[j]]) = 3 /\ Approved(records[RunOf[j]]) => Told(j) = Pipeline!Approved
           /\ Len(records[RunOf[j]]) = 4 => Told(j) = Append(Pipeline!Approved, "completed")
<1>1. RunOf[j] \in Runs
  BY TransactionalExecutionAssumption
<1>2. records[RunOf[j]] \in Seq(Record) /\ StagesTold(records[RunOf[j]])
  BY <1>1 DEF TypeOK, PipelineInv
<1>3. Told(j) = States(records[RunOf[j]])
  BY DEF Told, Owns, OwnedBy, States
<1> QED
  BY <1>2, <1>3, StatesKnown DEF Approved

\* A merge is made between the records of the approval and of the
\* integration, or it was made before.
LEMMA GitMergePipeline ==
    ASSUME TypeOK, TypeOK', HistoryInv, PipelineInv, NEW c \in Callers, GitMerge(c)
    PROVE  PipelineInv' /\ [Pipeline!Next]_Pipeline!vars
<1> DEFINE d == [calls[c] EXCEPT !.step = "commit"]
<1>1. /\ calls[c] # Idle /\ calls[c].step = "git_merge"
      /\ UNCHANGED <<records, workspace, base, launches>>
      /\ calls' = [calls EXCEPT ![c] = d] \/ calls' = [calls EXCEPT ![c] = Idle]
      /\ \/ /\ workspace[calls[c].job] = "committed" /\ Len(target) = base[calls[c].job]
            /\ target' = Append(target, calls[c].job)
         \/ target' = target
  BY DEF GitMerge, MergeAlreadyDone, CompleteTransition, At, Goto, End, store
<1>2. PICK j \in Jobs : j = calls[c].job
  BY <1>1, HistoryCallFacts
<1>3. /\ calls[c] \in Call /\ CallOK(calls[c], records[RunOf[j]], StateOf(j), Merged(j))
      /\ calls[c].op = "integrate"
  BY <1>1, <1>2, HistoryCallFacts DEF CallOK
<1>4. d.op = "integrate"
  BY <1>3 DEF Call
<1>5. d.step = "commit"
  BY <1>3 DEF Call
<1> HIDE DEF d
<1>6. \A k \in Jobs : CallFollows(d, records[RunOf[k]], launches'[k], workspace'[k])
  BY <1>4, <1>5 DEF CallFollows
<1>7. PipelineInv'
  <2>1. /\ UNCHANGED records /\ \A k \in Jobs : workspace[k] = "removed" => workspace'[k] = "removed"
        /\ \A k \in Jobs : launches[k] > 0 => launches'[k] > 0
    BY <1>1
  <2>2. CASE calls' = [calls EXCEPT ![c] = d]
    BY <1>6, <2>1, <2>2, PipelineFrame
  <2>3. CASE calls' = [calls EXCEPT ![c] = Idle]
    BY <2>1, <2>3, PipelineFrame
  <2> QED
    BY <1>1, <2>2, <2>3
<1>8. OwnedBy(j, records[RunOf[j]]) /\ Approved(records[RunOf[j]])
  BY <1>2, <1>3 DEF CallOK, StageCallOK
<1>9. CASE target' = target
  BY <1>1, <1>7, <1>9, Unseen DEF Merged
<1>10. CASE /\ workspace[j] = "committed" /\ Len(target) = base[j]
            /\ target' = Append(target, j)
  <2>1. ~Merged(j)
    <3>1. WorktreeOK(j, records[RunOf[j]], StateOf(j))
      BY DEF HistoryInv
    <3>2. Len(target) \in Nat
      BY DEF TypeOK
    <3>3. ASSUME NEW i \in 1..Len(target), target[i] = j PROVE FALSE
      <4>1. i = Len(target) + 1
        BY <1>10, <3>1, <3>3 DEF WorktreeOK
      <4> QED
        BY <3>2, <4>1
    <3> QED
      BY <3>3 DEF Merged
  <2>2. Told(j) = Pipeline!Approved
    <3> DEFINE n == Len(records[RunOf[j]])
    <3>1. n >= 3 /\ ~(n >= 4)
      BY <1>8, <2>1, ToldCompleted DEF Approved
    <3>2. n \in Nat
      BY TransactionalExecutionAssumption DEF TypeOK
    <3> HIDE DEF n
    <3>3. n = 3
      BY <3>1, <3>2
    <3> QED
      BY <1>8, <3>3, ToldKnown DEF n
  <2>3. /\ \A k \in Jobs : Merged(k) => Merged(k)'
        /\ Merged(j)'
    <3>1. /\ Len(target) \in Nat /\ Len(target') = Len(target) + 1
          /\ target'[Len(target) + 1] = j
          /\ \A i \in 1..Len(target) : target'[i] = target[i]
      BY <1>10 DEF TypeOK
    <3> QED
      BY <3>1 DEF Merged
  <2>4. \A k \in Jobs \ {j} : Merged(k)' => Merged(k)
    <3>1. /\ Len(target) \in Nat /\ Len(target') = Len(target) + 1
          /\ target'[Len(target) + 1] = j
          /\ \A i \in 1..Len(target) : target'[i] = target[i]
      BY <1>10 DEF TypeOK
    <3>2. ASSUME NEW k \in Jobs \ {j}, NEW i \in 1..Len(target'), target'[i] = k PROVE Merged(k)
      BY <3>1, <3>2 DEF Merged
    <3> QED
      BY <3>2 DEF Merged
  <2>5. {k \in Jobs : Merged(k)'} = {k \in Jobs : Merged(k)} \cup {j}
    BY <2>3, <2>4
  <2>6. j \notin {k \in Jobs : Merged(k)}
    BY <2>1
  <2>7. \A k \in Jobs : Told(k)' = Told(k)
    BY <1>1 DEF Told, Owns
  <2>8. [k \in Jobs |-> Told(k)'] = [k \in Jobs |-> Told(k)]
    BY <2>7
  <2>9. [k \in Jobs |-> Told(k)][j] = Pipeline!Approved
    BY <2>2
  <2>10. Pipeline!Merge(j)
    BY <1>1, <2>5, <2>6, <2>8, <2>9 DEF Pipeline!Merge, Merged
  <2> QED
    BY <1>7, <2>10 DEF Pipeline!Next
<1> QED
  BY <1>1, <1>2, <1>9, <1>10

\* cleanup removes the worktree of a run whose integration is recorded.
LEMMA RemovePipeline ==
    ASSUME TypeOK, TypeOK', HistoryInv, PipelineInv, NEW c \in Callers, RemoveWorkspace(c)
    PROVE  PipelineInv' /\ [Pipeline!Next]_Pipeline!vars
<1> DEFINE d == [calls[c] EXCEPT !.step = "commit"]
<1>1. /\ calls[c] # Idle /\ calls[c].step = "remove"
      /\ UNCHANGED <<records, target, launches>>
      /\ \/ /\ workspace' = [workspace EXCEPT ![calls[c].job] = "removed"]
            /\ calls' = [calls EXCEPT ![c] = d]
         \/ UNCHANGED workspace /\ calls' = [calls EXCEPT ![c] = Idle]
  BY DEF RemoveWorkspace, At, Goto, End, store
<1>2. PICK j \in Jobs : j = calls[c].job
  BY <1>1, HistoryCallFacts
<1>3. /\ calls[c] \in Call /\ CallOK(calls[c], records[RunOf[j]], StateOf(j), Merged(j))
      /\ calls[c].op = "cleanup"
      /\ CallFollows(calls[c], records[RunOf[j]], launches[j], workspace[j])
  BY <1>1, <1>2, HistoryCallFacts DEF CallOK, PipelineInv
<1>4. d.op = "cleanup" /\ d.step = "commit" /\ d.job = j
  BY <1>2, <1>3 DEF Call
<1> HIDE DEF d
<1>5. CASE UNCHANGED workspace /\ calls' = [calls EXCEPT ![c] = Idle]
  BY <1>1, <1>5, PipelineFrame, Unseen DEF Merged
<1>6. CASE workspace' = [workspace EXCEPT ![j] = "removed"] /\ calls' = [calls EXCEPT ![c] = d]
  <2>1. workspace'[j] = "removed" /\ \A k \in Jobs \ {j} : workspace'[k] = workspace[k]
    BY <1>6 DEF TypeOK
  <2>2. \A k \in Jobs : workspace[k] = "removed" => workspace'[k] = "removed"
    BY <2>1
  <2>3. Len(records[RunOf[j]]) >= 4
    BY <1>3 DEF CallFollows
  <2>4. CallFollows(d, records[RunOf[j]], launches[j], workspace'[j])
    BY <1>4, <2>1, <2>3 DEF CallFollows
  <2>5. \A k \in Jobs : d.job = k => CallFollows(d, records[RunOf[k]], launches'[k], workspace'[k])
    BY <1>1, <1>4, <2>4
  <2>6. UNCHANGED records /\ \A k \in Jobs : launches[k] > 0 => launches'[k] > 0
    BY <1>1
  <2>7. PipelineInv'
    BY <1>6, <2>2, <2>5, <2>6, PipelineFrame
  <2>8. CASE workspace[j] = "removed"
    <3>1. \A k \in Jobs : workspace[k] = "removed" <=> workspace'[k] = "removed"
      BY <2>1, <2>8
    <3> QED
      BY <1>1, <2>7, <3>1, Unseen DEF Merged
  <2>9. CASE workspace[j] # "removed"
    <3>1. OwnedBy(j, records[RunOf[j]])
      BY <1>2, <1>3 DEF CallOK, StageCallOK
    <3>2. Told(j) = Append(Pipeline!Approved, "completed")
      <4> DEFINE n == Len(records[RunOf[j]])
      <4>1. n \in Nat /\ n <= 5
        BY TransactionalExecutionAssumption DEF TypeOK, PipelineInv, StagesTold
      <4>2. n # 5
        BY <2>9, <3>1 DEF PipelineInv
      <4>3. n >= 4
        BY <2>3
      <4> HIDE DEF n
      <4>4. n = 4
        BY <4>1, <4>2, <4>3
      <4> QED
        BY <3>1, <4>4, ToldKnown DEF n
    <3>3. {k \in Jobs : workspace'[k] = "removed"} = {k \in Jobs : workspace[k] = "removed"} \cup {j}
      BY <2>1
    <3>4. \A k \in Jobs : Told(k)' = Told(k)
      BY <1>1 DEF Told, Owns
    <3>5. [k \in Jobs |-> Told(k)'] = [k \in Jobs |-> Told(k)]
      BY <3>4
    <3>6. [k \in Jobs |-> Told(k)][j] = Append(Pipeline!Approved, "completed")
      BY <3>2
    <3>7. j \notin {k \in Jobs : workspace[k] = "removed"}
      BY <2>9
    <3>8. Pipeline!Remove(j)
      BY <1>1, <3>3, <3>5, <3>6, <3>7 DEF Pipeline!Remove
    <3> QED
      BY <2>7, <3>8 DEF Pipeline!Next
  <2> QED
    BY <2>8, <2>9
<1> QED
  BY <1>1, <1>2, <1>5, <1>6

\* A commit made elsewhere
LEMMA AdvancePipeline ==
    ASSUME TypeOK, TypeOK', PipelineInv, TargetAdvances
    PROVE  PipelineInv' /\ UNCHANGED Pipeline!vars
<1>1. /\ UNCHANGED <<records, workspace, launches, calls>>
      /\ target' = Append(target, Elsewhere) /\ Elsewhere \notin Jobs
  BY TransactionalExecutionAssumption DEF TargetAdvances, store
<1>2. PipelineInv'
  BY <1>1 DEF PipelineInv, OwnedBy, CallFollows
<1>3. /\ Len(target) \in Nat /\ Len(target') = Len(target) + 1
      /\ target'[Len(target) + 1] = Elsewhere
      /\ \A i \in 1..Len(target) : target'[i] = target[i]
  BY <1>1 DEF TypeOK
<1>4. \A k \in Jobs : Merged(k) => Merged(k)'
  BY <1>3 DEF Merged
<1>5. ASSUME NEW k \in Jobs, NEW i \in 1..Len(target'), target'[i] = k PROVE Merged(k)
  <2>1. i \in 1..Len(target)
    BY <1>1, <1>3, <1>5
  <2> QED
    BY <1>3, <1>5, <2>1 DEF Merged
<1>6. \A k \in Jobs : Merged(k)' => Merged(k)
  BY <1>5 DEF Merged
<1> QED
  BY <1>1, <1>2, <1>4, <1>6, Unseen

-----------------------------------------------------------------------------
(* The commits *)

\* One more record, of the stage that the records call for
LEMMA StagesGrow ==
    ASSUME NEW recs \in Seq(Record), NEW record \in Record, StagesTold(recs),
           \/ recs = <<>>
           \/ Len(recs) = 1 /\ recs[1].state = "reviewing"
           \/ Len(recs) = 2 /\ recs[2].state = "merge_review"
           \/ Len(recs) = 3 /\ recs[3].state = "integrating" /\ record.state = "completed"
           \/ Len(recs) = 4 /\ record.state = "completed"
    PROVE  StagesTold(Append(recs, record))
<1> DEFINE n == Len(recs)
           new == Append(recs, record)
           m == Len(new)
<1>1. n \in Nat /\ m = n + 1 /\ new[n + 1] = record /\ \A i \in 1..n : new[i] = recs[i]
  OBVIOUS
<1>2. recs = <<>> => n = 0
  OBVIOUS
<1>3. /\ n >= 2 => recs[1].state = "reviewing"
      /\ n >= 3 => recs[2].state = "merge_review"
      /\ n >= 4 => recs[3].state = "integrating" /\ recs[4].state = "completed"
  BY DEF StagesTold
<1>4. \/ n = 0
      \/ n = 1 /\ recs[1].state = "reviewing"
      \/ n = 2 /\ recs[2].state = "merge_review"
      \/ n = 3 /\ recs[3].state = "integrating" /\ record.state = "completed"
      \/ n = 4 /\ record.state = "completed"
  BY <1>2
<1> HIDE DEF n, m, new
<1>5. /\ m <= 5
      /\ m >= 2 => new[1].state = "reviewing"
      /\ m >= 3 => new[2].state = "merge_review"
      /\ m >= 4 => new[3].state = "integrating" /\ new[4].state = "completed"
      /\ m >= 5 => new[5].state = "completed"
  BY <1>1, <1>3, <1>4
<1> QED
  BY <1>5 DEF StagesTold, m, new

\* A commit, with the record it leaves
LEMMA CommitPipeline ==
    ASSUME TypeOK, TypeOK', PipelineInv, NEW j \in Jobs, NEW record \in Record,
           record.task = TaskOf[j],
           records' = [records EXCEPT ![RunOf[j]] = Append(records[RunOf[j]], record)],
           records[RunOf[j]] = <<>> \/ OwnedBy(j, records[RunOf[j]]),
           StagesTold(Append(records[RunOf[j]], record)), launches[j] > 0,
           Len(records[RunOf[j]]) = 4 => workspace[j] = "removed",
           \A c \in Callers : calls'[c] \in {calls[c], Idle},
           UNCHANGED <<launches, workspace>>
    PROVE  PipelineInv'
<1> DEFINE recs == records[RunOf[j]]
           new == Append(recs, record)
<1>1. recs \in Seq(Record) /\ RunOf[j] \in Runs /\ records'[RunOf[j]] = new
  BY TransactionalExecutionAssumption DEF TypeOK
<1>2. \A r \in Runs \ {RunOf[j]} : records'[r] = records[r]
  BY DEF TypeOK
<1>3. /\ Len(new) = Len(recs) + 1 /\ Len(recs) \in Nat
      /\ new # <<>> /\ new[1].task = TaskOf[j]
  <2>1. CASE recs = <<>>
    BY <2>1
  <2>2. CASE recs # <<>>
    <3>1. Len(recs) >= 1 /\ recs[1].task = TaskOf[j] /\ recs \in Seq(Record)
      BY <1>1, <2>2 DEF OwnedBy
    <3> HIDE DEF recs
    <3> QED
      BY <3>1
  <2> QED
    BY <2>1, <2>2
<1>4. StagesTold(new) /\ (Len(recs) = 4 => workspace[j] = "removed")
  OBVIOUS
<1> HIDE DEF recs, new
<1>5. \A r \in Runs : StagesTold(records'[r])
  BY <1>1, <1>2, <1>4 DEF PipelineInv
<1>6. ASSUME NEW k \in Jobs, OwnedBy(k, records'[RunOf[k]])
      PROVE  launches[k] > 0 /\ (Len(records'[RunOf[k]]) = 5 => workspace[k] = "removed")
  <2>1. RunOf[k] \in Runs
    BY TransactionalExecutionAssumption
  <2>2. CASE RunOf[k] # RunOf[j]
    BY <1>2, <1>6, <2>1, <2>2 DEF PipelineInv
  <2>3. CASE RunOf[k] = RunOf[j]
    <3>1. k = j
      BY <1>1, <1>3, <1>6, <2>3, JobAssumption DEF OwnedBy
    <3>2. Len(new) = 5 => Len(recs) = 4
      <4> DEFINE n == Len(recs)
                 m == Len(new)
      <4>1. n \in Nat /\ m = n + 1
        BY <1>3
      <4> HIDE DEF n, m
      <4>2. m = 5 => n = 4
        BY <4>1
      <4> QED
        BY <4>2 DEF n, m
    <3> QED
      BY <1>1, <1>4, <3>1, <3>2
  <2> QED
    BY <2>2, <2>3
<1>7. ASSUME NEW c \in Callers, NEW k \in Jobs, calls'[c] # Idle, calls'[c].job = k
      PROVE  CallFollows(calls'[c], records'[RunOf[k]], launches[k], workspace[k])
  <2>1. CallFollows(calls[c], records[RunOf[k]], launches[k], workspace[k]) /\ calls'[c] = calls[c]
    BY <1>7 DEF PipelineInv
  <2>2. Len(records[RunOf[k]]) >= 4 => Len(records'[RunOf[k]]) >= 4
    <3>1. RunOf[k] \in Runs
      BY TransactionalExecutionAssumption
    <3>2. CASE RunOf[k] # RunOf[j]
      BY <1>2, <3>1, <3>2
    <3>3. CASE RunOf[k] = RunOf[j]
      BY <1>1, <1>3, <3>3 DEF recs
    <3> QED
      BY <3>2, <3>3
  <2> QED
    BY <2>1, <2>2 DEF CallFollows
<1> QED
  BY <1>5, <1>6, <1>7 DEF PipelineInv, OwnedBy

\* execute commits its outcome: the first record of a run that was started.
LEMMA CommitOutcomePipeline ==
    ASSUME TypeOK, TypeOK', HistoryInv, PipelineInv, NEW c \in Callers, CommitOutcome(c)
    PROVE  PipelineInv' /\ [Pipeline!Next]_Pipeline!vars
<1>1. /\ calls[c] # Idle /\ calls[c].step = "outcome"
      /\ UNCHANGED <<workspace, target, launches>>
      /\ calls' = [calls EXCEPT ![c] = Idle]
  BY DEF CommitOutcome, At, End, git
<1>2. PICK j \in Jobs : j = calls[c].job
  BY <1>1, HistoryCallFacts
<1>3. /\ CallOK(calls[c], records[RunOf[j]], StateOf(j), Merged(j))
      /\ launches[j] > 0
  BY <1>1, <1>2, HistoryCallFacts DEF PipelineInv, CallFollows
<1>4. PICK result \in {"failed", "repairing", "reviewing"} : result = calls[c].state
  BY <1>1, <1>3 DEF CallOK
<1>5. CASE UNCHANGED records
  BY <1>1, <1>5, PipelineFrame, Unseen DEF Merged
<1>6. CASE ~UNCHANGED records
  <2> DEFINE record == [task |-> TaskOf[j], stage |-> "execution", state |-> result]
  <2>1. RunOf[j] \in Runs /\ TaskOf[j] \in Tasks
    BY TransactionalExecutionAssumption
  <2>2. /\ Len(records[RunOf[j]]) = 0
        /\ records' = [records EXCEPT ![RunOf[j]] = Append(records[RunOf[j]], record)]
    BY <1>2, <1>4, <1>6 DEF CommitOutcome, TransactionApplies, store
  <2>3. records[RunOf[j]] = <<>> /\ StagesTold(records[RunOf[j]])
    BY <2>1, <2>2 DEF TypeOK, PipelineInv
  <2>4. record \in Record /\ record.task = TaskOf[j] /\ record.state = result
    BY <2>1 DEF Record, TaskStates
  <2> HIDE DEF record
  <2>5. records[RunOf[j]] \in Seq(Record)
    BY <2>1 DEF TypeOK
  <2>6. StagesTold(Append(records[RunOf[j]], record))
    BY <2>3, <2>4, <2>5, StagesGrow
  <2>7. /\ \A x \in Callers : calls'[x] \in {calls[x], Idle}
        /\ UNCHANGED <<launches, workspace>>
        /\ Len(records[RunOf[j]]) = 4 => workspace[j] = "removed"
    BY <1>1, <2>2 DEF TypeOK
  <2>8. PipelineInv'
    BY <1>3, <2>2, <2>3, <2>4, <2>6, <2>7, CommitPipeline
  <2>9. States(records[RunOf[j]]) = <<>>
    BY <2>3, <2>5, StatesKnown
  <2>10. /\ Told(j) = <<>> /\ Told(j)' = Append(<<>>, result)
         /\ \A k \in Jobs \ {j} : Told(k)' = Told(k)
    BY <2>2, <2>3, <2>4, <2>9, ToldGrows
  <2>11. Pipeline!Tell(j, <<>>, result)
    BY <1>1, <2>10, TellStep
  <2>12. Pipeline!RecordExecution(j)
    BY <1>3, <2>11 DEF Pipeline!RecordExecution
  <2> QED
    BY <2>8, <2>12 DEF Pipeline!Next
<1> QED
  BY <1>5, <1>6

\* A stage commits: the next record of its run.
LEMMA CommitStagePipeline ==
    ASSUME TypeOK, TypeOK', HistoryInv, PipelineInv, NEW c \in Callers, CommitStage(c)
    PROVE  PipelineInv' /\ [Pipeline!Next]_Pipeline!vars
<1>1. /\ calls[c] # Idle /\ calls[c].step = "commit"
      /\ UNCHANGED <<workspace, target, launches>>
      /\ calls' = [calls EXCEPT ![c] = Idle]
  BY DEF CommitStage, At, End, git
<1>2. PICK j \in Jobs : j = calls[c].job
  BY <1>1, HistoryCallFacts
<1>3. PICK op, result : op = calls[c].op /\ result = calls[c].state
  OBVIOUS
<1>4. /\ calls[c] \in Call
      /\ CallOK(calls[c], records[RunOf[j]], StateOf(j), Merged(j))
      /\ CallFollows(calls[c], records[RunOf[j]], launches[j], workspace[j])
  BY <1>1, <1>2, HistoryCallFacts DEF PipelineInv
<1>5. result \in TaskStates /\ op \in {"review", "decide", "integrate", "cleanup"}
  BY <1>1, <1>3, <1>4 DEF CallOK, ExecuteSteps, Call, Operations
<1>6. CASE UNCHANGED records
  BY <1>1, <1>6, PipelineFrame, Unseen DEF Merged
<1>7. CASE ~UNCHANGED records
  <2> DEFINE recs == records[RunOf[j]]
             record == [task |-> TaskOf[j], stage |-> StageOf(op), state |-> result]
  <2>1. RunOf[j] \in Runs /\ TaskOf[j] \in Tasks /\ recs \in Seq(Record)
    BY TransactionalExecutionAssumption DEF TypeOK
  <2>2. /\ Len(recs) = calls[c].run_seq
        /\ records' = [records EXCEPT ![RunOf[j]] = Append(recs, record)]
    BY <1>2, <1>3, <1>7 DEF CommitStage, TransactionApplies, store
  <2>3. /\ OwnedBy(j, recs) /\ StageReady(op, recs, StateOf(j)) /\ result \in StageResults(op)
        /\ op \in {"integrate", "cleanup"} => Merged(j)
        /\ op = "cleanup" => workspace[j] = "removed"
    BY <1>1, <1>2, <1>3, <1>4, <1>5, <2>2 DEF CallOK, StageCallOK, CallFollows
  <2>4. record \in Record /\ record.task = TaskOf[j] /\ record.state = result
    BY <1>5, <2>1 DEF Record, StageOf
  <2>5. launches[j] > 0 /\ StagesTold(recs)
    BY <2>1, <2>3 DEF PipelineInv
  <2> HIDE DEF record, recs
  <2>6. /\ op = "review" => Len(recs) = 1 /\ recs[1].state = "reviewing"
        /\ op = "decide" => Len(recs) = 2 /\ recs[2].state = "merge_review"
        /\ op = "integrate" =>
              Len(recs) = 3 /\ recs[3].state = "integrating" /\ result = "completed"
        /\ op = "cleanup" => Len(recs) = 4 /\ result = "completed"
    BY <2>3 DEF StageReady, StageResults
  <2>7. StagesTold(Append(recs, record))
    BY <1>5, <2>1, <2>4, <2>5, <2>6, StagesGrow
  <2>8. Len(recs) = 4 => workspace[j] = "removed"
    BY <1>5, <2>3, <2>6
  <2>9. /\ \A x \in Callers : calls'[x] \in {calls[x], Idle}
        /\ UNCHANGED <<launches, workspace>>
    BY <1>1 DEF TypeOK
  <2>10. PipelineInv'
    BY <2>2, <2>3, <2>4, <2>5, <2>7, <2>8, <2>9, CommitPipeline DEF recs
  <2>11. /\ Told(j) = States(recs) /\ Told(j)' = Append(States(recs), result)
         /\ \A k \in Jobs \ {j} : Told(k)' = Told(k)
    BY <2>2, <2>3, <2>4, ToldGrows DEF recs
  <2>12. ASSUME NEW results, States(recs) = results PROVE Pipeline!Tell(j, results, result)
    BY <1>1, <2>11, <2>12, TellStep
  <2>13. CASE op = "review"
    <3>1. Pipeline!Tell(j, <<"reviewing">>, result)
      BY <2>1, <2>5, <2>6, <2>12, <2>13, StatesKnown
    <3>2. Pipeline!RecordReview(j)
      BY <2>3, <2>13, <3>1 DEF Pipeline!RecordReview, StageResults
    <3> QED
      BY <2>10, <3>2 DEF Pipeline!Next
  <2>14. CASE op = "decide"
    <3>1. Pipeline!Tell(j, <<"reviewing", "merge_review">>, result)
      BY <2>1, <2>5, <2>6, <2>12, <2>14, StatesKnown
    <3>2. Pipeline!RecordDecision(j)
      BY <2>3, <2>14, <3>1 DEF Pipeline!RecordDecision, StageResults
    <3> QED
      BY <2>10, <3>2 DEF Pipeline!Next
  <2>15. CASE op = "integrate"
    <3>1. Pipeline!Tell(j, Pipeline!Approved, result)
      BY <2>1, <2>5, <2>6, <2>12, <2>15, StatesKnown
    <3>2. Pipeline!RecordIntegration(j)
      BY <2>3, <2>6, <2>15, <3>1 DEF Pipeline!RecordIntegration, Merged
    <3> QED
      BY <2>10, <3>2 DEF Pipeline!Next
  <2>16. CASE op = "cleanup"
    <3>1. Pipeline!Tell(j, Append(Pipeline!Approved, "completed"), result)
      BY <2>1, <2>5, <2>6, <2>12, <2>16, StatesKnown
    <3>2. Pipeline!RecordCleanup(j)
      BY <2>3, <2>6, <2>16, <3>1 DEF Pipeline!RecordCleanup
    <3> QED
      BY <2>10, <3>2 DEF Pipeline!Next
  <2> QED
    BY <1>5, <2>13, <2>14, <2>15, <2>16
<1> QED
  BY <1>6, <1>7

\* Every step keeps the invariant, and is a step of the pipeline or none.
LEMMA NextPipeline ==
    ASSUME TypeOK, TypeOK', HistoryInv, LaunchInv, PipelineInv, [Next]_vars
    PROVE  PipelineInv' /\ [Pipeline!Next]_Pipeline!vars
<1>1. CASE UNCHANGED vars
  <2>1. UNCHANGED <<records, launches, workspace, target, calls>>
    BY <1>1 DEF vars
  <2>2. PipelineInv'
    BY <2>1 DEF PipelineInv, OwnedBy, CallFollows
  <2> QED
    BY <2>1, <2>2, Unseen DEF Merged
<1>2. CASE TargetAdvances
  BY <1>2, AdvancePipeline
<1>3. ASSUME NEW c \in Callers, CallerNext(c) PROVE PipelineInv' /\ [Pipeline!Next]_Pipeline!vars
  <2>1. CASE \/ \E j \in Jobs : BeginExecute(c, j)
             \/ ListPreexisting(c) \/ CommitIntent(c) \/ LifecycleError(c) \/ Crash(c)
             \/ \E outcome \in {"failed", "repairing", "reviewing"} : CollectOutcome(c, outcome)
    BY <2>1, ExecutePipeline
  <2>2. CASE Launch(c)
    BY <2>2, LaunchPipeline
  <2>3. CASE GitCommit(c)
    BY <2>3, GitCommitPipeline
  <2>4. CASE GitMerge(c)
    BY <2>4, GitMergePipeline
  <2>5. CASE RemoveWorkspace(c)
    BY <2>5, RemovePipeline
  <2>6. CASE CommitOutcome(c)
    BY <2>6, CommitOutcomePipeline
  <2>7. CASE CommitStage(c)
    BY <2>7, CommitStagePipeline
  <2>8. ASSUME NEW j \in Jobs, NEW op, BeginAnyStage(c, j, op)
        PROVE  PipelineInv' /\ [Pipeline!Next]_Pipeline!vars
    BY <2>8, BeginStagePipeline DEF BeginAnyStage
  <2> QED
    BY <1>3, <2>1, <2>2, <2>3, <2>4, <2>5, <2>6, <2>7, <2>8 DEF CallerNext, CallStep
<1> QED
  BY <1>1, <1>2, <1>3 DEF Next

\* Nothing is told, started, merged or removed at first.
LEMMA InitPipeline == Init => PipelineInv /\ Pipeline!Init
<1> SUFFICES ASSUME Init PROVE PipelineInv /\ Pipeline!Init
  OBVIOUS
<1>1. /\ \A r \in Runs : records[r] = <<>>
      /\ \A j \in Jobs : launches[j] = 0 /\ workspace[j] = "none" /\ RunOf[j] \in Runs
      /\ \A c \in Callers : calls[c] = Idle
      /\ target = <<>>
  BY TransactionalExecutionAssumption DEF Init
<1>2. PipelineInv
  BY <1>1 DEF PipelineInv, StagesTold, OwnedBy
<1>3. \A j \in Jobs : Told(j) = <<>>
  BY <1>1 DEF Told, Owns
<1>4. /\ launches = [j \in Jobs |-> 0]
      /\ {j \in Jobs : \E i \in 1..Len(target) : target[i] = j} = {}
      /\ {j \in Jobs : workspace[j] = "removed"} = {}
  BY <1>1 DEF Init
<1>5. [j \in Jobs |-> Told(j)] = [j \in Jobs |-> <<>>]
  BY <1>3
<1> QED
  BY <1>2, <1>4, <1>5 DEF Pipeline!Init

\* However the calls of transactional_execution.py overlap, repeat each
\* other and are cut off, every job goes through the stages of the pipeline,
\* one record each, with one agent, and Git changes in its place between them.
THEOREM ExecutionIsPipeline == Spec => ImplementsPipeline
<1>1. Init => PipelineInv /\ Pipeline!Init
  BY InitPipeline
<1>2. TypeOK /\ TypeOK' /\ HistoryInv /\ LaunchInv /\ PipelineInv /\ [Next]_vars =>
          PipelineInv' /\ [Pipeline!Next]_Pipeline!vars
  BY NextPipeline
<1> QED
  BY <1>1, <1>2, TypeCorrect, HistoryInvHolds, LaunchInvHolds, PTL
     DEF Spec, ImplementsPipeline, Pipeline!Spec
=============================================================================
