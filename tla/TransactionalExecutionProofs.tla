-------------------- MODULE TransactionalExecutionProofs --------------------
(***************************************************************************)
(* TransactionalExecution is type-correct, and starts an agent at most     *)
(* once per job, for any number of callers, jobs, repetitions and crashes. *)
(***************************************************************************)
EXTENDS TransactionalExecution, TLAPS

USE TransactionalExecutionAssumption

\* Every transition a step can buffer is a transition record.
LEMMA StepTyped ==
    ASSUME NEW from \in TaskStates, NEW to \in TaskStates, NEW actor \in ActorTypes
    PROVE  Step(from, to, actor) \in Transition
BY DEF Step, Transition

\* The state of a history is a task state.
LEMMA CurrentStateTyped ==
    ASSUME NEW h \in Seq(Transition)
    PROVE  current_state(h) \in TaskStates
<1>1. CASE h = <<>>
  BY <1>1 DEF current_state, TaskStates
<1>2. CASE h # <<>>
  <2>1. Len(h) \in 1..Len(h)
    BY <1>2
  <2>2. h[Len(h)] \in Transition
    BY <2>1
  <2> QED BY <1>2, <2>2 DEF current_state, Transition
<1> QED BY <1>1, <1>2

\* What an execution buffers is a sequence of transition records.
LEMMA ExecutionPathTyped ==
    ASSUME NEW outcome \in {"failed", "repairing", "reviewing"},
           NEW authority \in {"human", "policy"}
    PROVE  ExecutionPath(outcome, authority) \in Seq(Transition)
<1>1. \A from, to \in TaskStates, actor \in ActorTypes : Step(from, to, actor) \in Transition
  BY StepTyped
<1>2. /\ {"draft", "planned", "implementing", "verifying", "failed", outcome} \subseteq TaskStates
      /\ {"system", authority} \subseteq ActorTypes
  BY DEF TaskStates, ActorTypes
<1> DEFINE begun == <<Step("draft", "planned", "system"), Step("planned", "implementing", authority)>>
<1>3. begun \in Seq(Transition)
  BY <1>1, <1>2
<1>4. Append(begun, Step("implementing", "failed", "system")) \in Seq(Transition)
  BY <1>1, <1>2, <1>3
<1>5. <<Step("implementing", "verifying", "system"), Step("verifying", outcome, "system")>>
         \in Seq(Transition)
  BY <1>1, <1>2
<1>6. begun \o <<Step("implementing", "verifying", "system"), Step("verifying", outcome, "system")>>
         \in Seq(Transition)
  BY <1>3, <1>5
<1> QED BY <1>4, <1>6 DEF ExecutionPath

\* A call that is not idle is a call.
LEMMA CallTyped ==
    ASSUME TypeOK, NEW c \in Callers, NEW step, At(c, step)
    PROVE  /\ calls[c] \in Call
           /\ calls[c].job \in Jobs
           /\ TaskOf[calls[c].job] \in Tasks /\ RunOf[calls[c].job] \in Runs
BY DEF TypeOK, At, Call

\* Moving a call to another step, or ending it, keeps the calls typed.
LEMMA GotoTyped ==
    ASSUME TypeOK, NEW c \in Callers, calls[c] \in Call, NEW step \in Steps, Goto(c, step)
    PROVE  calls' \in [Callers -> Call \cup {Idle}]
<1>1. [calls[c] EXCEPT !.step = step] \in Call
  BY DEF Call
<1>2. calls' = [calls EXCEPT ![c] = [calls[c] EXCEPT !.step = step]]
  BY DEF Goto, TypeOK
<1> QED BY <1>1, <1>2 DEF TypeOK

\* Ending a call keeps the calls typed.
LEMMA EndTyped ==
    ASSUME TypeOK, NEW c \in Callers, End(c)
    PROVE  calls' \in [Callers -> Call \cup {Idle}]
BY DEF End, TypeOK

-----------------------------------------------------------------------------
(* Type correctness, one lemma per group of actions *)

\* The steps of execute up to the start of the agent keep the types.
LEMMA ExecuteTyped ==
    ASSUME TypeOK, NEW c \in Callers, NEW j \in Jobs, BeginExecute(c, j)
    PROVE  TypeOK'
<1>1. [op |-> "execute", step |-> "list", job |-> j, known |-> {}, buffered |-> <<>>,
       state |-> "draft", task_seq |-> 0, run_seq |-> 0] \in Call
  BY DEF Call, Operations, Steps, TaskStates
<1>2. calls' \in [Callers -> Call \cup {Idle}]
  BY <1>1 DEF BeginExecute, TypeOK
<1>3. registry' \in [Jobs -> Nat]
  BY DEF BeginExecute, TypeOK, RegisterIntent
<1> QED BY <1>2, <1>3 DEF BeginExecute, TypeOK, store, git

\* The list of registered artifacts is a set of numbers.
LEMMA ListTyped == ASSUME TypeOK, NEW c \in Callers, ListPreexisting(c) PROVE TypeOK'
<1>1. calls[c] \in Call /\ registry[calls[c].job] \in Nat
  BY CallTyped DEF ListPreexisting, TypeOK
<1> DEFINE listed == ListManifests(registry[calls[c].job])
<1>2. listed \in SUBSET Nat
  BY <1>1 DEF ListManifests
<1>3. calls' = [calls EXCEPT ![c] = [calls[c] EXCEPT !.step = "intent", !.known = listed]]
  BY DEF ListPreexisting, TypeOK
<1> HIDE DEF listed
<1>4. [calls[c] EXCEPT !.step = "intent", !.known = listed] \in Call
  BY <1>1, <1>2 DEF Call, Steps
<1>5. calls' \in [Callers -> Call \cup {Idle}]
  BY <1>4, <1>3 DEF TypeOK
<1> QED BY <1>5 DEF ListPreexisting, TypeOK, store, git

\* The commit of an intent adds numbers to the committed artifacts.
LEMMA CommitIntentTyped == ASSUME TypeOK, NEW c \in Callers, CommitIntent(c) PROVE TypeOK'
<1>1. calls[c] \in Call /\ calls[c].job \in Jobs
  BY CallTyped DEF CommitIntent
<1>2. calls' \in [Callers -> Call \cup {Idle}]
  BY <1>1, GotoTyped, EndTyped DEF CommitIntent, Steps
<1>3. manifests[calls[c].job] \cup calls[c].known \in SUBSET Nat
  BY <1>1 DEF TypeOK, Call
<1>4. \/ manifests' = manifests
      \/ manifests' = [manifests EXCEPT ![calls[c].job] = manifests[calls[c].job] \cup calls[c].known]
  BY DEF CommitIntent
<1>5. manifests' \in [Jobs -> SUBSET Nat]
  BY <1>1, <1>3, <1>4 DEF TypeOK
<1> QED BY <1>2, <1>5 DEF CommitIntent, TypeOK, git

\* A launch counts one execution and makes a worktree.
LEMMA LaunchTyped == ASSUME TypeOK, NEW c \in Callers, Launch(c) PROVE TypeOK'
<1>1. calls[c] \in Call /\ calls[c].job \in Jobs
  BY CallTyped DEF Launch
<1>2. calls' \in [Callers -> Call \cup {Idle}]
  BY <1>1, GotoTyped, EndTyped DEF Launch, Steps
<1> DEFINE j == calls[c].job
<1>3. /\ workspace \in [Jobs -> {"none", "changed", "committed", "removed"}]
      /\ base \in [Jobs -> Nat] /\ launches \in [Jobs -> Nat] /\ Len(target) \in Nat
  BY DEF TypeOK
<1>4. /\ launches' = [launches EXCEPT ![j] = launches[j] + 1]
      /\ \/ workspace' = workspace /\ base' = base
         \/ /\ workspace' = [workspace EXCEPT ![j] = "changed"]
            /\ \E b \in 0..Len(target) : base' = [base EXCEPT ![j] = b]
  BY DEF Launch
<1>5. launches[j] + 1 \in Nat
  BY <1>1, <1>3
<1>6. \A b \in 0..Len(target) : b \in Nat
  BY <1>3
<1>7. /\ workspace' \in [Jobs -> {"none", "changed", "committed", "removed"}]
      /\ base' \in [Jobs -> Nat] /\ launches' \in [Jobs -> Nat]
  BY <1>1, <1>3, <1>4, <1>5, <1>6
<1> QED BY <1>2, <1>7 DEF Launch, TypeOK, store

\* The outcome of an agent buffers a path of transitions.
LEMMA CollectTyped ==
    ASSUME TypeOK, NEW c \in Callers,
           NEW outcome \in {"failed", "repairing", "reviewing"}, CollectOutcome(c, outcome)
    PROVE  TypeOK'
<1>1. calls[c] \in Call /\ calls[c].job \in Jobs
  BY CallTyped DEF CollectOutcome
<1> DEFINE path == ExecutionPath(outcome, AuthorityOf[calls[c].job])
<1>2. path \in Seq(Transition)
  <2>1. AuthorityOf[calls[c].job] \in {"human", "policy"}
    BY <1>1, TransactionalExecutionAssumption
  <2> QED BY <2>1, ExecutionPathTyped
<1> HIDE DEF path
<1>3. [calls[c] EXCEPT !.step = "outcome", !.state = outcome, !.buffered = path] \in Call
  BY <1>1, <1>2 DEF Call, Steps, TaskStates
<1>4. calls' = [calls EXCEPT ![c] =
                   [calls[c] EXCEPT !.step = "outcome", !.state = outcome, !.buffered = path]]
  BY DEF CollectOutcome, TypeOK, path
<1>5. calls' \in [Callers -> Call \cup {Idle}]
  BY <1>3, <1>4 DEF TypeOK
<1>6. registry' \in [Jobs -> Nat]
  BY <1>1 DEF CollectOutcome, TypeOK
<1> QED BY <1>5, <1>6 DEF CollectOutcome, TypeOK, store, git

\* A lifecycle error registers an artifact and ends the call.
LEMMA LifecycleErrorTyped == ASSUME TypeOK, NEW c \in Callers, LifecycleError(c) PROVE TypeOK'
<1>1. calls[c].job \in Jobs
  BY CallTyped DEF LifecycleError
<1>2. calls' \in [Callers -> Call \cup {Idle}]
  BY EndTyped DEF LifecycleError
<1>3. registry' \in [Jobs -> Nat]
  BY <1>1 DEF LifecycleError, TypeOK
<1> QED BY <1>2, <1>3 DEF LifecycleError, TypeOK, store, git

\* What a commit writes is typed: the two commits share this.
LEMMA CommitWritesTyped ==
    ASSUME TypeOK, NEW call \in Call, NEW record \in Record, NEW inserted \in SUBSET Nat
    PROVE  /\ [history EXCEPT ![TaskOf[call.job]] = @ \o call.buffered]
                  \in [Tasks -> Seq(Transition)]
           /\ [records EXCEPT ![RunOf[call.job]] = Append(@, record)] \in [Runs -> Seq(Record)]
           /\ [manifests EXCEPT ![call.job] = @ \cup inserted] \in [Jobs -> SUBSET Nat]
<1>1. call.job \in Jobs /\ call.buffered \in Seq(Transition)
  BY DEF Call
<1>2. TaskOf[call.job] \in Tasks /\ RunOf[call.job] \in Runs
  BY <1>1
<1>3. history[TaskOf[call.job]] \o call.buffered \in Seq(Transition)
  BY <1>1, <1>2 DEF TypeOK
<1>4. Append(records[RunOf[call.job]], record) \in Seq(Record)
  BY <1>2 DEF TypeOK
<1> QED BY <1>1, <1>2, <1>3, <1>4 DEF TypeOK

\* The commit of an outcome appends what the call buffered.
LEMMA CommitOutcomeTyped == ASSUME TypeOK, NEW c \in Callers, CommitOutcome(c) PROVE TypeOK'
<1>1. calls[c] \in Call /\ calls[c].job \in Jobs /\ TaskOf[calls[c].job] \in Tasks
  BY CallTyped DEF CommitOutcome
<1> DEFINE inserted == ListManifests(registry[calls[c].job]) \ calls[c].known
           record == [task |-> TaskOf[calls[c].job], stage |-> "execution", state |-> calls[c].state]
<1>2. inserted \in SUBSET Nat
  BY <1>1 DEF ListManifests, TypeOK
<1>3. record \in Record
  BY <1>1 DEF Record, Call
<1>4. \/ UNCHANGED store
      \/ /\ history' = [history EXCEPT ![TaskOf[calls[c].job]] = @ \o calls[c].buffered]
         /\ records' = [records EXCEPT ![RunOf[calls[c].job]] = Append(@, record)]
         /\ manifests' = [manifests EXCEPT ![calls[c].job] = @ \cup inserted]
  BY DEF CommitOutcome
<1> HIDE DEF inserted, record
<1>5. /\ history' \in [Tasks -> Seq(Transition)] /\ records' \in [Runs -> Seq(Record)]
      /\ manifests' \in [Jobs -> SUBSET Nat]
  <2>1. CASE UNCHANGED store
    BY <2>1 DEF TypeOK, store
  <2>2. /\ [history EXCEPT ![TaskOf[calls[c].job]] = @ \o calls[c].buffered]
               \in [Tasks -> Seq(Transition)]
        /\ [records EXCEPT ![RunOf[calls[c].job]] = Append(@, record)] \in [Runs -> Seq(Record)]
        /\ [manifests EXCEPT ![calls[c].job] = @ \cup inserted] \in [Jobs -> SUBSET Nat]
    BY <1>1, <1>2, <1>3, CommitWritesTyped
  <2> QED BY <1>4, <2>1, <2>2
<1>6. calls' \in [Callers -> Call \cup {Idle}]
  BY EndTyped DEF CommitOutcome
<1> QED BY <1>5, <1>6 DEF CommitOutcome, TypeOK, git

\* The commit of a later stage appends what the call buffered.
LEMMA CommitStageTyped == ASSUME TypeOK, NEW c \in Callers, CommitStage(c) PROVE TypeOK'
<1>1. calls[c] \in Call /\ calls[c].job \in Jobs /\ TaskOf[calls[c].job] \in Tasks
  BY CallTyped DEF CommitStage
<1> DEFINE inserted == ListManifests(registry[calls[c].job]) \ calls[c].known
           record == [task |-> TaskOf[calls[c].job], stage |-> StageOf(calls[c].op),
                      state |-> calls[c].state]
<1>2. inserted \in SUBSET Nat
  BY <1>1 DEF ListManifests, TypeOK
<1>4. StageOf(calls[c].op) \in {"implementation_review", "decision_application",
                                "source_integration", "workspace_cleanup"}
  BY DEF StageOf
<1>5. record \in Record
  BY <1>1, <1>4 DEF Record, Call
<1>6. \/ UNCHANGED store
      \/ /\ history' = [history EXCEPT ![TaskOf[calls[c].job]] = @ \o calls[c].buffered]
         /\ records' = [records EXCEPT ![RunOf[calls[c].job]] = Append(@, record)]
         /\ manifests' = [manifests EXCEPT ![calls[c].job] = @ \cup inserted]
  BY DEF CommitStage
<1> HIDE DEF inserted, record
<1>7. /\ history' \in [Tasks -> Seq(Transition)] /\ records' \in [Runs -> Seq(Record)]
      /\ manifests' \in [Jobs -> SUBSET Nat]
  <2>1. CASE UNCHANGED store
    BY <2>1 DEF TypeOK, store
  <2>2. /\ [history EXCEPT ![TaskOf[calls[c].job]] = @ \o calls[c].buffered]
               \in [Tasks -> Seq(Transition)]
        /\ [records EXCEPT ![RunOf[calls[c].job]] = Append(@, record)] \in [Runs -> Seq(Record)]
        /\ [manifests EXCEPT ![calls[c].job] = @ \cup inserted] \in [Jobs -> SUBSET Nat]
    BY <1>1, <1>2, <1>5, CommitWritesTyped
  <2> QED BY <1>6, <2>1, <2>2
<1>8. calls' \in [Callers -> Call \cup {Idle}]
  BY EndTyped DEF CommitStage
<1> QED BY <1>7, <1>8 DEF CommitStage, TypeOK, git

\* A stage begins with the lengths it read and a typed transition.
LEMMA BeginStageTyped ==
    ASSUME TypeOK, NEW c \in Callers, NEW j \in Jobs, NEW op, NEW result, NEW actor,
           BeginStage(c, j, op, result, actor)
    PROVE  TypeOK'
<1> DEFINE t == TaskOf[j]
           state == current_state(history[t])
           staged == IF op = "cleanup" THEN <<>> ELSE <<Step(state, result, actor)>>
           call == [op |-> op, job |-> j, known |-> manifests[j], buffered |-> staged,
                    state |-> result, task_seq |-> Len(history[t]), run_seq |-> Len(records[RunOf[j]]),
                    step |-> CASE op = "integrate" -> "git_commit"
                               [] op = "cleanup" -> "remove"
                               [] OTHER -> "commit"]
<1>1. /\ history[t] \in Seq(Transition) /\ records[RunOf[j]] \in Seq(Record)
      /\ manifests[j] \in SUBSET Nat
  BY DEF TypeOK
<1>2. op \in Operations /\ result \in TaskStates /\ actor \in ActorTypes
  BY DEF BeginStage, StageResults, StageActors, TaskStates, ActorTypes, Operations
<1>3. state \in TaskStates
  BY <1>1, CurrentStateTyped
<1>4. Step(state, result, actor) \in Transition
  BY <1>2, <1>3, StepTyped
<1>5. staged \in Seq(Transition)
  BY <1>4
<1>6. Len(history[t]) \in Nat /\ Len(records[RunOf[j]]) \in Nat
  BY <1>1
<1>7. call.step \in Steps
  BY DEF Steps
<1>8. calls' = [calls EXCEPT ![c] = call]
  BY DEF BeginStage
<1> HIDE DEF staged
<1>9. call \in Call
  BY <1>1, <1>2, <1>5, <1>6, <1>7 DEF Call
<1> HIDE DEF call
<1>10. calls' \in [Callers -> Call \cup {Idle}]
  BY <1>8, <1>9 DEF TypeOK
<1>11. registry' \in [Jobs -> Nat]
  BY DEF BeginStage, TypeOK
<1> QED BY <1>10, <1>11 DEF BeginStage, TypeOK, store, git

\* The side effects of integrate and cleanup keep worktrees, target and registry typed.
LEMMA GitTyped ==
    ASSUME TypeOK, NEW c \in Callers, GitCommit(c) \/ GitMerge(c) \/ RemoveWorkspace(c)
    PROVE  TypeOK'
<1>1. calls[c] \in Call /\ calls[c].job \in Jobs
  BY CallTyped DEF GitCommit, GitMerge, RemoveWorkspace
<1> DEFINE j == calls[c].job
<1>2. calls' \in [Callers -> Call \cup {Idle}]
  BY <1>1, GotoTyped, EndTyped DEF GitCommit, GitMerge, RemoveWorkspace, CompleteTransition, Steps
<1>3. \/ workspace' = workspace
      \/ workspace' = [workspace EXCEPT ![j] = "committed"]
      \/ workspace' = [workspace EXCEPT ![j] = "removed"]
  BY DEF GitCommit, GitMerge, RemoveWorkspace
<1>4. target' = target \/ target' = Append(target, j)
  BY DEF GitCommit, GitMerge, RemoveWorkspace
<1>5. registry' = registry \/ registry' = [registry EXCEPT ![j] = registry[j] + 1]
  BY DEF GitCommit, GitMerge, RemoveWorkspace
<1>6. workspace' \in [Jobs -> {"none", "changed", "committed", "removed"}]
  BY <1>1, <1>3 DEF TypeOK
<1>7. target' \in Seq(Jobs \cup {Elsewhere})
  <2>1. target \in Seq(Jobs \cup {Elsewhere}) /\ j \in Jobs \cup {Elsewhere}
    BY <1>1 DEF TypeOK
  <2>2. Append(target, j) \in Seq(Jobs \cup {Elsewhere})
    BY <2>1
  <2> QED BY <1>4, <2>1, <2>2
<1>8. registry' \in [Jobs -> Nat]
  <2>1. registry \in [Jobs -> Nat] /\ j \in Jobs
    BY <1>1 DEF TypeOK
  <2> HIDE DEF j
  <2>2. registry[j] + 1 \in Nat
    BY <2>1
  <2> QED BY <1>5, <2>1, <2>2
<1>9. UNCHANGED <<history, records, manifests, launches, base, crashes>>
  BY DEF GitCommit, GitMerge, RemoveWorkspace, store
<1> QED BY <1>2, <1>6, <1>7, <1>8, <1>9 DEF TypeOK

\* A commit made elsewhere keeps the target typed.
LEMMA AdvanceTyped == ASSUME TypeOK, TargetAdvances PROVE TypeOK'
<1>1. target \in Seq(Jobs \cup {Elsewhere}) /\ target' = Append(target, Elsewhere)
  BY DEF TypeOK, TargetAdvances
<1>2. target' \in Seq(Jobs \cup {Elsewhere})
  BY <1>1
<1> QED BY <1>2 DEF TargetAdvances, TypeOK, store

\* A crash ends a call and counts.
LEMMA CrashTyped == ASSUME TypeOK, NEW c \in Callers, Crash(c) PROVE TypeOK'
<1>1. calls' \in [Callers -> Call \cup {Idle}]
  BY EndTyped DEF Crash
<1> QED BY <1>1 DEF Crash, TypeOK, store, git

\* TransactionalExecution is type-correct: what is stored stays sequences of
\* transitions and records, whatever calls overlap.
THEOREM TypeCorrect == Spec => []TypeOK
<1>1. Init => TypeOK
  BY DEF Init, TypeOK, Idle
<1>2. TypeOK /\ [Next]_vars => TypeOK'
  <2> SUFFICES ASSUME TypeOK, [Next]_vars PROVE TypeOK'
    OBVIOUS
  <2>1. CASE UNCHANGED vars
    BY <2>1 DEF vars, TypeOK
  <2>2. CASE TargetAdvances
    BY <2>2, AdvanceTyped
  <2>3. CASE \E c \in Callers : CallerNext(c)
    <3>1. PICK c \in Callers : CallerNext(c)
      BY <2>3
    <3>2. CASE CallStep(c)
      BY <3>2, ListTyped, CommitIntentTyped, LaunchTyped, CollectTyped, LifecycleErrorTyped,
         CommitOutcomeTyped, GitTyped, CommitStageTyped DEF CallStep
    <3>3. CASE Crash(c)
      BY <3>3, CrashTyped
    <3>4. ASSUME NEW j \in Jobs, BeginExecute(c, j) PROVE TypeOK'
      BY <3>4, ExecuteTyped
    <3>5. ASSUME NEW j \in Jobs, NEW op, BeginAnyStage(c, j, op) PROVE TypeOK'
      BY <3>5, BeginStageTyped DEF BeginAnyStage
    <3> QED BY <3>1, <3>2, <3>3, <3>4, <3>5 DEF CallerNext
  <2> QED BY <2>1, <2>2, <2>3 DEF Next
<1> QED BY <1>1, <1>2, PTL DEF Spec

-----------------------------------------------------------------------------
(* At most one launch *)

\* A step that starts no agent and moves no call towards a launch keeps
\* LaunchInv: artifacts are only added, registered and committed.
LEMMA LaunchFrame ==
    ASSUME TypeOK, TypeOK', LaunchInv,
           launches' = launches,
           \A j \in Jobs : registry'[j] >= registry[j] /\ manifests[j] \subseteq manifests'[j],
           \A d \in Callers : \/ calls'[d] = calls[d]
                              \/ calls'[d] = Idle
                              \/ calls'[d].step \notin {"list", "intent", "launch"}
    PROVE  LaunchInv'
<1>1. \A j \in Jobs : launches'[j] <= 1 /\ (launches'[j] = 1 => 1 \in manifests'[j])
  BY DEF LaunchInv
<1>2. ASSUME NEW d \in Callers PROVE IntentHeld(d)'
  <2>1. CASE calls'[d] = calls[d] /\ calls[d] # Idle
    <3>1. calls[d].job \in Jobs
      BY <2>1 DEF TypeOK, Call
    <3>2. registry[calls[d].job] \in Nat /\ registry'[calls[d].job] \in Nat
      BY <3>1 DEF TypeOK
    <3>3. IntentHeld(d)
      BY DEF LaunchInv
    <3> QED BY <2>1, <3>1, <3>2, <3>3 DEF IntentHeld, At
  <2>2. CASE calls'[d] = Idle \/ calls'[d].step \notin {"list", "intent", "launch"}
    BY <2>2 DEF IntentHeld, At
  <2> QED BY <2>1, <2>2
<1>3. ASSUME NEW c \in Callers, NEW d \in Callers, At(c, "launch")', At(d, "launch")',
             calls'[c].job = calls'[d].job
      PROVE  c = d
  BY <1>3 DEF LaunchInv, At
<1> QED BY <1>1, <1>2, <1>3 DEF LaunchInv

\* BeginExecute: the intent is registered before it is listed.
LEMMA BeginExecuteLaunch ==
    ASSUME TypeOK, LaunchInv, NEW c \in Callers, NEW j \in Jobs, BeginExecute(c, j)
    PROVE  LaunchInv'
<1>1. registry[j] \in Nat /\ registry'[j] = registry[j] + 1
  BY DEF TypeOK, BeginExecute, RegisterIntent
<1>2. \A k \in Jobs : k # j => registry'[k] = registry[k]
  BY DEF TypeOK, BeginExecute
<1>3. launches' = launches /\ manifests' = manifests
  BY DEF BeginExecute, store
<1>4. /\ calls'[c].step = "list" /\ calls'[c].job = j
      /\ \A d \in Callers \ {c} : calls'[d] = calls[d]
  BY DEF TypeOK, BeginExecute
<1>5. \A j1 \in Jobs : launches'[j1] <= 1 /\ (launches'[j1] = 1 => 1 \in manifests'[j1])
  BY <1>3 DEF LaunchInv
<1>6. ASSUME NEW d \in Callers PROVE IntentHeld(d)'
  <2>1. CASE d = c
    BY <1>1, <1>4, <2>1 DEF IntentHeld, At
  <2>2. CASE d # c /\ calls[d] # Idle
    <3>1. calls[d].job \in Jobs /\ calls'[d] = calls[d]
      BY <1>4, <2>2 DEF TypeOK, Call
    <3>2. registry'[calls[d].job] >= 1 \/ registry'[calls[d].job] = registry[calls[d].job]
      BY <1>1, <1>2, <3>1
    <3>3. IntentHeld(d)
      BY DEF LaunchInv
    <3> QED BY <1>3, <3>1, <3>2, <3>3 DEF IntentHeld, At
  <2>3. CASE d # c /\ calls[d] = Idle
    BY <1>4, <2>3 DEF IntentHeld, At
  <2> QED BY <2>1, <2>2, <2>3
<1>7. ASSUME NEW d \in Callers, NEW e \in Callers, At(d, "launch")', At(e, "launch")',
             calls'[d].job = calls'[e].job
      PROVE  d = e
  BY <1>4, <1>7 DEF LaunchInv, At
<1> QED BY <1>5, <1>6, <1>7 DEF LaunchInv

\* ListPreexisting: the list made after the intent was registered holds it.
LEMMA ListLaunch == ASSUME TypeOK, LaunchInv, NEW c \in Callers, ListPreexisting(c) PROVE LaunchInv'
<1> DEFINE j == calls[c].job
           known == ListManifests(registry[j])
<1>1. At(c, "list") /\ calls[c] \in Call /\ j \in Jobs
  BY CallTyped DEF ListPreexisting
<1>2. registry[j] \in Nat /\ registry[j] >= 1
  BY <1>1 DEF LaunchInv, IntentHeld, TypeOK
<1>3. 1 \in known
  BY <1>2 DEF ListManifests
<1>4. /\ calls' = [calls EXCEPT ![c].step = "intent", ![c].known = known]
      /\ launches' = launches /\ manifests' = manifests /\ registry' = registry
  BY DEF ListPreexisting, store
<1> HIDE DEF known
<1>5. /\ calls'[c].step = "intent" /\ calls'[c].known = known
      /\ \A d \in Callers \ {c} : calls'[d] = calls[d]
  BY <1>1, <1>4 DEF TypeOK, Call
<1>6. \A d \in Callers : IntentHeld(d)'
  BY <1>3, <1>4, <1>5 DEF LaunchInv, IntentHeld, At
<1>7. ASSUME NEW d \in Callers, NEW e \in Callers, At(d, "launch")', At(e, "launch")',
             calls'[d].job = calls'[e].job
      PROVE  d = e
  BY <1>5, <1>7 DEF LaunchInv, At
<1> QED BY <1>4, <1>6, <1>7 DEF LaunchInv

\* CommitIntent: artifact 1 is inserted once, so nobody else is about to
\* launch when it succeeds and nothing was launched before.
LEMMA CommitIntentLaunch ==
    ASSUME TypeOK, TypeOK', LaunchInv, NEW c \in Callers, CommitIntent(c)
    PROVE  LaunchInv'
<1> DEFINE j == calls[c].job
<1>1. At(c, "intent") /\ calls[c] \in Call /\ j \in Jobs
  BY CallTyped DEF CommitIntent
<1>2. 1 \in calls[c].known
  BY <1>1 DEF LaunchInv, IntentHeld
<1>3. launches' = launches /\ registry' = registry
  BY DEF CommitIntent
<1>4. CASE TransactionApplies(j, 0, 0, calls[c].known)
  <2>1. 1 \notin manifests[j]
    BY <1>2, <1>4 DEF TransactionApplies
  <2>2. launches[j] = 0
    <3>1. launches[j] \in Nat
      BY <1>1 DEF TypeOK
    <3>2. launches[j] <= 1 /\ launches[j] # 1
      BY <1>1, <2>1 DEF LaunchInv
    <3> QED BY <3>1, <3>2
  <2>3. /\ manifests' = [manifests EXCEPT ![j] = @ \cup calls[c].known]
        /\ calls' = [calls EXCEPT ![c].step = "launch"]
    BY <1>4 DEF CommitIntent, Goto
  <2>4. /\ 1 \in manifests'[j]
        /\ \A k \in Jobs : manifests[k] \subseteq manifests'[k]
    BY <1>1, <1>2, <2>3 DEF TypeOK
  <2>5. /\ calls'[c].step = "launch" /\ calls'[c].job = j
        /\ \A d \in Callers \ {c} : calls'[d] = calls[d]
    BY <1>1, <2>3 DEF TypeOK, Call
  <2>6. \A k \in Jobs : launches'[k] <= 1 /\ (launches'[k] = 1 => 1 \in manifests'[k])
    BY <1>3, <2>4 DEF LaunchInv
  <2>7. ASSUME NEW d \in Callers PROVE IntentHeld(d)'
    <3>1. CASE d = c
      BY <1>3, <2>2, <2>4, <2>5, <3>1 DEF IntentHeld, At
    <3>2. CASE d # c /\ calls[d] # Idle
      <4>1. calls[d].job \in Jobs /\ calls'[d] = calls[d]
        BY <2>5, <3>2 DEF TypeOK, Call
      <4>2. IntentHeld(d)
        BY DEF LaunchInv
      <4> QED BY <1>3, <2>4, <4>1, <4>2 DEF IntentHeld, At
    <3>3. CASE d # c /\ calls[d] = Idle
      BY <2>5, <3>3 DEF IntentHeld, At
    <3> QED BY <3>1, <3>2, <3>3
  <2>8. ASSUME NEW d \in Callers, At(d, "launch"), calls[d].job = j PROVE FALSE
    BY <2>1, <2>8 DEF LaunchInv, IntentHeld
  <2>9. ASSUME NEW d \in Callers, NEW e \in Callers, At(d, "launch")', At(e, "launch")',
               calls'[d].job = calls'[e].job
        PROVE  d = e
    BY <2>5, <2>8, <2>9 DEF LaunchInv, At
  <2> QED BY <2>6, <2>7, <2>9 DEF LaunchInv
<1>5. CASE ~TransactionApplies(j, 0, 0, calls[c].known)
  <2>1. manifests' = manifests /\ calls' = [calls EXCEPT ![c] = Idle]
    BY <1>5 DEF CommitIntent, End
  <2>2. \A d \in Callers : calls'[d] = calls[d] \/ calls'[d] = Idle
    BY <2>1 DEF TypeOK
  <2>3. \A k \in Jobs : registry'[k] >= registry[k]
    BY <1>3 DEF TypeOK
  <2> QED BY <1>3, <2>1, <2>2, <2>3, LaunchFrame
<1> QED BY <1>4, <1>5

\* Launch: the one caller that holds the intent leaves the launch step.
LEMMA LaunchLaunch ==
    ASSUME TypeOK, TypeOK', LaunchInv, NEW c \in Callers, Launch(c)
    PROVE  LaunchInv'
<1> DEFINE j == calls[c].job
<1>1. At(c, "launch") /\ calls[c] \in Call /\ j \in Jobs
  BY CallTyped DEF Launch
<1>2. 1 \in manifests[j] /\ launches[j] = 0
  BY <1>1 DEF LaunchInv, IntentHeld
<1>3. manifests' = manifests /\ registry' = registry
  BY DEF Launch, store
<1>4. launches'[j] = 1 /\ \A k \in Jobs : k # j => launches'[k] = launches[k]
  <2>1. launches' = [launches EXCEPT ![j] = launches[j] + 1]
    BY DEF Launch
  <2>2. launches \in [Jobs -> Nat]
    BY DEF TypeOK
  <2> QED BY <1>1, <1>2, <2>1, <2>2
<1>5. /\ calls'[c] = Idle \/ calls'[c].step = "collect"
      /\ \A d \in Callers \ {c} : calls'[d] = calls[d]
  BY <1>1 DEF Launch, Goto, End, TypeOK, Call
<1>6. \A k \in Jobs : launches'[k] <= 1 /\ (launches'[k] = 1 => 1 \in manifests'[k])
  BY <1>2, <1>3, <1>4 DEF LaunchInv
<1>7. ASSUME NEW d \in Callers PROVE IntentHeld(d)'
  <2>1. CASE d = c
    BY <1>5, <2>1 DEF IntentHeld, At
  <2>2. CASE d # c /\ calls[d] # Idle
    <3>1. calls[d].job \in Jobs /\ calls'[d] = calls[d]
      BY <1>5, <2>2 DEF TypeOK, Call
    <3>2. At(d, "launch") => calls[d].job # j
      BY <1>1, <2>2 DEF LaunchInv
    <3>3. IntentHeld(d)
      BY DEF LaunchInv
    <3> QED BY <1>3, <1>4, <3>1, <3>2, <3>3 DEF IntentHeld, At
  <2>3. CASE d # c /\ calls[d] = Idle
    BY <1>5, <2>3 DEF IntentHeld, At
  <2> QED BY <2>1, <2>2, <2>3
<1>8. ASSUME NEW d \in Callers, NEW e \in Callers, At(d, "launch")', At(e, "launch")',
             calls'[d].job = calls'[e].job
      PROVE  d = e
  BY <1>5, <1>8 DEF LaunchInv, At
<1> QED BY <1>6, <1>7, <1>8 DEF LaunchInv

\* The remaining actions start nothing, and none of them goes to a step
\* before the launch.  First those that end or continue a call ...
LEMMA ContinueLaunch ==
    ASSUME TypeOK, TypeOK', LaunchInv, NEW c \in Callers,
           launches' = launches,
           \/ manifests' = manifests
           \/ \E j \in Jobs : \E S : manifests' = [manifests EXCEPT ![j] = manifests[j] \cup S],
           \/ registry' = registry
           \/ \E j \in Jobs : registry' = [registry EXCEPT ![j] = registry[j] + 1],
           \E call : /\ calls' = [calls EXCEPT ![c] = call]
                     /\ call = Idle \/ call.step \notin {"list", "intent", "launch"}
    PROVE  LaunchInv'
<1>1. ASSUME NEW k \in Jobs PROVE manifests[k] \subseteq manifests'[k]
  <2>1. CASE manifests' = manifests
    BY <2>1
  <2>2. ASSUME NEW j \in Jobs, NEW S, manifests' = [manifests EXCEPT ![j] = manifests[j] \cup S]
        PROVE  manifests[k] \subseteq manifests'[k]
    <3>1. manifests'[k] = IF k = j THEN manifests[j] \cup S ELSE manifests[k]
      BY <2>2 DEF TypeOK
    <3> QED BY <3>1
  <2> QED BY <2>1, <2>2
<1>2. ASSUME NEW k \in Jobs PROVE registry'[k] >= registry[k]
  <2>1. registry \in [Jobs -> Nat]
    BY DEF TypeOK
  <2>2. CASE registry' = registry
    BY <2>1, <2>2
  <2>3. ASSUME NEW j \in Jobs, registry' = [registry EXCEPT ![j] = registry[j] + 1]
        PROVE  registry'[k] >= registry[k]
    BY <2>1, <2>3
  <2> QED BY <2>2, <2>3
<1>3. PICK call : /\ calls' = [calls EXCEPT ![c] = call]
                  /\ call = Idle \/ call.step \notin {"list", "intent", "launch"}
  OBVIOUS
<1>4. ASSUME NEW d \in Callers
      PROVE  calls'[d] = calls[d] \/ calls'[d] = Idle
             \/ calls'[d].step \notin {"list", "intent", "launch"}
  <2>1. calls'[d] = IF d = c THEN call ELSE calls[d]
    BY <1>3 DEF TypeOK
  <2> QED BY <1>3, <2>1
<1> QED BY <1>1, <1>2, <1>4, LaunchFrame

\* ... which every remaining action does.
LEMMA OtherLaunch ==
    ASSUME TypeOK, TypeOK', LaunchInv, NEW c \in Callers,
           \/ \E outcome : CollectOutcome(c, outcome)
           \/ LifecycleError(c) \/ CommitOutcome(c)
           \/ GitCommit(c) \/ GitMerge(c) \/ RemoveWorkspace(c) \/ CommitStage(c) \/ Crash(c)
           \/ \E j \in Jobs : \E op, result, actor : BeginStage(c, j, op, result, actor)
    PROVE  LaunchInv'
<1>1. calls[c] # Idle => calls[c] \in Call /\ calls[c].job \in Jobs
  BY DEF TypeOK, Call
<1>2. ASSUME NEW step, step \notin {"list", "intent", "launch"}, calls[c] # Idle, Goto(c, step)
      PROVE  \E call : /\ calls' = [calls EXCEPT ![c] = call]
                       /\ call = Idle \/ call.step \notin {"list", "intent", "launch"}
  <2>1. calls' = [calls EXCEPT ![c] = [calls[c] EXCEPT !.step = step]]
    BY <1>2 DEF Goto
  <2>2. [calls[c] EXCEPT !.step = step].step = step
    BY <1>1, <1>2 DEF Call
  <2> QED BY <1>2, <2>1, <2>2
<1>3. ASSUME End(c)
      PROVE  \E call : /\ calls' = [calls EXCEPT ![c] = call]
                       /\ call = Idle \/ call.step \notin {"list", "intent", "launch"}
  BY <1>3 DEF End
<1>4. ASSUME NEW outcome, CollectOutcome(c, outcome) PROVE LaunchInv'
  <2> DEFINE call == [calls[c] EXCEPT !.step = "outcome", !.state = outcome,
                                      !.buffered = ExecutionPath(outcome, AuthorityOf[calls[c].job])]
  <2>1. calls' = [calls EXCEPT ![c] = call] /\ calls[c] # Idle
    BY <1>4 DEF CollectOutcome, At
  <2>2. call.step = "outcome"
    BY <1>1, <2>1 DEF Call
  <2>3. \E call1 : /\ calls' = [calls EXCEPT ![c] = call1]
                   /\ call1 = Idle \/ call1.step \notin {"list", "intent", "launch"}
    BY <2>1, <2>2
  <2>4. /\ launches' = launches /\ manifests' = manifests
        /\ registry' = [registry EXCEPT ![calls[c].job] = registry[calls[c].job] + 1]
    BY <1>4 DEF CollectOutcome, store
  <2> QED BY <1>1, <2>1, <2>3, <2>4, ContinueLaunch
<1>5. CASE LifecycleError(c)
  <2>1. /\ launches' = launches /\ manifests' = manifests /\ calls[c] # Idle /\ End(c)
        /\ registry' = [registry EXCEPT ![calls[c].job] = registry[calls[c].job] + 1]
    BY <1>5 DEF LifecycleError, At, store
  <2>2. \E call : /\ calls' = [calls EXCEPT ![c] = call]
                  /\ call = Idle \/ call.step \notin {"list", "intent", "launch"}
    BY <2>1, <1>3
  <2> QED BY <1>1, <2>1, <2>2, ContinueLaunch
<1>6. CASE CommitOutcome(c)
  <2> DEFINE j == calls[c].job
             inserted == ListManifests(registry[j]) \ calls[c].known
  <2>1. launches' = launches /\ registry' = registry /\ calls[c] # Idle /\ End(c)
    BY <1>6 DEF CommitOutcome, At
  <2>2. manifests' = manifests \/ manifests' = [manifests EXCEPT ![j] = manifests[j] \cup inserted]
    BY <1>6 DEF CommitOutcome, store
  <2>3. \E call : /\ calls' = [calls EXCEPT ![c] = call]
                  /\ call = Idle \/ call.step \notin {"list", "intent", "launch"}
    BY <2>1, <1>3
  <2> QED BY <1>1, <2>1, <2>2, <2>3, ContinueLaunch
<1>7. CASE GitCommit(c)
  <2>1. /\ launches' = launches /\ registry' = registry /\ manifests' = manifests
        /\ calls[c] # Idle /\ (End(c) \/ Goto(c, "git_merge"))
    BY <1>7 DEF GitCommit, At, store
  <2>2. \E call : /\ calls' = [calls EXCEPT ![c] = call]
                  /\ call = Idle \/ call.step \notin {"list", "intent", "launch"}
    BY <2>1, <1>2, <1>3
  <2> QED BY <2>1, <2>2, ContinueLaunch
<1>8. CASE GitMerge(c)
  <2>1. /\ launches' = launches /\ manifests' = manifests
        /\ calls[c] # Idle /\ (End(c) \/ Goto(c, "commit"))
    BY <1>8 DEF GitMerge, CompleteTransition, At, store
  <2>2. \/ registry' = registry
        \/ registry' = [registry EXCEPT ![calls[c].job] = registry[calls[c].job] + 1]
    BY <1>8 DEF GitMerge
  <2>3. \E call : /\ calls' = [calls EXCEPT ![c] = call]
                  /\ call = Idle \/ call.step \notin {"list", "intent", "launch"}
    BY <2>1, <1>2, <1>3
  <2> QED BY <1>1, <2>1, <2>2, <2>3, ContinueLaunch
<1>9. CASE RemoveWorkspace(c)
  <2>1. /\ launches' = launches /\ manifests' = manifests
        /\ calls[c] # Idle /\ (End(c) \/ Goto(c, "commit"))
    BY <1>9 DEF RemoveWorkspace, At, store
  <2>2. \/ registry' = registry
        \/ registry' = [registry EXCEPT ![calls[c].job] = registry[calls[c].job] + 1]
    BY <1>9 DEF RemoveWorkspace
  <2>3. \E call : /\ calls' = [calls EXCEPT ![c] = call]
                  /\ call = Idle \/ call.step \notin {"list", "intent", "launch"}
    BY <2>1, <1>2, <1>3
  <2> QED BY <1>1, <2>1, <2>2, <2>3, ContinueLaunch
<1>10. CASE CommitStage(c)
  <2> DEFINE j == calls[c].job
             inserted == ListManifests(registry[j]) \ calls[c].known
  <2>1. launches' = launches /\ registry' = registry /\ calls[c] # Idle /\ End(c)
    BY <1>10 DEF CommitStage, At
  <2>2. manifests' = manifests \/ manifests' = [manifests EXCEPT ![j] = manifests[j] \cup inserted]
    BY <1>10 DEF CommitStage, store
  <2>3. \E call : /\ calls' = [calls EXCEPT ![c] = call]
                  /\ call = Idle \/ call.step \notin {"list", "intent", "launch"}
    BY <2>1, <1>3
  <2> QED BY <1>1, <2>1, <2>2, <2>3, ContinueLaunch
<1>11. CASE Crash(c)
  <2>1. launches' = launches /\ manifests' = manifests /\ registry' = registry /\ End(c)
    BY <1>11 DEF Crash, store
  <2>2. \E call : /\ calls' = [calls EXCEPT ![c] = call]
                  /\ call = Idle \/ call.step \notin {"list", "intent", "launch"}
    BY <2>1, <1>3
  <2> QED BY <2>1, <2>2, ContinueLaunch
<1>12. ASSUME NEW j \in Jobs, NEW op, NEW result, NEW actor, BeginStage(c, j, op, result, actor)
       PROVE  LaunchInv'
  <2> DEFINE t == TaskOf[j]
             state == current_state(history[t])
             call == [op |-> op, job |-> j, known |-> manifests[j],
                      buffered |-> IF op = "cleanup" THEN <<>> ELSE <<Step(state, result, actor)>>,
                      state |-> result, task_seq |-> Len(history[t]),
                      run_seq |-> Len(records[RunOf[j]]),
                      step |-> CASE op = "integrate" -> "git_commit"
                                 [] op = "cleanup" -> "remove"
                                 [] OTHER -> "commit"]
  <2>1. calls' = [calls EXCEPT ![c] = call]
    BY <1>12 DEF BeginStage
  <2>2. call.step \notin {"list", "intent", "launch"}
    OBVIOUS
  <2>3. \E call1 : /\ calls' = [calls EXCEPT ![c] = call1]
                   /\ call1 = Idle \/ call1.step \notin {"list", "intent", "launch"}
    BY <2>1, <2>2
  <2>4. launches' = launches /\ manifests' = manifests
    BY <1>12 DEF BeginStage, store
  <2>5. \/ registry' = [registry EXCEPT ![j] = registry[j]]
        \/ registry' = [registry EXCEPT ![j] = registry[j] + 1]
    BY <1>12 DEF BeginStage
  <2>6. [registry EXCEPT ![j] = registry[j]] = registry
    BY DEF TypeOK
  <2> QED BY <2>3, <2>4, <2>5, <2>6, ContinueLaunch
<1> QED BY <1>4, <1>5, <1>6, <1>7, <1>8, <1>9, <1>10, <1>11, <1>12

\* One artifact is in every list made after the intent was registered: of the
\* calls that commit an intent of a job, only the first goes on to the launch.
THEOREM LaunchInvHolds == Spec => []LaunchInv
<1>1. Init => LaunchInv
  BY DEF Init, LaunchInv, IntentHeld, At
<1>2. TypeOK /\ TypeOK' /\ LaunchInv /\ [Next]_vars => LaunchInv'
  <2> SUFFICES ASSUME TypeOK, TypeOK', LaunchInv, [Next]_vars PROVE LaunchInv'
    OBVIOUS
  <2>1. CASE UNCHANGED vars
    BY <2>1 DEF vars, LaunchInv, IntentHeld, At
  <2>2. CASE TargetAdvances
    BY <2>2 DEF TargetAdvances, store, LaunchInv, IntentHeld, At
  <2>3. CASE \E c \in Callers : CallerNext(c)
    <3>1. PICK c \in Callers : CallerNext(c)
      BY <2>3
    <3>2. CASE CallStep(c)
      BY <3>2, ListLaunch, CommitIntentLaunch, LaunchLaunch, OtherLaunch DEF CallStep
    <3>3. CASE Crash(c)
      BY <3>3, OtherLaunch
    <3>4. ASSUME NEW j \in Jobs, BeginExecute(c, j) PROVE LaunchInv'
      BY <3>4, BeginExecuteLaunch
    <3>5. ASSUME NEW j \in Jobs, NEW op, BeginAnyStage(c, j, op) PROVE LaunchInv'
      BY <3>5, OtherLaunch DEF BeginAnyStage
    <3> QED BY <3>1, <3>2, <3>3, <3>4, <3>5 DEF CallerNext
  <2> QED BY <2>1, <2>2, <2>3 DEF Next
<1> QED BY <1>1, <1>2, TypeCorrect, PTL DEF Spec

\* execute starts the agent of a task and run at most once, whatever calls
\* overlap, repeat and crash: the guarantee TransactionalExecutionCoordinator
\* gives before it calls the controller.
THEOREM AtMostOneLaunchHolds == Spec => []AtMostOneLaunch
<1>1. LaunchInv => AtMostOneLaunch
  BY DEF LaunchInv, AtMostOneLaunch
<1> QED BY <1>1, LaunchInvHolds, PTL
=============================================================================
