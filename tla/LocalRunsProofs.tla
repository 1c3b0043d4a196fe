--------------------------- MODULE LocalRunsProofs ---------------------------
(***************************************************************************)
(* What the files, the worktree and the ledger of a local run owe to each  *)
(* other between any two steps of a command, proved for any runs, commits  *)
(* made elsewhere, interruptions and failed writes.  The number of ledger  *)
(* records fixes what the journal, the artifacts and the worktree may be:  *)
(* the workflow is at most the transition of the next stage ahead, and     *)
(* what that stage registers first is then there.  That is all assess can  *)
(* see, so its verdicts follow from it, and recovery, which starts on such *)
(* a verdict, finds the rest of its stage done.  Every run is then a run   *)
(* of the pipeline: its records tell its stages in order.                  *)
(***************************************************************************)
EXTENDS LocalRuns, FiniteSetTheorems, SequenceTheorems, TLAPS

-----------------------------------------------------------------------------
(* The inductive invariant: the stores of one run *)

Executing == {"draft", "planned", "implementing", "verifying"} \cup Outcomes
Decisions == {"integrating", "repairing", "cancelled"}

\* What each record of a ledger may say after the one before it
LedgerOK(ledger) ==
    /\ Len(ledger) <= 5
    /\ Len(ledger) >= 1 => ledger[1].state \in Outcomes
    /\ Len(ledger) >= 2 => /\ ledger[1].state = "reviewing"
                           /\ ledger[2].state \in {"repairing", "merge_review"}
    /\ Len(ledger) >= 3 => ledger[2].state = "merge_review" /\ ledger[3].state \in Decisions
    /\ Len(ledger) >= 4 => ledger[3].state = "integrating" /\ ledger[4].state = "completed"
    /\ Len(ledger) >= 5 => ledger[5].state = "completed"

\* The state that the last record tells
Told(ledger) == ledger[Len(ledger)].state

\* The workflow is the transition of the next stage ahead of the ledger, and
\* the evidence that stage registers first is there.
Ahead(st) ==
    /\ LastTransition(st).from = Told(st.ledger)
    /\ \/ Len(st.ledger) = 1 /\ Told(st.ledger) = "reviewing"
          /\ State(st) \in {"repairing", "merge_review"}
       \/ Len(st.ledger) = 2 /\ Told(st.ledger) = "merge_review"
          /\ State(st) \in Decisions /\ "decision" \in st.artifacts
       \/ Len(st.ledger) = 3 /\ Told(st.ledger) = "integrating"
          /\ State(st) = "completed" /\ "integration" \in st.artifacts
          /\ st.workspace = "committed"

JournalOK(st) ==
    /\ IsWorkflowPath(st.journal)
    /\ Len(st.ledger) = 0 => State(st) \in Executing
    /\ Len(st.ledger) > 0 => State(st) = Told(st.ledger) \/ Ahead(st)

\* An outcome that was registered and not yet recorded is the state that the
\* workflow is in.
ArtifactsOK(st) ==
    /\ "outcome" \in st.artifacts /\ Len(st.ledger) = 0 =>
          "intent" \in st.artifacts /\ st.outcome = State(st) /\ st.workspace = "changed"
    /\ Len(st.ledger) >= 1 => {"intent", "outcome"} \subseteq st.artifacts
    /\ Len(st.ledger) >= 3 => "decision" \in st.artifacts
    /\ Len(st.ledger) >= 4 => "integration" \in st.artifacts
    /\ "decision" \in st.artifacts \/ st.card # "absent" => CardExpected(st)

WorkspaceOK(st) ==
    /\ Len(st.ledger) = 0 => st.workspace \in {"none", "changed"}
    /\ Len(st.ledger) \in {1, 2} => st.workspace = "changed"
    /\ Len(st.ledger) = 3 => \/ st.workspace = "changed"
                             \/ st.workspace = "committed" /\ st.ledger[3].state = "integrating"
    /\ Len(st.ledger) = 4 => st.workspace \in {"committed", "removed"}
    /\ Len(st.ledger) = 5 => st.workspace = "removed"

IsMerged(r, commits) == \E i \in 1..Len(commits) : commits[i] = r

\* A run is merged on its base and nowhere else, and completed when it is.
CommitsOK(r, st, commits) ==
    /\ \A i \in 1..Len(commits) : commits[i] = r => st.directory /\ i = st.base + 1
    /\ State(st) = "completed" => IsMerged(r, commits)

RunOK(r, st, commits, launched) ==
    /\ LedgerOK(st.ledger) /\ JournalOK(st) /\ ArtifactsOK(st) /\ WorkspaceOK(st)
    /\ CommitsOK(r, st, commits)
    /\ launched <= 1
    /\ ~st.directory => st = NoRun /\ launched = 0

-----------------------------------------------------------------------------
(* The inductive invariant: the command in progress *)

\* Nothing but its card is missing or doubtful.
AtRest(st) ==
    /\ Inspects(st) /\ ArtifactsValid(st)
    /\ ~DecisionGap(st) /\ ~IntegrationGap(st) /\ ~CleanupGap(st)

\* What execute has done before each of its steps
ExecutionOK(c, st, launched) ==
    /\ c.step \in {"intent", "workspace", "planned", "implementing", "launch", "collect",
                   "verify", "outcome", "record"}
    /\ st.ledger = <<>>
    /\ c.step # "record" => c.by = "command" /\ "outcome" \notin st.artifacts
    /\ c.step # "intent" => "intent" \in st.artifacts
    /\ c.step \notin {"intent", "workspace"} => st.workspace = "changed"
    /\ c.step \in {"intent", "workspace", "planned", "implementing", "launch"} => launched = 0
    /\ c.step \in {"intent", "workspace", "planned"} => State(st) = "draft"
    /\ c.step = "implementing" => State(st) = "planned"
    /\ c.step \in {"launch", "collect"} => State(st) = "implementing"
    /\ c.step = "verify" => State(st) = "verifying"
    /\ c.step \in {"outcome", "record"} => State(st) = c.state /\ c.state \in Outcomes
    /\ c.step = "record" => "outcome" \in st.artifacts

ReviewOK(c, st) ==
    /\ c.by = "command" /\ c.step \in {"transition", "record", "create", "write"}
    /\ c.state \in {"repairing", "merge_review"}
    /\ c.step \in {"transition", "record"} => Len(st.ledger) = 1 /\ st.ledger[1].state = "reviewing"
    /\ c.step = "transition" => State(st) = "reviewing"
    /\ c.step = "record" => State(st) = c.state
    /\ c.step \in {"create", "write"} => CardExpected(st)

DecisionOK(c, st) ==
    /\ c.step \in {"register", "transition", "record"}
    /\ Len(st.ledger) = 2 /\ CardExpected(st) /\ c.state \in Decisions
    /\ c.step # "record" => c.by = "command"
    /\ c.step # "register" => "decision" \in st.artifacts
    /\ c.step = "record" => State(st) = c.state

IntegrationOK(c, st, commits) ==
    /\ c.step \in {"commit", "merge", "register", "transition", "attest", "record"}
    /\ Len(st.ledger) = 3 /\ st.ledger[3].state = "integrating" /\ c.state = "completed"
    /\ c.step \notin {"attest", "record"} => c.by = "command" /\ State(st) = "integrating"
    /\ c.step \in {"attest", "record"} => State(st) = "completed"
    /\ c.step \notin {"commit", "attest"} => st.workspace = "committed"
    /\ c.step \in {"register", "transition"} => IsMerged(c.run, commits)
    /\ c.step = "transition" => "integration" \in st.artifacts

CleanupOK(c, st) ==
    /\ c.step \in {"remove", "record"} /\ Len(st.ledger) = 4 /\ c.state = "completed"
    /\ c.step = "record" \/ c.by = "recovery" => st.workspace = "removed"

CardOK(c, st) ==
    /\ c.by = "recovery" /\ c.step \in {"create", "write"}
    /\ AtRest(st) /\ CardExpected(st)

\* Recovery found what its record or its card tells; it confirms a run at rest.
CallOK(c, st, commits, launched) ==
    /\ st.directory
    /\ c.step = "confirm" => c.by = "recovery" /\ AtRest(st)
    /\ c.step # "confirm" =>
          /\ c.stage = "execution" => ExecutionOK(c, st, launched)
          /\ c.stage = "implementation_review" => ReviewOK(c, st)
          /\ c.stage = "decision_application" => DecisionOK(c, st)
          /\ c.stage = "source_integration" => IntegrationOK(c, st, commits)
          /\ c.stage = "workspace_cleanup" => CleanupOK(c, st)
          /\ c.stage = "card" => CardOK(c, st)

LocalInv ==
    /\ TypeOK
    /\ \A r \in Runs : RunOK(r, runs[r], target, launches[r])
    /\ call # Idle => CallOK(call, runs[call.run], target, launches[call.run])

-----------------------------------------------------------------------------
(* Journals *)

Legal(tr) == tr.to \in ALLOWED_TRANSITIONS[tr.from] /\ Authorized(tr.actor, tr.from, tr.to)

\* A legal transition from where a path has come extends the path.
LEMMA PathExtends ==
    ASSUME NEW h \in Seq(Transition), IsWorkflowPath(h),
           NEW tr \in Transition, Legal(tr), tr.from = current_state(h)
    PROVE  LET new == Append(h, tr)
           IN  /\ new \in Seq(Transition) /\ IsWorkflowPath(new)
               /\ current_state(new) = tr.to /\ new[Len(new)] = tr
<1> DEFINE n == Len(h) + 1
           new == Append(h, tr)
<1>1. /\ Len(h) \in Nat /\ new \in Seq(Transition) /\ Len(new) = n /\ new[n] = tr
      /\ \A i \in 1..Len(h) : new[i] = h[i]
  BY AppendProperties
<1>2. current_state(h) = IF n = 1 THEN "draft" ELSE h[n - 1].to
  BY <1>1 DEF current_state
<1> HIDE DEF new
<1>3. ASSUME NEW i \in 1..n
      PROVE  /\ new[i].from = (IF i = 1 THEN "draft" ELSE new[i - 1].to)
             /\ Legal(new[i])
  <2>1. CASE i = n
    <3>1. i # 1 => i - 1 \in 1..Len(h)
      BY <1>1, <2>1
    <3> QED
      BY <1>1, <1>2, <2>1, <3>1
  <2>2. CASE i # n
    <3>1. i \in 1..Len(h) /\ (i # 1 => i - 1 \in 1..Len(h))
      BY <1>1, <2>2
    <3> QED
      BY <1>1, <3>1 DEF IsWorkflowPath, Legal
  <2> QED
    BY <2>1, <2>2
<1>4. IsWorkflowPath(new)
  BY <1>1, <1>3 DEF IsWorkflowPath, Legal
<1>5. current_state(new) = tr.to
  <2>1. new # <<>>
    BY <1>1
  <2> QED
    BY <1>1, <2>1 DEF current_state
<1> QED
  BY <1>1, <1>4, <1>5 DEF new

\* The state of a journal is a state of tasks, and draft where it is empty.
LEMMA StateTyped ==
    ASSUME NEW st \in Stores
    PROVE  State(st) \in TaskStates /\ (State(st) # "draft" => st.journal # <<>>)
<1>1. st.journal \in Seq(Transition)
  BY DEF Stores
<1>2. CASE st.journal = <<>>
  BY <1>2 DEF State, current_state, TaskStates
<1>3. CASE st.journal # <<>>
  <2>1. st.journal[Len(st.journal)] \in Transition
    BY <1>1, <1>3
  <2> QED
    BY <1>3, <2>1 DEF State, current_state, Transition
<1> QED
  BY <1>2, <1>3

\* A journalled transition moves the workflow of the command's run, and
\* nothing else of it.
LEMMA JournalStep ==
    ASSUME NEW to \in TaskStates, NEW actor \in ActorTypes, Journal(to, actor),
           runs \in [Runs -> Stores], call.run \in Runs, IsWorkflowPath(runs[call.run].journal)
    PROVE  /\ to \in ALLOWED_TRANSITIONS[State(runs[call.run])]
           /\ \E new \in Stores :
                 /\ runs' = [runs EXCEPT ![call.run] = new]
                 /\ State(new) = to /\ IsWorkflowPath(new.journal)
                 /\ LastTransition(new).from = State(runs[call.run])
                 /\ new.directory = runs[call.run].directory
                 /\ new.artifacts = runs[call.run].artifacts
                 /\ new.outcome = runs[call.run].outcome
                 /\ new.ledger = runs[call.run].ledger
                 /\ new.card = runs[call.run].card
                 /\ new.workspace = runs[call.run].workspace
                 /\ new.base = runs[call.run].base
<1> DEFINE st == runs[call.run]
           tr == [from |-> State(st), to |-> to, actor |-> actor]
           new == [st EXCEPT !.journal = Append(@, tr)]
<1>1. st \in Stores /\ st.journal \in Seq(Transition) /\ IsWorkflowPath(st.journal)
  BY DEF Stores
<1>2. runs' = [runs EXCEPT ![call.run] = new]
  BY DEF Journal, run
<1>3. to \in ALLOWED_TRANSITIONS[State(st)] /\ Authorized(actor, State(st), to)
  BY DEF Journal, run, CanTransition
<1>4. tr \in Transition /\ Legal(tr) /\ tr.from = current_state(st.journal) /\ tr.to = to
      /\ tr.from = State(st)
  BY <1>1, <1>3, StateTyped DEF Transition, Legal, State
<1> HIDE DEF tr, st
<1>5. /\ Append(st.journal, tr) \in Seq(Transition) /\ IsWorkflowPath(Append(st.journal, tr))
      /\ current_state(Append(st.journal, tr)) = to
      /\ Append(st.journal, tr)[Len(Append(st.journal, tr))] = tr
  BY <1>1, <1>4, PathExtends
<1>6. /\ new \in Stores /\ new.journal = Append(st.journal, tr)
      /\ new.directory = st.directory /\ new.artifacts = st.artifacts /\ new.outcome = st.outcome
      /\ new.ledger = st.ledger /\ new.card = st.card /\ new.workspace = st.workspace
      /\ new.base = st.base
  BY <1>1, <1>5 DEF Stores
<1> HIDE DEF new
<1>7. State(new) = to /\ IsWorkflowPath(new.journal) /\ LastTransition(new).from = State(st)
  BY <1>4, <1>5, <1>6 DEF State, LastTransition
<1> QED
  BY <1>2, <1>3, <1>6, <1>7 DEF st

-----------------------------------------------------------------------------
(* The kinds of steps *)

\* What the invariant says of the command in progress
LEMMA CallFacts ==
    ASSUME LocalInv, call # Idle
    PROVE  /\ call \in Call /\ call.run \in Runs /\ runs[call.run] \in Stores
           /\ runs[call.run].directory
           /\ RunOK(call.run, runs[call.run], target, launches[call.run])
           /\ CallOK(call, runs[call.run], target, launches[call.run])
           /\ launches[call.run] \in Nat /\ faults \in 0..MaxFaults
<1>1. call \in Call /\ CallOK(call, runs[call.run], target, launches[call.run])
  BY DEF LocalInv, TypeOK
<1>2. call.run \in Runs
  BY <1>1 DEF Call
<1> QED
  BY <1>1, <1>2 DEF LocalInv, TypeOK, CallOK

\* A call that goes on is not idle, and its fields are typed.
LEMMA CallTyped ==
    ASSUME NEW c \in Call
    PROVE  /\ c # Idle /\ c.by \in {"command", "recovery"} /\ c.run \in Runs
           /\ c.stage \in Stages \cup {"card"} /\ c.step \in Steps /\ c.state \in TaskStates
<1>1. c.by # Idle.by
  BY DEF Call, Idle
<1> QED
  BY <1>1 DEF Call

\* A step on the stores of one run, on the branch and on one launch count
LEMMA RunStep ==
    ASSUME LocalInv, NEW r \in Runs, NEW new \in Stores, NEW launched \in Nat,
           runs' = [runs EXCEPT ![r] = new], launches' = [launches EXCEPT ![r] = launched],
           target' \in Seq(Runs \cup {Elsewhere}),
           \A i \in 1..Len(target') : target'[i] = r \/ (i \in 1..Len(target) /\ target'[i] = target[i]),
           \A i \in 1..Len(target) : i \in 1..Len(target') /\ target'[i] = target[i],
           RunOK(r, new, target', launched), faults' \in 0..MaxFaults,
           \/ call' = Idle
           \/ call' \in Call /\ call'.run = r /\ CallOK(call', new, target', launched)
    PROVE  LocalInv'
<1>1. /\ runs \in [Runs -> Stores] /\ launches \in [Runs -> Nat]
      /\ \A q \in Runs : RunOK(q, runs[q], target, launches[q])
  BY DEF LocalInv, TypeOK
<1>2. /\ runs' \in [Runs -> Stores] /\ launches' \in [Runs -> Nat]
      /\ runs'[r] = new /\ launches'[r] = launched
      /\ \A q \in Runs \ {r} : runs'[q] = runs[q] /\ launches'[q] = launches[q]
  BY <1>1
<1>3. TypeOK'
  BY <1>2 DEF TypeOK
<1>4. ASSUME NEW q \in Runs
      PROVE  RunOK(q, runs'[q], target', launches'[q])
  <2>1. CASE q = r
    BY <1>2, <2>1
  <2>2. CASE q # r
    <3> DEFINE st == runs[q]
               commits == target'
    <3>1. RunOK(q, st, target, launches[q])
      BY <1>1
    <3>2. CommitsOK(q, st, target)
      BY <3>1 DEF RunOK
    <3>3. /\ \A i \in 1..Len(commits) : commits[i] = q => st.directory /\ i = st.base + 1
          /\ State(st) = "completed" => IsMerged(q, commits)
      BY <2>2, <3>2 DEF CommitsOK, IsMerged
    <3>4. runs'[q] = st /\ launches'[q] = launches[q]
      BY <1>2, <2>2
    <3> HIDE DEF st, commits
    <3>5. RunOK(q, st, commits, launches[q])
      BY <3>1, <3>3 DEF RunOK, CommitsOK
    <3> QED
      BY <3>4, <3>5 DEF commits
  <2> QED
    BY <2>1, <2>2
<1>5. call' # Idle' => CallOK(call', runs'[call'.run], target', launches'[call'.run])
  BY <1>2 DEF Idle
<1> QED
  BY <1>3, <1>4, <1>5 DEF LocalInv

\* A step on the stores of one run alone
LEMMA StoreStep ==
    ASSUME LocalInv, NEW r \in Runs, NEW new \in Stores,
           \/ runs' = [runs EXCEPT ![r] = new]
           \/ runs' = runs /\ new = runs[r],
           UNCHANGED <<target, launches>>,
           RunOK(r, new, target, launches[r]), faults' \in 0..MaxFaults,
           \/ call' = Idle
           \/ call' \in Call /\ call'.run = r /\ CallOK(call', new, target, launches[r])
    PROVE  LocalInv'
<1>1. /\ runs \in [Runs -> Stores] /\ launches \in [Runs -> Nat] /\ launches[r] \in Nat
      /\ target \in Seq(Runs \cup {Elsewhere})
  BY DEF LocalInv, TypeOK
<1>2. /\ runs' = [runs EXCEPT ![r] = new] /\ launches' = [launches EXCEPT ![r] = launches[r]]
      /\ target' = target
  BY <1>1
<1> DEFINE launched == launches[r]
<1> HIDE DEF launched
<1>3. /\ launched \in Nat /\ launches' = [launches EXCEPT ![r] = launched]
      /\ target' \in Seq(Runs \cup {Elsewhere})
      /\ \A i \in 1..Len(target') : i \in 1..Len(target) /\ target'[i] = target[i]
      /\ \A i \in 1..Len(target) : i \in 1..Len(target') /\ target'[i] = target[i]
      /\ RunOK(r, new, target', launched)
      /\ \/ call' = Idle
         \/ call' \in Call /\ call'.run = r /\ CallOK(call', new, target', launched)
  BY <1>1, <1>2 DEF launched
<1> QED
  BY <1>2, <1>3, RunStep

\* The call that a command begins, and what its next steps change of it
LEMMA CallSteps ==
    ASSUME NEW step \in Steps
    PROVE  /\ \A by \in {"command", "recovery"}, r \in Runs, stage \in Stages \cup {"card"},
                 state \in TaskStates :
                 Begin(by, r, stage, step, state) =>
                     /\ call' \in Call /\ call'.by = by /\ call'.run = r /\ call'.stage = stage
                     /\ call'.step = step /\ call'.state = state
           /\ call \in Call /\ Goto(step) =>
                  /\ call' \in Call /\ call'.by = call.by /\ call'.run = call.run
                  /\ call'.stage = call.stage /\ call'.step = step /\ call'.state = call.state
           /\ \A state \in TaskStates : call \in Call /\ GotoWith(step, state) =>
                  /\ call' \in Call /\ call'.by = call.by /\ call'.run = call.run
                  /\ call'.stage = call.stage /\ call'.step = step /\ call'.state = state
<1> USE DEF Call
<1>1. ASSUME NEW by \in {"command", "recovery"}, NEW r \in Runs, NEW stage \in Stages \cup {"card"},
             NEW state \in TaskStates, Begin(by, r, stage, step, state)
      PROVE  /\ call' \in Call /\ call'.by = by /\ call'.run = r /\ call'.stage = stage
             /\ call'.step = step /\ call'.state = state
  BY <1>1 DEF Begin
<1>2. ASSUME call \in Call, Goto(step)
      PROVE  /\ call' \in Call /\ call'.by = call.by /\ call'.run = call.run
             /\ call'.stage = call.stage /\ call'.step = step /\ call'.state = call.state
  BY <1>2 DEF Goto
<1>3. ASSUME NEW state \in TaskStates, call \in Call, GotoWith(step, state)
      PROVE  /\ call' \in Call /\ call'.by = call.by /\ call'.run = call.run
             /\ call'.stage = call.stage /\ call'.step = step /\ call'.state = state
  BY <1>3 DEF GotoWith
<1> QED
  BY <1>1, <1>2, <1>3

\* The stage constants a step may be at
LEMMA StageNames ==
    Stages = {"execution", "implementation_review", "decision_application",
              "source_integration", "workspace_cleanup"}
<1>1. /\ StageSequence[1] = "execution" /\ StageSequence[2] = "implementation_review"
      /\ StageSequence[3] = "decision_application" /\ StageSequence[4] = "source_integration"
      /\ StageSequence[5] = "workspace_cleanup"
  BY DEF StageSequence
<1>2. \A i \in 1..5 : i = 1 \/ i = 2 \/ i = 3 \/ i = 4 \/ i = 5
  OBVIOUS
<1> QED
  BY <1>1, <1>2 DEF Stages

-----------------------------------------------------------------------------
(* execute *)

\* A new directory has no journal, no record and no commit of its run.
LEMMA BeginExecuteStep ==
    ASSUME LocalInv, NEW r \in Runs, BeginExecute(r)
    PROVE  LocalInv'
<1> DEFINE new == [runs[r] EXCEPT !.directory = TRUE, !.base = Len(target)]
<1>1. /\ runs[r] \in Stores /\ RunOK(r, runs[r], target, launches[r]) /\ Len(target) \in Nat
      /\ launches[r] \in Nat /\ faults \in 0..MaxFaults
  BY DEF LocalInv, TypeOK
<1>2. /\ ~runs[r].directory /\ Begin("command", r, "execution", "intent", "draft")
      /\ UNCHANGED <<target, launches, faults>>
      /\ runs' = [runs EXCEPT ![r].directory = TRUE, ![r].base = Len(target)]
  BY DEF BeginExecute
<1>3. runs[r] = NoRun /\ launches[r] = 0
  BY <1>1, <1>2 DEF RunOK
<1>4. runs' = [runs EXCEPT ![r] = new]
  BY <1>2 DEF LocalInv, TypeOK
<1>5. /\ new \in Stores /\ new.directory = TRUE /\ new.base = Len(target) /\ new.artifacts = {}
      /\ new.outcome = "none" /\ new.journal = <<>> /\ new.ledger = <<>> /\ new.card = "absent"
      /\ new.workspace = "none"
  <2>1. new \in Stores /\ new.directory = TRUE /\ new.base = Len(target)
    BY <1>1 DEF Stores
  <2>2. new = [NoRun EXCEPT !.directory = TRUE, !.base = Len(target)]
    BY <1>3
  <2> HIDE DEF new
  <2> QED
    BY <2>1, <2>2 DEF NoRun
<1>6. \A i \in 1..Len(target) : target[i] # r
  BY <1>1, <1>2 DEF RunOK, CommitsOK
<1> HIDE DEF new
<1>7. State(new) = "draft" /\ IsWorkflowPath(new.journal) /\ Len(new.ledger) = 0
  BY <1>5 DEF State, current_state, IsWorkflowPath
<1>8. RunOK(r, new, target, launches[r])
  BY <1>3, <1>5, <1>6, <1>7 DEF RunOK, LedgerOK, JournalOK, ArtifactsOK, WorkspaceOK, CommitsOK,
                                Executing
<1>9. /\ call' \in Call /\ call'.by = "command" /\ call'.run = r /\ call'.stage = "execution"
      /\ call'.step = "intent" /\ call'.state = "draft"
  BY <1>2, CallSteps DEF Steps, Stages, TaskStates, StageSequence
<1>10. CallOK(call', new, target, launches[r])
  BY <1>3, <1>5, <1>7, <1>9 DEF CallOK, ExecutionOK
<1> QED
  BY <1>1, <1>2, <1>4, <1>5, <1>8, <1>9, <1>10, StoreStep

\* The workflow moves while there is neither outcome nor record.
LEMMA ExecutionMoves ==
    ASSUME LocalInv, call # Idle, runs[call.run].ledger = <<>>,
           "outcome" \notin runs[call.run].artifacts,
           NEW to \in Executing, NEW actor \in ActorTypes, Journal(to, actor)
    PROVE  \E new \in Stores :
              /\ runs' = [runs EXCEPT ![call.run] = new]
              /\ State(new) = to
              /\ RunOK(call.run, new, target, launches[call.run])
              /\ new.directory /\ new.ledger = <<>>
              /\ new.artifacts = runs[call.run].artifacts
              /\ new.workspace = runs[call.run].workspace
<1> DEFINE st == runs[call.run]
<1>1. /\ call.run \in Runs /\ st \in Stores /\ st.directory
      /\ RunOK(call.run, st, target, launches[call.run])
  BY CallFacts
<1>2. runs \in [Runs -> Stores] /\ to \in TaskStates /\ IsWorkflowPath(st.journal)
  BY <1>1 DEF LocalInv, TypeOK, Executing, Outcomes, TaskStates, RunOK, JournalOK
<1>3. PICK new \in Stores :
         /\ runs' = [runs EXCEPT ![call.run] = new]
         /\ State(new) = to /\ IsWorkflowPath(new.journal)
         /\ LastTransition(new).from = State(st)
         /\ new.directory = st.directory /\ new.artifacts = st.artifacts
         /\ new.outcome = st.outcome /\ new.ledger = st.ledger /\ new.card = st.card
         /\ new.workspace = st.workspace /\ new.base = st.base
  BY <1>1, <1>2, JournalStep
<1>4. Len(new.ledger) = 0 /\ new.ledger = <<>> /\ "outcome" \notin new.artifacts
  BY <1>3
<1>5. CommitsOK(call.run, new, target)
  BY <1>1, <1>3 DEF RunOK, CommitsOK, Executing, Outcomes
<1>6. LedgerOK(new.ledger) /\ JournalOK(new) /\ WorkspaceOK(new)
  BY <1>1, <1>3, <1>4 DEF RunOK, LedgerOK, JournalOK, WorkspaceOK
<1>7. ArtifactsOK(new)
  BY <1>1, <1>3, <1>4 DEF RunOK, ArtifactsOK, CardExpected
<1>8. RunOK(call.run, new, target, launches[call.run])
  BY <1>1, <1>3, <1>5, <1>6, <1>7 DEF RunOK
<1> QED
  BY <1>1, <1>3, <1>4, <1>8

\* execute, from its intent to the record that comes after its outcome
LEMMA ExecutionSteps ==
    ASSUME LocalInv,
           \/ RegisterIntent \/ CreateWorkspace \/ Plan \/ Authorize \/ Launch
           \/ LifecycleError \/ Collect \/ Verify \/ RegisterOutcome
    PROVE  LocalInv'
<1> DEFINE r == call.run
           st == runs[r]
<1> USE DEF At
<1>1. /\ call # Idle /\ call.stage = "execution"
      /\ call.step \in {"intent", "workspace", "planned", "implementing", "launch", "collect",
                        "verify", "outcome"}
      /\ faults' = faults /\ target' = target
  BY DEF RegisterIntent, CreateWorkspace, Plan, Authorize, Launch, LifecycleError, Collect,
         Verify, RegisterOutcome
<1>2. /\ call \in Call /\ r \in Runs /\ st \in Stores /\ st.directory /\ runs \in [Runs -> Stores]
      /\ RunOK(r, st, target, launches[r]) /\ launches[r] \in Nat /\ faults' \in 0..MaxFaults
  BY <1>1, CallFacts DEF LocalInv, TypeOK
<1>3. ExecutionOK(call, st, launches[r]) /\ call.by = "command"
  BY <1>1, CallFacts DEF CallOK, ExecutionOK
<1>4. /\ st.ledger = <<>> /\ "outcome" \notin st.artifacts /\ Len(st.ledger) = 0
  BY <1>1, <1>3 DEF ExecutionOK
<1>5. /\ call.step # "intent" => "intent" \in st.artifacts
      /\ call.step \notin {"intent", "workspace"} => st.workspace = "changed"
      /\ call.step \in {"intent", "workspace", "planned", "implementing", "launch"} => launches[r] = 0
      /\ call.step \in {"intent", "workspace", "planned"} => State(st) = "draft"
      /\ call.step = "outcome" => State(st) = call.state /\ call.state \in Outcomes
  BY <1>1, <1>3 DEF ExecutionOK
<1>6. \A step \in Steps : Goto(step) =>
          /\ call' \in Call /\ call'.by = "command" /\ call'.run = r
          /\ call'.stage = "execution" /\ call'.step = step
  BY <1>1, <1>2, <1>3, CallSteps
<1>7. \A step \in Steps, state \in TaskStates : GotoWith(step, state) =>
          /\ call' \in Call /\ call'.by = "command" /\ call'.run = r
          /\ call'.stage = "execution" /\ call'.step = step /\ call'.state = state
  BY <1>1, <1>2, <1>3, CallSteps

\* What registers an artifact or makes a file, with the journal left alone
<1>8. ASSUME NEW new \in Stores, runs' = [runs EXCEPT ![r] = new], launches' = launches,
             new.journal = st.journal, new.ledger = <<>>, new.directory = st.directory,
             new.base = st.base, new.card = st.card,
             "decision" \in new.artifacts => "decision" \in st.artifacts,
             "outcome" \in new.artifacts =>
                 "intent" \in new.artifacts /\ new.outcome = State(st) /\ new.workspace = "changed",
             new.workspace \in {"none", "changed"},
             call' \in Call /\ call'.run = r /\ CallOK(call', new, target, launches[r])
      PROVE  LocalInv'
  <2>1. State(new) = State(st) /\ Len(new.ledger) = 0
    BY <1>8 DEF State
  <2>2. CommitsOK(r, new, target)
    BY <1>2, <1>8, <2>1 DEF RunOK, CommitsOK
  <2>3. LedgerOK(new.ledger) /\ JournalOK(new) /\ WorkspaceOK(new)
    BY <1>2, <1>4, <1>8, <2>1 DEF RunOK, LedgerOK, JournalOK, WorkspaceOK
  <2>4. ArtifactsOK(new)
    BY <1>2, <1>4, <1>8, <2>1 DEF RunOK, ArtifactsOK, CardExpected
  <2>5. RunOK(r, new, target, launches[r])
    BY <1>2, <1>8, <2>2, <2>3, <2>4 DEF RunOK
  <2> QED
    BY <1>1, <1>2, <1>8, <2>5, StoreStep
<1>9. CASE RegisterIntent
  <2> DEFINE new == [st EXCEPT !.artifacts = @ \cup {"intent"}]
  <2>1. runs' = [runs EXCEPT ![r] = new] /\ launches' = launches /\ Goto("workspace")
        /\ call.step = "intent"
    BY <1>9 DEF RegisterIntent, Register
  <2>2. /\ new \in Stores /\ new.artifacts = st.artifacts \cup {"intent"} /\ new.outcome = st.outcome
        /\ new.journal = st.journal /\ new.ledger = st.ledger /\ new.directory = st.directory
        /\ new.base = st.base /\ new.card = st.card /\ new.workspace = st.workspace
    BY <1>2 DEF Stores, ArtifactKinds
  <2> HIDE DEF new
  <2>3. State(new) = "draft"
    BY <1>5, <2>1, <2>2 DEF State
  <2>4. /\ call' \in Call /\ call'.by = "command" /\ call'.run = r
        /\ call'.stage = "execution" /\ call'.step = "workspace"
    BY <1>6, <2>1 DEF Steps
  <2>5. CallOK(call', new, target, launches[r])
    BY <1>2, <1>4, <1>5, <2>1, <2>2, <2>3, <2>4 DEF CallOK, ExecutionOK
  <2> QED
    BY <1>2, <1>4, <1>8, <2>1, <2>2, <2>4, <2>5 DEF RunOK, WorkspaceOK
<1>10. CASE CreateWorkspace
  <2> DEFINE new == [st EXCEPT !.workspace = "changed"]
  <2>1. runs' = [runs EXCEPT ![r] = new] /\ launches' = launches /\ Goto("planned")
        /\ call.step = "workspace"
    BY <1>10 DEF CreateWorkspace
  <2>2. /\ new \in Stores /\ new.artifacts = st.artifacts /\ new.outcome = st.outcome
        /\ new.journal = st.journal /\ new.ledger = st.ledger /\ new.directory = st.directory
        /\ new.base = st.base /\ new.card = st.card /\ new.workspace = "changed"
    BY <1>2 DEF Stores
  <2> HIDE DEF new
  <2>3. State(new) = "draft"
    BY <1>5, <2>1, <2>2 DEF State
  <2>4. /\ call' \in Call /\ call'.by = "command" /\ call'.run = r
        /\ call'.stage = "execution" /\ call'.step = "planned"
    BY <1>6, <2>1 DEF Steps
  <2>5. CallOK(call', new, target, launches[r])
    BY <1>2, <1>4, <1>5, <2>1, <2>2, <2>3, <2>4 DEF CallOK, ExecutionOK
  <2> QED
    BY <1>4, <1>8, <2>1, <2>2, <2>4, <2>5
<1>11. CASE RegisterOutcome
  <2> DEFINE new == [st EXCEPT !.artifacts = @ \cup {"outcome"}, !.outcome = call.state]
  <2>1. runs' = [runs EXCEPT ![r].artifacts = @ \cup {"outcome"}, ![r].outcome = call.state]
        /\ launches' = launches /\ Goto("record") /\ call.step = "outcome"
    BY <1>11 DEF RegisterOutcome
  <2>2. runs' = [runs EXCEPT ![r] = new]
    BY <1>2, <2>1
  <2>3. /\ new \in Stores /\ new.artifacts = st.artifacts \cup {"outcome"} /\ new.outcome = call.state
        /\ new.journal = st.journal /\ new.ledger = st.ledger /\ new.directory = st.directory
        /\ new.base = st.base /\ new.card = st.card /\ new.workspace = st.workspace
    BY <1>2, <1>5, <2>1 DEF Stores, ArtifactKinds
  <2> HIDE DEF new
  <2>4. State(new) = call.state /\ call.state \in Outcomes
    BY <1>5, <2>1, <2>3 DEF State
  <2>5. /\ call' \in Call /\ call'.by = "command" /\ call'.run = r
        /\ call'.stage = "execution" /\ call'.step = "record" /\ call'.state = call.state
    BY <1>2, <1>6, <2>1, CallSteps DEF Steps
  <2>6. CallOK(call', new, target, launches[r])
    BY <1>2, <1>4, <1>5, <2>1, <2>3, <2>4, <2>5 DEF CallOK, ExecutionOK
  <2> QED
    BY <1>4, <1>5, <1>8, <2>1, <2>2, <2>3, <2>5, <2>6
<1>12. CASE Launch
  <2> DEFINE launched == launches[r] + 1
  <2>1. launches' = [launches EXCEPT ![r] = launched] /\ runs' = runs /\ Goto("collect")
        /\ call.step = "launch"
    BY <1>12 DEF Launch
  <2>2. launched \in Nat /\ launched <= 1
    BY <1>5, <2>1
  <2> HIDE DEF launched
  <2>3. RunOK(r, st, target, launched)
    BY <1>2, <2>2 DEF RunOK
  <2>4. /\ call' \in Call /\ call'.by = "command" /\ call'.run = r
        /\ call'.stage = "execution" /\ call'.step = "collect"
    BY <1>6, <2>1 DEF Steps
  <2>5. State(st) = "implementing"
    BY <1>3, <2>1 DEF ExecutionOK
  <2>6. CallOK(call', st, target, launched)
    BY <1>2, <1>4, <1>5, <2>1, <2>4, <2>5 DEF CallOK, ExecutionOK
  <2>7. runs' = [runs EXCEPT ![r] = st] /\ target \in Seq(Runs \cup {Elsewhere})
    BY <1>2, <2>1 DEF LocalInv, TypeOK
  <2>8. /\ RunOK(r, st, target', launched) /\ target' \in Seq(Runs \cup {Elsewhere})
        /\ \A i \in 1..Len(target') : i \in 1..Len(target) /\ target'[i] = target[i]
        /\ \A i \in 1..Len(target) : i \in 1..Len(target') /\ target'[i] = target[i]
        /\ CallOK(call', st, target', launched)
    BY <1>1, <2>3, <2>6, <2>7
  <2> HIDE DEF st, r
  <2> QED
    BY <1>2, <2>1, <2>2, <2>4, <2>7, <2>8, RunStep
\* What journals a transition of the execution
<1>13. ASSUME NEW to \in Executing, NEW actor \in ActorTypes, Journal(to, actor), launches' = launches,
              call.step \in {"planned", "implementing", "collect", "verify"},
              \/ call' = Idle
              \/ /\ call' \in Call /\ call'.by = "command" /\ call'.run = r
                 /\ call'.stage = "execution"
                 /\ \/ call'.step = "implementing" /\ to = "planned" /\ launches[r] = 0
                    \/ call'.step = "launch" /\ to = "implementing" /\ launches[r] = 0
                    \/ call'.step = "verify" /\ to = "verifying"
                    \/ call'.step = "outcome" /\ to = call'.state /\ to \in Outcomes
       PROVE  LocalInv'
  <2>1. PICK new \in Stores :
           /\ runs' = [runs EXCEPT ![r] = new] /\ State(new) = to
           /\ RunOK(r, new, target, launches[r]) /\ new.directory /\ new.ledger = <<>>
           /\ new.artifacts = st.artifacts /\ new.workspace = st.workspace
    BY <1>1, <1>4, <1>13, ExecutionMoves
  <2>2. "intent" \in st.artifacts /\ st.workspace = "changed"
    BY <1>5, <1>13
  <2>3. call' # Idle => CallOK(call', new, target, launches[r])
    BY <1>4, <1>13, <2>1, <2>2 DEF CallOK, ExecutionOK
  <2>4. \/ call' = Idle
        \/ call' \in Call /\ call'.run = r /\ CallOK(call', new, target, launches[r])
    BY <1>13, <2>3
  <2> QED
    BY <1>1, <1>2, <1>13, <2>1, <2>4, StoreStep
<1>14. AuthorityOf[r] \in ActorTypes
  BY <1>2, LocalRunsAssumption DEF ActorTypes
<1>15. CASE Plan
  <2>1. Journal("planned", "system") /\ Goto("implementing") /\ launches' = launches
        /\ call.step = "planned"
    BY <1>15 DEF Plan
  <2>2. /\ call' \in Call /\ call'.by = "command" /\ call'.run = r
        /\ call'.stage = "execution" /\ call'.step = "implementing"
    BY <1>6, <2>1 DEF Steps
  <2> QED
    BY <1>5, <1>13, <2>1, <2>2 DEF Executing, ActorTypes
<1>16. CASE Authorize
  <2>1. Journal("implementing", AuthorityOf[r]) /\ Goto("launch") /\ launches' = launches
        /\ call.step = "implementing"
    BY <1>16 DEF Authorize
  <2>2. /\ call' \in Call /\ call'.by = "command" /\ call'.run = r
        /\ call'.stage = "execution" /\ call'.step = "launch"
    BY <1>6, <2>1 DEF Steps
  <2> QED
    BY <1>5, <1>13, <1>14, <2>1, <2>2 DEF Executing
<1>17. CASE LifecycleError
  <2>1. Journal("failed", "system") /\ call' = Idle /\ launches' = launches /\ call.step = "collect"
    BY <1>17 DEF LifecycleError, End
  <2> QED
    BY <1>13, <2>1 DEF Executing, Outcomes, ActorTypes
<1>18. CASE Collect
  <2>1. call.step = "collect" /\ launches' = launches
    BY <1>18 DEF Collect
  <2>2. CASE Journal("failed", "system") /\ GotoWith("outcome", "failed")
    <3>1. /\ call' \in Call /\ call'.by = "command" /\ call'.run = r
          /\ call'.stage = "execution" /\ call'.step = "outcome" /\ call'.state = "failed"
      BY <1>7, <2>2 DEF Steps, TaskStates
    <3> QED
      BY <1>13, <2>1, <2>2, <3>1 DEF Executing, Outcomes, ActorTypes
  <2>3. CASE Journal("verifying", "system") /\ Goto("verify")
    <3>1. /\ call' \in Call /\ call'.by = "command" /\ call'.run = r
          /\ call'.stage = "execution" /\ call'.step = "verify"
      BY <1>6, <2>3 DEF Steps
    <3> QED
      BY <1>13, <2>1, <2>3, <3>1 DEF Executing, ActorTypes
  <2> QED
    BY <1>18, <2>2, <2>3 DEF Collect
<1>19. CASE Verify
  <2>1. PICK verdict \in {"repairing", "reviewing"} :
            Journal(verdict, "system") /\ GotoWith("outcome", verdict)
    BY <1>19 DEF Verify
  <2>2. call.step = "verify" /\ launches' = launches
    BY <1>19 DEF Verify
  <2>3. /\ call' \in Call /\ call'.by = "command" /\ call'.run = r
        /\ call'.stage = "execution" /\ call'.step = "outcome" /\ call'.state = verdict
    BY <1>7, <2>1 DEF Steps, TaskStates
  <2> QED
    BY <1>13, <2>1, <2>2, <2>3 DEF Executing, Outcomes, ActorTypes
<1> QED
  BY <1>9, <1>10, <1>11, <1>12, <1>15, <1>16, <1>17, <1>18, <1>19

-----------------------------------------------------------------------------
(* Commands that begin on a run, and recovery *)

\* A run of which there is a record or a transition has its directory.
LEMMA RunFacts ==
    ASSUME LocalInv, NEW r \in Runs
    PROVE  /\ runs[r] \in Stores /\ RunOK(r, runs[r], target, launches[r])
           /\ Len(runs[r].ledger) \in Nat /\ launches[r] \in Nat /\ faults \in 0..MaxFaults
           /\ Len(runs[r].ledger) > 0 \/ State(runs[r]) # "draft" => runs[r].directory
<1>1. runs[r] \in Stores /\ RunOK(r, runs[r], target, launches[r])
  BY DEF LocalInv, TypeOK
<1>2. Len(runs[r].ledger) \in Nat
  BY <1>1 DEF Stores
<1>3. ~runs[r].directory => Len(runs[r].ledger) = 0 /\ State(runs[r]) = "draft"
  <2>1. Len(NoRun.ledger) = 0 /\ State(NoRun) = "draft"
    BY DEF NoRun, State, current_state
  <2> QED
    BY <1>1, <2>1 DEF RunOK
<1> QED
  BY <1>1, <1>2, <1>3 DEF LocalInv, TypeOK

\* A command that begins changes nothing but the call.
LEMMA BeginStep ==
    ASSUME LocalInv, NEW r \in Runs, NEW by \in {"command", "recovery"},
           NEW stage \in Stages \cup {"card"}, NEW step \in Steps, NEW state \in TaskStates,
           Begin(by, r, stage, step, state), UNCHANGED <<runs, target, launches, faults>>,
           \A c \in Call : /\ c.by = by /\ c.run = r /\ c.stage = stage
                           /\ c.step = step /\ c.state = state
                           => CallOK(c, runs[r], target, launches[r])
    PROVE  LocalInv'
<1>1. /\ call' \in Call /\ call'.by = by /\ call'.run = r /\ call'.stage = stage
      /\ call'.step = step /\ call'.state = state
  BY CallSteps
<1>2. CallOK(call', runs[r], target, launches[r])
  BY <1>1
<1> QED
  BY <1>1, <1>2, RunFacts, StoreStep

\* The commands of the later stages
LEMMA CommandBegins ==
    ASSUME LocalInv, NEW r \in Runs,
           \/ \E verdict \in {"repairing", "merge_review"} : BeginReview(r, verdict)
           \/ \E decision \in Decisions : BeginDecision(r, decision)
           \/ BeginIntegrate(r) \/ BeginCleanup(r)
    PROVE  LocalInv'
<1> DEFINE st == runs[r]
<1>1. /\ st \in Stores /\ RunOK(r, st, target, launches[r]) /\ Len(st.ledger) \in Nat
      /\ Len(st.ledger) > 0 => st.directory
  BY RunFacts
<1>2. {"implementation_review", "decision_application", "source_integration",
       "workspace_cleanup"} \subseteq Stages
  BY StageNames
<1> HIDE DEF st
<1>3. ASSUME NEW verdict \in {"repairing", "merge_review"}, BeginReview(r, verdict)
      PROVE  LocalInv'
  <2>1. /\ Len(st.ledger) = 1 /\ st.ledger[1].state = "reviewing" /\ State(st) = "reviewing"
        /\ Begin("command", r, "implementation_review", "transition", verdict)
        /\ UNCHANGED <<runs, target, launches, faults>>
    BY <1>3 DEF BeginReview, st
  <2>2. ASSUME NEW c \in Call, c.by = "command", c.run = r, c.stage = "implementation_review",
               c.step = "transition", c.state = verdict
        PROVE  CallOK(c, st, target, launches[r])
    BY <1>1, <2>1, <2>2 DEF CallOK, ReviewOK
  <2> QED
    <3>1. "transition" \in Steps /\ verdict \in TaskStates
      BY DEF Steps, TaskStates
    <3>2. "implementation_review" \in Stages \cup {"card"}
      BY <1>2
    <3> QED
      BY <2>1, <2>2, <3>1, <3>2, BeginStep DEF st
<1>4. ASSUME NEW decision \in Decisions, BeginDecision(r, decision)
      PROVE  LocalInv'
  <2>1. /\ Len(st.ledger) = 2 /\ CardExpected(st)
        /\ Begin("command", r, "decision_application", "register", decision)
        /\ UNCHANGED <<runs, target, launches, faults>>
    BY <1>4 DEF BeginDecision, st
  <2>2. ASSUME NEW c \in Call, c.by = "command", c.run = r, c.stage = "decision_application",
               c.step = "register", c.state = decision
        PROVE  CallOK(c, st, target, launches[r])
    BY <1>1, <2>1, <2>2 DEF CallOK, DecisionOK
  <2> QED
    <3>1. "register" \in Steps /\ decision \in TaskStates
      BY DEF Steps, TaskStates, Decisions
    <3>2. "decision_application" \in Stages \cup {"card"}
      BY <1>2
    <3> QED
      BY <2>1, <2>2, <3>1, <3>2, BeginStep DEF st
<1>5. CASE BeginIntegrate(r)
  <2> DEFINE step == IntegrateFrom(State(st))
  <2>1. /\ Len(st.ledger) = 3 /\ st.ledger[3].state = "integrating"
        /\ State(st) \in {"integrating", "completed"}
        /\ Begin("command", r, "source_integration", step, "completed")
        /\ UNCHANGED <<runs, target, launches, faults>>
    BY <1>5 DEF BeginIntegrate, st
  <2>2. step = IF State(st) = "completed" THEN "attest" ELSE "commit"
    BY DEF IntegrateFrom
  <2> HIDE DEF step
  <2>3. ASSUME NEW c \in Call, c.by = "command", c.run = r, c.stage = "source_integration",
               c.step = step, c.state = "completed"
        PROVE  CallOK(c, st, target, launches[r])
    BY <1>1, <2>1, <2>2, <2>3 DEF CallOK, IntegrationOK
  <2> QED
    BY <1>2, <2>1, <2>2, <2>3, BeginStep DEF st, Steps, TaskStates
<1>6. CASE BeginCleanup(r)
  <2>1. /\ Len(st.ledger) = 4
        /\ Begin("command", r, "workspace_cleanup", "remove", "completed")
        /\ UNCHANGED <<runs, target, launches, faults>>
    BY <1>6 DEF BeginCleanup, st
  <2>2. ASSUME NEW c \in Call, c.by = "command", c.run = r, c.stage = "workspace_cleanup",
               c.step = "remove", c.state = "completed"
        PROVE  CallOK(c, st, target, launches[r])
    BY <1>1, <2>1, <2>2 DEF CallOK, CleanupOK
  <2> QED
    BY <1>2, <2>1, <2>2, BeginStep DEF st, Steps, TaskStates
<1> QED
  BY <1>3, <1>4, <1>5, <1>6

\* What a recoverable verdict says of the stores: which record or card is
\* missing, and that the rest of its stage is there.
LEMMA RecoverableMeans ==
    ASSUME NEW r, NEW st, NEW commits, Len(st.ledger) \in Nat, st.ledger = <<>> <=> Len(st.ledger) = 0,
           NEW repair, repair = Assess(r, st, commits).repair,
           Assess(r, st, commits).status = "recoverable"
    PROVE  \/ /\ repair = "execution" /\ st.directory /\ st.ledger = <<>>
              /\ {"intent", "outcome"} \subseteq st.artifacts /\ OutcomeSupported(st)
           \/ /\ repair = "decision_application" /\ st.directory
              /\ DecisionGap(st) /\ DecisionSupported(st)
           \/ /\ repair = "source_integration" /\ st.directory
              /\ IntegrationGap(st) /\ Attested(r, st, commits)
           \/ repair = "workspace_cleanup" /\ st.directory /\ CleanupGap(st)
           \/ repair = "card" /\ st.directory /\ AtRest(st) /\ CardExpected(st) /\ st.card = "absent"
<1> USE DEF Verdict, Recoverable, Manual, Invalid, Consistent
<1>1. st.directory
  <2>1. ~st.directory => Assess(r, st, commits) = Invalid
    BY DEF Assess
  <2> QED
    BY <2>1
<1>2. CASE st.ledger = <<>>
  <2>1. Assess(r, st, commits) = ExecutionGap(st)
    <3>1. Len(st.ledger) = 0
      BY <1>2
    <3>2. ~DecisionGap(st) /\ ~IntegrationGap(st) /\ ~CleanupGap(st)
      BY <3>1 DEF DecisionGap, IntegrationGap, CleanupGap
    <3> QED
      BY <1>1, <1>2, <3>2 DEF Assess
  <2> QED
    BY <1>1, <1>2, <2>1 DEF ExecutionGap
<1>3. CASE st.ledger # <<>> /\ DecisionGap(st)
  <2>1. Assess(r, st, commits) =
            IF DecisionSupported(st) THEN Recoverable("decision_application") ELSE Invalid
    BY <1>1, <1>3 DEF Assess, DecisionGap, IntegrationGap, CleanupGap
  <2> QED
    BY <1>1, <1>3, <2>1
<1>4. CASE st.ledger # <<>> /\ IntegrationGap(st)
  <2>1. Assess(r, st, commits) =
            IF Attested(r, st, commits) THEN Recoverable("source_integration") ELSE Invalid
    BY <1>1, <1>4 DEF Assess, DecisionGap, IntegrationGap, CleanupGap
  <2> QED
    BY <1>1, <1>4, <2>1
<1>5. CASE st.ledger # <<>> /\ CleanupGap(st)
  <2>1. Assess(r, st, commits) = Recoverable("workspace_cleanup")
    BY <1>1, <1>5 DEF Assess, DecisionGap, IntegrationGap, CleanupGap
  <2> QED
    BY <1>1, <1>5, <2>1
<1>6. CASE st.ledger # <<>> /\ ~DecisionGap(st) /\ ~IntegrationGap(st) /\ ~CleanupGap(st)
  <2>1. Assess(r, st, commits) =
            IF ~Inspects(st) THEN Manual ELSE IF ArtifactsValid(st) THEN CardVerdict(st) ELSE Invalid
    BY <1>1, <1>6 DEF Assess
  <2>2. AtRest(st) /\ CardVerdict(st).status = "recoverable" /\ CardVerdict(st).repair = repair
    BY <1>6, <2>1 DEF AtRest
  <2>3. CardExpected(st) /\ st.card = "absent" /\ repair = "card"
    <3>1. Recoverable("card") = [status |-> "recoverable", repair |-> "card"]
      OBVIOUS
    <3>2. CASE ~CardExpected(st)
      BY <2>2, <3>2 DEF CardVerdict
    <3>3. CASE CardExpected(st) /\ st.card = "absent"
      BY <2>2, <3>1, <3>3 DEF CardVerdict
    <3>4. CASE CardExpected(st) /\ st.card # "absent"
      BY <2>2, <3>4 DEF CardVerdict
    <3> QED
      BY <3>2, <3>3, <3>4
  <2> QED
    BY <1>1, <2>2, <2>3
<1> QED
  BY <1>2, <1>3, <1>4, <1>5, <1>6

\* Recovery begins where the command would have gone on.
LEMMA RecoverBegins ==
    ASSUME LocalInv, NEW r \in Runs, BeginRecover(r)
    PROVE  LocalInv'
<1> DEFINE st == runs[r]
           repair == AssessOf(r).repair
           step == RepairFrom(repair, State(st))
<1>1. /\ st \in Stores /\ RunOK(r, st, target, launches[r]) /\ Len(st.ledger) \in Nat
      /\ st.ledger = <<>> <=> Len(st.ledger) = 0
  <2>1. st \in Stores /\ RunOK(r, st, target, launches[r]) /\ Len(st.ledger) \in Nat
    BY RunFacts
  <2> DEFINE Records == [stage: Stages, state: TaskStates]
  <2>2. st.ledger \in Seq(Records)
    BY <2>1 DEF Stores
  <2> HIDE DEF Records, st
  <2>3. st.ledger = <<>> <=> Len(st.ledger) = 0
    BY <2>2, EmptySeq
  <2> QED
    BY <2>1, <2>3
<1>2. /\ Begin("recovery", r, repair, step, State(st))
      /\ UNCHANGED <<runs, target, launches, faults>>
      /\ AssessOf(r).status = "recoverable"
  BY DEF BeginRecover
<1>3. Assess(r, st, target).status = "recoverable" /\ repair = Assess(r, st, target).repair
  BY <1>2 DEF AssessOf
<1> HIDE DEF st, repair
<1>4. \/ /\ repair = "execution" /\ st.directory /\ st.ledger = <<>>
         /\ {"intent", "outcome"} \subseteq st.artifacts /\ OutcomeSupported(st)
      \/ /\ repair = "decision_application" /\ st.directory
         /\ DecisionGap(st) /\ DecisionSupported(st)
      \/ /\ repair = "source_integration" /\ st.directory
         /\ IntegrationGap(st) /\ Attested(r, st, target)
      \/ repair = "workspace_cleanup" /\ st.directory /\ CleanupGap(st)
      \/ repair = "card" /\ st.directory /\ AtRest(st) /\ CardExpected(st) /\ st.card = "absent"
  BY <1>1, <1>3, RecoverableMeans
<1>5. /\ State(st) \in TaskStates /\ repair \in Stages \cup {"card"}
      /\ step \in {"record", "attest", "commit", "remove", "create"} /\ step \in Steps
  BY <1>1, <1>4, StateTyped, StageNames DEF RepairFrom, IntegrateFrom, Steps
<1>6. ASSUME NEW c \in Call, c.by = "recovery", c.run = r, c.stage = repair, c.step = step,
             c.state = State(st)
      PROVE  CallOK(c, st, target, launches[r])
  <2>1. CASE /\ repair = "execution" /\ st.directory /\ st.ledger = <<>>
             /\ {"intent", "outcome"} \subseteq st.artifacts /\ OutcomeSupported(st)
    <3>1. step = "record"
      BY <2>1 DEF RepairFrom
    <3>2. st.workspace = "changed" /\ State(st) = st.outcome
      BY <2>1 DEF OutcomeSupported
    <3>3. State(st) \in Outcomes
      <4>1. st.outcome \in Outcomes \cup {"none"}
        BY <1>1 DEF Stores
      <4> QED
        BY <1>5, <3>2, <4>1 DEF TaskStates
    <3> QED
      BY <1>6, <2>1, <3>1, <3>2, <3>3 DEF CallOK, ExecutionOK
  <2>2. CASE /\ repair = "decision_application" /\ st.directory
             /\ DecisionGap(st) /\ DecisionSupported(st)
    <3>1. step = "record" /\ Len(st.ledger) = 2 /\ State(st) # "merge_review"
          /\ "decision" \in st.artifacts
      BY <2>2 DEF RepairFrom, DecisionGap, DecisionSupported
    <3>2. CardExpected(st)
      BY <1>1, <3>1 DEF RunOK, ArtifactsOK
    <3>3. State(st) \in Decisions
      <4>1. Told(st.ledger) = "merge_review"
        BY <3>1, <3>2 DEF CardExpected, Told
      <4> QED
        BY <1>1, <3>1, <4>1 DEF RunOK, JournalOK, Ahead
    <3> QED
      BY <1>6, <2>2, <3>1, <3>2, <3>3 DEF CallOK, DecisionOK
  <2>3. CASE /\ repair = "source_integration" /\ st.directory
             /\ IntegrationGap(st) /\ Attested(r, st, target)
    <3>1. Len(st.ledger) = 3 /\ State(st) = "completed" /\ st.ledger[3].state = "integrating"
      BY <2>3 DEF IntegrationGap, Attested
    <3>2. step = "attest"
      BY <2>3, <3>1 DEF RepairFrom, IntegrateFrom
    <3> QED
      BY <1>6, <2>3, <3>1, <3>2 DEF CallOK, IntegrationOK
  <2>4. CASE repair = "workspace_cleanup" /\ st.directory /\ CleanupGap(st)
    <3>1. Len(st.ledger) = 4 /\ State(st) = "completed" /\ st.workspace = "removed"
      BY <2>4 DEF CleanupGap
    <3>2. step = "remove"
      BY <2>4 DEF RepairFrom
    <3> QED
      BY <1>6, <2>4, <3>1, <3>2 DEF CallOK, CleanupOK
  <2>5. CASE repair = "card" /\ st.directory /\ AtRest(st) /\ CardExpected(st) /\ st.card = "absent"
    <3>1. step = "create"
      BY <2>5 DEF RepairFrom
    <3> QED
      BY <1>6, <2>5, <3>1 DEF CallOK, CardOK
  <2> QED
    BY <1>4, <2>1, <2>2, <2>3, <2>4, <2>5
<1> HIDE DEF step
<1> QED
  BY <1>2, <1>5, <1>6, BeginStep DEF st

-----------------------------------------------------------------------------
(* The later stages *)

\* Evidence, the worktree or the card of a recorded run changes; its journal
\* and its ledger do not.
LEMMA StoresChange ==
    ASSUME LocalInv, NEW r \in Runs, NEW new \in Stores, Len(runs[r].ledger) > 0,
           new.journal = runs[r].journal, new.ledger = runs[r].ledger,
           new.directory = runs[r].directory, new.base = runs[r].base,
           runs[r].artifacts \subseteq new.artifacts,
           "decision" \in new.artifacts \/ new.card # "absent" => CardExpected(runs[r]),
           WorkspaceOK(new),
           State(runs[r]) = Told(runs[r].ledger) \/ new.workspace = runs[r].workspace
    PROVE  RunOK(r, new, target, launches[r])
<1> DEFINE st == runs[r]
<1>1. /\ st \in Stores /\ RunOK(r, st, target, launches[r]) /\ Len(st.ledger) \in Nat
      /\ st.directory
  BY RunFacts
<1> HIDE DEF st
<1>2. /\ Len(st.ledger) > 0 /\ new.journal = st.journal /\ new.ledger = st.ledger
      /\ new.directory = st.directory /\ new.base = st.base /\ st.artifacts \subseteq new.artifacts
      /\ "decision" \in new.artifacts \/ new.card # "absent" => CardExpected(st)
      /\ State(st) = Told(st.ledger) \/ new.workspace = st.workspace
  BY DEF st
<1>3. State(new) = State(st) /\ LastTransition(new) = LastTransition(st)
  BY <1>2 DEF State, LastTransition
<1>4. CommitsOK(r, new, target)
  BY <1>1, <1>2, <1>3 DEF RunOK, CommitsOK
<1>5. JournalOK(new)
  BY <1>1, <1>2, <1>3 DEF RunOK, JournalOK, Ahead
<1>6. ArtifactsOK(new)
  <2>1. ArtifactsOK(st) /\ (CardExpected(new) <=> CardExpected(st))
    BY <1>1, <1>2 DEF RunOK, CardExpected
  <2> QED
    BY <1>1, <1>2, <2>1 DEF ArtifactsOK
<1> QED
  BY <1>1, <1>2, <1>4, <1>5, <1>6 DEF RunOK

\* The transition of the stage that comes after the last record
LEMMA StageMoves ==
    ASSUME LocalInv, call # Idle,
           NEW to \in TaskStates, NEW actor \in ActorTypes, Journal(to, actor),
           State(runs[call.run]) = Told(runs[call.run].ledger),
           \/ /\ Len(runs[call.run].ledger) = 1 /\ Told(runs[call.run].ledger) = "reviewing"
              /\ to \in {"repairing", "merge_review"}
           \/ /\ Len(runs[call.run].ledger) = 2 /\ Told(runs[call.run].ledger) = "merge_review"
              /\ to \in Decisions /\ "decision" \in runs[call.run].artifacts
           \/ /\ Len(runs[call.run].ledger) = 3 /\ Told(runs[call.run].ledger) = "integrating"
              /\ to = "completed" /\ "integration" \in runs[call.run].artifacts
              /\ runs[call.run].workspace = "committed" /\ IsMerged(call.run, target)
    PROVE  \E new \in Stores :
              /\ runs' = [runs EXCEPT ![call.run] = new]
              /\ State(new) = to
              /\ RunOK(call.run, new, target, launches[call.run])
              /\ new.directory /\ new.ledger = runs[call.run].ledger
              /\ new.artifacts = runs[call.run].artifacts
              /\ new.workspace = runs[call.run].workspace
<1> DEFINE r == call.run
           st == runs[r]
<1>1. /\ r \in Runs /\ st \in Stores /\ st.directory /\ RunOK(r, st, target, launches[r])
      /\ runs \in [Runs -> Stores] /\ IsWorkflowPath(st.journal)
  BY CallFacts DEF LocalInv, TypeOK, RunOK, JournalOK
<1>2. PICK new \in Stores :
         /\ runs' = [runs EXCEPT ![r] = new]
         /\ State(new) = to /\ IsWorkflowPath(new.journal)
         /\ LastTransition(new).from = State(st)
         /\ new.directory = st.directory /\ new.artifacts = st.artifacts
         /\ new.outcome = st.outcome /\ new.ledger = st.ledger /\ new.card = st.card
         /\ new.workspace = st.workspace /\ new.base = st.base
  BY <1>1, JournalStep
<1>3. /\ Len(st.ledger) \in {1, 2, 3} /\ State(st) = Told(st.ledger)
      /\ \/ Len(st.ledger) = 1 /\ Told(st.ledger) = "reviewing" /\ to \in {"repairing", "merge_review"}
         \/ Len(st.ledger) = 2 /\ Told(st.ledger) = "merge_review" /\ to \in Decisions
            /\ "decision" \in st.artifacts
         \/ Len(st.ledger) = 3 /\ Told(st.ledger) = "integrating" /\ to = "completed"
            /\ "integration" \in st.artifacts /\ st.workspace = "committed" /\ IsMerged(r, target)
  OBVIOUS
<1> HIDE DEF st, r
<1>4. JournalOK(new)
  <2>1. Len(new.ledger) = Len(st.ledger) /\ Told(new.ledger) = Told(st.ledger)
    BY <1>2
  <2>2. LastTransition(new).from = Told(new.ledger)
    BY <1>2, <1>3, <2>1
  <2>3. Ahead(new)
    BY <1>2, <1>3, <2>1, <2>2 DEF Ahead
  <2>4. Len(new.ledger) # 0
    BY <1>3, <2>1
  <2> QED
    BY <1>2, <2>3, <2>4 DEF JournalOK
<1>5. CommitsOK(r, new, target)
  BY <1>1, <1>2, <1>3 DEF RunOK, CommitsOK, Decisions
<1>6. ArtifactsOK(new) /\ WorkspaceOK(new)
  <2>1. ArtifactsOK(st) /\ WorkspaceOK(st) /\ (CardExpected(new) <=> CardExpected(st))
    BY <1>1, <1>2 DEF RunOK, CardExpected
  <2> QED
    BY <1>2, <1>3, <2>1 DEF ArtifactsOK, WorkspaceOK
<1>7. RunOK(r, new, target, launches[r])
  BY <1>1, <1>2, <1>4, <1>5, <1>6 DEF RunOK
<1> QED
  BY <1>1, <1>2, <1>7 DEF r, st

\* review: its transition
LEMMA ApplyReviewStep ==
    ASSUME LocalInv, NEW actor \in {"agent", "human"}, ApplyReview(actor)
    PROVE  LocalInv'
<1> DEFINE st == runs[call.run]
<1>1. /\ call # Idle /\ call.stage = "implementation_review" /\ call.step = "transition"
      /\ Journal(call.state, actor) /\ Goto("record") /\ UNCHANGED <<target, launches, faults>>
  BY DEF ApplyReview, At
<1>2. /\ call \in Call /\ call.run \in Runs /\ faults \in 0..MaxFaults
      /\ ReviewOK(call, st) /\ call.state \in TaskStates
  BY <1>1, CallFacts, CallTyped DEF CallOK
<1>3. /\ call.state \in {"repairing", "merge_review"} /\ State(st) = "reviewing"
      /\ Len(st.ledger) = 1 /\ st.ledger[1].state = "reviewing" /\ call.by = "command"
  BY <1>1, <1>2 DEF ReviewOK
<1>4. Told(st.ledger) = "reviewing"
  BY <1>3 DEF Told
<1>5. PICK new \in Stores :
         /\ runs' = [runs EXCEPT ![call.run] = new] /\ State(new) = call.state
         /\ RunOK(call.run, new, target, launches[call.run])
         /\ new.directory /\ new.ledger = st.ledger
  BY <1>1, <1>2, <1>3, <1>4, StageMoves DEF ActorTypes
<1>6. /\ call' \in Call /\ call'.by = call.by /\ call'.run = call.run
      /\ call'.stage = call.stage /\ call'.step = "record" /\ call'.state = call.state
  BY <1>1, <1>2, CallSteps DEF Steps
<1>7. CallOK(call', new, target, launches[call.run])
  BY <1>1, <1>3, <1>5, <1>6 DEF CallOK, ReviewOK
<1> QED
  BY <1>1, <1>2, <1>5, <1>6, <1>7, StoreStep

\* apply_decision: its evidence, and its transition
LEMMA DecisionSteps ==
    ASSUME LocalInv, RegisterDecision \/ ApplyDecision
    PROVE  LocalInv'
<1> DEFINE r == call.run
           st == runs[r]
<1>1. /\ call # Idle /\ call.stage = "decision_application"
      /\ call.step \in {"register", "transition"} /\ UNCHANGED <<target, launches, faults>>
  BY DEF RegisterDecision, ApplyDecision, At
<1>2. /\ call \in Call /\ r \in Runs /\ st \in Stores /\ st.directory
      /\ RunOK(r, st, target, launches[r]) /\ faults \in 0..MaxFaults
      /\ DecisionOK(call, st) /\ call.state \in TaskStates
  BY <1>1, CallFacts, CallTyped DEF CallOK
<1>3. /\ Len(st.ledger) = 2 /\ CardExpected(st) /\ call.state \in Decisions /\ call.by = "command"
      /\ call.step = "transition" => "decision" \in st.artifacts
  BY <1>1, <1>2 DEF DecisionOK
<1>4. Told(st.ledger) = "merge_review" /\ st.ledger[2].state = "merge_review"
  BY <1>3 DEF Told, CardExpected
<1>5. \A step \in Steps : Goto(step) =>
          /\ call' \in Call /\ call'.by = call.by /\ call'.run = r
          /\ call'.stage = call.stage /\ call'.step = step /\ call'.state = call.state
  BY <1>2, CallSteps
<1>6. CASE RegisterDecision
  <2> DEFINE new == [st EXCEPT !.artifacts = @ \cup {"decision"}]
  <2>1. runs' = [runs EXCEPT ![r] = new] /\ Goto("transition") /\ "transition" \in Steps
    BY <1>6 DEF RegisterDecision, Register, Steps
  <2>2. /\ new \in Stores /\ new.artifacts = st.artifacts \cup {"decision"}
        /\ new.journal = st.journal /\ new.ledger = st.ledger /\ new.directory = st.directory
        /\ new.base = st.base /\ new.card = st.card /\ new.workspace = st.workspace
    BY <1>2 DEF Stores, ArtifactKinds
  <2> HIDE DEF new
  <2>3. WorkspaceOK(new)
    BY <1>2, <2>2 DEF RunOK, WorkspaceOK
  <2>4. RunOK(r, new, target, launches[r])
    <3>1. /\ Len(st.ledger) > 0 /\ st.artifacts \subseteq new.artifacts
          /\ new.workspace = st.workspace
          /\ "decision" \in new.artifacts \/ new.card # "absent" => CardExpected(st)
      BY <1>3, <2>2
    <3> HIDE DEF r
    <3> QED
      BY <1>2, <2>2, <2>3, <3>1, StoresChange
  <2>5. CallOK(call', new, target, launches[r])
    BY <1>1, <1>2, <1>3, <1>5, <2>1, <2>2 DEF CallOK, DecisionOK, CardExpected
  <2> QED
    BY <1>1, <1>2, <1>5, <2>1, <2>2, <2>4, <2>5, StoreStep
<1>7. CASE ApplyDecision /\ State(st) = "merge_review"
  <2>1. Journal(call.state, "human") /\ Goto("record") /\ "record" \in Steps
        /\ "human" \in ActorTypes /\ "decision" \in st.artifacts
    BY <1>3, <1>7 DEF ApplyDecision, run, Steps, ActorTypes, At
  <2>2. PICK new \in Stores :
           /\ runs' = [runs EXCEPT ![r] = new] /\ State(new) = call.state
           /\ RunOK(r, new, target, launches[r])
           /\ new.directory /\ new.ledger = st.ledger /\ new.artifacts = st.artifacts
    BY <1>1, <1>2, <1>3, <1>4, <1>7, <2>1, StageMoves
  <2>3. CallOK(call', new, target, launches[r])
    BY <1>1, <1>3, <1>5, <2>1, <2>2 DEF CallOK, DecisionOK, CardExpected
  <2> QED
    BY <1>1, <1>2, <1>5, <2>1, <2>2, <2>3, StoreStep
<1>8. CASE ApplyDecision /\ State(st) # "merge_review"
  <2>1. call' = Idle /\ runs' = runs
    BY <1>8 DEF ApplyDecision, run, End
  <2> QED
    BY <1>1, <1>2, <2>1, StoreStep
<1> QED
  BY <1>6, <1>7, <1>8

\* A step that ends the command and changes no store but the fault count
LEMMA CommandEnds ==
    ASSUME LocalInv, call' = Idle, UNCHANGED <<runs, target, launches>>, faults' \in 0..MaxFaults
    PROVE  LocalInv'
<1>1. TypeOK'
  BY DEF LocalInv, TypeOK
<1>2. ASSUME NEW r \in Runs
      PROVE  RunOK(r, runs'[r], target', launches'[r])
  BY DEF LocalInv
<1> QED
  BY <1>1, <1>2 DEF LocalInv, Idle

\* integrate: the merge adds the commit of the run on the base of the run.
LEMMA MergeStep ==
    ASSUME LocalInv, GitMerge
    PROVE  LocalInv'
<1> DEFINE r == call.run
           st == runs[r]
<1>1. /\ call # Idle /\ call.stage = "source_integration" /\ call.step = "merge"
      /\ UNCHANGED <<runs, launches, faults>>
  BY DEF GitMerge, At
<1>2. /\ call \in Call /\ r \in Runs /\ st \in Stores /\ st.directory /\ st.base \in Nat
      /\ RunOK(r, st, target, launches[r]) /\ faults \in 0..MaxFaults
      /\ IntegrationOK(call, st, target) /\ launches[r] \in Nat
      /\ runs \in [Runs -> Stores] /\ launches \in [Runs -> Nat]
      /\ target \in Seq(Runs \cup {Elsewhere})
  BY <1>1, CallFacts DEF CallOK, LocalInv, TypeOK, Stores
<1>3. /\ Len(st.ledger) = 3 /\ st.ledger[3].state = "integrating" /\ call.state = "completed"
      /\ call.by = "command" /\ State(st) = "integrating" /\ st.workspace = "committed"
  BY <1>1, <1>2 DEF IntegrationOK
<1>4. Goto("register") =>
          /\ call' \in Call /\ call'.by = "command" /\ call'.run = r
          /\ call'.stage = "source_integration" /\ call'.step = "register"
          /\ call'.state = "completed"
  BY <1>1, <1>2, <1>3, CallSteps DEF Steps
<1>5. ASSUME NEW commits, IsMerged(r, commits), Goto("register")
      PROVE  CallOK(call', st, commits, launches[r])
  BY <1>2, <1>3, <1>4, <1>5 DEF CallOK, IntegrationOK
<1>6. CASE Len(target) = st.base /\ target' = Append(target, r) /\ Goto("register")
  <2> DEFINE commits == Append(target, r)
             n == Len(target) + 1
             All == Runs \cup {Elsewhere}
  <2>1. r \in All /\ target \in Seq(All)
    BY <1>2
  <2> HIDE DEF All
  <2>2. /\ commits \in Seq(All) /\ Len(target) \in Nat /\ Len(commits) = n /\ commits[n] = r
        /\ \A i \in 1..Len(target) : commits[i] = target[i]
    BY <2>1, AppendProperties
  <2> HIDE DEF commits, r, st
  <2>3. /\ \A i \in 1..n : commits[i] = r \/ (i \in 1..Len(target) /\ commits[i] = target[i])
        /\ \A i \in 1..Len(target) : i \in 1..n /\ commits[i] = target[i]
        /\ n \in 1..n
    BY <2>2
  <2>4. IsMerged(r, commits)
    BY <2>2, <2>3 DEF IsMerged
  <2>5. \A i \in 1..n : commits[i] = r => st.directory /\ i = st.base + 1
    <3>1. \A i \in 1..Len(target) : target[i] # r
      <4>1. \A i \in 1..Len(target) : target[i] = r => i = Len(target) + 1
        BY <1>2, <1>6 DEF RunOK, CommitsOK
      <4> QED
        BY <2>2, <4>1
    <3>2. \A i \in 1..n : i \in 1..Len(target) \/ i = n
      BY <2>2
    <3> QED
      BY <1>2, <1>6, <2>2, <3>1, <3>2
  <2>6. RunOK(r, st, commits, launches[r])
    BY <1>2, <2>2, <2>4, <2>5 DEF RunOK, CommitsOK
  <2>7. CallOK(call', st, commits, launches[r])
    BY <1>5, <1>6, <2>4
  <2>8. target' = commits /\ runs' = [runs EXCEPT ![r] = st]
        /\ launches' = [launches EXCEPT ![r] = launches[r]] /\ faults' \in 0..MaxFaults
    BY <1>1, <1>2, <1>6 DEF commits, st
  <2> DEFINE launched == launches[r]
  <2>9. /\ launched \in Nat /\ launches' = [launches EXCEPT ![r] = launched]
        /\ RunOK(r, st, target', launched) /\ target' \in Seq(All)
        /\ call' \in Call /\ call'.run = r /\ CallOK(call', st, target', launched)
        /\ \A i \in 1..Len(target') :
              target'[i] = r \/ (i \in 1..Len(target) /\ target'[i] = target[i])
        /\ \A i \in 1..Len(target) : i \in 1..Len(target') /\ target'[i] = target[i]
    BY <1>2, <1>4, <1>6, <2>2, <2>3, <2>6, <2>7, <2>8
  <2> HIDE DEF launched
  <2> QED
    BY <1>2, <2>8, <2>9, RunStep DEF All
<1>7. CASE MergedLast(r, target) /\ Goto("register") /\ target' = target
  <2>1. IsMerged(r, target)
    <3>1. target # <<>> /\ target[Len(target)] = r
      BY <1>7 DEF MergedLast
    <3> DEFINE All == Runs \cup {Elsewhere}
    <3>2. target \in Seq(All)
      BY <1>2
    <3> HIDE DEF All
    <3>3. Len(target) \in 1..Len(target)
      BY <3>1, <3>2
    <3> QED
      BY <3>1, <3>3 DEF IsMerged
  <2>2. CallOK(call', st, target, launches[r])
    BY <1>5, <1>7, <2>1
  <2> QED
    BY <1>1, <1>2, <1>4, <1>7, <2>2, StoreStep
<1>8. CASE call' = Idle /\ target' = target
  BY <1>1, <1>2, <1>8, CommandEnds
<1> QED
  BY <1>6, <1>7, <1>8 DEF GitMerge, End, run

\* integrate: the commit, the evidence, the transition, and the attestation
LEMMA IntegrationSteps ==
    ASSUME LocalInv, GitCommit \/ RegisterIntegration \/ CompleteRun \/ AttestIntegration
    PROVE  LocalInv'
<1> DEFINE r == call.run
           st == runs[r]
<1>1. /\ call # Idle /\ call.stage = "source_integration"
      /\ call.step \in {"commit", "register", "transition", "attest"}
      /\ UNCHANGED <<target, launches, faults>>
  BY DEF GitCommit, RegisterIntegration, CompleteRun, AttestIntegration, At
<1>2. /\ call \in Call /\ r \in Runs /\ st \in Stores /\ st.directory
      /\ RunOK(r, st, target, launches[r]) /\ faults \in 0..MaxFaults
      /\ IntegrationOK(call, st, target)
  BY <1>1, CallFacts DEF CallOK
<1>3. /\ Len(st.ledger) = 3 /\ st.ledger[3].state = "integrating" /\ call.state = "completed"
      /\ call.step # "attest" => call.by = "command" /\ State(st) = "integrating"
      /\ call.step \in {"register", "transition"} => st.workspace = "committed"
      /\ call.step \in {"register", "transition"} => IsMerged(r, target)
      /\ call.step = "transition" => "integration" \in st.artifacts
      /\ call.step = "attest" => State(st) = "completed"
  BY <1>1, <1>2 DEF IntegrationOK
<1>4. Told(st.ledger) = "integrating"
  BY <1>3 DEF Told
<1>5. \A step \in Steps : Goto(step) =>
          /\ call' \in Call /\ call'.by = call.by /\ call'.run = r
          /\ call'.stage = call.stage /\ call'.step = step /\ call'.state = call.state
  BY <1>2, CallSteps
<1>6. {"merge", "register", "transition", "record"} \subseteq Steps
  BY DEF Steps

\* What changes the worktree or the evidence
<1>7. ASSUME NEW new \in Stores, runs' = [runs EXCEPT ![r] = new], State(st) = "integrating",
             new.journal = st.journal, new.ledger = st.ledger, new.directory = st.directory,
             new.base = st.base, new.card = st.card,
             \E kinds \in SUBSET {"integration"} : new.artifacts = st.artifacts \cup kinds,
             new.workspace = "committed",
             call' \in Call /\ call'.run = r /\ CallOK(call', new, target, launches[r])
      PROVE  LocalInv'
  <2>1. /\ "decision" \in new.artifacts \/ new.card # "absent" => CardExpected(st)
        /\ st.artifacts \subseteq new.artifacts /\ Len(st.ledger) > 0
        /\ State(st) = Told(st.ledger)
    BY <1>2, <1>3, <1>4, <1>7 DEF RunOK, ArtifactsOK
  <2>2. WorkspaceOK(new)
    BY <1>3, <1>7 DEF WorkspaceOK
  <2>3. RunOK(r, new, target, launches[r])
    <3> HIDE DEF r
    <3> QED
      BY <1>2, <1>7, <2>1, <2>2, StoresChange
  <2> QED
    BY <1>1, <1>2, <1>7, <2>3, StoreStep
<1>8. CASE GitCommit /\ CommitReachable(st)
  <2> DEFINE new == [st EXCEPT !.workspace = "committed"]
  <2>1. runs' = [runs EXCEPT ![r] = new] /\ Goto("merge") /\ call.step = "commit"
    BY <1>8 DEF GitCommit, run, At
  <2>2. /\ new \in Stores /\ new.artifacts = st.artifacts
        /\ new.journal = st.journal /\ new.ledger = st.ledger /\ new.directory = st.directory
        /\ new.base = st.base /\ new.card = st.card /\ new.workspace = "committed"
    BY <1>2 DEF Stores
  <2> HIDE DEF new
  <2>3. State(new) = State(st) /\ State(st) = "integrating"
    BY <1>3, <2>1, <2>2 DEF State
  <2>4. CallOK(call', new, target, launches[r])
    BY <1>1, <1>2, <1>3, <1>5, <1>6, <2>1, <2>2, <2>3 DEF CallOK, IntegrationOK
  <2>5. \E kinds \in SUBSET {"integration"} : new.artifacts = st.artifacts \cup kinds
    <3>1. {} \in SUBSET {"integration"} /\ st.artifacts = st.artifacts \cup {}
      OBVIOUS
    <3> QED
      BY <2>2, <3>1
  <2> QED
    BY <1>5, <1>6, <1>7, <2>1, <2>2, <2>3, <2>4, <2>5
<1>9. CASE GitCommit /\ ~CommitReachable(st)
  <2>1. call' = Idle /\ runs' = runs
    BY <1>9 DEF GitCommit, run, End
  <2> QED
    BY <1>1, <1>2, <2>1, CommandEnds
<1>10. CASE RegisterIntegration
  <2> DEFINE new == [st EXCEPT !.artifacts = @ \cup {"integration"}]
  <2>1. runs' = [runs EXCEPT ![r] = new] /\ Goto("transition") /\ call.step = "register"
    BY <1>10 DEF RegisterIntegration, Register, At
  <2>2. /\ new \in Stores /\ new.artifacts = st.artifacts \cup {"integration"}
        /\ new.journal = st.journal /\ new.ledger = st.ledger /\ new.directory = st.directory
        /\ new.base = st.base /\ new.card = st.card /\ new.workspace = "committed"
    BY <1>2, <1>3, <2>1 DEF Stores, ArtifactKinds
  <2> HIDE DEF new
  <2>3. State(new) = State(st) /\ State(st) = "integrating"
    BY <1>3, <2>1, <2>2 DEF State
  <2>4. CallOK(call', new, target, launches[r])
    BY <1>1, <1>2, <1>3, <1>5, <1>6, <2>1, <2>2, <2>3 DEF CallOK, IntegrationOK
  <2>5. \E kinds \in SUBSET {"integration"} : new.artifacts = st.artifacts \cup kinds
    <3>1. {"integration"} \in SUBSET {"integration"}
      OBVIOUS
    <3> QED
      BY <2>2, <3>1
  <2> QED
    BY <1>5, <1>6, <1>7, <2>1, <2>2, <2>3, <2>4, <2>5
<1>11. CASE CompleteRun
  <2>1. Journal("completed", "human") /\ Goto("record") /\ call.step = "transition"
        /\ "completed" \in TaskStates /\ "human" \in ActorTypes
    BY <1>11 DEF CompleteRun, At, TaskStates, ActorTypes
  <2>2. PICK new \in Stores :
           /\ runs' = [runs EXCEPT ![r] = new] /\ State(new) = "completed"
           /\ RunOK(r, new, target, launches[r])
           /\ new.directory /\ new.ledger = st.ledger /\ new.workspace = st.workspace
    BY <1>1, <1>3, <1>4, <2>1, StageMoves
  <2>3. CallOK(call', new, target, launches[r])
    BY <1>1, <1>3, <1>5, <1>6, <2>1, <2>2 DEF CallOK, IntegrationOK
  <2> QED
    BY <1>1, <1>2, <1>5, <1>6, <2>1, <2>2, <2>3, StoreStep
<1>12. CASE AttestIntegration /\ Attested(r, st, target)
  <2>1. Goto("record") /\ call.step = "attest" /\ runs' = runs /\ st.workspace = "committed"
    BY <1>12 DEF AttestIntegration, At, run, Attested
  <2>2. CallOK(call', st, target, launches[r])
    BY <1>1, <1>2, <1>3, <1>5, <1>6, <2>1 DEF CallOK, IntegrationOK
  <2> QED
    BY <1>1, <1>2, <1>5, <1>6, <2>1, <2>2, StoreStep
<1>13. CASE AttestIntegration /\ ~Attested(r, st, target)
  <2>1. call' = Idle /\ runs' = runs
    BY <1>13 DEF AttestIntegration, run, End
  <2> QED
    BY <1>1, <1>2, <2>1, CommandEnds
<1> QED
  BY <1>8, <1>9, <1>10, <1>11, <1>12, <1>13

\* cleanup: the worktree goes, and its record is next.
LEMMA RemoveStep ==
    ASSUME LocalInv, RemoveWorkspace
    PROVE  LocalInv'
<1> DEFINE r == call.run
           st == runs[r]
           new == [st EXCEPT !.workspace = "removed"]
<1>1. /\ call # Idle /\ call.stage = "workspace_cleanup" /\ call.step = "remove"
      /\ runs' = [runs EXCEPT ![r] = new] /\ Goto("record")
      /\ UNCHANGED <<target, launches, faults>>
  BY DEF RemoveWorkspace, At
<1>2. /\ call \in Call /\ r \in Runs /\ st \in Stores /\ st.directory
      /\ RunOK(r, st, target, launches[r]) /\ faults \in 0..MaxFaults /\ CleanupOK(call, st)
  BY <1>1, CallFacts DEF CallOK
<1>3. Len(st.ledger) = 4 /\ call.state = "completed"
  BY <1>1, <1>2 DEF CleanupOK
<1>4. /\ new \in Stores /\ new.artifacts = st.artifacts
      /\ new.journal = st.journal /\ new.ledger = st.ledger /\ new.directory = st.directory
      /\ new.base = st.base /\ new.card = st.card /\ new.workspace = "removed"
  BY <1>2 DEF Stores
<1> HIDE DEF new
<1>5. /\ State(st) = Told(st.ledger) /\ WorkspaceOK(new) /\ Len(st.ledger) > 0
      /\ "decision" \in new.artifacts \/ new.card # "absent" => CardExpected(st)
      /\ st.artifacts \subseteq new.artifacts
  <2>1. State(st) = Told(st.ledger)
    BY <1>2, <1>3 DEF RunOK, JournalOK, Ahead
  <2>2. WorkspaceOK(new)
    <3>1. Len(new.ledger) = 4
      BY <1>3, <1>4
    <3> QED
      BY <1>4, <3>1 DEF WorkspaceOK
  <2>3. "decision" \in new.artifacts \/ new.card # "absent" => CardExpected(st)
    BY <1>2, <1>4 DEF RunOK, ArtifactsOK
  <2> QED
    BY <1>3, <1>4, <2>1, <2>2, <2>3
<1>6. RunOK(r, new, target, launches[r])
  <2> HIDE DEF r
  <2> QED
    BY <1>2, <1>4, <1>5, StoresChange
<1>7. /\ call' \in Call /\ call'.by = call.by /\ call'.run = r
      /\ call'.stage = "workspace_cleanup" /\ call'.step = "record" /\ call'.state = "completed"
  BY <1>1, <1>2, <1>3, CallSteps DEF Steps
<1>8. CallOK(call', new, target, launches[r])
  BY <1>2, <1>3, <1>4, <1>7 DEF CallOK, CleanupOK
<1> QED
  BY <1>1, <1>2, <1>4, <1>6, <1>7, <1>8, StoreStep

-----------------------------------------------------------------------------
(* The record and the card *)

\* The record of a stage, when it is the next one of the ledger: what the
\* command and recovery find is there, and the workflow is where it says.
LEMMA RecordStep ==
    ASSUME LocalInv, call # Idle, call.step = "record", NEW new \in Stores,
           NextStage(runs[call.run].ledger) = call.stage,
           new = [runs[call.run] EXCEPT !.ledger = Append(@, [stage |-> call.stage,
                                                              state |-> call.state])]
    PROVE  /\ RunOK(call.run, new, target, launches[call.run]) /\ new.directory
           /\ call.by = "recovery" => AtRest(new)
           /\ call.stage = "implementation_review" =>
                 /\ call.by = "command" /\ call.state \in {"repairing", "merge_review"}
                 /\ call.state = "merge_review" => CardExpected(new)
<1> DEFINE r == call.run
           st == runs[r]
           Records == [stage: Stages, state: TaskStates]
           record == [stage |-> call.stage, state |-> call.state]
           n == Len(st.ledger)
<1>1. /\ call \in Call /\ r \in Runs /\ st \in Stores /\ st.directory
      /\ RunOK(r, st, target, launches[r]) /\ CallOK(call, st, target, launches[r])
  BY CallFacts
<1>2. call.stage \in Stages \cup {"card"} /\ call.state \in TaskStates
  BY <1>1, CallTyped
<1>3. call.stage # "card"
  BY <1>1 DEF CallOK, CardOK
<1>4. record \in Records /\ record.state = call.state
  BY <1>2, <1>3
<1>5. st.ledger \in Seq(Records) /\ new.ledger = Append(st.ledger, record)
  BY <1>1 DEF Stores
<1>6. /\ new.journal = st.journal /\ new.artifacts = st.artifacts /\ new.outcome = st.outcome
      /\ new.directory = st.directory /\ new.base = st.base /\ new.card = st.card
      /\ new.workspace = st.workspace
  BY <1>1 DEF Stores
<1> HIDE DEF Records, record
<1>7. /\ n \in Nat /\ Len(new.ledger) = n + 1 /\ new.ledger[n + 1].state = call.state
      /\ \A i \in 1..n : new.ledger[i] = st.ledger[i]
  BY <1>4, <1>5, AppendProperties
<1>8. new.ledger # <<>>
  <2>1. Len(<<>>) = 0 /\ Len(new.ledger) # 0
    BY <1>7
  <2> QED
    BY <2>1
<1>9. State(new) = State(st) /\ LastTransition(new) = LastTransition(st)
  BY <1>6 DEF State, LastTransition
<1>10. st.journal # <<>> <=> new.journal # <<>>
  BY <1>6
<1> HIDE DEF st, r, n
<1>11. Len(st.ledger) = n
  BY DEF n
<1>12. CommitsOK(r, new, target)
  BY <1>1, <1>6, <1>9 DEF RunOK, CommitsOK
<1>13. Told(new.ledger) = call.state
  BY <1>7 DEF Told
<1>14. State(st) = call.state => JournalOK(new)
  BY <1>1, <1>6, <1>7, <1>9, <1>13 DEF RunOK, JournalOK
<1>15. State(st) = call.state /\ LedgerOK(new.ledger) /\ ArtifactsOK(new) /\ WorkspaceOK(new)
       => RunOK(r, new, target, launches[r]) /\ new.directory
  BY <1>1, <1>6, <1>12, <1>14 DEF RunOK
<1>16. State(st) # "draft" => st.journal # <<>>
  BY <1>1, StateTyped
<1>17. State(st) = call.state /\ State(st) # "draft" /\ WorkspaceAsRecorded(new) /\ ExecutionReadable(new)
       => Inspects(new)
  BY <1>8, <1>9, <1>10, <1>13, <1>16 DEF Inspects, Told
<1>18. CASE call.stage = "execution"
  <2>1. /\ n = 0 /\ State(st) = call.state /\ call.state \in Outcomes /\ "outcome" \in st.artifacts
        /\ st.workspace = "changed"
    <3>1. ExecutionOK(call, st, launches[r])
      BY <1>1, <1>18 DEF CallOK, r
    <3>2. st.ledger = <<>> /\ Len(<<>>) = 0
      BY <3>1 DEF ExecutionOK
    <3>3. n = 0
      BY <1>11, <3>2
    <3> QED
      BY <3>1, <3>3 DEF ExecutionOK
  <2>2. /\ Len(new.ledger) = 1 /\ new.ledger[1].state = call.state /\ ~CardExpected(st)
        /\ "intent" \in st.artifacts
    BY <1>1, <1>7, <1>11, <2>1 DEF RunOK, ArtifactsOK, CardExpected
  <2>3. LedgerOK(new.ledger) /\ ArtifactsOK(new) /\ WorkspaceOK(new)
    BY <1>1, <1>6, <2>1, <2>2 DEF RunOK, LedgerOK, ArtifactsOK, WorkspaceOK
  <2>4. AtRest(new)
    <3>1. WorkspaceAsRecorded(new) /\ ExecutionReadable(new) /\ ArtifactsValid(new)
      BY <1>6, <2>1, <2>2 DEF WorkspaceAsRecorded, ExecutionReadable, ArtifactsValid
    <3>2. ~DecisionGap(new) /\ ~IntegrationGap(new) /\ ~CleanupGap(new)
      BY <2>2 DEF DecisionGap, IntegrationGap, CleanupGap
    <3> QED
      BY <1>17, <2>1, <3>1, <3>2 DEF AtRest, Outcomes
  <2> QED
    BY <1>15, <1>18, <2>1, <2>3, <2>4 DEF r
<1>19. CASE call.stage = "implementation_review"
  <2>1. /\ n = 1 /\ State(st) = call.state /\ call.state \in {"repairing", "merge_review"}
        /\ st.ledger[1].state = "reviewing" /\ call.by = "command"
    BY <1>1, <1>11, <1>19 DEF CallOK, ReviewOK
  <2>2. /\ Len(new.ledger) = 2 /\ new.ledger[1].state = "reviewing"
        /\ new.ledger[2].state = call.state /\ ~CardExpected(st)
    BY <1>7, <1>11, <2>1 DEF CardExpected
  <2>3. LedgerOK(new.ledger) /\ ArtifactsOK(new) /\ WorkspaceOK(new)
    BY <1>1, <1>6, <1>11, <2>1, <2>2 DEF RunOK, LedgerOK, ArtifactsOK, WorkspaceOK, Outcomes
  <2>4. call.state = "merge_review" => CardExpected(new)
    BY <2>2 DEF CardExpected
  <2> QED
    BY <1>15, <1>19, <2>1, <2>3, <2>4 DEF r
<1>20. CASE call.stage = "decision_application"
  <2>1. /\ n = 2 /\ State(st) = call.state /\ call.state \in Decisions /\ CardExpected(st)
        /\ "decision" \in st.artifacts
    BY <1>1, <1>11, <1>20 DEF CallOK, DecisionOK
  <2>2. /\ Len(new.ledger) = 3 /\ new.ledger[1] = st.ledger[1] /\ new.ledger[2] = st.ledger[2]
        /\ new.ledger[3].state = call.state
    BY <1>7, <2>1
  <2>3. CardExpected(new) /\ new.ledger[2].state = "merge_review"
    BY <2>1, <2>2 DEF CardExpected
  <2>4. LedgerOK(new.ledger) /\ ArtifactsOK(new) /\ WorkspaceOK(new)
    BY <1>1, <1>6, <1>11, <2>1, <2>2, <2>3 DEF RunOK, LedgerOK, ArtifactsOK, WorkspaceOK
  <2>5. AtRest(new)
    <3>1. WorkspaceAsRecorded(new) /\ ExecutionReadable(new) /\ ArtifactsValid(new)
      BY <1>1, <1>6, <1>11, <2>1, <2>2 DEF RunOK, ArtifactsOK, WorkspaceOK, WorkspaceAsRecorded,
                                       ExecutionReadable, ArtifactsValid
    <3>2. ~DecisionGap(new) /\ ~IntegrationGap(new) /\ ~CleanupGap(new)
      BY <1>9, <2>1, <2>2 DEF DecisionGap, IntegrationGap, CleanupGap, Decisions
    <3> QED
      BY <1>17, <2>1, <3>1, <3>2 DEF AtRest, Decisions
  <2> QED
    BY <1>15, <1>20, <2>1, <2>4, <2>5 DEF r
<1>21. CASE call.stage = "source_integration"
  <2>1. /\ n = 3 /\ State(st) = "completed" /\ call.state = "completed"
        /\ st.ledger[3].state = "integrating" /\ st.workspace = "committed"
    BY <1>1, <1>11, <1>21 DEF CallOK, IntegrationOK
  <2>2. /\ Len(new.ledger) = 4 /\ new.ledger[1] = st.ledger[1] /\ new.ledger[2] = st.ledger[2]
        /\ new.ledger[3] = st.ledger[3] /\ new.ledger[4].state = "completed"
    BY <1>7, <2>1
  <2>3. CardExpected(new) <=> CardExpected(st)
    BY <1>11, <2>1, <2>2 DEF CardExpected
  <2>4. "integration" \in st.artifacts
    <3>1. Told(st.ledger) # "completed"
      BY <1>11, <2>1 DEF Told
    <3> QED
      BY <1>1, <1>11, <2>1, <3>1 DEF RunOK, JournalOK, Ahead
  <2>5. LedgerOK(new.ledger) /\ ArtifactsOK(new) /\ WorkspaceOK(new)
    BY <1>1, <1>6, <1>11, <2>1, <2>2, <2>3, <2>4 DEF RunOK, LedgerOK, ArtifactsOK, WorkspaceOK
  <2>6. AtRest(new)
    <3>1. WorkspaceAsRecorded(new) /\ ExecutionReadable(new) /\ ArtifactsValid(new)
      BY <1>1, <1>6, <1>11, <2>1, <2>2, <2>4 DEF RunOK, ArtifactsOK, WorkspaceAsRecorded,
                                       ExecutionReadable, ArtifactsValid
    <3>2. ~DecisionGap(new) /\ ~IntegrationGap(new) /\ ~CleanupGap(new)
      BY <1>6, <2>1, <2>2 DEF DecisionGap, IntegrationGap, CleanupGap
    <3> QED
      BY <1>17, <2>1, <3>1, <3>2 DEF AtRest
  <2> QED
    BY <1>15, <1>21, <2>1, <2>5, <2>6 DEF r
<1>22. CASE call.stage = "workspace_cleanup"
  <2>1. n = 4 /\ call.state = "completed" /\ st.workspace = "removed"
    BY <1>1, <1>11, <1>22 DEF CallOK, CleanupOK
  <2>2. /\ Len(new.ledger) = 5 /\ new.ledger[1] = st.ledger[1] /\ new.ledger[2] = st.ledger[2]
        /\ new.ledger[3] = st.ledger[3] /\ new.ledger[4] = st.ledger[4]
        /\ new.ledger[5].state = "completed"
    BY <1>7, <2>1
  <2>3. CardExpected(new) <=> CardExpected(st)
    BY <1>11, <2>1, <2>2 DEF CardExpected
  <2>4. State(st) = "completed"
    <3>1. Told(st.ledger) = "completed"
      BY <1>1, <1>11, <2>1 DEF RunOK, LedgerOK, Told
    <3> QED
      BY <1>1, <1>11, <2>1, <3>1 DEF RunOK, JournalOK, Ahead
  <2>5. LedgerOK(new.ledger) /\ ArtifactsOK(new) /\ WorkspaceOK(new)
    BY <1>1, <1>6, <1>11, <2>1, <2>2, <2>3 DEF RunOK, LedgerOK, ArtifactsOK, WorkspaceOK
  <2>6. AtRest(new)
    <3>1. WorkspaceAsRecorded(new) /\ ExecutionReadable(new) /\ ArtifactsValid(new)
      BY <1>1, <1>6, <1>11, <2>1, <2>2 DEF RunOK, ArtifactsOK, WorkspaceAsRecorded,
                                       ExecutionReadable, ArtifactsValid
    <3>2. ~DecisionGap(new) /\ ~IntegrationGap(new) /\ ~CleanupGap(new)
      BY <2>2 DEF DecisionGap, IntegrationGap, CleanupGap
    <3> QED
      BY <1>17, <2>1, <2>4, <3>1, <3>2 DEF AtRest
  <2> QED
    BY <1>15, <1>22, <2>1, <2>4, <2>5, <2>6 DEF r
<1> QED
  BY <1>2, <1>3, <1>18, <1>19, <1>20, <1>21, <1>22, StageNames

\* The ledger grows, and recovery assesses the run again, an accepted review
\* leaves its card, and any other command is done.
LEMMA AppendRecordStep ==
    ASSUME LocalInv, AppendRecord
    PROVE  LocalInv'
<1> DEFINE r == call.run
           st == runs[r]
           new == [st EXCEPT !.ledger = Append(@, [stage |-> call.stage, state |-> call.state])]
<1>1. call # Idle /\ call.step = "record" /\ UNCHANGED <<target, launches, faults>>
  BY DEF AppendRecord
<1>2. /\ call \in Call /\ r \in Runs /\ st \in Stores /\ faults \in 0..MaxFaults
      /\ CallOK(call, st, target, launches[r])
  BY <1>1, CallFacts
<1>3. CASE NextStage(st.ledger) # call.stage
  <2>1. call' = Idle /\ runs' = runs
    BY <1>3 DEF AppendRecord, run, End
  <2> QED
    BY <1>1, <1>2, <2>1, CommandEnds
<1>4. CASE NextStage(st.ledger) = call.stage
  <2>1. runs' = [runs EXCEPT ![r] = new] /\ AfterRecord
    BY <1>4 DEF AppendRecord, run
  <2>2. new \in Stores
    <3> DEFINE Records == [stage: Stages, state: TaskStates]
               record == [stage |-> call.stage, state |-> call.state]
    <3>1. call.stage \in Stages \cup {"card"} /\ call.state \in TaskStates
      BY <1>2, CallTyped
    <3>2. call.stage # "card"
      BY <1>1, <1>2 DEF CallOK, CardOK
    <3>3. record \in Records /\ st.ledger \in Seq(Records)
      BY <1>2, <3>1, <3>2 DEF Stores
    <3> HIDE DEF Records, record
    <3>4. Append(st.ledger, record) \in Seq(Records)
      BY <3>3, AppendProperties
    <3> QED
      BY <1>2, <3>4 DEF Stores, Records, record
  <2>3. /\ RunOK(r, new, target, launches[r]) /\ new.directory
        /\ call.by = "recovery" => AtRest(new)
        /\ call.stage = "implementation_review" =>
              /\ call.by = "command" /\ call.state \in {"repairing", "merge_review"}
              /\ call.state = "merge_review" => CardExpected(new)
    BY <1>1, <1>4, <2>2, RecordStep
  <2> HIDE DEF new
  <2>4. \A step \in Steps : Goto(step) =>
            /\ call' \in Call /\ call'.by = call.by /\ call'.run = r
            /\ call'.stage = call.stage /\ call'.step = step /\ call'.state = call.state
    BY <1>2, CallSteps
  <2>5. \/ call' = Idle
        \/ call' \in Call /\ call'.run = r /\ CallOK(call', new, target, launches[r])
    <3>1. CASE call.by = "recovery"
      <4>1. Goto("confirm") /\ "confirm" \in Steps
        BY <2>1, <3>1 DEF AfterRecord, Steps
      <4> QED
        BY <2>3, <2>4, <3>1, <4>1 DEF CallOK
    <3>2. CASE call.by # "recovery" /\ call.stage = "implementation_review"
               /\ call.state = "merge_review"
      <4>1. Goto("create") /\ "create" \in Steps
        BY <2>1, <3>2 DEF AfterRecord, Steps
      <4> QED
        BY <2>3, <2>4, <3>2, <4>1 DEF CallOK, ReviewOK
    <3>3. CASE call.by # "recovery" /\ ~(call.stage = "implementation_review"
                                        /\ call.state = "merge_review")
      BY <2>1, <3>3 DEF AfterRecord, End
    <3> QED
      BY <3>1, <3>2, <3>3
  <2> QED
    BY <1>1, <1>2, <2>1, <2>2, <2>3, <2>5, StoreStep
<1> QED
  BY <1>3, <1>4

\* The card is created, written, or taken away again, where it is expected.
LEMMA CardSteps ==
    ASSUME LocalInv, CreateCard \/ WriteCard \/ WriteCardFails
    PROVE  LocalInv'
<1> DEFINE r == call.run
           st == runs[r]
<1>1. call # Idle /\ call.step \in {"create", "write"} /\ UNCHANGED <<target, launches>>
  BY DEF CreateCard, WriteCard, WriteCardFails
<1>2. /\ call \in Call /\ r \in Runs /\ st \in Stores /\ st.directory
      /\ RunOK(r, st, target, launches[r]) /\ faults \in 0..MaxFaults
      /\ CallOK(call, st, target, launches[r]) /\ runs \in [Runs -> Stores]
  BY <1>1, CallFacts DEF LocalInv, TypeOK
<1>3. call.stage \in {"execution", "implementation_review", "decision_application",
                      "source_integration", "workspace_cleanup", "card"}
  BY <1>2, CallTyped, StageNames
<1>4. /\ CardExpected(st) /\ call.stage \in {"implementation_review", "card"}
      /\ call.by = "recovery" => call.stage = "card" /\ AtRest(st)
      /\ call.stage = "card" => call.by = "recovery" /\ AtRest(st)
      /\ call.stage = "implementation_review" =>
            call.by = "command" /\ call.state \in {"repairing", "merge_review"}
  BY <1>1, <1>2, <1>3 DEF CallOK, ExecutionOK, ReviewOK, DecisionOK, IntegrationOK, CleanupOK, CardOK
<1>5. \A step \in Steps : Goto(step) =>
          /\ call' \in Call /\ call'.by = call.by /\ call'.run = r
          /\ call'.stage = call.stage /\ call'.step = step /\ call'.state = call.state
  BY <1>2, CallSteps
<1>6. "write" \in Steps /\ "confirm" \in Steps /\ faults' \in 0..MaxFaults
  <2>1. CASE faults' = faults
    BY <1>2, <2>1 DEF Steps
  <2>2. CASE WriteCardFails
    <3>1. faults < MaxFaults /\ faults' = faults + 1 /\ MaxFaults \in Nat
      BY <2>2, LocalRunsAssumption DEF WriteCardFails
    <3> QED
      BY <1>2, <3>1 DEF Steps
  <2> QED
    BY <2>1, <2>2 DEF CreateCard, WriteCard
\* Whatever becomes of the card, the rest of the run is as it was.
<1>7. ASSUME NEW card \in {"absent", "torn", "written"},
             runs' = [runs EXCEPT ![r].card = card],
             \/ call' = Idle
             \/ Goto("write")
             \/ Goto("confirm") /\ call.by = "recovery"
      PROVE  LocalInv'
  <2> DEFINE new == [st EXCEPT !.card = card]
  <2>1. runs' = [runs EXCEPT ![r] = new]
    BY <1>2, <1>7
  <2>2. /\ new \in Stores /\ new.artifacts = st.artifacts
        /\ new.journal = st.journal /\ new.ledger = st.ledger /\ new.directory = st.directory
        /\ new.base = st.base /\ new.workspace = st.workspace
    BY <1>2 DEF Stores
  <2> HIDE DEF new, st
  <2>3. /\ State(new) = State(st) /\ (CardExpected(new) <=> CardExpected(st))
        /\ (AtRest(new) <=> AtRest(st))
    BY <2>2 DEF State, CardExpected, AtRest, Inspects, ArtifactsValid, WorkspaceAsRecorded,
                ExecutionReadable, DecisionGap, IntegrationGap, CleanupGap
  <2>4. /\ Len(st.ledger) > 0 /\ WorkspaceOK(new) /\ st.artifacts \subseteq new.artifacts
        /\ "decision" \in new.artifacts \/ new.card # "absent" => CardExpected(st)
    <3>1. Len(st.ledger) >= 2 /\ Len(st.ledger) \in Nat
      BY <1>2, <1>4, RunFacts DEF CardExpected, st
    <3>2. WorkspaceOK(new)
      BY <1>2, <2>2 DEF RunOK, WorkspaceOK
    <3> QED
      BY <1>4, <2>2, <3>1, <3>2
  <2>5. RunOK(r, new, target, launches[r])
    <3> HIDE DEF r
    <3> QED
      BY <1>2, <2>2, <2>4, StoresChange DEF st
  <2>6. \/ call' = Idle
        \/ call' \in Call /\ call'.run = r /\ CallOK(call', new, target, launches[r])
    <3>1. CASE Goto("write")
      BY <1>2, <1>4, <1>5, <1>6, <2>2, <2>3, <3>1 DEF CallOK, ReviewOK, CardOK
    <3>2. CASE Goto("confirm") /\ call.by = "recovery"
      BY <1>2, <1>4, <1>5, <1>6, <2>2, <2>3, <3>2 DEF CallOK
    <3> QED
      BY <1>7, <3>1, <3>2
  <2> QED
    BY <1>1, <1>2, <1>6, <2>1, <2>2, <2>5, <2>6, StoreStep DEF st
<1>8. CASE CreateCard
  <2>1. CASE st.card = "absent"
    BY <1>7, <1>8, <2>1 DEF CreateCard, run
  <2>2. CASE st.card # "absent"
    BY <1>1, <1>6, <1>8, <2>2, CommandEnds DEF CreateCard, run, End
  <2> QED
    BY <2>1, <2>2
<1>9. CASE WriteCard
  BY <1>7, <1>9 DEF WriteCard, End
<1>10. CASE WriteCardFails
  <2>1. st.card \in {"absent", "torn", "written"}
    BY <1>2 DEF Stores
  <2> DEFINE card == IF call.by = "recovery" THEN "absent" ELSE st.card
  <2>2. runs' = [runs EXCEPT ![r].card = card] /\ call' = Idle
    BY <1>10, <1>2 DEF WriteCardFails, End
  <2>3. card \in {"absent", "torn", "written"}
    BY <2>1
  <2> HIDE DEF card
  <2> QED
    BY <1>7, <2>2, <2>3
<1> QED
  BY <1>8, <1>9, <1>10

\* Commits made elsewhere merge no run, and take no merge back.
LEMMA ElsewhereStep ==
    ASSUME LocalInv, TargetAdvances
    PROVE  LocalInv'
<1> DEFINE commits == Append(target, Elsewhere)
           n == Len(target) + 1
           All == Runs \cup {Elsewhere}
<1>1. target \in Seq(All) /\ Elsewhere \in All
  BY DEF LocalInv, TypeOK
<1> HIDE DEF All
<1>2. /\ commits \in Seq(All) /\ Len(target) \in Nat /\ Len(commits) = n /\ commits[n] = Elsewhere
      /\ \A i \in 1..Len(target) : commits[i] = target[i]
  BY <1>1, AppendProperties
<1>3. target' = commits /\ UNCHANGED <<runs, launches, call, faults>>
  BY DEF TargetAdvances
<1> HIDE DEF commits
<1>4. ASSUME NEW r \in Runs
      PROVE  /\ \A i \in 1..Len(commits) : commits[i] = r => i \in 1..Len(target) /\ target[i] = r
             /\ IsMerged(r, target) => IsMerged(r, commits)
  <2>1. \A i \in 1..n : i \in 1..Len(target) \/ i = n
    BY <1>2
  <2>2. \A i \in 1..Len(target) : i \in 1..Len(commits)
    BY <1>2
  <2>3. Elsewhere # r
    BY LocalRunsAssumption
  <2> QED
    BY <1>2, <2>1, <2>2, <2>3 DEF IsMerged
<1>5. ASSUME NEW r \in Runs
      PROVE  RunOK(r, runs[r], commits, launches[r])
  <2>1. RunOK(r, runs[r], target, launches[r])
    BY DEF LocalInv
  <2> QED
    BY <1>4, <2>1 DEF RunOK, CommitsOK
<1>6. call # Idle => CallOK(call, runs[call.run], commits, launches[call.run])
  <2>1. ASSUME call # Idle
        PROVE  CallOK(call, runs[call.run], target, launches[call.run]) /\ call.run \in Runs
    BY <2>1, CallFacts
  <2> QED
    BY <1>4, <2>1 DEF CallOK, IntegrationOK
<1>7. TypeOK'
  BY <1>2, <1>3 DEF LocalInv, TypeOK, All
<1> QED
  BY <1>3, <1>5, <1>6, <1>7 DEF LocalInv, Idle

\* The invariant holds of a branch with no runs.
LEMMA LocalInvInitial == Init => LocalInv
<1> SUFFICES ASSUME Init PROVE LocalInv
  OBVIOUS
<1> USE DEF Init
<1>1. NoRun \in Stores
  <2>1. {} \in SUBSET ArtifactKinds /\ <<>> \in Seq(Transition)
        /\ <<>> \in Seq([stage: Stages, state: TaskStates])
    OBVIOUS
  <2> QED
    BY <2>1 DEF NoRun, Stores
<1>2. TypeOK
  <2>1. 0 \in 0..MaxFaults /\ target \in Seq(Runs \cup {Elsewhere})
    BY LocalRunsAssumption
  <2> QED
    BY <1>1, <2>1 DEF TypeOK
<1>3. Len(target) = 0 /\ Len(NoRun.ledger) = 0 /\ State(NoRun) = "draft" /\ IsWorkflowPath(NoRun.journal)
  BY DEF NoRun, State, current_state, IsWorkflowPath
<1>4. ASSUME NEW r \in Runs
      PROVE  RunOK(r, NoRun, target, 0)
  BY <1>3 DEF RunOK, LedgerOK, JournalOK, ArtifactsOK, WorkspaceOK, CommitsOK, CardExpected,
              Executing, NoRun
<1> QED
  BY <1>2, <1>4 DEF LocalInv

\* Every step of a command keeps the invariant.
LEMMA CommandStepKeeps ==
    ASSUME LocalInv, CommandStep
    PROVE  LocalInv'
<1>1. CASE \/ RegisterIntent \/ CreateWorkspace \/ Plan \/ Authorize \/ Launch
           \/ LifecycleError \/ Collect \/ Verify \/ RegisterOutcome
  BY <1>1, ExecutionSteps
<1>2. CASE \E actor \in {"agent", "human"} : ApplyReview(actor)
  BY <1>2, ApplyReviewStep
<1>3. CASE RegisterDecision \/ ApplyDecision
  BY <1>3, DecisionSteps
<1>4. CASE GitMerge
  BY <1>4, MergeStep
<1>5. CASE GitCommit \/ RegisterIntegration \/ CompleteRun \/ AttestIntegration
  BY <1>5, IntegrationSteps
<1>6. CASE RemoveWorkspace
  BY <1>6, RemoveStep
<1>7. CASE AppendRecord
  BY <1>7, AppendRecordStep
<1>8. CASE CreateCard \/ WriteCard
  BY <1>8, CardSteps
<1>9. CASE Confirm
  <2>1. faults \in 0..MaxFaults
    BY DEF LocalInv, TypeOK
  <2> QED
    BY <1>9, <2>1, CommandEnds DEF Confirm, End
<1> QED
  BY <1>1, <1>2, <1>3, <1>4, <1>5, <1>6, <1>7, <1>8, <1>9 DEF CommandStep

\* So do the commands that begin, the crashes and the commits of others.
LEMMA LocalInvKept == LocalInv /\ [Next]_vars => LocalInv'
<1> SUFFICES ASSUME LocalInv, [Next]_vars
             PROVE  LocalInv'
  OBVIOUS
<1>1. CASE CommandStep
  BY <1>1, CommandStepKeeps
<1>2. CASE WriteCardFails
  BY <1>2, CardSteps
<1>3. CASE Crash
  <2>1. faults \in 0..MaxFaults /\ MaxFaults \in Nat /\ faults < MaxFaults /\ faults' = faults + 1
    BY <1>3, LocalRunsAssumption DEF LocalInv, TypeOK, Crash
  <2>2. faults' \in 0..MaxFaults
    BY <2>1
  <2> QED
    BY <1>3, <2>2, CommandEnds DEF Crash, End
<1>4. CASE TargetAdvances
  BY <1>4, ElsewhereStep
<1>5. ASSUME NEW r \in Runs,
             \/ BeginExecute(r)
             \/ \E verdict \in {"repairing", "merge_review"} : BeginReview(r, verdict)
             \/ \E decision \in {"integrating", "repairing", "cancelled"} : BeginDecision(r, decision)
             \/ BeginIntegrate(r) \/ BeginCleanup(r) \/ BeginRecover(r)
      PROVE  LocalInv'
  <2>1. CASE BeginExecute(r)
    BY <2>1, BeginExecuteStep
  <2>2. CASE \/ \E verdict \in {"repairing", "merge_review"} : BeginReview(r, verdict)
             \/ \E decision \in Decisions : BeginDecision(r, decision)
             \/ BeginIntegrate(r) \/ BeginCleanup(r)
    BY <2>2, CommandBegins
  <2>3. CASE BeginRecover(r)
    BY <2>3, RecoverBegins
  <2> QED
    BY <1>5, <2>1, <2>2, <2>3 DEF Decisions
<1>6. CASE UNCHANGED vars
  <2>1. UNCHANGED <<runs, target, launches, call, faults>>
    BY <1>6 DEF vars
  <2>2. TypeOK'
    BY <2>1 DEF LocalInv, TypeOK
  <2> QED
    BY <2>1, <2>2 DEF LocalInv, Idle
<1> QED
  BY <1>1, <1>2, <1>3, <1>4, <1>5, <1>6 DEF Next

-----------------------------------------------------------------------------
(* What follows from it *)

\* In every reachable state, whoever was interrupted where, the journal, the
\* artifacts, the worktree and the branch are what the number of ledger
\* records and the command in progress allow.
THEOREM LocalInvHolds == Spec => []LocalInv
<1> QED
  BY LocalInvInitial, LocalInvKept, PTL DEF Spec

\* The stores keep the shapes of the files that local_run writes.
THEOREM LocalTypeCorrect == Spec => []TypeOK
<1>1. LocalInv => TypeOK
  BY DEF LocalInv
<1> QED
  BY <1>1, LocalInvHolds, PTL

\* No crash, failed write or late command makes the evidence of a run
\* contradict itself (local_recovery.assess): it is judged invalid only when
\* the target drifted, the card was cut off or the review asked for changes.
THEOREM EvidenceStaysValidHolds == Spec => []EvidenceStaysValid
<1>1. ASSUME LocalInv PROVE EvidenceStaysValid
  <2> SUFFICES ASSUME NEW r \in Runs, runs[r].directory, AssessOf(r) = Invalid
               PROVE  \/ Drifted(r) /\ Len(runs[r].ledger) = 3
                      \/ runs[r].card = "torn"
                      \/ Len(runs[r].ledger) = 2 /\ runs[r].ledger[2].state = "repairing"
    BY DEF EvidenceStaysValid
  <2> DEFINE st == runs[r]
  <2>1. /\ st \in Stores /\ RunOK(r, st, target, launches[r]) /\ Len(st.ledger) \in Nat
        /\ st.directory /\ Assess(r, st, target) = Invalid
    BY <1>1, RunFacts DEF AssessOf
  <2> USE DEF Verdict, Recoverable, Manual, Invalid, Consistent
  <2> HIDE DEF st
  <2>2. st.ledger # <<>>
    <3> SUFFICES ASSUME st.ledger = <<>> PROVE FALSE
      OBVIOUS
    <3>1. Len(st.ledger) = 0 /\ ExecutionGap(st) = Invalid
      <4>1. Len(st.ledger) = 0
        OBVIOUS
      <4>2. ~DecisionGap(st) /\ ~IntegrationGap(st) /\ ~CleanupGap(st)
        BY <4>1 DEF DecisionGap, IntegrationGap, CleanupGap
      <4> QED
        BY <2>1, <4>1, <4>2 DEF Assess
    <3>2. "outcome" \in st.artifacts /\ ~OutcomeSupported(st)
      BY <3>1 DEF ExecutionGap
    <3> QED
      BY <2>1, <3>1, <3>2 DEF RunOK, ArtifactsOK, OutcomeSupported
  <2>3. CASE DecisionGap(st)
    <3>1. Len(st.ledger) = 2 /\ State(st) # "merge_review"
      BY <2>3 DEF DecisionGap
    <3>2. ~DecisionSupported(st)
      BY <2>1, <2>2, <2>3, <3>1 DEF Assess, IntegrationGap, CleanupGap
    <3>3. ~Ahead(st)
      BY <3>1, <3>2 DEF Ahead, DecisionSupported
    <3>4. State(st) = st.ledger[2].state
      BY <2>1, <3>1, <3>3 DEF RunOK, JournalOK, Told
    <3> QED
      BY <2>1, <3>1, <3>4 DEF RunOK, LedgerOK, st
  <2>4. CASE IntegrationGap(st)
    <3>1. Len(st.ledger) = 3 /\ State(st) = "completed"
      BY <2>4 DEF IntegrationGap
    <3>2. ~Attested(r, st, target)
      BY <2>1, <2>2, <2>4, <3>1 DEF Assess, DecisionGap, CleanupGap
    <3>3. Told(st.ledger) = st.ledger[3].state /\ st.ledger[3].state # "completed"
      BY <2>1, <3>1 DEF RunOK, LedgerOK, Told, Decisions
    <3>4. Ahead(st)
      BY <2>1, <3>1, <3>3 DEF RunOK, JournalOK
    <3>5. ~MergedLast(r, target)
      BY <3>1, <3>2, <3>3, <3>4 DEF Ahead, Attested, CitesIntegration
    <3> QED
      BY <3>1, <3>5 DEF Drifted, st
  <2>5. ~CleanupGap(st)
    <3> SUFFICES ASSUME CleanupGap(st) PROVE FALSE
      OBVIOUS
    <3>1. Assess(r, st, target) = Recoverable("workspace_cleanup")
      BY <2>1, <2>2 DEF Assess, DecisionGap, IntegrationGap, CleanupGap
    <3> QED
      BY <2>1, <3>1
  <2>6. CASE ~DecisionGap(st) /\ ~IntegrationGap(st)
    <3>1. Assess(r, st, target) =
              IF ~Inspects(st) THEN Manual
              ELSE IF ArtifactsValid(st) THEN CardVerdict(st) ELSE Invalid
      BY <2>1, <2>2, <2>5, <2>6 DEF Assess
    <3>2. ArtifactsValid(st)
      BY <2>1 DEF RunOK, ArtifactsOK, ArtifactsValid
    <3>3. CardVerdict(st) = Invalid
      BY <2>1, <3>1, <3>2
    <3>4. CardExpected(st) \/ st.card = "absent"
      BY <2>1 DEF RunOK, ArtifactsOK
    <3>5. st.card = "torn"
      <4>1. CASE ~CardExpected(st)
        BY <3>3, <3>4, <4>1 DEF CardVerdict
      <4>2. CASE CardExpected(st) /\ st.card = "absent"
        BY <3>3, <4>2 DEF CardVerdict
      <4>3. CASE CardExpected(st) /\ st.card \notin {"absent", "torn"}
        BY <3>3, <4>3 DEF CardVerdict
      <4> QED
        BY <4>1, <4>2, <4>3
    <3> QED
      BY <3>5 DEF st
  <2> QED
    BY <2>3, <2>4, <2>6
<1> QED
  BY <1>1, LocalInvHolds, PTL

\* A repair that local_recovery.recover carried through leaves the run
\* consistent, but for a card to restore or to distrust.
THEOREM RepairsAreConclusiveHolds == Spec => []RepairsAreConclusive
<1>1. ASSUME LocalInv PROVE RepairsAreConclusive
  <2> SUFFICES ASSUME call # Idle, call.step = "confirm"
               PROVE  \/ AssessOf(call.run) \in {Consistent, Recoverable("card")}
                      \/ run.card = "torn"
    BY DEF RepairsAreConclusive
  <2> DEFINE r == call.run
             st == runs[r]
  <2>1. /\ r \in Runs /\ st.directory /\ RunOK(r, st, target, launches[r])
        /\ CallOK(call, st, target, launches[r])
    BY <1>1, CallFacts
  <2> HIDE DEF st, r
  <2>2. AtRest(st)
    BY <2>1 DEF CallOK
  <2>3. Assess(r, st, target) = CardVerdict(st)
    BY <2>1, <2>2 DEF Assess, AtRest, Inspects
  <2>4. CardExpected(st) \/ st.card = "absent"
    BY <2>1 DEF RunOK, ArtifactsOK
  <2>5. CardVerdict(st) \in {Consistent, Recoverable("card")} \/ st.card = "torn"
    <3>1. CASE ~CardExpected(st)
      BY <2>4, <3>1 DEF CardVerdict
    <3>2. CASE CardExpected(st) /\ st.card = "absent"
      BY <3>2 DEF CardVerdict
    <3>3. CASE CardExpected(st) /\ st.card \notin {"absent", "torn"}
      BY <3>3 DEF CardVerdict
    <3> QED
      BY <3>1, <3>2, <3>3
  <2> QED
    BY <2>3, <2>5 DEF AssessOf, run, r, st
<1> QED
  BY <1>1, LocalInvHolds, PTL

\* The states that a journal passes through, from draft on
LEMMA StatesOfJournal ==
    ASSUME NEW h \in Seq(Transition)
    PROVE  LET states == <<"draft">> \o [i \in 1..Len(h) |-> h[i].to]
           IN  /\ Len(states) = Len(h) + 1 /\ Len(h) \in Nat
               /\ states[1] = "draft"
               /\ \A i \in 1..Len(h) : states[i + 1] = h[i].to
<1> DEFINE tos == [i \in 1..Len(h) |-> h[i].to]
           one == <<"draft">>
           n == Len(h)
           All == TaskStates
<1>1. n \in Nat /\ \A i \in 1..n : h[i].to \in All
  <2>1. \A i \in 1..n : h[i] \in Transition
    BY ElementOfSeq
  <2> QED
    BY <2>1 DEF Transition
<1>2. /\ tos \in Seq(All) /\ Len(tos) = n /\ \A i \in 1..n : tos[i] = h[i].to
  BY <1>1
<1>3. one \in Seq(All) /\ Len(one) = 1 /\ one[1] = "draft"
  BY DEF TaskStates
<1> HIDE DEF tos, one, All, n
<1>4. /\ Len(one \o tos) = 1 + n
      /\ \A i \in 1..1 + n : (one \o tos)[i] = IF i <= 1 THEN one[i] ELSE tos[i - 1]
  <2>1. /\ Len(one \o tos) = Len(one) + Len(tos)
        /\ \A i \in 1..Len(one) + Len(tos) :
              (one \o tos)[i] = IF i <= Len(one) THEN one[i] ELSE tos[i - Len(one)]
    BY <1>2, <1>3, ConcatProperties
  <2> QED
    BY <1>2, <1>3, <2>1
<1>5. (one \o tos)[1] = "draft"
  BY <1>1, <1>3, <1>4
<1>6. ASSUME NEW i \in 1..n
      PROVE  (one \o tos)[i + 1] = h[i].to
  <2>1. i + 1 \in 1..1 + n /\ ~(i + 1 <= 1) /\ i + 1 - 1 = i
    BY <1>1
  <2>2. (one \o tos)[i + 1] = tos[i + 1 - 1]
    BY <1>4, <2>1
  <2> QED
    BY <1>2, <2>1, <2>2
<1> QED
  BY <1>1, <1>4, <1>5, <1>6 DEF one, tos, n

\* The ledger tells the journal (run_ledger.append after WorkflowKernel):
\* the state of every last record was reached, and the workflow is at most
\* the one transition of an unrecorded stage ahead of it.
THEOREM LedgerTellsJournalHolds == Spec => []LedgerTellsJournal
<1>1. ASSUME LocalInv PROVE LedgerTellsJournal
  <2> SUFFICES ASSUME NEW r \in Runs
               PROVE  LET ledger == runs[r].ledger
                          states == <<"draft">> \o [i \in 1..Len(runs[r].journal) |->
                                                       runs[r].journal[i].to]
                          last == IF ledger = <<>> THEN "draft" ELSE ledger[Len(ledger)].state
                      IN  /\ IsWorkflowPath(runs[r].journal)
                          /\ \E i \in 1..Len(states) :
                                /\ states[i] = last
                                /\ ledger # <<>> => Len(states) - i <= 1
    BY DEF LedgerTellsJournal
  <2> DEFINE st == runs[r]
             h == st.journal
             n == Len(h)
             states == <<"draft">> \o [i \in 1..Len(h) |-> h[i].to]
             last == IF st.ledger = <<>> THEN "draft" ELSE st.ledger[Len(st.ledger)].state
  <2>1. /\ st \in Stores /\ RunOK(r, st, target, launches[r]) /\ Len(st.ledger) \in Nat
        /\ h \in Seq(Transition) /\ IsWorkflowPath(h)
    BY <1>1, RunFacts DEF Stores, RunOK, JournalOK
  <2>2. /\ Len(states) = n + 1 /\ n \in Nat /\ states[1] = "draft"
        /\ \A i \in 1..n : states[i + 1] = h[i].to
    <3> HIDE DEF h
    <3> QED
      BY <2>1, StatesOfJournal
  <2> HIDE DEF states
  <2>3. /\ n = 0 => State(st) = "draft"
        /\ n > 0 => State(st) = h[n].to /\ LastTransition(st) = h[n] /\ n \in 1..n
    <3>1. h = <<>> <=> n = 0
      BY <2>1, EmptySeq
    <3>2. n > 0 => n \in 1..n
      BY <2>2
    <3> QED
      BY <2>2, <3>1, <3>2 DEF State, current_state, LastTransition
  <2>4. states[n + 1] = State(st) /\ n + 1 \in 1..n + 1 /\ (n + 1) - (n + 1) <= 1
    <3>1. CASE n = 0
      BY <2>2, <2>3, <3>1
    <3>2. CASE n > 0
      BY <2>2, <2>3, <3>2
    <3> QED
      BY <2>2, <3>1, <3>2
  <2>5. n > 0 => states[n] = h[n].from /\ n \in 1..n + 1 /\ (n + 1) - n <= 1
    <3> SUFFICES ASSUME n > 0
                 PROVE  states[n] = h[n].from /\ n \in 1..n + 1 /\ (n + 1) - n <= 1
      OBVIOUS
    <3>1. n \in 1..n /\ h[n].from = IF n = 1 THEN "draft" ELSE h[n - 1].to
      BY <2>1, <2>3 DEF IsWorkflowPath
    <3> HIDE DEF n
    <3>2. n # 1 => n - 1 \in 1..n /\ (n - 1) + 1 = n
      BY <2>2, <3>1
    <3>3. states[n] = h[n].from
      <4>1. CASE n = 1
        BY <2>2, <3>1, <4>1
      <4>2. CASE n # 1
        <5>1. states[n - 1 + 1] = h[n - 1].to
          BY <2>2, <3>2, <4>2
        <5> QED
          BY <3>1, <3>2, <4>2, <5>1
      <4> QED
        BY <4>1, <4>2
    <3> QED
      BY <2>2, <3>3
  <2>6. \E i \in 1..n + 1 : states[i] = last /\ (st.ledger # <<>> => (n + 1) - i <= 1)
    <3>1. CASE st.ledger = <<>>
      <4>1. 1 \in 1..n + 1
        BY <2>2
      <4> QED
        BY <2>2, <3>1, <4>1
    <3>2. CASE st.ledger # <<>>
      <4>1. Len(st.ledger) > 0 /\ last = Told(st.ledger)
        <5> DEFINE Records == [stage: Stages, state: TaskStates]
        <5>1. st.ledger \in Seq(Records)
          BY <2>1 DEF Stores
        <5> HIDE DEF Records, st
        <5>2. Len(st.ledger) # 0
          BY <3>2, <5>1, EmptySeq
        <5> QED
          BY <2>1, <3>2, <5>2 DEF Told
      <4> HIDE DEF last, st
      <4>2. CASE State(st) = Told(st.ledger)
        BY <2>4, <4>1, <4>2
      <4>3. CASE Ahead(st)
        <5>1. LastTransition(st).from = last /\ State(st) # "draft"
          BY <4>1, <4>3 DEF Ahead, Decisions
        <5>2. n > 0
          BY <2>2, <2>3, <5>1
        <5> QED
          BY <2>3, <2>5, <5>1, <5>2
      <4> QED
        BY <2>1, <4>1, <4>2, <4>3 DEF RunOK, JournalOK
    <3> QED
      BY <3>1, <3>2
  <2> QED
    BY <2>1, <2>2, <2>6 DEF states
<1> QED
  BY <1>1, LocalInvHolds, PTL

\* Git changes under a recorded approval only, and once (LocalGitIntegrator,
\* local_run.integrate and cleanup): one agent, one merge, a worktree
\* committed after the decision and removed after its integration is recorded.
THEOREM GitFollowsLedgerHolds == Spec => []GitFollowsLedger
<1>1. ASSUME LocalInv PROVE GitFollowsLedger
  <2> SUFFICES ASSUME NEW r \in Runs
               PROVE  /\ launches[r] <= 1
                      /\ Cardinality({i \in 1..Len(target) : target[i] = r}) <= 1
                      /\ runs[r].workspace \in {"committed", "removed"} =>
                            Len(runs[r].ledger) >= 3 /\ runs[r].ledger[3].state = "integrating"
                      /\ State(runs[r]) = "completed" => \E i \in 1..Len(target) : target[i] = r
                      /\ runs[r].workspace = "removed" => Len(runs[r].ledger) >= 4
    BY DEF GitFollowsLedger
  <2> DEFINE st == runs[r]
             merges == {i \in 1..Len(target) : target[i] = r}
  <2>1. RunOK(r, st, target, launches[r]) /\ Len(st.ledger) \in Nat
    BY <1>1, RunFacts
  <2>2. Cardinality(merges) <= 1
    <3>1. merges \in SUBSET {st.base + 1}
      BY <2>1 DEF RunOK, CommitsOK
    <3>2. IsFiniteSet({st.base + 1}) /\ Cardinality({st.base + 1}) = 1
      BY FS_Singleton
    <3> HIDE DEF merges
    <3> QED
      BY <3>1, <3>2, FS_Subset
  <2>3. launches[r] <= 1 /\ (State(st) = "completed" => IsMerged(r, target))
    BY <2>1 DEF RunOK, CommitsOK
  <2> HIDE DEF st
  <2> DEFINE n == Len(st.ledger)
  <2>4. /\ n \in Nat /\ n <= 5
        /\ n >= 4 => st.ledger[3].state = "integrating"
        /\ n \in {0, 1, 2} => st.workspace \notin {"committed", "removed"}
        /\ n = 3 => /\ st.workspace # "removed"
                    /\ st.workspace = "committed" => st.ledger[3].state = "integrating"
    BY <2>1 DEF RunOK, LedgerOK, WorkspaceOK
  <2> HIDE DEF n
  <2>5. /\ st.workspace \in {"committed", "removed"} => n >= 3 /\ st.ledger[3].state = "integrating"
        /\ st.workspace = "removed" => n >= 4
    <3>1. n \in {0, 1, 2} \/ n = 3 \/ n >= 4
      BY <2>4
    <3> QED
      BY <2>4, <3>1
  <2> QED
    BY <2>2, <2>3, <2>5 DEF st, n, IsMerged
<1> QED
  BY <1>1, LocalInvHolds, PTL

\* Recovery supplies records and cards only (local_recovery.recover): no
\* transition, no agent, no commit, no merge, no worktree removed, no artifact.
THEOREM RecoveryOnlyRecordsHolds == Spec => RecoveryOnlyRecords
<1>1. ASSUME LocalInv, [Next]_vars, call # Idle, call.by = "recovery"
      PROVE  /\ UNCHANGED launches
             /\ target' \in {target, Append(target, Elsewhere)}
             /\ \A r \in Runs :
                   /\ runs[r].journal = runs'[r].journal
                   /\ runs[r].artifacts = runs'[r].artifacts
                   /\ runs[r].workspace = runs'[r].workspace
  <2> DEFINE c == call.run
             st == runs[c]
  <2>1. /\ c \in Runs /\ CallOK(call, st, target, launches[c]) /\ runs \in [Runs -> Stores]
        /\ call \in Call /\ st \in Stores
    BY <1>1, CallFacts DEF LocalInv, TypeOK
  <2>2. call.stage \in {"execution", "implementation_review", "decision_application",
                        "source_integration", "workspace_cleanup", "card"}
    BY <2>1, CallTyped, StageNames
\* Recovery stands at the steps that write no Git object and no transition.
  <2>3. /\ call.step \in {"record", "attest", "remove", "create", "write", "confirm"}
        /\ call.step = "remove" => st.workspace = "removed"
    BY <1>1, <2>1, <2>2 DEF CallOK, ExecutionOK, ReviewOK, DecisionOK, IntegrationOK, CleanupOK, CardOK
  <2>4. ASSUME NEW new, runs' = [runs EXCEPT ![c] = new],
               new.journal = st.journal, new.artifacts = st.artifacts, new.workspace = st.workspace
        PROVE  \A r \in Runs : /\ runs[r].journal = runs'[r].journal
                               /\ runs[r].artifacts = runs'[r].artifacts
                               /\ runs[r].workspace = runs'[r].workspace
    <3>1. runs'[c] = new /\ \A r \in Runs \ {c} : runs'[r] = runs[r]
      BY <2>1, <2>4
    <3> QED
      BY <2>4, <3>1
  <2>5. \/ UNCHANGED vars \/ TargetAdvances \/ WriteCardFails \/ Crash
        \/ AttestIntegration \/ RemoveWorkspace \/ AppendRecord \/ CreateCard \/ WriteCard \/ Confirm
    <3>1. CommandStep => \/ AttestIntegration \/ RemoveWorkspace \/ AppendRecord
                         \/ CreateCard \/ WriteCard \/ Confirm
      BY <2>3 DEF CommandStep, RegisterIntent, CreateWorkspace, Plan, Authorize, Launch,
             LifecycleError, Collect, Verify, RegisterOutcome, ApplyReview, RegisterDecision,
             ApplyDecision, GitCommit, GitMerge, RegisterIntegration, CompleteRun, At
    <3>2. ASSUME NEW r \in Runs
          PROVE  /\ ~BeginExecute(r) /\ ~BeginIntegrate(r) /\ ~BeginCleanup(r) /\ ~BeginRecover(r)
                 /\ \A state : ~BeginReview(r, state) /\ ~BeginDecision(r, state)
      BY <1>1 DEF BeginExecute, BeginReview, BeginDecision, BeginIntegrate, BeginCleanup, BeginRecover
    <3> QED
      BY <1>1, <3>1, <3>2 DEF Next
  <2>6. UNCHANGED launches /\ target' \in {target, Append(target, Elsewhere)}
    BY <2>5 DEF vars, TargetAdvances, WriteCardFails, Crash, AttestIntegration, RemoveWorkspace,
                AppendRecord, CreateCard, WriteCard, Confirm
  <2>7. CASE UNCHANGED runs
    BY <2>6, <2>7
  <2>8. CASE RemoveWorkspace
    <3> DEFINE new == [st EXCEPT !.workspace = "removed"]
    <3>1. runs' = [runs EXCEPT ![c] = new] /\ call.step = "remove"
      BY <2>8 DEF RemoveWorkspace, At
    <3>2. /\ new.journal = st.journal /\ new.artifacts = st.artifacts
          /\ new.workspace = st.workspace
      BY <2>1, <2>3, <3>1 DEF Stores
    <3> HIDE DEF new
    <3> QED
      BY <2>4, <2>6, <3>1, <3>2
  <2>9. CASE AppendRecord /\ ~UNCHANGED runs
    <3> DEFINE new == [st EXCEPT !.ledger = Append(@, [stage |-> call.stage, state |-> call.state])]
    <3>1. runs' = [runs EXCEPT ![c] = new]
      BY <2>9 DEF AppendRecord, run
    <3>2. /\ new.journal = st.journal /\ new.artifacts = st.artifacts
          /\ new.workspace = st.workspace
      BY <2>1 DEF Stores
    <3> HIDE DEF new
    <3> QED
      BY <2>4, <2>6, <3>1, <3>2
  <2>10. ASSUME NEW card, runs' = [runs EXCEPT ![c].card = card]
         PROVE  \A r \in Runs : /\ runs[r].journal = runs'[r].journal
                                /\ runs[r].artifacts = runs'[r].artifacts
                                /\ runs[r].workspace = runs'[r].workspace
    <3> DEFINE new == [st EXCEPT !.card = card]
    <3>1. runs' = [runs EXCEPT ![c] = new]
      BY <2>10
    <3>2. /\ new.journal = st.journal /\ new.artifacts = st.artifacts
          /\ new.workspace = st.workspace
      BY <2>1 DEF Stores
    <3> HIDE DEF new
    <3> QED
      BY <2>4, <3>1, <3>2
  <2>11. CASE (CreateCard \/ WriteCard \/ WriteCardFails) /\ ~UNCHANGED runs
    <3>1. \E card : runs' = [runs EXCEPT ![c].card = card]
      BY <1>1, <2>11 DEF CreateCard, WriteCard, WriteCardFails, run
    <3> QED
      BY <2>6, <2>10, <3>1
  <2> QED
    BY <2>5, <2>7, <2>8, <2>9, <2>11 DEF vars, TargetAdvances, Crash, AttestIntegration, Confirm
<1> QED
  BY <1>1, LocalInvHolds, PTL DEF Spec, RecoveryOnlyRecords

-----------------------------------------------------------------------------
(* The pipeline *)

Awaiting == {"collect", "verify", "outcome"}

\* Whoever waits for an agent or tells its outcome has started it.
StartedInv ==
    /\ \A r \in Runs : "outcome" \in runs[r].artifacts => launches[r] > 0
    /\ call # Idle /\ call.step \in Awaiting => launches[call.run] > 0

States(ledger) == [i \in 1..Len(ledger) |-> ledger[i].state]

\* A step that the pipeline does not see
LEMMA Unseen ==
    ASSUME UNCHANGED launches,
           \A r \in Runs : /\ States(runs'[r].ledger) = States(runs[r].ledger)
                           /\ IsMerged(r, target) <=> IsMerged(r, target')
                           /\ runs[r].workspace = "removed" <=> runs'[r].workspace = "removed"
    PROVE  UNCHANGED Pipeline!vars
<1>1. {r \in Runs : IsMerged(r, target')} = {r \in Runs : IsMerged(r, target)}
  OBVIOUS
<1>2. {r \in Runs : runs'[r].workspace = "removed"} = {r \in Runs : runs[r].workspace = "removed"}
  OBVIOUS
<1>3. [r \in Runs |-> States(runs'[r].ledger)] = [r \in Runs |-> States(runs[r].ledger)]
  OBVIOUS
<1> QED
  BY <1>1, <1>2, <1>3 DEF Pipeline!vars, IsMerged, States

\* A step on the stores of one run that keeps its ledger and its worktree
LEMMA StoresMove ==
    ASSUME LocalInv, StartedInv, NEW c \in Runs, NEW new, runs' = [runs EXCEPT ![c] = new],
           UNCHANGED <<target, launches>>,
           new.ledger = runs[c].ledger, new.workspace = "removed" <=> runs[c].workspace = "removed",
           "outcome" \in new.artifacts => "outcome" \in runs[c].artifacts \/ launches[c] > 0,
           call' = Idle \/ call'.step \notin Awaiting \/ launches[call'.run] > 0
    PROVE  StartedInv' /\ UNCHANGED Pipeline!vars
<1>1. runs'[c] = new /\ \A r \in Runs \ {c} : runs'[r] = runs[r]
  BY DEF LocalInv, TypeOK
<1>2. StartedInv'
  <2>1. ASSUME NEW r \in Runs, "outcome" \in runs'[r].artifacts PROVE launches'[r] > 0
    BY <1>1, <2>1 DEF StartedInv
  <2> QED
    BY <2>1 DEF StartedInv, Idle
<1>3. ASSUME NEW r \in Runs
      PROVE  /\ runs'[r].ledger = runs[r].ledger
             /\ runs[r].workspace = "removed" <=> runs'[r].workspace = "removed"
  BY <1>1
<1> QED
  BY <1>2, <1>3, Unseen DEF IsMerged

\* A step that changes nothing but the call
LEMMA CallMoves ==
    ASSUME LocalInv, StartedInv, UNCHANGED <<runs, target, launches>>,
           call' = Idle \/ call'.step \notin Awaiting \/ launches[call'.run] > 0
    PROVE  StartedInv' /\ UNCHANGED Pipeline!vars
<1>1. StartedInv'
  BY DEF StartedInv, Idle
<1> QED
  BY <1>1, Unseen DEF IsMerged

\* A journalled transition
LEMMA JournalMoves ==
    ASSUME LocalInv, StartedInv, call # Idle, NEW to \in TaskStates, NEW actor \in ActorTypes,
           Journal(to, actor), UNCHANGED <<target, launches>>,
           call' = Idle \/ call'.step \notin Awaiting \/ launches[call'.run] > 0
    PROVE  StartedInv' /\ UNCHANGED Pipeline!vars
<1>1. /\ call.run \in Runs /\ runs \in [Runs -> Stores]
      /\ IsWorkflowPath(runs[call.run].journal)
  BY CallFacts DEF LocalInv, TypeOK, RunOK, JournalOK
<1>2. PICK new \in Stores :
        /\ runs' = [runs EXCEPT ![call.run] = new]
        /\ new.artifacts = runs[call.run].artifacts
        /\ new.ledger = runs[call.run].ledger
        /\ new.workspace = runs[call.run].workspace
  BY <1>1, JournalStep
<1>3. PICK c \in Runs : c = call.run
  BY <1>1
<1>4. /\ runs' = [runs EXCEPT ![c] = new] /\ new.artifacts = runs[c].artifacts
      /\ new.ledger = runs[c].ledger /\ new.workspace = runs[c].workspace
  BY <1>2, <1>3
<1> QED
  BY <1>4, StoresMove

\* The commands and the recovery that begin, attest, confirm or die
LEMMA BeginPipeline ==
    ASSUME LocalInv, StartedInv,
           \/ AttestIntegration \/ Confirm \/ Crash
           \/ \E r \in Runs :
                 \/ \E verdict \in {"repairing", "merge_review"} : BeginReview(r, verdict)
                 \/ \E decision \in {"integrating", "repairing", "cancelled"} :
                        BeginDecision(r, decision)
                 \/ BeginIntegrate(r) \/ BeginCleanup(r) \/ BeginRecover(r)
    PROVE  StartedInv' /\ UNCHANGED Pipeline!vars
<1>1. ASSUME NEW r \in Runs,
             \/ \E verdict \in {"repairing", "merge_review"} : BeginReview(r, verdict)
             \/ \E decision \in {"integrating", "repairing", "cancelled"} :
                    BeginDecision(r, decision)
             \/ BeginCleanup(r)
      PROVE  UNCHANGED <<runs, target, launches>> /\ call'.step \notin Awaiting
  BY <1>1 DEF BeginReview, BeginDecision, BeginCleanup, Begin, Awaiting
<1>2. ASSUME NEW r \in Runs, BeginIntegrate(r)
      PROVE  UNCHANGED <<runs, target, launches>> /\ call'.step \notin Awaiting
  BY <1>2 DEF BeginIntegrate, Begin, Awaiting, IntegrateFrom
<1>3. ASSUME NEW r \in Runs, BeginRecover(r)
      PROVE  UNCHANGED <<runs, target, launches>> /\ call'.step \notin Awaiting
  <2>1. \A repair, state : RepairFrom(repair, state) \notin Awaiting
    BY DEF RepairFrom, IntegrateFrom, Awaiting
  <2> QED
    BY <1>3, <2>1 DEF BeginRecover, Begin
<1>4. ASSUME AttestIntegration
      PROVE  UNCHANGED <<runs, target, launches>> /\ (call' = Idle \/ call'.step \notin Awaiting)
  <2>1. call # Idle /\ UNCHANGED <<runs, target, launches>> /\ (Goto("record") \/ End)
    BY <1>4 DEF AttestIntegration, At
  <2>2. Goto("record") => call'.step = "record"
    BY <2>1, CallFacts DEF Goto, Call
  <2> QED
    BY <2>1, <2>2 DEF End, Awaiting
<1>5. Confirm \/ Crash => UNCHANGED <<runs, target, launches>> /\ call' = Idle
  BY DEF Confirm, Crash, End
<1> QED
  BY <1>1, <1>2, <1>3, <1>4, <1>5, CallMoves

\* execute begins in a directory of its own.
LEMMA ExecutePipeline ==
    ASSUME LocalInv, StartedInv, NEW r \in Runs, BeginExecute(r)
    PROVE  StartedInv' /\ UNCHANGED Pipeline!vars
<1> DEFINE new == [runs[r] EXCEPT !.directory = TRUE, !.base = Len(target)]
<1>1. /\ UNCHANGED <<target, launches>> /\ call'.step \notin Awaiting
      /\ runs' = [runs EXCEPT ![r] = new]
  BY DEF BeginExecute, Begin, Awaiting, LocalInv, TypeOK
<1>2. /\ new.ledger = runs[r].ledger /\ new.workspace = runs[r].workspace
      /\ new.artifacts = runs[r].artifacts
  BY DEF LocalInv, TypeOK, Stores
<1> HIDE DEF new
<1> QED
  BY <1>1, <1>2, StoresMove

\* What a command is in the middle of: a run, its stores, and where it goes
LEMMA CommandFacts ==
    ASSUME LocalInv, call # Idle
    PROVE  /\ call.run \in Runs /\ runs[call.run] \in Stores
           /\ CallOK(call, runs[call.run], target, launches[call.run])
           /\ runs \in [Runs -> Stores]
           /\ \A step : Goto(step) => call'.step = step /\ call'.run = call.run
           /\ \A step, state : GotoWith(step, state) => call'.step = step /\ call'.run = call.run
  BY CallFacts DEF LocalInv, TypeOK, Goto, GotoWith, Call

\* The transitions of the journal
LEMMA TransitionPipeline ==
    ASSUME LocalInv, StartedInv,
           \/ Plan \/ Authorize \/ LifecycleError \/ Collect \/ Verify \/ CompleteRun
           \/ ApplyDecision \/ \E actor \in {"agent", "human"} : ApplyReview(actor)
    PROVE  StartedInv' /\ UNCHANGED Pipeline!vars
<1>1. call # Idle /\ UNCHANGED <<target, launches>>
  BY DEF Plan, Authorize, LifecycleError, Collect, Verify, CompleteRun, ApplyDecision,
         ApplyReview, At
<1>2. /\ \A step : Goto(step) => call'.step = step /\ call'.run = call.run
      /\ \A step, state : GotoWith(step, state) => call'.step = step /\ call'.run = call.run
      /\ call.run \in Runs /\ call.state \in TaskStates
  BY <1>1, CommandFacts, CallFacts, CallTyped
<1>3. {"system", "agent", "human", "policy"} \subseteq ActorTypes
      /\ {"planned", "implementing", "failed", "verifying", "repairing", "reviewing",
          "completed"} \subseteq TaskStates
  BY DEF ActorTypes, TaskStates
<1>4. ASSUME NEW to \in TaskStates, NEW actor \in ActorTypes, Journal(to, actor),
             call' = Idle \/ call'.step \notin Awaiting \/ launches[call'.run] > 0
      PROVE  StartedInv' /\ UNCHANGED Pipeline!vars
  BY <1>1, <1>4, JournalMoves
<1>5. CASE Plan
  BY <1>2, <1>3, <1>4, <1>5 DEF Plan, Awaiting
<1>6. CASE Authorize
  <2>1. AuthorityOf[call.run] \in ActorTypes
    BY <1>2, <1>3, LocalRunsAssumption
  <2> QED
    BY <1>2, <1>3, <1>4, <1>6, <2>1 DEF Authorize, Awaiting
<1>7. CASE LifecycleError
  BY <1>3, <1>4, <1>7 DEF LifecycleError, End
<1>8. CASE Collect \/ Verify
  <2>1. launches[call.run] > 0
    BY <1>1, <1>8 DEF Collect, Verify, At, StartedInv, Awaiting
  <2> QED
    BY <1>2, <1>3, <1>4, <1>8, <2>1 DEF Collect, Verify
<1>9. CASE CompleteRun
  BY <1>2, <1>3, <1>4, <1>9 DEF CompleteRun, Awaiting
<1>10. CASE ApplyDecision
  <2>1. CASE Journal(call.state, "human") /\ Goto("record")
    BY <1>2, <1>3, <1>4, <2>1 DEF Awaiting
  <2>2. CASE End /\ UNCHANGED runs
    BY <1>1, <2>2, CallMoves DEF End
  <2> QED
    BY <1>10, <2>1, <2>2 DEF ApplyDecision
<1>11. CASE \E actor \in {"agent", "human"} : ApplyReview(actor)
  BY <1>2, <1>3, <1>4, <1>11 DEF ApplyReview, Awaiting
<1> QED
  BY <1>5, <1>6, <1>7, <1>8, <1>9, <1>10, <1>11

\* What is registered, and the worktree before the records of approval
LEMMA EvidencePipeline ==
    ASSUME LocalInv, StartedInv,
           \/ RegisterIntent \/ RegisterDecision \/ RegisterIntegration \/ RegisterOutcome
           \/ CreateWorkspace \/ GitCommit
    PROVE  StartedInv' /\ UNCHANGED Pipeline!vars
<1>1. call # Idle /\ UNCHANGED <<target, launches>>
  BY DEF RegisterIntent, RegisterDecision, RegisterIntegration, RegisterOutcome,
         CreateWorkspace, GitCommit, At
<1>2. PICK c \in Runs : c = call.run
  BY <1>1, CommandFacts
<1>3. /\ runs[c] \in Stores /\ runs \in [Runs -> Stores]
      /\ CallOK(call, runs[c], target, launches[c])
      /\ \A step : Goto(step) => call'.step = step /\ call'.run = c
  BY <1>1, <1>2, CommandFacts
<1>4. ASSUME NEW kind \in {"intent", "decision", "integration"}, Register(kind),
             call'.step \notin Awaiting
      PROVE  StartedInv' /\ UNCHANGED Pipeline!vars
  <2> DEFINE new == [runs[c] EXCEPT !.artifacts = @ \cup {kind}]
  <2>1. runs' = [runs EXCEPT ![c] = new]
    BY <1>2, <1>3, <1>4 DEF Register
  <2>2. /\ new.ledger = runs[c].ledger /\ new.workspace = runs[c].workspace
        /\ "outcome" \in new.artifacts => "outcome" \in runs[c].artifacts
    BY <1>3 DEF Stores
  <2> HIDE DEF new
  <2> QED
    BY <1>1, <1>4, <2>1, <2>2, StoresMove
<1>5. CASE RegisterIntent \/ RegisterDecision \/ RegisterIntegration
  BY <1>3, <1>4, <1>5 DEF RegisterIntent, RegisterDecision, RegisterIntegration, Awaiting
<1>6. CASE RegisterOutcome
  <2> DEFINE new == [runs[c] EXCEPT !.artifacts = @ \cup {"outcome"}, !.outcome = call.state]
  <2>1. runs' = [runs EXCEPT ![c] = new] /\ call'.step = "record" /\ launches[c] > 0
    <3>1. call.step = "outcome" /\ Goto("record")
      BY <1>6 DEF RegisterOutcome, At
    <3>2. runs' = [runs EXCEPT ![c] = new]
      BY <1>2, <1>3, <1>6 DEF RegisterOutcome
    <3> QED
      BY <1>1, <1>2, <1>3, <3>1, <3>2 DEF StartedInv, Awaiting
  <2>2. new.ledger = runs[c].ledger /\ new.workspace = runs[c].workspace
    BY <1>3 DEF Stores
  <2> HIDE DEF new
  <2> QED
    BY <1>1, <2>1, <2>2, StoresMove DEF Awaiting
<1>7. CASE CreateWorkspace
  <2> DEFINE new == [runs[c] EXCEPT !.workspace = "changed"]
  <2>1. runs' = [runs EXCEPT ![c] = new] /\ call'.step = "planned" /\ runs[c].ledger = <<>>
    <3>1. runs[c].ledger = <<>>
      BY <1>3, <1>7 DEF CreateWorkspace, At, CallOK, ExecutionOK
    <3> QED
      BY <1>2, <1>3, <1>7, <3>1 DEF CreateWorkspace
  <2>2. runs[c].workspace # "removed"
    <3>1. WorkspaceOK(runs[c]) /\ Len(<<>>) = 0
      BY DEF LocalInv, RunOK
    <3> QED
      BY <2>1, <3>1 DEF WorkspaceOK
  <2>3. /\ new.ledger = runs[c].ledger /\ new.workspace = "changed"
        /\ new.artifacts = runs[c].artifacts
    BY <1>3 DEF Stores
  <2> HIDE DEF new
  <2> QED
    BY <1>1, <2>1, <2>2, <2>3, StoresMove DEF Awaiting
<1>8. CASE GitCommit
  <2>1. CASE CommitReachable(runs[c])
    <3> DEFINE new == [runs[c] EXCEPT !.workspace = "committed"]
    <3>1. /\ runs' = [runs EXCEPT ![c] = new] /\ call'.step = "merge"
          /\ runs[c].workspace # "removed"
      BY <1>2, <1>3, <1>8, <2>1 DEF GitCommit, CommitReachable, run
    <3>2. /\ new.ledger = runs[c].ledger /\ new.workspace = "committed"
          /\ new.artifacts = runs[c].artifacts
      BY <1>3 DEF Stores
    <3> HIDE DEF new
    <3> QED
      BY <1>1, <3>1, <3>2, StoresMove DEF Awaiting
  <2>2. CASE ~CommitReachable(runs[c])
    <3>1. call' = Idle /\ UNCHANGED runs
      BY <1>2, <1>8, <2>2 DEF GitCommit, End, run
    <3> QED
      BY <1>1, <3>1, CallMoves
  <2> QED
    BY <2>1, <2>2
<1> QED
  BY <1>5, <1>6, <1>7, <1>8

\* The card
LEMMA CardPipeline ==
    ASSUME LocalInv, StartedInv, CreateCard \/ WriteCard \/ WriteCardFails
    PROVE  StartedInv' /\ UNCHANGED Pipeline!vars
<1>1. call # Idle /\ UNCHANGED <<target, launches>>
  BY DEF CreateCard, WriteCard, WriteCardFails
<1>2. PICK c \in Runs : c = call.run
  BY <1>1, CommandFacts
<1>3. /\ runs[c] \in Stores /\ runs \in [Runs -> Stores]
      /\ \A step : Goto(step) => call'.step = step /\ call'.run = c
  BY <1>1, <1>2, CommandFacts
<1>4. ASSUME NEW card, runs' = [runs EXCEPT ![c].card = card], call' = Idle \/ call'.step \notin Awaiting
      PROVE  StartedInv' /\ UNCHANGED Pipeline!vars
  <2> DEFINE new == [runs[c] EXCEPT !.card = card]
  <2>1. runs' = [runs EXCEPT ![c] = new]
    BY <1>3, <1>4
  <2>2. /\ new.ledger = runs[c].ledger /\ new.workspace = runs[c].workspace
        /\ new.artifacts = runs[c].artifacts
    BY <1>3 DEF Stores
  <2> HIDE DEF new
  <2> QED
    BY <1>1, <1>4, <2>1, <2>2, StoresMove
<1>5. CASE CreateCard
  <2>1. CASE runs[c].card = "absent"
    BY <1>2, <1>3, <1>4, <1>5, <2>1 DEF CreateCard, run, Awaiting
  <2>2. CASE runs[c].card # "absent"
    BY <1>1, <1>2, <1>5, <2>2, CallMoves DEF CreateCard, End, run
  <2> QED
    BY <2>1, <2>2
<1>6. CASE WriteCard
  <2>1. runs' = [runs EXCEPT ![c].card = "written"]
    BY <1>2, <1>6 DEF WriteCard
  <2>2. call' = Idle \/ call'.step \notin Awaiting
    BY <1>3, <1>6 DEF WriteCard, End, Awaiting
  <2> QED
    BY <1>4, <2>1, <2>2
<1>7. CASE WriteCardFails
  <2> DEFINE card == IF call.by = "recovery" THEN "absent" ELSE runs[c].card
  <2>1. runs' = [runs EXCEPT ![c].card = card] /\ call' = Idle
    BY <1>2, <1>7 DEF WriteCardFails, End
  <2> HIDE DEF card
  <2> QED
    BY <1>4, <2>1
<1> QED
  BY <1>5, <1>6, <1>7

\* A commit made elsewhere
LEMMA AdvancePipeline ==
    ASSUME LocalInv, StartedInv, TargetAdvances
    PROVE  StartedInv' /\ UNCHANGED Pipeline!vars
<1>1. /\ UNCHANGED <<runs, launches, call>> /\ target' = Append(target, Elsewhere)
      /\ Elsewhere \notin Runs
  BY LocalRunsAssumption DEF TargetAdvances
<1>2. /\ Len(target) \in Nat /\ Len(target') = Len(target) + 1
      /\ target'[Len(target) + 1] = Elsewhere
      /\ \A i \in 1..Len(target) : target'[i] = target[i]
  BY <1>1 DEF LocalInv, TypeOK
<1>3. \A r \in Runs : IsMerged(r, target) => IsMerged(r, target')
  BY <1>2 DEF IsMerged
<1>4. ASSUME NEW r \in Runs, NEW i \in 1..Len(target'), target'[i] = r PROVE IsMerged(r, target)
  <2>1. i \in 1..Len(target)
    BY <1>1, <1>2, <1>4
  <2> QED
    BY <1>2, <1>4, <2>1 DEF IsMerged
<1>5. \A r \in Runs : IsMerged(r, target') => IsMerged(r, target)
  BY <1>4 DEF IsMerged
<1>6. StartedInv'
  BY <1>1 DEF StartedInv, Idle
<1> QED
  BY <1>1, <1>3, <1>5, <1>6, Unseen

\* An agent is started once.
LEMMA LaunchPipeline ==
    ASSUME LocalInv, StartedInv, Launch
    PROVE  StartedInv' /\ Pipeline!Next
<1>1. /\ call # Idle /\ call.stage = "execution" /\ call.step = "launch"
      /\ UNCHANGED <<runs, target>> /\ Goto("collect")
      /\ launches' = [launches EXCEPT ![call.run] = @ + 1]
  BY DEF Launch, At
<1>2. PICK c \in Runs : c = call.run
  BY <1>1, CommandFacts
<1>3. /\ CallOK(call, runs[c], target, launches[c]) /\ launches \in [Runs -> Nat]
      /\ call'.run = c /\ launches' = [launches EXCEPT ![c] = launches[c] + 1]
  BY <1>1, <1>2, CommandFacts DEF LocalInv, TypeOK
<1>4. launches[c] = 0
  BY <1>1, <1>3 DEF CallOK, ExecutionOK
<1>5. launches'[c] > 0 /\ \A r \in Runs \ {c} : launches'[r] = launches[r]
  BY <1>3, <1>4
<1>6. StartedInv'
  <2>1. ASSUME NEW r \in Runs, "outcome" \in runs'[r].artifacts PROVE launches'[r] > 0
    BY <1>1, <1>5, <2>1 DEF StartedInv
  <2>2. launches'[call'.run] > 0
    BY <1>3, <1>5
  <2> QED
    BY <2>1, <2>2 DEF StartedInv
<1>7. launches' = [launches EXCEPT ![c] = 1]
  BY <1>3, <1>4
<1>8. Pipeline!Start(c)
  BY <1>1, <1>4, <1>7 DEF Pipeline!Start
<1> QED
  BY <1>6, <1>8 DEF Pipeline!Next

\* What the ledger of a run has told, by the number of its records
LEMMA StatesKnown ==
    ASSUME NEW r \in Runs, LocalInv, NEW ledger, ledger = runs[r].ledger
    PROVE  /\ ledger = <<>> => States(ledger) = <<>>
           /\ Len(ledger) = 1 /\ ledger[1].state = "reviewing" => States(ledger) = <<"reviewing">>
           /\ Len(ledger) = 2 /\ ledger[2].state = "merge_review" =>
                 States(ledger) = <<"reviewing", "merge_review">>
           /\ Len(ledger) = 3 /\ ledger[3].state = "integrating" =>
                 States(ledger) = Pipeline!Approved
           /\ Len(ledger) = 4 => States(ledger) = Append(Pipeline!Approved, "completed")
<1>1. LedgerOK(ledger)
  BY DEF LocalInv, RunOK
<1>2. ASSUME Len(ledger) = 1, ledger[1].state = "reviewing" PROVE States(ledger) = <<"reviewing">>
  BY <1>2 DEF States
<1>3. ASSUME Len(ledger) = 2, ledger[2].state = "merge_review"
      PROVE  States(ledger) = <<"reviewing", "merge_review">>
  <2>1. ledger[1].state = "reviewing"
    BY <1>1, <1>3 DEF LedgerOK
  <2> QED
    BY <1>3, <2>1 DEF States
<1>4. ASSUME Len(ledger) = 3, ledger[3].state = "integrating"
      PROVE  States(ledger) = Pipeline!Approved
  <2>1. ledger[1].state = "reviewing" /\ ledger[2].state = "merge_review"
    BY <1>1, <1>4 DEF LedgerOK
  <2>2. States(ledger) = [i \in 1..3 |-> ledger[i].state]
    BY <1>4 DEF States
  <2>3. States(ledger) = <<"reviewing", "merge_review", "integrating">>
    BY <1>4, <2>1, <2>2
  <2> QED
    BY <2>3 DEF Pipeline!Approved
<1>5. ASSUME Len(ledger) = 4
      PROVE  States(ledger) = Append(Pipeline!Approved, "completed")
  <2>1. /\ ledger[1].state = "reviewing" /\ ledger[2].state = "merge_review"
        /\ ledger[3].state = "integrating" /\ ledger[4].state = "completed"
    BY <1>1, <1>5 DEF LedgerOK
  <2>2. States(ledger) = [i \in 1..4 |-> ledger[i].state]
    BY <1>5 DEF States
  <2>3. States(ledger) = <<"reviewing", "merge_review", "integrating", "completed">>
    BY <2>1, <2>2
  <2>4. States(ledger) = Append(<<"reviewing", "merge_review", "integrating">>, "completed")
    BY <2>3
  <2> QED
    BY <2>4 DEF Pipeline!Approved
<1>6. ledger = <<>> => States(ledger) = <<>>
  BY DEF States
<1> QED
  BY <1>2, <1>3, <1>4, <1>5, <1>6

\* A merge is made between the records of the approval and of the
\* integration, or it was made before.
LEMMA MergePipeline ==
    ASSUME LocalInv, StartedInv, GitMerge
    PROVE  StartedInv' /\ [Pipeline!Next]_Pipeline!vars
<1>1. /\ call # Idle /\ call.stage = "source_integration" /\ call.step = "merge"
      /\ UNCHANGED <<runs, launches>> /\ (Goto("register") \/ call' = Idle)
  BY DEF GitMerge, At, End
<1>2. PICK c \in Runs : c = call.run
  BY <1>1, CommandFacts
<1>3. /\ CallOK(call, runs[c], target, launches[c]) /\ RunOK(c, runs[c], target, launches[c])
      /\ \A step : Goto(step) => call'.step = step /\ call'.run = c
  BY <1>1, <1>2, CommandFacts DEF LocalInv
<1>4. call' = Idle \/ call'.step \notin Awaiting
  BY <1>1, <1>3 DEF Awaiting
<1>5. StartedInv'
  BY <1>1, <1>4 DEF StartedInv, Idle
<1>6. CASE target' = target
  BY <1>1, <1>4, <1>6, CallMoves
<1>7. CASE Len(target) = runs[c].base /\ target' = Append(target, c)
  <2>1. /\ Len(target) \in Nat /\ Len(target') = Len(target) + 1
        /\ target'[Len(target) + 1] = c
        /\ \A i \in 1..Len(target) : target'[i] = target[i]
    BY <1>7 DEF LocalInv, TypeOK
  <2>2. ASSUME NEW i \in 1..Len(target), target[i] = c PROVE FALSE
    <3>1. i = Len(target) + 1
      BY <1>3, <1>7, <2>2 DEF RunOK, CommitsOK
    <3> QED
      BY <2>1, <3>1
  <2>3. ~IsMerged(c, target)
    BY <2>2 DEF IsMerged
  <2>4. IsMerged(c, target') /\ \A r \in Runs : IsMerged(r, target) => IsMerged(r, target')
    BY <2>1 DEF IsMerged
  <2>5. ASSUME NEW r \in Runs \ {c}, NEW i \in 1..Len(target'), target'[i] = r
        PROVE  IsMerged(r, target)
    BY <2>1, <2>5 DEF IsMerged
  <2>6. \A r \in Runs \ {c} : IsMerged(r, target') => IsMerged(r, target)
    BY <2>5 DEF IsMerged
  <2>7. {r \in Runs : IsMerged(r, target')} = {r \in Runs : IsMerged(r, target)} \cup {c}
    BY <2>4, <2>6
  <2>8. c \notin {r \in Runs : IsMerged(r, target)}
    BY <2>3
  <2>9. States(runs[c].ledger) = Pipeline!Approved
    <3>1. Len(runs[c].ledger) = 3 /\ runs[c].ledger[3].state = "integrating"
      BY <1>1, <1>3 DEF CallOK, IntegrationOK
    <3> QED
      BY <3>1, StatesKnown
  <2>10. [r \in Runs |-> States(runs[r].ledger)][c] = Pipeline!Approved
    BY <2>9
  <2>11. Pipeline!Merge(c)
    BY <1>1, <2>7, <2>8, <2>10 DEF Pipeline!Merge, IsMerged, States
  <2> QED
    BY <1>5, <2>11 DEF Pipeline!Next
<1> QED
  BY <1>2, <1>6, <1>7 DEF GitMerge, run

\* cleanup removes the worktree of a run whose integration is recorded, or
\* finds it gone.
LEMMA RemovePipeline ==
    ASSUME LocalInv, StartedInv, RemoveWorkspace
    PROVE  StartedInv' /\ [Pipeline!Next]_Pipeline!vars
<1>1. /\ call # Idle /\ call.stage = "workspace_cleanup" /\ call.step = "remove"
      /\ UNCHANGED <<target, launches>> /\ Goto("record")
      /\ runs' = [runs EXCEPT ![call.run].workspace = "removed"]
  BY DEF RemoveWorkspace, At
<1>2. PICK c \in Runs : c = call.run
  BY <1>1, CommandFacts
<1> DEFINE new == [runs[c] EXCEPT !.workspace = "removed"]
<1>3. /\ CallOK(call, runs[c], target, launches[c]) /\ runs[c] \in Stores
      /\ runs \in [Runs -> Stores] /\ call'.step = "record"
  BY <1>1, <1>2, CommandFacts
<1>4. runs' = [runs EXCEPT ![c] = new]
  BY <1>1, <1>2, <1>3
<1>5. /\ new.ledger = runs[c].ledger /\ new.workspace = "removed"
      /\ new.artifacts = runs[c].artifacts
  BY <1>3 DEF Stores
<1> HIDE DEF new
<1>6. runs'[c] = new /\ \A r \in Runs \ {c} : runs'[r] = runs[r]
  BY <1>3, <1>4
<1>7. StartedInv'
  BY <1>1, <1>3, <1>5, <1>6 DEF StartedInv, Awaiting
<1>8. CASE runs[c].workspace = "removed"
  BY <1>1, <1>3, <1>4, <1>5, <1>8, StoresMove DEF Awaiting
<1>9. CASE runs[c].workspace # "removed"
  <2>1. Len(runs[c].ledger) = 4
    BY <1>1, <1>3 DEF CallOK, CleanupOK
  <2>2. States(runs[c].ledger) = Append(Pipeline!Approved, "completed")
    BY <2>1, StatesKnown
  <2>3. [r \in Runs |-> States(runs[r].ledger)][c] = Append(Pipeline!Approved, "completed")
    BY <2>2
  <2>4. \A r \in Runs : States(runs'[r].ledger) = States(runs[r].ledger)
    BY <1>5, <1>6
  <2>5. [r \in Runs |-> States(runs'[r].ledger)] = [r \in Runs |-> States(runs[r].ledger)]
    BY <2>4
  <2>6. {r \in Runs : runs'[r].workspace = "removed"}
            = {r \in Runs : runs[r].workspace = "removed"} \cup {c}
    BY <1>5, <1>6
  <2>7. c \notin {r \in Runs : runs[r].workspace = "removed"}
    BY <1>9
  <2>8. Pipeline!Remove(c)
    BY <1>1, <2>3, <2>5, <2>6, <2>7 DEF Pipeline!Remove, States
  <2> QED
    BY <1>7, <2>8 DEF Pipeline!Next
<1> QED
  BY <1>8, <1>9

\* The states of a ledger with one more record
LEMMA StatesGrow ==
    ASSUME NEW ledger \in Seq([stage: Stages, state: TaskStates]),
           NEW record \in [stage: Stages, state: TaskStates]
    PROVE  States(Append(ledger, record)) = Append(States(ledger), record.state)
<1> DEFINE n == Len(ledger)
           new == Append(ledger, record)
<1>1. n \in Nat /\ Len(new) = n + 1 /\ new[n + 1] = record /\ \A i \in 1..n : new[i] = ledger[i]
  OBVIOUS
<1>2. States(ledger) \in Seq({ledger[i].state : i \in 1..n}) /\ Len(States(ledger)) = n
  BY DEF States
<1> HIDE DEF new
<1>3. States(new) = [i \in 1..(n + 1) |-> IF i = n + 1 THEN record.state ELSE ledger[i].state]
  BY <1>1 DEF States
<1>4. Append(States(ledger), record.state)
          = [i \in 1..(n + 1) |-> IF i = n + 1 THEN record.state ELSE ledger[i].state]
  BY <1>2 DEF States
<1> QED
  BY <1>3, <1>4 DEF new

\* One more record of a run
LEMMA TellStep ==
    ASSUME LocalInv, StartedInv, NEW c \in Runs, NEW stage \in Stages, NEW state \in TaskStates,
           NEW results, States(runs[c].ledger) = results,
           runs' = [runs EXCEPT ![c].ledger = Append(@, [stage |-> stage, state |-> state])],
           UNCHANGED <<target, launches>>,
           call' = Idle \/ call'.step \notin Awaiting
    PROVE  StartedInv' /\ Pipeline!Tell(c, results, state)
<1> DEFINE record == [stage |-> stage, state |-> state]
           new == [runs[c] EXCEPT !.ledger = Append(runs[c].ledger, record)]
<1>1. /\ runs[c] \in Stores /\ runs \in [Runs -> Stores]
      /\ runs[c].ledger \in Seq([stage: Stages, state: TaskStates])
      /\ record \in [stage: Stages, state: TaskStates] /\ record.state = state
  BY DEF LocalInv, TypeOK, Stores
<1>2. runs' = [runs EXCEPT ![c] = new]
  BY <1>1
<1>3. /\ new.ledger = Append(runs[c].ledger, record) /\ new.workspace = runs[c].workspace
      /\ new.artifacts = runs[c].artifacts
  BY <1>1 DEF Stores
<1> HIDE DEF new, record
<1>4. runs'[c] = new /\ \A r \in Runs \ {c} : runs'[r] = runs[r]
  BY <1>1, <1>2
<1>5. StartedInv'
  BY <1>3, <1>4 DEF StartedInv, Idle
<1>6. States(runs'[c].ledger) = Append(results, state)
  BY <1>1, <1>3, <1>4, StatesGrow
<1>7. \A r \in Runs \ {c} : States(runs'[r].ledger) = States(runs[r].ledger)
  BY <1>4
<1>8. [r \in Runs |-> States(runs'[r].ledger)]
          = [[r \in Runs |-> States(runs[r].ledger)] EXCEPT ![c] = Append(results, state)]
  BY <1>6, <1>7
<1>9. [r \in Runs |-> States(runs[r].ledger)][c] = results
  OBVIOUS
<1>10. {r \in Runs : runs'[r].workspace = "removed"} = {r \in Runs : runs[r].workspace = "removed"}
  BY <1>3, <1>4
<1> QED
  BY <1>5, <1>8, <1>9, <1>10 DEF Pipeline!Tell, States

\* A stage tells its result: the next record of its run.
LEMMA RecordPipeline ==
    ASSUME LocalInv, StartedInv, AppendRecord
    PROVE  StartedInv' /\ [Pipeline!Next]_Pipeline!vars
<1>1. call # Idle /\ call.step = "record" /\ UNCHANGED <<target, launches>>
  BY DEF AppendRecord
<1>2. PICK c \in Runs : c = call.run
  BY <1>1, CommandFacts
<1>3. PICK stage, state : stage = call.stage /\ state = call.state
  OBVIOUS
<1>4. /\ CallOK(call, runs[c], target, launches[c]) /\ RunOK(c, runs[c], target, launches[c])
      /\ \A step : Goto(step) => call'.step = step
      /\ stage \in Stages \cup {"card"} /\ state \in TaskStates
  BY <1>1, <1>2, <1>3, CommandFacts, CallFacts, CallTyped DEF LocalInv
<1>5. CASE NextStage(runs[c].ledger) # stage
  BY <1>1, <1>2, <1>3, <1>5, CallMoves DEF AppendRecord, End, run
<1>6. CASE NextStage(runs[c].ledger) = stage
  <2>1. /\ runs' = [runs EXCEPT ![c].ledger = Append(@, [stage |-> stage, state |-> state])]
        /\ AfterRecord
    BY <1>2, <1>3, <1>6 DEF AppendRecord, run
  <2>2. call' = Idle \/ call'.step \notin Awaiting
    BY <1>4, <2>1 DEF AfterRecord, End, Awaiting
  <2>3. stage # "card"
    BY <1>1, <1>3, <1>4 DEF CallOK, CardOK
  <2>4. ASSUME NEW results, States(runs[c].ledger) = results
        PROVE  StartedInv' /\ Pipeline!Tell(c, results, state)
    BY <1>1, <1>4, <2>1, <2>2, <2>3, <2>4, TellStep
  <2>5. CASE stage = "execution"
    <3>1. runs[c].ledger = <<>> /\ state \in Outcomes /\ "outcome" \in runs[c].artifacts
      BY <1>1, <1>3, <1>4, <2>5 DEF CallOK, ExecutionOK
    <3>2. StartedInv' /\ Pipeline!Tell(c, <<>>, state)
      BY <2>4, <3>1, StatesKnown
    <3>3. launches[c] > 0
      BY <3>1 DEF StartedInv
    <3>4. Pipeline!RecordExecution(c)
      BY <3>1, <3>2, <3>3 DEF Pipeline!RecordExecution, Outcomes
    <3> QED
      BY <3>2, <3>4 DEF Pipeline!Next
  <2>6. CASE stage = "implementation_review"
    <3>1. /\ Len(runs[c].ledger) = 1 /\ runs[c].ledger[1].state = "reviewing"
          /\ state \in {"repairing", "merge_review"}
      BY <1>1, <1>3, <1>4, <2>6 DEF CallOK, ReviewOK
    <3>2. StartedInv' /\ Pipeline!Tell(c, <<"reviewing">>, state)
      BY <2>4, <3>1, StatesKnown
    <3>3. Pipeline!RecordReview(c)
      BY <3>1, <3>2 DEF Pipeline!RecordReview
    <3> QED
      BY <3>2, <3>3 DEF Pipeline!Next
  <2>7. CASE stage = "decision_application"
    <3>1. /\ Len(runs[c].ledger) = 2 /\ runs[c].ledger[2].state = "merge_review"
          /\ state \in Decisions
      BY <1>1, <1>3, <1>4, <2>7 DEF CallOK, DecisionOK, CardExpected
    <3>2. StartedInv' /\ Pipeline!Tell(c, <<"reviewing", "merge_review">>, state)
      BY <2>4, <3>1, StatesKnown
    <3>3. Pipeline!RecordDecision(c)
      BY <3>1, <3>2 DEF Pipeline!RecordDecision, Decisions
    <3> QED
      BY <3>2, <3>3 DEF Pipeline!Next
  <2>8. CASE stage = "source_integration"
    <3>1. /\ Len(runs[c].ledger) = 3 /\ runs[c].ledger[3].state = "integrating"
          /\ state = "completed" /\ State(runs[c]) = "completed"
      BY <1>1, <1>3, <1>4, <2>8 DEF CallOK, IntegrationOK
    <3>2. StartedInv' /\ Pipeline!Tell(c, Pipeline!Approved, state)
      BY <2>4, <3>1, StatesKnown
    <3>3. IsMerged(c, target)
      BY <1>4, <3>1 DEF RunOK, CommitsOK
    <3>4. Pipeline!RecordIntegration(c)
      BY <3>1, <3>2, <3>3 DEF Pipeline!RecordIntegration, IsMerged
    <3> QED
      BY <3>2, <3>4 DEF Pipeline!Next
  <2>9. CASE stage = "workspace_cleanup"
    <3>1. /\ Len(runs[c].ledger) = 4 /\ state = "completed" /\ runs[c].workspace = "removed"
      BY <1>1, <1>3, <1>4, <2>9 DEF CallOK, CleanupOK
    <3>2. StartedInv' /\ Pipeline!Tell(c, Append(Pipeline!Approved, "completed"), state)
      BY <2>4, <3>1, StatesKnown
    <3>3. Pipeline!RecordCleanup(c)
      BY <3>1, <3>2 DEF Pipeline!RecordCleanup
    <3> QED
      BY <3>2, <3>3 DEF Pipeline!Next
  <2> QED
    BY <1>4, <2>3, <2>5, <2>6, <2>7, <2>8, <2>9, StageNames
<1> QED
  BY <1>5, <1>6

\* Every step keeps the invariant, and is a step of the pipeline or none.
LEMMA NextPipeline ==
    ASSUME LocalInv, StartedInv, [Next]_vars
    PROVE  StartedInv' /\ [Pipeline!Next]_Pipeline!vars
<1>1. CASE UNCHANGED vars
  <2>1. UNCHANGED <<runs, target, launches, call>>
    BY <1>1 DEF vars
  <2>2. StartedInv'
    BY <2>1 DEF StartedInv
  <2> QED
    BY <2>1, <2>2, Unseen DEF IsMerged
<1>2. CASE TargetAdvances
  BY <1>2, AdvancePipeline
<1>3. CASE WriteCardFails
  BY <1>3, CardPipeline
<1>4. CASE Crash
  BY <1>4, BeginPipeline
<1>5. ASSUME NEW r \in Runs,
             \/ BeginExecute(r)
             \/ \E verdict \in {"repairing", "merge_review"} : BeginReview(r, verdict)
             \/ \E decision \in {"integrating", "repairing", "cancelled"} : BeginDecision(r, decision)
             \/ BeginIntegrate(r) \/ BeginCleanup(r) \/ BeginRecover(r)
      PROVE  StartedInv' /\ [Pipeline!Next]_Pipeline!vars
  <2>1. CASE BeginExecute(r)
    BY <2>1, ExecutePipeline
  <2> QED
    BY <1>5, <2>1, BeginPipeline
<1>6. CASE CommandStep
  <2>1. CASE \/ Plan \/ Authorize \/ LifecycleError \/ Collect \/ Verify \/ CompleteRun
             \/ ApplyDecision \/ \E actor \in {"agent", "human"} : ApplyReview(actor)
    BY <2>1, TransitionPipeline
  <2>2. CASE \/ RegisterIntent \/ RegisterDecision \/ RegisterIntegration \/ RegisterOutcome
             \/ CreateWorkspace \/ GitCommit
    BY <2>2, EvidencePipeline
  <2>3. CASE CreateCard \/ WriteCard
    BY <2>3, CardPipeline
  <2>4. CASE AttestIntegration \/ Confirm
    BY <2>4, BeginPipeline
  <2>5. CASE Launch
    BY <2>5, LaunchPipeline
  <2>6. CASE GitMerge
    BY <2>6, MergePipeline
  <2>7. CASE RemoveWorkspace
    BY <2>7, RemovePipeline
  <2>8. CASE AppendRecord
    BY <2>8, RecordPipeline
  <2> QED
    BY <1>6, <2>1, <2>2, <2>3, <2>4, <2>5, <2>6, <2>7, <2>8 DEF CommandStep
<1> QED
  BY <1>1, <1>2, <1>3, <1>4, <1>5, <1>6 DEF Next

\* Nothing is told, started, merged or removed at first.
LEMMA InitPipeline == Init => StartedInv /\ Pipeline!Init
<1> SUFFICES ASSUME Init PROVE StartedInv /\ Pipeline!Init
  OBVIOUS
<1>1. /\ \A r \in Runs : /\ runs[r].ledger = <<>> /\ runs[r].workspace = "none"
                         /\ runs[r].artifacts = {} /\ launches[r] = 0
      /\ target = <<>> /\ call = Idle
  BY DEF Init, NoRun
<1>2. StartedInv
  BY <1>1 DEF StartedInv
<1>3. \A r \in Runs : States(runs[r].ledger) = <<>>
  BY <1>1 DEF States
<1>4. /\ launches = [r \in Runs |-> 0]
      /\ {r \in Runs : \E i \in 1..Len(target) : target[i] = r} = {}
      /\ {r \in Runs : runs[r].workspace = "removed"} = {}
  BY <1>1 DEF Init
<1>5. [r \in Runs |-> States(runs[r].ledger)] = [r \in Runs |-> <<>>]
  BY <1>3
<1> QED
  BY <1>2, <1>4, <1>5 DEF Pipeline!Init, States

\* Whoever is interrupted, and whatever recovery supplies, every run
\* directory goes through the stages of the pipeline, one record each, with
\* one agent, and Git changes in its place between them.
THEOREM LocalRunIsPipeline == Spec => ImplementsPipeline
<1>1. Init => StartedInv /\ Pipeline!Init
  BY InitPipeline
<1>2. LocalInv /\ StartedInv /\ [Next]_vars => StartedInv' /\ [Pipeline!Next]_Pipeline!vars
  BY NextPipeline
<1> QED
  BY <1>1, <1>2, LocalInvHolds, PTL DEF Spec, ImplementsPipeline, Pipeline!Spec
=============================================================================
