--------------------------- MODULE TaskManagerRuns ---------------------------
(***************************************************************************)
(* One TaskManager run: the commands of TaskManagerExecutionService that   *)
(* append its revisions, the serial coordinator that issues them one per   *)
(* tick under a lease, the durable Codex workers, the validation runner    *)
(* and the checkpoint integrator behind them, and the run's workspace and  *)
(* branch that they share.                                                 *)
(*                                                                         *)
(* One server is up at a time, started for one principal.  Its command     *)
(* lock admits one command; a command that waits for a process, or that    *)
(* makes files durable before it appends, takes several steps, and a       *)
(* server may stop between any two.  Workers and Codex go on without it.   *)
(***************************************************************************)
EXTENDS RunNodes, DurableCodex

CONSTANTS
    Tickers,         \* threads of the server that tick the coordinator
    Direct,          \* who issues a command that is not part of a tick
    NoCommand,
    Free,            \* no one holds the run's lease
    MaxAttempts,     \* bound: attempts of a node
    MaxWaiting,      \* bound: spawned workers that did not try the lock yet
    MaxRevision,     \* bound: progress reports and conversations stop there
    MaxInteractions, \* bound: human feedback and assistance requests
    Crashes,         \* bound: stops of a server
    WorkerDeaths     \* bound: workers killed

ASSUME TaskManagerRunsAssumption ==
    /\ Direct \notin Tickers /\ Free \notin Tickers
    /\ {MaxAttempts, MaxWaiting, MaxRevision, MaxInteractions, Crashes, WorkerDeaths} \subseteq Nat

VARIABLES
    run,          \* the latest run revision: its number and its nodes
    interactions, \* human interactions recorded in it
    providers,    \* start key -> the files and processes of its Codex worker
    validations,  \* validation node -> the durable request and terminal
    tree,         \* changes in the run workspace that are not committed
    branch,       \* the commits of the run branch since the run's base
    results,      \* node -> the commit its durable result.json names, or 0
    cursor,       \* the latest cursor revision of the coordinator
    lease,        \* the ticker that holds the run's worker lease
    ticks,        \* ticker -> what its tick has read and does next
    server,       \* the principal of the running server
    command,      \* the command inside the command lock
    crashes, deaths

durable == <<run, interactions, validations, tree, branch, results>>
vars == <<durable, providers, cursor, lease, ticks, server, command, crashes, deaths>>

Tasks == {n \in Nodes : KindOf[n] = "task"}
Validations == {n \in Nodes : KindOf[n] = "validation"}

\* _provider_start_key: a run, a node and an attempt
Keys == Tasks \X (1..MaxAttempts)
Key(n) == <<n, run.nodes[n].attempt>>

Idle == [step |-> "idle", rev |-> 0, decision |-> Decision("attention", NoNode), fresh |-> FALSE]
NoCursor == [run |-> 0, decision |-> Decision("attention", NoNode), pending |-> FALSE]
NoValidation == [asked |-> FALSE, base |-> 0, terminal |-> "none"]

Decisions ==
    [action: SideEffects \cup {"complete", "attention", "wait_human", "wait_review"},
     node: Nodes \cup {NoNode}]
Commands ==
    [op: {"start", "validate", "observe", "integrate", "assist"}, node: Nodes,
     by: Tickers \cup {Direct},
     step: {"spawn", "await", "check", "report", "bind", "judge",
            "commit", "publish", "complete", "answer"}]

\* TaskManagerRunRevisionRecord; its stage is derived from the nodes
RunRevision == [rev: Nat \ {0}, nodes: [Nodes -> NodeRecord]]

\* TaskManagerCoordinatorRevisionRecord: a pending intent is a side effect
\* on the node that the cursor names, at the run revision it records.
CursorRevision ==
    {c \in [run: Nat, decision: Decisions, pending: BOOLEAN] :
        c.pending => /\ c.decision.action \in SideEffects
                     /\ c.decision.node \in Nodes /\ c.run > 0}

TypeOK ==
    /\ run \in RunRevision
    /\ interactions \in 0..MaxInteractions
    /\ providers \in [Keys -> Provider]
    /\ validations \in [Validations -> [asked: BOOLEAN, base: Nat,
                                        terminal: {"none", "passed", "failed"}]]
    /\ tree \subseteq Writes
    /\ branch \in Seq([node: Nodes, content: SUBSET Writes])
    /\ results \in [Nodes -> Nat]
    /\ cursor \in CursorRevision
    /\ lease \in Tickers \cup {Free}
    /\ ticks \in [Tickers -> [step: {"idle", "cursor", "intent", "execute", "project"},
                              rev: Nat, decision: Decisions, fresh: BOOLEAN]]
    /\ server \in Actors \cup {NoActor}
    /\ command \in Commands \cup {NoCommand}
    /\ crashes \in 0..Crashes /\ deaths \in 0..WorkerDeaths

\* The state that assemble leaves: revision 1, before any server command.
Init ==
    /\ run = [rev |-> 1, nodes |-> [n \in Nodes |-> NewNode(n)]]
    /\ interactions = 0
    /\ providers = [k \in Keys |-> NewProvider]
    /\ validations = [n \in Validations |-> NoValidation]
    /\ tree = {} /\ branch = <<>> /\ results = [n \in Nodes |-> 0]
    /\ cursor = NoCursor /\ lease = Free /\ ticks = [t \in Tickers |-> Idle]
    /\ server = NoActor /\ command = NoCommand
    /\ crashes = 0 /\ deaths = 0

-----------------------------------------------------------------------------
(* Commands: who may enter the lock, and how one leaves it *)

\* The lock is free and the expected revision is the latest.  A direct command
\* names the latest revision, or raises with no effect; a tick the one it read.
Enters(by, op, n) ==
    /\ server # NoActor /\ command = NoCommand
    /\ by # Direct => /\ ticks[by].step = "execute"
                      /\ ticks[by].decision = Decision(op, n)
                      /\ ticks[by].rev = run.rev

\* the next step is left as it was read before the command
AnsweredAsRead(by, rev, nodes) ==
    IF by = Direct THEN ticks
    ELSE [ticks EXCEPT ![by] = [@ EXCEPT !.step = "project", !.rev = rev]]

Answered(by, rev, nodes) ==
    IF by = Direct THEN ticks
    ELSE [ticks EXCEPT ![by] = [@ EXCEPT !.step = "project", !.rev = rev, !.decision = Decide(nodes)]]

\* The last act of a tick: it releases its lease, unless that expired and is
\* free or another tick's.
EndTick(t) ==
    /\ ticks' = [ticks EXCEPT ![t] = Idle]
    /\ lease' = IF lease = t THEN Free ELSE lease

\* store.append of the next revision, with one node changed
Append1(n, node) == run' = [rev |-> run.rev + 1, nodes |-> [run.nodes EXCEPT ![n] = node]]

\* A command returns the revision it appended, returns the latest one
\* unchanged, or raises.
Returns(by) == command' = NoCommand /\ ticks' = Answered(by, run'.rev, run'.nodes)
ReturnsLatest(by) ==
    command' = NoCommand /\ ticks' = Answered(by, run.rev, run.nodes) /\ UNCHANGED run
Raises(by) ==
    /\ command' = NoCommand /\ UNCHANGED run
    /\ IF by = Direct THEN UNCHANGED <<ticks, lease>> ELSE EndTick(by)

Continues(op, n, by, step) == command' = [op |-> op, node |-> n, by |-> by, step |-> step]

Processing(op, step) == server # NoActor /\ command # NoCommand /\ command.op = op /\ command.step = step

Report(n) ==
    IF run.nodes[n].evidence = NoEvidence THEN "none"
    ELSE IF run.nodes[n].evidence.passes THEN "passing" ELSE "failing"

\* The record of n after a transition of the kernel made by actor.
Moved(n, to, actor) == [run.nodes[n] EXCEPT !.state = to, !.last = actor]

Kernel(n, to, actor, report, integration, evidence) ==
    CanTransition(run.nodes[n].state, to, actor, report, integration, evidence)

-----------------------------------------------------------------------------
(* Human decisions: one revision each *)

\* confirm_scope_gate
ConfirmScopeGate(n) ==
    /\ Enters(Direct, "gate", n)
    /\ KindOf[n] = "human_gate" /\ DepsOf[n] = {} /\ run.nodes[n].state = "plan_review"
    /\ Kernel(n, "gate_approved", "human", "none", "none", TRUE)
    /\ Append1(n, [Moved(n, "gate_approved", server) EXCEPT !.approver = server])
    /\ Returns(Direct)
    /\ UNCHANGED <<interactions, providers, validations, tree, branch, results,
                   cursor, lease, server, crashes, deaths>>

\* What a direct dependency must show before the final gate.
AcceptedOnEvidence(node) ==
    /\ node.evidence # NoEvidence /\ node.evidence.passes
    /\ node.state \in {"deliverable_accepted", "completed"}

\* approve_completion_gate: independence compares with the actor of each
\* dependency's last transition.
ApproveCompletionGate(n) ==
    /\ Enters(Direct, "gate", n)
    /\ KindOf[n] = "human_gate" /\ DepsOf[n] # {} /\ run.nodes[n].state = "plan_review"
    /\ \A m \in Nodes \ {n} : n \notin DepsOf[m] /\ Satisfied(run.nodes, m)
    /\ \A d \in DepsOf[n] : /\ AcceptedOnEvidence(run.nodes[d])
                            /\ run.nodes[d].last # server
    /\ Kernel(n, "gate_approved", "human", "none", "none", TRUE)
    /\ Append1(n, [Moved(n, "gate_approved", server) EXCEPT !.approver = server])
    /\ Returns(Direct)
    /\ UNCHANGED <<interactions, providers, validations, tree, branch, results,
                   cursor, lease, server, crashes, deaths>>

\* changed work accepted as if it had changed nothing
AcceptAnyReview(n) ==
    /\ Enters(Direct, "accept", n)
    /\ KindOf[n] # "human_gate" /\ run.nodes[n].state = "reviewing"
    /\ run.nodes[n].evidence.passes
    /\ Kernel(n, "deliverable_accepted", "human", Report(n), "none", TRUE)
    /\ Append1(n, [Moved(n, "deliverable_accepted", server) EXCEPT !.reviewer = server])
    /\ Returns(Direct)
    /\ UNCHANGED <<interactions, providers, validations, tree, branch, results,
                   cursor, lease, server, crashes, deaths>>

\* accept_node_review: verified work that changed nothing
AcceptNodeReview(n) ==
    /\ Enters(Direct, "accept", n)
    /\ KindOf[n] # "human_gate" /\ run.nodes[n].state = "reviewing"
    /\ run.nodes[n].evidence.passes /\ run.nodes[n].evidence.patch = {}
    /\ Kernel(n, "deliverable_accepted", "human", Report(n), "none", TRUE)
    /\ Append1(n, [Moved(n, "deliverable_accepted", server) EXCEPT !.reviewer = server])
    /\ Returns(Direct)
    /\ UNCHANGED <<interactions, providers, validations, tree, branch, results,
                   cursor, lease, server, crashes, deaths>>

\* review_source_node
ReviewSourceNode(n) ==
    /\ Enters(Direct, "review", n)
    /\ KindOf[n] = "task" /\ run.nodes[n].state = "reviewing"
    /\ run.nodes[n].evidence.passes /\ run.nodes[n].evidence.patch # {}
    /\ run.nodes[n].reviewer = NoActor
    /\ Kernel(n, "merge_review", "human", Report(n), "none", TRUE)
    /\ Append1(n, [Moved(n, "merge_review", server) EXCEPT !.reviewer = server])
    /\ Returns(Direct)
    /\ UNCHANGED <<interactions, providers, validations, tree, branch, results,
                   cursor, lease, server, crashes, deaths>>

\* approve_source_checkpoint, independent of the reviewer
ApproveSourceCheckpoint(n) ==
    /\ Enters(Direct, "approve", n)
    /\ run.nodes[n].state = "merge_review" /\ run.nodes[n].reviewer # server
    /\ Kernel(n, "integrating", "human", Report(n), "none", TRUE)
    /\ Append1(n, [Moved(n, "integrating", server) EXCEPT !.approver = server])
    /\ Returns(Direct)
    /\ UNCHANGED <<interactions, providers, validations, tree, branch, results,
                   cursor, lease, server, crashes, deaths>>

Converses(n) == interactions < MaxInteractions /\ run.rev < MaxRevision /\ interactions' = interactions + 1

\* record_human_feedback: a revision that changes no node's state
RecordHumanFeedback(n) ==
    /\ Enters(Direct, "feedback", n) /\ Converses(n)
    /\ Append1(n, run.nodes[n]) /\ Returns(Direct)
    /\ UNCHANGED <<providers, validations, tree, branch, results,
                   cursor, lease, server, crashes, deaths>>

\* request_human_action_assistance: the request is durable before the
\* assistant is asked, its answer or failure is a second revision
RequestAssistance(n) ==
    /\ Enters(Direct, "assist", n) /\ Converses(n)
    /\ Append1(n, run.nodes[n]) /\ Continues("assist", n, Direct, "answer")
    /\ UNCHANGED <<providers, validations, tree, branch, results,
                   cursor, lease, ticks, server, crashes, deaths>>

AssistanceAnswered ==
    /\ Processing("assist", "answer")
    /\ Append1(command.node, run.nodes[command.node]) /\ Returns(Direct)
    /\ UNCHANGED <<interactions, providers, validations, tree, branch, results,
                   cursor, lease, server, crashes, deaths>>

-----------------------------------------------------------------------------
(* start_node: authorize, start or locate the provider, bind its reference *)

\* The record of a node that is given a new attempt.
Authorized1(n) ==
    [Moved(n, "implementing", server) EXCEPT
        !.attempt = @ + 1, !.bound = FALSE, !.seen = "none", !.evidence = NoEvidence]

\* A first attempt, or the retry of a failed one.  retry is never the coordinator's.
StartNode(by, n, retry) ==
    /\ Enters(by, "start", n)
    /\ retry => by = Direct
    /\ KindOf[n] = "task" /\ run.nodes[n].attempt < MaxAttempts
    /\ run.nodes[n].state \in (IF retry THEN {"failed", "blocked"} ELSE {"planned"})
    /\ DependenciesSatisfied(run.nodes, n)
    /\ Kernel(n, "implementing", "human", "none", "none", TRUE)
    /\ Append1(n, Authorized1(n)) /\ Continues("start", n, by, "spawn")
    /\ UNCHANGED <<interactions, providers, validations, tree, branch, results,
                   cursor, lease, ticks, server, crashes, deaths>>

\* The authorization is durable but no reference is: the start is recovered.
RecoverStart(by, n) ==
    /\ Enters(by, "start", n)
    /\ KindOf[n] = "task" /\ run.nodes[n].state = "implementing" /\ ~run.nodes[n].bound
    /\ Continues("start", n, by, "spawn")
    /\ UNCHANGED <<durable, providers, cursor, lease, ticks, server, crashes, deaths>>

\* start_or_locate until a worker is spawned, unless the key is claimed.
StartOrLocate ==
    /\ Processing("start", "spawn")
    /\ LET k == Key(command.node) IN
       /\ NeedsWorker(providers[k]) => providers[k].waiting < MaxWaiting
       /\ providers' = [providers EXCEPT ![k] = Locate(@)]
    /\ Continues("start", command.node, command.by, "await")
    /\ UNCHANGED <<durable, cursor, lease, ticks, server, crashes, deaths>>

\* The claim, or a terminal result, is there: the reference is bound.
ProviderBound ==
    /\ Processing("start", "await")
    /\ ~NeedsWorker(providers[Key(command.node)])
    /\ Append1(command.node, [run.nodes[command.node] EXCEPT !.bound = TRUE])
    /\ Returns(command.by)
    /\ UNCHANGED <<interactions, providers, validations, tree, branch, results,
                   cursor, lease, server, crashes, deaths>>

\* The worker did not claim the launch in time, or exited.
StartRaises ==
    /\ Processing("start", "await")
    /\ NeedsWorker(providers[Key(command.node)])
    /\ Raises(command.by)
    /\ UNCHANGED <<interactions, providers, validations, tree, branch, results,
                   cursor, server, crashes, deaths>>

-----------------------------------------------------------------------------
(* run_validation_node: authorize, run the checks, bind *)

AuthorizeValidation(by, n) ==
    /\ Enters(by, "validate", n)
    /\ KindOf[n] = "validation" /\ run.nodes[n].state = "planned"
    /\ DependenciesSatisfied(run.nodes, n)
    /\ Kernel(n, "implementing", "human", "none", "none", TRUE)
    /\ Append1(n, Authorized1(n)) /\ Continues("validate", n, by, "check")
    /\ UNCHANGED <<interactions, providers, validations, tree, branch, results,
                   cursor, lease, ticks, server, crashes, deaths>>

RecoverValidation(by, n) ==
    /\ Enters(by, "validate", n)
    /\ KindOf[n] = "validation" /\ run.nodes[n].state = "implementing" /\ ~run.nodes[n].bound
    /\ Continues("validate", n, by, "check")
    /\ UNCHANGED <<durable, providers, cursor, lease, ticks, server, crashes, deaths>>

\* The workspace is clean, and a request already made for this key was made
\* at the same commit: request.json must have the same bytes.
CanValidate(n) ==
    /\ tree = {}
    /\ validations[n].asked => validations[n].base = Len(branch)

RequestChecks ==
    /\ Processing("validate", "check")
    /\ LET n == command.node IN
       /\ CanValidate(n)
       /\ validations' = [validations EXCEPT ![n].asked = TRUE, ![n].base = Len(branch)]
       /\ Continues("validate", n, command.by,
                    IF validations[n].terminal = "none" THEN "report" ELSE "bind")
    /\ UNCHANGED <<run, interactions, providers, tree, branch, results,
                   cursor, lease, ticks, server, crashes, deaths>>

ValidationRaises ==
    /\ Processing("validate", "check") /\ ~CanValidate(command.node)
    /\ Raises(command.by)
    /\ UNCHANGED <<interactions, providers, validations, tree, branch, results,
                   cursor, server, crashes, deaths>>

ChecksRun(result) ==
    /\ Processing("validate", "report")
    /\ validations' = [validations EXCEPT ![command.node].terminal = result]
    /\ Continues("validate", command.node, command.by, "bind")
    /\ UNCHANGED <<run, interactions, providers, tree, branch, results,
                   cursor, lease, ticks, server, crashes, deaths>>

ValidationBound ==
    /\ Processing("validate", "bind")
    /\ Append1(command.node, [run.nodes[command.node] EXCEPT !.bound = TRUE])
    /\ Returns(command.by)
    /\ UNCHANGED <<interactions, providers, validations, tree, branch, results,
                   cursor, lease, server, crashes, deaths>>

-----------------------------------------------------------------------------
(* observe_node: the terminal result first, then the claim and its process *)

Observable(n) == run.nodes[n].state = "implementing" /\ run.nodes[n].bound

Outcome(n) ==
    IF KindOf[n] = "validation" THEN "succeeded" ELSE providers[Key(n)].terminal

\* the status of the provider taken for a workflow state
EndedAsReported(n, seen) == [Moved(n, seen, NoActor) EXCEPT !.seen = seen]

\* An ended attempt moves the node; the system is the actor.
Ended(n, seen) ==
    [Moved(n, IF seen = "succeeded" THEN "verifying" ELSE "failed", NoActor) EXCEPT !.seen = seen]

ObserveTerminal(by, n) ==
    /\ Enters(by, "observe", n) /\ Observable(n) /\ Outcome(n) # "none"
    /\ Append1(n, Ended(n, Outcome(n))) /\ Returns(by)
    /\ UNCHANGED <<interactions, providers, validations, tree, branch, results,
                   cursor, lease, server, crashes, deaths>>

ObserveNoTerminal(by, n) ==
    /\ Enters(by, "observe", n) /\ Observable(n) /\ Outcome(n) = "none"
    /\ Continues("observe", n, by, "judge")
    /\ UNCHANGED <<durable, providers, cursor, lease, ticks, server, crashes, deaths>>

\* The process of the claim answers: the attempt is running.  New evidence is
\* appended, the evidence last appended is not appended again.
ObserveRunning ==
    /\ Processing("observe", "judge")
    /\ LET n == command.node IN
       /\ TRUE \in PidAnswers(providers[Key(n)])
       /\ \/ /\ run.nodes[n].seen = "none" \/ run.rev < MaxRevision
             /\ Append1(n, [run.nodes[n] EXCEPT !.seen = "running"]) /\ Returns(command.by)
          \/ run.nodes[n].seen = "running" /\ ReturnsLatest(command.by)
    /\ UNCHANGED <<interactions, providers, validations, tree, branch, results,
                   cursor, lease, server, crashes, deaths>>

\* It does not: the worker disappeared, the attempt failed.
ObserveLost ==
    /\ Processing("observe", "judge")
    /\ FALSE \in PidAnswers(providers[Key(command.node)])
    /\ Append1(command.node, Ended(command.node, "lost")) /\ Returns(command.by)
    /\ UNCHANGED <<interactions, providers, validations, tree, branch, results,
                   cursor, lease, server, crashes, deaths>>

-----------------------------------------------------------------------------
(* verify_node *)

Verifiable(n) == run.nodes[n].state = "verifying" /\ run.nodes[n].seen = "succeeded"

Verified(n, evidence) ==
    [Moved(n, IF evidence.passes THEN "reviewing" ELSE "repairing", NoActor)
        EXCEPT !.evidence = evidence]

\* The patch of the workspace against HEAD; changed paths may violate the policy.
VerifyTask(by, n, passes) ==
    /\ Enters(by, "verify", n) /\ Verifiable(n) /\ KindOf[n] = "task"
    /\ tree = {} => passes
    /\ Append1(n, Verified(n, [base |-> Len(branch), patch |-> tree, passes |-> passes]))
    /\ Returns(by)
    /\ UNCHANGED <<interactions, providers, validations, tree, branch, results,
                   cursor, lease, server, crashes, deaths>>

\* The workspace is as the checks found it.
Undisturbed(n) == tree = {} /\ validations[n].base = Len(branch)

VerifyValidation(by, n) ==
    /\ Enters(by, "verify", n) /\ Verifiable(n) /\ KindOf[n] = "validation"
    /\ Undisturbed(n)
    /\ Append1(n, Verified(n, [base |-> Len(branch), patch |-> {},
                               passes |-> validations[n].terminal = "passed"]))
    /\ Returns(by)
    /\ UNCHANGED <<interactions, providers, validations, tree, branch, results,
                   cursor, lease, server, crashes, deaths>>

VerifyRaises(by, n) ==
    /\ Enters(by, "verify", n) /\ Verifiable(n) /\ KindOf[n] = "validation"
    /\ ~Undisturbed(n)
    /\ Raises(by)
    /\ UNCHANGED <<interactions, providers, validations, tree, branch, results,
                   cursor, server, crashes, deaths>>

-----------------------------------------------------------------------------
(* integrate_source_checkpoint: compare, commit, publish, append *)

\* What the workspace differs in from a commit of the branch.
PatchSince(base) == tree \cup UNION {branch[i].content : i \in (base + 1)..Len(branch)}

PathsOf(patch) == {w.path : w \in patch}

\* The workspace still holds the reviewed patch, on its base or in one
\* commit on top of it.
PatchMatches(n) ==
    LET evidence == run.nodes[n].evidence IN
    /\ PatchSince(evidence.base) = evidence.patch
    /\ \/ Len(branch) = evidence.base
       \/ Len(branch) = evidence.base + 1 /\ tree = {}

\* _attest: HEAD is the commit of the result and nothing is changed on it.
Attested(n) == results[n] = Len(branch) /\ tree = {}

Integrating(by, n) == Enters(by, "integrate", n) /\ run.nodes[n].state = "integrating"

\* the branch already has the commit, and it is made again
IntegrateAgain(by, n) ==
    /\ Integrating(by, n) /\ results[n] = 0 /\ PatchMatches(n)
    /\ Continues("integrate", n, by, "commit")
    /\ UNCHANGED <<durable, providers, cursor, lease, ticks, server, crashes, deaths>>

IntegrateCheckpoint(by, n) ==
    /\ Integrating(by, n) /\ results[n] = 0 /\ PatchMatches(n)
    /\ Continues("integrate", n, by,
                 IF Len(branch) = run.nodes[n].evidence.base THEN "commit" ELSE "publish")
    /\ UNCHANGED <<durable, providers, cursor, lease, ticks, server, crashes, deaths>>

\* result.json is there: an earlier call got that far.
RecoverIntegration(by, n) ==
    /\ Integrating(by, n) /\ results[n] # 0 /\ Attested(n)
    /\ Continues("integrate", n, by, "complete")
    /\ UNCHANGED <<durable, providers, cursor, lease, ticks, server, crashes, deaths>>

IntegrateRaises(by, n) ==
    /\ Integrating(by, n)
    /\ ~(IF results[n] = 0 THEN PatchMatches(n) ELSE Attested(n))
    /\ Raises(by)
    /\ UNCHANGED <<interactions, providers, validations, tree, branch, results,
                   cursor, server, crashes, deaths>>

\* _commit: git add of the reviewed paths, as they are now, and git commit
Commit ==
    /\ Processing("integrate", "commit")
    /\ LET n == command.node
           staged == {w \in tree : w.path \in PathsOf(run.nodes[n].evidence.patch)}
       IN  /\ branch' = Append(branch, [node |-> n, content |-> staged])
           /\ tree' = tree \ staged
           /\ Continues("integrate", n, command.by, "publish")
    /\ UNCHANGED <<run, interactions, providers, validations, results,
                   cursor, lease, ticks, server, crashes, deaths>>

\* result.json, then the attestation
PublishResult ==
    /\ Processing("integrate", "publish")
    /\ results' = [results EXCEPT ![command.node] = Len(branch)]
    /\ IF tree = {}
       THEN Continues("integrate", command.node, command.by, "complete") /\ UNCHANGED <<run, ticks, lease>>
       ELSE Raises(command.by)
    /\ UNCHANGED <<interactions, providers, validations, tree, branch,
                   cursor, server, crashes, deaths>>

Completes ==
    /\ Processing("integrate", "complete")
    /\ LET n == command.node IN
       /\ Kernel(n, "completed", "human", Report(n), "matching", TRUE)
       /\ Append1(n, Moved(n, "completed", server)) /\ Returns(command.by)
    /\ UNCHANGED <<interactions, providers, validations, tree, branch, results,
                   cursor, lease, server, crashes, deaths>>

-----------------------------------------------------------------------------
(* Workers and Codex: processes of their own *)

Process(k, enabled, provider) ==
    /\ enabled
    /\ providers' = [providers EXCEPT ![k] = provider]
    /\ UNCHANGED <<durable, cursor, lease, ticks, server, command, crashes>>

WorkerClaims(k) == Process(k, providers[k].waiting > 0, Claim(providers[k])) /\ UNCHANGED deaths

WorkerPublishesClaim(k) ==
    Process(k, Working(providers[k]) /\ providers[k].claim = "lock", PublishClaim(providers[k]))
    /\ UNCHANGED deaths

CodexLaunches(k) == Process(k, CanLaunch(providers[k]), Launch(providers[k])) /\ UNCHANGED deaths

LaunchRefused(k) == Process(k, CanLaunch(providers[k]), LaunchFails(providers[k])) /\ UNCHANGED deaths

\* Codex changes a path of the run workspace.
CodexWrites(k, path) ==
    LET write == [node |-> k[1], attempt |-> k[2], path |-> path] IN
    /\ providers[k].codex = "running"
    /\ write \notin PatchSince(0)
    /\ tree' = tree \cup {write}
    /\ UNCHANGED <<run, interactions, validations, branch, results, providers,
                   cursor, lease, ticks, server, command, crashes, deaths>>

CodexExits(k) == Process(k, providers[k].codex = "running", CodexEnds(providers[k])) /\ UNCHANGED deaths

WorkerReports(k, result) ==
    Process(k, Working(providers[k]) /\ providers[k].codex = "ended",
            PublishTerminal(providers[k], result))
    /\ UNCHANGED deaths

CodexTimesOut(k) ==
    Process(k, Working(providers[k]) /\ providers[k].codex = "running", TimesOut(providers[k]))
    /\ UNCHANGED deaths

WorkerKilled(k) ==
    /\ deaths < WorkerDeaths
    /\ Process(k, Working(providers[k]), WorkerDies(providers[k]))
    /\ deaths' = deaths + 1

-----------------------------------------------------------------------------
(* The serial coordinator *)

\* A ticker takes the lease and reads the run it was asked to advance.
BeginTick(t) ==
    /\ server # NoActor /\ ticks[t].step = "idle" /\ lease = Free
    /\ lease' = t
    /\ ticks' = [ticks EXCEPT ![t] = [step |-> "cursor", rev |-> run.rev,
                                      decision |-> Decide(run.nodes), fresh |-> FALSE]]
    /\ UNCHANGED <<durable, providers, cursor, server, command, crashes, deaths>>

\* A coordinator append, of what a tick read or ended at; other ticks no
\* longer extend the latest revision.
AppendCursor(tick, pending) ==
    cursor' = [run |-> tick.rev, decision |-> tick.decision, pending |-> pending]

Outdated(t, tick) ==
    [u \in Tickers |-> IF u = t THEN tick ELSE [ticks[u] EXCEPT !.fresh = FALSE]]

Unchanged(t) == cursor.run = ticks[t].rev /\ cursor.decision = ticks[t].decision

\* a pending intent is executed only while the run has not moved
NextStepIfUnmoved(t) ==
    CASE cursor.run > ticks[t].rev \/ (cursor.pending /\ cursor.run # ticks[t].rev) -> "end"
      [] cursor.run = ticks[t].rev /\ cursor.pending -> "execute"
      [] cursor.run <= ticks[t].rev /\ ~cursor.pending
         -> IF ticks[t].decision.action \in SideEffects THEN "intent"
            ELSE IF Unchanged(t) THEN "end" ELSE "project"

\* What a tick does next, from the cursor it finds and the decision it made.
NextStep(t) ==
    CASE cursor.run > ticks[t].rev -> "end"
      [] cursor.run <= ticks[t].rev /\ cursor.pending
         -> IF cursor.run = ticks[t].rev \/ cursor.decision = ticks[t].decision
            THEN "execute" ELSE "project"
      [] cursor.run <= ticks[t].rev /\ ~cursor.pending
         -> IF ticks[t].decision.action \in SideEffects THEN "intent"
            ELSE IF Unchanged(t) THEN "end" ELSE "project"

\* _ensure_cursor on a journal that has revisions
ReadCursor(t) ==
    /\ server # NoActor /\ ticks[t].step = "cursor" /\ cursor # NoCursor
    /\ IF NextStep(t) = "end" THEN EndTick(t)
       ELSE /\ ticks' = [ticks EXCEPT ![t] =
                   [@ EXCEPT !.step = NextStep(t), !.fresh = TRUE,
                             !.decision = IF NextStep(t) = "execute" THEN cursor.decision
                                           ELSE ticks[t].decision]]
            /\ UNCHANGED lease
    /\ UNCHANGED <<durable, providers, cursor, server, command, crashes, deaths>>

\* _ensure_cursor on an empty journal
InitializeCursor(t) ==
    /\ server # NoActor /\ ticks[t].step = "cursor" /\ cursor = NoCursor
    /\ AppendCursor(ticks[t], FALSE)
    /\ IF ticks[t].decision.action \in SideEffects
       THEN ticks' = Outdated(t, [ticks[t] EXCEPT !.fresh = TRUE, !.step = "intent"]) /\ UNCHANGED lease
       ELSE ticks' = Outdated(t, Idle) /\ lease' = IF lease = t THEN Free ELSE lease
    /\ UNCHANGED <<durable, providers, server, command, crashes, deaths>>

\* The intent is durable before its command is issued; a cursor revision that
\* another tick appended since refuses it.
RecordIntent(t) ==
    /\ server # NoActor /\ ticks[t].step = "intent"
    /\ IF ticks[t].fresh
       THEN /\ AppendCursor(ticks[t], TRUE)
            /\ ticks' = Outdated(t, [ticks[t] EXCEPT !.step = "execute"]) /\ UNCHANGED lease
       ELSE EndTick(t) /\ UNCHANGED cursor
    /\ UNCHANGED <<durable, providers, server, command, crashes, deaths>>

\* The run moved since this tick read it: the command rejects its revision.
ExecuteStale(t) ==
    /\ server # NoActor /\ command = NoCommand
    /\ ticks[t].step = "execute" /\ ticks[t].rev # run.rev
    /\ EndTick(t)
    /\ UNCHANGED <<durable, providers, cursor, server, command, crashes, deaths>>

\* _append_projection: the run revision that the tick ended at, no intent
Project(t) ==
    /\ server # NoActor /\ ticks[t].step = "project"
    /\ IF ticks[t].fresh
       THEN /\ AppendCursor(ticks[t], FALSE)
            /\ ticks' = Outdated(t, Idle) /\ lease' = IF lease = t THEN Free ELSE lease
       ELSE EndTick(t) /\ UNCHANGED cursor
    /\ UNCHANGED <<durable, providers, server, command, crashes, deaths>>

\* A tick takes no heartbeat; a lease may expire while its command waits, and
\* one of a server that stopped expires in the end.
ExpireLease ==
    /\ lease # Free /\ lease' = Free
    /\ UNCHANGED <<durable, providers, cursor, ticks, server, command, crashes, deaths>>

-----------------------------------------------------------------------------
ServerStarts(a) ==
    /\ server = NoActor /\ server' = a
    /\ UNCHANGED <<durable, providers, cursor, lease, ticks, command, crashes, deaths>>

ServerStops ==
    /\ server # NoActor /\ crashes < Crashes
    /\ server' = NoActor /\ crashes' = crashes + 1
    /\ command' = NoCommand /\ ticks' = [t \in Tickers |-> Idle]
    /\ UNCHANGED <<durable, providers, cursor, lease, deaths>>

Human(n) ==
    \/ ConfirmScopeGate(n) \/ ApproveCompletionGate(n) \/ AcceptNodeReview(n)
    \/ ReviewSourceNode(n) \/ ApproveSourceCheckpoint(n)
    \/ RecordHumanFeedback(n) \/ RequestAssistance(n)

\* The commands a tick may issue, or anyone through the API.
Begins(by, n) ==
    \/ \E retry \in BOOLEAN : StartNode(by, n, retry)
    \/ RecoverStart(by, n) \/ AuthorizeValidation(by, n) \/ RecoverValidation(by, n)
    \/ ObserveTerminal(by, n) \/ ObserveNoTerminal(by, n)
    \/ \E passes \in BOOLEAN : VerifyTask(by, n, passes)
    \/ VerifyValidation(by, n) \/ VerifyRaises(by, n)
    \/ IntegrateCheckpoint(by, n) \/ RecoverIntegration(by, n) \/ IntegrateRaises(by, n)

CommandStep ==
    \/ AssistanceAnswered \/ StartOrLocate \/ ProviderBound \/ StartRaises
    \/ RequestChecks \/ ValidationRaises \/ ValidationBound
    \/ \E result \in {"passed", "failed"} : ChecksRun(result)
    \/ ObserveRunning \/ ObserveLost
    \/ Commit \/ PublishResult \/ Completes

\* The steps of the worker that got the lock, and of its Codex.
WorkerStep(k) ==
    \/ WorkerPublishesClaim(k) \/ CodexLaunches(k) \/ LaunchRefused(k)
    \/ CodexExits(k) \/ CodexTimesOut(k)
    \/ \E result \in {"succeeded", "failed"} : WorkerReports(k, result)

TickStep(t) ==
    \/ BeginTick(t) \/ ReadCursor(t) \/ InitializeCursor(t) \/ RecordIntent(t)
    \/ ExecuteStale(t) \/ Project(t)
    \/ \E n \in Nodes : Begins(t, n)

Next ==
    \/ \E n \in Nodes : Human(n) \/ Begins(Direct, n)
    \/ CommandStep
    \/ \E k \in Keys : \/ WorkerClaims(k) \/ WorkerStep(k) \/ WorkerKilled(k)
                       \/ \E path \in Paths : CodexWrites(k, path)
    \/ \E t \in Tickers : TickStep(t)
    \/ ExpireLease \/ ServerStops
    \/ \E a \in Actors : ServerStarts(a)

Spec == Init /\ [][Next]_vars

\* Processes are scheduled, a stopped server is started again, the operator
\* keeps ticking, a thread is not starved of the command lock, leases expire.
Fairness ==
    /\ WF_vars(CommandStep) /\ WF_vars(ExpireLease)
    /\ WF_vars(\E a \in Actors : ServerStarts(a))
    /\ \A k \in Keys : WF_vars(WorkerClaims(k)) /\ WF_vars(WorkerStep(k))
    /\ \A t \in Tickers : SF_vars(TickStep(t))

FairSpec == Spec /\ Fairness

-----------------------------------------------------------------------------
(* Properties *)

\* However often a start is recovered, and however many workers that spawns,
\* Codex is started at most once for a start key.
OneCodexPerStart == \A k \in Keys : providers[k].launches <= 1

Committed(n) == {i \in DOMAIN branch : branch[i].node = n}

\* A commit of the run branch is the only one of its node.  It sits on the
\* commit that was verified, holds all of the patch that two different
\* principals reviewed and approved, and nothing that the node's own attempt
\* wrote besides: what else it may hold came from a Codex that no attempt
\* in progress owns or that works on another node.
CommitsAreApproved ==
    \A i \in DOMAIN branch :
        LET n == branch[i].node
            node == run.nodes[n]
        IN  /\ Committed(n) = {i}
            /\ node.state \in {"integrating", "completed"}
            /\ node.evidence # NoEvidence /\ node.evidence.passes
            /\ node.evidence.base = i - 1 /\ node.evidence.patch \subseteq branch[i].content
            /\ {node.reviewer, node.approver} \subseteq Actors /\ node.reviewer # node.approver
            /\ \A w \in branch[i].content \ node.evidence.patch :
                   <<w.node, w.attempt>> # Key(n)

\* A node that is satisfied has what its kind demands: a gate an approval that
\* came after all its dependencies, a deliverable passing evidence of an
\* unchanged workspace, completed source work a durable result that names a
\* commit on the verified one, with all of the approved patch.  (The commit
\* may be another node's, if both were verified with one and the same patch.)
\* Nothing was dispatched before its dependencies were satisfied.
SatisfiedIsProven ==
    \A n \in Nodes :
        LET node == run.nodes[n] IN
        /\ node.state # "planned" /\ KindOf[n] # "human_gate"
           => DependenciesSatisfied(run.nodes, n)
        /\ node.state = "gate_approved" => DependenciesSatisfied(run.nodes, n)
        /\ node.state = "deliverable_accepted"
           => node.evidence.passes /\ node.evidence.patch = {}
        /\ node.state = "completed"
           => /\ results[n] \in DOMAIN branch /\ node.evidence.base = results[n] - 1
              /\ node.evidence.patch \subseteq branch[results[n]].content

\* The cursor never runs ahead of the run, and while the run has not moved
\* since the cursor's revision it shows the step the run calls for.
CursorShowsNextStep ==
    /\ cursor.run <= run.rev
    /\ cursor.run = run.rev => cursor.decision = Decide(run.nodes)

\* The command of a pending intent can never succeed: the worker died between
\* its lock and its claim, or the workspace is not what evidence recorded.
Wedged ==
    LET n == cursor.decision.node IN
    CASE cursor.decision.action = "start"
         -> LET p == providers[Key(n)] IN
            run.nodes[n].state = "implementing" /\ p.claim = "lock" /\ p.worker = "ended"
      [] cursor.decision.action = "validate"
         -> run.nodes[n].state = "implementing" /\ ~CanValidate(n)
      [] cursor.decision.action = "verify"
         -> KindOf[n] = "validation" /\ ~Undisturbed(n)
      [] cursor.decision.action = "integrate"
         -> ~(IF results[n] = 0 THEN PatchMatches(n) ELSE Attested(n))
      [] OTHER -> FALSE

\* A recorded intent is completed or reconciled in the end, whatever stops
\* between its record, its command and its projection.
IntentsAreResolved == cursor.pending ~> (~cursor.pending \/ Wedged)
=============================================================================
