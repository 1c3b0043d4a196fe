----------------------- MODULE TaskManagerRunsProofs -----------------------
(***************************************************************************)
(* What the commits of a run branch hold, that a start key starts one      *)
(* Codex, and what the coordinator's cursor tells of the run, proved for   *)
(* any plan, principals, tickers, attempts and stops.                      *)
(***************************************************************************)
EXTENDS TaskManagerRuns, FiniteSetTheorems, WellFoundedInduction, TLAPS

-----------------------------------------------------------------------------
(* The inductive invariant *)

\* A provider that started Codex is past "none", and only a Codex that ended
\* is reported as a success.
ProviderOK(p) ==
    /\ p \in Provider
    /\ p.launches <= 1
    /\ p.codex = "none" => p.launches = 0
    /\ p.terminal = "succeeded" => p.codex = "ended"

ProvidersInv ==
    /\ providers \in [Keys -> Provider]
    /\ \A k \in Keys : ProviderOK(providers[k])

\* A record with the fields of a node, and evidence with a place on the branch
Shaped(r) ==
    /\ DOMAIN r = {"state", "attempt", "bound", "seen", "evidence", "reviewer", "approver", "last"}
    /\ r.evidence # NoEvidence => r.evidence.base \in Nat

\* States that a node with a commit is in, and states after a successful attempt
Settled == {"integrating", "completed"}
Worked == {"verifying", "repairing", "reviewing", "merge_review"} \cup Settled

\* What a node shows once its patch is reviewed, and once it is approved
NodeApproved(r) ==
    /\ r.state = "merge_review" => r.reviewer \in Actors
    /\ r.state \in Settled =>
          /\ r.evidence # NoEvidence /\ r.evidence.passes
          /\ r.reviewer \in Actors /\ r.approver \in Actors /\ r.reviewer # r.approver

\* The Codex of the current attempt of n does not run any more.
Quiet(n) == \A k \in Keys : k = Key(n) => providers[k].codex = "ended"

\* What a node owes to its kind and to the nodes it depends on
Sound(n, r) ==
    /\ r.state # "planned" /\ KindOf[n] # "human_gate" => DependenciesSatisfied(run.nodes, n)
    /\ r.state = "gate_approved" => DependenciesSatisfied(run.nodes, n)
    /\ r.state = "deliverable_accepted" => r.evidence.passes /\ r.evidence.patch = {}

NodesInv ==
    /\ run = [rev |-> run.rev, nodes |-> run.nodes]
    /\ run.nodes = [n \in Nodes |-> run.nodes[n]]
    /\ \A n \in Nodes :
          /\ Shaped(run.nodes[n]) /\ NodeApproved(run.nodes[n]) /\ Sound(n, run.nodes[n])
          /\ run.nodes[n].state \in Worked => Quiet(n)

\* Changes that hold the reviewed patch of n, and nothing else of its attempt
Holds(changes, n) ==
    /\ run.nodes[n].evidence.patch \subseteq changes
    /\ \A w \in changes \ run.nodes[n].evidence.patch : <<w.node, w.attempt>> # Key(n)

BranchInv ==
    /\ tree \subseteq Writes
    /\ branch \in Seq([node: Nodes, content: SUBSET Writes])
    /\ \A i \in 1..Len(branch) :
          /\ run.nodes[branch[i].node].state \in Settled
          /\ run.nodes[branch[i].node].evidence.base = i - 1
          /\ Holds(branch[i].content, branch[i].node)

\* Commit i is on the verified commit of n and has its whole patch.
Landed(n, i) ==
    /\ i \in 1..Len(branch) /\ run.nodes[n].evidence.base = i - 1
    /\ run.nodes[n].evidence.patch \subseteq branch[i].content

\* A durable result names such a commit, and completed work has one.
ResultsInv ==
    /\ results = [n \in Nodes |-> results[n]]
    /\ \A n \in Nodes :
          /\ results[n] # 0 => run.nodes[n].state \in Settled /\ Landed(n, results[n])
          /\ run.nodes[n].state = "completed" => results[n] # 0

\* A command that changes or commits what it found earlier: no other command
\* moved its node since, and until it commits, the workspace only grew.
CommandInv ==
    command # NoCommand =>
        /\ command.node \in Nodes
        /\ command.op = "observe" => run.nodes[command.node].state = "implementing"
        /\ command.op = "integrate" => run.nodes[command.node].state = "integrating"
        /\ command.op = "integrate" /\ command.step = "commit" =>
              /\ run.nodes[command.node].evidence.base = Len(branch)
              /\ Holds(tree, command.node)
        /\ command.op = "integrate" /\ command.step = "publish" =>
              Landed(command.node, Len(branch))
        /\ command.op = "integrate" /\ command.step = "complete" => results[command.node] # 0

ServerInv == server \in Actors \cup {NoActor}

RunInv == ProvidersInv /\ NodesInv /\ BranchInv /\ ResultsInv /\ CommandInv /\ ServerInv

-----------------------------------------------------------------------------
(* Providers: what a worker and start_or_locate do to one key *)

\* Every step on a provider keeps it in order, and an ended Codex ended.
LEMMA ProviderSteps ==
    ASSUME NEW p, ProviderOK(p)
    PROVE  /\ ProviderOK(Locate(p)) /\ Locate(p).codex = p.codex
           /\ p.waiting > 0 => ProviderOK(Claim(p)) /\ Claim(p).codex = p.codex
           /\ ProviderOK(PublishClaim(p)) /\ PublishClaim(p).codex = p.codex
           /\ CanLaunch(p) => ProviderOK(Launch(p)) /\ p.codex = "none"
           /\ CanLaunch(p) => ProviderOK(LaunchFails(p)) /\ LaunchFails(p).codex = p.codex
           /\ p.codex = "running" => ProviderOK(CodexEnds(p))
           /\ p.codex = "running" => ProviderOK(TimesOut(p))
           /\ \A result \in {"succeeded", "failed"} :
                 p.codex = "ended" => /\ ProviderOK(PublishTerminal(p, result))
                                      /\ PublishTerminal(p, result).codex = "ended"
           /\ ProviderOK(WorkerDies(p)) /\ WorkerDies(p).codex = p.codex
<1> USE DEF ProviderOK, Provider
<1>1. ProviderOK(Locate(p)) /\ Locate(p).codex = p.codex
  BY DEF Locate
<1>2. p.waiting > 0 => ProviderOK(Claim(p)) /\ Claim(p).codex = p.codex
  <2> SUFFICES ASSUME p.waiting > 0 PROVE ProviderOK(Claim(p)) /\ Claim(p).codex = p.codex
    OBVIOUS
  <2>1. p.waiting - 1 \in Nat
    BY SMT
  <2>2. CASE p.claim = "none"
    <3>1. Claim(p) = [p EXCEPT !.waiting = @ - 1, !.claim = "lock", !.worker = "alive"]
      BY <2>2 DEF Claim
    <3> QED
      BY <2>1, <3>1
  <2>3. CASE p.claim # "none"
    <3>1. Claim(p) = [p EXCEPT !.waiting = @ - 1]
      BY <2>3 DEF Claim
    <3> QED
      BY <2>1, <3>1
  <2> QED
    BY <2>2, <2>3
<1>3. ProviderOK(PublishClaim(p)) /\ PublishClaim(p).codex = p.codex
  BY DEF PublishClaim
<1>4. CanLaunch(p) => ProviderOK(Launch(p)) /\ p.codex = "none"
  <2> SUFFICES ASSUME CanLaunch(p) PROVE ProviderOK(Launch(p)) /\ p.codex = "none"
    OBVIOUS
  <2>1. p.codex = "none" /\ p.launches = 0 /\ p.terminal # "succeeded"
    BY DEF CanLaunch
  <2>2. p.launches + 1 \in Nat /\ p.launches + 1 <= 1
    BY <2>1
  <2>3. Launch(p) \in Provider
    BY <2>2 DEF Launch
  <2>4. Launch(p).launches = p.launches + 1 /\ Launch(p).codex = "running"
    BY DEF Launch
  <2>5. Launch(p).terminal = p.terminal
    BY DEF Launch
  <2> QED
    BY <2>1, <2>2, <2>3, <2>4, <2>5
<1>5. CanLaunch(p) => ProviderOK(LaunchFails(p)) /\ LaunchFails(p).codex = p.codex
  BY DEF LaunchFails
<1>6. p.codex = "running" => ProviderOK(CodexEnds(p))
  BY DEF CodexEnds
<1>7. p.codex = "running" => ProviderOK(TimesOut(p))
  BY DEF TimesOut
<1>8. \A result \in {"succeeded", "failed"} :
          p.codex = "ended" => /\ ProviderOK(PublishTerminal(p, result))
                               /\ PublishTerminal(p, result).codex = "ended"
  BY DEF PublishTerminal
<1>9. ProviderOK(WorkerDies(p)) /\ WorkerDies(p).codex = p.codex
  BY DEF WorkerDies
<1> QED
  BY <1>1, <1>2, <1>3, <1>4, <1>5, <1>6, <1>7, <1>8, <1>9

-----------------------------------------------------------------------------
(* The kinds of steps *)

\* A commit of the branch is of a node and holds changes of the workspace.
LEMMA CommitsAreOfNodes ==
    ASSUME BranchInv, NEW i \in 1..Len(branch)
    PROVE  branch[i].node \in Nodes /\ branch[i].content \in SUBSET Writes
<1> DEFINE Commits == [node: Nodes, content: SUBSET Writes]
<1>1. branch[i] \in Commits
  <2>1. branch \in Seq(Commits)
    BY DEF BranchInv
  <2> HIDE DEF Commits
  <2> QED
    BY <2>1
<1> QED
  BY <1>1

\* A step on one provider, with the run and the workspace left alone
LEMMA ProviderStep ==
    ASSUME RunInv, NEW k, NEW p, providers' = [providers EXCEPT ![k] = p],
           k \in Keys => ProviderOK(p) /\ (providers[k].codex = "ended" => p.codex = "ended"),
           UNCHANGED <<run, tree, branch, results, server>>, CommandInv'
    PROVE  RunInv'
<1>1. \A j \in Keys : /\ ProviderOK(providers'[j])
                      /\ providers[j].codex = "ended" => providers'[j].codex = "ended"
  BY DEF RunInv, ProvidersInv
<1>2. ProvidersInv'
  <2>1. providers' = [j \in Keys |-> providers'[j]]
    BY DEF RunInv, ProvidersInv
  <2>2. \A j \in Keys : providers'[j] \in Provider
    BY <1>1 DEF ProviderOK
  <2> QED
    BY <1>1, <2>1, <2>2 DEF ProvidersInv
<1>3. NodesInv'
  BY <1>1 DEF RunInv, NodesInv, Quiet, Key, Sound, DependenciesSatisfied, Satisfied
<1>4. BranchInv' /\ ResultsInv' /\ ServerInv'
  BY DEF RunInv, BranchInv, ResultsInv, Landed, ServerInv, Holds, Key
<1> QED
  BY <1>2, <1>3, <1>4 DEF RunInv

\* A step that moves a command or the server, and leaves the rest alone
LEMMA CommandOnlyStep ==
    ASSUME RunInv, UNCHANGED <<run, tree, branch, results, providers>>, CommandInv', ServerInv'
    PROVE  RunInv'
<1>1. ProvidersInv' /\ BranchInv' /\ ResultsInv'
  BY DEF RunInv, ProvidersInv, BranchInv, Holds, Key, ResultsInv, Landed
<1>2. NodesInv'
  BY DEF RunInv, NodesInv, Quiet, Key, Sound, DependenciesSatisfied, Satisfied
<1> QED
  BY <1>1, <1>2 DEF RunInv

\* A revision of the run that changes one node
LEMMA NodeStep ==
    ASSUME RunInv, NEW n \in Nodes, NEW node, Append1(n, node),
           UNCHANGED <<tree, branch, results, providers, server>>,
           Shaped(node), NodeApproved(node), Sound(n, node),
           run.nodes[n].state \in SatisfiedStates => node.state = run.nodes[n].state,
           node.state = "completed" => results[n] # 0,
           node.state \in Worked =>
               node.attempt = run.nodes[n].attempt /\ (run.nodes[n].state \in Worked \/ Quiet(n)),
           run.nodes[n].state \in Settled =>
               /\ node.state \in Settled
               /\ node.evidence = run.nodes[n].evidence /\ node.attempt = run.nodes[n].attempt,
           \/ command' = NoCommand
           \/ command'.node \in Nodes /\ command'.op \notin {"observe", "integrate"}
    PROVE  RunInv'
<1>1. /\ run' = [rev |-> run'.rev, nodes |-> run'.nodes]
      /\ run'.nodes = [run.nodes EXCEPT ![n] = node]
  BY DEF Append1
<1>2. /\ run'.nodes = [m \in Nodes |-> run'.nodes[m]]
      /\ run'.nodes[n] = node
      /\ \A m \in Nodes \ {n} : run'.nodes[m] = run.nodes[m]
  BY <1>1 DEF RunInv, NodesInv
<1>3. NodesInv'
  <2>1. ASSUME NEW m \in Nodes
        PROVE  /\ Shaped(run'.nodes[m]) /\ NodeApproved(run'.nodes[m])
               /\ Sound(m, run.nodes[m])' /\ (run'.nodes[m].state \in Worked => Quiet(m)')
    <3>0. DependenciesSatisfied(run.nodes, m) => DependenciesSatisfied(run.nodes, m)'
      BY <1>2, RunNodesAssumption DEF DependenciesSatisfied, Satisfied
    <3>1. CASE m = n
      <4>1. node.state \in Worked => Quiet(n) /\ node.attempt = run.nodes[n].attempt
        BY DEF RunInv, NodesInv
      <4>2. node.state \in Worked => Quiet(n)'
        BY <1>2, <4>1 DEF Quiet, Key
      <4>3. Sound(m, run.nodes[m])'
        BY <1>2, <3>0, <3>1 DEF Sound
      <4> QED
        BY <1>2, <3>1, <4>2, <4>3
    <3>2. CASE m # n
      <4>1. Sound(m, run.nodes[m])'
        BY <1>2, <3>0, <3>2 DEF RunInv, NodesInv, Sound
      <4> QED
        BY <1>2, <3>2, <4>1 DEF RunInv, NodesInv, Quiet, Key
    <3> QED
      BY <3>1, <3>2
  <2> QED
    BY <1>1, <1>2, <2>1 DEF NodesInv
<1>4. BranchInv'
  <2>1. ASSUME NEW i \in 1..Len(branch)
        PROVE  /\ run'.nodes[branch[i].node].state \in Settled
               /\ run'.nodes[branch[i].node].evidence.base = i - 1
               /\ Holds(branch[i].content, branch[i].node)'
    <3> DEFINE m == branch[i].node
    <3>1. m \in Nodes
      BY CommitsAreOfNodes DEF RunInv
    <3>2. /\ run.nodes[m].state \in Settled /\ run.nodes[m].evidence.base = i - 1
          /\ Holds(branch[i].content, m)
      BY DEF RunInv, BranchInv
    <3>3. /\ run'.nodes[m].state \in Settled
          /\ run'.nodes[m].evidence = run.nodes[m].evidence
          /\ run'.nodes[m].attempt = run.nodes[m].attempt
      BY <1>2, <3>1, <3>2
    <3> QED
      BY <3>2, <3>3 DEF Holds, Key
  <2> QED
    BY <2>1 DEF RunInv, BranchInv
<1>5. CommandInv' /\ ServerInv' /\ ProvidersInv'
  BY DEF RunInv, CommandInv, ServerInv, ProvidersInv
<1>6. ResultsInv'
  BY <1>2 DEF RunInv, ResultsInv, Landed, Settled
<1> QED
  BY <1>3, <1>4, <1>5, <1>6 DEF RunInv

-----------------------------------------------------------------------------
(* Revisions of the run *)

\* What a transition changes in the record of a node
LEMMA MovedFields ==
    ASSUME NodesInv, NEW n \in Nodes, NEW to, NEW actor
    PROVE  /\ Shaped(Moved(n, to, actor))
           /\ Moved(n, to, actor).state = to
           /\ Moved(n, to, actor).attempt = run.nodes[n].attempt
           /\ Moved(n, to, actor).evidence = run.nodes[n].evidence
           /\ Moved(n, to, actor).reviewer = run.nodes[n].reviewer
           /\ Moved(n, to, actor).approver = run.nodes[n].approver
           /\ Shaped(run.nodes[n]) /\ NodeApproved(run.nodes[n]) /\ Sound(n, run.nodes[n])
<1>1. Shaped(run.nodes[n]) /\ NodeApproved(run.nodes[n]) /\ Sound(n, run.nodes[n])
  BY DEF NodesInv
<1> QED
  BY <1>1 DEF Moved, Shaped

\* A node that was dispatched stays sound until it is accepted.
LEMMA SoundMoves ==
    ASSUME NEW n \in Nodes, NEW r, r.state \notin {"gate_approved", "deliverable_accepted"},
           \/ Sound(n, run.nodes[n]) /\ run.nodes[n].state # "planned"
           \/ DependenciesSatisfied(run.nodes, n)
    PROVE  Sound(n, r)
  BY DEF Sound

\* What the invariant says of one node
LEMMA NodeFacts ==
    ASSUME RunInv, NEW n \in Nodes
    PROVE  /\ NodesInv /\ Shaped(run.nodes[n]) /\ NodeApproved(run.nodes[n])
           /\ Sound(n, run.nodes[n])
           /\ run.nodes[n].state = "completed" => results[n] # 0
  BY DEF RunInv, NodesInv, ResultsInv

\* A decision of a human leaves one revision; a conversation moves no node.
LEMMA HumanSteps ==
    ASSUME RunInv, NEW n \in Nodes, Human(n)
    PROVE  RunInv'
<1> USE DEF Settled, Worked, SatisfiedStates
<1>1. /\ NodesInv /\ Shaped(run.nodes[n]) /\ NodeApproved(run.nodes[n]) /\ Sound(n, run.nodes[n])
      /\ run.nodes[n].state = "completed" => results[n] # 0
  BY NodeFacts
<1>2. CASE ConfirmScopeGate(n)
  <2> DEFINE node == [Moved(n, "gate_approved", server) EXCEPT !.approver = server]
  <2>1. node.state = "gate_approved" /\ Shaped(node)
    BY <1>1, MovedFields DEF Shaped
  <2>2. run.nodes[n].state = "plan_review" /\ Append1(n, node)
    BY <1>2 DEF ConfirmScopeGate
  <2>3. command' = NoCommand /\ UNCHANGED <<tree, branch, results, providers, server>>
    BY <1>2 DEF ConfirmScopeGate, Returns
  <2>4. DependenciesSatisfied(run.nodes, n)
    BY <1>2 DEF ConfirmScopeGate, DependenciesSatisfied
  <2> HIDE DEF node
  <2>5. Sound(n, node) /\ NodeApproved(node)
    BY <2>1, <2>4 DEF Sound, NodeApproved
  <2> QED
    BY <2>1, <2>2, <2>3, <2>5, NodeStep
<1>3. CASE ApproveCompletionGate(n)
  <2> DEFINE node == [Moved(n, "gate_approved", server) EXCEPT !.approver = server]
  <2>1. node.state = "gate_approved" /\ Shaped(node)
    BY <1>1, MovedFields DEF Shaped
  <2>2. run.nodes[n].state = "plan_review" /\ Append1(n, node)
    BY <1>3 DEF ApproveCompletionGate
  <2>3. command' = NoCommand /\ UNCHANGED <<tree, branch, results, providers, server>>
    BY <1>3 DEF ApproveCompletionGate, Returns
  <2>4. DependenciesSatisfied(run.nodes, n)
    BY <1>3 DEF ApproveCompletionGate, DependenciesSatisfied, Satisfied,
                   AcceptedOnEvidence
  <2> HIDE DEF node
  <2>5. Sound(n, node) /\ NodeApproved(node)
    BY <2>1, <2>4 DEF Sound, NodeApproved
  <2> QED
    BY <2>1, <2>2, <2>3, <2>5, NodeStep
<1>4. CASE AcceptNodeReview(n)
  <2> DEFINE node == [Moved(n, "deliverable_accepted", server) EXCEPT !.reviewer = server]
  <2>1. node.state = "deliverable_accepted" /\ Shaped(node) /\ node.evidence = run.nodes[n].evidence
    BY <1>1, MovedFields DEF Shaped
  <2>2. /\ run.nodes[n].state = "reviewing" /\ Append1(n, node)
        /\ run.nodes[n].evidence.passes /\ run.nodes[n].evidence.patch = {}
    BY <1>4 DEF AcceptNodeReview
  <2>3. command' = NoCommand /\ UNCHANGED <<tree, branch, results, providers, server>>
    BY <1>4 DEF AcceptNodeReview, Returns
  <2> HIDE DEF node
  <2>4. Sound(n, node) /\ NodeApproved(node)
    BY <1>1, <2>1, <2>2 DEF Sound, NodeApproved
  <2> QED
    BY <2>1, <2>2, <2>3, <2>4, NodeStep
<1>5. CASE ReviewSourceNode(n)
  <2> DEFINE node == [Moved(n, "merge_review", server) EXCEPT !.reviewer = server]
  <2>1. /\ node.state = "merge_review" /\ Shaped(node)
        /\ node.reviewer = server /\ node.attempt = run.nodes[n].attempt
    BY <1>1, MovedFields DEF Shaped
  <2>2. run.nodes[n].state = "reviewing" /\ Append1(n, node) /\ server \in Actors
    BY <1>5 DEF ReviewSourceNode, Enters, RunInv, ServerInv
  <2>3. command' = NoCommand /\ UNCHANGED <<tree, branch, results, providers, server>>
    BY <1>5 DEF ReviewSourceNode, Returns
  <2> HIDE DEF node
  <2>4. Sound(n, node) /\ NodeApproved(node)
    BY <1>1, <2>1, <2>2, SoundMoves DEF NodeApproved
  <2> QED
    BY <2>1, <2>2, <2>3, <2>4, NodeStep
<1>6. CASE ApproveSourceCheckpoint(n)
  <2> DEFINE node == [Moved(n, "integrating", server) EXCEPT !.approver = server]
  <2>1. /\ node.state = "integrating" /\ Shaped(node) /\ node.approver = server
        /\ node.evidence = run.nodes[n].evidence
        /\ node.reviewer = run.nodes[n].reviewer /\ node.attempt = run.nodes[n].attempt
    BY <1>1, MovedFields DEF Shaped
  <2>2. /\ run.nodes[n].state = "merge_review" /\ run.nodes[n].reviewer # server
        /\ Append1(n, node) /\ server \in Actors
    BY <1>6 DEF ApproveSourceCheckpoint, Enters, RunInv, ServerInv
  <2>3. command' = NoCommand /\ UNCHANGED <<tree, branch, results, providers, server>>
    BY <1>6 DEF ApproveSourceCheckpoint, Returns
  <2>4. Report(n) = "passing"
    BY <1>6 DEF ApproveSourceCheckpoint, Kernel, CanTransition, EvidenceSuffices
  <2>5. run.nodes[n].evidence # NoEvidence /\ run.nodes[n].evidence.passes
    BY <2>4 DEF Report
  <2> HIDE DEF node
  <2>6. Sound(n, node) /\ NodeApproved(node)
    BY <1>1, <2>1, <2>2, <2>5, SoundMoves DEF NodeApproved
  <2> QED
    BY <2>1, <2>2, <2>3, <2>6, NodeStep
<1>7. CASE RecordHumanFeedback(n)
  <2>1. Append1(n, run.nodes[n])
    BY <1>7 DEF RecordHumanFeedback
  <2>2. command' = NoCommand /\ UNCHANGED <<tree, branch, results, providers, server>>
    BY <1>7 DEF RecordHumanFeedback, Returns
  <2> QED
    BY <1>1, <2>1, <2>2, NodeStep
<1>8. CASE RequestAssistance(n)
  <2>1. Append1(n, run.nodes[n])
    BY <1>8 DEF RequestAssistance
  <2>2. command'.node = n /\ command'.op = "assist" /\ UNCHANGED <<tree, branch, results, providers, server>>
    BY <1>8 DEF RequestAssistance, Continues
  <2> QED
    BY <1>1, <2>1, <2>2, NodeStep
<1> QED
  BY <1>2, <1>3, <1>4, <1>5, <1>6, <1>7, <1>8 DEF Human

\* What a tick or a direct call begins with
LEMMA BeginSteps ==
    ASSUME RunInv, NEW n \in Nodes, NEW by, Begins(by, n)
    PROVE  RunInv'
<1> USE DEF Settled, Worked, SatisfiedStates
<1>1. /\ NodesInv /\ Shaped(run.nodes[n]) /\ NodeApproved(run.nodes[n]) /\ Sound(n, run.nodes[n])
      /\ run.nodes[n].state = "completed" => results[n] # 0
  BY NodeFacts
<1>2. ServerInv /\ (UNCHANGED server => ServerInv')
  BY DEF RunInv, ServerInv
<1>3. Shaped(Authorized1(n)) /\ Authorized1(n).state = "implementing"
  BY <1>1, MovedFields DEF Authorized1, Shaped
<1>4. ASSUME NEW retry \in BOOLEAN, StartNode(by, n, retry)
      PROVE  RunInv'
  <2>1. /\ Append1(n, Authorized1(n)) /\ run.nodes[n].state \in {"failed", "blocked", "planned"}
        /\ UNCHANGED <<tree, branch, results, providers, server>>
        /\ DependenciesSatisfied(run.nodes, n)
    BY <1>4 DEF StartNode
  <2>2. command'.node = n /\ command'.op = "start"
    BY <1>4 DEF StartNode, Continues
  <2>3. Sound(n, Authorized1(n)) /\ NodeApproved(Authorized1(n))
    BY <1>3, <2>1, SoundMoves DEF NodeApproved
  <2> QED
    BY <1>3, <2>1, <2>2, <2>3, NodeStep
<1>5. CASE AuthorizeValidation(by, n)
  <2>1. /\ Append1(n, Authorized1(n)) /\ run.nodes[n].state = "planned"
        /\ UNCHANGED <<tree, branch, results, providers, server>>
        /\ DependenciesSatisfied(run.nodes, n)
    BY <1>5 DEF AuthorizeValidation
  <2>2. command'.node = n /\ command'.op = "validate"
    BY <1>5 DEF AuthorizeValidation, Continues
  <2>3. Sound(n, Authorized1(n)) /\ NodeApproved(Authorized1(n))
    BY <1>3, <2>1, SoundMoves DEF NodeApproved
  <2> QED
    BY <1>3, <2>1, <2>2, <2>3, NodeStep
<1>6. CASE RecoverStart(by, n) \/ RecoverValidation(by, n)
  <2>1. /\ UNCHANGED <<run, tree, branch, results, providers, server>>
        /\ command'.node = n /\ command'.op \in {"start", "validate"}
    BY <1>6 DEF RecoverStart, RecoverValidation, Continues, durable
  <2>2. CommandInv'
    BY <2>1 DEF CommandInv
  <2> QED
    BY <1>2, <2>1, <2>2, CommandOnlyStep
<1>7. CASE ObserveTerminal(by, n)
  <2> DEFINE node == Ended(n, Outcome(n))
  <2>1. /\ Append1(n, node) /\ run.nodes[n].state = "implementing"
        /\ UNCHANGED <<tree, branch, results, providers, server>> /\ command' = NoCommand
    BY <1>7 DEF ObserveTerminal, Observable, Returns
  <2>2. /\ Shaped(node) /\ node.attempt = run.nodes[n].attempt
        /\ node.state = IF Outcome(n) = "succeeded" THEN "verifying" ELSE "failed"
    BY <1>1, MovedFields DEF Ended, Shaped
  <2>3. Outcome(n) = "succeeded" => Quiet(n)
    <3> SUFFICES ASSUME Outcome(n) = "succeeded", NEW k \in Keys, k = Key(n)
                 PROVE  providers[k].codex = "ended"
      BY DEF Quiet
    <3>1. KindOf[n] = "task"
      BY DEF Keys, Tasks, Key
    <3>2. providers[k].terminal = "succeeded"
      BY <3>1 DEF Outcome
    <3> QED
      BY <3>2 DEF RunInv, ProvidersInv, ProviderOK
  <2> HIDE DEF node
  <2>4. Sound(n, node) /\ NodeApproved(node)
    BY <1>1, <2>1, <2>2, SoundMoves DEF NodeApproved
  <2> QED
    BY <2>1, <2>2, <2>3, <2>4, NodeStep
<1>8. CASE ObserveNoTerminal(by, n)
  <2>1. /\ UNCHANGED <<run, tree, branch, results, providers, server>>
        /\ command'.node = n /\ command'.op = "observe" /\ run.nodes[n].state = "implementing"
    BY <1>8 DEF ObserveNoTerminal, Observable, Continues, durable
  <2>2. CommandInv'
    BY <2>1 DEF CommandInv
  <2> QED
    BY <1>2, <2>1, <2>2, CommandOnlyStep
<1>9. ASSUME NEW evidence, Append1(n, Verified(n, evidence)), Verifiable(n), evidence.base \in Nat,
             UNCHANGED <<tree, branch, results, providers, server>>, command' = NoCommand
      PROVE  RunInv'
  <2> DEFINE node == Verified(n, evidence)
  <2>1. /\ Shaped(node) /\ node.attempt = run.nodes[n].attempt
        /\ node.state \in {"reviewing", "repairing"}
    BY <1>1, <1>9, MovedFields DEF Verified, Shaped
  <2>2. run.nodes[n].state = "verifying" /\ Append1(n, node)
    BY <1>9 DEF Verifiable
  <2> HIDE DEF node
  <2>3. Sound(n, node) /\ NodeApproved(node)
    BY <1>1, <2>1, <2>2, SoundMoves DEF NodeApproved
  <2> QED
    BY <1>9, <2>1, <2>2, <2>3, NodeStep
<1>10. ASSUME NEW passes \in BOOLEAN, VerifyTask(by, n, passes)
       PROVE  RunInv'
  <2>1. Len(branch) \in Nat
    BY DEF RunInv, BranchInv
  <2> QED
    BY <1>9, <1>10, <2>1 DEF VerifyTask, Returns
<1>11. CASE VerifyValidation(by, n)
  <2>1. Len(branch) \in Nat
    BY DEF RunInv, BranchInv
  <2> QED
    BY <1>9, <1>11, <2>1 DEF VerifyValidation, Returns
<1>12. CASE VerifyRaises(by, n) \/ IntegrateRaises(by, n)
  <2>1. UNCHANGED <<run, tree, branch, results, providers, server>> /\ command' = NoCommand
    BY <1>12 DEF VerifyRaises, IntegrateRaises, Raises
  <2>2. CommandInv'
    BY <2>1 DEF CommandInv
  <2> QED
    BY <1>2, <2>1, <2>2, CommandOnlyStep
<1>13. CASE IntegrateCheckpoint(by, n)
  <2>1. /\ UNCHANGED <<run, tree, branch, results, providers, server>>
        /\ run.nodes[n].state = "integrating" /\ PatchMatches(n)
        /\ command'.node = n /\ command'.op = "integrate"
        /\ command'.step = IF Len(branch) = run.nodes[n].evidence.base THEN "commit" ELSE "publish"
    BY <1>13 DEF IntegrateCheckpoint, Integrating, Continues, durable
  <2>2. ASSUME Len(branch) = run.nodes[n].evidence.base
        PROVE  tree = run.nodes[n].evidence.patch
    <3>1. Len(branch) \in Nat
      BY DEF RunInv, BranchInv
    <3>2. (Len(branch) + 1)..Len(branch) = {}
      BY <3>1
    <3>3. PatchSince(Len(branch)) = tree
      BY <3>2 DEF PatchSince
    <3> QED
      BY <2>1, <2>2, <3>3 DEF PatchMatches
  <2>3. command'.step = "commit" =>
            /\ run.nodes[n].evidence.base = Len(branch)
            /\ Holds(tree, n)
    BY <2>1, <2>2 DEF Holds
  <2>4. ASSUME Len(branch) # run.nodes[n].evidence.base
        PROVE  Landed(n, Len(branch))
    <3>1. Len(branch) \in Nat /\ run.nodes[n].evidence.base \in Nat
      BY <1>1, <2>1 DEF RunInv, BranchInv, NodeApproved, Shaped
    <3>2. Len(branch) = run.nodes[n].evidence.base + 1 /\ tree = {}
      BY <2>1, <2>4 DEF PatchMatches
    <3>3. (run.nodes[n].evidence.base + 1)..Len(branch) = {Len(branch)}
      BY <3>1, <3>2
    <3>4. PatchSince(run.nodes[n].evidence.base) = branch[Len(branch)].content
      BY <3>2, <3>3 DEF PatchSince
    <3>5. run.nodes[n].evidence.patch = branch[Len(branch)].content
      BY <2>1, <3>4 DEF PatchMatches
    <3> QED
      BY <3>1, <3>2, <3>5 DEF Landed
  <2>5. CommandInv'
    BY <2>1, <2>3, <2>4 DEF CommandInv, Holds, Key, Landed
  <2> QED
    BY <1>2, <2>1, <2>5, CommandOnlyStep
<1>14. CASE RecoverIntegration(by, n)
  <2>1. /\ UNCHANGED <<run, tree, branch, results, providers, server>>
        /\ command'.node = n /\ command'.op = "integrate" /\ command'.step = "complete"
        /\ run.nodes[n].state = "integrating" /\ results[n] # 0
    BY <1>14 DEF RecoverIntegration, Integrating, Continues, durable
  <2>2. CommandInv'
    BY <2>1 DEF CommandInv
  <2> QED
    BY <1>2, <2>1, <2>2, CommandOnlyStep
<1> QED
  BY <1>4, <1>5, <1>6, <1>7, <1>8, <1>10, <1>11, <1>12, <1>13, <1>14 DEF Begins

-----------------------------------------------------------------------------
(* The later steps of a command *)

\* The commit takes the reviewed paths as they are now.
LEMMA CommitStep ==
    ASSUME RunInv, Commit
    PROVE  RunInv'
<1> DEFINE n == command.node
           patch == run.nodes[n].evidence.patch
           staged == {w \in tree : w.path \in PathsOf(patch)}
           commit == [node |-> n, content |-> staged]
           Commits == [node: Nodes, content: SUBSET Writes]
<1>1. /\ command # NoCommand /\ command.op = "integrate" /\ command.step = "commit"
      /\ branch' = Append(branch, commit) /\ tree' = tree \ staged
      /\ command'.node = n /\ command'.op = "integrate" /\ command'.step = "publish"
      /\ UNCHANGED <<run, results, providers, server>>
  BY DEF Commit, Processing, Continues
<1>2. /\ n \in Nodes /\ run.nodes[n].state = "integrating"
      /\ run.nodes[n].evidence.base = Len(branch) /\ Holds(tree, n)
  BY <1>1 DEF RunInv, CommandInv
<1>3. Holds(staged, n)
  BY <1>2 DEF Holds, PathsOf
<1>4. tree \subseteq Writes /\ branch \in Seq(Commits)
  BY DEF RunInv, BranchInv
<1>5. commit \in Commits /\ commit.node = n /\ commit.content = staged
  BY <1>2, <1>4
<1>6. \A i \in 1..Len(branch) :
          /\ run.nodes[branch[i].node].state \in Settled
          /\ run.nodes[branch[i].node].evidence.base = i - 1
          /\ Holds(branch[i].content, branch[i].node)
  BY DEF RunInv, BranchInv
<1> HIDE DEF n, patch, staged, commit, Commits
<1>7. /\ Len(branch) \in Nat /\ branch' \in Seq(Commits) /\ Len(branch') = Len(branch) + 1
      /\ branch'[Len(branch) + 1] = commit
      /\ \A i \in 1..Len(branch) : branch'[i] = branch[i]
  BY <1>1, <1>4, <1>5
<1>8. ASSUME NEW i \in 1..Len(branch')
      PROVE  /\ run.nodes[branch'[i].node].state \in Settled
             /\ run.nodes[branch'[i].node].evidence.base = i - 1
             /\ Holds(branch'[i].content, branch'[i].node)
  <2>1. CASE i \in 1..Len(branch)
    BY <1>6, <1>7, <2>1
  <2>2. CASE i = Len(branch) + 1
    BY <1>2, <1>3, <1>5, <1>7, <2>2 DEF Settled
  <2> QED
    BY <1>7, <2>1, <2>2
<1>9. BranchInv'
  <2>1. tree' \subseteq Writes
    BY <1>1, <1>4
  <2> QED
    BY <1>1, <1>7, <1>8, <2>1 DEF BranchInv, Holds, Key, Commits
<1>10. CommandInv'
  <2>1. /\ Len(branch') \in 1..Len(branch') /\ run'.nodes[n].evidence.base = Len(branch') - 1
        /\ run'.nodes[n].evidence.patch \subseteq branch'[Len(branch')].content
    BY <1>1, <1>2, <1>3, <1>5, <1>7 DEF Holds
  <2> QED
    BY <1>1, <1>2, <2>1 DEF CommandInv, Landed
<1>11. ResultsInv'
  <2>1. ASSUME NEW m \in Nodes, results[m] # 0
        PROVE  Landed(m, results[m])'
    <3>1. Landed(m, results[m])
      BY <2>1 DEF RunInv, ResultsInv
    <3> QED
      BY <1>1, <1>7, <3>1 DEF Landed
  <2> QED
    BY <1>1, <2>1 DEF RunInv, ResultsInv, Landed
<1>12. NodesInv' /\ ProvidersInv' /\ ServerInv'
  BY <1>1 DEF RunInv, NodesInv, Quiet, Key, Sound, DependenciesSatisfied, Satisfied,
              ProvidersInv, ServerInv
<1> QED
  BY <1>9, <1>10, <1>11, <1>12 DEF RunInv

\* The later steps of a command: at most one node moves, or one store.
LEMMA CommandSteps ==
    ASSUME RunInv, CommandStep
    PROVE  RunInv'
<1> DEFINE n == command.node
<1> USE DEF Settled, Worked, SatisfiedStates
<1>1. /\ NodesInv /\ (UNCHANGED server => ServerInv')
      /\ command # NoCommand =>
            /\ n \in Nodes /\ Shaped(run.nodes[n]) /\ NodeApproved(run.nodes[n])
            /\ Sound(n, run.nodes[n])
            /\ run.nodes[n].state = "completed" => results[n] # 0
  BY DEF RunInv, NodesInv, ServerInv, CommandInv, ResultsInv
<1>2. CASE AssistanceAnswered
  <2>1. /\ command # NoCommand /\ Append1(n, run.nodes[n])
        /\ UNCHANGED <<tree, branch, results, providers, server>> /\ command' = NoCommand
    BY <1>2 DEF AssistanceAnswered, Processing, Returns
  <2> QED
    BY <1>1, <2>1, NodeStep
<1>3. CASE StartOrLocate
  <2> DEFINE k == Key(n)
  <2>1. /\ command # NoCommand /\ providers' = [providers EXCEPT ![k] = Locate(providers[k])]
        /\ command'.node = n /\ command'.op = "start"
        /\ UNCHANGED <<run, tree, branch, results, server>>
    BY <1>3 DEF StartOrLocate, Processing, Continues, durable
  <2>2. CommandInv'
    BY <1>1, <2>1 DEF CommandInv
  <2>3. k \in Keys => /\ ProviderOK(Locate(providers[k]))
                      /\ providers[k].codex = "ended" => Locate(providers[k]).codex = "ended"
    BY ProviderSteps DEF RunInv, ProvidersInv
  <2> HIDE DEF k
  <2> QED
    BY <2>1, <2>2, <2>3, ProviderStep
<1>4. CASE ProviderBound \/ ValidationBound
  <2> DEFINE node == [run.nodes[n] EXCEPT !.bound = TRUE]
  <2>1. /\ command # NoCommand /\ Append1(n, node)
        /\ UNCHANGED <<tree, branch, results, providers, server>> /\ command' = NoCommand
    BY <1>4 DEF ProviderBound, ValidationBound, Processing, Returns
  <2>2. /\ Shaped(node) /\ node.state = run.nodes[n].state
        /\ node.attempt = run.nodes[n].attempt /\ node.evidence = run.nodes[n].evidence
        /\ node.reviewer = run.nodes[n].reviewer /\ node.approver = run.nodes[n].approver
    BY <1>1, <2>1 DEF Shaped
  <2> HIDE DEF node
  <2>3. Sound(n, node) /\ NodeApproved(node)
    BY <1>1, <2>1, <2>2 DEF Sound, NodeApproved
  <2> QED
    BY <1>1, <2>1, <2>2, <2>3, NodeStep
<1>5. CASE StartRaises \/ ValidationRaises
  <2>1. UNCHANGED <<run, tree, branch, results, providers, server>> /\ command' = NoCommand
    BY <1>5 DEF StartRaises, ValidationRaises, Raises
  <2>2. CommandInv'
    BY <2>1 DEF CommandInv
  <2> QED
    BY <1>1, <2>1, <2>2, CommandOnlyStep
<1>6. CASE RequestChecks \/ \E result \in {"passed", "failed"} : ChecksRun(result)
  <2>1. /\ command # NoCommand /\ UNCHANGED <<run, tree, branch, results, providers, server>>
        /\ command'.node = n /\ command'.op = "validate"
    BY <1>6 DEF RequestChecks, ChecksRun, Processing, Continues
  <2>2. CommandInv'
    BY <1>1, <2>1 DEF CommandInv
  <2> QED
    BY <1>1, <2>1, <2>2, CommandOnlyStep
<1>7. CASE ObserveRunning
  <2>1. command # NoCommand /\ UNCHANGED <<tree, branch, results, providers, server>> /\ command' = NoCommand
    BY <1>7 DEF ObserveRunning, Processing, Returns, ReturnsLatest
  <2>2. UNCHANGED run \/ Append1(n, [run.nodes[n] EXCEPT !.seen = "running"])
    BY <1>7 DEF ObserveRunning, ReturnsLatest
  <2>3. CASE UNCHANGED run
    <3>1. CommandInv'
      BY <2>1 DEF CommandInv
    <3> QED
      BY <1>1, <2>1, <2>3, <3>1, CommandOnlyStep
  <2>4. CASE Append1(n, [run.nodes[n] EXCEPT !.seen = "running"])
    <3> DEFINE node == [run.nodes[n] EXCEPT !.seen = "running"]
    <3>1. /\ Shaped(node) /\ node.state = run.nodes[n].state
          /\ node.attempt = run.nodes[n].attempt /\ node.evidence = run.nodes[n].evidence
          /\ node.reviewer = run.nodes[n].reviewer /\ node.approver = run.nodes[n].approver
      BY <1>1, <2>1 DEF Shaped
    <3>2. Append1(n, node)
      BY <2>4
    <3> HIDE DEF node
    <3>3. Sound(n, node) /\ NodeApproved(node)
      BY <1>1, <2>1, <3>1 DEF Sound, NodeApproved
    <3> QED
      BY <1>1, <2>1, <3>1, <3>2, <3>3, NodeStep
  <2> QED
    BY <2>2, <2>3, <2>4
<1>8. CASE ObserveLost
  <2> DEFINE node == Ended(n, "lost")
  <2>1. /\ command # NoCommand /\ command.op = "observe" /\ Append1(n, node)
        /\ UNCHANGED <<tree, branch, results, providers, server>> /\ command' = NoCommand
    BY <1>8 DEF ObserveLost, Processing, Returns
  <2>2. run.nodes[n].state = "implementing"
    BY <2>1 DEF RunInv, CommandInv
  <2>3. Shaped(node) /\ node.state = "failed"
    BY <1>1, <2>1, MovedFields DEF Ended, Shaped
  <2> HIDE DEF node
  <2>4. Sound(n, node) /\ NodeApproved(node)
    BY <1>1, <2>1, <2>2, <2>3, SoundMoves DEF NodeApproved
  <2> QED
    BY <1>1, <2>1, <2>2, <2>3, <2>4, NodeStep
<1>9. CASE PublishResult
  <2>1. /\ command # NoCommand /\ command.op = "integrate" /\ command.step = "publish"
        /\ results' = [results EXCEPT ![n] = Len(branch)]
        /\ UNCHANGED <<run, tree, branch, providers, server>>
        /\ \/ command' = NoCommand
           \/ command'.node = n /\ command'.op = "integrate" /\ command'.step = "complete"
    BY <1>9 DEF PublishResult, Processing, Continues, Raises
  <2>2. run.nodes[n].state = "integrating" /\ n \in Nodes /\ Landed(n, Len(branch))
    BY <2>1 DEF RunInv, CommandInv
  <2>3. /\ results' = [m \in Nodes |-> results'[m]] /\ results'[n] = Len(branch)
        /\ \A m \in Nodes \ {n} : results'[m] = results[m]
    BY <2>1, <2>2 DEF RunInv, ResultsInv
  <2>4. Len(branch) # 0
    BY <2>2 DEF RunInv, BranchInv, Landed
  <2>5. ResultsInv'
    BY <2>1, <2>2, <2>3, <2>4 DEF RunInv, ResultsInv, Landed
  <2>6. CommandInv'
    BY <2>1, <2>2, <2>3, <2>4 DEF CommandInv
  <2>7. ProvidersInv' /\ BranchInv' /\ ServerInv'
    BY <2>1 DEF RunInv, ProvidersInv, BranchInv, Holds, Key, ServerInv
  <2>8. NodesInv'
    BY <2>1 DEF RunInv, NodesInv, Quiet, Key, Sound, DependenciesSatisfied, Satisfied
  <2> QED
    BY <2>5, <2>6, <2>7, <2>8 DEF RunInv
<1>10. CASE Completes
  <2> DEFINE node == Moved(n, "completed", server)
  <2>1. /\ command # NoCommand /\ command.op = "integrate" /\ command.step = "complete"
        /\ Append1(n, node)
        /\ UNCHANGED <<tree, branch, results, providers, server>> /\ command' = NoCommand
    BY <1>10 DEF Completes, Processing, Returns
  <2>2. run.nodes[n].state = "integrating" /\ n \in Nodes /\ results[n] # 0
    BY <2>1 DEF RunInv, CommandInv
  <2>3. /\ Shaped(node) /\ node.state = "completed"
        /\ node.attempt = run.nodes[n].attempt /\ node.evidence = run.nodes[n].evidence
        /\ node.reviewer = run.nodes[n].reviewer /\ node.approver = run.nodes[n].approver
    BY <1>1, <2>1, MovedFields
  <2> HIDE DEF node
  <2>4. Sound(n, node) /\ NodeApproved(node)
    BY <1>1, <2>1, <2>2, <2>3, SoundMoves DEF NodeApproved
  <2> QED
    BY <1>1, <2>1, <2>2, <2>3, <2>4, NodeStep
<1> QED
  BY <1>2, <1>3, <1>4, <1>5, <1>6, <1>7, <1>8, <1>9, <1>10, CommitStep DEF CommandStep

-----------------------------------------------------------------------------
(* Workers, Codex and ticks *)

\* A command in progress is not affected by what changes providers alone.
LEMMA WorkerSteps ==
    ASSUME RunInv, NEW k \in Keys,
           WorkerClaims(k) \/ WorkerStep(k) \/ WorkerKilled(k)
    PROVE  RunInv'
<1> DEFINE p == providers[k]
<1>1. ProviderOK(p) /\ p.codex \in {"none", "running", "ended"}
  BY DEF RunInv, ProvidersInv, ProviderOK, Provider
<1>2. ASSUME NEW enabled, NEW q, Process(k, enabled, q), ProviderOK(q),
             p.codex = "ended" => q.codex = "ended"
      PROVE  RunInv'
  <2>1. /\ providers' = [providers EXCEPT ![k] = q]
        /\ UNCHANGED <<run, tree, branch, results, server, command>>
    BY <1>2 DEF Process, durable
  <2>2. CommandInv'
    BY <2>1 DEF RunInv, CommandInv, Holds, Key, Landed
  <2> QED
    BY <1>2, <2>1, <2>2, ProviderStep
<1>3. CASE WorkerClaims(k)
  <2>1. Process(k, p.waiting > 0, Claim(p)) /\ p.waiting > 0
    BY <1>3 DEF WorkerClaims, Process
  <2> QED
    BY <1>1, <1>2, <2>1, ProviderSteps
<1>4. CASE WorkerPublishesClaim(k)
  <2>1. Process(k, Working(p) /\ p.claim = "lock", PublishClaim(p))
    BY <1>4 DEF WorkerPublishesClaim
  <2> QED
    BY <1>1, <1>2, <2>1, ProviderSteps
<1>5. CASE CodexLaunches(k)
  <2>1. Process(k, CanLaunch(p), Launch(p)) /\ CanLaunch(p)
    BY <1>5 DEF CodexLaunches, Process
  <2> QED
    BY <1>1, <1>2, <2>1, ProviderSteps
<1>6. CASE LaunchRefused(k)
  <2>1. Process(k, CanLaunch(p), LaunchFails(p)) /\ CanLaunch(p)
    BY <1>6 DEF LaunchRefused, Process
  <2> QED
    BY <1>1, <1>2, <2>1, ProviderSteps
<1>7. CASE CodexExits(k)
  <2>1. Process(k, p.codex = "running", CodexEnds(p)) /\ p.codex = "running"
    BY <1>7 DEF CodexExits, Process
  <2> QED
    BY <1>1, <1>2, <2>1, ProviderSteps
<1>8. CASE CodexTimesOut(k)
  <2>1. Process(k, Working(p) /\ p.codex = "running", TimesOut(p)) /\ p.codex = "running"
    BY <1>8 DEF CodexTimesOut, Process
  <2> QED
    BY <1>1, <1>2, <2>1, ProviderSteps
<1>9. ASSUME NEW result \in {"succeeded", "failed"}, WorkerReports(k, result)
      PROVE  RunInv'
  <2>1. /\ Process(k, Working(p) /\ p.codex = "ended", PublishTerminal(p, result))
        /\ p.codex = "ended"
    BY <1>9 DEF WorkerReports, Process
  <2> QED
    BY <1>1, <1>2, <2>1, ProviderSteps
<1>10. CASE WorkerKilled(k)
  <2>1. Process(k, Working(p), WorkerDies(p))
    BY <1>10 DEF WorkerKilled
  <2> QED
    BY <1>1, <1>2, <2>1, ProviderSteps
<1> QED
  BY <1>3, <1>4, <1>5, <1>6, <1>7, <1>8, <1>9, <1>10 DEF WorkerStep

\* A Codex that runs is not that of a node whose patch waits for its commit.
LEMMA CodexWriteStep ==
    ASSUME RunInv, NEW k \in Keys, NEW path \in Paths, CodexWrites(k, path)
    PROVE  RunInv'
<1> DEFINE write == [node |-> k[1], attempt |-> k[2], path |-> path]
<1>1. /\ providers[k].codex = "running" /\ tree' = tree \cup {write}
      /\ UNCHANGED <<run, branch, results, providers, server, command>>
  BY DEF CodexWrites
<1>2. k[1] \in Nodes /\ k[2] \in Nat /\ k = <<k[1], k[2]>>
  BY TaskManagerRunsAssumption DEF Keys, Tasks
<1>3. write \in Writes /\ write.node = k[1] /\ write.attempt = k[2]
  BY <1>2 DEF Writes
<1> HIDE DEF write
<1>4. CommandInv'
  <2> SUFFICES ASSUME command # NoCommand, command.op = "integrate", command.step = "commit"
               PROVE  Holds(tree', command.node)
    BY <1>1 DEF RunInv, CommandInv, Holds, Key, Landed
  <2>1. /\ command.node \in Nodes /\ run.nodes[command.node].state = "integrating"
        /\ Holds(tree, command.node)
    BY DEF RunInv, CommandInv
  <2>2. Quiet(command.node)
    BY <2>1 DEF RunInv, NodesInv, Worked, Settled
  <2>3. k # Key(command.node)
    BY <1>1, <2>2 DEF Quiet
  <2> QED
    BY <1>1, <1>2, <1>3, <2>1, <2>3 DEF Holds
<1>5. BranchInv'
  BY <1>1, <1>3 DEF RunInv, BranchInv, Holds, Key
<1>6. NodesInv' /\ ResultsInv' /\ ProvidersInv' /\ ServerInv'
  BY <1>1 DEF RunInv, NodesInv, Quiet, Key, Sound, DependenciesSatisfied, Satisfied,
              ResultsInv, Landed, ProvidersInv, ServerInv
<1> QED
  BY <1>4, <1>5, <1>6 DEF RunInv

\* What leaves the run, its workspace and its providers alone: the steps of
\* the coordinator, its lease, and the server
LEMMA OtherSteps ==
    ASSUME RunInv,
           \/ \E t \in Tickers : \/ BeginTick(t) \/ ReadCursor(t) \/ InitializeCursor(t)
                                 \/ RecordIntent(t) \/ ExecuteStale(t) \/ Project(t)
           \/ ExpireLease \/ ServerStops \/ \E a \in Actors : ServerStarts(a)
           \/ UNCHANGED vars
    PROVE  RunInv'
<1>1. UNCHANGED <<run, tree, branch, results, providers>>
  BY DEF BeginTick, ReadCursor, InitializeCursor, RecordIntent, ExecuteStale, Project,
         ExpireLease, ServerStops, ServerStarts, durable, vars
<1>2. (UNCHANGED server \/ server' \in Actors \cup {NoActor})
      /\ (UNCHANGED command \/ command' = NoCommand)
  BY DEF BeginTick, ReadCursor, InitializeCursor, RecordIntent, ExecuteStale, Project,
         ExpireLease, ServerStops, ServerStarts, vars
<1>3. ServerInv' /\ CommandInv'
  BY <1>1, <1>2 DEF RunInv, ServerInv, CommandInv, Holds, Key, Landed
<1> QED
  BY <1>1, <1>3, CommandOnlyStep

-----------------------------------------------------------------------------
(* The invariant and what it implies *)

\* A run that was assembled has no commit and no provider.
LEMMA InitRunInv == Init => RunInv
<1> SUFFICES ASSUME Init PROVE RunInv
  OBVIOUS
<1>1. ProviderOK(NewProvider)
  BY DEF ProviderOK, Provider, NewProvider
<1>2. ProvidersInv
  BY <1>1 DEF Init, ProvidersInv, ProviderOK
<1>3. \A n \in Nodes : /\ Shaped(NewNode(n))
                       /\ NewNode(n).state = IF KindOf[n] = "human_gate" THEN "plan_review" ELSE "planned"
  BY DEF Shaped, NewNode
<1>4. NodesInv
  <2>1. run.nodes = [n \in Nodes |-> NewNode(n)] /\ run = [rev |-> run.rev, nodes |-> run.nodes]
    BY DEF Init
  <2>2. \A n \in Nodes : Sound(n, run.nodes[n])
    BY <1>3, <2>1 DEF Sound
  <2> QED
    BY <1>3, <2>1, <2>2 DEF NodesInv, NodeApproved, Worked, Settled
<1>5. BranchInv /\ ResultsInv /\ CommandInv /\ ServerInv
  BY <1>3 DEF Init, BranchInv, ResultsInv, CommandInv, ServerInv
<1> QED
  BY <1>2, <1>4, <1>5 DEF RunInv

\* Every step keeps it, action by action.
LEMMA NextRunInv == RunInv /\ [Next]_vars => RunInv'
<1> SUFFICES ASSUME RunInv, [Next]_vars PROVE RunInv'
  OBVIOUS
<1>1. CASE Next
  <2>1. CASE \E n \in Nodes : Human(n) \/ Begins(Direct, n)
    BY <2>1, HumanSteps, BeginSteps
  <2>2. CASE CommandStep
    BY <2>2, CommandSteps
  <2>3. CASE \E k \in Keys : \/ WorkerClaims(k) \/ WorkerStep(k) \/ WorkerKilled(k)
                            \/ \E path \in Paths : CodexWrites(k, path)
    BY <2>3, WorkerSteps, CodexWriteStep
  <2>4. CASE \E t \in Tickers : TickStep(t)
    <3>1. PICK t \in Tickers : TickStep(t)
      BY <2>4
    <3>2. CASE \E n \in Nodes : Begins(t, n)
      BY <3>2, BeginSteps
    <3>3. CASE \/ BeginTick(t) \/ ReadCursor(t) \/ InitializeCursor(t)
               \/ RecordIntent(t) \/ ExecuteStale(t) \/ Project(t)
      BY <3>3, OtherSteps
    <3> QED
      BY <3>1, <3>2, <3>3 DEF TickStep
  <2>5. CASE ExpireLease \/ ServerStops \/ \E a \in Actors : ServerStarts(a)
    BY <2>5, OtherSteps
  <2> QED
    BY <1>1, <2>1, <2>2, <2>3, <2>4, <2>5 DEF Next
<1>2. CASE UNCHANGED vars
  BY <1>2, OtherSteps
<1> QED
  BY <1>1, <1>2

\* The inductive invariant: what providers, nodes, commits and the command in
\* progress owe to each other between any two steps of server, worker and Codex
THEOREM RunInvHolds == Spec => []RunInv
<1>1. Init => RunInv
  BY InitRunInv
<1>2. RunInv /\ [Next]_vars => RunInv'
  BY NextRunInv
<1> QED
  BY <1>1, <1>2, PTL DEF Spec

\* What satisfies a node is proven: gates come after their dependencies, a
\* deliverable changed nothing and passed, completed source work names a
\* commit on the verified one with all of its patch (the gates of
\* approve_completion_gate, accept_node_review, start_node and the
\* recovery of integrate_checkpoint).
THEOREM SatisfiedWorkIsProven == Spec => []SatisfiedIsProven
<1>1. RunInv => SatisfiedIsProven
  <2> SUFFICES ASSUME RunInv, NEW n \in Nodes
               PROVE  /\ Sound(n, run.nodes[n])
                      /\ run.nodes[n].state = "completed" =>
                            /\ results[n] \in DOMAIN branch
                            /\ run.nodes[n].evidence.base = results[n] - 1
                            /\ run.nodes[n].evidence.patch \subseteq branch[results[n]].content
    BY DEF SatisfiedIsProven, Sound
  <2>1. DOMAIN branch = 1..Len(branch)
    BY DEF RunInv, BranchInv
  <2>2. Sound(n, run.nodes[n])
    BY DEF RunInv, NodesInv
  <2>3. run.nodes[n].state = "completed" => Landed(n, results[n])
    BY DEF RunInv, ResultsInv
  <2> QED
    BY <2>1, <2>2, <2>3 DEF Landed
<1> QED
  BY <1>1, RunInvHolds, PTL

\* Codex is started at most once for a start key, however often
\* start_or_locate is repeated and whichever worker or server stops.
THEOREM CodexStartsOnce == Spec => []OneCodexPerStart
<1>1. RunInv => OneCodexPerStart
  BY DEF RunInv, ProvidersInv, ProviderOK, OneCodexPerStart
<1> QED
  BY <1>1, RunInvHolds, PTL

\* A commit of the run branch is its node's only one, on the commit that was
\* verified, with all of the patch that two principals reviewed and approved
\* and nothing else that the node's own attempt wrote (integrate_checkpoint).
THEOREM CommitsHoldWhatWasApproved == Spec => []CommitsAreApproved
<1>1. RunInv => CommitsAreApproved
  <2> SUFFICES ASSUME RunInv, NEW i \in 1..Len(branch)
               PROVE  LET n == branch[i].node
                          node == run.nodes[n]
                      IN  /\ Committed(n) = {i}
                          /\ node.state \in {"integrating", "completed"}
                          /\ node.evidence # NoEvidence /\ node.evidence.passes
                          /\ node.evidence.base = i - 1
                          /\ node.evidence.patch \subseteq branch[i].content
                          /\ {node.reviewer, node.approver} \subseteq Actors
                          /\ node.reviewer # node.approver
                          /\ \A w \in branch[i].content \ node.evidence.patch :
                                 <<w.node, w.attempt>> # Key(n)
    <3>1. DOMAIN branch = 1..Len(branch)
      BY DEF RunInv, BranchInv
    <3> QED
      BY <3>1 DEF CommitsAreApproved
  <2> DEFINE n == branch[i].node
  <2>1. BranchInv /\ n \in Nodes
    BY CommitsAreOfNodes DEF RunInv
  <2>2. \A j \in 1..Len(branch) : branch[j].node = n => j = i
    <3> SUFFICES ASSUME NEW j \in 1..Len(branch), branch[j].node = n PROVE j = i
      OBVIOUS
    <3>1. run.nodes[n].evidence.base = j - 1 /\ run.nodes[n].evidence.base = i - 1
      BY <2>1 DEF BranchInv
    <3> QED
      BY <3>1
  <2>3. Committed(n) = {i}
    <3>1. DOMAIN branch = 1..Len(branch)
      BY <2>1 DEF BranchInv
    <3> QED
      BY <2>2, <3>1 DEF Committed
  <2>4. /\ run.nodes[n].state \in Settled /\ run.nodes[n].evidence.base = i - 1
        /\ Holds(branch[i].content, n)
    BY <2>1 DEF BranchInv
  <2>5. NodeApproved(run.nodes[n])
    BY <2>1 DEF RunInv, NodesInv
  <2> QED
    BY <2>3, <2>4, <2>5 DEF Holds, NodeApproved, Settled
<1> QED
  BY <1>1, RunInvHolds, PTL

-----------------------------------------------------------------------------
(* The coordinator: what a tick and the cursor tell of the run *)

\* A decision with something to do names a node.
Good(d) == d \in Decisions /\ (d.action \in SideEffects => d.node \in Nodes)

\* What a ticker has read: of this revision, or of an earlier one
TickOK(tick, revision) ==
    /\ tick \in [step: {"idle", "cursor", "intent", "execute", "project"},
                 rev: Nat, decision: Decisions, fresh: BOOLEAN]
    /\ Good(tick.decision)
    /\ tick.step # "idle" => tick.rev > 0
    /\ tick.step = "intent" => tick.decision.action \in SideEffects
    /\ tick.rev <= revision.rev
    /\ tick.rev = revision.rev => tick.decision = Decide(revision.nodes)

TicksInv ==
    /\ ticks = [t \in Tickers |-> ticks[t]]
    /\ \A t \in Tickers : TickOK(ticks[t], run)

CursorInv == cursor \in CursorRevision /\ Good(cursor.decision) /\ CursorShowsNextStep

\* A gate only waits and is approved; a task is dispatched with an attempt.
AttemptOK(n, node) ==
    /\ KindOf[n] = "human_gate" => node.state \in {"plan_review", "gate_approved"}
    /\ KindOf[n] = "task" => /\ node.attempt <= MaxAttempts
                             /\ node.state = "implementing" => node.attempt >= 1

RecordsInv == run \in RunRevision /\ \A n \in Nodes : AttemptOK(n, run.nodes[n])

RestTyped ==
    /\ interactions \in 0..MaxInteractions
    /\ validations \in [Validations -> [asked: BOOLEAN, base: Nat,
                                        terminal: {"none", "passed", "failed"}]]
    /\ results \in [Nodes -> Nat]
    /\ lease \in Tickers \cup {Free}
    /\ command \in Commands \cup {NoCommand}
    /\ crashes \in 0..Crashes /\ deaths \in 0..WorkerDeaths

CoordinatorInv == RecordsInv /\ TicksInv /\ CursorInv /\ RestTyped

\* The first of some positions
LEMMA FirstPosition ==
    ASSUME NEW S \in SUBSET Nat, S # {}
    PROVE  Min(S) \in S
<1> DEFINE less == OpToRel(<, Nat)
<1>1. \A x, y \in Nat : <<x, y>> \in less <=> x < y
  BY DEF OpToRel
<1>2. PICK x \in S : \A y \in S : <<y, x>> \notin less
  <2>1. IsWellFoundedOn(less, Nat)
    BY NatLessThanWellFounded
  <2> HIDE DEF less
  <2> QED
    BY <2>1, WFMin
<1> HIDE DEF less
<1>3. ASSUME NEW y \in S PROVE x <= y
  <2>1. x \in Nat /\ y \in Nat /\ <<y, x>> \notin less
    BY <1>2
  <2>2. ~(y < x)
    BY <1>1, <2>1
  <2> QED
    BY <2>1, <2>2
<1> QED
  BY <1>3 DEF Min

\* The coordinator decides on a node of the run.
LEMMA DecideGood ==
    ASSUME NEW nodes
    PROVE  Good(Decide(nodes))
<1> USE DEF Good, Decisions, Decision, SideEffects
<1>1. \A n \in Nodes : Good(ActiveDecision(n, nodes[n]))
  BY DEF ActiveDecision
<1>2. Good(ReadyDecision(nodes))
  <2> DEFINE ready == {i \in DOMAIN Order : /\ nodes[Order[i]].state \in {"planned", "plan_review"}
                                           /\ DependenciesSatisfied(nodes, Order[i])}
             n == Order[Min(ready)]
  <2>1. CASE ready = {}
    BY <2>1 DEF ReadyDecision
  <2>2. CASE ready # {}
    <3>1. DOMAIN Order \subseteq Nat
      BY RunNodesAssumption
    <3>2. Min(ready) \in DOMAIN Order
      BY <2>2, <3>1, FirstPosition
    <3>3. n \in Nodes
      BY <3>2 DEF Nodes, ToSet
    <3>4. ReadyDecision(nodes) = Decision(CASE KindOf[n] = "human_gate" -> "wait_human"
                                            [] KindOf[n] = "validation" -> "validate"
                                            [] OTHER -> "start", n)
      BY <2>2, Zenon DEF ReadyDecision
    <3> HIDE DEF n
    <3> QED
      BY <3>3, <3>4
  <2> QED
    BY <2>1, <2>2
<1>3. Cardinality(Active(nodes)) = 1 => (CHOOSE m \in Active(nodes) : TRUE) \in Nodes
  <2>1. Cardinality(Active(nodes)) = 1 => Active(nodes) # {}
    BY FS_EmptySet
  <2> QED
    BY <2>1 DEF Active
<1> QED
  BY <1>1, <1>2, <1>3 DEF Decide

\* A ticker at rest is up to date with every revision.
LEMMA IdleOK ==
    ASSUME NEW revision \in RunRevision
    PROVE  TickOK(Idle, revision)
BY DEF TickOK, Idle, Good, Decision, Decisions, SideEffects, RunRevision

\* A command answers a tick with the revision it leaves.
LEMMA AnsweredOK ==
    ASSUME TicksInv, RecordsInv, NEW by, NEW revision \in RunRevision,
           revision.rev > run.rev \/ revision = run
    PROVE  LET new == Answered(by, revision.rev, revision.nodes)
           IN  new = [t \in Tickers |-> new[t]] /\ \A t \in Tickers : TickOK(new[t], revision)
<1> DEFINE tick == [ticks[by] EXCEPT !.step = "project", !.rev = revision.rev,
                                     !.decision = Decide(revision.nodes)]
           new == Answered(by, revision.rev, revision.nodes)
<1>1. run.rev \in Nat /\ revision.rev \in Nat \ {0}
  BY DEF RecordsInv, RunRevision
<1>2. \A t \in Tickers : TickOK(ticks[t], revision)
  <2> SUFFICES ASSUME NEW t \in Tickers, revision.rev > run.rev PROVE TickOK(ticks[t], revision)
    BY DEF TicksInv
  <2>1. TickOK(ticks[t], run) /\ ticks[t].rev \in Nat
    BY DEF TicksInv, TickOK
  <2> QED
    BY <1>1, <2>1 DEF TickOK
<1>3. CASE by \in Tickers
  <2>1. TickOK(ticks[by], run)
    BY <1>3 DEF TicksInv
  <2>2. /\ tick.step = "project" /\ tick.rev = revision.rev /\ tick.decision = Decide(revision.nodes)
        /\ tick \in [step: {"idle", "cursor", "intent", "execute", "project"},
                     rev: Nat, decision: Decisions, fresh: BOOLEAN]
    BY <1>1, <2>1, DecideGood DEF TickOK, Good
  <2> HIDE DEF tick
  <2>3. TickOK(tick, revision)
    BY <1>1, <2>2, DecideGood DEF TickOK
  <2>4. new = [ticks EXCEPT ![by] = tick]
    BY <1>3, TaskManagerRunsAssumption DEF Answered, tick
  <2> HIDE DEF new
  <2> QED
    BY <1>2, <1>3, <2>3, <2>4 DEF TicksInv, new
<1>4. CASE by \notin Tickers
  <2>1. new = ticks
    BY <1>4 DEF Answered, TicksInv
  <2> HIDE DEF new
  <2> QED
    BY <1>2, <2>1 DEF TicksInv, new
<1> QED
  BY <1>3, <1>4

\* A command that appends a revision of the run
LEMMA RevisionStep ==
    ASSUME CoordinatorInv, NEW n \in Nodes, NEW node \in NodeRecord, AttemptOK(n, node),
           Append1(n, node), cursor' = cursor, NEW by,
           ticks' = ticks \/ ticks' = Answered(by, run'.rev, run'.nodes),
           RestTyped'
    PROVE  CoordinatorInv'
<1>1. run.rev \in Nat /\ run.nodes \in [Nodes -> NodeRecord] /\ \A m \in Nodes : AttemptOK(m, run.nodes[m])
  BY DEF CoordinatorInv, RecordsInv, RunRevision
<1>2. run'.rev = run.rev + 1 /\ run'.nodes = [run.nodes EXCEPT ![n] = node] /\ run' \in RunRevision
  BY <1>1 DEF Append1, RunRevision
<1>3. RecordsInv'
  BY <1>1, <1>2 DEF RecordsInv, AttemptOK
<1>4. TicksInv'
  <2>1. CASE ticks' = ticks
    <3> SUFFICES ASSUME NEW t \in Tickers PROVE TickOK(ticks[t], run')
      BY <2>1 DEF CoordinatorInv, TicksInv
    <3>1. TickOK(ticks[t], run) /\ ticks[t].rev \in Nat
      BY DEF CoordinatorInv, TicksInv, TickOK
    <3> QED
      BY <1>1, <1>2, <3>1 DEF TickOK
  <2>2. CASE ticks' = Answered(by, run'.rev, run'.nodes)
    <3> DEFINE revision == run'
    <3>1. revision \in RunRevision /\ revision.rev > run.rev
      BY <1>1, <1>2
    <3>2. ticks' = Answered(by, revision.rev, revision.nodes)
      BY <2>2
    <3> HIDE DEF revision
    <3>3. ticks' = [t \in Tickers |-> ticks'[t]] /\ \A t \in Tickers : TickOK(ticks'[t], revision)
      BY <3>1, <3>2, AnsweredOK DEF CoordinatorInv
    <3> QED
      BY <3>3 DEF TicksInv, revision
  <2> QED
    BY <2>1, <2>2
<1>5. CursorInv'
  <2>1. cursor.run \in Nat /\ cursor.run <= run.rev
    BY DEF CoordinatorInv, CursorInv, CursorShowsNextStep, CursorRevision
  <2>2. CursorShowsNextStep'
    BY <1>1, <1>2, <2>1 DEF CursorShowsNextStep
  <2> QED
    BY <2>2 DEF CoordinatorInv, CursorInv
<1> QED
  BY <1>3, <1>4, <1>5 DEF CoordinatorInv

\* A step that leaves the run and the cursor
LEMMA QuietStep ==
    ASSUME CoordinatorInv, run' = run, cursor' = cursor, NEW by,
           \/ ticks' = Answered(by, run.rev, run.nodes)
           \/ /\ ticks' = [t \in Tickers |-> ticks'[t]]
              /\ \A t \in Tickers : ticks'[t] \in {ticks[t], Idle},
           RestTyped'
    PROVE  CoordinatorInv'
<1>1. run \in RunRevision
  BY DEF CoordinatorInv, RecordsInv
<1>2. RecordsInv' /\ CursorInv'
  BY DEF CoordinatorInv, RecordsInv, AttemptOK, CursorInv, CursorShowsNextStep
<1>3. TicksInv'
  <2>1. CASE ticks' = Answered(by, run.rev, run.nodes)
    <3>1. ticks' = [t \in Tickers |-> ticks'[t]] /\ \A t \in Tickers : TickOK(ticks'[t], run)
      BY <1>1, <2>1, AnsweredOK DEF CoordinatorInv
    <3> QED
      BY <3>1 DEF TicksInv
  <2>2. CASE /\ ticks' = [t \in Tickers |-> ticks'[t]]
             /\ \A t \in Tickers : ticks'[t] \in {ticks[t], Idle}
    BY <1>1, <2>2, IdleOK DEF CoordinatorInv, TicksInv
  <2> QED
    BY <2>1, <2>2
<1> QED
  BY <1>2, <1>3 DEF CoordinatorInv

\* A step of one ticker, that may append to the cursor what it has read
LEMMA TickerStep ==
    ASSUME CoordinatorInv, run' = run, NEW t \in Tickers, NEW tick, TickOK(tick, run),
           \/ ticks' = [ticks EXCEPT ![t] = tick]
           \/ ticks' = Outdated(t, tick),
           \/ cursor' = cursor
           \/ ticks[t].step # "idle" /\ AppendCursor(ticks[t], FALSE)
           \/ ticks[t].step = "intent" /\ AppendCursor(ticks[t], TRUE),
           RestTyped'
    PROVE  CoordinatorInv'
<1>1. RecordsInv'
  BY DEF CoordinatorInv, RecordsInv, AttemptOK
<1>2. \A u \in Tickers : TickOK(ticks[u], run)
  BY DEF CoordinatorInv, TicksInv
<1>3. TicksInv'
  <2>1. \A u \in Tickers : TickOK([ticks[u] EXCEPT !.fresh = FALSE], run)
    BY <1>2 DEF TickOK
  <2> QED
    BY <1>2, <2>1 DEF CoordinatorInv, TicksInv, Outdated
<1>4. CursorInv'
  <2>1. CASE cursor' = cursor
    BY <2>1 DEF CoordinatorInv, CursorInv, CursorShowsNextStep
  <2>2. ASSUME NEW pending \in BOOLEAN, AppendCursor(ticks[t], pending), ticks[t].step # "idle",
               pending => ticks[t].step = "intent"
        PROVE  CursorInv'
    <3>1. cursor' = [run |-> ticks[t].rev, decision |-> ticks[t].decision, pending |-> pending]
      BY <2>2 DEF AppendCursor
    <3>2. /\ ticks[t].rev \in Nat /\ ticks[t].rev > 0 /\ Good(ticks[t].decision)
          /\ ticks[t].rev <= run.rev
          /\ ticks[t].rev = run.rev => ticks[t].decision = Decide(run.nodes)
          /\ pending => ticks[t].decision.action \in SideEffects
      BY <1>2, <2>2 DEF TickOK
    <3> QED
      BY <3>1, <3>2 DEF CursorInv, CursorRevision, CursorShowsNextStep, Good
  <2> QED
    BY <2>1, <2>2
<1> QED
  BY <1>1, <1>3, <1>4 DEF CoordinatorInv
-----------------------------------------------------------------------------
(* The steps of the coordinator's run, typed *)

\* What the invariant says of the record of one node
LEMMA RecordFacts ==
    ASSUME CoordinatorInv, NEW n \in Nodes
    PROVE  /\ run.rev \in Nat \ {0} /\ run.nodes[n] \in NodeRecord /\ AttemptOK(n, run.nodes[n])
           /\ run.nodes[n].attempt \in Nat
BY DEF CoordinatorInv, RecordsInv, RunRevision, NodeRecord

\* A transition leaves a record of a node.
LEMMA MovedTyped ==
    ASSUME CoordinatorInv, NEW n \in Nodes, NEW to \in TaskStates, NEW actor \in Actors \cup {NoActor}
    PROVE  /\ Moved(n, to, actor) \in NodeRecord
           /\ Moved(n, to, actor).state = to /\ Moved(n, to, actor).attempt = run.nodes[n].attempt
<1>1. run.nodes[n] \in NodeRecord
  BY RecordFacts
<1> QED
  BY <1>1 DEF Moved, NodeRecord

\* A raised command ends its tick and may release the run's lease.
LEMMA RaisesTyped ==
    ASSUME CoordinatorInv, NEW by \in Tickers \cup {Direct}, Raises(by)
    PROVE  /\ run' = run /\ command' = NoCommand /\ lease' \in Tickers \cup {Free}
           /\ ticks' = [t \in Tickers |-> ticks'[t]]
           /\ \A t \in Tickers : ticks'[t] \in {ticks[t], Idle}
<1>1. ticks = [t \in Tickers |-> ticks[t]] /\ lease \in Tickers \cup {Free}
  BY DEF CoordinatorInv, TicksInv, RestTyped
<1> QED
  BY <1>1 DEF Raises, EndTick

\* A command that returns answers its tick.
LEMMA ReturnsTyped ==
    ASSUME NEW by, Returns(by)
    PROVE  command' = NoCommand /\ ticks' = Answered(by, run'.rev, run'.nodes)
BY DEF Returns

\* The decisions of a human, and the conversations on a node
LEMMA HumanCoordinates ==
    ASSUME RunInv, CoordinatorInv, NEW n \in Nodes, Human(n)
    PROVE  CoordinatorInv'
<1>1. /\ run.nodes[n] \in NodeRecord /\ AttemptOK(n, run.nodes[n])
      /\ run.nodes[n].attempt \in Nat /\ RestTyped
  BY RecordFacts DEF CoordinatorInv
<1>2. server # NoActor => server \in Actors
  BY DEF RunInv, ServerInv
<1>3. ASSUME NEW node \in NodeRecord, AttemptOK(n, node), Append1(n, node),
             UNCHANGED <<validations, results, cursor, lease, crashes, deaths>>,
             interactions' \in 0..MaxInteractions,
             \/ Returns(Direct)
             \/ Continues("assist", n, Direct, "answer") /\ ticks' = ticks
      PROVE  CoordinatorInv'
  <2>1. command' \in Commands \cup {NoCommand}
    BY <1>3 DEF Returns, Continues, Commands
  <2>2. RestTyped'
    BY <1>1, <1>3, <2>1 DEF RestTyped
  <2>3. ticks' = ticks \/ ticks' = Answered(Direct, run'.rev, run'.nodes)
    BY <1>3 DEF Returns
  <2> QED
    BY <1>3, <2>2, <2>3, RevisionStep
<1>4. interactions \in 0..MaxInteractions
  BY <1>1 DEF RestTyped
<1>5. CASE ConfirmScopeGate(n) \/ ApproveCompletionGate(n)
  <2> DEFINE node == [Moved(n, "gate_approved", server) EXCEPT !.approver = server]
  <2>1. /\ server \in Actors /\ KindOf[n] = "human_gate" /\ Append1(n, node) /\ Returns(Direct)
        /\ UNCHANGED <<interactions, validations, results, cursor, lease, crashes, deaths>>
    BY <1>2, <1>5 DEF ConfirmScopeGate, ApproveCompletionGate, Enters
  <2>2. node \in NodeRecord /\ node.state = "gate_approved"
    BY <2>1, MovedTyped DEF NodeRecord, TaskStates
  <2> HIDE DEF node
  <2>3. AttemptOK(n, node)
    BY <2>1, <2>2 DEF AttemptOK
  <2> QED
    BY <1>3, <1>4, <2>1, <2>2, <2>3
<1>6. ASSUME NEW to \in {"deliverable_accepted", "merge_review"}, KindOf[n] # "human_gate",
             server \in Actors, Append1(n, [Moved(n, to, server) EXCEPT !.reviewer = server]),
             Returns(Direct),
             UNCHANGED <<interactions, validations, results, cursor, lease, crashes, deaths>>
      PROVE  CoordinatorInv'
  <2> DEFINE node == [Moved(n, to, server) EXCEPT !.reviewer = server]
  <2>1. node \in NodeRecord /\ node.state = to /\ node.attempt = run.nodes[n].attempt
    BY <1>6, MovedTyped DEF NodeRecord, TaskStates
  <2>2. Append1(n, node)
    BY <1>6
  <2> HIDE DEF node
  <2>3. AttemptOK(n, node)
    BY <1>1, <1>6, <2>1 DEF AttemptOK
  <2> QED
    BY <1>3, <1>4, <1>6, <2>1, <2>2, <2>3
<1>7. CASE AcceptNodeReview(n)
  BY <1>2, <1>6, <1>7 DEF AcceptNodeReview, Enters
<1>8. CASE ReviewSourceNode(n)
  BY <1>2, <1>6, <1>8 DEF ReviewSourceNode, Enters
<1>9. CASE ApproveSourceCheckpoint(n)
  <2> DEFINE node == [Moved(n, "integrating", server) EXCEPT !.approver = server]
  <2>1. /\ server \in Actors /\ run.nodes[n].state = "merge_review" /\ Append1(n, node)
        /\ Returns(Direct)
        /\ UNCHANGED <<interactions, validations, results, cursor, lease, crashes, deaths>>
    BY <1>2, <1>9 DEF ApproveSourceCheckpoint, Enters
  <2>2. /\ node \in NodeRecord /\ node.state = "integrating"
        /\ node.attempt = run.nodes[n].attempt
    BY <2>1, MovedTyped DEF NodeRecord, TaskStates
  <2> HIDE DEF node
  <2>3. AttemptOK(n, node)
    BY <1>1, <2>1, <2>2 DEF AttemptOK
  <2> QED
    BY <1>3, <1>4, <2>1, <2>2, <2>3
<1>10. CASE RecordHumanFeedback(n) \/ RequestAssistance(n)
  <2>1. /\ Append1(n, run.nodes[n]) /\ interactions < MaxInteractions
        /\ interactions' = interactions + 1
        /\ UNCHANGED <<validations, results, cursor, lease, crashes, deaths>>
        /\ \/ Returns(Direct)
           \/ Continues("assist", n, Direct, "answer") /\ ticks' = ticks
    BY <1>10 DEF RecordHumanFeedback, RequestAssistance, Converses
  <2>2. interactions' \in 0..MaxInteractions
    BY <1>4, <2>1, TaskManagerRunsAssumption
  <2> QED
    BY <1>1, <1>3, <2>1, <2>2
<1> QED
  BY <1>5, <1>7, <1>8, <1>9, <1>10 DEF Human

\* A command of the run, at any of its steps
LEMMA ContinuesTyped ==
    ASSUME NEW op \in {"start", "validate", "observe", "integrate", "assist"}, NEW n \in Nodes,
           NEW by \in Tickers \cup {Direct},
           NEW step \in {"spawn", "await", "check", "report", "bind", "judge",
                         "commit", "publish", "complete", "answer"},
           Continues(op, n, by, step)
    PROVE  command' \in Commands \cup {NoCommand}
BY DEF Continues, Commands

\* What a tick or a direct call begins with
LEMMA BeginCoordinates ==
    ASSUME RunInv, CoordinatorInv, NEW n \in Nodes, NEW by \in Tickers \cup {Direct}, Begins(by, n)
    PROVE  CoordinatorInv'
<1>1. /\ run.nodes[n] \in NodeRecord /\ AttemptOK(n, run.nodes[n])
      /\ run.nodes[n].attempt \in Nat /\ RestTyped
  BY RecordFacts DEF CoordinatorInv
<1>2. KindOf[n] \in {"task", "validation", "human_gate"}
  BY RunNodesAssumption
<1>3. ticks = [t \in Tickers |-> ticks[t]]
  BY DEF CoordinatorInv, TicksInv
<1>4. ASSUME NEW node \in NodeRecord, AttemptOK(n, node), Append1(n, node),
             UNCHANGED <<interactions, validations, results, cursor, lease, crashes, deaths>>,
             command' \in Commands \cup {NoCommand},
             ticks' = ticks \/ ticks' = Answered(by, run'.rev, run'.nodes)
      PROVE  CoordinatorInv'
  <2>1. RestTyped'
    BY <1>1, <1>4 DEF RestTyped
  <2> QED
    BY <1>4, <2>1, RevisionStep
<1>5. ASSUME UNCHANGED <<durable, cursor, crashes, deaths>>,
             command' \in Commands \cup {NoCommand}, lease' \in Tickers \cup {Free},
             ticks' = [t \in Tickers |-> ticks'[t]], \A t \in Tickers : ticks'[t] \in {ticks[t], Idle}
      PROVE  CoordinatorInv'
  <2>1. RestTyped'
    BY <1>1, <1>5 DEF RestTyped, durable
  <2> QED
    BY <1>5, <2>1, QuietStep DEF durable
<1>6. server # NoActor => server \in Actors
  BY DEF RunInv, ServerInv
<1>7. ASSUME server \in Actors, KindOf[n] = "task" => run.nodes[n].attempt < MaxAttempts,
             KindOf[n] # "human_gate"
      PROVE  Authorized1(n) \in NodeRecord /\ AttemptOK(n, Authorized1(n))
  <2> DEFINE node == Authorized1(n)
  <2>1. /\ node \in NodeRecord /\ node.state = "implementing"
        /\ node.attempt = run.nodes[n].attempt + 1
    <3> DEFINE m == Moved(n, "implementing", server)
    <3>1. /\ m \in NodeRecord /\ m.state = "implementing" /\ m.attempt = run.nodes[n].attempt
          /\ run.nodes[n].attempt + 1 \in Nat
      BY <1>1, <1>7, MovedTyped DEF TaskStates
    <3>2. node = [m EXCEPT !.attempt = @ + 1, !.bound = FALSE, !.seen = "none", !.evidence = NoEvidence]
      BY DEF Authorized1
    <3> HIDE DEF m, node
    <3> QED
      BY <3>1, <3>2 DEF NodeRecord
  <2>2. MaxAttempts \in Nat
    BY TaskManagerRunsAssumption
  <2> HIDE DEF node
  <2>3. AttemptOK(n, node)
    BY <1>1, <1>7, <2>1, <2>2 DEF AttemptOK
  <2> QED
    BY <2>1, <2>3 DEF node
<1>8. ASSUME NEW retry \in BOOLEAN, StartNode(by, n, retry)
      PROVE  CoordinatorInv'
  <2>1. /\ server \in Actors /\ KindOf[n] = "task" /\ run.nodes[n].attempt < MaxAttempts
        /\ Append1(n, Authorized1(n)) /\ Continues("start", n, by, "spawn")
        /\ UNCHANGED <<interactions, validations, results, cursor, lease, ticks, crashes, deaths>>
    BY <1>6, <1>8 DEF StartNode, Enters
  <2>2. command' \in Commands \cup {NoCommand}
    BY <2>1, ContinuesTyped
  <2> QED
    BY <1>4, <1>7, <2>1, <2>2
<1>9. CASE AuthorizeValidation(by, n)
  <2>1. /\ server \in Actors /\ KindOf[n] = "validation"
        /\ Append1(n, Authorized1(n)) /\ Continues("validate", n, by, "check")
        /\ UNCHANGED <<interactions, validations, results, cursor, lease, ticks, crashes, deaths>>
    BY <1>6, <1>9 DEF AuthorizeValidation, Enters
  <2>2. command' \in Commands \cup {NoCommand}
    BY <2>1, ContinuesTyped
  <2> QED
    BY <1>4, <1>7, <2>1, <2>2
<1>10. CASE RecoverStart(by, n) \/ RecoverValidation(by, n) \/ ObserveNoTerminal(by, n)
            \/ IntegrateCheckpoint(by, n) \/ RecoverIntegration(by, n)
  <2>1. UNCHANGED <<durable, cursor, lease, ticks, crashes, deaths>>
    BY <1>10 DEF RecoverStart, RecoverValidation, ObserveNoTerminal, IntegrateCheckpoint,
                 RecoverIntegration
  <2>2. command' \in Commands \cup {NoCommand}
    BY <1>10, ContinuesTyped DEF RecoverStart, RecoverValidation, ObserveNoTerminal,
                 IntegrateCheckpoint, RecoverIntegration
  <2>3. lease \in Tickers \cup {Free}
    BY <1>1 DEF RestTyped
  <2> QED
    BY <1>3, <1>5, <2>1, <2>2, <2>3
<1>11. CASE VerifyRaises(by, n) \/ IntegrateRaises(by, n)
  <2>1. Raises(by) /\ UNCHANGED <<interactions, validations, tree, branch, results, cursor, crashes, deaths>>
    BY <1>11 DEF VerifyRaises, IntegrateRaises
  <2>2. /\ run' = run /\ command' = NoCommand /\ lease' \in Tickers \cup {Free}
        /\ ticks' = [t \in Tickers |-> ticks'[t]]
        /\ \A t \in Tickers : ticks'[t] \in {ticks[t], Idle}
    BY <2>1, RaisesTyped
  <2> QED
    BY <1>5, <2>1, <2>2 DEF durable
<1>12. CASE ObserveTerminal(by, n)
  <2> DEFINE node == Ended(n, Outcome(n))
  <2>1. /\ run.nodes[n].state = "implementing" /\ Outcome(n) # "none"
        /\ Append1(n, node) /\ Returns(by)
        /\ UNCHANGED <<interactions, validations, results, cursor, lease, crashes, deaths>>
    BY <1>12 DEF ObserveTerminal, Observable
  <2>2. Outcome(n) \in {"failed", "succeeded"}
    <3>1. CASE KindOf[n] = "validation"
      BY <3>1 DEF Outcome
    <3>2. CASE KindOf[n] = "task"
      <4>1. run.nodes[n].attempt \in 1..MaxAttempts
        BY <1>1, <2>1, <3>2, TaskManagerRunsAssumption DEF AttemptOK
      <4>2. Key(n) \in Keys
        BY <3>2, <4>1 DEF Key, Keys, Tasks
      <4> QED
        BY <2>1, <3>2, <4>2 DEF Outcome, RunInv, ProvidersInv, Provider
    <3> QED
      BY <1>1, <1>2, <2>1, <3>1, <3>2 DEF AttemptOK
  <2>3. /\ node \in NodeRecord /\ node.attempt = run.nodes[n].attempt
        /\ node.state \in {"verifying", "failed"}
    BY <2>2, MovedTyped DEF Ended, NodeRecord, TaskStates
  <2> HIDE DEF node
  <2>4. AttemptOK(n, node)
    BY <1>1, <2>1, <2>3 DEF AttemptOK
  <2> QED
    BY <1>4, <2>1, <2>3, <2>4, ReturnsTyped
<1>13. ASSUME NEW evidence \in Evidence, Append1(n, Verified(n, evidence)), Verifiable(n),
              KindOf[n] # "human_gate", Returns(by),
              UNCHANGED <<interactions, validations, results, cursor, lease, crashes, deaths>>
       PROVE  CoordinatorInv'
  <2> DEFINE node == Verified(n, evidence)
  <2>1. /\ node \in NodeRecord /\ node.attempt = run.nodes[n].attempt
        /\ node.state \in {"reviewing", "repairing"} /\ Append1(n, node)
    BY <1>13, MovedTyped DEF Verified, NodeRecord, TaskStates
  <2> HIDE DEF node
  <2>2. AttemptOK(n, node)
    BY <1>1, <1>13, <2>1 DEF AttemptOK
  <2> QED
    BY <1>4, <1>13, <2>1, <2>2, ReturnsTyped
<1>14. Len(branch) \in Nat /\ tree \in SUBSET Writes
  BY DEF RunInv, BranchInv
<1>15. ASSUME NEW passes \in BOOLEAN, VerifyTask(by, n, passes)
       PROVE  CoordinatorInv'
  <2>1. [base |-> Len(branch), patch |-> tree, passes |-> passes] \in Evidence
    BY <1>14 DEF Evidence
  <2> QED
    BY <1>13, <1>15, <2>1 DEF VerifyTask
<1>16. CASE VerifyValidation(by, n)
  <2>1. [base |-> Len(branch), patch |-> {}, passes |-> validations[n].terminal = "passed"] \in Evidence
    BY <1>14 DEF Evidence
  <2> QED
    BY <1>13, <1>16, <2>1 DEF VerifyValidation
<1> QED
  BY <1>8, <1>9, <1>10, <1>11, <1>12, <1>15, <1>16 DEF Begins

\* The later steps of a command
LEMMA CommandCoordinates ==
    ASSUME RunInv, CoordinatorInv, CommandStep
    PROVE  CoordinatorInv'
<1> DEFINE n == command.node
           by == command.by
<1>1. RestTyped /\ ticks = [t \in Tickers |-> ticks[t]]
  BY DEF CoordinatorInv, TicksInv
<1>2. command # NoCommand
  BY DEF CommandStep, Processing, AssistanceAnswered, StartOrLocate, ProviderBound, StartRaises,
         RequestChecks, ValidationRaises, ValidationBound, ChecksRun, ObserveRunning, ObserveLost,
         Commit, PublishResult, Completes
<1>3. /\ n \in Nodes /\ by \in Tickers \cup {Direct}
      /\ command.op = "observe" => run.nodes[n].state = "implementing"
      /\ command.op = "integrate" => run.nodes[n].state = "integrating"
  BY <1>1, <1>2 DEF RestTyped, Commands, RunInv, CommandInv
<1>4. /\ run.nodes[n] \in NodeRecord /\ AttemptOK(n, run.nodes[n])
      /\ run.nodes[n].attempt \in Nat
  BY <1>3, RecordFacts
<1>5. ASSUME NEW node \in NodeRecord, AttemptOK(n, node), Append1(n, node), NEW caller, Returns(caller),
             UNCHANGED <<interactions, validations, results, cursor, lease, crashes, deaths>>
      PROVE  CoordinatorInv'
  <2>1. command' = NoCommand /\ ticks' = Answered(caller, run'.rev, run'.nodes)
    BY <1>5, ReturnsTyped
  <2>2. RestTyped'
    BY <1>1, <1>5, <2>1 DEF RestTyped
  <2> QED
    BY <1>3, <1>5, <2>1, <2>2, RevisionStep
<1>6. ASSUME UNCHANGED <<run, cursor>>, RestTyped', ticks' = ticks
      PROVE  CoordinatorInv'
  BY <1>1, <1>6, QuietStep
<1>7. ASSUME Raises(by), UNCHANGED <<interactions, validations, cursor, crashes, deaths>>,
             results' \in [Nodes -> Nat]
      PROVE  CoordinatorInv'
  <2>1. /\ run' = run /\ command' = NoCommand /\ lease' \in Tickers \cup {Free}
        /\ ticks' = [t \in Tickers |-> ticks'[t]]
        /\ \A t \in Tickers : ticks'[t] \in {ticks[t], Idle}
    BY <1>3, <1>7, RaisesTyped
  <2>2. RestTyped'
    BY <1>1, <1>7, <2>1 DEF RestTyped
  <2> QED
    BY <1>7, <2>1, <2>2, QuietStep
<1>8. server \in Actors \cup {NoActor} /\ Len(branch) \in Nat
  BY DEF RunInv, ServerInv, BranchInv
<1>9. CASE AssistanceAnswered
  BY <1>4, <1>5, <1>9 DEF AssistanceAnswered
<1>10. CASE StartOrLocate
  <2>1. /\ Continues("start", n, by, "await")
        /\ UNCHANGED <<durable, cursor, lease, ticks, crashes, deaths>>
    BY <1>10 DEF StartOrLocate
  <2>2. command' \in Commands \cup {NoCommand}
    BY <1>3, <2>1, ContinuesTyped
  <2>3. RestTyped'
    BY <1>1, <2>1, <2>2 DEF RestTyped, durable
  <2> QED
    BY <1>6, <2>1, <2>3 DEF durable
<1>11. CASE ProviderBound \/ ValidationBound
  <2> DEFINE node == [run.nodes[n] EXCEPT !.bound = TRUE]
  <2>1. /\ Append1(n, node) /\ Returns(by)
        /\ UNCHANGED <<interactions, validations, results, cursor, lease, crashes, deaths>>
    BY <1>11 DEF ProviderBound, ValidationBound
  <2>2. /\ node \in NodeRecord /\ node.state = run.nodes[n].state
        /\ node.attempt = run.nodes[n].attempt
    BY <1>4 DEF NodeRecord
  <2> HIDE DEF node
  <2>3. AttemptOK(n, node)
    BY <1>4, <2>2 DEF AttemptOK
  <2> QED
    BY <1>5, <2>1, <2>2, <2>3
<1>12. CASE StartRaises \/ ValidationRaises
  <2>1. Raises(by) /\ UNCHANGED <<interactions, validations, results, cursor, crashes, deaths>>
    BY <1>12 DEF StartRaises, ValidationRaises
  <2> QED
    BY <1>1, <1>7, <2>1 DEF RestTyped
<1>13. CASE RequestChecks \/ \E result \in {"passed", "failed"} : ChecksRun(result)
  <2>1. /\ \E step \in {"report", "bind"} : Continues("validate", n, by, step)
        /\ UNCHANGED <<run, interactions, results, cursor, lease, ticks, crashes, deaths>>
    BY <1>13 DEF RequestChecks, ChecksRun
  <2>2. command' \in Commands \cup {NoCommand}
    BY <1>3, <2>1, ContinuesTyped
  <2> DEFINE Validation == [asked: BOOLEAN, base: Nat, terminal: {"none", "passed", "failed"}]
  <2>3. \/ validations' = [validations EXCEPT ![n].asked = TRUE, ![n].base = Len(branch)]
        \/ \E result \in {"passed", "failed"} :
              validations' = [validations EXCEPT ![n].terminal = result]
    BY <1>13 DEF RequestChecks, ChecksRun
  <2>4. validations \in [Validations -> Validation]
    BY <1>1 DEF RestTyped
  <2>5. validations' \in [Validations -> Validation]
    <3>1. CASE validations' = [validations EXCEPT ![n].asked = TRUE, ![n].base = Len(branch)]
      <4> DEFINE base == Len(branch)
                 validation == [validations[n] EXCEPT !.asked = TRUE, !.base = base]
      <4>1. base \in Nat /\ (n \in Validations => validation \in Validation)
        BY <1>8, <2>4
      <4>2. validations' = [validations EXCEPT ![n] = validation]
        BY <2>4, <3>1
      <4> HIDE DEF validation, Validation
      <4> QED
        BY <2>4, <4>1, <4>2
    <3>2. ASSUME NEW result \in {"passed", "failed"},
                 validations' = [validations EXCEPT ![n].terminal = result]
          PROVE  validations' \in [Validations -> Validation]
      BY <2>4, <3>2
    <3> QED
      BY <2>3, <3>1, <3>2
  <2> HIDE DEF Validation
  <2>6. RestTyped'
    BY <1>1, <2>1, <2>2, <2>5 DEF RestTyped, Validation
  <2> QED
    BY <1>6, <2>1, <2>6
<1>14. CASE ObserveRunning
  <2>1. UNCHANGED <<interactions, validations, results, cursor, lease, crashes, deaths>>
    BY <1>14 DEF ObserveRunning
  <2>2. CASE ReturnsLatest(by)
    <3>1. command' = NoCommand /\ ticks' = Answered(by, run.rev, run.nodes) /\ run' = run
      BY <2>2 DEF ReturnsLatest
    <3>2. RestTyped'
      BY <1>1, <2>1, <3>1 DEF RestTyped
    <3> QED
      BY <2>1, <3>1, <3>2, QuietStep
  <2>3. CASE Append1(n, [run.nodes[n] EXCEPT !.seen = "running"]) /\ Returns(by)
    <3> DEFINE node == [run.nodes[n] EXCEPT !.seen = "running"]
    <3>1. /\ node \in NodeRecord /\ node.state = run.nodes[n].state
          /\ node.attempt = run.nodes[n].attempt /\ Append1(n, node)
      BY <1>4, <2>3 DEF NodeRecord
    <3> HIDE DEF node
    <3>2. AttemptOK(n, node)
      BY <1>4, <3>1 DEF AttemptOK
    <3> QED
      BY <1>5, <2>1, <2>3, <3>1, <3>2
  <2> QED
    BY <1>14, <2>2, <2>3 DEF ObserveRunning
<1>15. CASE ObserveLost
  <2> DEFINE node == Ended(n, "lost")
  <2>1. /\ command.op = "observe" /\ Append1(n, node) /\ Returns(by)
        /\ UNCHANGED <<interactions, validations, results, cursor, lease, crashes, deaths>>
    BY <1>15 DEF ObserveLost, Processing
  <2>2. /\ node \in NodeRecord /\ node.state = "failed"
        /\ node.attempt = run.nodes[n].attempt
    BY <1>3, MovedTyped DEF Ended, NodeRecord, TaskStates
  <2> HIDE DEF node
  <2>3. AttemptOK(n, node)
    BY <1>3, <1>4, <2>1, <2>2 DEF AttemptOK
  <2> QED
    BY <1>5, <2>1, <2>2, <2>3
<1>16. CASE Commit
  <2>1. /\ Continues("integrate", n, by, "publish")
        /\ UNCHANGED <<run, interactions, validations, results, cursor, lease, ticks, crashes, deaths>>
    BY <1>16 DEF Commit
  <2>2. command' \in Commands \cup {NoCommand}
    BY <1>3, <2>1, ContinuesTyped
  <2>3. RestTyped'
    BY <1>1, <2>1, <2>2 DEF RestTyped
  <2> QED
    BY <1>6, <2>1, <2>3
<1>17. CASE PublishResult
  <2>1. results' = [results EXCEPT ![n] = Len(branch)]
        /\ UNCHANGED <<interactions, validations, cursor, crashes, deaths>>
    BY <1>17 DEF PublishResult
  <2>2. results' \in [Nodes -> Nat]
    BY <1>1, <1>8, <2>1 DEF RestTyped
  <2>3. CASE Raises(by)
    BY <1>7, <2>1, <2>2, <2>3
  <2>4. CASE Continues("integrate", n, by, "complete") /\ UNCHANGED <<run, ticks, lease>>
    <3>1. command' \in Commands \cup {NoCommand}
      BY <1>3, <2>4, ContinuesTyped
    <3>2. RestTyped'
      BY <1>1, <2>1, <2>2, <2>4, <3>1 DEF RestTyped
    <3> QED
      BY <1>6, <2>1, <2>4, <3>2
  <2> QED
    BY <1>17, <2>3, <2>4 DEF PublishResult
<1>18. CASE Completes
  <2> DEFINE node == Moved(n, "completed", server)
  <2>1. /\ command.op = "integrate" /\ Append1(n, node) /\ Returns(by)
        /\ UNCHANGED <<interactions, validations, results, cursor, lease, crashes, deaths>>
    BY <1>18 DEF Completes, Processing
  <2>2. /\ node \in NodeRecord /\ node.state = "completed"
        /\ node.attempt = run.nodes[n].attempt
    BY <1>3, <1>8, MovedTyped DEF TaskStates
  <2> HIDE DEF node
  <2>3. AttemptOK(n, node)
    BY <1>3, <1>4, <2>1, <2>2 DEF AttemptOK
  <2> QED
    BY <1>5, <2>1, <2>2, <2>3
<1> QED
  BY <1>9, <1>10, <1>11, <1>12, <1>13, <1>14, <1>15, <1>16, <1>17, <1>18 DEF CommandStep

\* A tick that finds its next step in the cursor, and takes over its decision
\* where that is a pending intent
LEMMA ReadCoordinates ==
    ASSUME CoordinatorInv, NEW t \in Tickers, ticks[t].step = "cursor", NextStep(t) # "end"
    PROVE  TickOK([ticks[t] EXCEPT !.step = NextStep(t), !.fresh = TRUE,
                                   !.decision = IF NextStep(t) = "execute" THEN cursor.decision
                                   ELSE ticks[t].decision],
                  run)
<1> DEFINE step == NextStep(t)
           decision == IF step = "execute" THEN cursor.decision ELSE ticks[t].decision
           tick == [ticks[t] EXCEPT !.step = step, !.fresh = TRUE, !.decision = decision]
<1>1. TickOK(ticks[t], run) /\ ticks[t].rev \in Nat /\ ticks[t].rev > 0
  BY DEF CoordinatorInv, TicksInv, TickOK
<1>2. /\ cursor.run \in Nat /\ cursor.pending \in BOOLEAN /\ Good(cursor.decision)
      /\ cursor.run = run.rev => cursor.decision = Decide(run.nodes)
  BY DEF CoordinatorInv, CursorInv, CursorRevision, CursorShowsNextStep
<1>3. /\ step \in {"execute", "intent", "project"}
      /\ step = "intent" => ticks[t].decision.action \in SideEffects
      /\ step = "execute" => cursor.run = ticks[t].rev \/ cursor.decision = ticks[t].decision
  <2>1. CASE cursor.run > ticks[t].rev
    BY <2>1 DEF NextStep
  <2>2. CASE cursor.run <= ticks[t].rev /\ cursor.pending
    BY <1>1, <1>2, <2>2 DEF NextStep
  <2>3. CASE cursor.run <= ticks[t].rev /\ ~cursor.pending
    BY <1>1, <1>2, <2>3 DEF NextStep
  <2> QED
    BY <1>1, <1>2, <2>1, <2>2, <2>3
<1>4. /\ Good(decision) /\ (step = "intent" => decision.action \in SideEffects)
      /\ ticks[t].rev = run.rev => decision = Decide(run.nodes)
  BY <1>1, <1>2, <1>3 DEF TickOK
<1> HIDE DEF step, decision
<1>5. /\ tick.step = step /\ tick.rev = ticks[t].rev /\ tick.decision = decision
      /\ tick \in [step: {"idle", "cursor", "intent", "execute", "project"},
                   rev: Nat, decision: Decisions, fresh: BOOLEAN]
  BY <1>1, <1>3, <1>4 DEF TickOK, Good
<1>6. ticks[t].rev <= run.rev
  BY <1>1 DEF TickOK
<1>7. tick = [ticks[t] EXCEPT !.step = NextStep(t), !.fresh = TRUE,
                              !.decision = IF NextStep(t) = "execute" THEN cursor.decision
                                   ELSE ticks[t].decision]
  BY DEF step, decision
<1> HIDE DEF tick
<1>8. TickOK(tick, run)
  BY <1>1, <1>3, <1>4, <1>5, <1>6 DEF TickOK
<1> QED
  BY <1>7, <1>8

\* The steps of a tick outside the command lock
LEMMA TickCoordinates ==
    ASSUME CoordinatorInv, NEW t \in Tickers,
           \/ BeginTick(t) \/ ReadCursor(t) \/ InitializeCursor(t)
           \/ RecordIntent(t) \/ ExecuteStale(t) \/ Project(t)
    PROVE  CoordinatorInv'
<1>1. /\ RestTyped /\ run \in RunRevision /\ run.rev \in Nat /\ run.rev > 0
  BY DEF CoordinatorInv, TicksInv, TickOK, RecordsInv, RunRevision
<1>2. TickOK(Idle, run)
  BY <1>1, IdleOK
<1>3. TickOK(ticks[t], run)
  BY DEF CoordinatorInv, TicksInv
<1>4. UNCHANGED <<durable, command, crashes, deaths>>
  BY DEF BeginTick, ReadCursor, InitializeCursor, RecordIntent, ExecuteStale, Project
<1>5. lease' \in Tickers \cup {Free}
  BY <1>1 DEF BeginTick, ReadCursor, InitializeCursor, RecordIntent, ExecuteStale, Project,
              EndTick, RestTyped
<1>6. RestTyped' /\ run' = run
  BY <1>1, <1>4, <1>5 DEF RestTyped, durable
<1>7. ASSUME EndTick(t), cursor' = cursor
      PROVE  CoordinatorInv'
  BY <1>2, <1>6, <1>7, TickerStep DEF EndTick
<1>8. ASSUME NEW step \in {"intent", "execute"}, NEW fresh \in BOOLEAN,
             ticks[t].decision.action \in SideEffects, ticks[t].step # "idle"
      PROVE  TickOK([ticks[t] EXCEPT !.fresh = fresh, !.step = step], run)
  BY <1>3, <1>8 DEF TickOK
<1>9. CASE BeginTick(t)
  <2> DEFINE tick == [step |-> "cursor", rev |-> run.rev, decision |-> Decide(run.nodes), fresh |-> FALSE]
  <2>1. Good(Decide(run.nodes))
    BY DecideGood
  <2>2. TickOK(tick, run)
    BY <1>1, <2>1 DEF TickOK, Good
  <2>3. ticks' = [ticks EXCEPT ![t] = tick] /\ cursor' = cursor
    BY <1>9 DEF BeginTick
  <2> HIDE DEF tick
  <2> QED
    BY <1>6, <2>2, <2>3, TickerStep
<1>10. CASE ReadCursor(t)
  <2>1. CASE NextStep(t) = "end"
    BY <1>7, <1>10, <2>1 DEF ReadCursor
  <2>2. CASE NextStep(t) # "end"
    <3> DEFINE tick == [ticks[t] EXCEPT !.step = NextStep(t), !.fresh = TRUE,
                            !.decision = IF NextStep(t) = "execute" THEN cursor.decision
                                   ELSE ticks[t].decision]
    <3>1. TickOK(tick, run)
      BY <1>10, <2>2, ReadCoordinates DEF ReadCursor
    <3>2. cursor' = cursor /\ ticks' = [ticks EXCEPT ![t] = tick]
      BY <1>10, <2>2 DEF ReadCursor
    <3> HIDE DEF tick
    <3> QED
      BY <1>6, <3>1, <3>2, TickerStep
  <2> QED
    BY <2>1, <2>2
<1>11. CASE InitializeCursor(t)
  <2>1. AppendCursor(ticks[t], FALSE) /\ ticks[t].step = "cursor"
    BY <1>11 DEF InitializeCursor
  <2>2. CASE ticks[t].decision.action \in SideEffects
    <3> DEFINE tick == [ticks[t] EXCEPT !.fresh = TRUE, !.step = "intent"]
    <3>1. ticks' = Outdated(t, tick)
      BY <1>11, <2>2 DEF InitializeCursor
    <3>2. TickOK(tick, run)
      BY <1>8, <2>1, <2>2
    <3> HIDE DEF tick
    <3> QED
      BY <1>6, <2>1, <3>1, <3>2, TickerStep
  <2>3. CASE ticks[t].decision.action \notin SideEffects
    <3>1. ticks' = Outdated(t, Idle)
      BY <1>11, <2>3 DEF InitializeCursor
    <3> QED
      BY <1>2, <1>6, <2>1, <3>1, TickerStep
  <2> QED
    BY <2>2, <2>3
<1>12. CASE RecordIntent(t)
  <2>1. CASE ~ticks[t].fresh
    BY <1>7, <1>12, <2>1 DEF RecordIntent
  <2>2. CASE ticks[t].fresh
    <3> DEFINE tick == [ticks[t] EXCEPT !.step = "execute"]
    <3>1. /\ ticks[t].step = "intent" /\ AppendCursor(ticks[t], TRUE)
          /\ ticks' = Outdated(t, tick)
      BY <1>12, <2>2 DEF RecordIntent
    <3>2. TickOK(tick, run)
      BY <1>3, <3>1 DEF TickOK
    <3> HIDE DEF tick
    <3> QED
      BY <1>6, <3>1, <3>2, TickerStep
  <2> QED
    BY <2>1, <2>2
<1>13. CASE ExecuteStale(t)
  BY <1>7, <1>13 DEF ExecuteStale
<1>14. CASE Project(t)
  <2>1. CASE ~ticks[t].fresh
    BY <1>7, <1>14, <2>1 DEF Project
  <2>2. CASE ticks[t].fresh
    <3>1. /\ ticks[t].step = "project" /\ AppendCursor(ticks[t], FALSE)
          /\ ticks' = Outdated(t, Idle)
      BY <1>14, <2>2 DEF Project
    <3> QED
      BY <1>2, <1>6, <3>1, TickerStep
  <2> QED
    BY <2>1, <2>2
<1> QED
  BY <1>9, <1>10, <1>11, <1>12, <1>13, <1>14

\* Workers, Codex, the expiry of a lease and the server leave what a tick has
\* read alone; a server that stops forgets it.
LEMMA OutsideCoordinates ==
    ASSUME CoordinatorInv,
           \/ \E k \in Keys : \/ WorkerClaims(k) \/ WorkerStep(k) \/ WorkerKilled(k)
                              \/ \E path \in Paths : CodexWrites(k, path)
           \/ ExpireLease \/ ServerStops \/ \E a \in Actors : ServerStarts(a)
           \/ UNCHANGED vars
    PROVE  CoordinatorInv'
<1>1. RestTyped /\ ticks = [t \in Tickers |-> ticks[t]]
  BY DEF CoordinatorInv, TicksInv
<1>2. ASSUME UNCHANGED <<run, interactions, validations, results, cursor>>,
             lease' \in {lease, Free}, command' \in {command, NoCommand},
             ticks' = [t \in Tickers |-> ticks'[t]], \A t \in Tickers : ticks'[t] \in {ticks[t], Idle},
             crashes' \in 0..Crashes, deaths' \in 0..WorkerDeaths
      PROVE  CoordinatorInv'
  <2>1. RestTyped'
    BY <1>1, <1>2 DEF RestTyped
  <2> QED
    BY <1>2, <2>1, QuietStep
<1>3. crashes \in 0..Crashes /\ deaths \in 0..WorkerDeaths /\ Crashes \in Nat /\ WorkerDeaths \in Nat
  BY <1>1, TaskManagerRunsAssumption DEF RestTyped
<1>4. ASSUME NEW k \in Keys, WorkerKilled(k) PROVE CoordinatorInv'
  <2>1. /\ UNCHANGED <<durable, cursor, lease, ticks, command, crashes>>
        /\ deaths' = deaths + 1 /\ deaths < WorkerDeaths
    BY <1>4 DEF WorkerKilled, Process
  <2>2. deaths' \in 0..WorkerDeaths
    BY <1>3, <2>1
  <2> QED
    BY <1>1, <1>2, <1>3, <2>1, <2>2 DEF durable
<1>5. ASSUME NEW k \in Keys,
             WorkerClaims(k) \/ WorkerStep(k) \/ \E path \in Paths : CodexWrites(k, path)
      PROVE  CoordinatorInv'
  <2>1. UNCHANGED <<run, interactions, validations, results, cursor, lease, ticks, command, crashes, deaths>>
    BY <1>5 DEF WorkerClaims, WorkerStep, WorkerPublishesClaim, CodexLaunches, LaunchRefused,
                CodexExits, CodexTimesOut, WorkerReports, CodexWrites, Process, durable
  <2> QED
    BY <1>1, <1>2, <1>3, <2>1
<1>6. CASE ExpireLease \/ \E a \in Actors : ServerStarts(a)
  <2>1. /\ UNCHANGED <<durable, cursor, ticks, command, crashes, deaths>>
        /\ lease' \in {lease, Free}
    BY <1>6 DEF ExpireLease, ServerStarts
  <2> QED
    BY <1>1, <1>2, <1>3, <2>1 DEF durable
<1>7. CASE ServerStops
  <2>1. /\ UNCHANGED <<durable, cursor, lease, deaths>> /\ command' = NoCommand
        /\ ticks' = [t \in Tickers |-> Idle] /\ crashes' = crashes + 1 /\ crashes < Crashes
    BY <1>7 DEF ServerStops
  <2>2. crashes' \in 0..Crashes
    BY <1>3, <2>1
  <2> QED
    BY <1>2, <1>3, <2>1, <2>2 DEF durable
<1>8. CASE UNCHANGED vars
  <2>1. UNCHANGED <<run, interactions, validations, results, cursor, lease, ticks, command, crashes, deaths>>
    BY <1>8 DEF vars, durable
  <2> QED
    BY <1>1, <1>2, <1>3, <2>1
<1> QED
  BY <1>4, <1>5, <1>6, <1>7, <1>8

\* A run that was assembled: no tick has read it, its journal is empty.
LEMMA InitCoordinator == Init => CoordinatorInv
<1> SUFFICES ASSUME Init PROVE CoordinatorInv
  OBVIOUS
<1>1. \A n \in Nodes : /\ NewNode(n) \in NodeRecord /\ NewNode(n).attempt = 0
                       /\ NewNode(n).state = IF KindOf[n] = "human_gate" THEN "plan_review" ELSE "planned"
  BY DEF NewNode, NodeRecord, TaskStates
<1>2. run \in RunRevision /\ run.rev = 1 /\ run.nodes = [n \in Nodes |-> NewNode(n)]
  BY <1>1 DEF Init, RunRevision
<1>3. RecordsInv
  <2>1. \A n \in Nodes : AttemptOK(n, run.nodes[n])
    BY <1>1, <1>2, TaskManagerRunsAssumption DEF AttemptOK
  <2> QED
    BY <1>2, <2>1 DEF RecordsInv
<1>4. TicksInv
  BY <1>2, IdleOK DEF Init, TicksInv
<1>5. CursorInv
  BY <1>2 DEF Init, CursorInv, NoCursor, CursorRevision, CursorShowsNextStep, Good, Decision,
              Decisions, SideEffects
<1>6. RestTyped
  <2>1. NoValidation \in [asked: BOOLEAN, base: Nat, terminal: {"none", "passed", "failed"}]
    BY DEF NoValidation
  <2> QED
    BY <2>1, TaskManagerRunsAssumption DEF Init, RestTyped
<1> QED
  BY <1>3, <1>4, <1>5, <1>6 DEF CoordinatorInv

\* Every step keeps what ticks and cursor tell; the run's own invariant types
\* the providers, the branch and the command.
LEMMA NextCoordinator == RunInv /\ CoordinatorInv /\ [Next]_vars => CoordinatorInv'
<1> SUFFICES ASSUME RunInv, CoordinatorInv, [Next]_vars PROVE CoordinatorInv'
  OBVIOUS
<1>1. CASE Next
  <2>1. CASE \E n \in Nodes : Human(n) \/ Begins(Direct, n)
    BY <2>1, HumanCoordinates, BeginCoordinates
  <2>2. CASE CommandStep
    BY <2>2, CommandCoordinates
  <2>3. CASE \E k \in Keys : \/ WorkerClaims(k) \/ WorkerStep(k) \/ WorkerKilled(k)
                            \/ \E path \in Paths : CodexWrites(k, path)
    BY <2>3, OutsideCoordinates
  <2>4. CASE \E t \in Tickers : TickStep(t)
    <3>1. PICK t \in Tickers : TickStep(t)
      BY <2>4
    <3>2. CASE \E n \in Nodes : Begins(t, n)
      BY <3>2, BeginCoordinates
    <3>3. CASE \/ BeginTick(t) \/ ReadCursor(t) \/ InitializeCursor(t)
               \/ RecordIntent(t) \/ ExecuteStale(t) \/ Project(t)
      BY <3>3, TickCoordinates
    <3> QED
      BY <3>1, <3>2, <3>3 DEF TickStep
  <2>5. CASE ExpireLease \/ ServerStops \/ \E a \in Actors : ServerStarts(a)
    BY <2>5, OutsideCoordinates
  <2> QED
    BY <1>1, <2>1, <2>2, <2>3, <2>4, <2>5 DEF Next
<1>2. CASE UNCHANGED vars
  BY <1>2, OutsideCoordinates
<1> QED
  BY <1>1, <1>2

\* The coordinator's inductive invariant: a tick, and the cursor it leaves,
\* hold the decision of the latest revision or name an earlier one.
THEOREM CoordinatorInvHolds == Spec => []CoordinatorInv
<1>1. Init => CoordinatorInv
  BY InitCoordinator
<1>2. RunInv /\ CoordinatorInv /\ [Next]_vars => CoordinatorInv'
  BY NextCoordinator
<1> QED
  BY <1>1, <1>2, RunInvHolds, PTL DEF Spec

\* Run revisions, provider files, cursor revisions and the command in the
\* lock are what their records declare; every observed provider belongs to
\* an attempt that was authorized.
THEOREM RunsTypeCorrect == Spec => []TypeOK
<1>1. RunInv /\ CoordinatorInv => TypeOK
  <2> SUFFICES ASSUME RunInv, CoordinatorInv PROVE TypeOK
    OBVIOUS
  <2>1. /\ run \in RunRevision /\ cursor \in CursorRevision
        /\ providers \in [Keys -> Provider] /\ server \in Actors \cup {NoActor}
    BY DEF RunInv, ProvidersInv, ServerInv, CoordinatorInv, RecordsInv, CursorInv
  <2>2. tree \subseteq Writes /\ branch \in Seq([node: Nodes, content: SUBSET Writes])
    BY DEF RunInv, BranchInv
  <2>3. ticks \in [Tickers -> [step: {"idle", "cursor", "intent", "execute", "project"},
                               rev: Nat, decision: Decisions, fresh: BOOLEAN]]
    BY DEF CoordinatorInv, TicksInv, TickOK
  <2> QED
    BY <2>1, <2>2, <2>3 DEF TypeOK, CoordinatorInv, RestTyped
<1> QED
  BY <1>1, RunInvHolds, CoordinatorInvHolds, PTL

\* The cursor never runs ahead of the run, and shows the decision of the
\* revision it names while that is the latest: a tick appends what it read or
\* what its command returned, however ticks, commands, humans and stops of
\* the server interleave (TaskManagerSerialCoordinator.tick).
THEOREM CursorIsTrue == Spec => []CursorShowsNextStep
<1>1. CoordinatorInv => CursorShowsNextStep
  BY DEF CoordinatorInv, CursorInv
<1> QED
  BY <1>1, CoordinatorInvHolds, PTL
=============================================================================
