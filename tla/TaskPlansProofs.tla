--------------------------- MODULE TaskPlansProofs ---------------------------
(***************************************************************************)
(* What the runs of TaskPlans check on two threads and two nodes, proved   *)
(* for any threads, graphs, sources, revisions and runs.                   *)
(***************************************************************************)
EXTENDS TaskPlans, TLAPS

-----------------------------------------------------------------------------
(* Graphs *)

\* A plan starts without nodes, which is a graph.
LEMMA EmptyGraphIsGraph == EmptyGraph \in TaskGraphs
<1> DEFINE content == [n \in {} |-> n]
<1>1. content \in [{} -> Contents] /\ DOMAIN content = {}
  OBVIOUS
<1>2. EmptyGraph \in [content: [{} -> Contents], edges: SUBSET ({} \X {})]
  BY <1>1 DEF EmptyGraph
<1>3. EmptyGraph.content = content /\ EmptyGraph.edges = {}
  BY DEF EmptyGraph
<1>4. NodesOf(EmptyGraph) = {}
  BY <1>1, <1>3 DEF NodesOf
<1>5. WellFormed(EmptyGraph)
  BY <1>3, <1>4 DEF WellFormed, Acyclic
<1> QED
  BY <1>2, <1>5 DEF TaskGraphs

\* What a graph is made of, in both directions
LEMMA GraphParts ==
    ASSUME NEW g \in TaskGraphs
    PROVE  /\ NodesOf(g) \subseteq NodeIds
           /\ g = [content |-> g.content, edges |-> g.edges]
           /\ g.content \in [NodesOf(g) -> Contents]
           /\ g.edges \subseteq NodesOf(g) \X NodesOf(g)
<1>1. PICK N \in SUBSET NodeIds : g \in [content: [N -> Contents], edges: SUBSET (N \X N)]
  BY DEF TaskGraphs
<1>2. g.content \in [N -> Contents] /\ g.edges \in SUBSET (N \X N)
  BY <1>1
<1>3. NodesOf(g) = N
  BY <1>2 DEF NodesOf
<1> QED
  BY <1>1, <1>2, <1>3

\* A graph is given by its node contents and its edges.
LEMMA GraphOfParts ==
    ASSUME NEW h, NEW N \in SUBSET NodeIds, NEW f \in [N -> Contents], NEW E \in SUBSET (N \X N),
           h = [content |-> f, edges |-> E], WellFormed(h)
    PROVE  h \in TaskGraphs
<1>1. h \in [content: [N -> Contents], edges: SUBSET (N \X N)]
  OBVIOUS
<1> QED
  BY <1>1 DEF TaskGraphs

\* A direct edit that is accepted leads from graphs to graphs.
LEMMA DirectEditsAreGraphs ==
    ASSUME NEW g \in TaskGraphs, NEW h \in DirectEdits(g)
    PROVE  h \in TaskGraphs
<1> DEFINE N == NodesOf(g)
<1>1. /\ N \subseteq NodeIds /\ g = [content |-> g.content, edges |-> g.edges]
      /\ g.content \in [N -> Contents] /\ g.edges \subseteq N \X N
  BY GraphParts
<1>2. WellFormed(h)
  BY DEF DirectEdits
<1>3. CASE h \in NodeCreated(g)
  <2>1. PICK n \in NodeIds \ N, c \in Contents :
            \E E \in {{}} \cup {{<<s, n>>} : s \in N} :
                h = [content |-> WithNode(g, n, c), edges |-> g.edges \cup E]
    BY <1>3 DEF NodeCreated
  <2>2. PICK E \in {{}} \cup {{<<s, n>>} : s \in N} :
            h = [content |-> WithNode(g, n, c), edges |-> g.edges \cup E]
    BY <2>1
  <2>3. WithNode(g, n, c) \in [N \cup {n} -> Contents]
    BY <1>1 DEF WithNode
  <2>4. g.edges \cup E \in SUBSET ((N \cup {n}) \X (N \cup {n}))
    BY <1>1
  <2>5. N \cup {n} \in SUBSET NodeIds
    BY <1>1
  <2> HIDE DEF N
  <2> QED
    BY <1>2, <2>2, <2>3, <2>4, <2>5, GraphOfParts
<1>4. CASE h \in NodeUpdated(g)
  <2>1. PICK n \in N, c \in Contents : h = [g EXCEPT !.content = WithNode(g, n, c)]
    BY <1>4 DEF NodeUpdated
  <2>2. h = [content |-> WithNode(g, n, c), edges |-> g.edges]
    BY <1>1, <2>1
  <2>3. N \cup {n} = N
    OBVIOUS
  <2>4. WithNode(g, n, c) \in [N -> Contents]
    BY <1>1, <2>3 DEF WithNode
  <2> HIDE DEF N
  <2> QED
    BY <1>1, <1>2, <2>2, <2>4, GraphOfParts
<1>5. CASE h \in NodeDeleted(g)
  <2>1. PICK n \in N : h = WithoutNode(g, n)
    BY <1>5 DEF NodeDeleted
  <2> DEFINE M == N \ {n}
             f == [m \in M |-> g.content[m]]
             E == {e \in g.edges : n # e[1] /\ n # e[2]}
  <2>2. h = [content |-> f, edges |-> E]
    BY <2>1 DEF WithoutNode
  <2>3. f \in [M -> Contents] /\ M \in SUBSET NodeIds
    BY <1>1
  <2>4. E \in SUBSET (M \X M)
    <3> SUFFICES ASSUME NEW e \in E PROVE e \in M \X M
      OBVIOUS
    <3>1. e \in N \X N /\ n # e[1] /\ n # e[2]
      BY <1>1
    <3> QED
      BY <3>1
  <2> HIDE DEF M, f, E
  <2> QED
    BY <1>2, <2>2, <2>3, <2>4, GraphOfParts
<1>6. CASE h \in EdgeCreated(g) \cup EdgeDeleted(g)
  <2>1. PICK E \in SUBSET (N \X N) : h = [g EXCEPT !.edges = E]
    <3>1. CASE h \in EdgeCreated(g)
      <4>1. PICK e \in N \X N : h = [g EXCEPT !.edges = g.edges \cup {e}]
        BY <3>1 DEF EdgeCreated
      <4> QED
        BY <1>1, <4>1
    <3>2. CASE h \in EdgeDeleted(g)
      <4>1. PICK e \in g.edges : h = [g EXCEPT !.edges = g.edges \ {e}]
        BY <3>2 DEF EdgeDeleted
      <4> QED
        BY <1>1, <4>1
    <3> QED
      BY <1>6, <3>1, <3>2
  <2>2. h = [content |-> g.content, edges |-> E]
    BY <1>1, <2>1
  <2> HIDE DEF N
  <2> QED
    BY <1>1, <1>2, <2>2, GraphOfParts
<1>7. CASE h \in EdgeUpdated(g)
  BY <1>7 DEF EdgeUpdated
<1> QED
  BY <1>3, <1>4, <1>5, <1>6, <1>7 DEF DirectEdits

-----------------------------------------------------------------------------
(* Revisions *)

Last == history[Len(history)]

\* The graph of a pending proposal is one that the agent may answer with.
LEMMA PendingIsProposal ==
    ASSUME NEW rev \in Revision, rev.pending # NoProposal
    PROVE  rev.pending.graph \in TaskGraphs
<1>1. rev.pending \in [based: Nat, graph: Proposals]
  BY DEF Revision
<1> QED
  BY <1>1, TaskPlansAssumption DEF TaskPlansAssumption

\* What a call may append after the latest revision: a revision, that holds a
\* proposal only for the one before, and that is finalized only as the one
\* before was reviewed.
LEMMA NextRevision ==
    ASSUME NEW op, NEW digest \in Digests \cup {NoTarget}, NEW next \in Edited(Len(history), op, digest),
           history \in Seq(Revision), Len(history) \in DOMAIN history, Allows(Last, op, digest)
    PROVE  /\ next \in Revision
           /\ next.pending # NoProposal =>
                  next.pending.based = Len(history) /\ next.graph = Last.graph
           /\ next.status = "finalized" =>
                  /\ ~PlanBlocked(next.graph) /\ Editable(Last) /\ Editable(next)
                  /\ next.graph = Last.graph /\ next.target = Last.target
<1> DEFINE n == Len(history)
           rev == history[n]
           draft == NextSnapshot(rev)
<1>1. n \in Nat /\ rev \in Revision
  OBVIOUS
<1>2. /\ draft \in Revision /\ draft.status = "draft" /\ draft.pending = rev.pending
      /\ draft.graph = rev.graph /\ draft.target = rev.target /\ draft.archived = rev.archived
  BY <1>1 DEF NextSnapshot, Revision
<1>3. CASE op = "discuss"
  <2>1. PICK p \in AgentProposals(n) : next = [draft EXCEPT !.pending = p]
    BY <1>3 DEF Edited
  <2>2. p \in [based: Nat, graph: Proposals] /\ p.based = n
    BY <1>1, <2>1 DEF AgentProposals
  <2> HIDE DEF draft
  <2>3. next \in Revision /\ next.pending = p /\ next.graph = rev.graph /\ next.status = "draft"
    BY <1>2, <2>1, <2>2 DEF Revision
  <2> QED
    BY <2>2, <2>3 DEF Last
<1>4. CASE op = "target"
  <2>1. next = [draft EXCEPT !.target = digest] /\ rev.pending = NoProposal
    BY <1>4 DEF Edited, Allows, Editable, Last
  <2> HIDE DEF draft
  <2> QED
    BY <1>2, <2>1 DEF Revision
<1>5. CASE op = "apply"
  <2>1. /\ next = [draft EXCEPT !.graph = rev.pending.graph, !.pending = NoProposal]
        /\ rev.pending # NoProposal
    BY <1>5 DEF Edited, Allows, Last
  <2>2. rev.pending.graph \in TaskGraphs
    BY <1>1, <2>1, PendingIsProposal
  <2> HIDE DEF draft
  <2> QED
    BY <1>2, <2>1, <2>2 DEF Revision
<1>6. CASE op = "reject"
  <2>1. next = [draft EXCEPT !.pending = NoProposal]
    BY <1>6 DEF Edited
  <2> HIDE DEF draft
  <2> QED
    BY <1>2, <2>1 DEF Revision
<1>7. CASE op \in {"edit", "derive"}
  <2>1. PICK g \in TaskGraphs : next = [draft EXCEPT !.graph = g]
    <3>1. CASE op = "edit"
      <4>1. rev.graph \in TaskGraphs
        BY <1>1 DEF Revision
      <4>2. PICK g \in DirectEdits(rev.graph) : next = [draft EXCEPT !.graph = g]
        BY <3>1 DEF Edited
      <4> QED
        BY <4>1, <4>2, DirectEditsAreGraphs
    <3>2. CASE op = "derive"
      <4>1. PICK s \in 1..n : next = [draft EXCEPT !.graph = history[s].graph]
        BY <3>2 DEF Edited
      <4>2. history[s] \in Revision
        BY <4>1
      <4>3. history[s].graph \in TaskGraphs
        BY <4>2 DEF Revision
      <4> QED
        BY <4>1, <4>3
    <3> QED
      BY <1>7, <3>1, <3>2
  <2>2. rev.pending = NoProposal
    BY <1>7 DEF Allows, Editable, Last
  <2> HIDE DEF draft
  <2> QED
    BY <1>2, <2>1, <2>2 DEF Revision
<1>8. CASE op \in {"archive", "restore"}
  <2>1. PICK archived \in BOOLEAN : next = [draft EXCEPT !.archived = archived]
    BY <1>8 DEF Edited
  <2>2. rev.pending = NoProposal
    BY <1>8 DEF Allows, Last
  <2> HIDE DEF draft
  <2> QED
    BY <1>2, <2>1, <2>2 DEF Revision
<1>9. CASE op = "finalize"
  <2>1. /\ next = [rev EXCEPT !.status = "finalized"]
        /\ Editable(rev) /\ ~PlanBlocked(rev.graph)
    BY <1>9 DEF Edited, Allows, Last
  <2>2. /\ next \in Revision /\ next.pending = rev.pending /\ next.archived = rev.archived
        /\ next.graph = rev.graph /\ next.target = rev.target
    BY <1>1, <2>1 DEF Revision
  <2> QED
    BY <2>1, <2>2 DEF Editable, Last
<1>10. op \in {"discuss", "target", "apply", "reject", "edit", "derive", "archive", "restore",
               "finalize"}
  BY DEF Allows
<1> QED
  BY <1>3, <1>4, <1>5, <1>6, <1>7, <1>8, <1>9, <1>10

-----------------------------------------------------------------------------
(* The inductive invariant *)

\* What a call has read is there, and an edit that found itself allowed by a
\* revision is allowed by it.
CallFits(call, plan, assembled) ==
    /\ call.op = "command" => call.run \in DOMAIN assembled
    /\ call.op \notin {"create", "command"} => call.rev \in DOMAIN plan
    /\ call.op \in ByManager \cup ByPlanning /\ call.step = "act" =>
          Allows(plan[call.rev], call.op, call.digest)

CallsInv == \A c \in Callers : calls[c] # NoCall => CallFits(calls[c], history, runs)

PlanInv ==
    TypeOK /\ CallsInv /\ RunsBindFinalizedRevisions /\ ProposalsAreCurrent /\ FinalizedAsReviewed

\* The invariant holds of a task without revisions, runs and calls.
LEMMA InitPlanInv == Init => PlanInv
<1> SUFFICES ASSUME Init PROVE PlanInv
  OBVIOUS
<1>1. history \in Seq(Revision) /\ runs \in Seq(Run) /\ DOMAIN history = {} /\ DOMAIN runs = {}
  BY DEF Init
<1>2. source \in Digests /\ calls \in [Callers -> Call \cup {NoCall}]
  BY DEF Init
<1> QED
  BY <1>1, <1>2 DEF Init, PlanInv, TypeOK, CallsInv, RunsBindFinalizedRevisions,
                    ProposalsAreCurrent, FinalizedAsReviewed

\* A call that is accepted, or that ends, leaves the plan and the runs.
LEMMA AcceptedCall ==
    ASSUME TypeOK, NEW c \in Callers, NEW op \in ByManager \cup ByPlanning \cup
                                                {"create", "assemble", "command"},
           NEW step \in {"read", "act"}, NEW digest \in Digests \cup {NoTarget}, NEW r \in Nat,
           Accepted(c, op, step, digest, r)
    PROVE  /\ TypeOK' /\ UNCHANGED <<history, runs, source>>
           /\ calls'[c].op = op /\ calls'[c].step = step /\ calls'[c].digest = digest
           /\ calls'[c].rev = Len(history) /\ calls'[c].run = r
           /\ \A d \in Callers : d # c => calls'[d] = calls[d]
<1> DEFINE k == [op |-> op, step |-> step, rev |-> Len(history), digest |-> digest, run |-> r]
<1>1. Len(history) \in Nat
  BY DEF TypeOK
<1>2. k \in Call
  BY <1>1 DEF Call
<1>3. calls' = [calls EXCEPT ![c] = k] /\ UNCHANGED <<history, runs, source>>
  BY DEF Accepted
<1>4. calls'[c] = k /\ (\A d \in Callers : d # c => calls'[d] = calls[d])
  BY <1>3 DEF TypeOK
<1>5. TypeOK'
  BY <1>2, <1>3 DEF TypeOK
<1> QED
  BY <1>3, <1>4, <1>5

\* A step that leaves the plan and the runs keeps what is said of them.
LEMMA PlanUnchanged ==
    ASSUME PlanInv, UNCHANGED <<history, runs>>
    PROVE  (RunsBindFinalizedRevisions /\ ProposalsAreCurrent /\ FinalizedAsReviewed)'
BY DEF PlanInv, RunsBindFinalizedRevisions, ProposalsAreCurrent, FinalizedAsReviewed

\* A call of which CallsInv holds joins those that others have under way.
LEMMA CallJoins ==
    ASSUME PlanInv, NEW c \in Callers, UNCHANGED <<history, runs>>, TypeOK',
           \A d \in Callers : d # c => calls'[d] = calls[d],
           calls'[c] # NoCall => CallFits(calls'[c], history, runs)
    PROVE  PlanInv'
<1>1. CallsInv'
  <2> SUFFICES ASSUME NEW d \in Callers, calls'[d] # NoCall
               PROVE  CallFits(calls'[d], history, runs)
    BY DEF CallsInv
  <2>1. CASE d = c
    BY <2>1
  <2>2. CASE d # c
    BY <2>2 DEF PlanInv, CallsInv
  <2> QED
    BY <2>1, <2>2
<1> QED
  BY <1>1, PlanUnchanged DEF PlanInv

\* The revisions before a further one stay as they are.
LEMMA HistoryGrows ==
    ASSUME history \in Seq(Revision), NEW next \in Revision, history' = Append(history, next)
    PROVE  /\ history' \in Seq(Revision) /\ Len(history') = Len(history) + 1
           /\ DOMAIN history' = 1..(Len(history) + 1) /\ DOMAIN history = 1..Len(history)
           /\ history'[Len(history) + 1] = next
           /\ \A n \in DOMAIN history : history'[n] = history[n]
OBVIOUS

\* So a revision that holds a proposal only for the one before, and is
\* finalized only as that was reviewed, can be appended by a call that ends.
LEMMA RevisionAppended ==
    ASSUME PlanInv, NEW c \in Callers, NEW next \in Revision,
           history' = Append(history, next), calls' = [calls EXCEPT ![c] = NoCall],
           UNCHANGED <<runs, source>>,
           next.pending # NoProposal =>
              /\ next.pending.based = Len(history)
              /\ Len(history) > 0 => next.graph = Last.graph,
           next.status = "finalized" =>
              /\ Len(history) > 0 /\ ~PlanBlocked(next.graph)
              /\ Editable(Last) /\ Editable(next)
              /\ next.graph = Last.graph /\ next.target = Last.target
    PROVE  PlanInv'
<1> DEFINE n == Len(history)
<1>1. /\ history' \in Seq(Revision) /\ Len(history') = n + 1
      /\ DOMAIN history' = 1..(n + 1) /\ DOMAIN history = 1..n
      /\ history'[n + 1] = next /\ \A i \in DOMAIN history : history'[i] = history[i]
  BY HistoryGrows DEF PlanInv, TypeOK
<1>2. n \in Nat
  BY DEF PlanInv, TypeOK
<1>3. n > 0 => history'[n] = Last
  <2> SUFFICES ASSUME n > 0 PROVE history'[n] = history[n]
    BY DEF Last
  <2>1. n \in DOMAIN history
    BY <1>1, <1>2
  <2> QED
    BY <1>1, <2>1
<1>4. TypeOK'
  BY <1>1 DEF PlanInv, TypeOK
<1>5. CallsInv'
  <2> SUFFICES ASSUME NEW d \in Callers, calls'[d] # NoCall
               PROVE  CallFits(calls'[d], history', runs)
    BY DEF CallsInv
  <2>1. calls'[d] = calls[d]
    BY DEF PlanInv, TypeOK
  <2>2. DOMAIN history \subseteq DOMAIN history'
    BY <1>1, <1>2
  <2>3. CallFits(calls[d], history, runs)
    BY <2>1 DEF PlanInv, CallsInv
  <2>4. calls[d].op \notin {"create", "command"} =>
            history'[calls[d].rev] = history[calls[d].rev] /\ calls[d].rev \in DOMAIN history'
    BY <1>1, <2>2, <2>3 DEF CallFits
  <2>5. calls[d].op \in ByManager \cup ByPlanning => calls[d].op \notin {"create", "command"}
    BY DEF ByManager, ByPlanning
  <2> QED
    BY <2>1, <2>3, <2>4, <2>5 DEF CallFits
<1>6. RunsBindFinalizedRevisions'
  <2>1. DOMAIN history \subseteq DOMAIN history'
    BY <1>1, <1>2
  <2> QED
    BY <1>1, <2>1 DEF PlanInv, RunsBindFinalizedRevisions
<1>7. ProposalsAreCurrent'
  <2> SUFFICES ASSUME NEW i \in 1..(n + 1), history'[i].pending # NoProposal
               PROVE  /\ history'[i].pending.based = i - 1
                      /\ i > 1 => history'[i].graph = history'[i - 1].graph
    BY <1>1 DEF ProposalsAreCurrent
  <2>1. CASE i = n + 1
    <3>1. history'[i] = next /\ i - 1 = n /\ (i > 1 <=> n > 0)
      BY <1>1, <1>2, <2>1
    <3> HIDE DEF n
    <3> QED
      BY <1>3, <3>1 DEF n
  <2>2. CASE i \in 1..n
    <3>1. history'[i] = history[i] /\ (i > 1 => history'[i - 1] = history[i - 1])
      BY <1>1, <1>2, <2>2
    <3> QED
      BY <1>1, <2>2, <3>1 DEF PlanInv, ProposalsAreCurrent
  <2> QED
    BY <1>2, <2>1, <2>2
<1>8. FinalizedAsReviewed'
  <2> SUFFICES ASSUME NEW i \in 1..(n + 1), history'[i].status = "finalized"
               PROVE  /\ i > 1 /\ ~PlanBlocked(history'[i].graph)
                      /\ Editable(history'[i - 1]) /\ Editable(history'[i])
                      /\ history'[i].graph = history'[i - 1].graph
                      /\ history'[i].target = history'[i - 1].target
    BY <1>1 DEF FinalizedAsReviewed
  <2>1. CASE i = n + 1
    <3>1. n > 0
      BY <1>1, <2>1
    <3>2. i - 1 = n /\ i > 1 /\ history'[i] = next
      BY <1>1, <1>2, <2>1, <3>1
    <3> QED
      BY <1>3, <3>1, <3>2
  <2>2. CASE i \in 1..n
    <3>1. history[i].status = "finalized" /\ history'[i] = history[i]
      BY <1>1, <2>2
    <3>2. i > 1
      BY <1>1, <2>2, <3>1 DEF PlanInv, FinalizedAsReviewed
    <3>3. history'[i - 1] = history[i - 1]
      BY <1>1, <1>2, <2>2, <3>2
    <3> QED
      BY <1>1, <2>2, <3>1, <3>3 DEF PlanInv, FinalizedAsReviewed
  <2> QED
    BY <1>2, <2>1, <2>2
<1> QED
  BY <1>4, <1>5, <1>6, <1>7, <1>8 DEF PlanInv

\* A run of a revision that has none, finalized for the source as it is, can
\* be appended by a call that ends.
LEMMA RunAssembled ==
    ASSUME PlanInv, NEW c \in Callers, Assemble(c)
    PROVE  PlanInv'
<1> DEFINE rev == calls[c].rev
           n == Len(runs)
           r0 == [plan |-> rev, digest |-> source, stage |-> "live"]
<1>1. /\ calls[c] # NoCall /\ calls[c].op = "assemble" /\ AssemblyAllowed(rev)
      /\ runs' = Append(runs, r0) /\ calls' = [calls EXCEPT ![c] = NoCall]
      /\ UNCHANGED <<history, source>>
  BY DEF Assemble, At
<1>2. rev \in DOMAIN history /\ rev \in Nat
  BY <1>1 DEF PlanInv, TypeOK, CallsInv, CallFits
<1>3. r0 \in Run
  BY <1>2 DEF PlanInv, TypeOK, Run
<1> HIDE DEF r0
<1>4. /\ runs' \in Seq(Run) /\ DOMAIN runs' = 1..(n + 1) /\ DOMAIN runs = 1..n /\ n \in Nat
      /\ runs'[n + 1] = r0 /\ \A i \in DOMAIN runs : runs'[i] = runs[i]
  BY <1>1, <1>3 DEF PlanInv, TypeOK
<1>5. TypeOK'
  BY <1>1, <1>4 DEF PlanInv, TypeOK
<1>6. CallsInv'
  <2> SUFFICES ASSUME NEW d \in Callers, calls'[d] # NoCall
               PROVE  CallFits(calls'[d], history, runs')
    BY <1>1 DEF CallsInv
  <2>1. calls'[d] = calls[d]
    BY <1>1 DEF PlanInv, TypeOK
  <2>2. DOMAIN runs \subseteq DOMAIN runs'
    BY <1>4
  <2> QED
    BY <2>1, <2>2 DEF PlanInv, CallsInv, CallFits
<1>7. /\ history[rev].status = "finalized" /\ ~history[rev].archived
      /\ history[rev].target = source /\ ~OffTarget(history[rev].graph)
      /\ \A r \in DOMAIN runs : runs[r].plan # rev
  BY <1>1 DEF AssemblyAllowed, ReadyForTarget
<1>8. history[rev].pending = NoProposal /\ ~PlanBlocked(history[rev].graph)
  BY <1>2, <1>7 DEF PlanInv, FinalizedAsReviewed, Editable
<1>9. r0.plan = rev /\ r0.digest = source
  BY DEF r0
<1>10. RunsBindFinalizedRevisions'
  <2> SUFFICES ASSUME NEW r \in 1..(n + 1)
               PROVE  /\ runs'[r].plan \in DOMAIN history
                      /\ LET rv == history[runs'[r].plan] IN
                         /\ rv.status = "finalized" /\ ~rv.archived /\ rv.pending = NoProposal
                         /\ rv.target = runs'[r].digest /\ ~PlanBlocked(rv.graph)
                         /\ ~OffTarget(rv.graph)
                      /\ \A q \in 1..(n + 1) : runs'[q].plan = runs'[r].plan => q = r
    BY <1>1, <1>4 DEF RunsBindFinalizedRevisions
  <2>1. \A q \in 1..(n + 1) : q = n + 1 \/ (q \in DOMAIN runs /\ runs'[q] = runs[q])
    BY <1>4
  <2> HIDE DEF rev, n
  <2>2. CASE r = n + 1
    BY <1>2, <1>4, <1>7, <1>8, <1>9, <2>1, <2>2
  <2>3. CASE r \in DOMAIN runs /\ runs'[r] = runs[r]
    BY <1>4, <1>7, <1>9, <2>1, <2>3 DEF PlanInv, RunsBindFinalizedRevisions
  <2> QED
    BY <2>1, <2>2, <2>3
<1>11. (ProposalsAreCurrent /\ FinalizedAsReviewed)'
  BY <1>1 DEF PlanInv, ProposalsAreCurrent, FinalizedAsReviewed
<1> QED
  BY <1>5, <1>6, <1>10, <1>11 DEF PlanInv

\* A command on a run leaves what it is bound to.
LEMMA RunCommanded ==
    ASSUME PlanInv, NEW c \in Callers, CommandRun(c)
    PROVE  PlanInv'
<1> DEFINE r0 == calls[c].run
<1>1. PICK stage \in {"live", "terminal"} : runs' = [runs EXCEPT ![r0].stage = stage]
  BY DEF CommandRun
<1>2. /\ calls[c] # NoCall /\ calls[c].op = "command"
      /\ calls' = [calls EXCEPT ![c] = NoCall] /\ UNCHANGED <<history, source>>
  BY DEF CommandRun, At
<1>3. runs \in Seq(Run) /\ r0 \in DOMAIN runs
  BY <1>2 DEF PlanInv, TypeOK, CallsInv, CallFits
<1>4. [runs[r0] EXCEPT !.stage = stage] \in Run
  <2>1. runs[r0] \in Run
    BY <1>3
  <2> QED
    BY <2>1 DEF Run
<1>5. runs' = [runs EXCEPT ![r0] = [runs[r0] EXCEPT !.stage = stage]]
  BY <1>1
<1>6. /\ runs' \in Seq(Run) /\ DOMAIN runs' = DOMAIN runs
      /\ \A r \in DOMAIN runs : runs'[r].plan = runs[r].plan /\ runs'[r].digest = runs[r].digest
  <2>1. runs' \in Seq(Run) /\ DOMAIN runs' = DOMAIN runs
    BY <1>3, <1>4, <1>5
  <2>2. ASSUME NEW r \in DOMAIN runs
        PROVE  runs'[r].plan = runs[r].plan /\ runs'[r].digest = runs[r].digest
    <3>1. runs[r] \in Run
      BY <1>3
    <3> QED
      BY <1>3, <1>5, <3>1 DEF Run
  <2> QED
    BY <2>1, <2>2
<1>7. TypeOK'
  BY <1>2, <1>6 DEF PlanInv, TypeOK
<1>8. CallsInv'
  <2> SUFFICES ASSUME NEW d \in Callers, calls'[d] # NoCall
               PROVE  CallFits(calls'[d], history, runs')
    BY <1>2 DEF CallsInv
  <2>1. calls'[d] = calls[d]
    BY <1>2 DEF PlanInv, TypeOK
  <2> QED
    BY <1>6, <2>1 DEF PlanInv, CallsInv, CallFits
<1>9. RunsBindFinalizedRevisions'
  BY <1>2, <1>6 DEF PlanInv, RunsBindFinalizedRevisions
<1>10. (ProposalsAreCurrent /\ FinalizedAsReviewed)'
  BY <1>2 DEF PlanInv, ProposalsAreCurrent, FinalizedAsReviewed
<1> QED
  BY <1>7, <1>8, <1>9, <1>10 DEF PlanInv

\* Every step of a call, and of the target, keeps the invariant.
LEMMA NextPlanInv == PlanInv /\ [Next]_vars => PlanInv'
<1> SUFFICES ASSUME PlanInv, [Next]_vars PROVE PlanInv'
  OBVIOUS
<1>1. TypeOK /\ Len(history) \in Nat /\ (history # <<>> => Len(history) \in DOMAIN history)
  BY DEF PlanInv, TypeOK
<1>2. source \in Digests
  BY <1>1 DEF TypeOK
<1>3. ASSUME NEW c \in Callers, Ends(c) PROVE PlanInv'
  <2>1. /\ calls' = [calls EXCEPT ![c] = NoCall] /\ UNCHANGED <<history, runs, source>>
    BY <1>3 DEF Ends
  <2>2. calls'[c] = NoCall /\ (\A d \in Callers : d # c => calls'[d] = calls[d]) /\ TypeOK'
    BY <1>1, <2>1 DEF TypeOK
  <2> QED
    BY <2>1, <2>2, CallJoins
<1>4. ASSUME NEW c \in Callers, BeginCreate(c) PROVE PlanInv'
  <2>1. Accepted(c, "create", "act", NoTarget, 0)
    BY <1>4 DEF BeginCreate
  <2>2. /\ TypeOK' /\ UNCHANGED <<history, runs, source>> /\ calls'[c].op = "create"
        /\ \A d \in Callers : d # c => calls'[d] = calls[d]
    BY <1>1, <2>1, AcceptedCall
  <2>3. CallFits(calls'[c], history, runs)
    BY <2>2 DEF CallFits, ByManager, ByPlanning
  <2> QED
    BY <2>2, <2>3, CallJoins
<1>5. ASSUME NEW c \in Callers, CreatePlan(c) PROVE PlanInv'
  <2>1. PICK p \in AgentProposals(0) :
            history' = <<[status |-> "draft", graph |-> EmptyGraph, target |-> NoTarget,
                          pending |-> p, archived |-> FALSE]>>
    BY <1>5 DEF CreatePlan
  <2> DEFINE first == [status |-> "draft", graph |-> EmptyGraph, target |-> NoTarget,
                       pending |-> p, archived |-> FALSE]
  <2>2. p \in [based: Nat, graph: Proposals] /\ p.based = 0
    BY DEF AgentProposals
  <2>3. first \in Revision /\ first.pending = p /\ first.status = "draft"
    BY <2>2, EmptyGraphIsGraph DEF Revision
  <2>4. history = <<>> /\ calls' = [calls EXCEPT ![c] = NoCall] /\ UNCHANGED <<runs, source>>
    BY <1>5 DEF CreatePlan
  <2>5. history' = Append(history, first) /\ Len(history) = 0
    BY <2>1, <2>4
  <2> HIDE DEF first
  <2>6. /\ first.pending # NoProposal =>
               /\ first.pending.based = Len(history)
               /\ Len(history) > 0 => first.graph = Last.graph
        /\ first.status # "finalized"
    BY <2>2, <2>3, <2>5
  <2> QED
    BY <2>3, <2>4, <2>5, <2>6, RevisionAppended
<1>6. ASSUME NEW c \in Callers, NEW op \in ByPlanning, BeginEdit(c, op) PROVE PlanInv'
  <2>1. /\ Accepted(c, op, "act", NoTarget, 0) /\ history # <<>>
        /\ Allows(history[Len(history)], op, NoTarget)
    BY <1>6 DEF BeginEdit
  <2>2. /\ TypeOK' /\ UNCHANGED <<history, runs, source>>
        /\ calls'[c].op = op /\ calls'[c].rev = Len(history) /\ calls'[c].digest = NoTarget
        /\ \A d \in Callers : d # c => calls'[d] = calls[d]
    BY <1>1, <2>1, AcceptedCall
  <2>3. CallFits(calls'[c], history, runs)
    BY <1>1, <2>1, <2>2 DEF CallFits, ByPlanning
  <2> QED
    BY <2>2, <2>3, CallJoins
<1>7. ASSUME NEW c \in Callers, NEW op \in ByManager, RequirePlanWithoutRun(c, op) PROVE PlanInv'
  <2>1. PICK digest \in Digests \cup {NoTarget} : Accepted(c, op, "read", digest, 0)
    BY <1>2, <1>7 DEF RequirePlanWithoutRun
  <2>2. /\ TypeOK' /\ UNCHANGED <<history, runs, source>>
        /\ calls'[c].op = op /\ calls'[c].step = "read" /\ calls'[c].rev = Len(history)
        /\ \A d \in Callers : d # c => calls'[d] = calls[d]
    BY <1>1, <2>1, AcceptedCall
  <2>3. CallFits(calls'[c], history, runs)
    BY <1>1, <1>7, <2>2 DEF RequirePlanWithoutRun, CallFits, ByManager
  <2> QED
    BY <2>2, <2>3, CallJoins
<1>8. ASSUME NEW c \in Callers, NEW op \in ByManager, ReadPlan(c, op) PROVE PlanInv'
  <2>1. /\ calls[c] # NoCall /\ calls[c].op = op
        /\ Allows(history[calls[c].rev], op, calls[c].digest)
        /\ calls' = [calls EXCEPT ![c].step = "act"] /\ UNCHANGED <<history, runs, source>>
    BY <1>8 DEF ReadPlan, At
  <2>2. calls[c] \in Call /\ CallFits(calls[c], history, runs)
    BY <1>1, <2>1 DEF TypeOK, PlanInv, CallsInv
  <2> DEFINE k == [calls[c] EXCEPT !.step = "act"]
  <2>3. /\ k \in Call /\ k.op = op /\ k.rev = calls[c].rev /\ k.digest = calls[c].digest
        /\ k.run = calls[c].run
    BY <2>1, <2>2 DEF Call
  <2>4. calls' = [calls EXCEPT ![c] = k]
    BY <2>1
  <2> HIDE DEF k
  <2>5. TypeOK' /\ calls'[c] = k /\ \A d \in Callers : d # c => calls'[d] = calls[d]
    BY <1>1, <2>1, <2>3, <2>4 DEF TypeOK
  <2>6. CallFits(k, history, runs)
    BY <2>1, <2>2, <2>3 DEF CallFits, ByManager
  <2> QED
    BY <2>1, <2>5, <2>6, CallJoins
<1>9. ASSUME NEW c \in Callers, NEW op \in ByManager \cup ByPlanning, AppendRevision(c, op)
      PROVE  PlanInv'
  <2>1. /\ calls[c] # NoCall /\ calls[c].op = op /\ calls[c].step = "act"
        /\ calls[c].rev = Len(history)
        /\ calls' = [calls EXCEPT ![c] = NoCall] /\ UNCHANGED <<runs, source>>
    BY <1>9 DEF AppendRevision, At, IsLatest
  <2>2. calls[c] \in Call /\ CallFits(calls[c], history, runs)
    BY <1>1, <2>1 DEF TypeOK, PlanInv, CallsInv
  <2>3. Len(history) \in DOMAIN history /\ Allows(Last, op, calls[c].digest)
    BY <2>1, <2>2 DEF CallFits, ByManager, ByPlanning, Last
  <2>4. calls[c].digest \in Digests \cup {NoTarget} /\ history \in Seq(Revision)
    BY <1>1, <2>2 DEF Call, TypeOK
  <2>5. PICK next \in Edited(Len(history), op, calls[c].digest) : history' = Append(history, next)
    BY <1>9, <2>1 DEF AppendRevision
  <2>6. /\ next \in Revision
        /\ next.pending # NoProposal =>
               next.pending.based = Len(history) /\ next.graph = Last.graph
        /\ next.status = "finalized" =>
               /\ ~PlanBlocked(next.graph) /\ Editable(Last) /\ Editable(next)
               /\ next.graph = Last.graph /\ next.target = Last.target
    BY <2>3, <2>4, NextRevision
  <2>7. Len(history) > 0
    BY <2>3, <2>4
  <2> QED
    BY <2>1, <2>5, <2>6, <2>7, RevisionAppended
<1>10. ASSUME NEW c \in Callers, BeginAssembly(c) PROVE PlanInv'
  <2>1. Accepted(c, "assemble", "act", NoTarget, 0) /\ history # <<>>
    BY <1>10 DEF BeginAssembly
  <2>2. /\ TypeOK' /\ UNCHANGED <<history, runs, source>>
        /\ calls'[c].op = "assemble" /\ calls'[c].rev = Len(history)
        /\ \A d \in Callers : d # c => calls'[d] = calls[d]
    BY <1>1, <2>1, AcceptedCall
  <2>3. CallFits(calls'[c], history, runs)
    BY <1>1, <2>1, <2>2 DEF CallFits, ByManager, ByPlanning
  <2> QED
    BY <2>2, <2>3, CallJoins
<1>11. ASSUME NEW c \in Callers, NEW r \in DOMAIN runs, RequireExecutionRun(c, r) PROVE PlanInv'
  <2>1. Accepted(c, "command", "act", NoTarget, r) /\ r \in Nat
    BY <1>1, <1>11 DEF RequireExecutionRun, TypeOK
  <2>2. /\ TypeOK' /\ UNCHANGED <<history, runs, source>>
        /\ calls'[c].op = "command" /\ calls'[c].run = r
        /\ \A d \in Callers : d # c => calls'[d] = calls[d]
    BY <1>1, <2>1, AcceptedCall
  <2>3. CallFits(calls'[c], history, runs)
    BY <1>11, <2>2 DEF CallFits, ByManager, ByPlanning
  <2> QED
    BY <2>2, <2>3, CallJoins
<1>12. CASE SourceDrifts \/ UNCHANGED vars
  <2>1. source' \in Digests /\ UNCHANGED <<history, runs, calls>>
    BY <1>2, <1>12 DEF SourceDrifts, vars
  <2>2. TypeOK' /\ CallsInv'
    BY <1>1, <2>1 DEF PlanInv, TypeOK, CallsInv
  <2> QED
    BY <2>1, <2>2, PlanUnchanged DEF PlanInv
<1> QED
  BY <1>3, <1>4, <1>5, <1>6, <1>7, <1>8, <1>9, <1>10, <1>11, <1>12, RunAssembled, RunCommanded
  DEF Next

-----------------------------------------------------------------------------
(* The theorems *)

\* Whatever the callers of the service interleave, revisions, runs and calls
\* stay consistent: the calls fit what they read, the pending proposals are
\* current, and runs bind revisions that were finalized as reviewed.
THEOREM PlanInvHolds == Spec => []PlanInv
<1>1. Init => PlanInv
  BY InitPlanInv
<1>2. PlanInv /\ [Next]_vars => PlanInv'
  BY NextPlanInv
<1> QED
  BY <1>1, <1>2, PTL DEF Spec

\* Revisions, runs and calls keep their types; every accepted edit is a graph.
THEOREM TypeCorrect == Spec => []TypeOK
<1>1. PlanInv => TypeOK
  BY DEF PlanInv
<1> QED
  BY <1>1, PlanInvHolds, PTL

\* assemble_run reads the plan before it waits for the lock, and still binds a
\* run to a finalized revision, for its own source, and once.
THEOREM RunsAreBound == Spec => []RunsBindFinalizedRevisions
<1>1. PlanInv => RunsBindFinalizedRevisions
  BY DEF PlanInv
<1> QED
  BY <1>1, PlanInvHolds, PTL

\* However long an agent takes, its proposal is for the revision just before.
THEOREM ProposalsStayCurrent == Spec => []ProposalsAreCurrent
<1>1. PlanInv => ProposalsAreCurrent
  BY DEF PlanInv
<1> QED
  BY <1>1, PlanInvHolds, PTL

\* A finalized revision is the draft that was assessed.
THEOREM FinalizedIsReviewed == Spec => []FinalizedAsReviewed
<1>1. PlanInv => FinalizedAsReviewed
  BY DEF PlanInv
<1> QED
  BY <1>1, PlanInvHolds, PTL

\* A further revision has no run, so the ended run is still the one displayed.
LEMMA EndedStep ==
    ASSUME PlanInv, [Next]_vars, Stage = "ended", UNCHANGED runs
    PROVE  Stage' \in {"ended", "archived"}
<1>1. /\ history # <<>> /\ ~history[Len(history)].archived
      /\ ShownRuns \cap TerminalRuns # {}
  BY DEF Stage
<1>2. history \in Seq(Revision) /\ Len(history) \in Nat \ {0}
  BY <1>1 DEF PlanInv, TypeOK
<1>3. CASE UNCHANGED history
  BY <1>3 DEF Stage, ShownRuns, TerminalRuns, RunsAtLatest, IsLatest
<1>4. CASE \E next : history' = Append(history, next)
  <2>1. Len(history') = Len(history) + 1 /\ history' # <<>>
    BY <1>2, <1>4
  <2>2. TerminalRuns # {} /\ TerminalRuns' = TerminalRuns
    BY <1>1 DEF TerminalRuns
  <2>3. RunsAtLatest' = {}
    <3> SUFFICES ASSUME NEW r \in DOMAIN runs, runs[r].plan = Len(history') PROVE FALSE
      BY DEF RunsAtLatest, IsLatest
    <3>1. runs[r].plan \in 1..Len(history)
      BY <1>2 DEF PlanInv, RunsBindFinalizedRevisions
    <3> QED
      BY <1>2, <2>1, <3>1
  <2>4. ShownRuns' \cap TerminalRuns' # {}
    BY <2>2, <2>3 DEF ShownRuns
  <2> QED
    BY <2>1, <2>4 DEF Stage
<1>5. UNCHANGED history \/ \E next : history' = Append(history, next)
  <2>1. CASE UNCHANGED vars
    BY <2>1 DEF vars
  <2>2. CASE Next
    BY <1>1, <2>2 DEF Next, Ends, BeginCreate, CreatePlan, BeginEdit, RequirePlanWithoutRun,
                      ReadPlan, AppendRevision, BeginAssembly, Assemble, RequireExecutionRun,
                      CommandRun, SourceDrifts, Accepted
  <2> QED
    BY <2>1, <2>2
<1> QED
  BY <1>3, <1>4, <1>5

\* ADR-0058: planning after the end of a task does not show it as planned.
THEOREM EndedIsFinal == Spec => EndedStaysShown
<1>1. PlanInv /\ [Next]_vars
      => [Stage = "ended" /\ UNCHANGED runs => Stage' \in {"ended", "archived"}]_vars
  BY EndedStep
<1> QED
  BY <1>1, PlanInvHolds, PTL DEF Spec, EndedStaysShown
=============================================================================
