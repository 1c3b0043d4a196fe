--------------------------- MODULE TaskPlanGraphs ---------------------------
(***************************************************************************)
(* Task graphs and the direct edits of TaskOrchestrationService.  A node   *)
(* has a content; of its text only what an assessment blocks is told       *)
(* apart.  Edges with other relations, labels or ids join the same nodes.  *)
(* An edit whose graph is not well formed raises and appends nothing.      *)
(***************************************************************************)
CONSTANTS
    NodeIds,
    Contents, \* what a node may say
    Unready,  \* a validation without verification requirements
    Foreign   \* instructions that are not the execution target's

ASSUME TaskPlanGraphsAssumption == Unready \subseteq Contents /\ Foreign \subseteq Contents

NodesOf(g) == DOMAIN g.content

\* Depth-first search finds no cycle: every set of nodes has one without
\* a successor in the set.
Acyclic(g) ==
    \A S \in SUBSET NodesOf(g) :
        S # {} => \E n \in S : \A m \in S : <<n, m>> \notin g.edges

\* validate_task_plan_graph
WellFormed(g) == g.edges \subseteq NodesOf(g) \X NodesOf(g) /\ Acyclic(g)

TaskGraphs ==
    {g \in UNION {[content: [N -> Contents], edges: SUBSET (N \X N)] : N \in SUBSET NodeIds} :
        WellFormed(g)}

EmptyGraph == [content |-> [n \in {} |-> n], edges |-> {}]

-----------------------------------------------------------------------------
(* The graphs that an edit of g may ask for *)

WithNode(g, n, c) == [m \in NodesOf(g) \cup {n} |-> IF m = n THEN c ELSE g.content[m]]

\* create_node and split_node: a new node, alone or after a node of the graph
NodeCreated(g) ==
    UNION {{[content |-> WithNode(g, n, c), edges |-> g.edges \cup E] :
               E \in {{}} \cup {{<<s, n>>} : s \in NodesOf(g)}} :
           n \in NodeIds \ NodesOf(g), c \in Contents}

NodeUpdated(g) == {[g EXCEPT !.content = WithNode(g, n, c)] : n \in NodesOf(g), c \in Contents}

\* delete_node takes the edges of the node with it.
WithoutNode(g, n) ==
    [content |-> [m \in NodesOf(g) \ {n} |-> g.content[m]],
     edges |-> {e \in g.edges : n # e[1] /\ n # e[2]}]

NodeDeleted(g) == {WithoutNode(g, n) : n \in NodesOf(g)}

EdgeCreated(g) ==
    {[g EXCEPT !.edges = @ \cup {e}] : e \in {d \in NodesOf(g) \X NodesOf(g) : d[1] # d[2]}}

\* update_edge: another relation or label
EdgeUpdated(g) == {g : e \in g.edges}

EdgeDeleted(g) == {[g EXCEPT !.edges = @ \ {e}] : e \in g.edges}

DirectEdits(g) ==
    {h \in NodeCreated(g) \cup NodeUpdated(g) \cup NodeDeleted(g)
           \cup EdgeCreated(g) \cup EdgeUpdated(g) \cup EdgeDeleted(g) : WellFormed(h)}

-----------------------------------------------------------------------------
(* Assessments, of the graph's part in them *)

\* assess_task_plan finds a blocker.
PlanBlocked(g) == NodesOf(g) = {} \/ \E n \in NodesOf(g) : g.content[n] \in Unready

\* assess_plan_for_target does.
OffTarget(g) == \E n \in NodesOf(g) : g.content[n] \in Foreign
=============================================================================
