------------------------------- MODULE Kahn --------------------------------
(* planning/service.py _check_acyclic, the queue algorithm that every written
   dependency passes, step by step on every small graph, and layoutDag, by
   which the control panel lays out the graphs that it accepts.

   The code's lists are kept up to order: edges[<<t, d>>] is how often the
   pair occurs in the list of edges (create_plan_with_tasks does not remove
   duplicates before the check), and the queue is a set from which any member
   is taken next, so the result holds for every order of the lists.          *)
EXTENDS Integers, FiniteSets, FiniteSetsExt

CONSTANTS
    Ids,        \* the ids that occur in nodes or edges
    MaxCopies   \* the bound on the copies of one edge

\* The lists are finite.
ASSUME KahnAssumption == IsFiniteSet(Ids) /\ MaxCopies \in Nat

\* An operator named X_... is X with a seeded bug; nothing refers to it.
VARIABLES
    nodes,      \* the argument nodes
    edges,      \* the argument edges, <<task_id, dep_id>>, with multiplicity
    inDegree,   \* for each node, the prerequisites not yet visited
    queue,      \* nodes all whose prerequisites are visited
    visited,    \* visited_count
    result      \* "running", "accepted", or "rejected" (DependencyCycleError)

kahnVars == <<nodes, edges, inDegree, queue, visited, result>>

SumOver(f, S) == MapThenSumSet(LAMBDA x : f[x], S)

\* adj and in_degree: only edges between given nodes count
DegreeIn(n) == SumOver(edges, {n} \X nodes)

\* Self-dependencies are refused before the graph is built.
KahnInit ==
    /\ nodes \in SUBSET Ids
    /\ edges \in [Ids \X Ids -> 0..MaxCopies]
    /\ inDegree = [n \in nodes |-> DegreeIn(n)]
    /\ queue = {n \in nodes : DegreeIn(n) = 0}
    /\ visited = 0
    /\ result = IF \E i \in Ids : edges[<<i, i>>] > 0 THEN "rejected" ELSE "running"

\* Each dependent is decremented once, however often the edge is listed.
Decrement_Once(u) ==
    [v \in nodes |-> inDegree[v] - (IF edges[<<v, u>>] > 0 THEN 1 ELSE 0)]

\* The inner loop over adj[u]
Decrement(u) == [v \in nodes |-> inDegree[v] - edges[<<v, u>>]]

\* One round of the while loop
Visit(u) ==
    /\ result = "running"
    /\ u \in queue
    /\ visited' = visited + 1
    /\ inDegree' = Decrement(u)
    /\ queue' = (queue \ {u}) \cup
                  {v \in nodes : edges[<<v, u>>] > 0 /\ inDegree'[v] = 0}
    /\ UNCHANGED <<nodes, edges, result>>

\* The queue is empty: compare the count with the number of nodes
Decide ==
    /\ result = "running"
    /\ queue = {}
    /\ result' = IF visited < Cardinality(nodes) THEN "rejected" ELSE "accepted"
    /\ UNCHANGED <<nodes, edges, inDegree, queue, visited>>

KahnNext == (\E u \in nodes : Visit(u)) \/ Decide

KahnSpec == KahnInit /\ [][KahnNext]_kahnVars

-----------------------------------------------------------------------------
(* layoutDag of the control panel (lib/planTasks.ts).                       *)

EdgeSet == {e \in Ids \X Ids : edges[e] > 0}
Prerequisites(n) == {p \in Ids : <<n, p>> \in EdgeSet}

\* The column of a task is that of its last prerequisite.
Column_Same(columns) == Max(columns \cup {0})

\* 1 + Math.max(0, ...)
Column(columns) == 1 + Max(columns \cup {0})

\* A call <<id, path>> of depth: a prerequisite that is not a task counts as
\* column 0.
depth[call \in Ids \X SUBSET Ids] ==
    LET n == call[1]
        path == call[2]
    IN  IF n \notin nodes \/ Prerequisites(n) = {} \/ n \in path THEN 0
        ELSE Column({IF p \in nodes THEN depth[<<p, path \cup {n}>>] ELSE 0 :
                        p \in Prerequisites(n)})

layoutDag == [n \in nodes |-> depth[<<n, {}>>]]

\* A column of DagView
Layer(k) == {n \in nodes : layoutDag[n] = k}

-----------------------------------------------------------------------------
(* Properties.                                                              *)

\* The reference: the Acyclic of module PlanTasks.
AcyclicGraph ==
    /\ \A i \in Ids : <<i, i>> \notin EdgeSet
    /\ \A S \in SUBSET nodes :
        S # {} => \E n \in S : \A m \in S : <<n, m>> \notin EdgeSet

\* The algorithm accepts exactly the acyclic graphs, duplicate edges and edges
\* to unknown ids included.
DecidesAcyclic ==
    /\ result = "accepted" => AcyclicGraph
    /\ result = "rejected" => ~AcyclicGraph

\* The panel lays out every accepted graph from left to right: a task stands to
\* the right of all its prerequisites; no column between is empty if they are
\* all tasks of the plan; and a column is the same along whichever path it is
\* reached, so that memo may keep the first one found.
LayoutLeftToRight ==
    result = "accepted" =>
        /\ \A n, p \in nodes : <<n, p>> \in EdgeSet =>
            /\ layoutDag[n] > layoutDag[p]
            /\ depth[<<p, {n}>>] = layoutDag[p]
        /\ (\A n \in nodes : Prerequisites(n) \subseteq nodes) =>
            \A n \in nodes : \A k \in 0..layoutDag[n] : Layer(k) # {}

=============================================================================
