---------------------------- MODULE CodeMapGraph ---------------------------
(* The tiers of the code map that the server answers with (codemap/service.py)
   and the graph into which both web clients merge them (lib/codemap.ts, one
   copy in each client).

   A path is the sequence of its segments.  Of a node only its kind and path
   are kept: its id is made of the two.  Kinds and weights of edges, metrics
   and overlays are left out, and so are nodes of external packages, which no
   client asks for.                                                          *)
EXTENDS Naturals, Sequences

CONSTANTS
    Files,  \* Files[v]: the paths of version v of the index
    Deps    \* Deps[v]: the pairs of paths <<src_path, dst_path>> of its edges

Node(kind, path) == [kind |-> kind, path |-> path]
Dir(path) == Node("directory", path)
File(path) == Node("file", path)

\* _in_scope; isAncestorPath of the clients is the same with a node's path
Within(path, scope) == Len(scope) <= Len(path) /\ SubSeq(path, 1, Len(scope)) = scope

-----------------------------------------------------------------------------
(* The server.                                                              *)

\* _tier_node
TierNode(path, cutoff) ==
    IF Len(path) <= cutoff THEN File(path) ELSE Dir(SubSeq(path, 1, cutoff))

\* _boundary_node: a sibling of the scope
BoundaryNode(path, scope) == TierNode(path, Len(scope) + 1)

\* _endpoint
Endpoint(path, scope, depth) ==
    IF Within(path, scope) THEN TierNode(path, Len(scope) + depth) ELSE BoundaryNode(path, scope)

\* The edges with an end in the scope
Touching(v, scope) == {d \in Deps[v] : \E i \in {1, 2} : Within(d[i], scope)}

\* Both ends have a node: a path in the scope needs a file of the index.
Resolved(d, v, scope) == \A i \in {1, 2} : Within(d[i], scope) => d[i] \in Files[v]

HasFiles(v, scope) == \E f \in Files[v] : Within(f, scope)

\* get_code_map of a scope that has files.  The stubs are the nodes marked
\* outside_scope; for a file only its symbols are answered.
GetCodeMap(v, scope, depth) ==
    LET deps == Touching(v, scope)
        Ends(d) == <<Endpoint(d[1], scope, depth), Endpoint(d[2], scope, depth)>>
    IN [version |-> v, scope |-> scope,
        scopeKind |-> IF scope \in Files[v] THEN "file" ELSE "directory",
        nodes |-> {Endpoint(f, scope, depth) : f \in {g \in Files[v] : Within(g, scope)}},
        stubs |-> {BoundaryNode(p, scope) :
                      p \in {q \in {d[i] : d \in deps, i \in {1, 2}} : ~Within(q, scope)}},
        edges |-> {e \in {Ends(d) : d \in {x \in deps : Resolved(x, v, scope)}} : e[1] # e[2]}]

-----------------------------------------------------------------------------
(* The clients.  A graph is a set of nodes with those of them that are marked
   outside_scope or expanded, its edges and loadedScopes.  from is history:
   the versions of the index whose tiers were merged.                       *)

Graph(nodes, stubs, expanded, edges, loaded, from) ==
    [nodes |-> nodes, stubs |-> stubs, expanded |-> expanded, edges |-> edges,
     loaded |-> loaded, from |-> from]

EmptyGraph == Graph({}, {}, {}, {}, {}, {})

\* The root tier replaces everything.
Seed(t) == Graph(t.nodes \cup t.stubs, t.stubs, {}, t.edges, {t.scope}, {t.version})

\* The tier's edges next to those of the aggregate
WithoutEdges_None(g, n) == g

WithoutEdges(g, n) ==
    Graph(g.nodes, g.stubs, g.expanded, {e \in g.edges : n \notin {e[1], e[2]}}, g.loaded, g.from)

WithoutNode(g, n) ==
    Graph(g.nodes \ {n}, g.stubs \ {n}, g.expanded \ {n}, g.edges, g.loaded, g.from)

\* All directories above the scope are marked expanded.
AllAbove(nodes, scope) == {n \in nodes : n.kind = "directory" /\ Within(scope, n.path)}

\* Every stub of the answer overwrites what is there.
StubsAfter_All(g, t) == (g.stubs \ t.nodes) \cup t.stubs

\* A real node already present is kept as it is.
StubsAfter(g, t) == (g.stubs \ t.nodes) \cup (t.stubs \ (g.nodes \ g.stubs))

AddTier(g, t) ==
    LET nodes == g.nodes \cup t.nodes \cup t.stubs
    IN Graph(nodes, StubsAfter(g, t), g.expanded \cup AllAbove(nodes, t.scope),
             g.edges \cup t.edges, g.loaded \cup {t.scope}, g.from \cup {t.version})

\* mergeCodeMap of the dashboard: the directory itself goes.
MergeWeb(g, t) ==
    IF t.scopeKind = "file" THEN g
    ELSE IF t.scope = <<>> THEN Seed(t)
    ELSE AddTier(WithoutNode(WithoutEdges(g, Dir(t.scope)), Dir(t.scope)), t)

\* mergeCodeMap of the control panel: only its edges go.
MergePanel(g, t) ==
    IF t.scopeKind = "file" THEN g
    ELSE IF t.scope = <<>> THEN Seed(t)
    ELSE AddTier(WithoutEdges(g, Dir(t.scope)), t)

\* The nodes on the way to a path
Above(g, path) == {n \in g.nodes : Within(path, n.path)}

\* The first directory on the way
Nearest_Highest(g, path) ==
    CHOOSE n \in Above(g, path) : \A m \in Above(g, path) : Len(m.path) >= Len(n.path)

\* best of locateHit
Nearest(g, path) ==
    CHOOSE n \in Above(g, path) : \A m \in Above(g, path) : Len(m.path) <= Len(n.path)

Found(n) == [kind |-> "node", node |-> n]
Expand(scope) == [kind |-> "expand", scope |-> scope]
Unreachable == [kind |-> "unreachable"]

\* locateHit; every directory has children.
locateHit(g, path) ==
    IF File(path) \in g.nodes THEN Found(File(path))
    ELSE IF Above(g, path) # {} THEN
        LET best == Nearest(g, path)
        IN IF best.kind = "directory" /\ best \notin g.expanded THEN Expand(best.path) ELSE Found(best)
    ELSE IF Len(path) > 1 THEN Expand(SubSeq(path, 1, 1)) ELSE Unreachable

=============================================================================
