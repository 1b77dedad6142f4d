------------------------------- MODULE CodeMap ------------------------------
(* The code map in the browser: CodeMapView of the dashboard (client "web"),
   which locates a clicked path by loading tiers one after the other, and the
   tree of CodeMap of the control panel (client "panel"), which loads a tier
   when a directory is opened.  The project is indexed again meanwhile.

   One JavaScript turn is one step: a locate runs from one answer to its next
   request.  One project is shown.                                           *)
EXTENDS CodeMapGraph

CONSTANTS
    Segments,   \* the names of directories and files
    MaxVersion, \* the versions of the index are 1..MaxVersion
    HotSpots,   \* the linked files of open blockers and bugs
    MaxSteps,   \* the bound of the loop in locate: 5 in the code
    Slots,      \* the locates that can be under way at the same time
    MaxClicks   \* the bound on locates in all

Versions == 1..MaxVersion

ASSUME PathsAreSequences ==
    /\ HotSpots \in SUBSET Seq(Segments)
    /\ \A v \in Versions :
        /\ \A f \in Files[v] : f \in Seq(Segments) /\ f # <<>>
        /\ \A d \in Deps[v] : d \in Seq(Segments) \X Seq(Segments)
ASSUME BoundsAreNumbers == MaxVersion \in Nat \ {0} /\ MaxSteps \in Nat

SUBTREE_DEPTH == 2
DEFAULT_DEPTH == 1

VARIABLES
    client,   \* "web" or "panel"
    version,  \* the index at the server
    root,     \* the version of the root tier shown, 0 until it is loaded
    detail,   \* that of the document's second tier (web)
    cached,   \* the version of each subtree's tier in the query cache (web)
    graph,    \* the state of the component
    selected, \* the node that is inspected, or NoNode
    notice,   \* expandError is shown (web)
    locates,  \* the locates under way and how the last one of a slot ended
    clicks    \* counts the locates, for MaxClicks

mapVars == <<client, version, root, detail, cached, graph, selected, notice, locates, clicks>>

NoNode == Node("none", <<>>)

Prefixes(path) == {SubSeq(path, 1, n) : n \in 1..Len(path)}
Scopes == UNION {Prefixes(path) : path \in HotSpots \cup UNION {Files[v] : v \in Versions}}

\* get_code_map, tabulated
Tier == [v \in Versions |-> [scope \in Scopes \cup {<<>>} |->
          [depth \in {DEFAULT_DEPTH, SUBTREE_DEPTH} |-> GetCodeMap(v, scope, depth)]]]
Root(v) == Tier[v][<<>>][DEFAULT_DEPTH]

\* phase: "idle", "asks" (for the tier of scope, since a version of the index),
\* or "ended" with how: "node", "missing", "silent" or "failed"
Locate(phase, path, current, step, scope, since, loud, how) ==
    [phase |-> phase, path |-> path, current |-> current, step |-> step, scope |-> scope,
     since |-> since, loud |-> loud, how |-> how]

Ended(path, loud, how) == Locate("ended", path, EmptyGraph, 0, <<>>, 0, loud, how)
Idle == Locate("idle", <<>>, EmptyGraph, 0, <<>>, 0, FALSE, "none")

MapInit ==
    /\ client \in {"web", "panel"}
    /\ version = 1
    /\ root = 0 /\ detail = 0
    /\ cached = [s \in Scopes |-> 0]
    /\ graph = EmptyGraph
    /\ selected = NoNode
    /\ notice = FALSE
    /\ locates = [l \in Slots |-> Idle]
    /\ clicks = 0

-----------------------------------------------------------------------------
(* The server and the queries.                                              *)

Reindex ==
    /\ version < MaxVersion
    /\ version' = version + 1
    /\ UNCHANGED <<client, root, detail, cached, graph, selected, notice, locates, clicks>>

\* The root query has data that differ from the last: another version of the
\* index, or the same with another overlay.  The effect seeds the graph anew.
RootAnswer(v) ==
    /\ v \in root..version
    /\ root' = v
    /\ graph' = Seed(Root(v))
    /\ UNCHANGED <<client, version, detail, cached, selected, notice, locates, clicks>>

\* useCodeMapDoc
DetailAnswer(v) ==
    /\ client = "web"
    /\ v \in detail..version /\ v > detail
    /\ detail' = v
    /\ UNCHANGED <<client, version, root, cached, graph, selected, notice, locates, clicks>>

-----------------------------------------------------------------------------
(* The dashboard.                                                           *)

\* One turn of locate with the graph g: the next request, or an end.
Proceed(l, path, g, step, loud, noticed) ==
    LET r == locateHit(g, path)
        To(loc, n, s) == locates' = [locates EXCEPT ![l] = loc] /\ notice' = n /\ selected' = s
    IN \/ /\ step = MaxSteps
          /\ To(Ended(path, loud, "silent"), noticed, selected)
       \/ /\ step < MaxSteps /\ r.kind = "node"
          /\ To(Ended(path, loud, "node"), noticed, r.node)
       \/ /\ step < MaxSteps /\ r.kind = "unreachable"
          /\ To(Ended(path, loud, "missing"), TRUE, selected)
       \/ /\ step < MaxSteps /\ r.kind = "expand"
          /\ To(Locate("asks", path, g, step, r.scope, version, loud, "none"), noticed, selected)

\* The root tier's nodes, and those of the second tier below them
Areas == IF root = 0 THEN {} ELSE {n.path : n \in Root(root).nodes}
Children(v) ==
    LET areas == Areas
    IN  {n.path : n \in {m \in Tier[v][<<>>][SUBTREE_DEPTH].nodes :
                           Len(m.path) > 1 /\ SubSeq(m.path, 1, 1) \in areas}}
buildCodeMapDoc == Areas \cup (IF detail = 0 THEN {} ELSE Children(detail))

\* The buttons of CodeMapDocument
DocumentPaths == buildCodeMapDoc \cup HotSpots

\* The hits of a search, which may be older than the index
Hits == UNION {Files[v] : v \in 1..version}

\* onSelectPath, of the document and of the search
Click(l) ==
    /\ client = "web" /\ root > 0
    /\ locates[l].phase # "asks"
    /\ clicks < MaxClicks /\ clicks' = clicks + 1
    /\ \E path \in DocumentPaths \cup Hits : Proceed(l, path, graph, 0, TRUE, FALSE)
    /\ UNCHANGED <<client, version, root, detail, cached, graph>>

\* The path lists of NodeInspector, with the dependencies and dependents of the
\* selected file: nobody shows an error of such a locate.
Neighbours(path) ==
    UNION {{d[i] : d \in {e \in Deps[v] : path \in {e[1], e[2]}}, i \in {1, 2}} : v \in 1..version}
      \ {path}

Inspect(l) ==
    /\ client = "web" /\ root > 0
    /\ locates[l].phase # "asks"
    /\ clicks < MaxClicks /\ clicks' = clicks + 1
    /\ selected \in graph.nodes /\ selected.kind = "file"
    /\ \E path \in Neighbours(selected.path) : Proceed(l, path, graph, 0, FALSE, notice)
    /\ UNCHANGED <<client, version, root, detail, cached, graph>>

\* fetchCodeMapScope: a tier is loaded once, and an answer of the server is as
\* old as its request at most.  It is merged into the graph that the locate has
\* carried along.
Answer(l, scope, v) ==
    LET loc == locates[l]
        g == MergeWeb(loc.current, Tier[v][scope][SUBTREE_DEPTH])
    IN /\ client = "web" /\ loc.phase = "asks" /\ loc.scope = scope
       /\ IF cached[scope] > 0 THEN v = cached[scope] ELSE v \in loc.since..version
       /\ HasFiles(v, scope)
       /\ cached' = [cached EXCEPT ![scope] = v]
       /\ graph' = g
       /\ Proceed(l, loc.path, g, loc.step + 1, loc.loud, notice)
       /\ UNCHANGED <<client, version, root, detail, clicks>>

\* The request fails, or the scope has no indexed files any more.
Fail(l) ==
    LET loc == locates[l] IN
    /\ client = "web" /\ loc.phase = "asks"
    /\ cached[loc.scope] = 0
    /\ locates' = [locates EXCEPT ![l] = Ended(loc.path, loc.loud, "failed")]
    /\ notice' = (notice \/ loc.loud)
    /\ UNCHANGED <<client, version, root, detail, cached, graph, selected, clicks>>

-----------------------------------------------------------------------------
(* The control panel.                                                       *)

\* The tree shows real nodes.
Shown == graph.nodes \ graph.stubs

\* An opened TreeNode that needsFetch receives its tier.
Open(scope, v) ==
    /\ client = "panel"
    /\ Dir(scope) \in Shown \ graph.expanded
    /\ v <= version /\ HasFiles(v, scope)
    /\ graph' = MergePanel(graph, Tier[v][scope][DEFAULT_DEPTH])
    /\ UNCHANGED <<client, version, root, detail, cached, selected, notice, locates, clicks>>

\* toggle of a file
SelectFile(path) ==
    /\ client = "panel"
    /\ File(path) \in Shown
    /\ selected' = File(path)
    /\ UNCHANGED <<client, version, root, detail, cached, graph, notice, locates, clicks>>

\* selectHit: the path itself unless a node is found
SelectHit(path) ==
    LET r == locateHit(graph, path) IN
    /\ client = "panel"
    /\ path \in Hits
    /\ selected' = IF r.kind = "node" THEN r.node ELSE File(path)
    /\ UNCHANGED <<client, version, root, detail, cached, graph, notice, locates, clicks>>

MapNext ==
    \/ Reindex
    \/ \E v \in Versions : RootAnswer(v) \/ DetailAnswer(v)
    \/ \E l \in Slots :
         \/ Click(l)
         \/ Inspect(l)
         \/ \E scope \in {locates[l].scope} \cap Scopes, v \in Versions : Answer(l, scope, v)
         \/ Fail(l)
    \/ \E scope \in Scopes, v \in Versions : Open(scope, v)
    \/ \E path \in Hits : SelectFile(path) \/ SelectHit(path)

MapSpec == MapInit /\ [][MapNext]_mapVars

-----------------------------------------------------------------------------
(* Properties.                                                              *)

Graphs == {graph} \cup {locates[l].current : l \in Slots}

EndsIn(g) == \A e \in g.edges : e[1] \in g.nodes /\ e[2] \in g.nodes

\* mergeCodeMap takes the aggregate of a directory out of the graph and puts
\* its content in: no edge is left hanging, whatever order the tiers of
\* whatever indexes are merged in, and whichever graph a locate started from.
EdgesHaveEnds == \A g \in Graphs : EndsIn(g)

ShowsLoaded(g) ==
    \A v \in g.from : g.from = {v} =>
        \A s \in g.loaded, f \in Files[v] : Within(f, s) =>
            \E n \in g.nodes \ g.stubs : Within(f, n.path) /\ Len(n.path) > Len(s)

\* While all tiers come from one index, a loaded directory shows every file
\* below it, as itself or in a directory further down, and as a real node: no
\* boundary stub of another tier hides it, and no merge drops it.
LoadedIsShown == \A g \in Graphs : ShowsLoaded(g)

Marked(n) == n.kind = "directory" /\ n \in graph'.expanded /\ n.path \notin graph'.loaded

\* The paths that an index names
Named(v) == Files[v] \cup {d[i] : d \in Deps[v], i \in {1, 2}}

\* A path of at most nine segments, for five steps, that no version of the index
\* knows as a directory, and of which it knows no directory as a file
WithinReach(path) ==
    /\ Len(path) <= 2 * MaxSteps - 1
    /\ \A v \in Versions : \A p \in Named(v) : Within(p, path) \/ Within(path, p) => p = path

\* A file that the index behind the graph has is found, if it is in reach: a
\* locate ends with the file selected, unless a directory above it was marked
\* expanded by a subtree below it without having been loaded.  A hit of the
\* panel selects the file.
FilesAreFound ==
    [][/\ \A l \in Slots : \A v \in graph'.from :
            /\ locates'[l] # locates[l] /\ locates'[l].phase = "ended"
            /\ graph'.from = {v} /\ locates'[l].path \in Files[v] /\ WithinReach(locates'[l].path)
            => \/ locates'[l].how = "failed"
               \/ locates'[l].how = "node" /\ selected' = File(locates'[l].path)
               \/ locates'[l].how = "node" /\ Marked(selected')
       /\ client = "panel" /\ version = 1 /\ root = 1 /\ selected' # selected => selected'.kind = "file"
      ]_mapVars

=============================================================================
