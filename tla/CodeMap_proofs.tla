--------------------------- MODULE CodeMap_proofs ---------------------------
(* For every repository, every number of index versions, every set of locates
   and every bound: the graph that the code map shows has no hanging edge, and
   what it has loaded of one index it shows.

   The two hold of each graph for itself, those that locates carry along
   included, and every tier keeps them: the inductive invariant Good says both
   of all graphs.                                                            *)
EXTENDS CodeMap, WellFoundedInduction, TLAPS

ShowsOf(g, v) ==
    \A s \in g.loaded, f \in Files[v] : Within(f, s) =>
        \E n \in g.nodes \ g.stubs : Within(f, n.path) /\ Len(n.path) > Len(s)

Good(g) ==
    /\ EndsIn(g)
    /\ g.from \subseteq Versions
    /\ g.loaded \subseteq Seq(Segments)
    /\ \A v \in Versions : g.from \subseteq {v} => ShowsOf(g, v)

GoodMap ==
    /\ locates = [l \in Slots |-> locates[l]]
    /\ Good(graph)
    /\ \A l \in Slots : Good(locates[l].current)

-----------------------------------------------------------------------------
(* Paths.                                                                   *)

LEMMA LongerWithin ==
    ASSUME NEW s \in Seq(Segments), NEW f \in Seq(Segments), Within(f, s), f # s
    PROVE Len(s) < Len(f)
  BY DEF Within

LEMMA CutWithin ==
    ASSUME NEW f \in Seq(Segments), NEW s \in Seq(Segments), Within(f, s),
           NEW k \in Nat, Len(s) <= k, k <= Len(f)
    PROVE Within(SubSeq(f, 1, k), s) /\ Within(f, SubSeq(f, 1, k)) /\ Len(SubSeq(f, 1, k)) = k
  BY DEF Within

LEMMA WithinItself == ASSUME NEW f \in Seq(Segments) PROVE Within(f, f)
  BY DEF Within

LEMMA ScopesAreSequences == Scopes \subseteq Seq(Segments)
  <1> SUFFICES ASSUME NEW path \in HotSpots \cup UNION {Files[v] : v \in Versions}
               PROVE Prefixes(path) \subseteq Seq(Segments)
    BY DEF Scopes
  <1>1. path \in Seq(Segments)
    BY PathsAreSequences
  <1> QED
    BY <1>1 DEF Prefixes

LEMMA ScopesAreNotEmpty == ASSUME NEW s \in Scopes PROVE s # <<>>
  <1>1. PICK path \in HotSpots \cup UNION {Files[v] : v \in Versions} : s \in Prefixes(path)
    BY DEF Scopes
  <1>2. path \in Seq(Segments)
    BY PathsAreSequences
  <1>3. PICK k \in 1..Len(path) : s = SubSeq(path, 1, k)
    BY <1>1 DEF Prefixes
  <1>4. Len(s) = k
    BY <1>2, <1>3
  <1> QED
    BY <1>2, <1>4

\* A file below the scope stands for itself or in a directory below the scope,
LEMMA TierNodeBelow ==
    ASSUME NEW f \in Seq(Segments), NEW s \in Seq(Segments), Within(f, s), f # s,
           NEW d \in Nat, d > 0
    PROVE /\ Within(f, TierNode(f, Len(s) + d).path)
          /\ Within(TierNode(f, Len(s) + d).path, s)
          /\ Len(TierNode(f, Len(s) + d).path) > Len(s)
  <1>1. CASE Len(f) <= Len(s) + d
    BY <1>1, LongerWithin, WithinItself DEF TierNode, File, Node
  <1>2. CASE ~(Len(f) <= Len(s) + d)
    BY <1>2, CutWithin DEF TierNode, Dir, Node
  <1> QED
    BY <1>1, <1>2

\* and a node on the boundary stands beside it.
LEMMA BoundaryNodeBeside ==
    ASSUME NEW p \in Seq(Segments), NEW s \in Seq(Segments), ~Within(p, s)
    PROVE ~Within(BoundaryNode(p, s).path, s)
  <1>1. CASE Len(p) <= Len(s) + 1
    BY <1>1 DEF BoundaryNode, TierNode, File, Node
  <1>2. CASE ~(Len(p) <= Len(s) + 1)
    <2>1. BoundaryNode(p, s).path = SubSeq(p, 1, Len(s) + 1)
      BY <1>2 DEF BoundaryNode, TierNode, Dir, Node
    <2>2. SubSeq(SubSeq(p, 1, Len(s) + 1), 1, Len(s)) = SubSeq(p, 1, Len(s))
      BY <1>2
    <2> QED
      BY <1>2, <2>1, <2>2 DEF Within
  <1> QED
    BY <1>1, <1>2

-----------------------------------------------------------------------------
(* Tiers.                                                                   *)

LEMMA TierIs ==
    ASSUME NEW v \in Versions, NEW s \in Scopes \cup {<<>>}, NEW d \in {DEFAULT_DEPTH, SUBTREE_DEPTH}
    PROVE Tier[v][s][d] = GetCodeMap(v, s, d)
  BY DEF Tier

LEMMA TierFields ==
    ASSUME NEW v, NEW s, NEW d
    PROVE /\ GetCodeMap(v, s, d).version = v
          /\ GetCodeMap(v, s, d).scope = s
          /\ s \in Files[v] => GetCodeMap(v, s, d).scopeKind = "file"
          /\ s \notin Files[v] => GetCodeMap(v, s, d).scopeKind = "directory"
  BY DEF GetCodeMap

\* Every end of an edge is a node of the tier.
LEMMA TierEnds ==
    ASSUME NEW v, NEW s, NEW d, NEW e \in GetCodeMap(v, s, d).edges, NEW i \in {1, 2}
    PROVE e[i] \in GetCodeMap(v, s, d).nodes \cup GetCodeMap(v, s, d).stubs
  <1>1. PICK x \in Touching(v, s) :
          /\ Resolved(x, v, s)
          /\ e = <<Endpoint(x[1], s, d), Endpoint(x[2], s, d)>>
    BY DEF GetCodeMap
  <1>2. e[i] = Endpoint(x[i], s, d)
    BY <1>1
  <1>3. CASE Within(x[i], s)
    BY <1>1, <1>2, <1>3 DEF GetCodeMap, Resolved
  <1>4. CASE ~Within(x[i], s)
    BY <1>1, <1>2, <1>4 DEF GetCodeMap, Endpoint
  <1> QED
    BY <1>3, <1>4

\* A tier shows each file below its scope as a node that is no stub.
LEMMA TierShows ==
    ASSUME NEW v \in Versions, NEW s \in Seq(Segments), NEW d \in Nat, d > 0,
           NEW f \in Files[v], Within(f, s), s \notin Files[v]
    PROVE \E n \in GetCodeMap(v, s, d).nodes \ GetCodeMap(v, s, d).stubs :
            Within(f, n.path) /\ Len(n.path) > Len(s)
  <1> DEFINE n == Endpoint(f, s, d)
  <1>1. f \in Seq(Segments)
    BY PathsAreSequences
  <1>2. n = TierNode(f, Len(s) + d)
    BY DEF Endpoint
  <1>3. Within(f, n.path) /\ Within(n.path, s) /\ Len(n.path) > Len(s)
    BY <1>1, <1>2, TierNodeBelow
  <1>4. n \in GetCodeMap(v, s, d).nodes
    BY DEF GetCodeMap
  <1>5. ASSUME n \in GetCodeMap(v, s, d).stubs PROVE FALSE
    <2>1. PICK x \in Deps[v], i \in {1, 2} : ~Within(x[i], s) /\ n = BoundaryNode(x[i], s)
      BY <1>5 DEF GetCodeMap, Touching
    <2>2. x[i] \in Seq(Segments)
      BY PathsAreSequences
    <2> QED
      BY <2>1, <2>2, <1>3, BoundaryNodeBeside
  <1> QED
    BY <1>3, <1>4, <1>5

-----------------------------------------------------------------------------
(* Merging.                                                                 *)

LEMMA EmptyIsGood == Good(EmptyGraph)
  BY DEF Good, EmptyGraph, Graph, EndsIn, ShowsOf

\* The root tier: its only loaded scope is the root.
LEMMA SeedIsGood ==
    ASSUME NEW v \in Versions, NEW d \in {DEFAULT_DEPTH, SUBTREE_DEPTH}
    PROVE Good(Seed(GetCodeMap(v, <<>>, d)))
  <1> DEFINE t == GetCodeMap(v, <<>>, d)
             g == Seed(t)
  <1>1. EndsIn(g)
    BY TierEnds DEF EndsIn, Seed, Graph
  <1>2. g.from = {v} /\ g.loaded = {<<>>}
    BY DEF Seed, Graph, GetCodeMap
  <1>3. ShowsOf(g, v)
    <2> SUFFICES ASSUME NEW f \in Files[v], Within(f, <<>>)
                 PROVE \E n \in g.nodes \ g.stubs : Within(f, n.path) /\ Len(n.path) > Len(<<>>)
      BY <1>2 DEF ShowsOf
    <2>1. <<>> \in Seq(Segments) /\ <<>> \notin Files[v] /\ d \in Nat /\ d > 0
      BY PathsAreSequences DEF DEFAULT_DEPTH, SUBTREE_DEPTH
    <2>2. PICK n \in t.nodes \ t.stubs : Within(f, n.path) /\ Len(n.path) > Len(<<>>)
      BY <2>1, TierShows
    <2>3. n \in g.nodes \ g.stubs
      BY <2>2 DEF Seed, Graph
    <2> QED
      BY <2>2, <2>3
  <1>4. <<>> \in Seq(Segments)
    OBVIOUS
  <1> HIDE DEF g
  <1>5. Good(g)
    BY <1>1, <1>2, <1>3, <1>4 DEF Good
  <1> QED
    BY <1>5 DEF g

\* A tier is added to a graph h that has lost the edges of the tier's directory,
\* and perhaps the directory.
LEMMA AddTierIsGood ==
    ASSUME NEW v \in Versions, NEW s \in Seq(Segments), NEW d \in {DEFAULT_DEPTH, SUBTREE_DEPTH},
           s \notin Files[v], NEW g, Good(g), NEW h,
           EndsIn(h), h.loaded = g.loaded, h.from = g.from,
           \A n \in g.nodes \ g.stubs : n = Dir(s) \/ n \in h.nodes \ h.stubs
    PROVE Good(AddTier(h, GetCodeMap(v, s, d)))
  <1> DEFINE t == GetCodeMap(v, s, d)
             a == AddTier(h, t)
  <1>0. t.version = v /\ t.scope = s
    BY TierFields
  <1>1. /\ a.nodes = h.nodes \cup t.nodes \cup t.stubs
        /\ a.stubs = (h.stubs \ t.nodes) \cup (t.stubs \ (h.nodes \ h.stubs))
        /\ a.edges = h.edges \cup t.edges
        /\ a.loaded = g.loaded \cup {s}
        /\ a.from = g.from \cup {v}
    BY <1>0 DEF AddTier, Graph, StubsAfter
  <1>2. EndsIn(a)
    BY <1>1, TierEnds DEF EndsIn
  <1>3. ASSUME NEW w \in Versions, a.from \subseteq {w} PROVE ShowsOf(a, w)
    <2>1. w = v /\ ShowsOf(g, v)
      BY <1>1, <1>3 DEF Good
    <2> SUFFICES ASSUME NEW r \in g.loaded \cup {s}, NEW f \in Files[v], Within(f, r)
                 PROVE \E n \in a.nodes \ a.stubs : Within(f, n.path) /\ Len(n.path) > Len(r)
      BY <1>1, <2>1 DEF ShowsOf
    <2>2. d \in Nat /\ d > 0
      BY DEF DEFAULT_DEPTH, SUBTREE_DEPTH
    <2>3. ASSUME Within(f, s)
          PROVE \E n \in a.nodes \ a.stubs : Within(f, n.path) /\ Len(n.path) > Len(s)
      BY <1>1, <2>2, <2>3, TierShows
    <2>4. CASE r = s
      BY <2>3, <2>4
    <2>5. CASE r \in g.loaded
      <3>1. PICK n \in g.nodes \ g.stubs : Within(f, n.path) /\ Len(n.path) > Len(r)
        BY <2>1, <2>5 DEF ShowsOf
      <3>2. CASE n \in h.nodes \ h.stubs
        BY <1>1, <3>1, <3>2
      <3>3. CASE n = Dir(s)
        <4>1. n.path = s
          BY <3>3 DEF Dir, Node
        <4>2. PICK m \in a.nodes \ a.stubs : Within(f, m.path) /\ Len(m.path) > Len(s)
          BY <2>3, <3>1, <4>1
        <4>3. Len(m.path) > Len(r)
          BY <2>5, <3>1, <4>1, <4>2 DEF Good
        <4> QED
          BY <4>2, <4>3
      <3> QED
        BY <3>1, <3>2, <3>3
    <2> QED
      BY <2>4, <2>5
  <1>4. a.from \subseteq Versions /\ a.loaded \subseteq Seq(Segments)
    BY <1>1 DEF Good
  <1> QED
    BY <1>2, <1>3, <1>4 DEF Good

LEMMA MergeIsGood ==
    ASSUME NEW v \in Versions, NEW s \in Scopes \cup {<<>>}, NEW d \in {DEFAULT_DEPTH, SUBTREE_DEPTH},
           NEW g, Good(g)
    PROVE Good(MergeWeb(g, GetCodeMap(v, s, d))) /\ Good(MergePanel(g, GetCodeMap(v, s, d)))
  <1> DEFINE t == GetCodeMap(v, s, d)
             cut == WithoutEdges(g, Dir(s))
             gone == WithoutNode(cut, Dir(s))
  <1>0. s \in Seq(Segments) /\ t.scope = s
    <2>1. <<>> \in Seq(Segments)
      OBVIOUS
    <2>2. t.scope = s
      BY DEF GetCodeMap
    <2> QED
      BY <2>1, <2>2, ScopesAreSequences
  <1>a. t.scopeKind = IF s \in Files[v] THEN "file" ELSE "directory"
    BY DEF GetCodeMap
  <1>1. CASE s \in Files[v]
    BY <1>0, <1>a, <1>1 DEF MergeWeb, MergePanel
  <1>2. CASE s \notin Files[v] /\ s = <<>>
    BY <1>0, <1>a, <1>2, SeedIsGood DEF MergeWeb, MergePanel
  <1>3. CASE s \notin Files[v] /\ s # <<>>
    <2>1. /\ cut.nodes = g.nodes /\ cut.stubs = g.stubs
          /\ cut.loaded = g.loaded /\ cut.from = g.from
          /\ cut.edges = {e \in g.edges : Dir(s) \notin {e[1], e[2]}}
      BY DEF WithoutEdges, Graph
    <2>2. /\ gone.nodes = g.nodes \ {Dir(s)} /\ gone.stubs = g.stubs \ {Dir(s)}
          /\ gone.loaded = g.loaded /\ gone.from = g.from /\ gone.edges = cut.edges
      BY <2>1 DEF WithoutNode, Graph
    <2>3. EndsIn(cut) /\ EndsIn(gone)
      BY <2>1, <2>2 DEF EndsIn, Good
    <2>4. Good(AddTier(cut, t))
      <3>1. \A n \in g.nodes \ g.stubs : n = Dir(s) \/ n \in cut.nodes \ cut.stubs
        BY <2>1
      <3> HIDE DEF cut
      <3> QED
        BY <1>0, <1>a, <1>3, <2>1, <2>3, <3>1, AddTierIsGood
    <2>5. Good(AddTier(gone, t))
      <3>1. \A n \in g.nodes \ g.stubs : n = Dir(s) \/ n \in gone.nodes \ gone.stubs
        BY <2>2
      <3> HIDE DEF gone
      <3> QED
        BY <1>0, <1>a, <1>3, <2>2, <2>3, <3>1, AddTierIsGood
    <2> QED
      BY <1>0, <1>a, <1>3, <2>4, <2>5 DEF MergeWeb, MergePanel
  <1> QED
    BY <1>1, <1>2, <1>3

-----------------------------------------------------------------------------
(* Steps.                                                                   *)

\* A locate carries the graph it proceeds with, or none.
LEMMA ProceedIsGood ==
    ASSUME GoodMap, NEW l \in Slots, NEW path, NEW g, Good(g), NEW step, NEW loud, NEW noticed,
           Proceed(l, path, g, step, loud, noticed)
    PROVE /\ locates' = [m \in Slots |-> locates'[m]]
          /\ \A m \in Slots : Good(locates'[m].current)
  <1> DEFINE asks == Locate("asks", path, g, step, locateHit(g, path).scope, version, loud, "none")
             ended(how) == Ended(path, loud, how)
  <1>1. \/ locates' = [locates EXCEPT ![l] = asks]
        \/ \E how \in {"node", "missing", "silent"} : locates' = [locates EXCEPT ![l] = ended(how)]
    BY DEF Proceed
  <1>2. Good(asks.current) /\ \A how : Good(ended(how).current)
    BY EmptyIsGood DEF Ended, Locate
  <1> HIDE DEF asks, ended
  <1>3. PICK loc : locates' = [locates EXCEPT ![l] = loc] /\ Good(loc.current)
    BY <1>1, <1>2
  <1> QED
    BY <1>3 DEF GoodMap

LEMMA InitIsGood == MapInit => GoodMap
  BY EmptyIsGood DEF MapInit, GoodMap, Idle, Locate

LEMMA NextIsGood == GoodMap /\ [MapNext]_mapVars => GoodMap'
  <1> SUFFICES ASSUME GoodMap, [MapNext]_mapVars PROVE GoodMap'
    OBVIOUS
  <1>1. ASSUME UNCHANGED <<graph, locates>> PROVE GoodMap'
    BY <1>1 DEF GoodMap
  <1>2. ASSUME Good(graph'), UNCHANGED locates PROVE GoodMap'
    BY <1>2 DEF GoodMap
  <1>3. CASE UNCHANGED mapVars
    BY <1>1, <1>3 DEF mapVars
  <1>4. CASE Reindex
    BY <1>1, <1>4 DEF Reindex
  <1>5. ASSUME NEW v \in Versions, RootAnswer(v) PROVE GoodMap'
    <2>1. Good(Seed(Root(v)))
      BY SeedIsGood, TierIs DEF Root
    <2> QED
      BY <1>2, <1>5, <2>1 DEF RootAnswer
  <1>6. ASSUME NEW v \in Versions, DetailAnswer(v) PROVE GoodMap'
    BY <1>1, <1>6 DEF DetailAnswer
  <1>7. ASSUME NEW l \in Slots, Click(l) PROVE GoodMap'
    <2>1. PICK path : Good(graph) /\ graph' = graph /\ Proceed(l, path, graph, 0, TRUE, FALSE)
      BY <1>7 DEF Click, GoodMap
    <2> QED
      BY <2>1, ProceedIsGood DEF GoodMap
  <1>8. ASSUME NEW l \in Slots, Inspect(l) PROVE GoodMap'
    <2>1. PICK path : Good(graph) /\ graph' = graph /\ Proceed(l, path, graph, 0, FALSE, notice)
      BY <1>8 DEF Inspect, GoodMap
    <2> QED
      BY <2>1, ProceedIsGood DEF GoodMap
  <1>9. ASSUME NEW l \in Slots, NEW s \in Scopes, NEW v \in Versions, Answer(l, s, v) PROVE GoodMap'
    <2> DEFINE g == MergeWeb(locates[l].current, Tier[v][s][SUBTREE_DEPTH])
    <2>1. Good(g)
      BY MergeIsGood, TierIs DEF GoodMap
    <2>2. /\ graph' = g
          /\ Proceed(l, locates[l].path, g, locates[l].step + 1, locates[l].loud, notice)
      BY <1>9 DEF Answer
    <2> HIDE DEF g
    <2> QED
      BY <2>1, <2>2, ProceedIsGood DEF GoodMap
  <1>10. ASSUME NEW l \in Slots, Fail(l) PROVE GoodMap'
    BY <1>10, EmptyIsGood DEF Fail, GoodMap, Ended, Locate
  <1>11. ASSUME NEW s \in Scopes, NEW v \in Versions, Open(s, v) PROVE GoodMap'
    <2>1. Good(MergePanel(graph, Tier[v][s][DEFAULT_DEPTH]))
      BY MergeIsGood, TierIs DEF GoodMap
    <2> QED
      BY <1>2, <1>11, <2>1 DEF Open
  <1>12. ASSUME NEW path, SelectFile(path) \/ SelectHit(path) PROVE GoodMap'
    BY <1>1, <1>12 DEF SelectFile, SelectHit
  <1> QED
    BY <1>3, <1>4, <1>5, <1>6, <1>7, <1>8, <1>9, <1>10, <1>11, <1>12 DEF MapNext

LEMMA AlwaysGood == MapSpec => []GoodMap
  BY InitIsGood, NextIsGood, PTL DEF MapSpec

\* No edge of a shown or carried graph is left hanging: mergeCodeMap.
THEOREM NoHangingEdges == MapSpec => []EdgesHaveEnds
  <1>1. GoodMap => EdgesHaveEnds
    BY DEF GoodMap, EdgesHaveEnds, Graphs, Good
  <1> QED
    BY <1>1, AlwaysGood, PTL

\* What a graph has loaded of one index it shows: mergeCodeMap, get_code_map.
THEOREM NothingHidden == MapSpec => []LoadedIsShown
  <1>1. ASSUME NEW g, Good(g) PROVE ShowsLoaded(g)
    BY <1>1 DEF Good, ShowsLoaded, ShowsOf
  <1>2. GoodMap => LoadedIsShown
    BY <1>1 DEF GoodMap, LoadedIsShown, Graphs
  <1> QED
    BY <1>2, AlwaysGood, PTL

-----------------------------------------------------------------------------
(* Nodes.                                                                   *)

\* A node stands for a path that the index names, or for a directory above one.
OfIndex(n, v) ==
    \E q \in Named(v) : n = File(q) \/ \E k \in 1..(Len(q) - 1) : n = Dir(SubSeq(q, 1, k))

Proper(g) == \A v \in Versions : g.from \subseteq {v} => \A n \in g.nodes : OfIndex(n, v)

LEMMA NamedAreSequences == ASSUME NEW v \in Versions PROVE Named(v) \subseteq Seq(Segments)
  BY PathsAreSequences DEF Named

LEMMA OfIndexFields ==
    ASSUME NEW v \in Versions, NEW n, OfIndex(n, v)
    PROVE /\ n.path \in Seq(Segments)
          /\ \/ n = File(n.path) /\ n.kind = "file" /\ n.path \in Named(v)
             \/ /\ n = Dir(n.path) /\ n.kind = "directory"
                /\ \E q \in Named(v) : Within(q, n.path) /\ q # n.path
  <1>1. PICK q \in Named(v) : n = File(q) \/ \E k \in 1..(Len(q) - 1) : n = Dir(SubSeq(q, 1, k))
    BY DEF OfIndex
  <1>2. q \in Seq(Segments)
    BY NamedAreSequences
  <1>3. CASE n = File(q)
    BY <1>2, <1>3 DEF File, Node
  <1>4. ASSUME NEW k \in 1..(Len(q) - 1), n = Dir(SubSeq(q, 1, k))
        PROVE  /\ n = Dir(n.path) /\ n.kind = "directory" /\ n.path \in Seq(Segments)
               /\ Within(q, n.path) /\ q # n.path
    <2>1. n = Dir(n.path) /\ n.kind = "directory" /\ n.path = SubSeq(q, 1, k)
      BY <1>4 DEF Dir, Node
    <2>2. n.path \in Seq(Segments) /\ Len(n.path) = k
      BY <1>2, <2>1
    <2> QED
      BY <1>2, <2>1, <2>2 DEF Within
  <1> QED
    BY <1>1, <1>3, <1>4

LEMMA TierNodeIsOfIndex ==
    ASSUME NEW v \in Versions, NEW q \in Named(v), NEW k \in Nat, k > 0
    PROVE OfIndex(TierNode(q, k), v)
  <1>1. q \in Seq(Segments)
    BY NamedAreSequences
  <1>2. CASE Len(q) <= k
    BY <1>2 DEF TierNode, OfIndex
  <1>3. CASE ~(Len(q) <= k)
    <2>1. k \in 1..(Len(q) - 1)
      BY <1>1, <1>3
    <2> QED
      BY <1>3, <2>1 DEF TierNode, OfIndex
  <1> QED
    BY <1>2, <1>3

LEMMA TierIsOfIndex ==
    ASSUME NEW v \in Versions, NEW s \in Seq(Segments), NEW d \in Nat, d > 0,
           NEW n \in GetCodeMap(v, s, d).nodes \cup GetCodeMap(v, s, d).stubs
    PROVE OfIndex(n, v)
  <1>1. Len(s) \in Nat /\ Len(s) + d > 0 /\ Len(s) + 1 > 0 /\ Len(s) + d \in Nat /\ Len(s) + 1 \in Nat
    OBVIOUS
  <1>2. CASE n \in GetCodeMap(v, s, d).nodes
    <2>1. PICK f \in Files[v] : Within(f, s) /\ n = Endpoint(f, s, d)
      BY <1>2 DEF GetCodeMap
    <2> QED
      BY <1>1, <2>1, TierNodeIsOfIndex DEF Endpoint, Named
  <1>3. CASE n \in GetCodeMap(v, s, d).stubs
    <2>1. PICK x \in Deps[v], i \in {1, 2} : n = BoundaryNode(x[i], s)
      BY <1>3 DEF GetCodeMap, Touching
    <2> QED
      BY <1>1, <2>1, TierNodeIsOfIndex DEF BoundaryNode, Named
  <1> QED
    BY <1>2, <1>3

\* Merging keeps to the nodes of the tiers.
LEMMA MergeIsProper ==
    ASSUME NEW v \in Versions, NEW s \in Scopes \cup {<<>>}, NEW d \in {DEFAULT_DEPTH, SUBTREE_DEPTH},
           NEW g, Proper(g)
    PROVE /\ Proper(Seed(GetCodeMap(v, s, d)))
          /\ Proper(MergeWeb(g, GetCodeMap(v, s, d)))
          /\ Proper(MergePanel(g, GetCodeMap(v, s, d)))
  <1> DEFINE t == GetCodeMap(v, s, d)
             cut == WithoutEdges(g, Dir(s))
             gone == WithoutNode(cut, Dir(s))
  <1>1. t.version = v /\ \A n \in t.nodes \cup t.stubs : OfIndex(n, v)
    <2>1. <<>> \in Seq(Segments)
      OBVIOUS
    <2>2. s \in Seq(Segments)
      BY <2>1, ScopesAreSequences
    <2> QED
      BY <2>2, TierFields, TierIsOfIndex DEF DEFAULT_DEPTH, SUBTREE_DEPTH
  <1>2. cut.nodes = g.nodes /\ cut.from = g.from
    BY DEF WithoutEdges, Graph
  <1>3. gone.nodes \subseteq g.nodes /\ gone.from = g.from
    BY <1>2 DEF WithoutNode, Graph
  <1>4. ASSUME NEW h, h.nodes \subseteq g.nodes, h.from = g.from
        PROVE  Proper(AddTier(h, t))
    <2>1. /\ AddTier(h, t).nodes = h.nodes \cup t.nodes \cup t.stubs
          /\ AddTier(h, t).from = g.from \cup {v}
      BY <1>1, <1>4 DEF AddTier, Graph
    <2> SUFFICES ASSUME NEW w \in Versions, g.from \cup {v} \subseteq {w},
                        NEW n \in h.nodes \cup t.nodes \cup t.stubs
                 PROVE  OfIndex(n, w)
      BY <2>1 DEF Proper
    <2> QED
      BY <1>1, <1>4 DEF Proper
  <1>5. Proper(Seed(t))
    <2>1. Seed(t).nodes = t.nodes \cup t.stubs /\ Seed(t).from = {v}
      BY <1>1 DEF Seed, Graph
    <2> QED
      BY <1>1, <2>1 DEF Proper
  <1> HIDE DEF t, cut, gone
  <1>6. Proper(AddTier(cut, t)) /\ Proper(AddTier(gone, t))
    BY <1>2, <1>3, <1>4
  <1>7. t.scope = s
    BY TierFields DEF t
  <1> QED
    BY <1>5, <1>6, <1>7 DEF MergeWeb, MergePanel, t, cut, gone

\* What is loaded stays so, as no locate or opened directory asks for the root.
LEMMA MergeKeepsLoaded ==
    ASSUME NEW v \in Versions, NEW s \in Scopes, NEW d, NEW g, <<>> \in g.loaded
    PROVE /\ <<>> \in MergeWeb(g, GetCodeMap(v, s, d)).loaded
          /\ <<>> \in MergePanel(g, GetCodeMap(v, s, d)).loaded
  <1>1. s # <<>>
    BY ScopesAreNotEmpty
  <1>2. GetCodeMap(v, s, d).scope = s
    BY TierFields
  <1> QED
    BY <1>1, <1>2 DEF MergeWeb, MergePanel, AddTier, WithoutEdges, WithoutNode, Graph

-----------------------------------------------------------------------------
(* Finding.                                                                 *)

\* Of finitely many lengths one is the greatest.
LEMMA NearestIs ==
    ASSUME NEW g, NEW path \in Seq(Segments), Above(g, path) # {},
           \A n \in g.nodes : n.path \in Seq(Segments)
    PROVE /\ Nearest(g, path) \in Above(g, path)
          /\ \A m \in Above(g, path) : Len(m.path) <= Len(Nearest(g, path).path)
  <1> DEFINE R == OpToRel(LAMBDA x, y : x < y, Nat)
             T == {Len(path) - Len(n.path) : n \in Above(g, path)}
  <1>1. \A n \in Above(g, path) : Len(n.path) \in Nat /\ Len(n.path) <= Len(path)
    BY DEF Above, Within
  <1>2. T \subseteq Nat /\ T # {}
    <2>1. Len(path) \in Nat
      OBVIOUS
    <2> QED
      BY <1>1, <2>1
  <1>3. PICK x \in T : \A y \in T : ~ (y < x)
    <2>1. R = {p \in Nat \X Nat : p[1] < p[2]}
      BY DEF OpToRel
    <2>2. IsWellFoundedOn(R, Nat)
      BY NatLessThanWellFounded
    <2>3. PICK x \in T : \A y \in T : <<y, x>> \notin R
      <3> HIDE DEF R, T
      <3> QED
        BY <1>2, <2>2, WFMin
    <2> HIDE DEF R, T
    <2> QED
      BY <1>2, <2>1, <2>3
  <1>4. PICK n \in Above(g, path) : x = Len(path) - Len(n.path)
    OBVIOUS
  <1>5. ASSUME NEW m \in Above(g, path) PROVE Len(m.path) <= Len(n.path)
    <2>1. ~ (Len(path) - Len(m.path) < Len(path) - Len(n.path))
      BY <1>3, <1>4
    <2>2. Len(path) \in Nat
      OBVIOUS
    <2> QED
      BY <1>1, <2>1, <2>2
  <1> QED
    BY <1>5 DEF Nearest

\* What a directory above a file in reach is not: a file, or the file's path.
LEMMA OnTheWay ==
    ASSUME NEW v \in Versions, NEW path \in Files[v], WithinReach(path),
           NEW n, OfIndex(n, v), Within(path, n.path)
    PROVE \/ n = File(path)
          \/ n.kind = "directory" /\ n = Dir(n.path) /\ Len(n.path) < Len(path)
  <1>1. path \in Seq(Segments) /\ n.path \in Seq(Segments)
    BY PathsAreSequences, OfIndexFields
  <1>2. CASE n = File(n.path) /\ n.path \in Named(v)
    BY <1>2 DEF WithinReach
  <1>3. ASSUME n = Dir(n.path), n.kind = "directory",
               NEW q \in Named(v), Within(q, n.path), q # n.path
        PROVE  Len(n.path) < Len(path)
    <2>1. n.path # path
      BY <1>3 DEF WithinReach
    <2> QED
      BY <1>1, <2>1, LongerWithin
  <1> QED
    BY <1>2, <1>3, OfIndexFields

\* A turn of a locate whose graph shows the way to the file, as far as its
\* steps have led: it ends well, or asks for a directory further down.
LEMMA ProceedFinds ==
    ASSUME NEW v \in Versions, NEW path \in Files[v], WithinReach(path),
           NEW g, Good(g), Proper(g), g.from \subseteq {v}, <<>> \in g.loaded,
           NEW step \in Nat, 2 * step <= Len(path),
           NEW n \in Above(g, path), Len(n.path) >= Len(path) \/ Len(n.path) >= 2 * step + 1,
           GoodMap, NEW l \in Slots, NEW loud, NEW noticed,
           Proceed(l, path, g, step, loud, noticed)
    PROVE \/ /\ locates'[l].phase = "ended" /\ locates'[l].how = "node"
             /\ \/ selected' = File(path)
                \/ /\ selected'.kind = "directory" /\ selected' \in g.expanded
                   /\ selected'.path \notin g.loaded
          \/ /\ locates'[l].phase = "asks" /\ locates'[l].path = path
             /\ locates'[l].current = g /\ locates'[l].step = step
             /\ Within(path, locates'[l].scope) /\ locates'[l].scope # path
             /\ Len(locates'[l].scope) >= 2 * step + 1
  <1> DEFINE r == locateHit(g, path)
             best == Nearest(g, path)
  <1>1. path \in Seq(Segments) /\ Len(path) \in Nat /\ path # <<>> /\ Len(path) > 0
    BY PathsAreSequences
  <1>2. step < MaxSteps
    BY <1>1, BoundsAreNumbers DEF WithinReach
  <1>3. \A m \in g.nodes : OfIndex(m, v) /\ m.path \in Seq(Segments)
    BY OfIndexFields DEF Proper
  <1>4. best \in Above(g, path) /\ \A m \in Above(g, path) : Len(m.path) <= Len(best.path)
    BY <1>1, <1>3, NearestIs
  <1>5. CASE File(path) \in g.nodes
    <2>1. r = Found(File(path))
      BY <1>5 DEF locateHit
    <2>2. locates' = [locates EXCEPT ![l] = Ended(path, loud, "node")] /\ selected' = File(path)
      BY <1>2, <2>1 DEF Proceed, Found
    <2> QED
      BY <2>2 DEF GoodMap, Ended, Locate
  <1>6. CASE File(path) \notin g.nodes
    <2>1. /\ best.kind = "directory" /\ best = Dir(best.path)
          /\ Within(path, best.path) /\ Len(best.path) < Len(path)
      <3>1. best \in g.nodes /\ Within(path, best.path)
        BY <1>4 DEF Above
      <3>2. OfIndex(best, v) /\ best # File(path)
        BY <1>3, <1>6, <3>1
      <3> HIDE DEF best
      <3> QED
        BY <3>1, <3>2, OnTheWay
    <2>2. best.path # path /\ Len(best.path) >= 2 * step + 1
      <3>1. Len(n.path) <= Len(best.path) /\ Len(n.path) \in Nat /\ Len(best.path) \in Nat
        BY <1>3, <1>4 DEF Above
      <3> HIDE DEF best
      <3> QED
        BY <1>1, <2>1, <3>1
    <2>3. CASE best \notin g.expanded
      <3>1. r = Expand(best.path)
        BY <1>4, <1>6, <2>1, <2>3 DEF locateHit
      <3>2. locates' = [locates EXCEPT ![l] =
                          Locate("asks", path, g, step, best.path, version, loud, "none")]
        BY <1>2, <3>1 DEF Proceed, Expand
      <3> HIDE DEF best
      <3> QED
        BY <2>1, <2>2, <3>2 DEF GoodMap, Locate
    <2>4. CASE best \in g.expanded
      <3>1. r = Found(best)
        BY <1>4, <1>6, <2>1, <2>4 DEF locateHit
      <3>2. locates' = [locates EXCEPT ![l] = Ended(path, loud, "node")] /\ selected' = best
        BY <1>2, <3>1 DEF Proceed, Found
      <3>3. ASSUME best.path \in g.loaded PROVE FALSE
        <4>1. PICK m \in g.nodes \ g.stubs : Within(path, m.path) /\ Len(m.path) > Len(best.path)
          BY <2>1, <3>3 DEF Good, ShowsOf
        <4>2. Len(m.path) <= Len(best.path) /\ Len(m.path) \in Nat /\ Len(best.path) \in Nat
          BY <1>3, <1>4, <4>1 DEF Above
        <4> QED
          BY <4>1, <4>2
      <3>4. locates'[l] = Ended(path, loud, "node")
        BY <3>2 DEF GoodMap
      <3> HIDE DEF best
      <3> QED
        BY <2>1, <2>4, <3>2, <3>3, <3>4 DEF Ended, Locate
    <2> QED
      BY <2>3, <2>4
  <1> QED
    BY <1>5, <1>6

\* A locate that has asked s times has come s tiers of two segments down.
OnItsWay(loc) ==
    /\ <<>> \in loc.current.loaded
    /\ loc.step \in Nat
    /\ \A v \in Versions :
        loc.current.from \subseteq {v} /\ loc.path \in Files[v] /\ WithinReach(loc.path) =>
            Within(loc.path, loc.scope) /\ loc.scope # loc.path /\ Len(loc.scope) >= 2 * loc.step + 1

\* In the panel's tree a shown directory has all directories above it loaded,
\* and one that is marked expanded is.
ExpandedIsLoaded(g) == \A n \in g.expanded : n.kind = "directory" => n.path \in g.loaded
AboveIsLoaded(g) ==
    \A n \in g.nodes \ g.stubs, k \in Nat :
        n.kind = "directory" /\ k < Len(n.path) => SubSeq(n.path, 1, k) \in g.loaded

FindMap ==
    /\ GoodMap
    /\ version \in Versions
    /\ root \in Nat
    /\ Proper(graph) /\ \A l \in Slots : Proper(locates[l].current)
    /\ root # 0 => <<>> \in graph.loaded
    /\ \A l \in Slots : locates[l].phase = "asks" => OnItsWay(locates[l])
    /\ client = "panel" /\ version = 1 =>
        graph.from \subseteq {1} /\ ExpandedIsLoaded(graph) /\ AboveIsLoaded(graph)

LEMMA MergeComesFrom ==
    ASSUME NEW v, NEW s \in Scopes, NEW d, NEW g, NEW w,
           MergeWeb(g, GetCodeMap(v, s, d)).from \subseteq {w}
    PROVE g.from \subseteq {w}
  BY ScopesAreNotEmpty, TierFields DEF MergeWeb, AddTier, WithoutEdges, WithoutNode, Graph

\* Where a locate starts: some tier of the root shows the way.
LEMMA StartsOnItsWay ==
    ASSUME NEW v \in Versions, NEW path \in Files[v],
           NEW g, Good(g), Proper(g), g.from \subseteq {v}, <<>> \in g.loaded
    PROVE \E n \in Above(g, path) : Len(n.path) >= 1
  <1>1. Within(path, <<>>)
    <2>1. path \in Seq(Segments)
      BY PathsAreSequences
    <2> QED
      BY <2>1 DEF Within
  <1>2. PICK n \in g.nodes : Within(path, n.path) /\ Len(n.path) > Len(<<>>)
    BY <1>1 DEF Good, ShowsOf
  <1>3. Len(n.path) \in Nat
    BY <1>2, OfIndexFields DEF Proper
  <1> QED
    BY <1>2, <1>3 DEF Above

LEMMA TierHas ==
    ASSUME NEW v, NEW s, NEW d, NEW f \in Files[v], Within(f, s)
    PROVE Endpoint(f, s, d) \in GetCodeMap(v, s, d).nodes
  BY DEF GetCodeMap

\* Where its answer leads: the tier shows two segments more, or the file.
LEMMA AnswerShowsTheWay ==
    ASSUME NEW v \in Versions, NEW path \in Files[v], WithinReach(path),
           NEW s \in Scopes, Within(path, s), s # path, NEW step \in Nat, Len(s) >= 2 * step + 1,
           NEW u \in Versions, NEW g,
           MergeWeb(g, GetCodeMap(u, s, SUBTREE_DEPTH)).from \subseteq {v}
    PROVE /\ \E n \in Above(MergeWeb(g, GetCodeMap(u, s, SUBTREE_DEPTH)), path) :
               Len(n.path) >= Len(path) \/ Len(n.path) >= 2 * (step + 1) + 1
          /\ 2 * (step + 1) <= Len(path)
  <1> DEFINE t == GetCodeMap(u, s, SUBTREE_DEPTH)
             m == MergeWeb(g, t)
             n == Endpoint(path, s, SUBTREE_DEPTH)
  <1>1. path \in Seq(Segments) /\ s \in Seq(Segments) /\ Len(s) < Len(path)
    BY PathsAreSequences, ScopesAreSequences, LongerWithin
  <1>2. s \notin Files[u]
    BY DEF WithinReach, Named
  <1>3. m.from = IF s = <<>> THEN {u} ELSE g.from \cup {u}
    BY <1>2, TierFields DEF MergeWeb, Seed, AddTier, WithoutEdges, WithoutNode, Graph
  <1>4. u = v
    BY <1>3
  <1>5. t.nodes \subseteq m.nodes
    BY <1>2, TierFields DEF MergeWeb, Seed, AddTier, WithoutEdges, WithoutNode, Graph
  <1>6. n \in t.nodes
    <2>1. path \in Files[u]
      BY <1>4
    <2> QED
      BY <2>1, TierHas
  <1>7. n = TierNode(path, Len(s) + 2)
    BY DEF Endpoint, SUBTREE_DEPTH
  <1>8. Within(path, n.path) /\ (Len(n.path) >= Len(path) \/ Len(n.path) >= 2 * (step + 1) + 1)
    <2>1. CASE Len(path) <= Len(s) + 2
      <3>1. n.path = path
        BY <1>7, <2>1 DEF TierNode, File, Node
      <3> QED
        BY <1>1, <3>1, WithinItself
    <2>2. CASE ~(Len(path) <= Len(s) + 2)
      <3>1. n.path = SubSeq(path, 1, Len(s) + 2)
        BY <1>7, <2>2 DEF TierNode, Dir, Node
      <3>2. Len(s) \in Nat /\ Len(s) + 2 \in Nat /\ Len(s) <= Len(s) + 2 /\ Len(s) + 2 <= Len(path)
        BY <1>1, <2>2
      <3>3. Within(path, n.path) /\ Len(n.path) = Len(s) + 2
        BY <1>1, <3>1, <3>2, CutWithin
      <3> QED
        BY <3>2, <3>3
    <2> QED
      BY <2>1, <2>2
  <1> HIDE DEF t, m, n
  <1>9. n \in Above(m, path)
    BY <1>5, <1>6, <1>8 DEF Above
  <1> QED
    BY <1>1, <1>8, <1>9 DEF m, t


-----------------------------------------------------------------------------
(* Steps of locates and of the panel's tree.                                *)

ShowsTheWay(g, path, step) ==
    \A v \in Versions : g.from \subseteq {v} /\ path \in Files[v] /\ WithinReach(path) =>
        /\ 2 * step <= Len(path)
        /\ \E n \in Above(g, path) : Len(n.path) >= Len(path) \/ Len(n.path) >= 2 * step + 1

\* The two parts of FilesAreFound, for a step
LocateFinds(l) ==
    \A v \in graph'.from :
        /\ locates'[l] # locates[l] /\ locates'[l].phase = "ended"
        /\ graph'.from = {v} /\ locates'[l].path \in Files[v] /\ WithinReach(locates'[l].path)
        => \/ locates'[l].how = "failed"
           \/ locates'[l].how = "node" /\ selected' = File(locates'[l].path)
           \/ locates'[l].how = "node" /\ Marked(selected')

HitFinds ==
    client = "panel" /\ version = 1 /\ root = 1 /\ selected' # selected => selected'.kind = "file"

\* What a step of the locate l leaves true of every locate
OnlyLocates(l) ==
    /\ \A m \in Slots : Proper(locates'[m].current)
    /\ \A m \in Slots : locates'[m].phase = "asks" => OnItsWay(locates'[m])
    /\ \A m \in Slots : LocateFinds(m)

LEMMA TurnFinds ==
    ASSUME FindMap, NEW l \in Slots, NEW path, NEW g, Good(g), Proper(g), <<>> \in g.loaded,
           NEW step \in Nat, ShowsTheWay(g, path, step), NEW loud, NEW noticed,
           Proceed(l, path, g, step, loud, noticed), graph' = g
    PROVE OnlyLocates(l)
  <1>1. PICK loc : /\ locates' = [locates EXCEPT ![l] = loc] /\ loc.path = path
                   /\ \/ loc.phase = "ended" /\ loc.current = EmptyGraph
                      \/ loc.phase = "asks" /\ loc.current = g /\ loc.step = step
    <2> DEFINE asks == Locate("asks", path, g, step, locateHit(g, path).scope, version, loud, "none")
               ended(how) == Ended(path, loud, how)
    <2>1. \/ locates' = [locates EXCEPT ![l] = asks]
          \/ \E how \in {"node", "missing", "silent"} : locates' = [locates EXCEPT ![l] = ended(how)]
      BY DEF Proceed
    <2>2. /\ asks.phase = "asks" /\ asks.path = path /\ asks.current = g /\ asks.step = step
          /\ \A how : /\ ended(how).phase = "ended" /\ ended(how).path = path
                      /\ ended(how).current = EmptyGraph
      BY DEF Ended, Locate
    <2> HIDE DEF asks, ended
    <2> QED
      BY <2>1, <2>2
  <1>2. locates'[l] = loc /\ \A m \in Slots : m # l => locates'[m] = locates[m]
    BY <1>1 DEF FindMap, GoodMap
  <1>3. ASSUME NEW v \in Versions, g.from \subseteq {v}, path \in Files[v], WithinReach(path)
        PROVE  \/ /\ loc.phase = "ended" /\ loc.how = "node"
                  /\ \/ selected' = File(path)
                     \/ /\ selected'.kind = "directory" /\ selected' \in g.expanded
                        /\ selected'.path \notin g.loaded
               \/ /\ loc.phase = "asks" /\ Within(path, loc.scope) /\ loc.scope # path
                  /\ Len(loc.scope) >= 2 * step + 1
    <2>1. 2 * step <= Len(path)
      BY <1>3 DEF ShowsTheWay
    <2>2. PICK n \in Above(g, path) : Len(n.path) >= Len(path) \/ Len(n.path) >= 2 * step + 1
      BY <1>3 DEF ShowsTheWay
    <2>3. GoodMap
      BY DEF FindMap
    <2> QED
      BY <1>2, <1>3, <2>1, <2>2, <2>3, ProceedFinds
  <1>4. Proper(loc.current)
    <2>1. Proper(EmptyGraph)
      BY DEF Proper, EmptyGraph, Graph
    <2> QED
      BY <1>1, <2>1
  <1>5. loc.phase = "asks" => OnItsWay(loc)
    BY <1>1, <1>3 DEF OnItsWay
  <1>6. LocateFinds(l)
    <2> SUFFICES ASSUME NEW v \in g.from, g.from = {v}, loc.phase = "ended",
                        path \in Files[v], WithinReach(path)
                 PROVE  loc.how = "node" /\ (selected' = File(path) \/ Marked(selected'))
      BY <1>1, <1>2 DEF LocateFinds
    <2>1. v \in Versions
      BY DEF Good
    <2> QED
      BY <1>3, <2>1 DEF Marked
  <1>7. \A m \in Slots : m # l => LocateFinds(m)
    BY <1>2 DEF LocateFinds
  <1> QED
    BY <1>2, <1>4, <1>5, <1>6, <1>7 DEF OnlyLocates, FindMap

\* The tree opens a shown directory, and so each of those above it before.
LEMMA OpenKeepsLoaded ==
    ASSUME 1 \in Versions, NEW s \in Scopes, NEW g, Proper(g), g.from \subseteq {1},
           ExpandedIsLoaded(g), AboveIsLoaded(g), Dir(s) \in g.nodes \ g.stubs
    PROVE LET m == MergePanel(g, GetCodeMap(1, s, DEFAULT_DEPTH))
          IN m.from \subseteq {1} /\ ExpandedIsLoaded(m) /\ AboveIsLoaded(m)
  <1> DEFINE t == GetCodeMap(1, s, DEFAULT_DEPTH)
             cut == WithoutEdges(g, Dir(s))
             m == AddTier(cut, t)
  <1>1. s \in Seq(Segments) /\ s # <<>>
    BY ScopesAreSequences, ScopesAreNotEmpty
  <1>2. t.scope = s /\ t.version = 1
    BY TierFields
  <1>3. CASE s \in Files[1]
    BY <1>3, TierFields DEF MergePanel
  <1>4. CASE s \notin Files[1]
    <2>1. MergePanel(g, t) = m
      BY <1>1, <1>2, <1>4, TierFields DEF MergePanel
    <2>2. /\ m.nodes = g.nodes \cup t.nodes \cup t.stubs
          /\ m.stubs = (g.stubs \ t.nodes) \cup (t.stubs \ (g.nodes \ g.stubs))
          /\ m.expanded = g.expanded \cup AllAbove(m.nodes, s)
          /\ m.loaded = g.loaded \cup {s}
          /\ m.from = g.from \cup {1}
      BY <1>2 DEF AddTier, WithoutEdges, Graph, StubsAfter
    <2>3. \A n \in m.nodes : n.path \in Seq(Segments)
      <3>1. \A n \in t.nodes \cup t.stubs : OfIndex(n, 1)
        BY <1>1, TierIsOfIndex DEF DEFAULT_DEPTH
      <3>2. \A n \in g.nodes : OfIndex(n, 1)
        BY DEF Proper
      <3> QED
        BY <2>2, <3>1, <3>2, OfIndexFields
    <2> HIDE DEF m, t
    <2>4. \A k \in Nat : k <= Len(s) => SubSeq(s, 1, k) \in m.loaded
      <3>1. Dir(s).kind = "directory" /\ Dir(s).path = s
        BY DEF Dir, Node
      <3>2. \A k \in Nat : k < Len(s) => SubSeq(s, 1, k) \in g.loaded
        BY <3>1 DEF AboveIsLoaded
      <3>3. SubSeq(s, 1, Len(s)) = s
        BY <1>1
      <3> QED
        BY <1>1, <2>2, <3>2, <3>3
    <2>5. ExpandedIsLoaded(m)
      <3> SUFFICES ASSUME NEW n \in AllAbove(m.nodes, s) PROVE n.path \in m.loaded
        BY <2>2 DEF ExpandedIsLoaded
      <3>1. n \in m.nodes /\ Within(s, n.path)
        BY DEF AllAbove
      <3>2. Len(n.path) \in Nat
        BY <2>3, <3>1
      <3> QED
        BY <2>4, <3>1, <3>2 DEF Within
    <2>6. AboveIsLoaded(m)
      <3> SUFFICES ASSUME NEW n \in m.nodes \ m.stubs, NEW k \in Nat,
                          n.kind = "directory", k < Len(n.path)
                   PROVE  SubSeq(n.path, 1, k) \in m.loaded
        BY DEF AboveIsLoaded
      <3>1. n \in g.nodes \ g.stubs \/ n \in t.nodes
        BY <2>2
      <3>2. CASE n \in g.nodes \ g.stubs
        BY <2>2, <3>2 DEF AboveIsLoaded
      <3>3. CASE n \in t.nodes
        <4>1. PICK f \in Files[1] : Within(f, s) /\ n = Endpoint(f, s, DEFAULT_DEPTH)
          BY <3>3 DEF t, GetCodeMap
        <4>2. n = Dir(SubSeq(f, 1, Len(s) + 1)) /\ ~(Len(f) <= Len(s) + 1)
          BY <4>1 DEF Endpoint, TierNode, DEFAULT_DEPTH, File, Node
        <4>3. f \in Seq(Segments)
          BY PathsAreSequences
        <4>4. n.path = SubSeq(f, 1, Len(s) + 1)
          BY <4>2 DEF Dir, Node
        <4>5. k <= Len(s) /\ Len(s) \in Nat
          BY <1>1, <4>2, <4>3, <4>4
        <4>6. SubSeq(n.path, 1, k) = SubSeq(f, 1, k)
          BY <4>2, <4>3, <4>4, <4>5
        <4>7. SubSeq(s, 1, k) = SubSeq(f, 1, k)
          BY <4>1, <4>2, <4>3, <4>5 DEF Within
        <4> QED
          BY <2>4, <4>5, <4>6, <4>7
      <3> QED
        BY <3>1, <3>2, <3>3
    <2> QED
      BY <2>1, <2>2, <2>5, <2>6 DEF t
  <1> QED
    BY <1>3, <1>4

LEMMA SeedKeepsLoaded ==
    ASSUME 1 \in Versions
    PROVE LET g == Seed(Root(1))
          IN g.from = {1} /\ ExpandedIsLoaded(g) /\ AboveIsLoaded(g)
  <1> DEFINE t == GetCodeMap(1, <<>>, DEFAULT_DEPTH)
             g == Seed(t)
  <1>1. Root(1) = t
    BY TierIs DEF Root
  <1>2. g.from = {1} /\ g.loaded = {<<>>} /\ g.expanded = {} /\ g.nodes \ g.stubs \subseteq t.nodes
    BY TierFields DEF Seed, Graph
  <1>3. ASSUME NEW n \in t.nodes, NEW k \in Nat, n.kind = "directory", k < Len(n.path)
        PROVE  SubSeq(n.path, 1, k) = <<>>
    <2>1. PICK f \in Files[1] : Within(f, <<>>) /\ n = Endpoint(f, <<>>, DEFAULT_DEPTH)
      BY DEF GetCodeMap
    <2>2. n = Dir(SubSeq(f, 1, 1)) /\ ~(Len(f) <= 1)
      BY <1>3, <2>1 DEF Endpoint, TierNode, DEFAULT_DEPTH, File, Node
    <2>3. f \in Seq(Segments)
      BY PathsAreSequences
    <2>4. n.path = SubSeq(f, 1, 1)
      BY <2>2 DEF Dir, Node
    <2>5. n.path \in Seq(Segments) /\ Len(n.path) = 1
      <3>1. Len(f) \in Nat /\ 1 <= Len(f)
        BY <2>2, <2>3
      <3> QED
        BY <2>3, <2>4, <3>1
    <2>6. k = 0
      BY <1>3, <2>5
    <2> QED
      BY <2>5, <2>6
  <1> HIDE DEF g, t
  <1>4. ExpandedIsLoaded(g) /\ AboveIsLoaded(g)
    BY <1>2, <1>3 DEF ExpandedIsLoaded, AboveIsLoaded
  <1> QED
    BY <1>1, <1>2, <1>4 DEF g, t

\* A hit of the panel is a file that the index has.
LEMMA HitIsFound ==
    ASSUME FindMap, client = "panel", version = 1, NEW path \in Hits, SelectHit(path)
    PROVE selected'.kind = "file"
  <1> DEFINE r == locateHit(graph, path)
             best == Nearest(graph, path)
  <1>1. /\ 1 \in Versions /\ Good(graph) /\ Proper(graph) /\ graph.from \subseteq {1}
        /\ ExpandedIsLoaded(graph)
    BY DEF FindMap, GoodMap
  <1>2. path \in Files[1] /\ path \in Seq(Segments)
    <2>1. PICK v \in 1..1 : path \in Files[v]
      BY DEF Hits
    <2>2. v = 1
      OBVIOUS
    <2> QED
      BY <1>1, <2>1, <2>2, PathsAreSequences
  <1>3. \A n \in graph.nodes : OfIndex(n, 1) /\ n.path \in Seq(Segments)
    BY <1>1, OfIndexFields DEF Proper
  <1>4. selected' = IF r.kind = "node" THEN r.node ELSE File(path)
    BY DEF SelectHit
  <1>5. File(path).kind = "file"
    BY DEF File, Node
  <1>6. CASE File(path) \in graph.nodes \/ Above(graph, path) = {}
    BY <1>4, <1>5, <1>6 DEF locateHit, Found, Expand, Unreachable
  <1>7. CASE File(path) \notin graph.nodes /\ Above(graph, path) # {}
    <2>1. best \in Above(graph, path) /\ \A m \in Above(graph, path) : Len(m.path) <= Len(best.path)
      BY <1>2, <1>3, <1>7, NearestIs
    <2>2. best \in graph.nodes /\ Within(path, best.path)
      BY <2>1 DEF Above
    <2>3. best.kind \in {"file", "directory"}
      BY <1>1, <1>3, <2>2, OfIndexFields
    <2>4. r = IF best.kind = "directory" /\ best \notin graph.expanded
              THEN Expand(best.path) ELSE Found(best)
      BY <1>7 DEF locateHit
    <2>5. ASSUME best.kind = "directory", best \in graph.expanded PROVE FALSE
      <3>1. best.path \in graph.loaded
        BY <1>1, <2>5 DEF ExpandedIsLoaded
      <3>2. PICK m \in graph.nodes \ graph.stubs : Within(path, m.path) /\ Len(m.path) > Len(best.path)
        BY <1>1, <1>2, <2>2, <3>1 DEF Good, ShowsOf
      <3>3. Len(m.path) <= Len(best.path) /\ Len(m.path) \in Nat /\ Len(best.path) \in Nat
        BY <1>3, <2>1, <2>2, <3>2 DEF Above
      <3> QED
        BY <3>2, <3>3
    <2> HIDE DEF best, r
    <2> QED
      BY <1>4, <1>5, <2>3, <2>4, <2>5 DEF Found, Expand
  <1> QED
    BY <1>6, <1>7

Finds == HitFinds /\ \A l \in Slots : LocateFinds(l)

LEMMA InitFinds == MapInit => FindMap
  <1> SUFFICES ASSUME MapInit PROVE FindMap
    OBVIOUS
  <1>1. version \in Versions /\ root = 0 /\ graph = EmptyGraph
    BY BoundsAreNumbers DEF MapInit, Versions
  <1>2. \A l \in Slots : locates[l].current = EmptyGraph /\ locates[l].phase = "idle"
    BY DEF MapInit, Idle, Locate
  <1>3. Proper(EmptyGraph) /\ ExpandedIsLoaded(EmptyGraph) /\ AboveIsLoaded(EmptyGraph)
        /\ EmptyGraph.from = {}
    BY DEF Proper, ExpandedIsLoaded, AboveIsLoaded, EmptyGraph, Graph
  <1> QED
    BY <1>1, <1>2, <1>3, InitIsGood DEF FindMap

\* A turn of a locate leaves the panel alone.
LEMMA TurnIsEnough ==
    ASSUME FindMap, NEW l \in Slots, OnlyLocates(l), GoodMap', client = "web",
           UNCHANGED <<client, version, root>>, Proper(graph'), <<>> \in graph'.loaded
    PROVE FindMap' /\ Finds
  BY DEF FindMap, OnlyLocates, Finds, HitFinds

LEMMA NextFinds == FindMap /\ [MapNext]_mapVars => FindMap' /\ Finds
  <1> SUFFICES ASSUME FindMap, [MapNext]_mapVars PROVE FindMap' /\ Finds
    OBVIOUS
  <1>1. GoodMap /\ GoodMap'
    BY NextIsGood DEF FindMap
  <1>2. ASSUME UNCHANGED <<client, version, root, graph, selected, locates>> PROVE FindMap' /\ Finds
    BY <1>1, <1>2 DEF FindMap, Finds, HitFinds, LocateFinds
  <1>3. CASE UNCHANGED mapVars
    BY <1>2, <1>3 DEF mapVars
  <1>4. CASE Reindex
    <2>1. version' \in Versions /\ version' # 1
      BY <1>4, BoundsAreNumbers DEF FindMap, Reindex, Versions
    <2> QED
      BY <1>1, <1>4, <2>1 DEF Reindex, FindMap, Finds, HitFinds, LocateFinds
  <1>5. ASSUME NEW v \in Versions, RootAnswer(v) PROVE FindMap' /\ Finds
    <2>1. /\ UNCHANGED <<client, version, selected, locates>> /\ graph' = Seed(Root(v))
          /\ root' = v /\ v <= version
      BY <1>5 DEF RootAnswer, FindMap, Versions
    <2>2. Root(v) = GetCodeMap(v, <<>>, DEFAULT_DEPTH)
      BY TierIs DEF Root
    <2>3. Proper(graph')
      BY <1>1, <2>1, <2>2, MergeIsProper DEF FindMap
    <2>4. <<>> \in graph'.loaded
      BY <2>1, <2>2, TierFields DEF Seed, Graph
    <2>5. v \in Nat /\ (version = 1 => v = 1)
      BY <2>1, BoundsAreNumbers DEF Versions
    <2>6. version = 1 => graph'.from \subseteq {1} /\ ExpandedIsLoaded(graph') /\ AboveIsLoaded(graph')
      BY <2>1, <2>5, SeedKeepsLoaded
    <2> QED
      BY <1>1, <2>1, <2>3, <2>4, <2>5, <2>6 DEF FindMap, Finds, HitFinds, LocateFinds
  <1>6. ASSUME NEW v \in Versions, DetailAnswer(v) PROVE FindMap' /\ Finds
    BY <1>2, <1>6 DEF DetailAnswer
  <1>7. ASSUME NEW l \in Slots, Click(l) \/ Inspect(l) PROVE FindMap' /\ Finds
    <2>1. /\ client = "web" /\ root # 0 /\ graph' = graph
          /\ UNCHANGED <<client, version, root>>
      <3>1. client = "web" /\ root > 0 /\ graph' = graph /\ UNCHANGED <<client, version, root>>
        BY <1>7 DEF Click, Inspect
      <3> QED
        BY <3>1
    <2>2. PICK path, loud, noticed : Proceed(l, path, graph, 0, loud, noticed)
      <3>1. CASE Click(l)
        <4>1. PICK path : Proceed(l, path, graph, 0, TRUE, FALSE)
          BY <3>1 DEF Click
        <4> QED
          BY <4>1
      <3>2. CASE Inspect(l)
        <4>1. PICK path : Proceed(l, path, graph, 0, FALSE, notice)
          BY <3>2 DEF Inspect
        <4> QED
          BY <4>1
      <3> QED
        BY <1>7, <3>1, <3>2
    <2>3. Good(graph) /\ Proper(graph) /\ <<>> \in graph.loaded
      BY <2>1 DEF FindMap, GoodMap
    <2>4. ShowsTheWay(graph, path, 0)
      <3> SUFFICES ASSUME NEW v \in Versions, graph.from \subseteq {v}, path \in Files[v]
                   PROVE  0 <= Len(path) /\ \E n \in Above(graph, path) : Len(n.path) >= 1
        BY DEF ShowsTheWay
      <3> QED
        BY <2>3, StartsOnItsWay, PathsAreSequences
    <2>5. OnlyLocates(l)
      BY <2>1, <2>2, <2>3, <2>4, TurnFinds
    <2> QED
      BY <1>1, <2>1, <2>3, <2>5, TurnIsEnough
  <1>8. ASSUME NEW l \in Slots, NEW s \in Scopes, NEW u \in Versions, Answer(l, s, u)
        PROVE  FindMap' /\ Finds
    <2> DEFINE loc == locates[l]
               g == MergeWeb(loc.current, GetCodeMap(u, s, SUBTREE_DEPTH))
    <2>1. /\ client = "web" /\ loc.phase = "asks" /\ loc.scope = s /\ graph' = g
          /\ Proceed(l, loc.path, g, loc.step + 1, loc.loud, notice)
          /\ UNCHANGED <<client, version, root>>
      <3>1. Tier[u][s][SUBTREE_DEPTH] = GetCodeMap(u, s, SUBTREE_DEPTH)
        BY TierIs
      <3> QED
        BY <1>8, <3>1 DEF Answer
    <2>2. OnItsWay(loc) /\ Good(loc.current) /\ Proper(loc.current)
      BY <2>1 DEF FindMap, GoodMap
    <2>3. Good(g) /\ Proper(g) /\ <<>> \in g.loaded
      BY <2>2, MergeIsGood, MergeIsProper, MergeKeepsLoaded DEF OnItsWay
    <2>4. ShowsTheWay(g, loc.path, loc.step + 1)
      <3> SUFFICES ASSUME NEW v \in Versions, g.from \subseteq {v}, loc.path \in Files[v],
                          WithinReach(loc.path)
                   PROVE  /\ 2 * (loc.step + 1) <= Len(loc.path)
                          /\ \E n \in Above(g, loc.path) :
                               Len(n.path) >= Len(loc.path) \/ Len(n.path) >= 2 * (loc.step + 1) + 1
        BY DEF ShowsTheWay
      <3>1. loc.current.from \subseteq {v}
        <4> HIDE DEF loc
        <4> QED
          BY MergeComesFrom
      <3>2. /\ Within(loc.path, s) /\ s # loc.path
            /\ loc.step \in Nat /\ Len(s) >= 2 * loc.step + 1
        BY <2>1, <2>2, <3>1 DEF OnItsWay
      <3> HIDE DEF loc
      <3> QED
        BY <3>2, AnswerShowsTheWay
    <2>5. loc.step + 1 \in Nat
      BY <2>2 DEF OnItsWay
    <2> HIDE DEF g
    <2>6. OnlyLocates(l)
      BY <2>1, <2>3, <2>4, <2>5, TurnFinds
    <2> QED
      BY <1>1, <2>1, <2>3, <2>6, TurnIsEnough
  <1>9. ASSUME NEW l \in Slots, Fail(l) PROVE FindMap' /\ Finds
    <2> DEFINE failed == Ended(locates[l].path, locates[l].loud, "failed")
    <2>1. failed.phase = "ended" /\ failed.how = "failed" /\ failed.current = EmptyGraph
      BY DEF Ended, Locate
    <2>2. /\ locates' = [locates EXCEPT ![l] = failed]
          /\ UNCHANGED <<client, version, root, graph, selected>>
      BY <1>9 DEF Fail
    <2> HIDE DEF failed
    <2>3. \A m \in Slots : locates'[m] = IF m = l THEN failed ELSE locates[m]
      BY <1>1, <2>2 DEF GoodMap
    <2>4. Proper(EmptyGraph)
      BY DEF Proper, EmptyGraph, Graph
    <2> QED
      BY <1>1, <2>1, <2>2, <2>3, <2>4 DEF FindMap, Finds, HitFinds, LocateFinds
  <1>10. ASSUME NEW s \in Scopes, NEW v \in Versions, Open(s, v) PROVE FindMap' /\ Finds
    <2>1. /\ UNCHANGED <<client, version, root, selected, locates>>
          /\ Dir(s) \in graph.nodes \ graph.stubs /\ v <= version
          /\ graph' = MergePanel(graph, GetCodeMap(v, s, DEFAULT_DEPTH))
      BY <1>10, TierIs DEF Open, Shown
    <2>2. Proper(graph')
      BY <2>1, MergeIsProper DEF FindMap
    <2>3. root # 0 => <<>> \in graph'.loaded
      BY <2>1, MergeKeepsLoaded DEF FindMap
    <2>4. version = 1 => v = 1
      BY <2>1, BoundsAreNumbers DEF Versions
    <2>5. client = "panel" /\ version = 1 =>
            graph'.from \subseteq {1} /\ ExpandedIsLoaded(graph') /\ AboveIsLoaded(graph')
      BY <2>1, <2>4, OpenKeepsLoaded DEF FindMap
    <2> QED
      BY <1>1, <2>1, <2>2, <2>3, <2>5 DEF FindMap, Finds, HitFinds, LocateFinds
  <1>11. ASSUME NEW path \in Hits, SelectFile(path) \/ SelectHit(path) PROVE FindMap' /\ Finds
    <2>1. UNCHANGED <<client, version, root, graph, locates>>
      BY <1>11 DEF SelectFile, SelectHit
    <2>2. SelectFile(path) => selected'.kind = "file"
      BY DEF SelectFile, File, Node
    <2>3. HitFinds
      BY <1>11, <2>2, HitIsFound DEF HitFinds
    <2> QED
      BY <1>1, <2>1, <2>3 DEF FindMap, Finds, LocateFinds
  <1> QED
    BY <1>3, <1>4, <1>5, <1>6, <1>7, <1>8, <1>9, <1>10, <1>11 DEF MapNext

\* A file of the index shown is found, if it is in reach: locate, locateHit and
\* selectHit.
THEOREM EveryFileIsFound == MapSpec => FilesAreFound
  <1>1. Finds =>
          /\ \A l \in Slots : \A v \in graph'.from :
                /\ locates'[l] # locates[l] /\ locates'[l].phase = "ended"
                /\ graph'.from = {v} /\ locates'[l].path \in Files[v] /\ WithinReach(locates'[l].path)
                => \/ locates'[l].how = "failed"
                   \/ locates'[l].how = "node" /\ selected' = File(locates'[l].path)
                   \/ locates'[l].how = "node" /\ Marked(selected')
          /\ client = "panel" /\ version = 1 /\ root = 1 /\ selected' # selected => selected'.kind = "file"
    BY DEF Finds, HitFinds, LocateFinds
  <1> QED
    BY <1>1, InitFinds, NextFinds, PTL DEF MapSpec, FilesAreFound
=============================================================================
