---------------------------- MODULE MCQueryCache ----------------------------
(* QueryCache for the queries of the control panel and of the web dashboard,
   with two projects.  The tables treat projects alike, and the four entry sections
   but for the list of projects, so the queries of one project and one of the
   sections, and the global ones, are enough.  Queries, operations and places
   are numbered: the numbers are all a state has of them.                    *)
EXTENDS QueryCache, Sequences, FiniteSetsExt, TLC

Projects == {"A", "B"}

Panel == INSTANCE PanelQueries
Web == INSTANCE WebQueries

InApp(app, S) == {[app |-> app, is |-> x] : x \in S}
Numbered(S) == FoldSet(LAMBDA x, seq : Append(seq, x), <<>>, S)

Observed(S) ==
    {x \in S : /\ Panel!ScopeOf(x.call) \in {"A", "*"}
               /\ Panel!SectionOf(x.call) \notin {"blockers", "bugs", "conventions"}}

\* n in the following: the places, operations and queries by their numbers
Numbers ==
    [place |-> Numbered(InApp("panel", Panel!AllPlaces) \cup InApp("web", Web!AllPlaces)),
     op |-> Numbered(InApp("panel", Panel!AllOps) \cup InApp("web", Web!AllOps)),
     query |-> Numbered(InApp("panel", Observed(Panel!AllQueries))
                        \cup InApp("web", Observed(Web!AllQueries)))]

-----------------------------------------------------------------------------
(* The tables of the two clients as relations between the numbers.          *)

\* Sets built by mapping, which TLC enumerates once
Pairs(S, T, R(_, _)) == UNION {{<<a, b>> : b \in {c \in T : R(a, c)}} : a \in S}

ShownAt(s) == IF s.app = "panel" THEN Panel!ShownAt(s.is) ELSE Web!AppAt(s.is).shows
ShowsIn(n) ==
    Pairs(DOMAIN n.place, DOMAIN n.query, LAMBDA s, x :
        n.query[x].app = n.place[s].app /\ n.query[x].is \in ShownAt(n.place[s]))

\* The component of an operation, and its button
LivesIn(n) ==
    Pairs(DOMAIN n.op, DOMAIN n.place, LAMBDA o, s :
        n.op[o].app = n.place[s].app /\ Panel!LivesAt(n.op[o].is, n.place[s].is))
OfferedIn(n) ==
    Pairs(DOMAIN n.op, DOMAIN n.place, LAMBDA o, s :
        /\ n.op[o].app = n.place[s].app
        /\ IF n.op[o].app = "panel" THEN Panel!OfferedAt(n.op[o].is, n.place[s].is)
           ELSE n.op[o].is \in Web!AppAt(n.place[s].is).offers)

ChangesIn(n) ==
    Pairs(DOMAIN n.op, DOMAIN n.query, LAMBDA o, x :
        n.op[o].app = n.query[x].app /\ Panel!Affects(n.op[o].is.call, n.query[x].is.call))
Forgotten(o, x) == IF x.app = "panel" THEN Panel!Forgotten(o.is, x.is) ELSE Web!Forgotten(o.is, x.is)

\* The operations that the callback of o, as rendered for some project, is of:
\* useMutation options of the web dashboard, mutate() callbacks of the panel
CallbackIn(n) ==
    Pairs(DOMAIN n.op, DOMAIN n.op, LAMBDA o, r :
        IF n.op[o].app = "web" THEN n.op[r].app = "web" /\ Web!Rebinds(n.op[r].is, n.op[o].is)
        ELSE o = r)
ByCallback(n, callback, Does(_, _)) ==
    UNION {{<<c[1], n.op[c[2]].is.project, x>> :
                x \in {y \in DOMAIN n.query : /\ n.op[c[2]].app = n.query[y].app
                                             /\ Does(n.op[c[2]].is, n.query[y].is)}} :
           c \in callback}

RefreshIn(n) ==
    Pairs(DOMAIN n.query, DOMAIN n.place, LAMBDA x, s :
        /\ n.query[x].app = n.place[s].app
        /\ IF n.query[x].app = "panel" THEN n.place[s].is.view # "home"
           ELSE Web!RefreshedAt(n.query[x].is, n.place[s].is))

\* The relations that need no other
TablesOf(n, callback) ==
    [shows |-> ShowsIn(n), lives |-> LivesIn(n), offers |-> OfferedIn(n),
     changes |-> ChangesIn(n), refresh |-> RefreshIn(n),
     refetches |-> ByCallback(n, callback, LAMBDA r, x : \E f \in r.invalidates : Panel!Selects(f, x)),
     writesFirst |-> ByCallback(n, callback, LAMBDA r, x : x.key \in r.writesFirst),
     writesLast |-> ByCallback(n, callback, LAMBDA r, x : x.key \in r.writesLast),
     amends |-> ByCallback(n, callback, LAMBDA r, x : x.key \in r.amends)]

\* The view that offers an operation is to show its effects.
PromisedIn(n, t) ==
    {c \in t.changes :
        /\ ~Forgotten(n.op[c[1]], n.query[c[2]])
        /\ \E s \in DOMAIN n.place : <<c[1], s>> \in t.offers /\ <<s, c[2]>> \in t.shows}

-----------------------------------------------------------------------------
(* What is explored of them.                                                *)

Renderings == Projects \cup {"none"}
For(o, x, relation) == {p \in Renderings : <<o, p, x>> \in relation}

\* All that QueryCache can tell of o next to x.
RoleOf(n, t, promised, o, x) ==
    [changes |-> <<o, x>> \in t.changes, promised |-> <<o, x>> \in promised,
     callback |-> For(o, x, t.refetches), first |-> For(o, x, t.writesFirst),
     last |-> For(o, x, t.writesLast), amends |-> For(o, x, t.amends),
     places |-> {s \in DOMAIN n.place : <<o, s>> \in t.lives},
     offered |-> {s \in DOMAIN n.place : <<o, s>> \in t.offers},
     project |-> n.op[o].is.project, solo |-> n.op[o].is.solo]

\* An operation that changes the data without any of this is a ForeignWrite.
TouchingIn(t, promised) ==
    {<<c[2], c[1]>> : c \in promised}
    \cup {<<c[3], c[1]>> : c \in UNION {t.refetches, t.writesFirst, t.writesLast, t.amends}}

\* Of the operations with one role, one.
TouchIn(n, t, promised) ==
    LET roles == {<<c[1], c[2], RoleOf(n, t, promised, c[2], c[1])>> : c \in TouchingIn(t, promised)}
    IN  {<<r[1], r[2]>> : r \in
            {r \in roles : ~\E i \in roles : i[1] = r[1] /\ i[2] < r[2] /\ i[3] = r[3]}}

\* Of the places that x and these operations cannot tell apart, one.
ViewOf(n, t, touch, x, s) ==
    [shown |-> <<s, x>> \in t.shows,
     project |-> IF n.place[s].app = "web" THEN n.place[s].is.project ELSE "any",
     refreshed |-> <<x, s>> \in t.refresh,
     lives |-> {c \in touch : c[1] = x /\ <<c[2], s>> \in t.lives},
     offered |-> {c \in touch : c[1] = x /\ <<c[2], s>> \in t.offers}]
AtIn(n, t, touch) ==
    LET places == Pairs(DOMAIN n.query, DOMAIN n.place, LAMBDA x, s : n.place[s].app = n.query[x].app)
        views == {<<v[1], v[2], ViewOf(n, t, touch, v[1], v[2])>> : v \in places}
    IN  {<<v[1], v[2]>> : v \in
            {v \in views : ~\E w \in views : w[1] = v[1] /\ w[2] < v[2] /\ w[3] = v[3]}}

\* The requests that the server routes to no handler, or for which a literal
\* segment and a parameter compete
MisroutedOf(requests) == {q \in requests : Cardinality(Panel!RoutesOf(q)) # 1}

MCClient ==
    LET n == Numbers
        t == TablesOf(n, CallbackIn(n))
        promised == PromisedIn(n, t)
        touch == TouchIn(n, t, promised)
        InWeb(entries) == {e \in DOMAIN entries : entries[e].app = "web"}
    IN  [shows |-> t.shows, lives |-> t.lives, offers |-> t.offers, changes |-> t.changes,
         refetches |-> t.refetches, refresh |-> t.refresh, amends |-> t.amends,
         writesFirst |-> t.writesFirst, writesLast |-> t.writesLast,
         places |-> DOMAIN n.place, ops |-> DOMAIN n.op, queries |-> DOMAIN n.query,
         at |-> AtIn(n, t, touch), touches |-> touch, promised |-> promised,
         projectAt |-> [s \in DOMAIN n.place |-> n.place[s].is.project],
         hook |-> [o \in DOMAIN n.op |-> Panel!HookOf(n.op[o].is)],
         solo |-> {o \in DOMAIN n.op : n.op[o].is.solo},
         projectOf |-> [o \in DOMAIN n.op |-> n.op[o].is.project],
         survives |-> InWeb(n.op),
         refreshWaits |-> InWeb(n.query), aborts |-> DOMAIN n.query \ InWeb(n.query),
         misrouted |->
            UNION {IF MisroutedOf(Panel!Calls("A")) = {} THEN {} ELSE DOMAIN n.query \ InWeb(n.query),
                   IF MisroutedOf(Web!Calls("A")) = {} THEN {} ELSE InWeb(n.query)}]

\* The hypothesis of the theorems in module QueryCache_proofs
ASSUME ClientTablesSound == TablesSound

\* The queries of a client with a misrouted request
Misrouted == Client.misrouted

\* Every request of the client in use reaches exactly one handler: the paths
\* and methods of the two clients were written apart from the server's.
CallsRouted == query \notin Misrouted

=============================================================================
