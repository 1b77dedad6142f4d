----------------------------- MODULE ServerApi ------------------------------
(* The HTTP API of the server as its two web clients see it: which requests it
   routes, and which kinds of data an answer is made of or a request changes.

   A request is [method, path, params, section]: the path without its leading
   /api, split at the slashes; the names of the query parameters, with their
   value where it selects other data; and the section a new entry is put in.
   The id of an entry is written as the name of its section.                 *)
EXTENDS Naturals, Sequences, FiniteSets

Sections ==
    {"overview", "focus", "blockers", "bugs", "conventions", "decisions",
     "requirements", "glossary", "features"}

Request(method, path) == [method |-> method, path |-> path, params |-> {}, section |-> "none"]

Get(path) == Request("GET", path)
GetWith(path, params) == [Get(path) EXCEPT !.params = params]
Post(path) == Request("POST", path)

\* /api/projects/{project}/...
Project(p, rest) == <<"projects", p>> \o rest

\* A route reads and writes kinds of data: a section, or one of "projects",
\* "contract", "evidence", "index", "files", "tokens", "plans", "tasks",
\* "events", "ai".  "@" is the section the request is about, "*" any segment.
Route(method, path, reads, writes) ==
    [method |-> method, path |-> path, reads |-> reads, writes |-> writes]

P(rest) == Project("*", rest)
Reads(path, kinds) == Route("GET", path, kinds, {})
Writes(method, path, kinds) == Route(method, path, {}, kinds)

\* Projects and context entries.  The list of projects carries a status line
\* with the focus and the open blockers and bugs of each.
ContextRoutes ==
    {Reads(<<"health">>, {}),
     Reads(<<"projects">>, {"projects", "focus", "blockers", "bugs"}),
     Writes("POST", <<"projects">>, {"projects"}),
     Writes("PATCH", P(<<>>), {"projects"}),
     Writes("DELETE", P(<<>>), {"projects"}),
     Reads(P(<<"briefing">>), Sections \ {"features"}),
     Writes("PUT", P(<<"focus">>), {"focus"}),
     Reads(P(<<"sections", "*">>), {"@"}),
     Writes("POST", P(<<"entries">>), {"@"}),
     Reads(P(<<"entries", "*">>), {"@"}),
     Writes("PATCH", P(<<"entries", "*">>), {"@"}),
     Writes("DELETE", P(<<"entries", "*">>), {"@"}),
     Writes("POST", P(<<"entries", "*", "resolve">>), {"@"}),
     Reads(P(<<"entries", "*", "history">>), {"@"}),
     Reads(P(<<"export">>), Sections),
     Writes("POST", <<"projects", "add-new-project">>, {"projects"}),
     Reads(P(<<"onboard">>), {"projects"})}

RequirementRoutes ==
    {Reads(P(<<"requirements">>), {"requirements"}),
     Writes("POST", P(<<"requirements", "sync">>), {"requirements"}),
     Reads(P(<<"requirements", "compliance">>), {"requirements", "contract", "evidence"}),
     Reads(P(<<"requirements", "*", "contract">>), {"contract"}),
     Reads(P(<<"requirements", "*", "evidence">>), {"evidence"}),
     Writes("POST", P(<<"requirements", "*", "invariants">>), {"contract"}),
     Writes("PATCH", P(<<"requirements", "invariants", "*">>), {"contract"}),
     Writes("DELETE", P(<<"requirements", "invariants", "*">>), {"contract"}),
     Writes("POST", P(<<"requirements", "invariants", "*", "criteria">>), {"contract"}),
     Writes("PATCH", P(<<"requirements", "criteria", "*">>), {"contract"}),
     Writes("DELETE", P(<<"requirements", "criteria", "*">>), {"contract"})}

\* prepare_task and the reads that serve agents also log the tokens they saved.
IndexRoutes ==
    {Reads(P(<<"index">>), {"index"}),
     Writes("POST", P(<<"reindex">>), {"index"}),
     Reads(P(<<"search">>), {"index"}),
     Writes("POST", P(<<"retrieve-context">>), {"tokens"}),
     Writes("POST", P(<<"prepare-task">>), {"tokens"}),
     Reads(P(<<"code-map">>), {"index", "focus", "blockers", "bugs", "requirements"}),
     Reads(P(<<"codebase-guide">>), {"index"}),
     Writes("POST", P(<<"codebase-guide", "sync">>), {"files"}),
     Reads(P(<<"source">>), {"files"}),
     Reads(P(<<"token-savings">>), {"tokens"}),
     Reads(P(<<"token-savings", "summary">>), {"tokens"})}

\* ai-settings tells whether some index was built with other settings.
AdminRoutes ==
    {Reads(<<"admin", "ai-settings">>, {"ai", "index"}),
     Writes("PATCH", <<"admin", "ai-settings">>, {"ai", "index"})}

PlanAt(rest) == P(<<"plans", "*">> \o rest)
TaskAt(rest) == PlanAt(<<"tasks", "*">> \o rest)

PlanningRoutes ==
    {Writes("POST", P(<<"plans">>), {"plans"}),
     Writes("POST", P(<<"plans", "with-tasks">>), {"plans", "tasks"}),
     Writes("POST", P(<<"plans", "generate-draft">>), {}),
     Reads(P(<<"plans">>), {"plans"}),
     Reads(PlanAt(<<>>), {"plans", "tasks"}),
     Writes("PATCH", PlanAt(<<>>), {"plans"}),
     Writes("POST", PlanAt(<<"archive">>), {"plans", "tasks", "events"}),
     Writes("POST", PlanAt(<<"activate">>), {"plans", "tasks", "events"}),
     Writes("POST", PlanAt(<<"complete">>), {"plans"}),
     Writes("POST", PlanAt(<<"tasks">>), {"tasks", "events"}),
     Writes("PATCH", TaskAt(<<>>), {"tasks", "events"}),
     Writes("POST", PlanAt(<<"dependencies">>), {"tasks", "events"}),
     Reads(P(<<"ready-tasks">>), {"plans", "tasks"}),
     Reads(PlanAt(<<"ready-tasks">>), {"plans", "tasks"}),
     Reads(TaskAt(<<"history">>), {"events"})}
    \cup {Writes("POST", TaskAt(<<step>>), {"tasks", "events"}) :
            step \in {"claim", "heartbeat", "release", "status", "complete"}}

Routes == ContextRoutes \cup RequirementRoutes \cup IndexRoutes \cup AdminRoutes \cup PlanningRoutes

-----------------------------------------------------------------------------

Serves(route, r) ==
    /\ route.method = r.method
    /\ Len(route.path) = Len(r.path)
    /\ \A i \in 1..Len(r.path) : route.path[i] \in {r.path[i], "*"}

\* The routes of a request; a literal segment is registered before the
\* parameter that would also match it, or under another method.
RoutesOf(r) == {route \in Routes : Serves(route, r)}

\* The project a request is confined to, if any
ScopeOf(r) == IF r.path[1] = "projects" /\ Len(r.path) > 1 THEN r.path[2] ELSE "*"

\* The section a request is about: an entry's, or the one asked for
SectionOf(r) == IF r.section # "none" \/ Len(r.path) < 4 THEN r.section ELSE r.path[4]

About(kinds, r) == {IF k = "@" THEN SectionOf(r) ELSE k : k \in kinds}
ReadsOf(r) == UNION {About(route.reads, r) : route \in RoutesOf(r)}
WritesOf(r) == UNION {About(route.writes, r) : route \in RoutesOf(r)}

\* Does serving w change what r answers?
Affects(w, r) ==
    /\ WritesOf(w) \cap ReadsOf(r) # {}
    /\ ScopeOf(w) = ScopeOf(r) \/ "*" \in {ScopeOf(w), ScopeOf(r)}

=============================================================================
