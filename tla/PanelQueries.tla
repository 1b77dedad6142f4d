---------------------------- MODULE PanelQueries ---------------------------
(* The pages of the control panel (App.tsx and pages/): the queries each page
   shows, and the operations it offers with the invalidations of their
   onSuccess callbacks.                                                      *)
EXTENDS PanelApi, QueryClient

CONSTANT Projects

Cached(call) == Query(QueryKey(call), call)

\* queryKey: [`/api/projects/${project}/...`], one element
Url(p, rest) == KeyStarts(<<Project(p, rest)>>)

-----------------------------------------------------------------------------
(* What is shown.                                                           *)

WithResolved == {"include_resolved"}
EntrySections == {"blockers", "bugs", "conventions", "decisions"}

\* AppShell: the project switcher, on every page but the home page, which has
\* the list itself
AppShell == {Cached(listProjects)}

Dashboard(p) ==
    {Cached(getBriefing(p)), Cached(getSection(p, "focus", {}))}
    \cup {Cached(getSection(p, s, WithResolved)) : s \in EntrySections}

\* The contract of an expanded requirement
RequirementRow(p, opened) ==
    IF opened = "row" THEN {Cached(getRequirementContract(p, "r"))} ELSE {}

Requirements(p, opened) ==
    {Cached(listRequirements(p)), Cached(reviewRequirementCompliance(p, {"ids"}))}
    \cup RequirementRow(p, opened)

Features(p) == {Cached(getSection(p, "features", {})), Cached(listRequirements(p))}

\* Picks its feature out of the list.
FeatureDetail(p) == Features(p)

HistoryDrawer(p) == {Cached(getTaskHistory(p, "n", "t"))}

\* The list under a status filter, and the selected plan with a task's history
Plans(p, opened) ==
    {Cached(listPlans(p, IF opened = "all" THEN {} ELSE {"active"})), Cached(getPlan(p, "n"))}
    \cup IF opened = "history" THEN HistoryDrawer(p) ELSE {}

CodeIndex(p) == {Cached(getIndexStatus(p))}

\* An opened directory
TreeNode(p) == {Cached(getCodeMap(p, {"scope"}))}

\* The root tier; a search or a selected file
CodeMap(p, opened) ==
    {Cached(getCodeMap(p, {}))}
    \cup (IF opened = "directory" THEN TreeNode(p) ELSE {})
    \cup (IF opened = "search" THEN {Cached(searchCode(p, {"q"}))} ELSE {})
    \cup (IF opened # "file" THEN {} ELSE
            {Cached(getSource(p, {"path"})), Cached(getCodebaseGuide(p, {"scope"}))}
            \cup {Cached(getSection(p, s, {})) : s \in EntrySections \cup {"requirements"}})

TokenSavings(p) == {Cached(getTokenSavingsSummary(p)), Cached(getTokenSavingsLog(p, {"limit"}))}
AISettings == {Cached(getAiSettings)}

AllPlaces ==
    {Place("home", "none", "nothing"), Place("ai", "none", "nothing")}
    \cup {Place(view, p, "nothing") : p \in Projects,
            view \in {"dashboard", "requirements", "features", "feature", "plans", "index", "code-map",
                     "tokens"}}
    \cup {Place("requirements", p, "row") : p \in Projects}
    \cup {Place("plans", p, o) : p \in Projects, o \in {"all", "history", "aiDraft"}}
    \cup {Place("code-map", p, o) : p \in Projects, o \in {"directory", "search", "file"}}

PageAt(here) ==
    LET p == here.project o == here.opened IN
    CASE here.view = "dashboard" -> Dashboard(p)
      [] here.view = "requirements" -> Requirements(p, o)
      [] here.view = "features" -> Features(p)
      [] here.view = "feature" -> FeatureDetail(p)
      [] here.view = "plans" -> Plans(p, o)
      [] here.view = "index" -> CodeIndex(p)
      [] here.view = "code-map" -> CodeMap(p, o)
      [] here.view = "tokens" -> TokenSavings(p)
      [] here.view = "ai" -> AISettings
      [] OTHER -> {}

ShownAt(here) == AppShell \cup PageAt(here)
AllQueries == UNION {ShownAt(here) : here \in AllPlaces}

-----------------------------------------------------------------------------
(* What is offered.                                                         *)

\* HomePicker
HomeOps ==
    {Invalidating(o, {KeyStarts(<<<<"projects">>>>)}) :
        o \in {Op("register", "home", "none", registerProject)}
              \cup {Op("delete", "home", "none", deleteProject(p)) : p \in Projects}}

\* The "Unregister project" dialog of AppShell
DeleteHere(p) ==
    Invalidating(Op("delete here", "shell", p, deleteProject(p)), {KeyStarts(<<<<"projects">>>>)})

\* Dashboard.add
AddHere(p, s) ==
    Invalidating(Repeatable(Op("add", "dashboard", p, addEntry(p, s))), {Url(p, <<"sections", s>>)})

\* Dashboard.resolve: no key has /sections as its first element
Resolve(p, s) ==
    Invalidating(Repeatable(Op("resolve", "dashboard", p, resolveEntry(p, s))), {Url(p, <<"sections">>)})

\* Dashboard.saveFocus
SaveFocus(p) ==
    Invalidating(Repeatable(Op("focus", "dashboard", p, setFocus(p))),
                 {Url(p, <<"sections", "focus">>), Url(p, <<"briefing">>)})

\* Requirements: add, updateStatus and runSync
RequirementOps(p) ==
    {Invalidating(o, {Url(p, <<"requirements">>)}) :
        o \in {Repeatable(Op("add requirement", "requirements", p, addEntry(p, "requirements"))),
               Repeatable(Op("status", "requirements", p, updateEntry(p, "requirements"))),
               Op("sync", "requirements", p, syncRequirements(p))}}

\* CodeIndex.runIndex: the key of the index status is /index
RunIndex(p) ==
    Invalidating(Op("reindex", "index", p, reindex(p)), {Url(p, <<"index-status">>)})

\* invalidatePlanningQueries
PlanningFilters(p) == {Url(p, <<"ready-tasks">>), PathStarts(Project(p, <<"plans">>))}

PlanOp(name, p, call) == Invalidating(Op(name, "plans", p, call), PlanningFilters(p))

\* PlanList
PlanListOps(p) == {PlanOp("create plan", p, createPlan(p))}

\* PlanDetail: the plan and its graph
PlanDetailOps(p) ==
    {PlanOp("update plan", p, updatePlan(p, "n")),
     PlanOp("archive", p, archivePlan(p, "n")),
     PlanOp("activate", p, activatePlan(p, "n")),
     PlanOp("complete plan", p, completePlan(p, "n")),
     PlanOp("add task", p, addPlanTask(p, "n")),
     PlanOp("add dependency", p, addTaskDependency(p, "n"))}

\* PlanDetail: its tasks.  The buttons of the cards are disabled per card, and
\* one hook serves all cards.
TaskOps(p) ==
    {PlanOp("claim", p, claimTask(p, "n", "t"))}
    \cup {Repeatable(PlanOp(c[1], p, c[2])) :
            c \in {<<"heartbeat", heartbeatTask(p, "n", "t")>>,
                   <<"release", releaseTask(p, "n", "t")>>,
                   <<"set status", setTaskStatus(p, "n", "t")>>,
                   <<"complete task", completeTask(p, "n", "t")>>}}

\* copyPrompt: nothing of the plan changes
CopyPrompt(p) == Repeatable(Op("prompt", "plans", p, preparePlanTaskPrompt(p)))

\* A draft changes nothing at the server.
generate(p) == Op("generate draft", "plans", p, generatePlanDraft(p))
approve(p) == PlanOp("approve draft", p, createPlanWithTasks(p))

\* Closing the dialog unmounts it.
AiPlanDraftModal(p) == {[o EXCEPT !.dialog = "aiDraft"] : o \in {generate(p), approve(p)}}

\* AISettings.onSaved, with the answer of either card
SaveAiSettings(card) ==
    [Op(card, "ai", "none", updateAiSettings) EXCEPT !.writesLast = {QueryKey(getAiSettings)}]

ProjectOps(p) ==
    {DeleteHere(p), SaveFocus(p), RunIndex(p), CopyPrompt(p)}
    \cup {AddHere(p, s) : s \in EntrySections} \cup {Resolve(p, s) : s \in EntrySections}
    \cup RequirementOps(p) \cup AiPlanDraftModal(p)
    \cup PlanListOps(p) \cup PlanDetailOps(p) \cup TaskOps(p)

AllOps == HomeOps \cup {SaveAiSettings(card) : card \in {"embedding", "summary"}}
       \cup UNION {ProjectOps(p) : p \in Projects}

-----------------------------------------------------------------------------

\* The data an operation changes on its own page and leaves on the screen as
\* they were, until the page is opened again, refreshed or focused.
Forgotten(o, x) ==
    \/ o.view = "dashboard" /\ x = Cached(listProjects)
    \/ o.name = "add" /\ x = Cached(getBriefing(o.project))
    \/ o.name = "resolve" /\ o.view = "dashboard"
    \/ o.view = "requirements" /\ x = Cached(reviewRequirementCompliance(o.project, {"ids"}))
    \/ o.name = "reindex"
    \/ o.view = "ai"

=============================================================================
