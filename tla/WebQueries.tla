----------------------------- MODULE WebQueries -----------------------------
(* The web dashboard (src/web): the functions of api/client.ts, the keys of
   api/queryKeys.ts, the queries each view shows, and the mutations of hooks/
   with the invalidations of their onSuccess.                                *)
EXTENDS QueryClient

CONSTANT Projects

-----------------------------------------------------------------------------
(* api/client.ts.  p is a project, the other parameters are ids.            *)

getHealth == Get(<<"health">>)
getAiSettings == Get(<<"admin", "ai-settings">>)
updateAiSettings == Request("PATCH", <<"admin", "ai-settings">>)
listProjects == Get(<<"projects">>)
registerProject == Post(<<"projects">>)
getBriefing(p) == Get(Project(p, <<"briefing">>))
exportProjectContext(p) == GetWith(Project(p, <<"export">>), {"format"})
getSection(p, section) == Get(Project(p, <<"sections", section>>))
addEntry(p, section) == [Post(Project(p, <<"entries">>)) EXCEPT !.section = section]
updateEntry(p, entry) == Request("PATCH", Project(p, <<"entries", entry>>))
resolveEntry(p, entry) == Post(Project(p, <<"entries", entry, "resolve">>))
\* The method of the entry functions.
setFocus_Post(p) == Post(Project(p, <<"focus">>))

setFocus(p) == Request("PUT", Project(p, <<"focus">>))

listRequirements(p) == Get(Project(p, <<"requirements">>))
getRequirementContract(p, r) == Get(Project(p, <<"requirements", r, "contract">>))
createRequirementInvariant(p, r) == Post(Project(p, <<"requirements", r, "invariants">>))
updateRequirementInvariant(p, i) ==
    Request("PATCH", Project(p, <<"requirements", "invariants", i>>))
deleteRequirementInvariant(p, i) ==
    Request("DELETE", Project(p, <<"requirements", "invariants", i>>))
createAcceptanceCriterion(p, i) ==
    Post(Project(p, <<"requirements", "invariants", i, "criteria">>))
updateAcceptanceCriterion(p, c) ==
    Request("PATCH", Project(p, <<"requirements", "criteria", c>>))
deleteAcceptanceCriterion(p, c) ==
    Request("DELETE", Project(p, <<"requirements", "criteria", c>>))
getRequirementEvidence(p, r) == Get(Project(p, <<"requirements", r, "evidence">>))
reviewRequirementCompliance(p, ids) ==
    GetWith(Project(p, <<"requirements", "compliance">>), ids)
syncRequirements(p) == Post(Project(p, <<"requirements", "sync">>))

getIndexStatus(p) == Get(Project(p, <<"index">>))
reindex(p) == Post(Project(p, <<"reindex">>))
getCodeMap(p, params) == GetWith(Project(p, <<"code-map">>), params)
getSource(p) == GetWith(Project(p, <<"source">>), {"path"})
searchCode(p) == GetWith(Project(p, <<"search">>), {"q", "limit"})

\* Every request this client can make
Calls(p) ==
    {getHealth, getAiSettings, updateAiSettings, listProjects, registerProject,
     getBriefing(p), exportProjectContext(p), setFocus(p), listRequirements(p),
     getRequirementContract(p, "r"), createRequirementInvariant(p, "r"),
     updateRequirementInvariant(p, "i"), deleteRequirementInvariant(p, "i"),
     createAcceptanceCriterion(p, "i"), updateAcceptanceCriterion(p, "c"),
     deleteAcceptanceCriterion(p, "c"), getRequirementEvidence(p, "r"),
     reviewRequirementCompliance(p, {"ids"}), syncRequirements(p), getIndexStatus(p),
     reindex(p), getCodeMap(p, {}), getSource(p), searchCode(p)}
    \cup UNION {{getSection(p, s), addEntry(p, s), updateEntry(p, s), resolveEntry(p, s)} :
                  s \in Sections}

-----------------------------------------------------------------------------
(* Each query with its key (queryKeys) and its loader (hooks/).             *)

projects == Query(<<"projects">>, listProjects)
aiSettings == Query(<<"admin", "ai-settings">>, getAiSettings)
briefing(p) == Query(<<"briefing", p>>, getBriefing(p))
section(p, s) == Query(<<"section", p, s>>, getSection(p, s))
requirements(p) == Query(<<"requirements", p>>, listRequirements(p))

\* useRequirementCompliance: batches of 25 ids, together one query
requirementCompliance(p) ==
    Query(<<"requirement-compliance", p, "ids">>, reviewRequirementCompliance(p, {"ids"}))

requirementContract(p) ==
    Query(<<"requirement-contract", p, "r">>, getRequirementContract(p, "r"))
requirementEvidence(p) ==
    Query(<<"requirement-evidence", p, "r">>, getRequirementEvidence(p, "r"))
indexStatus(p) == Query(<<"index", p>>, getIndexStatus(p))
codeMap(p, scope) ==
    Query(<<"code-map", p, scope>>, getCodeMap(p, IF scope = "root" THEN {} ELSE {"scope"}))
codeMapDoc(p) == Query(<<"code-map-doc", p>>, getCodeMap(p, {"depth"}))
source(p) == Query(<<"source", p, "path">>, getSource(p))
search(p) == Query(<<"search", p, "q">>, searchCode(p))

\* isRefreshable
isRefreshable(x, p, includeGlobal) ==
    \/ includeGlobal /\ x = aiSettings
    \/ p # "none" /\ (x = projects \/ (Len(x.key) >= 2 /\ x.key[2] = p))

-----------------------------------------------------------------------------
(* The mutations of hooks/.                                                 *)

EntrySections == {"blockers", "bugs", "conventions", "decisions"}
MapSections == EntrySections \cup {"overview", "focus"}

Keys(S) == {KeyStarts(x.key) : x \in S}

\* invalidate, in useEntryMutations
EntryFilters(p, s) == Keys({section(p, s), briefing(p), requirements(p)})

\* useEntryMutations, which each panel of the dashboard has for itself
EntryOp(name, p, s, call) ==
    [Invalidating(Op(name, "dashboard", p, call), EntryFilters(p, s)) EXCEPT !.part = s]

useSetFocus(p) ==
    Invalidating(Op("focus", "dashboard", p, setFocus(p)),
                 Keys({section(p, "focus"), projects, briefing(p)}))

useRequirementMutations(p) ==
    {Invalidating(o, Keys({requirements(p), section(p, "requirements"), briefing(p)})) :
        o \in {Op("add", "requirements", p, addEntry(p, "requirements")),
               Op("setStatus", "requirements", p, updateEntry(p, "requirements")),
               Op("sync", "requirements", p, syncRequirements(p))}}

\* incremental is false in a "full" one.
useReindex(name, view, p) ==
    [Op(name, view, p, reindex(p)) EXCEPT !.hook = "reindex",
        !.writesFirst = {indexStatus(p).key},
        !.invalidates = Keys({indexStatus(p)} \cup IF name = "full" THEN {aiSettings} ELSE {})]

\* The new project is appended after the invalidation.
useRegisterProject ==
    [Op("register", "home", "none", registerProject) EXCEPT
        !.invalidates = Keys({projects}), !.amends = {projects.key}]

\* The submit of either settings form, which has no hook
SubmitSettings(form) ==
    [Op(form, "ai", "none", updateAiSettings) EXCEPT !.writesLast = {aiSettings.key}]

-----------------------------------------------------------------------------
(* The components: the queries each shows and the operations it offers.     *)

Component(shows, offers) == [shows |-> shows, offers |-> offers]
Together(parts) ==
    Component(UNION {c.shows : c \in parts}, UNION {c.offers : c \in parts})

\* In every view; useProject of App reads the same list.
ProjectPicker == Component({projects}, {})
ProjectList == Component({projects}, {})
RegisterForm == Component({}, {useRegisterProject})
ProjectsView == Together({ProjectList, RegisterForm})

\* A filled-in form hands its entry to the mutation of the panel around it.
EntryForm(op) == Component({}, {op})

\* An entry that is open
EntryCard(p, s) ==
    Together({EntryForm(EntryOp("update", p, s, updateEntry(p, s))),
              Component({}, {EntryOp("resolve", p, s, resolveEntry(p, s))})})

OverviewPanel(p) ==
    Together({Component({section(p, "overview")}, {}),
              EntryForm(EntryOp("update", p, "overview", updateEntry(p, "overview")))})

FocusPanel(p) == Together({Component({section(p, "focus")}, {}), EntryForm(useSetFocus(p))})

SectionPanel(p, s) ==
    Together({Component({section(p, s)}, {}), EntryForm(EntryOp("add", p, s, addEntry(p, s))),
              EntryCard(p, s)})

\* The assembled briefing; exporting changes nothing here or there.
DashboardView(p) ==
    Together({Component({briefing(p)}, {}), OverviewPanel(p), FocusPanel(p)}
             \cup {SectionPanel(p, s) : s \in EntrySections})

\* Detail, in an expanded RequirementComplianceRow
Detail(p) == Component({requirementContract(p), requirementEvidence(p)}, {})

RequirementComplianceRow(p, opened) ==
    IF opened = "row" THEN Detail(p) ELSE Component({}, {})

\* The mutations are the view's, the control of a row's status included.
RequirementsView(p, opened) ==
    Together({Component({requirements(p), requirementCompliance(p)}, useRequirementMutations(p)),
              RequirementComplianceRow(p, opened)})

IndexView(p) ==
    Component({indexStatus(p)},
              {useReindex("incremental", "index", p), useReindex("full", "index", p)})

SearchPanel(p, opened) == Component(IF opened = "search" THEN {search(p)} ELSE {}, {})

\* Of a selected file
NodeInspector(p) == Component({codeMap(p, "path"), source(p)}, {})

\* The map and the entries related to its paths.  The tiers that
\* fetchCodeMapScope loads once are no query anybody observes.
CodeMapData(p) ==
    Component({codeMap(p, "root"), codeMapDoc(p)} \cup {section(p, s) : s \in MapSections}, {})

CodeMapView(p, opened) ==
    Together({CodeMapData(p), SearchPanel(p, opened)}
             \cup IF opened = "file" THEN {NodeInspector(p)} ELSE {})

EmbeddingForm == Component({}, {SubmitSettings("embedding")})
SummaryForm == Component({}, {SubmitSettings("summary")})

\* It has a button once a project is selected.
ReindexControl(p) ==
    Component({projects}, IF p = "none" THEN {} ELSE {useReindex("full", "ai", p)})

AiSettingsView(p) ==
    Together({Component({aiSettings}, {}), EmbeddingForm, SummaryForm, ReindexControl(p)})

-----------------------------------------------------------------------------
(* The places.  The project of the AI settings is the one selected in
   ReindexControl.                                                          *)

AllPlaces ==
    {Place("home", "none", "nothing"), Place("ai", "none", "nothing")}
    \cup {Place(view, p, "nothing") : p \in Projects,
            view \in {"dashboard", "requirements", "index", "code-map", "ai"}}
    \cup {Place("requirements", p, "row") : p \in Projects}
    \cup {Place("code-map", p, o) : p \in Projects, o \in {"file", "search"}}

ViewAt(here) ==
    LET p == here.project o == here.opened IN
    CASE here.view = "home" -> ProjectsView
      [] here.view = "dashboard" -> DashboardView(p)
      [] here.view = "requirements" -> RequirementsView(p, o)
      [] here.view = "index" -> IndexView(p)
      [] here.view = "code-map" -> CodeMapView(p, o)
      [] here.view = "ai" -> AiSettingsView(p)

\* The frame of every view
AppShell(view) == Together({ProjectPicker, view})

AppAt(here) == AppShell(ViewAt(here))

AllQueries == UNION {AppAt(here).shows : here \in AllPlaces}
AllOps == UNION {AppAt(here).offers : here \in AllPlaces}

\* useRefreshAll, for the project of the route
RefreshedAt(x, here) ==
    isRefreshable(x, IF here.view = "ai" THEN "none" ELSE here.project, here.view = "ai")

\* A hook's onSuccess runs in the closure of its last rendering: as that of r,
\* the same operation of another project perhaps.
Rebinds(r, o) == HookOf(r) = HookOf(o) /\ r.name = o.name

-----------------------------------------------------------------------------

\* The data an operation changes on its own view and leaves on the screen as
\* they were, until they are loaded again for some other reason.  The status
\* lines of the project list are refetched by useSetFocus alone, and
\* useRegisterProject takes the mark of an invalidated list away.
Forgotten(o, x) ==
    \/ x = projects
    \/ o.view = "requirements" /\ x = requirementCompliance(o.project)
    \/ x = aiSettings /\ o.call = updateAiSettings

=============================================================================
