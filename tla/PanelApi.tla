------------------------------ MODULE PanelApi ------------------------------
(* The generated client of the control panel (lib/api-client-react/generated/
   api.ts).  For each endpoint it has the URL, the function that sends the
   request, and a hook: useQuery under the key QueryKey for a GET, useMutation
   for the others.  p is a project, the other parameters are ids.            *)
EXTENDS ServerApi

\* get...QueryKey: the URL, and the parameters as a second element if any
QueryKey(r) == IF r.params = {} THEN <<r.path>> ELSE <<r.path, r.params>>

getHealth == Get(<<"health">>)
getAiSettings == Get(<<"admin", "ai-settings">>)
updateAiSettings == Request("PATCH", <<"admin", "ai-settings">>)
listProjects == Get(<<"projects">>)
registerProject == Post(<<"projects">>)
deleteProject(p) == Request("DELETE", Project(p, <<>>))
getBriefing(p) == Get(Project(p, <<"briefing">>))
getSection(p, section, params) == GetWith(Project(p, <<"sections", section>>), params)
addEntry(p, section) == [Post(Project(p, <<"entries">>)) EXCEPT !.section = section]
updateEntry(p, entry) == Request("PATCH", Project(p, <<"entries", entry>>))
resolveEntry(p, entry) == Post(Project(p, <<"entries", entry, "resolve">>))
setFocus(p) == Request("PUT", Project(p, <<"focus">>))

listRequirements(p) == Get(Project(p, <<"requirements">>))
getRequirementContract(p, r) == Get(Project(p, <<"requirements", r, "contract">>))
createRequirementInvariant(p, r) == Post(Project(p, <<"requirements", r, "invariants">>))
updateRequirementInvariant(p, i) ==
    Request("PATCH", Project(p, <<"requirements", "invariants", i>>))
deleteRequirementInvariant(p, i) ==
    Request("DELETE", Project(p, <<"requirements", "invariants", i>>))
createAcceptanceCriterion(p, i) ==
    Post(Project(p, <<"requirements", "invariants", i, "criteria">>))
updateAcceptanceCriterion(p, c) ==
    Request("PATCH", Project(p, <<"requirements", "criteria", c>>))
deleteAcceptanceCriterion(p, c) ==
    Request("DELETE", Project(p, <<"requirements", "criteria", c>>))
getRequirementEvidence(p, r) == Get(Project(p, <<"requirements", r, "evidence">>))
reviewRequirementCompliance(p, ids) ==
    GetWith(Project(p, <<"requirements", "compliance">>), ids)
syncRequirements(p) == Post(Project(p, <<"requirements", "sync">>))

getIndexStatus(p) == Get(Project(p, <<"index">>))
reindex(p) == Post(Project(p, <<"reindex">>))
getCodeMap(p, params) == GetWith(Project(p, <<"code-map">>), params)
getSource(p, params) == GetWith(Project(p, <<"source">>), params)
getCodebaseGuide(p, params) == GetWith(Project(p, <<"codebase-guide">>), params)
searchCode(p, params) == GetWith(Project(p, <<"search">>), params)
getTokenSavingsLog(p, params) == GetWith(Project(p, <<"token-savings">>), params)
getTokenSavingsSummary(p) == Get(Project(p, <<"token-savings", "summary">>))

generatePlanDraft(p) == Post(Project(p, <<"plans", "generate-draft">>))
listPlans(p, params) == GetWith(Project(p, <<"plans">>), params)
createPlan(p) == Post(Project(p, <<"plans">>))
createPlanWithTasks(p) == Post(Project(p, <<"plans", "with-tasks">>))
getPlan(p, n) == Get(Project(p, <<"plans", n>>))
updatePlan(p, n) == Request("PATCH", Project(p, <<"plans", n>>))
archivePlan(p, n) == Post(Project(p, <<"plans", n, "archive">>))
activatePlan(p, n) == Post(Project(p, <<"plans", n, "activate">>))
completePlan(p, n) == Post(Project(p, <<"plans", n, "complete">>))
addPlanTask(p, n) == Post(Project(p, <<"plans", n, "tasks">>))
updatePlanTask(p, n, t) == Request("PATCH", Project(p, <<"plans", n, "tasks", t>>))
addTaskDependency(p, n) == Post(Project(p, <<"plans", n, "dependencies">>))
listReadyTasks(p) == Get(Project(p, <<"ready-tasks">>))
listPlanReadyTasks(p, n) == Get(Project(p, <<"plans", n, "ready-tasks">>))
claimTask(p, n, t) == Post(Project(p, <<"plans", n, "tasks", t, "claim">>))
heartbeatTask(p, n, t) == Post(Project(p, <<"plans", n, "tasks", t, "heartbeat">>))
releaseTask(p, n, t) == Post(Project(p, <<"plans", n, "tasks", t, "release">>))
setTaskStatus(p, n, t) == Post(Project(p, <<"plans", n, "tasks", t, "status">>))
completeTask(p, n, t) == Post(Project(p, <<"plans", n, "tasks", t, "complete">>))
preparePlanTaskPrompt(p) == Post(Project(p, <<"prepare-task">>))
getTaskHistory(p, n, t) == Get(Project(p, <<"plans", n, "tasks", t, "history">>))

\* Every request this client can make
Calls(p) ==
    {getHealth, getAiSettings, updateAiSettings, listProjects, registerProject,
     deleteProject(p), getBriefing(p), setFocus(p), listRequirements(p),
     getRequirementContract(p, "r"), createRequirementInvariant(p, "r"),
     updateRequirementInvariant(p, "i"), deleteRequirementInvariant(p, "i"),
     createAcceptanceCriterion(p, "i"), updateAcceptanceCriterion(p, "c"),
     deleteAcceptanceCriterion(p, "c"), getRequirementEvidence(p, "r"),
     reviewRequirementCompliance(p, {"ids"}), syncRequirements(p), getIndexStatus(p),
     reindex(p), getCodeMap(p, {}), getSource(p, {"path"}), getCodebaseGuide(p, {"scope"}),
     searchCode(p, {"q"}), getTokenSavingsLog(p, {"limit"}), getTokenSavingsSummary(p),
     generatePlanDraft(p), listPlans(p, {}), createPlan(p), createPlanWithTasks(p),
     getPlan(p, "n"), updatePlan(p, "n"), archivePlan(p, "n"), activatePlan(p, "n"),
     completePlan(p, "n"), addPlanTask(p, "n"), updatePlanTask(p, "n", "t"),
     addTaskDependency(p, "n"), listReadyTasks(p), listPlanReadyTasks(p, "n"),
     claimTask(p, "n", "t"), heartbeatTask(p, "n", "t"), releaseTask(p, "n", "t"),
     setTaskStatus(p, "n", "t"), completeTask(p, "n", "t"), preparePlanTaskPrompt(p),
     getTaskHistory(p, "n", "t")}
    \cup {getSection(p, s, {}) : s \in Sections}
    \cup UNION {{addEntry(p, s), updateEntry(p, s), resolveEntry(p, s)} : s \in Sections}

=============================================================================
