----------------------------- MODULE PlanAudit -----------------------------
(* The audit history of planning/service.py: module PlanTasks with the events
   _append_task_event adds to plan_task_events, in the same transaction as the
   change they record (D21, FR48).

   Of the append-only log of a task only what a reader of the whole log would
   conclude is kept: the status its last event leaves, and whether every event
   so far started from the status the one before had left.                  *)
EXTENDS PlanTasks, Sequences

\* There are finitely many task ids, so a request can be counted.
ASSUME AuditAssumption == IsFiniteSet(Tasks)

VARIABLES
    trail,  \* trail[t].new: new_status of the last event of t ("none": no event);
            \* trail[t].linked: each old_status was the new_status before it
    logged  \* the tasks for which the last step appended an event

auditVars == <<vars, trail, logged>>

AuditInit ==
    /\ Init
    /\ trail = [t \in Tasks |-> [new |-> "none", linked |-> TRUE]]
    /\ logged = {}

-----------------------------------------------------------------------------
(* An event is <<old_status, new_status>>.                                  *)

Linked(from, events) ==
    /\ events[1][1] = from
    /\ \A i \in 2..Len(events) : events[i][1] = events[i - 1][2]

\* The step appends the events ev[t], in order, to each task t of ev's domain.
Log(ev) ==
    /\ logged' = DOMAIN ev
    /\ trail' = [t \in Tasks |->
                   IF t \in DOMAIN ev
                     THEN [new |-> ev[t][Len(ev[t])][2],
                           linked |-> trail[t].linked /\ Linked(trail[t].new, ev[t])]
                     ELSE trail[t]]

\* One event for each task of T, from its status to what New gives for it.
LogEach(T, New(_)) == Log([t \in T |-> <<<<status[t], New(t)>>>>])
LogOne(t, s) == LogEach({t}, LAMBDA u : s)
LogNothing == trail' = trail /\ logged' = {}

-----------------------------------------------------------------------------
(* Each operation with its events.                                          *)

\* create_plan_with_tasks: "created", then one "dependency_added" per edge
CreatePlanWithTasksLogged(p, T, E) ==
    /\ CreatePlanWithTasks(p, T, E)
    /\ Log([t \in T |->
             <<<<"none", "pending">>>>
               \o [i \in 1..Cardinality({e \in E : e[1] = t}) |-> <<"pending", "pending">>]])

ActivatePlanLogged(p) ==
    /\ ActivatePlan(p)
    /\ LogEach({t \in TasksIn(p) : status[t] = "pending" /\ Prereqs(t) = {}},
               LAMBDA t : "ready")

\* archive_plan: "cancelled" for every task that is not completed, the already
\* cancelled ones included
ArchivePlanLogged(p) ==
    /\ ArchivePlan(p)
    /\ LogEach({t \in TasksIn(p) : status[t] # "completed"}, LAMBDA t : "cancelled")

AddPlanTaskLogged(p, t) ==
    /\ AddPlanTask(p, t)
    /\ LogOne(t, status'[t])

\* The demotion of a ready task leaves no event of its own.
AddTaskDependencyLogged_NoDemotionEvent(t, d) ==
    /\ AddTaskDependency(t, d)
    /\ Log([u \in {t} |-> <<<<status'[t], status'[t]>>>>])

\* add_task_dependency: "status_changed" if the task goes back to pending, then
\* "dependency_added"
AddTaskDependencyLogged(t, d) ==
    /\ AddTaskDependency(t, d)
    /\ Log([u \in {t} |->
             IF status'[t] # status[t]
               THEN <<<<status[t], status'[t]>>, <<status'[t], status'[t]>>>>
               ELSE <<<<status[t], status[t]>>>>])

\* update_plan_task: the descriptive fields change, nothing of PlanTasks does
UpdatePlanTaskLogged(t, k) ==
    /\ PlanOpen(t)
    /\ LeaseAdmits(t, k)
    /\ UNCHANGED vars
    /\ LogOne(t, status[t])

\* set_task_status to the status the task already has
SameStatusLogged(t, k) ==
    /\ PlanOpen(t)
    /\ LeaseAdmits(t, k)
    /\ UNCHANGED vars
    /\ LogOne(t, status[t])

\* Only the completed task gets an event, the tasks it unlocks do not.
CompleteTaskLogged_NoUnlockEvents(a, t, k) ==
    /\ CompleteTask(a, t, k)
    /\ LogOne(t, "completed")

\* complete_task: "completed", and "status_changed" for each unlocked task
CompleteTaskLogged(a, t, k) ==
    /\ CompleteTask(a, t, k)
    /\ LogEach({t} \cup Unlocked(t), LAMBDA u : IF u = t THEN "completed" ELSE "ready")

\* The operations that change one task and append one event for it.
OneTaskOperation(a, t) ==
    \/ \E k \in Tokens, secs \in 1..MaxLease :
        \/ ClaimTask(a, t, k, secs)
        \/ ClaimTaskResponseLost(a, t, k, secs)
    \/ \E k \in known[a], secs \in 1..MaxLease : HeartbeatTask(t, k, secs)
    \/ \E k \in known[a] : ReleaseTask(t, k)
    \/ \E k \in TokenArg(a) :
        \/ \E s \in {"in_progress", "in_review"} : AdvanceTask(t, k, s)
        \/ BlockTask(t, k)
        \/ UnblockTask(t, k)
        \/ CancelTask(t, k)

AuditNext ==
    \/ \E p \in Plans :
        \/ CreatePlan(p) /\ LogNothing
        \/ CompletePlan(p) /\ LogNothing
        \/ ActivatePlanLogged(p)
        \/ ArchivePlanLogged(p)
    \/ \E p \in Plans, T \in SUBSET Tasks : \E E \in SUBSET (T \X T) :
        CreatePlanWithTasksLogged(p, T, E)
    \/ \E p \in Plans, t \in Tasks : AddPlanTaskLogged(p, t)
    \/ \E t, d \in Tasks : AddTaskDependencyLogged(t, d)
    \/ \E a \in Agents, t \in Tasks :
        \/ OneTaskOperation(a, t) /\ LogOne(t, status'[t])
        \/ \E k \in TokenArg(a) :
            \/ UpdatePlanTaskLogged(t, k)
            \/ SameStatusLogged(t, k)
            \/ CompleteTaskLogged(a, t, k)
    \/ Tick /\ LogNothing
    \/ \E a \in Agents : (Crash(a) \/ DropStaleTokens(a)) /\ LogNothing

AuditSpec == AuditInit /\ [][AuditNext]_auditVars

-----------------------------------------------------------------------------
(* Properties.                                                              *)

\* D21: replaying the history of a task gives its status, and the history has
\* no gap: each event starts where the one before it ended, also where one
\* operation appends several events or changes several tasks.
HistoryReplays ==
    \A t \in Tasks : trail[t].linked /\ trail[t].new = status[t]

RowChanged(t) ==
    \/ status'[t] # status[t]
    \/ tokenHash'[t] # tokenHash[t]
    \/ claimedBy'[t] # claimedBy[t]

\* No change of a task's row goes without an event, other than the claimant
\* that archive_plan erases from a completed task.
MutationsLogged ==
    [][\A t \in Tasks :
         RowChanged(t) =>
           \/ t \in logged'
           \/ /\ status[t] = "completed"
              /\ planStatus'[planOf[t]] = "archived"]_auditVars

\* D20, for every kind of mutation: while the token of an active lease is in
\* nobody's hands, the history of the task does not grow, updates of its
\* fields and repeated statuses included, unless the plan is archived.
OrphanedLeaseSilent ==
    [][\A t \in Tasks :
         lease[t] > 0 /\ (\A a \in Agents : tokenHash[t] \notin known[a]) /\ t \in logged'
           => planStatus'[planOf[t]] = "archived"]_auditVars

=============================================================================
