----------------------------- MODULE PlanTasks -----------------------------
(* Plan task orchestration: planning/service.py over the tables of
   planning/models.py (plans, plan_tasks, task_dependencies).

   Every operation runs in one database transaction (db/base.py session_scope)
   whose first statement that matters locks the plan row FOR UPDATE, and it
   reads the clock only after its row locks.  The operations of one plan are
   therefore serialised, and one operation is one action.

   Time is relative: lease[t] is the time left until lease_expires_at, so the
   code's  lease_expires_at > now  is  lease[t] > 0  and the boundary
   lease_expires_at == now  is  lease[t] = 0.  Only that comparison is ever
   made, so nothing is lost.

   The row stores the SHA-256 of the claim token.  Two tokens have the same
   hash exactly when they are the same token, so tokenHash[t] holds the token
   whose hash the row stores.                                               *)
EXTENDS Integers, FiniteSets

CONSTANTS
    Plans,      \* plan ids a client may create
    Tasks,      \* task ids a client may create
    Agents,     \* the clients: agents, sessions, people
    Tokens,     \* the values secrets.token_urlsafe may return
    MaxLease,   \* MAX_LEASE_SECONDS, in clock steps
    NoPlan,     \* planOf of a task that was not created yet
    NoAgent,    \* NULL claimed_by
    NoToken     \* NULL claim_token_hash, and an omitted claim_token argument

ASSUME PlanTasksAssumption ==
    /\ MaxLease \in Nat \ {0}
    /\ NoPlan \notin Plans
    /\ NoAgent \notin Agents
    /\ NoToken \notin Tokens

VARIABLES
    planStatus, \* plans.status; "none" before the plan is created
    planOf,     \* plan_tasks.plan_id
    status,     \* plan_tasks.status; "none" before the task is created
    deps,       \* task_dependencies: <<task_id, depends_on_task_id>>
    tokenHash,  \* plan_tasks.claim_token_hash
    claimedBy,  \* plan_tasks.claimed_by
    lease,      \* plan_tasks.lease_expires_at, relative to now; or NoLease
    known       \* known[a]: the claim tokens client a has received and kept

rowVars == <<status, tokenHash, claimedBy, lease>>
vars == <<planStatus, planOf, status, deps, tokenHash, claimedBy, lease, known>>

NoLease == -1
Held == {"claimed", "in_progress", "in_review"}
Terminal == {"completed", "cancelled"}
TaskStatus == {"none", "pending", "ready", "blocked"} \cup Held \cup Terminal
PlanStatus == {"none", "draft", "active", "completed", "archived"}

TypeOK ==
    /\ planStatus \in [Plans -> PlanStatus]
    /\ planOf \in [Tasks -> Plans \cup {NoPlan}]
    /\ status \in [Tasks -> TaskStatus]
    /\ deps \subseteq Tasks \X Tasks
    /\ tokenHash \in [Tasks -> Tokens \cup {NoToken}]
    /\ claimedBy \in [Tasks -> Agents \cup {NoAgent}]
    /\ lease \in [Tasks -> {NoLease} \cup 0..MaxLease]
    /\ known \in [Agents -> SUBSET Tokens]

Init ==
    /\ planStatus = [p \in Plans |-> "none"]
    /\ planOf = [t \in Tasks |-> NoPlan]
    /\ status = [t \in Tasks |-> "none"]
    /\ deps = {}
    /\ tokenHash = [t \in Tasks |-> NoToken]
    /\ claimedBy = [t \in Tasks |-> NoAgent]
    /\ lease = [t \in Tasks |-> NoLease]
    /\ known = [a \in Agents |-> {}]

-----------------------------------------------------------------------------
(* What the operations read.  An operator named X_..., here and below, is X
   with a seeded bug; nothing refers to it.                                 *)

TasksIn(p) == {t \in Tasks : planOf[t] = p}
Prereqs(t) == {d \in Tasks : <<t, d>> \in deps}
PrereqsDone(t) == \A d \in Prereqs(t) : status[d] = "completed"

\* No cycle among the nodes N: every non-empty part of N has a node with no
\* prerequisite in that part.  Module Kahn shows that the queue algorithm of
\* _check_acyclic decides exactly this.
Acyclic(N, E) ==
    \A S \in SUBSET N :
        S # {} => \E n \in S : \A m \in S : <<n, m>> \notin E

\* The plan exists and is not completed or archived: the check that opens
\* every operation on a task.
PlanOpen(t) ==
    /\ planOf[t] # NoPlan
    /\ planStatus[planOf[t]] \in {"draft", "active"}

HasActiveLease(t) == lease[t] # NoLease /\ lease[t] > 0 /\ tokenHash[t] # NoToken
HasExpiredLease(t) == lease[t] # NoLease /\ lease[t] <= 0

\* The token is compared only when one is presented.
LeaseAdmits_TokenOptional(t, k) ==
    /\ HasActiveLease(t) => k \in {tokenHash[t], NoToken}
    /\ HasExpiredLease(t) => k = NoToken

\* The lease check of set_task_status and update_plan_task: an active lease
\* needs its token, an expired one refuses any token, and without a lease the
\* argument is not looked at.
LeaseAdmits(t, k) ==
    /\ HasActiveLease(t) => k = tokenHash[t]
    /\ HasExpiredLease(t) => k = NoToken

\* The check of heartbeat_task and release_task: the current token of an
\* unexpired lease.
HoldsLease(t, k) ==
    /\ tokenHash[t] # NoToken
    /\ lease[t] # NoLease
    /\ lease[t] > 0
    /\ k = tokenHash[t]

\* What claim_task demands of the task row.
ClaimAllowed(t) ==
    /\ planOf[t] # NoPlan
    /\ planStatus[planOf[t]] = "active"
    /\ status[t] \notin Terminal \cup {"blocked", "pending"}
    /\ PrereqsDone(t)
    /\ \/ status[t] = "ready"
       \/ status[t] \in Held /\ ~(lease[t] # NoLease /\ lease[t] > 0)

\* What complete_task demands of the task row and of the token.
CompleteAllowed(t, k) ==
    /\ PlanOpen(t)
    /\ status[t] \in Held
    /\ LeaseAdmits(t, k)
    /\ HasExpiredLease(t) => status[t] = "in_review"

\* An expired review is not offered again.
ListReady_NoReview ==
    {t \in Tasks :
        /\ planOf[t] # NoPlan
        /\ planStatus[planOf[t]] = "active"
        /\ PrereqsDone(t)
        /\ \/ status[t] = "ready"
           \/ status[t] \in {"claimed", "in_progress"} /\ HasExpiredLease(t)}

\* list_ready_tasks: the tasks offered to a worker.
ListReady ==
    {t \in Tasks :
        /\ planOf[t] # NoPlan
        /\ planStatus[planOf[t]] = "active"
        /\ status[t] \notin Terminal \cup {"blocked"}
        /\ PrereqsDone(t)
        /\ \/ status[t] = "ready"
           \/ status[t] \in Held /\ HasExpiredLease(t)}

\* A new random token differs from every token that is still stored in a row
\* or still known to somebody.
Fresh ==
    Tokens \ ((UNION {known[a] : a \in Agents}) \cup {tokenHash[t] : t \in Tasks})

-----------------------------------------------------------------------------
(* Writes to one task row.                                                  *)

WriteRow(t, s, h, c, l) ==
    /\ status' = [status EXCEPT ![t] = s]
    /\ tokenHash' = [tokenHash EXCEPT ![t] = h]
    /\ claimedBy' = [claimedBy EXCEPT ![t] = c]
    /\ lease' = [lease EXCEPT ![t] = l]

\* The token argument of a call by client a: omitted, or one it has kept.
TokenArg(a) == known[a] \cup {NoToken}

-----------------------------------------------------------------------------
(* Plans.                                                                   *)

\* create_plan
CreatePlan(p) ==
    /\ planStatus[p] = "none"
    /\ planStatus' = [planStatus EXCEPT ![p] = "draft"]
    /\ UNCHANGED <<planOf, deps, known, rowVars>>

\* create_plan_with_tasks: tasks T and dependencies E in one transaction
CreatePlanWithTasks(p, T, E) ==
    /\ planStatus[p] = "none"
    /\ T # {}
    /\ \A t \in T : planOf[t] = NoPlan
    /\ E \subseteq T \X T
    /\ Acyclic(T, E)
    /\ planStatus' = [planStatus EXCEPT ![p] = "draft"]
    /\ planOf' = [t \in Tasks |-> IF t \in T THEN p ELSE planOf[t]]
    /\ status' = [t \in Tasks |-> IF t \in T THEN "pending" ELSE status[t]]
    /\ deps' = deps \cup E
    /\ UNCHANGED <<tokenHash, claimedBy, lease, known>>

\* activate_plan: the tasks without a dependency become ready
ActivatePlan(p) ==
    /\ planStatus[p] = "draft"
    /\ planStatus' = [planStatus EXCEPT ![p] = "active"]
    /\ status' = [t \in Tasks |->
                    IF planOf[t] = p /\ status[t] = "pending" /\ Prereqs(t) = {}
                      THEN "ready" ELSE status[t]]
    /\ UNCHANGED <<planOf, deps, tokenHash, claimedBy, lease, known>>

\* archive_plan: revokes the leases of all tasks of the plan and cancels the
\* ones that are not completed
ArchivePlan(p) ==
    /\ planStatus[p] \notin {"none", "archived"}
    /\ planStatus' = [planStatus EXCEPT ![p] = "archived"]
    /\ status' = [t \in Tasks |->
                    IF planOf[t] = p /\ status[t] # "completed"
                      THEN "cancelled" ELSE status[t]]
    /\ tokenHash' = [t \in Tasks |-> IF planOf[t] = p THEN NoToken ELSE tokenHash[t]]
    /\ claimedBy' = [t \in Tasks |-> IF planOf[t] = p THEN NoAgent ELSE claimedBy[t]]
    /\ lease' = [t \in Tasks |-> IF planOf[t] = p THEN NoLease ELSE lease[t]]
    /\ UNCHANGED <<planOf, deps, known>>

\* complete_plan
CompletePlan(p) ==
    /\ planStatus[p] = "active"
    /\ \A t \in TasksIn(p) : status[t] \in Terminal
    /\ planStatus' = [planStatus EXCEPT ![p] = "completed"]
    /\ UNCHANGED <<planOf, deps, known, rowVars>>

-----------------------------------------------------------------------------
(* Tasks and dependencies.                                                  *)

\* The plan's status is not checked again under its lock.
AddPlanTask_NoStatusCheck(p, t) ==
    /\ planStatus[p] # "none"
    /\ planOf[t] = NoPlan
    /\ planOf' = [planOf EXCEPT ![t] = p]
    /\ status' = [status EXCEPT ![t] =
                    IF planStatus[p] = "active" THEN "ready" ELSE "pending"]
    /\ UNCHANGED <<planStatus, deps, tokenHash, claimedBy, lease, known>>

\* add_plan_task
AddPlanTask(p, t) ==
    /\ planStatus[p] \in {"draft", "active"}
    /\ planOf[t] = NoPlan
    /\ planOf' = [planOf EXCEPT ![t] = p]
    /\ status' = [status EXCEPT ![t] =
                    IF planStatus[p] = "active" THEN "ready" ELSE "pending"]
    /\ UNCHANGED <<planStatus, deps, tokenHash, claimedBy, lease, known>>

\* The cycle check sees the stored edges only, without the new one.
AddTaskDependency_OldEdges(t, d) ==
    /\ t # d
    /\ PlanOpen(t)
    /\ status[t] \in {"pending", "ready"}
    /\ planOf[d] = planOf[t]
    /\ <<t, d>> \notin deps
    /\ Acyclic(TasksIn(planOf[t]), deps)
    /\ deps' = deps \cup {<<t, d>>}
    /\ status' = [status EXCEPT ![t] =
                    IF @ = "ready" /\ status[d] # "completed" THEN "pending" ELSE @]
    /\ UNCHANGED <<planStatus, planOf, tokenHash, claimedBy, lease, known>>

\* A ready task stays ready whatever it is made to depend on.
AddTaskDependency_NoDemotion(t, d) ==
    /\ t # d
    /\ PlanOpen(t)
    /\ status[t] \in {"pending", "ready"}
    /\ planOf[d] = planOf[t]
    /\ Acyclic(TasksIn(planOf[t]), deps \cup {<<t, d>>})
    /\ deps' = deps \cup {<<t, d>>}
    /\ UNCHANGED <<planStatus, planOf, known, rowVars>>

\* The status of the dependent task is not checked.
AddTaskDependency_AnyStatus(t, d) ==
    /\ t # d
    /\ PlanOpen(t)
    /\ planOf[d] = planOf[t]
    /\ Acyclic(TasksIn(planOf[t]), deps \cup {<<t, d>>})
    /\ deps' = deps \cup {<<t, d>>}
    /\ status' = [status EXCEPT ![t] =
                    IF @ = "ready" /\ status[d] # "completed" THEN "pending" ELSE @]
    /\ UNCHANGED <<planStatus, planOf, tokenHash, claimedBy, lease, known>>

\* add_task_dependency: a ready task whose new prerequisite is not completed
\* goes back to pending
AddTaskDependency(t, d) ==
    /\ t # d
    /\ PlanOpen(t)
    /\ status[t] \in {"pending", "ready"}
    /\ planOf[d] = planOf[t]
    /\ <<t, d>> \notin deps
    /\ Acyclic(TasksIn(planOf[t]), deps \cup {<<t, d>>})
    /\ deps' = deps \cup {<<t, d>>}
    /\ status' = [status EXCEPT ![t] =
                    IF @ = "ready" /\ status[d] # "completed" THEN "pending" ELSE @]
    /\ UNCHANGED <<planStatus, planOf, tokenHash, claimedBy, lease, known>>

-----------------------------------------------------------------------------
(* Claims and leases.                                                       *)

\* A reclaim hands out the stored token again.
ClaimRow_KeepsToken(a, t, k, secs) ==
    /\ ClaimAllowed(t)
    /\ IF tokenHash[t] = NoToken THEN k \in Fresh ELSE k = tokenHash[t]
    /\ WriteRow(t, "claimed", k, a, secs)
    /\ UNCHANGED <<planStatus, planOf, deps>>

\* claim_task: the committed row, with a new token and a lease of secs
ClaimRow(a, t, k, secs) ==
    /\ ClaimAllowed(t)
    /\ k \in Fresh
    /\ WriteRow(t, "claimed", k, a, secs)
    /\ UNCHANGED <<planStatus, planOf, deps>>

\* claim_task whose response, the only copy of the token, reaches the client
ClaimTask(a, t, k, secs) ==
    /\ ClaimRow(a, t, k, secs)
    /\ known' = [known EXCEPT ![a] = @ \cup {k}]

\* claim_task whose response is lost after the commit
ClaimTaskResponseLost(a, t, k, secs) ==
    /\ ClaimRow(a, t, k, secs)
    /\ UNCHANGED known

\* The new lease is added to what is left of the old one.
HeartbeatTask_Adds(t, k, secs) ==
    /\ PlanOpen(t)
    /\ HoldsLease(t, k)
    /\ lease' = [lease EXCEPT ![t] = @ + secs]
    /\ UNCHANGED <<planStatus, planOf, status, deps, tokenHash, claimedBy, known>>

\* Any client may renew any active lease.
HeartbeatTask_AnyToken(t, k, secs) ==
    /\ PlanOpen(t)
    /\ HasActiveLease(t)
    /\ lease' = [lease EXCEPT ![t] = secs]
    /\ UNCHANGED <<planStatus, planOf, status, deps, tokenHash, claimedBy, known>>

\* heartbeat_task: the lease runs from now, whatever was left of it
HeartbeatTask(t, k, secs) ==
    /\ PlanOpen(t)
    /\ HoldsLease(t, k)
    /\ lease' = [lease EXCEPT ![t] = secs]
    /\ UNCHANGED <<planStatus, planOf, status, deps, tokenHash, claimedBy, known>>

\* release_task
ReleaseTask(t, k) ==
    /\ PlanOpen(t)
    /\ HoldsLease(t, k)
    /\ status[t] \in {"claimed", "in_progress"}
    /\ WriteRow(t, "ready", NoToken, NoAgent, NoLease)
    /\ UNCHANGED <<planStatus, planOf, deps, known>>

-----------------------------------------------------------------------------
(* set_task_status, one action per target status ("completed" is handed to
   complete_task).                                                          *)

\* set_task_status to in_progress or in_review: the lease stays as it is
AdvanceTask(t, k, s) ==
    /\ PlanOpen(t)
    /\ LeaseAdmits(t, k)
    /\ \/ s = "in_progress" /\ status[t] = "claimed"
       \/ s = "in_review" /\ status[t] = "in_progress"
    /\ status' = [status EXCEPT ![t] = s]
    /\ UNCHANGED <<planStatus, planOf, deps, tokenHash, claimedBy, lease, known>>

\* The lease columns survive.
BlockTask_KeepsLease(t, k) ==
    /\ PlanOpen(t)
    /\ LeaseAdmits(t, k)
    /\ status[t] \in {"claimed", "in_progress"}
    /\ status' = [status EXCEPT ![t] = "blocked"]
    /\ UNCHANGED <<planStatus, planOf, deps, tokenHash, claimedBy, lease, known>>

\* set_task_status to blocked
BlockTask(t, k) ==
    /\ PlanOpen(t)
    /\ LeaseAdmits(t, k)
    /\ status[t] \in {"claimed", "in_progress"}
    /\ WriteRow(t, "blocked", NoToken, NoAgent, NoLease)
    /\ UNCHANGED <<planStatus, planOf, deps, known>>

\* set_task_status to ready
UnblockTask(t, k) ==
    /\ PlanOpen(t)
    /\ LeaseAdmits(t, k)
    /\ status[t] = "blocked"
    /\ status' = [status EXCEPT ![t] = "ready"]
    /\ UNCHANGED <<planStatus, planOf, deps, tokenHash, claimedBy, lease, known>>

\* set_task_status to cancelled
CancelTask(t, k) ==
    /\ PlanOpen(t)
    /\ LeaseAdmits(t, k)
    /\ status[t] \notin Terminal
    /\ WriteRow(t, "cancelled", NoToken, NoAgent, NoLease)
    /\ UNCHANGED <<planStatus, planOf, deps, known>>

\* The prerequisites are read before the completion of t is flushed.
Unlocked_BeforeFlush(t) ==
    {u \in Tasks : <<u, t>> \in deps /\ status[u] = "pending" /\ PrereqsDone(u)}

\* The pending dependents of t that have no other incomplete prerequisite.
Unlocked(t) ==
    {u \in Tasks :
        /\ <<u, t>> \in deps
        /\ status[u] = "pending"
        /\ \A d \in Prereqs(u) : d = t \/ status[d] = "completed"}

\* complete_task by client a, with the dependents it makes ready
CompleteTask(a, t, k) ==
    /\ CompleteAllowed(t, k)
    /\ status' = [u \in Tasks |->
                    IF u = t THEN "completed"
                    ELSE IF u \in Unlocked(t) THEN "ready" ELSE status[u]]
    /\ tokenHash' = [tokenHash EXCEPT ![t] = NoToken]
    /\ claimedBy' = [claimedBy EXCEPT ![t] = a]
    /\ lease' = [lease EXCEPT ![t] = NoLease]
    /\ UNCHANGED <<planStatus, planOf, deps, known>>

-----------------------------------------------------------------------------
(* The environment.                                                         *)

\* One step of the clock.
Tick ==
    /\ \E t \in Tasks : lease[t] > 0
    /\ lease' = [t \in Tasks |-> IF lease[t] > 0 THEN lease[t] - 1 ELSE lease[t]]
    /\ UNCHANGED <<planStatus, planOf, status, deps, tokenHash, claimedBy, known>>

\* Client a crashes or restarts: the tokens it held are gone for good, since
\* no read operation returns one.
Crash(a) ==
    /\ known[a] # {}
    /\ known' = [known EXCEPT ![a] = {}]
    /\ UNCHANGED <<planStatus, planOf, deps, rowVars>>

\* Client a throws away the tokens that are no longer current (it released or
\* completed the task, or was answered StaleClaimTokenError).
DropStaleTokens(a) ==
    /\ \E k \in known[a] : \A t \in Tasks : tokenHash[t] # k
    /\ known' = [known EXCEPT ![a] = @ \cap {tokenHash[t] : t \in Tasks}]
    /\ UNCHANGED <<planStatus, planOf, deps, rowVars>>

PlanNext ==
    \/ \E p \in Plans :
        \/ CreatePlan(p)
        \/ ActivatePlan(p)
        \/ ArchivePlan(p)
        \/ CompletePlan(p)
    \/ \E p \in Plans, T \in SUBSET Tasks : \E E \in SUBSET (T \X T) :
        CreatePlanWithTasks(p, T, E)
    \/ \E p \in Plans, t \in Tasks : AddPlanTask(p, t)
    \/ \E t, d \in Tasks : AddTaskDependency(t, d)

WorkNext ==
    \E a \in Agents, t \in Tasks :
        \/ \E k \in Tokens, secs \in 1..MaxLease :
            \/ ClaimTask(a, t, k, secs)
            \/ ClaimTaskResponseLost(a, t, k, secs)
        \/ \E k \in known[a], secs \in 1..MaxLease : HeartbeatTask(t, k, secs)
        \/ \E k \in known[a] : ReleaseTask(t, k)
        \/ \E k \in TokenArg(a) :
            \/ \E s \in {"in_progress", "in_review"} : AdvanceTask(t, k, s)
            \/ BlockTask(t, k)
            \/ UnblockTask(t, k)
            \/ CancelTask(t, k)
            \/ CompleteTask(a, t, k)

Next ==
    \/ PlanNext
    \/ WorkNext
    \/ Tick
    \/ \E a \in Agents : Crash(a) \/ DropStaleTokens(a)

Spec == Init /\ [][Next]_vars

-----------------------------------------------------------------------------
(* Safety.                                                                  *)

\* The lease columns and the status column of a row never disagree: a task has
\* a lease, a token and a claimant exactly while it is claimed, in progress or
\* in review, whatever path took it there or out of there.
LeaseShape ==
    \A t \in Tasks :
        /\ status[t] = "none" <=> planOf[t] = NoPlan
        /\ status[t] \in Held <=> lease[t] # NoLease
        /\ lease[t] # NoLease <=> tokenHash[t] # NoToken
        /\ status[t] \in Held => claimedBy[t] # NoAgent
        /\ status[t] \notin Held \cup {"completed"} => claimedBy[t] = NoAgent

\* A task is offered, worked on, blocked or completed only when everything it
\* depends on is completed, although edges may be added and prerequisites
\* cancelled at any time.
StartedPrereqsDone ==
    \A t \in Tasks :
        status[t] \notin {"none", "pending", "cancelled"} => PrereqsDone(t)

\* No lost wake-up: in an active plan a task is pending only while one of its
\* prerequisites is incomplete.  complete_task is the only scheduler there is.
NoMissedUnlock ==
    \A t \in Tasks :
        planOf[t] # NoPlan /\ planStatus[planOf[t]] = "active" /\ status[t] = "pending"
            => ~PrereqsDone(t)

SamePlan ==
    \A e \in deps : planOf[e[1]] # NoPlan /\ planOf[e[1]] = planOf[e[2]]
AcyclicPlans == \A p \in Plans : Acyclic(TasksIn(p), deps)

\* INV-PLAN-1: dependencies stay inside one plan and never form a cycle, over
\* any sequence of bulk creations and single additions.
GraphOK == SamePlan /\ AcyclicPlans

\* INV-PLAN-3: the current token of a task is known to nobody but the client
\* recorded as its claimant, also after lost responses, expiries and reclaims;
\* and two tasks never share a token.
ExclusiveHolder ==
    \A t \in Tasks :
        tokenHash[t] # NoToken =>
            /\ \A a \in Agents : tokenHash[t] \in known[a] => a = claimedBy[t]
            /\ \A u \in Tasks : tokenHash[u] = tokenHash[t] => u = t

\* The tasks of a plan follow its life cycle although both change in separate
\* operations: nothing is offered or started in a draft, and a completed or
\* archived plan has no open task, none is added to it and none reopened.
PlanLifecycle ==
    \A t \in Tasks :
        planOf[t] # NoPlan =>
            /\ planStatus[planOf[t]] # "none"
            /\ planStatus[planOf[t]] = "draft" => status[t] \in {"pending", "cancelled"}
            /\ planStatus[planOf[t]] \in {"completed", "archived"} => status[t] \in Terminal

\* docs/architecture.md, "Lease lifecycle": list_ready_tasks and claim_task
\* agree.  A task is listed exactly when claim_task would accept it, the
\* expiry instant included.
ListAgreesWithClaim == \A t \in Tasks : t \in ListReady <=> ClaimAllowed(t)

\* A task somebody can act on or is acting on.
Actionable(t) == status[t] \in {"ready", "blocked"} \cup Held

\* An active plan never wedges by itself: while it has a pending task, some
\* task of it can be acted on, or a pending task waits for a cancelled one.
NoStall ==
    \A p \in Plans :
        planStatus[p] = "active" /\ (\E t \in TasksIn(p) : status[t] = "pending")
            => \E t \in TasksIn(p) :
                 \/ Actionable(t)
                 \/ /\ status[t] = "pending"
                    /\ \E d \in Prereqs(t) : status[d] = "cancelled"

\* D20, "no operator bypass": while the lease of a task is active and nobody
\* knows its token (the response was lost or the holder crashed), no step
\* changes the row except the clock and archive_plan.
LeaseRespectedBy ==
    \A t \in Tasks :
        lease[t] > 0 /\ (\A a \in Agents : tokenHash[t] \notin known[a])
          => \/ planOf[t] # NoPlan /\ planStatus'[planOf[t]] = "archived"
             \/ /\ status'[t] = status[t]
                /\ tokenHash'[t] = tokenHash[t]
                /\ claimedBy'[t] = claimedBy[t]
                /\ lease'[t] \in {lease[t], lease[t] - 1}
LeaseRespected == [][LeaseRespectedBy]_vars

-----------------------------------------------------------------------------
(* Refinement: leases, tokens, clients and plans are hidden; pending and ready
   are one phase, and so are blocked and the three held statuses.           *)

PhaseOf(s) ==
    IF s = "none" THEN "absent"
    ELSE IF s \in {"pending", "ready"} THEN "todo"
    ELSE IF s \in Held \cup {"blocked"} THEN "started"
    ELSE IF s = "completed" THEN "done"
    ELSE "dropped"

Dag == INSTANCE DagExecution
         WITH phase <- [t \in Tasks |-> PhaseOf(status[t])], edges <- deps

\* Whatever clients, leases and plans do, the task graph executes like a DAG:
\* started only after its prerequisites, done for good, and no prerequisite is
\* added under a task that is being worked on.
ImplementsDag == Dag!DagSpec

=============================================================================
