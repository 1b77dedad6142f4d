-------------------------- MODULE PlanAudit_proofs -------------------------
(* Proofs about module PlanAudit: the event history tells the truth about the
   tasks, for every set of plans, tasks, clients and tokens.                *)
EXTENDS PlanAudit, PlanTasks_proofs, FiniteSetTheorems

USE DEF NoLease, Held, Terminal, TaskStatus, PlanStatus

-----------------------------------------------------------------------------
(* Logging.                                                                 *)

\* Appending an event per task that starts from the task's status and ends in
\* its new one keeps histories and statuses together.
LEMMA LogReplays ==
  ASSUME HistoryReplays, NEW ev, Log(ev),
         \A t \in Tasks : IF t \in DOMAIN ev
                            THEN /\ Linked(status[t], ev[t])
                                 /\ ev[t][Len(ev[t])][2] = status'[t]
                            ELSE status'[t] = status[t]
  PROVE  HistoryReplays'
BY DEF HistoryReplays, Log

LEMMA LogEachReplays ==
  ASSUME HistoryReplays, NEW T, NEW f,
         Log([t \in T |-> <<<<status[t], f[t]>>>>]),
         \A t \in Tasks : status'[t] = IF t \in T THEN f[t] ELSE status[t]
  PROVE  HistoryReplays' /\ logged' = T
<1> DEFINE ev == [t \in T |-> <<<<status[t], f[t]>>>>]
<1>1. \A t \in T : Linked(status[t], ev[t]) /\ ev[t][Len(ev[t])][2] = f[t]
  BY DEF Linked
<1>2. HistoryReplays'
  BY <1>1, LogReplays
<1> QED
  BY <1>2 DEF Log

\* The events of a task created with n dependencies.
LEMMA CreationEvents ==
  ASSUME NEW n \in Nat
  PROVE  LET s == <<<<"none", "pending">>>> \o [i \in 1..n |-> <<"pending", "pending">>]
         IN  Linked("none", s) /\ s[Len(s)][2] = "pending"
<1> DEFINE Event == {"none", "pending"} \X {"none", "pending"}
           first == <<<<"none", "pending">>>>
           rest == [i \in 1..n |-> <<"pending", "pending">>]
           s == first \o rest
<1>1. first \in Seq(Event) /\ Len(first) = 1 /\ first[1] = <<"none", "pending">>
  OBVIOUS
<1>2. rest \in Seq(Event) /\ Len(rest) = n
  OBVIOUS
<1>3. Len(s) = n + 1 /\ s[1] = <<"none", "pending">>
        /\ \A i \in 2..(n + 1) : s[i] = <<"pending", "pending">>
  BY <1>1, <1>2
<1>4. \A i \in 2..Len(s) : s[i][1] = s[i - 1][2]
  BY <1>3
<1> QED
  BY <1>3, <1>4 DEF Linked

-----------------------------------------------------------------------------
(* A logged operation is the operation.                                     *)

LEMMA AuditStepIsAPlanStep ==
  ASSUME [AuditNext]_auditVars
  PROVE  [Next]_vars
BY DEF AuditNext, auditVars, ActivatePlanLogged, ArchivePlanLogged, CreatePlanWithTasksLogged,
   AddPlanTaskLogged, AddTaskDependencyLogged, UpdatePlanTaskLogged, SameStatusLogged,
   CompleteTaskLogged, OneTaskOperation, Next, PlanNext, WorkNext

\* claim_task to cancel: at most the row of the one task changes.
LEMMA OneTaskChanges ==
  ASSUME TypeOK, NEW a \in Agents, NEW t \in Tasks, OneTaskOperation(a, t)
  PROVE  \A u \in Tasks : u # t => /\ status'[u] = status[u]
                                   /\ tokenHash'[u] = tokenHash[u]
                                   /\ claimedBy'[u] = claimedBy[u]
<1> DEFINE Others == \A u \in Tasks : u # t => /\ status'[u] = status[u]
                                               /\ tokenHash'[u] = tokenHash[u]
                                               /\ claimedBy'[u] = claimedBy[u]
<1>1. ASSUME NEW k, NEW secs, ClaimTask(a, t, k, secs) \/ ClaimTaskResponseLost(a, t, k, secs)
      PROVE  Others
  BY <1>1 DEF ClaimTask, ClaimTaskResponseLost, ClaimRow, WriteRow, TypeOK
<1>2. ASSUME NEW k, NEW secs, HeartbeatTask(t, k, secs)
      PROVE  Others
  BY <1>2 DEF HeartbeatTask
<1>3. ASSUME NEW k, ReleaseTask(t, k) \/ BlockTask(t, k) \/ CancelTask(t, k)
      PROVE  Others
  BY <1>3 DEF ReleaseTask, BlockTask, CancelTask, WriteRow, TypeOK
<1>4. ASSUME NEW k, NEW s, AdvanceTask(t, k, s) \/ UnblockTask(t, k)
      PROVE  Others
  BY <1>4 DEF AdvanceTask, UnblockTask, TypeOK
<1> QED
  BY <1>1, <1>2, <1>3, <1>4 DEF OneTaskOperation

-----------------------------------------------------------------------------
(* The history of every task replays, operation by operation.               *)

LEMMA HistoryReplaysStep ==
  ASSUME IInv, HistoryReplays, [AuditNext]_auditVars
  PROVE  HistoryReplays'
<1> USE PlanTasksAssumption, AuditAssumption
<1>0. TypeOK /\ LeaseShape
  BY DEF IInv
<1>1. ASSUME LogNothing, UNCHANGED status
      PROVE  HistoryReplays'
  BY <1>1 DEF LogNothing, HistoryReplays
<1>2. ASSUME NEW p \in Plans, CreatePlan(p) \/ CompletePlan(p)
      PROVE  UNCHANGED status
  BY <1>2 DEF CreatePlan, CompletePlan, rowVars
<1>3. ASSUME NEW p \in Plans, ActivatePlanLogged(p)
      PROVE  HistoryReplays'
  <2> DEFINE T == {t \in TasksIn(p) : status[t] = "pending" /\ Prereqs(t) = {}}
             f == [t \in T |-> "ready"]
  <2>1. Log([t \in T |-> <<<<status[t], f[t]>>>>])
    BY <1>3 DEF ActivatePlanLogged, LogEach
  <2>2. \A t \in Tasks : status'[t] = IF t \in T THEN f[t] ELSE status[t]
    BY <1>3 DEF ActivatePlanLogged, ActivatePlan, TasksIn
  <2> QED
    BY <2>1, <2>2, LogEachReplays
<1>4. ASSUME NEW p \in Plans, ArchivePlanLogged(p)
      PROVE  HistoryReplays'
  <2> DEFINE T == {t \in TasksIn(p) : status[t] # "completed"}
             f == [t \in T |-> "cancelled"]
  <2>1. Log([t \in T |-> <<<<status[t], f[t]>>>>])
    BY <1>4 DEF ArchivePlanLogged, LogEach
  <2>2. \A t \in Tasks : status'[t] = IF t \in T THEN f[t] ELSE status[t]
    BY <1>4 DEF ArchivePlanLogged, ArchivePlan, TasksIn
  <2> QED
    BY <2>1, <2>2, LogEachReplays
<1>5. ASSUME NEW p \in Plans, NEW T \in SUBSET Tasks, NEW E \in SUBSET (T \X T),
             CreatePlanWithTasksLogged(p, T, E)
      PROVE  HistoryReplays'
  <2> DEFINE n(t) == Cardinality({e \in E : e[1] = t})
             ev == [t \in T |-> <<<<"none", "pending">>>> \o [i \in 1..n(t) |-> <<"pending", "pending">>]]
  <2>1. Log(ev)
    BY <1>5 DEF CreatePlanWithTasksLogged
  <2>2. \A t : n(t) \in Nat
    <3>1. IsFiniteSet(T)
      BY FS_Subset
    <3>2. IsFiniteSet(T \X T)
      BY <3>1, FS_Product
    <3>3. \A t : IsFiniteSet({e \in E : e[1] = t})
      BY <3>2, FS_Subset
    <3> QED
      BY <3>3, FS_CardinalityType
  <2>3. \A t \in T : Linked("none", ev[t]) /\ ev[t][Len(ev[t])][2] = "pending"
    BY <2>2, CreationEvents
  <2>4. \A t \in T : status[t] = "none"
    BY <1>5, <1>0 DEF CreatePlanWithTasksLogged, CreatePlanWithTasks, LeaseShape
  <2>5. \A t \in Tasks : status'[t] = IF t \in T THEN "pending" ELSE status[t]
    BY <1>5 DEF CreatePlanWithTasksLogged, CreatePlanWithTasks
  <2>6. DOMAIN ev = T
    OBVIOUS
  <2> HIDE DEF n, ev
  <2>7. \A t \in Tasks : IF t \in DOMAIN ev
                            THEN /\ Linked(status[t], ev[t])
                                 /\ ev[t][Len(ev[t])][2] = status'[t]
                            ELSE status'[t] = status[t]
    BY <2>3, <2>4, <2>5, <2>6
  <2> QED
    BY <2>1, <2>7, LogReplays
<1>6. ASSUME NEW p \in Plans, NEW t \in Tasks, AddPlanTaskLogged(p, t)
      PROVE  HistoryReplays'
  <2> DEFINE f == [u \in {t} |-> status'[t]]
  <2>1. Log([u \in {t} |-> <<<<status[u], f[u]>>>>])
    BY <1>6 DEF AddPlanTaskLogged, LogOne, LogEach
  <2>2. \A u \in Tasks : status'[u] = IF u \in {t} THEN f[u] ELSE status[u]
    BY <1>6, <1>0 DEF AddPlanTaskLogged, AddPlanTask, TypeOK
  <2> QED
    BY <2>1, <2>2, LogEachReplays
<1>7. ASSUME NEW t \in Tasks, NEW d \in Tasks, AddTaskDependencyLogged(t, d)
      PROVE  HistoryReplays'
  <2> DEFINE ev == [u \in {t} |->
             IF status'[t] # status[t]
               THEN <<<<status[t], status'[t]>>, <<status'[t], status'[t]>>>>
               ELSE <<<<status[t], status[t]>>>>]
  <2>1. Log(ev)
    BY <1>7 DEF AddTaskDependencyLogged
  <2>2. Linked(status[t], ev[t]) /\ ev[t][Len(ev[t])][2] = status'[t]
    BY DEF Linked
  <2>3. \A u \in Tasks : u # t => status'[u] = status[u]
    BY <1>7, <1>0 DEF AddTaskDependencyLogged, AddTaskDependency, TypeOK
  <2>4. DOMAIN ev = {t}
    OBVIOUS
  <2> HIDE DEF ev
  <2> QED
    BY <2>1, <2>2, <2>3, <2>4, LogReplays
<1>8. ASSUME NEW a \in Agents, NEW t \in Tasks, OneTaskOperation(a, t), LogOne(t, status'[t])
      PROVE  HistoryReplays'
  <2> DEFINE f == [u \in {t} |-> status'[t]]
  <2>1. Log([u \in {t} |-> <<<<status[u], f[u]>>>>])
    BY <1>8 DEF LogOne, LogEach
  <2>2. \A u \in Tasks : status'[u] = IF u \in {t} THEN f[u] ELSE status[u]
    BY <1>8, <1>0, OneTaskChanges
  <2> QED
    BY <2>1, <2>2, LogEachReplays
<1>9. ASSUME NEW a \in Agents, NEW t \in Tasks, NEW k \in TokenArg(a),
             UpdatePlanTaskLogged(t, k) \/ SameStatusLogged(t, k)
      PROVE  HistoryReplays'
  <2> DEFINE f == [u \in {t} |-> status[t]]
  <2>1. Log([u \in {t} |-> <<<<status[u], f[u]>>>>])
    BY <1>9 DEF UpdatePlanTaskLogged, SameStatusLogged, LogOne, LogEach
  <2>2. \A u \in Tasks : status'[u] = IF u \in {t} THEN f[u] ELSE status[u]
    BY <1>9 DEF UpdatePlanTaskLogged, SameStatusLogged, vars
  <2> QED
    BY <2>1, <2>2, LogEachReplays
<1>10. ASSUME NEW a \in Agents, NEW t \in Tasks, NEW k \in TokenArg(a), CompleteTaskLogged(a, t, k)
       PROVE  HistoryReplays'
  <2> DEFINE T == {t} \cup Unlocked(t)
             f == [u \in T |-> IF u = t THEN "completed" ELSE "ready"]
  <2>1. Log([u \in T |-> <<<<status[u], f[u]>>>>])
    BY <1>10 DEF CompleteTaskLogged, LogEach
  <2>2. \A u \in Tasks : status'[u] = IF u \in T THEN f[u] ELSE status[u]
    BY <1>10 DEF CompleteTaskLogged, CompleteTask
  <2> QED
    BY <2>1, <2>2, LogEachReplays
<1>11. ASSUME NEW a \in Agents, Crash(a) \/ DropStaleTokens(a)
       PROVE  UNCHANGED status
  BY <1>11 DEF Crash, DropStaleTokens, rowVars
<1>12. CASE Tick /\ LogNothing
  BY <1>12, <1>1 DEF Tick
<1>13. CASE UNCHANGED auditVars
  BY <1>13 DEF auditVars, vars, HistoryReplays
<1> QED
  BY <1>1, <1>2, <1>3, <1>4, <1>5, <1>6, <1>7, <1>8, <1>9, <1>10, <1>11, <1>12, <1>13 DEF AuditNext

-----------------------------------------------------------------------------
(* What one step logs: neither too little nor, for a task whose token nobody
   has, anything at all.                                                    *)

Accounted ==
    \A t \in Tasks :
        RowChanged(t) =>
          \/ t \in logged'
          \/ status[t] = "completed" /\ planStatus'[planOf[t]] = "archived"

Orphaned(t) == lease[t] > 0 /\ \A a \in Agents : tokenHash[t] \notin known[a]

Silent ==
    \A t \in Tasks : Orphaned(t) /\ t \in logged' => planStatus'[planOf[t]] = "archived"

\* Nobody can act on an orphaned task through its lease, and it is held.
LEMMA OrphanedIsClosed ==
  ASSUME TypeOK, LeaseShape, NEW t \in Tasks, Orphaned(t), NEW a \in Agents
  PROVE  /\ status[t] \in Held /\ planOf[t] # NoPlan
         /\ \A k \in TokenArg(a) : ~LeaseAdmits(t, k) /\ ~HoldsLease(t, k)
         /\ ~ClaimAllowed(t)
<1>1. lease[t] # NoLease /\ tokenHash[t] # NoToken /\ status[t] \in Held /\ planOf[t] # NoPlan
  BY DEF Orphaned, LeaseShape
<1>2. \A k \in TokenArg(a) : k # tokenHash[t]
  BY <1>1 DEF Orphaned, TokenArg
<1> QED
  BY <1>1, <1>2 DEF Orphaned, LeaseAdmits, HoldsLease, HasActiveLease, ClaimAllowed

\* A step that logs the one task it changes, which is not an orphaned one.
LEMMA LogsTheOneTask ==
  ASSUME NEW t \in Tasks, NEW s, LogOne(t, s), ~Orphaned(t),
         \A u \in Tasks : u # t => ~RowChanged(u)
  PROVE  Accounted /\ Silent
<1>1. logged' = {t}
  BY DEF LogOne, LogEach, Log
<1> QED
  BY <1>1 DEF Accounted, Silent

LEMMA AuditStep ==
  ASSUME TypeOK, LeaseShape, AuditNext
  PROVE  Accounted /\ Silent
<1> USE PlanTasksAssumption
<1>1. ASSUME LogNothing, UNCHANGED <<status, tokenHash, claimedBy>>
      PROVE  Accounted /\ Silent
  BY <1>1 DEF LogNothing, Accounted, Silent, RowChanged
<1>2. ASSUME NEW p \in Plans, CreatePlan(p) \/ CompletePlan(p)
      PROVE  UNCHANGED <<status, tokenHash, claimedBy>>
  BY <1>2 DEF CreatePlan, CompletePlan, rowVars
<1>3. ASSUME NEW p \in Plans, ActivatePlanLogged(p)
      PROVE  Accounted /\ Silent
  <2>1. logged' = {t \in TasksIn(p) : status[t] = "pending" /\ Prereqs(t) = {}}
    BY <1>3 DEF ActivatePlanLogged, LogEach, Log
  <2>2. \A t \in logged' : ~Orphaned(t)
    BY <2>1 DEF Orphaned, LeaseShape, TasksIn
  <2>3. \A t \in Tasks : RowChanged(t) => t \in logged'
    BY <1>3, <2>1 DEF ActivatePlanLogged, ActivatePlan, TasksIn, RowChanged
  <2> QED
    BY <2>2, <2>3 DEF Accounted, Silent
<1>4. ASSUME NEW p \in Plans, ArchivePlanLogged(p)
      PROVE  Accounted /\ Silent
  <2>1. logged' = {t \in TasksIn(p) : status[t] # "completed"}
    BY <1>4 DEF ArchivePlanLogged, LogEach, Log
  <2> QED
    <3>1. /\ \A t \in Tasks : status'[t] = IF planOf[t] = p /\ status[t] # "completed"
                                             THEN "cancelled" ELSE status[t]
          /\ \A t \in Tasks \ TasksIn(p) : tokenHash'[t] = tokenHash[t] /\ claimedBy'[t] = claimedBy[t]
      BY <1>4 DEF ArchivePlanLogged, ArchivePlan, TasksIn
    <3>2. \A t \in TasksIn(p) : t \in Tasks /\ planStatus'[planOf[t]] = "archived"
      <4>1. planStatus' = [planStatus EXCEPT ![p] = "archived"]
        BY <1>4 DEF ArchivePlanLogged, ArchivePlan
      <4>2. planStatus'[p] = "archived"
        BY <4>1 DEF TypeOK
      <4> QED
        BY <4>2 DEF TasksIn
    <3>3. \A t \in Tasks \ TasksIn(p) : ~RowChanged(t)
      BY <3>1 DEF RowChanged, TasksIn
    <3>4. \A t \in TasksIn(p) : t \in logged' \/ status[t] = "completed"
      BY <2>1
    <3> QED
      BY <2>1, <3>2, <3>3, <3>4 DEF Accounted, Silent
<1>5. ASSUME NEW p \in Plans, NEW T \in SUBSET Tasks, NEW E \in SUBSET (T \X T),
             CreatePlanWithTasksLogged(p, T, E)
      PROVE  Accounted /\ Silent
  <2>1. logged' = T
    BY <1>5 DEF CreatePlanWithTasksLogged, Log
  <2> QED
    BY <1>5, <2>1 DEF CreatePlanWithTasksLogged, CreatePlanWithTasks, Accounted, Silent,
       RowChanged, Orphaned, LeaseShape
<1>6. ASSUME NEW p \in Plans, NEW t \in Tasks, AddPlanTaskLogged(p, t)
      PROVE  Accounted /\ Silent
  <2>1. ~Orphaned(t) /\ LogOne(t, status'[t])
    BY <1>6 DEF AddPlanTaskLogged, AddPlanTask, Orphaned, LeaseShape
  <2>2. \A u \in Tasks : u # t => ~RowChanged(u)
    BY <1>6 DEF AddPlanTaskLogged, AddPlanTask, RowChanged, TypeOK
  <2> QED
    BY <2>1, <2>2, LogsTheOneTask
<1>7. ASSUME NEW t \in Tasks, NEW d \in Tasks, AddTaskDependencyLogged(t, d)
      PROVE  Accounted /\ Silent
  <2>1. logged' = {t}
    BY <1>7 DEF AddTaskDependencyLogged, Log
  <2> QED
    BY <1>7, <2>1 DEF AddTaskDependencyLogged, AddTaskDependency, Accounted, Silent, RowChanged,
       Orphaned, LeaseShape, TypeOK
<1>8. ASSUME NEW a \in Agents, NEW t \in Tasks, OneTaskOperation(a, t), LogOne(t, status'[t])
      PROVE  Accounted /\ Silent
  <2>1. ~Orphaned(t)
    <3> SUFFICES ASSUME Orphaned(t) PROVE FALSE
      OBVIOUS
    <3>1. \A k \in known[a] : k \in TokenArg(a)
      BY DEF TokenArg
    <3> QED
      BY <1>8, <3>1, OrphanedIsClosed DEF OneTaskOperation, ClaimTask, ClaimTaskResponseLost,
         ClaimRow, HeartbeatTask, ReleaseTask, AdvanceTask, BlockTask, UnblockTask, CancelTask
  <2>2. \A u \in Tasks : u # t => ~RowChanged(u)
    BY <1>8, OneTaskChanges DEF RowChanged
  <2> QED
    BY <1>8, <2>1, <2>2, LogsTheOneTask
<1>9. ASSUME NEW a \in Agents, NEW t \in Tasks, NEW k \in TokenArg(a),
             UpdatePlanTaskLogged(t, k) \/ SameStatusLogged(t, k)
      PROVE  Accounted /\ Silent
  <2>1. ~Orphaned(t)
    BY <1>9, OrphanedIsClosed DEF UpdatePlanTaskLogged, SameStatusLogged
  <2>2. \A u \in Tasks : ~RowChanged(u)
    BY <1>9 DEF UpdatePlanTaskLogged, SameStatusLogged, vars, RowChanged
  <2> QED
    BY <1>9, <2>1, <2>2, LogsTheOneTask DEF UpdatePlanTaskLogged, SameStatusLogged
<1>10. ASSUME NEW a \in Agents, NEW t \in Tasks, NEW k \in TokenArg(a), CompleteTaskLogged(a, t, k)
       PROVE  Accounted /\ Silent
  <2>1. logged' = {t} \cup Unlocked(t)
    BY <1>10 DEF CompleteTaskLogged, LogEach, Log
  <2>2. ~Orphaned(t)
    BY <1>10, OrphanedIsClosed DEF CompleteTaskLogged, CompleteTask, CompleteAllowed
  <2>3. \A u \in Unlocked(t) : ~Orphaned(u)
    BY DEF Unlocked, Orphaned, LeaseShape
  <2>4. \A u \in Tasks : RowChanged(u) => u \in logged'
    BY <1>10, <2>1 DEF CompleteTaskLogged, CompleteTask, RowChanged, TypeOK
  <2> QED
    BY <2>1, <2>2, <2>3, <2>4 DEF Accounted, Silent
<1>11. ASSUME NEW a \in Agents, Crash(a) \/ DropStaleTokens(a)
       PROVE  UNCHANGED <<status, tokenHash, claimedBy>>
  BY <1>11 DEF Crash, DropStaleTokens, rowVars
<1>12. CASE Tick /\ LogNothing
  BY <1>12, <1>1 DEF Tick
<1> QED
  BY <1>1, <1>2, <1>3, <1>4, <1>5, <1>6, <1>7, <1>8, <1>9, <1>10, <1>11, <1>12 DEF AuditNext

-----------------------------------------------------------------------------
(* The theorems.                                                            *)

\* The invariant of the service holds under the log, which only watches.
THEOREM AuditInvariant == AuditSpec => [](IInv /\ HistoryReplays)
<1>1. AuditInit => IInv /\ HistoryReplays
  BY Initial DEF AuditInit, HistoryReplays, Init
<1>2. IInv /\ HistoryReplays /\ [AuditNext]_auditVars => IInv' /\ HistoryReplays'
  BY AuditStepIsAPlanStep, IInvStep, HistoryReplaysStep
<1> QED
  BY <1>1, <1>2, PTL DEF AuditSpec

(* D21: the history of a task, replayed, gives its status and has no gap, after
   any sequence of operations, also those that log several events at once.  *)
THEOREM HistoryTellsTheStatus == AuditSpec => []HistoryReplays
BY AuditInvariant, PTL

(* FR48: no change of a task's row goes unrecorded, but for the claimant that
   archive_plan erases from a completed task.                               *)
THEOREM NoSilentMutation == AuditSpec => MutationsLogged
<1>1. IInv /\ [AuditNext]_auditVars => [Accounted]_auditVars
  BY AuditStep DEF IInv
<1>2. [Accounted]_auditVars =>
        [\A t \in Tasks :
           RowChanged(t) =>
             \/ t \in logged'
             \/ /\ status[t] = "completed"
                /\ planStatus'[planOf[t]] = "archived"]_auditVars
  BY DEF Accounted
<1> QED
  BY <1>1, <1>2, AuditInvariant, PTL DEF AuditSpec, MutationsLogged

(* D20, for every kind of mutation: nobody adds to the history of a task whose
   lease runs and whose token is lost, until the plan is archived.          *)
THEOREM OrphansStaySilent == AuditSpec => OrphanedLeaseSilent
<1>1. IInv /\ [AuditNext]_auditVars => [Silent]_auditVars
  BY AuditStep DEF IInv
<1>2. [Silent]_auditVars =>
        [\A t \in Tasks :
           lease[t] > 0 /\ (\A a \in Agents : tokenHash[t] \notin known[a]) /\ t \in logged'
             => planStatus'[planOf[t]] = "archived"]_auditVars
  BY DEF Silent, Orphaned
<1> QED
  BY <1>1, <1>2, AuditInvariant, PTL DEF AuditSpec, OrphanedLeaseSilent

=============================================================================
