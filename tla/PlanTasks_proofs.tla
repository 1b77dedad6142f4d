------------------------- MODULE PlanTasks_proofs --------------------------
(* Proofs about module PlanTasks, for every set of plans, tasks, clients and
   tokens and every MaxLease; and about module Kahn, for every graph, that the
   check of the service decides what the guards of PlanTasks say.           *)
EXTENDS PlanTasks, Kahn, FiniteSetTheorems, WellFoundedInduction, TLAPS

USE DEF NoLease, Held, Terminal, TaskStatus, PlanStatus

-----------------------------------------------------------------------------
(* Every row, plan and client keeps values of its type: in particular a lease
   never runs longer than MaxLease and never below the expiry instant.      *)
LEMMA TypeOKStep ==
  ASSUME TypeOK, [Next]_vars
  PROVE  TypeOK'
<1>1. ASSUME NEW p \in Plans, CreatePlan(p)
      PROVE TypeOK'
  BY <1>1, PlanTasksAssumption DEF CreatePlan, rowVars, TypeOK
<1>2. ASSUME NEW p \in Plans, ActivatePlan(p)
      PROVE TypeOK'
  BY <1>2, PlanTasksAssumption DEF ActivatePlan, TypeOK
<1>3. ASSUME NEW p \in Plans, ArchivePlan(p)
      PROVE TypeOK'
  BY <1>3, PlanTasksAssumption DEF ArchivePlan, TypeOK
<1>4. ASSUME NEW p \in Plans, CompletePlan(p)
      PROVE TypeOK'
  BY <1>4, PlanTasksAssumption DEF CompletePlan, rowVars, TypeOK
<1>5. ASSUME NEW p \in Plans, NEW T \in SUBSET Tasks, NEW E \in SUBSET (T \X T),
          CreatePlanWithTasks(p, T, E)
      PROVE TypeOK'
  BY <1>5, PlanTasksAssumption DEF CreatePlanWithTasks, TypeOK
<1>6. ASSUME NEW p \in Plans, NEW t \in Tasks, AddPlanTask(p, t)
      PROVE TypeOK'
  BY <1>6, PlanTasksAssumption DEF AddPlanTask, TypeOK
<1>7. ASSUME NEW t \in Tasks, NEW d \in Tasks, AddTaskDependency(t, d)
      PROVE TypeOK'
  BY <1>7, PlanTasksAssumption DEF AddTaskDependency, TypeOK
<1>8. ASSUME NEW a \in Agents, NEW t \in Tasks, NEW k \in Tokens, NEW secs \in 1..MaxLease,
          ClaimTask(a, t, k, secs) \/ ClaimTaskResponseLost(a, t, k, secs)
      PROVE TypeOK'
  BY <1>8, PlanTasksAssumption DEF ClaimTask, ClaimTaskResponseLost, ClaimRow, WriteRow,
     TypeOK
<1>9. ASSUME NEW a \in Agents, NEW t \in Tasks, NEW k \in known[a], NEW secs \in 1..MaxLease,
          HeartbeatTask(t, k, secs)
      PROVE TypeOK'
  BY <1>9, PlanTasksAssumption DEF HeartbeatTask, TypeOK
<1>10. ASSUME NEW a \in Agents, NEW t \in Tasks, NEW k \in known[a], ReleaseTask(t, k)
      PROVE TypeOK'
  BY <1>10, PlanTasksAssumption DEF ReleaseTask, WriteRow, TypeOK
<1>11. ASSUME NEW a \in Agents, NEW t \in Tasks, NEW k \in TokenArg(a),
          BlockTask(t, k) \/ CancelTask(t, k)
      PROVE TypeOK'
  BY <1>11, PlanTasksAssumption DEF BlockTask, CancelTask, WriteRow, TypeOK
<1>12. ASSUME NEW a \in Agents, NEW t \in Tasks, NEW k \in TokenArg(a),
          NEW s \in {"in_progress", "in_review"}, AdvanceTask(t, k, s)
      PROVE TypeOK'
  BY <1>12, PlanTasksAssumption DEF AdvanceTask, TypeOK
<1>13. ASSUME NEW a \in Agents, NEW t \in Tasks, NEW k \in TokenArg(a), UnblockTask(t, k)
      PROVE TypeOK'
  BY <1>13, PlanTasksAssumption DEF UnblockTask, TypeOK
<1>14. ASSUME NEW a \in Agents, NEW t \in Tasks, NEW k \in TokenArg(a), CompleteTask(a, t, k)
      PROVE TypeOK'
  BY <1>14, PlanTasksAssumption DEF CompleteTask, TypeOK
<1>15. ASSUME Tick
      PROVE TypeOK'
  BY <1>15, PlanTasksAssumption DEF Tick, TypeOK
<1>16. ASSUME NEW a \in Agents, Crash(a) \/ DropStaleTokens(a)
      PROVE TypeOK'
  BY <1>16, PlanTasksAssumption DEF Crash, DropStaleTokens, rowVars, TypeOK
<1>17. CASE UNCHANGED vars
  BY <1>17, PlanTasksAssumption DEF vars, rowVars, TypeOK
<1> QED
  BY <1>1, <1>2, <1>3, <1>4, <1>5, <1>6, <1>7, <1>8, <1>9, <1>10, <1>11, <1>12, <1>13,
     <1>14, <1>15, <1>16, <1>17 DEF Next, PlanNext, WorkNext

(* The lease columns agree with the status column after every operation.    *)
LEMMA LeaseShapeStep ==
  ASSUME TypeOK, LeaseShape, [Next]_vars
  PROVE  LeaseShape'
<1>1. ASSUME NEW p \in Plans, CreatePlan(p)
      PROVE LeaseShape'
  BY <1>1, PlanTasksAssumption DEF CreatePlan, rowVars, TypeOK, LeaseShape
<1>2. ASSUME NEW p \in Plans, ActivatePlan(p)
      PROVE LeaseShape'
  BY <1>2, PlanTasksAssumption DEF ActivatePlan, TypeOK, LeaseShape
<1>3. ASSUME NEW p \in Plans, ArchivePlan(p)
      PROVE LeaseShape'
  BY <1>3, PlanTasksAssumption DEF ArchivePlan, TypeOK, LeaseShape
<1>4. ASSUME NEW p \in Plans, CompletePlan(p)
      PROVE LeaseShape'
  BY <1>4, PlanTasksAssumption DEF CompletePlan, rowVars, TasksIn, TypeOK, LeaseShape
<1>5. ASSUME NEW p \in Plans, NEW T \in SUBSET Tasks, NEW E \in SUBSET (T \X T),
          CreatePlanWithTasks(p, T, E)
      PROVE LeaseShape'
  BY <1>5, PlanTasksAssumption DEF CreatePlanWithTasks, TypeOK, LeaseShape
<1>6. ASSUME NEW p \in Plans, NEW t \in Tasks, AddPlanTask(p, t)
      PROVE LeaseShape'
  BY <1>6, PlanTasksAssumption DEF AddPlanTask, TypeOK, LeaseShape
<1>7. ASSUME NEW t \in Tasks, NEW d \in Tasks, AddTaskDependency(t, d)
      PROVE LeaseShape'
  BY <1>7, PlanTasksAssumption DEF AddTaskDependency, PlanOpen, TypeOK, LeaseShape
<1>8. ASSUME NEW a \in Agents, NEW t \in Tasks, NEW k \in Tokens, NEW secs \in 1..MaxLease,
          ClaimTask(a, t, k, secs) \/ ClaimTaskResponseLost(a, t, k, secs)
      PROVE LeaseShape'
  BY <1>8, PlanTasksAssumption DEF ClaimTask, ClaimTaskResponseLost, ClaimRow, WriteRow,
     ClaimAllowed, TypeOK, LeaseShape
<1>9. ASSUME NEW a \in Agents, NEW t \in Tasks, NEW k \in known[a], NEW secs \in 1..MaxLease,
          HeartbeatTask(t, k, secs)
      PROVE LeaseShape'
  BY <1>9, PlanTasksAssumption DEF HeartbeatTask, HoldsLease, TypeOK, LeaseShape
<1>10. ASSUME NEW a \in Agents, NEW t \in Tasks, NEW k \in known[a], ReleaseTask(t, k)
      PROVE LeaseShape'
  BY <1>10, PlanTasksAssumption DEF ReleaseTask, WriteRow, HoldsLease, PlanOpen, TypeOK,
     LeaseShape
<1>11. ASSUME NEW a \in Agents, NEW t \in Tasks, NEW k \in TokenArg(a),
          BlockTask(t, k) \/ CancelTask(t, k)
      PROVE LeaseShape'
  BY <1>11, PlanTasksAssumption DEF BlockTask, CancelTask, WriteRow, PlanOpen, TypeOK,
     LeaseShape
<1>12. ASSUME NEW a \in Agents, NEW t \in Tasks, NEW k \in TokenArg(a),
          NEW s \in {"in_progress", "in_review"}, AdvanceTask(t, k, s)
      PROVE LeaseShape'
  BY <1>12, PlanTasksAssumption DEF AdvanceTask, PlanOpen, TypeOK, LeaseShape
<1>13. ASSUME NEW a \in Agents, NEW t \in Tasks, NEW k \in TokenArg(a), UnblockTask(t, k)
      PROVE LeaseShape'
  BY <1>13, PlanTasksAssumption DEF UnblockTask, PlanOpen, TypeOK, LeaseShape
<1>14. ASSUME NEW a \in Agents, NEW t \in Tasks, NEW k \in TokenArg(a), CompleteTask(a, t, k)
      PROVE LeaseShape'
  BY <1>14, PlanTasksAssumption DEF CompleteTask, CompleteAllowed, PlanOpen, Unlocked,
     TypeOK, LeaseShape
<1>15. ASSUME Tick
      PROVE LeaseShape'
  BY <1>15, PlanTasksAssumption DEF Tick, TypeOK, LeaseShape
<1>16. ASSUME NEW a \in Agents, Crash(a) \/ DropStaleTokens(a)
      PROVE LeaseShape'
  BY <1>16, PlanTasksAssumption DEF Crash, DropStaleTokens, rowVars, TypeOK, LeaseShape
<1>17. CASE UNCHANGED vars
  BY <1>17, PlanTasksAssumption DEF vars, rowVars, TypeOK, LeaseShape
<1> QED
  BY <1>1, <1>2, <1>3, <1>4, <1>5, <1>6, <1>7, <1>8, <1>9, <1>10, <1>11, <1>12, <1>13,
     <1>14, <1>15, <1>16, <1>17 DEF Next, PlanNext, WorkNext

(* INV-PLAN-1, first half: an edge joins two tasks of one plan, and tasks do
   not move between plans.                                                  *)
LEMMA SamePlanStep ==
  ASSUME TypeOK, SamePlan, [Next]_vars
  PROVE  SamePlan'
<1>1. ASSUME NEW p \in Plans, CreatePlan(p)
      PROVE SamePlan'
  BY <1>1, PlanTasksAssumption DEF CreatePlan, rowVars, TypeOK, SamePlan
<1>2. ASSUME NEW p \in Plans, ActivatePlan(p)
      PROVE SamePlan'
  BY <1>2, PlanTasksAssumption DEF ActivatePlan, TypeOK, SamePlan
<1>3. ASSUME NEW p \in Plans, ArchivePlan(p)
      PROVE SamePlan'
  BY <1>3, PlanTasksAssumption DEF ArchivePlan, TypeOK, SamePlan
<1>4. ASSUME NEW p \in Plans, CompletePlan(p)
      PROVE SamePlan'
  BY <1>4, PlanTasksAssumption DEF CompletePlan, rowVars, TasksIn, TypeOK, SamePlan
<1>5. ASSUME NEW p \in Plans, NEW T \in SUBSET Tasks, NEW E \in SUBSET (T \X T),
          CreatePlanWithTasks(p, T, E)
      PROVE SamePlan'
  BY <1>5, PlanTasksAssumption DEF CreatePlanWithTasks, TypeOK, SamePlan
<1>6. ASSUME NEW p \in Plans, NEW t \in Tasks, AddPlanTask(p, t)
      PROVE SamePlan'
  BY <1>6, PlanTasksAssumption DEF AddPlanTask, TypeOK, SamePlan
<1>7. ASSUME NEW t \in Tasks, NEW d \in Tasks, AddTaskDependency(t, d)
      PROVE SamePlan'
  BY <1>7, PlanTasksAssumption DEF AddTaskDependency, PlanOpen, TypeOK, SamePlan
<1>8. ASSUME NEW a \in Agents, NEW t \in Tasks, NEW k \in Tokens, NEW secs \in 1..MaxLease,
          ClaimTask(a, t, k, secs) \/ ClaimTaskResponseLost(a, t, k, secs)
      PROVE SamePlan'
  BY <1>8, PlanTasksAssumption DEF ClaimTask, ClaimTaskResponseLost, ClaimRow, WriteRow,
     ClaimAllowed, TypeOK, SamePlan
<1>9. ASSUME NEW a \in Agents, NEW t \in Tasks, NEW k \in known[a], NEW secs \in 1..MaxLease,
          HeartbeatTask(t, k, secs)
      PROVE SamePlan'
  BY <1>9, PlanTasksAssumption DEF HeartbeatTask, HoldsLease, TypeOK, SamePlan
<1>10. ASSUME NEW a \in Agents, NEW t \in Tasks, NEW k \in known[a], ReleaseTask(t, k)
      PROVE SamePlan'
  BY <1>10, PlanTasksAssumption DEF ReleaseTask, WriteRow, HoldsLease, PlanOpen, TypeOK,
     SamePlan
<1>11. ASSUME NEW a \in Agents, NEW t \in Tasks, NEW k \in TokenArg(a),
          BlockTask(t, k) \/ CancelTask(t, k)
      PROVE SamePlan'
  BY <1>11, PlanTasksAssumption DEF BlockTask, CancelTask, WriteRow, PlanOpen, TypeOK,
     SamePlan
<1>12. ASSUME NEW a \in Agents, NEW t \in Tasks, NEW k \in TokenArg(a),
          NEW s \in {"in_progress", "in_review"}, AdvanceTask(t, k, s)
      PROVE SamePlan'
  BY <1>12, PlanTasksAssumption DEF AdvanceTask, PlanOpen, TypeOK, SamePlan
<1>13. ASSUME NEW a \in Agents, NEW t \in Tasks, NEW k \in TokenArg(a), UnblockTask(t, k)
      PROVE SamePlan'
  BY <1>13, PlanTasksAssumption DEF UnblockTask, PlanOpen, TypeOK, SamePlan
<1>14. ASSUME NEW a \in Agents, NEW t \in Tasks, NEW k \in TokenArg(a), CompleteTask(a, t, k)
      PROVE SamePlan'
  BY <1>14, PlanTasksAssumption DEF CompleteTask, CompleteAllowed, PlanOpen, Unlocked,
     TypeOK, SamePlan
<1>15. ASSUME Tick
      PROVE SamePlan'
  BY <1>15, PlanTasksAssumption DEF Tick, TypeOK, SamePlan
<1>16. ASSUME NEW a \in Agents, Crash(a) \/ DropStaleTokens(a)
      PROVE SamePlan'
  BY <1>16, PlanTasksAssumption DEF Crash, DropStaleTokens, rowVars, TypeOK, SamePlan
<1>17. CASE UNCHANGED vars
  BY <1>17, PlanTasksAssumption DEF vars, rowVars, TypeOK, SamePlan
<1> QED
  BY <1>1, <1>2, <1>3, <1>4, <1>5, <1>6, <1>7, <1>8, <1>9, <1>10, <1>11, <1>12, <1>13,
     <1>14, <1>15, <1>16, <1>17 DEF Next, PlanNext, WorkNext

(* INV-PLAN-1, second half: no cycle, although bulk creation checks only the
   new edges and add_task_dependency only one plan.                         *)
LEMMA AcyclicPlansStep ==
  ASSUME TypeOK, SamePlan, PlanLifecycle, AcyclicPlans, [Next]_vars
  PROVE  AcyclicPlans'
<1>1. ASSUME NEW p \in Plans, CreatePlan(p)
      PROVE AcyclicPlans'
  BY <1>1 DEF CreatePlan, rowVars, AcyclicPlans, Acyclic, TasksIn
<1>2. ASSUME NEW p \in Plans, ActivatePlan(p)
      PROVE AcyclicPlans'
  BY <1>2 DEF ActivatePlan, AcyclicPlans, Acyclic, TasksIn
<1>3. ASSUME NEW p \in Plans, ArchivePlan(p)
      PROVE AcyclicPlans'
  BY <1>3 DEF ArchivePlan, AcyclicPlans, Acyclic, TasksIn
<1>4. ASSUME NEW p \in Plans, CompletePlan(p)
      PROVE AcyclicPlans'
  BY <1>4 DEF CompletePlan, rowVars, AcyclicPlans, Acyclic, TasksIn
<1>5. ASSUME NEW p \in Plans, NEW T \in SUBSET Tasks, NEW E \in SUBSET (T \X T),
          CreatePlanWithTasks(p, T, E)
      PROVE AcyclicPlans'
  <2>1. /\ TasksIn(p)' = T
        /\ \A q \in Plans \ {p} : TasksIn(q)' = TasksIn(q)
    BY <1>5, PlanTasksAssumption DEF TypeOK, PlanLifecycle, CreatePlanWithTasks, TasksIn
  <2>2. ASSUME NEW S \in SUBSET T, S # {}
        PROVE  \E n \in S : \A m \in S : <<n, m>> \notin deps'
    <3>1. PICK n \in S : \A m \in S : <<n, m>> \notin E
      BY <1>5, <2>2 DEF CreatePlanWithTasks, Acyclic
    <3>2. \A m \in S : <<n, m>> \notin deps
      BY <1>5, <2>2 DEF CreatePlanWithTasks, SamePlan
    <3> QED
      BY <1>5, <3>1, <3>2 DEF CreatePlanWithTasks
  <2>3. ASSUME NEW q \in Plans \ {p}, NEW S \in SUBSET TasksIn(q), S # {}
        PROVE  \E n \in S : \A m \in S : <<n, m>> \notin deps'
    <3>1. PICK n \in S : \A m \in S : <<n, m>> \notin deps
      BY <2>3 DEF AcyclicPlans, Acyclic
    <3>2. planOf[n] = q /\ q # NoPlan
      BY <2>3, PlanTasksAssumption DEF TasksIn
    <3>3. \A m \in S : <<n, m>> \notin E
      BY <1>5, <3>2 DEF CreatePlanWithTasks
    <3> QED
      BY <1>5, <3>1, <3>3 DEF CreatePlanWithTasks
  <2> QED
    BY <2>1, <2>2, <2>3 DEF AcyclicPlans, Acyclic
<1>6. ASSUME NEW p \in Plans, NEW t \in Tasks, AddPlanTask(p, t)
      PROVE AcyclicPlans'
  <2>1. /\ TasksIn(p)' = TasksIn(p) \cup {t}
        /\ \A q \in Plans \ {p} : TasksIn(q)' = TasksIn(q)
        /\ deps' = deps
    BY <1>6, PlanTasksAssumption DEF TypeOK, AddPlanTask, TasksIn
  <2>2. ASSUME NEW S \in SUBSET (TasksIn(p) \cup {t}), S # {}
        PROVE  \E n \in S : \A m \in S : <<n, m>> \notin deps
    <3>1. CASE t \in S
      BY <1>6, <3>1 DEF AddPlanTask, SamePlan
    <3>2. CASE t \notin S
      BY <2>2, <3>2 DEF AcyclicPlans, Acyclic
    <3> QED
      BY <3>1, <3>2
  <2> QED
    BY <2>1, <2>2 DEF AcyclicPlans, Acyclic
<1>7. ASSUME NEW t \in Tasks, NEW d \in Tasks, AddTaskDependency(t, d)
      PROVE AcyclicPlans'
  <2>1. \A q \in Plans : TasksIn(q)' = TasksIn(q)
    BY <1>7 DEF AddTaskDependency, TasksIn
  <2>2. Acyclic(TasksIn(planOf[t]), deps')
    BY <1>7 DEF AddTaskDependency
  <2>3. ASSUME NEW q \in Plans, q # planOf[t], NEW S \in SUBSET TasksIn(q), S # {}
        PROVE  \E n \in S : \A m \in S : <<n, m>> \notin deps'
    <3>1. PICK n \in S : \A m \in S : <<n, m>> \notin deps
      BY <2>3 DEF AcyclicPlans, Acyclic
    <3>2. n # t
      BY <2>3 DEF TasksIn
    <3> QED
      BY <1>7, <3>1, <3>2 DEF AddTaskDependency
  <2> QED
    BY <2>1, <2>2, <2>3 DEF AcyclicPlans, Acyclic
<1>8. ASSUME NEW a \in Agents, NEW t \in Tasks, NEW k \in Tokens, NEW secs \in 1..MaxLease,
          ClaimTask(a, t, k, secs) \/ ClaimTaskResponseLost(a, t, k, secs)
      PROVE AcyclicPlans'
  BY <1>8 DEF ClaimTask, ClaimTaskResponseLost, ClaimRow, WriteRow, AcyclicPlans,
     Acyclic, TasksIn
<1>9. ASSUME NEW a \in Agents, NEW t \in Tasks, NEW k \in known[a], NEW secs \in 1..MaxLease,
          HeartbeatTask(t, k, secs)
      PROVE AcyclicPlans'
  BY <1>9 DEF HeartbeatTask, AcyclicPlans, Acyclic, TasksIn
<1>10. ASSUME NEW a \in Agents, NEW t \in Tasks, NEW k \in known[a], ReleaseTask(t, k)
      PROVE AcyclicPlans'
  BY <1>10 DEF ReleaseTask, WriteRow, AcyclicPlans, Acyclic, TasksIn
<1>11. ASSUME NEW a \in Agents, NEW t \in Tasks, NEW k \in TokenArg(a),
          BlockTask(t, k) \/ CancelTask(t, k)
      PROVE AcyclicPlans'
  BY <1>11 DEF BlockTask, CancelTask, WriteRow, AcyclicPlans, Acyclic, TasksIn
<1>12. ASSUME NEW a \in Agents, NEW t \in Tasks, NEW k \in TokenArg(a),
          NEW s \in {"in_progress", "in_review"}, AdvanceTask(t, k, s)
      PROVE AcyclicPlans'
  BY <1>12 DEF AdvanceTask, AcyclicPlans, Acyclic, TasksIn
<1>13. ASSUME NEW a \in Agents, NEW t \in Tasks, NEW k \in TokenArg(a), UnblockTask(t, k)
      PROVE AcyclicPlans'
  BY <1>13 DEF UnblockTask, AcyclicPlans, Acyclic, TasksIn
<1>14. ASSUME NEW a \in Agents, NEW t \in Tasks, NEW k \in TokenArg(a), CompleteTask(a, t, k)
      PROVE AcyclicPlans'
  BY <1>14 DEF CompleteTask, AcyclicPlans, Acyclic, TasksIn
<1>15. ASSUME Tick
      PROVE AcyclicPlans'
  BY <1>15 DEF Tick, AcyclicPlans, Acyclic, TasksIn
<1>16. ASSUME NEW a \in Agents, Crash(a) \/ DropStaleTokens(a)
      PROVE AcyclicPlans'
  BY <1>16 DEF Crash, DropStaleTokens, rowVars, AcyclicPlans, Acyclic, TasksIn
<1>17. CASE UNCHANGED vars
  BY <1>17 DEF vars, rowVars, AcyclicPlans, Acyclic, TasksIn
<1> QED
  BY <1>1, <1>2, <1>3, <1>4, <1>5, <1>6, <1>7, <1>8, <1>9, <1>10, <1>11, <1>12, <1>13,
     <1>14, <1>15, <1>16, <1>17 DEF Next, PlanNext, WorkNext

(* Drafts start nothing and closed plans have nothing open.                 *)
LEMMA PlanLifecycleStep ==
  ASSUME TypeOK, LeaseShape, SamePlan, PlanLifecycle, [Next]_vars
  PROVE  PlanLifecycle'
<1>1. ASSUME NEW p \in Plans, CreatePlan(p)
      PROVE PlanLifecycle'
  BY <1>1, PlanTasksAssumption DEF CreatePlan, rowVars, TypeOK, LeaseShape, SamePlan,
     PlanLifecycle
<1>2. ASSUME NEW p \in Plans, ActivatePlan(p)
      PROVE PlanLifecycle'
  BY <1>2, PlanTasksAssumption DEF ActivatePlan, TypeOK, LeaseShape, SamePlan,
     PlanLifecycle
<1>3. ASSUME NEW p \in Plans, ArchivePlan(p)
      PROVE PlanLifecycle'
  BY <1>3, PlanTasksAssumption DEF ArchivePlan, TypeOK, LeaseShape, SamePlan,
     PlanLifecycle
<1>4. ASSUME NEW p \in Plans, CompletePlan(p)
      PROVE PlanLifecycle'
  BY <1>4, PlanTasksAssumption DEF CompletePlan, rowVars, TasksIn, TypeOK, LeaseShape,
     SamePlan, PlanLifecycle
<1>5. ASSUME NEW p \in Plans, NEW T \in SUBSET Tasks, NEW E \in SUBSET (T \X T),
          CreatePlanWithTasks(p, T, E)
      PROVE PlanLifecycle'
  BY <1>5, PlanTasksAssumption DEF CreatePlanWithTasks, TypeOK, LeaseShape, SamePlan,
     PlanLifecycle
<1>6. ASSUME NEW p \in Plans, NEW t \in Tasks, AddPlanTask(p, t)
      PROVE PlanLifecycle'
  BY <1>6, PlanTasksAssumption DEF AddPlanTask, TypeOK, LeaseShape, SamePlan,
     PlanLifecycle
<1>7. ASSUME NEW t \in Tasks, NEW d \in Tasks, AddTaskDependency(t, d)
      PROVE PlanLifecycle'
  BY <1>7, PlanTasksAssumption DEF AddTaskDependency, PlanOpen, TypeOK, LeaseShape,
     SamePlan, PlanLifecycle
<1>8. ASSUME NEW a \in Agents, NEW t \in Tasks, NEW k \in Tokens, NEW secs \in 1..MaxLease,
          ClaimTask(a, t, k, secs) \/ ClaimTaskResponseLost(a, t, k, secs)
      PROVE PlanLifecycle'
  BY <1>8, PlanTasksAssumption DEF ClaimTask, ClaimTaskResponseLost, ClaimRow, WriteRow,
     ClaimAllowed, TypeOK, LeaseShape, SamePlan, PlanLifecycle
<1>9. ASSUME NEW a \in Agents, NEW t \in Tasks, NEW k \in known[a], NEW secs \in 1..MaxLease,
          HeartbeatTask(t, k, secs)
      PROVE PlanLifecycle'
  BY <1>9, PlanTasksAssumption DEF HeartbeatTask, HoldsLease, TypeOK, LeaseShape,
     SamePlan, PlanLifecycle
<1>10. ASSUME NEW a \in Agents, NEW t \in Tasks, NEW k \in known[a], ReleaseTask(t, k)
      PROVE PlanLifecycle'
  BY <1>10, PlanTasksAssumption DEF ReleaseTask, WriteRow, HoldsLease, PlanOpen, TypeOK,
     LeaseShape, SamePlan, PlanLifecycle
<1>11. ASSUME NEW a \in Agents, NEW t \in Tasks, NEW k \in TokenArg(a),
          BlockTask(t, k) \/ CancelTask(t, k)
      PROVE PlanLifecycle'
  BY <1>11, PlanTasksAssumption DEF BlockTask, CancelTask, WriteRow, PlanOpen, TypeOK,
     LeaseShape, SamePlan, PlanLifecycle
<1>12. ASSUME NEW a \in Agents, NEW t \in Tasks, NEW k \in TokenArg(a),
          NEW s \in {"in_progress", "in_review"}, AdvanceTask(t, k, s)
      PROVE PlanLifecycle'
  BY <1>12, PlanTasksAssumption DEF AdvanceTask, PlanOpen, TypeOK, LeaseShape, SamePlan,
     PlanLifecycle
<1>13. ASSUME NEW a \in Agents, NEW t \in Tasks, NEW k \in TokenArg(a), UnblockTask(t, k)
      PROVE PlanLifecycle'
  BY <1>13, PlanTasksAssumption DEF UnblockTask, PlanOpen, TypeOK, LeaseShape, SamePlan,
     PlanLifecycle
<1>14. ASSUME NEW a \in Agents, NEW t \in Tasks, NEW k \in TokenArg(a), CompleteTask(a, t, k)
      PROVE PlanLifecycle'
  BY <1>14, PlanTasksAssumption DEF CompleteTask, CompleteAllowed, PlanOpen, Unlocked,
     TypeOK, LeaseShape, SamePlan, PlanLifecycle
<1>15. ASSUME Tick
      PROVE PlanLifecycle'
  BY <1>15, PlanTasksAssumption DEF Tick, TypeOK, LeaseShape, SamePlan, PlanLifecycle
<1>16. ASSUME NEW a \in Agents, Crash(a) \/ DropStaleTokens(a)
      PROVE PlanLifecycle'
  BY <1>16, PlanTasksAssumption DEF Crash, DropStaleTokens, rowVars, TypeOK, LeaseShape,
     SamePlan, PlanLifecycle
<1>17. CASE UNCHANGED vars
  BY <1>17, PlanTasksAssumption DEF vars, rowVars, TypeOK, LeaseShape, SamePlan,
     PlanLifecycle
<1> QED
  BY <1>1, <1>2, <1>3, <1>4, <1>5, <1>6, <1>7, <1>8, <1>9, <1>10, <1>11, <1>12, <1>13,
     <1>14, <1>15, <1>16, <1>17 DEF Next, PlanNext, WorkNext

(* Nothing is offered, worked on or completed before its prerequisites.     *)
LEMMA StartedPrereqsDoneStep ==
  ASSUME TypeOK, LeaseShape, SamePlan, StartedPrereqsDone, [Next]_vars
  PROVE  StartedPrereqsDone'
<1>1. ASSUME NEW p \in Plans, CreatePlan(p)
      PROVE StartedPrereqsDone'
  BY <1>1, PlanTasksAssumption DEF CreatePlan, rowVars, TypeOK, LeaseShape, SamePlan,
     StartedPrereqsDone, PrereqsDone, Prereqs
<1>2. ASSUME NEW p \in Plans, ActivatePlan(p)
      PROVE StartedPrereqsDone'
  BY <1>2, PlanTasksAssumption DEF ActivatePlan, TypeOK, LeaseShape, SamePlan,
     StartedPrereqsDone, PrereqsDone, Prereqs
<1>3. ASSUME NEW p \in Plans, ArchivePlan(p)
      PROVE StartedPrereqsDone'
  BY <1>3, PlanTasksAssumption DEF ArchivePlan, TypeOK, LeaseShape, SamePlan,
     StartedPrereqsDone, PrereqsDone, Prereqs
<1>4. ASSUME NEW p \in Plans, CompletePlan(p)
      PROVE StartedPrereqsDone'
  BY <1>4, PlanTasksAssumption DEF CompletePlan, rowVars, TasksIn, TypeOK, LeaseShape,
     SamePlan, StartedPrereqsDone, PrereqsDone, Prereqs
<1>5. ASSUME NEW p \in Plans, NEW T \in SUBSET Tasks, NEW E \in SUBSET (T \X T),
          CreatePlanWithTasks(p, T, E)
      PROVE StartedPrereqsDone'
  BY <1>5, PlanTasksAssumption DEF CreatePlanWithTasks, TypeOK, LeaseShape, SamePlan,
     StartedPrereqsDone, PrereqsDone, Prereqs
<1>6. ASSUME NEW p \in Plans, NEW t \in Tasks, AddPlanTask(p, t)
      PROVE StartedPrereqsDone'
  BY <1>6, PlanTasksAssumption DEF AddPlanTask, TypeOK, LeaseShape, SamePlan,
     StartedPrereqsDone, PrereqsDone, Prereqs
<1>7. ASSUME NEW t \in Tasks, NEW d \in Tasks, AddTaskDependency(t, d)
      PROVE StartedPrereqsDone'
  BY <1>7, PlanTasksAssumption DEF AddTaskDependency, PlanOpen, TypeOK, LeaseShape,
     SamePlan, StartedPrereqsDone, PrereqsDone, Prereqs
<1>8. ASSUME NEW a \in Agents, NEW t \in Tasks, NEW k \in Tokens, NEW secs \in 1..MaxLease,
          ClaimTask(a, t, k, secs) \/ ClaimTaskResponseLost(a, t, k, secs)
      PROVE StartedPrereqsDone'
  BY <1>8, PlanTasksAssumption DEF ClaimTask, ClaimTaskResponseLost, ClaimRow, WriteRow,
     ClaimAllowed, TypeOK, LeaseShape, SamePlan, StartedPrereqsDone, PrereqsDone,
     Prereqs
<1>9. ASSUME NEW a \in Agents, NEW t \in Tasks, NEW k \in known[a], NEW secs \in 1..MaxLease,
          HeartbeatTask(t, k, secs)
      PROVE StartedPrereqsDone'
  BY <1>9, PlanTasksAssumption DEF HeartbeatTask, HoldsLease, TypeOK, LeaseShape,
     SamePlan, StartedPrereqsDone, PrereqsDone, Prereqs
<1>10. ASSUME NEW a \in Agents, NEW t \in Tasks, NEW k \in known[a], ReleaseTask(t, k)
      PROVE StartedPrereqsDone'
  BY <1>10, PlanTasksAssumption DEF ReleaseTask, WriteRow, HoldsLease, PlanOpen, TypeOK,
     LeaseShape, SamePlan, StartedPrereqsDone, PrereqsDone, Prereqs
<1>11. ASSUME NEW a \in Agents, NEW t \in Tasks, NEW k \in TokenArg(a),
          BlockTask(t, k) \/ CancelTask(t, k)
      PROVE StartedPrereqsDone'
  BY <1>11, PlanTasksAssumption DEF BlockTask, CancelTask, WriteRow, PlanOpen, TypeOK,
     LeaseShape, SamePlan, StartedPrereqsDone, PrereqsDone, Prereqs
<1>12. ASSUME NEW a \in Agents, NEW t \in Tasks, NEW k \in TokenArg(a),
          NEW s \in {"in_progress", "in_review"}, AdvanceTask(t, k, s)
      PROVE StartedPrereqsDone'
  BY <1>12, PlanTasksAssumption DEF AdvanceTask, PlanOpen, TypeOK, LeaseShape, SamePlan,
     StartedPrereqsDone, PrereqsDone, Prereqs
<1>13. ASSUME NEW a \in Agents, NEW t \in Tasks, NEW k \in TokenArg(a), UnblockTask(t, k)
      PROVE StartedPrereqsDone'
  BY <1>13, PlanTasksAssumption DEF UnblockTask, PlanOpen, TypeOK, LeaseShape, SamePlan,
     StartedPrereqsDone, PrereqsDone, Prereqs
<1>14. ASSUME NEW a \in Agents, NEW t \in Tasks, NEW k \in TokenArg(a), CompleteTask(a, t, k)
      PROVE StartedPrereqsDone'
  BY <1>14, PlanTasksAssumption DEF CompleteTask, CompleteAllowed, PlanOpen, Unlocked,
     TypeOK, LeaseShape, SamePlan, StartedPrereqsDone, PrereqsDone, Prereqs
<1>15. ASSUME Tick
      PROVE StartedPrereqsDone'
  BY <1>15, PlanTasksAssumption DEF Tick, TypeOK, LeaseShape, SamePlan,
     StartedPrereqsDone, PrereqsDone, Prereqs
<1>16. ASSUME NEW a \in Agents, Crash(a) \/ DropStaleTokens(a)
      PROVE StartedPrereqsDone'
  BY <1>16, PlanTasksAssumption DEF Crash, DropStaleTokens, rowVars, TypeOK, LeaseShape,
     SamePlan, StartedPrereqsDone, PrereqsDone, Prereqs
<1>17. CASE UNCHANGED vars
  BY <1>17, PlanTasksAssumption DEF vars, rowVars, TypeOK, LeaseShape, SamePlan,
     StartedPrereqsDone, PrereqsDone, Prereqs
<1> QED
  BY <1>1, <1>2, <1>3, <1>4, <1>5, <1>6, <1>7, <1>8, <1>9, <1>10, <1>11, <1>12, <1>13,
     <1>14, <1>15, <1>16, <1>17 DEF Next, PlanNext, WorkNext

(* No lost wake-up.                                                         *)
LEMMA NoMissedUnlockStep ==
  ASSUME TypeOK, LeaseShape, SamePlan, PlanLifecycle, NoMissedUnlock, [Next]_vars
  PROVE  NoMissedUnlock'
<1>1. ASSUME NEW p \in Plans, CreatePlan(p)
      PROVE NoMissedUnlock'
  BY <1>1, PlanTasksAssumption DEF CreatePlan, rowVars, TypeOK, LeaseShape, SamePlan,
     PlanLifecycle, NoMissedUnlock, PrereqsDone, Prereqs
<1>2. ASSUME NEW p \in Plans, ActivatePlan(p)
      PROVE NoMissedUnlock'
  BY <1>2, PlanTasksAssumption DEF ActivatePlan, TypeOK, LeaseShape, SamePlan,
     PlanLifecycle, NoMissedUnlock, PrereqsDone, Prereqs
<1>3. ASSUME NEW p \in Plans, ArchivePlan(p)
      PROVE NoMissedUnlock'
  BY <1>3, PlanTasksAssumption DEF ArchivePlan, TypeOK, LeaseShape, SamePlan,
     PlanLifecycle, NoMissedUnlock, PrereqsDone, Prereqs
<1>4. ASSUME NEW p \in Plans, CompletePlan(p)
      PROVE NoMissedUnlock'
  BY <1>4, PlanTasksAssumption DEF CompletePlan, rowVars, TasksIn, TypeOK, LeaseShape,
     SamePlan, PlanLifecycle, NoMissedUnlock, PrereqsDone, Prereqs
<1>5. ASSUME NEW p \in Plans, NEW T \in SUBSET Tasks, NEW E \in SUBSET (T \X T),
          CreatePlanWithTasks(p, T, E)
      PROVE NoMissedUnlock'
  BY <1>5, PlanTasksAssumption DEF CreatePlanWithTasks, TypeOK, LeaseShape, SamePlan,
     PlanLifecycle, NoMissedUnlock, PrereqsDone, Prereqs
<1>6. ASSUME NEW p \in Plans, NEW t \in Tasks, AddPlanTask(p, t)
      PROVE NoMissedUnlock'
  BY <1>6, PlanTasksAssumption DEF AddPlanTask, TypeOK, LeaseShape, SamePlan,
     PlanLifecycle, NoMissedUnlock, PrereqsDone, Prereqs
<1>7. ASSUME NEW t \in Tasks, NEW d \in Tasks, AddTaskDependency(t, d)
      PROVE NoMissedUnlock'
  BY <1>7, PlanTasksAssumption DEF AddTaskDependency, PlanOpen, TypeOK, LeaseShape,
     SamePlan, PlanLifecycle, NoMissedUnlock, PrereqsDone, Prereqs
<1>8. ASSUME NEW a \in Agents, NEW t \in Tasks, NEW k \in Tokens, NEW secs \in 1..MaxLease,
          ClaimTask(a, t, k, secs) \/ ClaimTaskResponseLost(a, t, k, secs)
      PROVE NoMissedUnlock'
  BY <1>8, PlanTasksAssumption DEF ClaimTask, ClaimTaskResponseLost, ClaimRow, WriteRow,
     ClaimAllowed, TypeOK, LeaseShape, SamePlan, PlanLifecycle, NoMissedUnlock,
     PrereqsDone, Prereqs
<1>9. ASSUME NEW a \in Agents, NEW t \in Tasks, NEW k \in known[a], NEW secs \in 1..MaxLease,
          HeartbeatTask(t, k, secs)
      PROVE NoMissedUnlock'
  BY <1>9, PlanTasksAssumption DEF HeartbeatTask, HoldsLease, TypeOK, LeaseShape,
     SamePlan, PlanLifecycle, NoMissedUnlock, PrereqsDone, Prereqs
<1>10. ASSUME NEW a \in Agents, NEW t \in Tasks, NEW k \in known[a], ReleaseTask(t, k)
      PROVE NoMissedUnlock'
  BY <1>10, PlanTasksAssumption DEF ReleaseTask, WriteRow, HoldsLease, PlanOpen, TypeOK,
     LeaseShape, SamePlan, PlanLifecycle, NoMissedUnlock, PrereqsDone, Prereqs
<1>11. ASSUME NEW a \in Agents, NEW t \in Tasks, NEW k \in TokenArg(a),
          BlockTask(t, k) \/ CancelTask(t, k)
      PROVE NoMissedUnlock'
  BY <1>11, PlanTasksAssumption DEF BlockTask, CancelTask, WriteRow, PlanOpen, TypeOK,
     LeaseShape, SamePlan, PlanLifecycle, NoMissedUnlock, PrereqsDone, Prereqs
<1>12. ASSUME NEW a \in Agents, NEW t \in Tasks, NEW k \in TokenArg(a),
          NEW s \in {"in_progress", "in_review"}, AdvanceTask(t, k, s)
      PROVE NoMissedUnlock'
  BY <1>12, PlanTasksAssumption DEF AdvanceTask, PlanOpen, TypeOK, LeaseShape, SamePlan,
     PlanLifecycle, NoMissedUnlock, PrereqsDone, Prereqs
<1>13. ASSUME NEW a \in Agents, NEW t \in Tasks, NEW k \in TokenArg(a), UnblockTask(t, k)
      PROVE NoMissedUnlock'
  BY <1>13, PlanTasksAssumption DEF UnblockTask, PlanOpen, TypeOK, LeaseShape, SamePlan,
     PlanLifecycle, NoMissedUnlock, PrereqsDone, Prereqs
<1>14. ASSUME NEW a \in Agents, NEW t \in Tasks, NEW k \in TokenArg(a), CompleteTask(a, t, k)
      PROVE NoMissedUnlock'
  <2> SUFFICES ASSUME NEW u \in Tasks, planOf'[u] # NoPlan, planStatus'[planOf'[u]] = "active",
                      status'[u] = "pending", PrereqsDone(u)'
               PROVE  FALSE
    BY DEF NoMissedUnlock
  <2>1. planOf' = planOf /\ planStatus' = planStatus /\ deps' = deps
    BY <1>14 DEF CompleteTask
  <2>2. u # t /\ u \notin Unlocked(t) /\ status[u] = "pending"
    BY <1>14 DEF CompleteTask
  <2>3. PICK d \in Tasks : <<u, d>> \in deps /\ status[d] # "completed"
    BY <2>1, <2>2 DEF NoMissedUnlock, PrereqsDone, Prereqs
  <2>4. \A e \in Tasks : <<u, e>> \in deps => status'[e] = "completed"
    BY <2>1 DEF PrereqsDone, Prereqs
  <2>5. \A e \in Tasks : e # t /\ status[e] # "completed" => status'[e] # "completed"
    BY <1>14 DEF CompleteTask
  <2>6. d = t
    BY <2>3, <2>4, <2>5
  <2>7. \A e \in Prereqs(u) : e = t \/ status[e] = "completed"
    BY <2>4, <2>5 DEF Prereqs
  <2> QED
    BY <2>2, <2>3, <2>6, <2>7 DEF Unlocked
<1>15. ASSUME Tick
      PROVE NoMissedUnlock'
  BY <1>15, PlanTasksAssumption DEF Tick, TypeOK, LeaseShape, SamePlan, PlanLifecycle,
     NoMissedUnlock, PrereqsDone, Prereqs
<1>16. ASSUME NEW a \in Agents, Crash(a) \/ DropStaleTokens(a)
      PROVE NoMissedUnlock'
  BY <1>16, PlanTasksAssumption DEF Crash, DropStaleTokens, rowVars, TypeOK, LeaseShape,
     SamePlan, PlanLifecycle, NoMissedUnlock, PrereqsDone, Prereqs
<1>17. CASE UNCHANGED vars
  BY <1>17, PlanTasksAssumption DEF vars, rowVars, TypeOK, LeaseShape, SamePlan,
     PlanLifecycle, NoMissedUnlock, PrereqsDone, Prereqs
<1> QED
  BY <1>1, <1>2, <1>3, <1>4, <1>5, <1>6, <1>7, <1>8, <1>9, <1>10, <1>11, <1>12, <1>13,
     <1>14, <1>15, <1>16, <1>17 DEF Next, PlanNext, WorkNext

(* The current token of a task is in no other hands than its claimant's.    *)
LEMMA ExclusiveHolderStep ==
  ASSUME TypeOK, ExclusiveHolder, [Next]_vars
  PROVE  ExclusiveHolder'
<1>1. ASSUME NEW p \in Plans, CreatePlan(p)
      PROVE ExclusiveHolder'
  BY <1>1, PlanTasksAssumption DEF CreatePlan, rowVars, TypeOK, ExclusiveHolder
<1>2. ASSUME NEW p \in Plans, ActivatePlan(p)
      PROVE ExclusiveHolder'
  BY <1>2, PlanTasksAssumption DEF ActivatePlan, TypeOK, ExclusiveHolder
<1>3. ASSUME NEW p \in Plans, ArchivePlan(p)
      PROVE ExclusiveHolder'
  BY <1>3, PlanTasksAssumption DEF ArchivePlan, TypeOK, ExclusiveHolder
<1>4. ASSUME NEW p \in Plans, CompletePlan(p)
      PROVE ExclusiveHolder'
  BY <1>4, PlanTasksAssumption DEF CompletePlan, rowVars, TasksIn, TypeOK,
     ExclusiveHolder
<1>5. ASSUME NEW p \in Plans, NEW T \in SUBSET Tasks, NEW E \in SUBSET (T \X T),
          CreatePlanWithTasks(p, T, E)
      PROVE ExclusiveHolder'
  BY <1>5, PlanTasksAssumption DEF CreatePlanWithTasks, TypeOK, ExclusiveHolder
<1>6. ASSUME NEW p \in Plans, NEW t \in Tasks, AddPlanTask(p, t)
      PROVE ExclusiveHolder'
  BY <1>6, PlanTasksAssumption DEF AddPlanTask, TypeOK, ExclusiveHolder
<1>7. ASSUME NEW t \in Tasks, NEW d \in Tasks, AddTaskDependency(t, d)
      PROVE ExclusiveHolder'
  BY <1>7, PlanTasksAssumption DEF AddTaskDependency, PlanOpen, TypeOK, ExclusiveHolder
<1>8. ASSUME NEW a \in Agents, NEW t \in Tasks, NEW k \in Tokens, NEW secs \in 1..MaxLease,
          ClaimTask(a, t, k, secs) \/ ClaimTaskResponseLost(a, t, k, secs)
      PROVE ExclusiveHolder'
  <2>1. k \in Tokens /\ k # NoToken
    BY PlanTasksAssumption
  <2>2. /\ \A b \in Agents : k \notin known[b]
        /\ \A u \in Tasks : tokenHash[u] # k
    BY <1>8 DEF ClaimTask, ClaimTaskResponseLost, ClaimRow, Fresh
  <2>3. /\ tokenHash' = [tokenHash EXCEPT ![t] = k]
        /\ claimedBy' = [claimedBy EXCEPT ![t] = a]
        /\ known' = [known EXCEPT ![a] = @ \cup {k}] \/ known' = known
    BY <1>8 DEF ClaimTask, ClaimTaskResponseLost, ClaimRow, WriteRow
  <2>4. ASSUME NEW u \in Tasks, tokenHash'[u] # NoToken,
               NEW b \in Agents, tokenHash'[u] \in known'[b]
        PROVE  b = claimedBy'[u]
    <3>1. CASE u = t
      <4>1. tokenHash'[u] = k /\ claimedBy'[u] = a
        BY <2>3, <3>1 DEF TypeOK
      <4>2. b = a
        BY <2>2, <2>3, <2>4, <4>1 DEF TypeOK
      <4> QED
        BY <4>1, <4>2
    <3>2. CASE u # t
      <4>1. tokenHash'[u] = tokenHash[u] /\ claimedBy'[u] = claimedBy[u]
        BY <2>3, <3>2 DEF TypeOK
      <4>2. tokenHash[u] \in known[b]
        BY <2>2, <2>3, <2>4, <4>1 DEF TypeOK
      <4> QED
        BY <2>4, <4>1, <4>2 DEF ExclusiveHolder
    <3> QED
      BY <3>1, <3>2
  <2>5. ASSUME NEW u \in Tasks, tokenHash'[u] # NoToken,
               NEW v \in Tasks, tokenHash'[v] = tokenHash'[u]
        PROVE  v = u
    BY <2>2, <2>3, <2>5 DEF TypeOK, ExclusiveHolder
  <2> QED
    BY <2>4, <2>5 DEF ExclusiveHolder
<1>9. ASSUME NEW a \in Agents, NEW t \in Tasks, NEW k \in known[a], NEW secs \in 1..MaxLease,
          HeartbeatTask(t, k, secs)
      PROVE ExclusiveHolder'
  BY <1>9, PlanTasksAssumption DEF HeartbeatTask, HoldsLease, TypeOK, ExclusiveHolder
<1>10. ASSUME NEW a \in Agents, NEW t \in Tasks, NEW k \in known[a], ReleaseTask(t, k)
      PROVE ExclusiveHolder'
  BY <1>10, PlanTasksAssumption DEF ReleaseTask, WriteRow, HoldsLease, PlanOpen, TypeOK,
     ExclusiveHolder
<1>11. ASSUME NEW a \in Agents, NEW t \in Tasks, NEW k \in TokenArg(a),
          BlockTask(t, k) \/ CancelTask(t, k)
      PROVE ExclusiveHolder'
  BY <1>11, PlanTasksAssumption DEF BlockTask, CancelTask, WriteRow, PlanOpen, TypeOK,
     ExclusiveHolder
<1>12. ASSUME NEW a \in Agents, NEW t \in Tasks, NEW k \in TokenArg(a),
          NEW s \in {"in_progress", "in_review"}, AdvanceTask(t, k, s)
      PROVE ExclusiveHolder'
  BY <1>12, PlanTasksAssumption DEF AdvanceTask, PlanOpen, TypeOK, ExclusiveHolder
<1>13. ASSUME NEW a \in Agents, NEW t \in Tasks, NEW k \in TokenArg(a), UnblockTask(t, k)
      PROVE ExclusiveHolder'
  BY <1>13, PlanTasksAssumption DEF UnblockTask, PlanOpen, TypeOK, ExclusiveHolder
<1>14. ASSUME NEW a \in Agents, NEW t \in Tasks, NEW k \in TokenArg(a), CompleteTask(a, t, k)
      PROVE ExclusiveHolder'
  BY <1>14, PlanTasksAssumption DEF CompleteTask, CompleteAllowed, PlanOpen, Unlocked,
     TypeOK, ExclusiveHolder
<1>15. ASSUME Tick
      PROVE ExclusiveHolder'
  BY <1>15, PlanTasksAssumption DEF Tick, TypeOK, ExclusiveHolder
<1>16. ASSUME NEW a \in Agents, Crash(a) \/ DropStaleTokens(a)
      PROVE ExclusiveHolder'
  BY <1>16, PlanTasksAssumption DEF Crash, DropStaleTokens, rowVars, TypeOK,
     ExclusiveHolder
<1>17. CASE UNCHANGED vars
  BY <1>17, PlanTasksAssumption DEF vars, rowVars, TypeOK, ExclusiveHolder
<1> QED
  BY <1>1, <1>2, <1>3, <1>4, <1>5, <1>6, <1>7, <1>8, <1>9, <1>10, <1>11, <1>12, <1>13,
     <1>14, <1>15, <1>16, <1>17 DEF Next, PlanNext, WorkNext

-----------------------------------------------------------------------------
(* The inductive invariant.  None of the safety properties is inductive alone:
   unlocking is right only if dependencies stay in one plan (SamePlan) and a
   draft has no started task (PlanLifecycle), which needs the lease columns to
   agree with the status (LeaseShape).                                      *)
IInv ==
    /\ TypeOK
    /\ LeaseShape
    /\ GraphOK
    /\ PlanLifecycle
    /\ StartedPrereqsDone
    /\ NoMissedUnlock
    /\ ExclusiveHolder

LEMMA Initial ==
  ASSUME Init
  PROVE  IInv
<1>1. TypeOK
  BY DEF Init, TypeOK
<1>2. LeaseShape /\ PlanLifecycle /\ StartedPrereqsDone /\ NoMissedUnlock
  BY DEF Init, LeaseShape, PlanLifecycle, StartedPrereqsDone, NoMissedUnlock
<1>3. GraphOK
  BY PlanTasksAssumption DEF Init, GraphOK, SamePlan, AcyclicPlans, Acyclic, TasksIn
<1>4. ExclusiveHolder
  BY DEF Init, ExclusiveHolder
<1> QED
  BY <1>1, <1>2, <1>3, <1>4 DEF IInv

\* Every step keeps the invariant; modules on top of PlanTasks cite this too.
LEMMA IInvStep ==
  ASSUME IInv, [Next]_vars
  PROVE  IInv'
BY TypeOKStep, LeaseShapeStep, SamePlanStep, AcyclicPlansStep, PlanLifecycleStep,
   StartedPrereqsDoneStep, NoMissedUnlockStep, ExclusiveHolderStep DEF IInv, GraphOK

(* After any sequence of calls, lost responses, crashes and clock steps, all of
   the service's invariants hold together.                                  *)
THEOREM Invariant == Spec => []IInv
<1>1. Init => IInv
  BY Initial
<1>2. IInv /\ [Next]_vars => IInv'
  BY IInvStep
<1> QED
  BY <1>1, <1>2, PTL DEF Spec

(* Leases never exceed MaxLease, and every column keeps its type.           *)
THEOREM TypeCorrect == Spec => []TypeOK
<1>1. IInv => TypeOK
  BY DEF IInv
<1> QED
  BY <1>1, Invariant, PTL

(* A task has a lease, a token and a claimant exactly while it is claimed, in
   progress or in review.                                                   *)
THEOREM LeaseColumnsAgree == Spec => []LeaseShape
<1>1. IInv => LeaseShape
  BY DEF IInv
<1> QED
  BY <1>1, Invariant, PTL

(* INV-PLAN-1: the dependencies of every plan form an acyclic graph inside it. *)
THEOREM DependenciesAreADag == Spec => []GraphOK
<1>1. IInv => GraphOK
  BY DEF IInv
<1> QED
  BY <1>1, Invariant, PTL

(* Drafts start nothing; completed and archived plans have nothing open.    *)
THEOREM LifecycleRespected == Spec => []PlanLifecycle
<1>1. IInv => PlanLifecycle
  BY DEF IInv
<1> QED
  BY <1>1, Invariant, PTL

(* No task is offered, worked on or completed before its prerequisites.     *)
THEOREM PrerequisitesFirst == Spec => []StartedPrereqsDone
<1>1. IInv => StartedPrereqsDone
  BY DEF IInv
<1> QED
  BY <1>1, Invariant, PTL

(* complete_task, activate_plan and add_task_dependency together never leave a
   task pending whose prerequisites are all completed.                      *)
THEOREM NoLostWakeup == Spec => []NoMissedUnlock
<1>1. IInv => NoMissedUnlock
  BY DEF IInv
<1> QED
  BY <1>1, Invariant, PTL

(* INV-PLAN-3: nobody but the recorded claimant knows a current token.      *)
THEOREM TokenExclusive == Spec => []ExclusiveHolder
<1>1. IInv => ExclusiveHolder
  BY DEF IInv
<1> QED
  BY <1>1, Invariant, PTL

-----------------------------------------------------------------------------
(* list_ready_tasks offers exactly the tasks claim_task accepts: the two
   conditions are written differently (a missing lease is claimable but not
   listed, a pending task is refused by name in one and only left out in the
   other), and LeaseShape is what makes them agree.                         *)
THEOREM ListAndClaimAgree == Spec => []ListAgreesWithClaim
<1>1. IInv => ListAgreesWithClaim
  <2> SUFFICES ASSUME IInv, NEW t \in Tasks PROVE t \in ListReady <=> ClaimAllowed(t)
    BY DEF ListAgreesWithClaim
  <2>1. lease[t] \in {NoLease} \cup 0..MaxLease
    BY DEF IInv, TypeOK
  <2>2. status[t] \in Held => lease[t] # NoLease
    BY DEF IInv, LeaseShape
  <2> QED
    BY <2>1, <2>2, PlanTasksAssumption DEF ListReady, ClaimAllowed, HasExpiredLease
<1> QED
  BY <1>1, Invariant, PTL

(* No deadlock in the graph: as long as a plan has a pending task, somebody can
   act on one of its tasks, or a pending one waits for a cancelled one.  The
   task to look at is a pending one without a pending prerequisite, which
   exists because the graph is acyclic.                                     *)
THEOREM PlansDoNotWedge == Spec => []NoStall
<1>1. IInv => NoStall
  <2> SUFFICES ASSUME IInv, NEW p \in Plans, planStatus[p] = "active",
                      \E t \in TasksIn(p) : status[t] = "pending"
               PROVE  \E t \in TasksIn(p) :
                        \/ Actionable(t)
                        \/ /\ status[t] = "pending"
                           /\ \E d \in Prereqs(t) : status[d] = "cancelled"
    BY DEF NoStall
  <2> DEFINE Waiting == {t \in TasksIn(p) : status[t] = "pending"}
  <2>1. PICK n \in Waiting : \A m \in Waiting : <<n, m>> \notin deps
    <3>1. Waiting \in SUBSET TasksIn(p) /\ Waiting # {}
      OBVIOUS
    <3> QED
      BY <3>1 DEF IInv, GraphOK, AcyclicPlans, Acyclic
  <2>2. n \in Tasks /\ planOf[n] = p /\ p # NoPlan /\ status[n] = "pending"
    BY PlanTasksAssumption DEF TasksIn
  <2>3. PICK d \in Prereqs(n) : status[d] # "completed"
    BY <2>2 DEF IInv, NoMissedUnlock, PrereqsDone
  <2>4. d \in TasksIn(p)
    BY <2>2, <2>3 DEF IInv, GraphOK, SamePlan, Prereqs, TasksIn
  <2>5. status[d] # "pending"
    BY <2>1, <2>3, <2>4 DEF Prereqs
  <2>6. status[d] # "none"
    BY <2>2, <2>4 DEF IInv, LeaseShape, TasksIn
  <2>7. status[d] \in TaskStatus
    BY <2>4 DEF IInv, TypeOK, TasksIn
  <2>8. Actionable(d) \/ status[d] = "cancelled"
    BY <2>3, <2>5, <2>6, <2>7 DEF Actionable
  <2> QED
    BY <2>2, <2>3, <2>4, <2>8 DEF TasksIn
<1> QED
  BY <1>1, Invariant, PTL

-----------------------------------------------------------------------------
(* No operator bypass: the lease of a lost token.                           *)
LEMMA LeaseRespectedStep ==
  ASSUME TypeOK, LeaseShape, [Next]_vars
  PROVE  LeaseRespectedBy
<1>1. ASSUME NEW p \in Plans, CreatePlan(p)
      PROVE LeaseRespectedBy
  BY <1>1, PlanTasksAssumption DEF CreatePlan, rowVars, TypeOK, LeaseShape,
     LeaseRespectedBy
<1>2. ASSUME NEW p \in Plans, ActivatePlan(p)
      PROVE LeaseRespectedBy
  BY <1>2, PlanTasksAssumption DEF ActivatePlan, TypeOK, LeaseShape, LeaseRespectedBy
<1>3. ASSUME NEW p \in Plans, ArchivePlan(p)
      PROVE LeaseRespectedBy
  BY <1>3, PlanTasksAssumption DEF ArchivePlan, TypeOK, LeaseShape, LeaseRespectedBy
<1>4. ASSUME NEW p \in Plans, CompletePlan(p)
      PROVE LeaseRespectedBy
  BY <1>4, PlanTasksAssumption DEF CompletePlan, rowVars, TasksIn, TypeOK, LeaseShape,
     LeaseRespectedBy
<1>5. ASSUME NEW p \in Plans, NEW T \in SUBSET Tasks, NEW E \in SUBSET (T \X T),
          CreatePlanWithTasks(p, T, E)
      PROVE LeaseRespectedBy
  BY <1>5, PlanTasksAssumption DEF CreatePlanWithTasks, TypeOK, LeaseShape,
     LeaseRespectedBy
<1>6. ASSUME NEW p \in Plans, NEW t \in Tasks, AddPlanTask(p, t)
      PROVE LeaseRespectedBy
  BY <1>6, PlanTasksAssumption DEF AddPlanTask, TypeOK, LeaseShape, LeaseRespectedBy
<1>7. ASSUME NEW t \in Tasks, NEW d \in Tasks, AddTaskDependency(t, d)
      PROVE LeaseRespectedBy
  BY <1>7, PlanTasksAssumption DEF AddTaskDependency, PlanOpen, TypeOK, LeaseShape,
     LeaseRespectedBy
<1>8. ASSUME NEW a \in Agents, NEW t \in Tasks, NEW k \in Tokens, NEW secs \in 1..MaxLease,
          ClaimTask(a, t, k, secs) \/ ClaimTaskResponseLost(a, t, k, secs)
      PROVE LeaseRespectedBy
  BY <1>8, PlanTasksAssumption DEF ClaimTask, ClaimTaskResponseLost, ClaimRow, WriteRow,
     ClaimAllowed, TypeOK, LeaseShape, LeaseRespectedBy
<1>9. ASSUME NEW a \in Agents, NEW t \in Tasks, NEW k \in known[a], NEW secs \in 1..MaxLease,
          HeartbeatTask(t, k, secs)
      PROVE LeaseRespectedBy
  BY <1>9, PlanTasksAssumption DEF HeartbeatTask, HoldsLease, TypeOK, LeaseShape,
     LeaseRespectedBy
<1>10. ASSUME NEW a \in Agents, NEW t \in Tasks, NEW k \in known[a], ReleaseTask(t, k)
      PROVE LeaseRespectedBy
  BY <1>10, PlanTasksAssumption DEF ReleaseTask, WriteRow, HoldsLease, PlanOpen, TypeOK,
     LeaseShape, LeaseRespectedBy
<1>11. ASSUME NEW a \in Agents, NEW t \in Tasks, NEW k \in TokenArg(a),
          BlockTask(t, k) \/ CancelTask(t, k)
      PROVE LeaseRespectedBy
  BY <1>11, PlanTasksAssumption DEF BlockTask, CancelTask, WriteRow, PlanOpen, TypeOK,
     LeaseShape, LeaseRespectedBy, LeaseAdmits, HasActiveLease, TokenArg
<1>12. ASSUME NEW a \in Agents, NEW t \in Tasks, NEW k \in TokenArg(a),
          NEW s \in {"in_progress", "in_review"}, AdvanceTask(t, k, s)
      PROVE LeaseRespectedBy
  BY <1>12, PlanTasksAssumption DEF AdvanceTask, PlanOpen, TypeOK, LeaseShape,
     LeaseRespectedBy, LeaseAdmits, HasActiveLease, TokenArg
<1>13. ASSUME NEW a \in Agents, NEW t \in Tasks, NEW k \in TokenArg(a), UnblockTask(t, k)
      PROVE LeaseRespectedBy
  BY <1>13, PlanTasksAssumption DEF UnblockTask, PlanOpen, TypeOK, LeaseShape,
     LeaseRespectedBy, LeaseAdmits, HasActiveLease, TokenArg
<1>14. ASSUME NEW a \in Agents, NEW t \in Tasks, NEW k \in TokenArg(a), CompleteTask(a, t, k)
      PROVE LeaseRespectedBy
  BY <1>14, PlanTasksAssumption DEF CompleteTask, CompleteAllowed, PlanOpen, Unlocked,
     TypeOK, LeaseShape, LeaseRespectedBy, LeaseAdmits, HasActiveLease, TokenArg
<1>15. ASSUME Tick
      PROVE LeaseRespectedBy
  BY <1>15, PlanTasksAssumption DEF Tick, TypeOK, LeaseShape, LeaseRespectedBy
<1>16. ASSUME NEW a \in Agents, Crash(a) \/ DropStaleTokens(a)
      PROVE LeaseRespectedBy
  BY <1>16, PlanTasksAssumption DEF Crash, DropStaleTokens, rowVars, TypeOK, LeaseShape,
     LeaseRespectedBy
<1>17. CASE UNCHANGED vars
  BY <1>17, PlanTasksAssumption DEF vars, rowVars, TypeOK, LeaseShape, LeaseRespectedBy
<1> QED
  BY <1>1, <1>2, <1>3, <1>4, <1>5, <1>6, <1>7, <1>8, <1>9, <1>10, <1>11, <1>12, <1>13,
     <1>14, <1>15, <1>16, <1>17 DEF Next, PlanNext, WorkNext

(* D20: while nobody knows the token of an active lease, only the clock and
   archive_plan change the task's row.                                      *)
THEOREM NoOperatorBypass == Spec => LeaseRespected
<1>1. IInv /\ [Next]_vars => [LeaseRespectedBy]_vars
  BY LeaseRespectedStep DEF IInv
<1> QED
  BY <1>1, Invariant, PTL DEF Spec, LeaseRespected

-----------------------------------------------------------------------------
(* Module PlanTasks implements module DagExecution.                          *)

Phases == [t \in Tasks |-> PhaseOf(status[t])]

(* What the mapping does to each status.                                    *)
LEMMA PhaseFacts ==
  /\ PhaseOf("none") = "absent"
  /\ PhaseOf("pending") = "todo" /\ PhaseOf("ready") = "todo"
  /\ \A s \in Held \cup {"blocked"} : PhaseOf(s) = "started"
  /\ PhaseOf("completed") = "done"
  /\ PhaseOf("cancelled") = "dropped"
<1>1. PhaseOf("none") = "absent"
  BY DEF PhaseOf
<1>2. PhaseOf("pending") = "todo" /\ PhaseOf("ready") = "todo"
  BY DEF PhaseOf
<1>3. \A s \in Held \cup {"blocked"} : PhaseOf(s) = "started"
  BY DEF PhaseOf
<1>4. PhaseOf("completed") = "done"
  BY DEF PhaseOf
<1>5. PhaseOf("cancelled") = "dropped"
  BY DEF PhaseOf
<1> QED
  BY <1>1, <1>2, <1>3, <1>4, <1>5

(* The per-plan cycle check is enough for the graph of all plans together:
   an edge never leaves its plan.                                           *)
LEMMA NoCycleAnywhere ==
  ASSUME TypeOK, LeaseShape, SamePlan, AcyclicPlans
  PROVE  Dag!NoCycle({u \in Tasks : Phases[u] # "absent"}, deps)
<1> SUFFICES ASSUME NEW S \in SUBSET {u \in Tasks : Phases[u] # "absent"}, S # {}
             PROVE  \E n \in S : \A m \in S : <<n, m>> \notin deps
  BY DEF Dag!NoCycle
<1>1. PICK x \in S : TRUE
  OBVIOUS
<1>2. x \in Tasks /\ planOf[x] \in Plans
  BY <1>1, PhaseFacts DEF TypeOK, LeaseShape, Phases
<1> DEFINE Q == TasksIn(planOf[x])
<1>3. S \cap Q \in SUBSET Q /\ S \cap Q # {}
  BY <1>1, <1>2 DEF TasksIn
<1>4. PICK n \in S \cap Q : \A m \in S \cap Q : <<n, m>> \notin deps
  BY <1>2, <1>3 DEF AcyclicPlans, Acyclic
<1>5. \A m \in S \ Q : <<n, m>> \notin deps
  BY <1>4 DEF SamePlan, TasksIn
<1> QED
  BY <1>4, <1>5

(* Each operation is a step of the graph, or leaves it alone.               *)
LEMMA PlanStepMaps ==
  ASSUME IInv, IInv', PlanNext
  PROVE  Dag!DagNext \/ UNCHANGED Dag!dagVars
<1>a. TypeOK /\ LeaseShape /\ TypeOK' /\ LeaseShape' /\ SamePlan' /\ AcyclicPlans'
  BY DEF IInv, GraphOK
<1>1. ASSUME NEW p \in Plans, CreatePlan(p) \/ CompletePlan(p)
      PROVE  UNCHANGED Dag!dagVars
  BY <1>1 DEF CreatePlan, CompletePlan, rowVars, Dag!dagVars
<1>2. ASSUME NEW p \in Plans, ActivatePlan(p)
      PROVE  UNCHANGED Dag!dagVars
  <2>1. \A t \in Tasks : PhaseOf(status'[t]) = PhaseOf(status[t])
    BY <1>2, PhaseFacts DEF ActivatePlan
  <2> QED
    BY <1>2, <2>1 DEF ActivatePlan, Dag!dagVars
<1>3. ASSUME NEW p \in Plans, ArchivePlan(p)
      PROVE  Dag!DagNext
  <2> DEFINE Open == {t \in Tasks : planOf[t] = p /\ status[t] \notin Terminal}
  <2>1. \A t \in Open : PhaseOf(status[t]) \in {"todo", "started"}
    BY <1>3, <1>a, PhaseFacts DEF TypeOK, TaskStatus, LeaseShape, ArchivePlan
  <2>2. \A t \in Tasks :
          PhaseOf(status'[t]) = IF t \in Open THEN "dropped" ELSE PhaseOf(status[t])
    BY <1>3, PhaseFacts DEF ArchivePlan
  <2>3. Dag!Drop(Open)
    BY <1>3, <2>1, <2>2 DEF ArchivePlan, Dag!Drop
  <2> QED
    BY <2>3 DEF Dag!DagNext
<1>4. ASSUME NEW p \in Plans, NEW T \in SUBSET Tasks, NEW E \in SUBSET (T \X T),
             CreatePlanWithTasks(p, T, E)
      PROVE  Dag!DagNext
  <2>1. \A t \in T : PhaseOf(status[t]) = "absent"
    BY <1>4, <1>a, PhaseFacts DEF CreatePlanWithTasks, LeaseShape
  <2>2. \A t \in Tasks :
          PhaseOf(status'[t]) = IF t \in T THEN "todo" ELSE PhaseOf(status[t])
    BY <1>4, PhaseFacts DEF CreatePlanWithTasks
  <2>3. Dag!Grow(T, E)
    BY <1>4, <2>1, <2>2 DEF CreatePlanWithTasks, Acyclic, Dag!Grow, Dag!NoCycle
  <2> QED
    BY <2>3 DEF Dag!DagNext
<1>5. ASSUME NEW p \in Plans, NEW t \in Tasks, AddPlanTask(p, t)
      PROVE  Dag!DagNext
  <2>1. PhaseOf(status[t]) = "absent"
    BY <1>5, <1>a, PhaseFacts DEF AddPlanTask, LeaseShape
  <2>2. \A u \in Tasks :
          PhaseOf(status'[u]) = IF u \in {t} THEN "todo" ELSE PhaseOf(status[u])
    BY <1>5, <1>a, PhaseFacts DEF AddPlanTask, TypeOK
  <2>3. Dag!NoCycle({t}, {})
    BY DEF Dag!NoCycle
  <2>4. Dag!Grow({t}, {})
    BY <1>5, <2>1, <2>2, <2>3 DEF AddPlanTask, Dag!Grow
  <2> QED
    BY <2>4 DEF Dag!DagNext
<1>6. ASSUME NEW t \in Tasks, NEW d \in Tasks, AddTaskDependency(t, d)
      PROVE  Dag!DagNext
  <2>1. \A u \in Tasks : PhaseOf(status'[u]) = PhaseOf(status[u])
    BY <1>6, <1>a, PhaseFacts DEF AddTaskDependency, TypeOK
  <2>2. PhaseOf(status[t]) = "todo"
    BY <1>6, PhaseFacts DEF AddTaskDependency
  <2>3. PhaseOf(status[d]) # "absent"
    BY <1>6, <1>a, PhaseFacts DEF AddTaskDependency, PlanOpen, LeaseShape, TypeOK, TaskStatus
  <2>4. Dag!NoCycle({u \in Tasks : Phases[u] # "absent"}, deps)'
    BY <1>a, NoCycleAnywhere, PTL
  <2>5. Dag!NoCycle({u \in Tasks : [v \in Tasks |-> PhaseOf(status[v])][u] # "absent"},
                    deps \cup {<<t, d>>})
    <3>1. deps' = deps \cup {<<t, d>>}
      BY <1>6 DEF AddTaskDependency
    <3>2. {u \in Tasks : Phases[u] # "absent"}'
            = {u \in Tasks : [v \in Tasks |-> PhaseOf(status[v])][u] # "absent"}
      BY <2>1 DEF Phases
    <3> QED
      BY <2>4, <3>1, <3>2 DEF Dag!NoCycle
  <2>6. Dag!Link(t, d)
    BY <1>6, <2>1, <2>2, <2>3, <2>5 DEF AddTaskDependency, Dag!Link
  <2> QED
    BY <2>6 DEF Dag!DagNext
<1> QED
  BY <1>1, <1>2, <1>3, <1>4, <1>5, <1>6 DEF PlanNext

LEMMA WorkStepMaps ==
  ASSUME IInv, WorkNext
  PROVE  Dag!DagNext \/ UNCHANGED Dag!dagVars
<1>a. TypeOK /\ LeaseShape
  BY DEF IInv
<1>1. ASSUME NEW a \in Agents, NEW t \in Tasks, NEW k \in Tokens,
             NEW secs \in 1..MaxLease, ClaimRow(a, t, k, secs)
      PROVE  Dag!DagNext \/ UNCHANGED Dag!dagVars
  <2>1. \A u \in Tasks :
          PhaseOf(status'[u]) = IF u = t THEN "started" ELSE PhaseOf(status[u])
    BY <1>1, <1>a, PhaseFacts DEF ClaimRow, WriteRow, TypeOK
  <2>2. CASE status[t] = "ready"
    <3>1. PhaseOf(status[t]) = "todo"
      BY <2>2, PhaseFacts
    <3>2. \A d \in Tasks : <<t, d>> \in deps => PhaseOf(status[d]) = "done"
      BY <1>1, PhaseFacts DEF ClaimRow, ClaimAllowed, PrereqsDone, Prereqs
    <3>3. Dag!Start(t)
      BY <1>1, <2>1, <3>1, <3>2 DEF ClaimRow, Dag!Start, Dag!DagPrereqs
    <3> QED
      BY <3>3 DEF Dag!DagNext
  <2>3. CASE status[t] \in Held
    <3>1. \A u \in Tasks : PhaseOf(status'[u]) = PhaseOf(status[u])
      BY <2>1, <2>3, PhaseFacts
    <3> QED
      BY <1>1, <3>1 DEF ClaimRow, Dag!dagVars
  <2> QED
    BY <1>1, <2>2, <2>3 DEF ClaimRow, ClaimAllowed
<1>2. ASSUME NEW t \in Tasks, NEW k \in Tokens, NEW secs \in 1..MaxLease,
             HeartbeatTask(t, k, secs)
      PROVE  UNCHANGED Dag!dagVars
  BY <1>2 DEF HeartbeatTask, Dag!dagVars
<1>3. ASSUME NEW t \in Tasks, NEW k \in Tokens \cup {NoToken},
             ReleaseTask(t, k) \/ UnblockTask(t, k)
      PROVE  Dag!DagNext
  <2>1. PhaseOf(status[t]) = "started"
    BY <1>3, PhaseFacts DEF ReleaseTask, UnblockTask
  <2>2. \A u \in Tasks :
          PhaseOf(status'[u]) = IF u = t THEN "todo" ELSE PhaseOf(status[u])
    BY <1>3, <1>a, PhaseFacts DEF ReleaseTask, UnblockTask, WriteRow, TypeOK
  <2>3. Dag!GiveUp(t)
    BY <1>3, <2>1, <2>2 DEF ReleaseTask, UnblockTask, Dag!GiveUp
  <2> QED
    BY <2>3 DEF Dag!DagNext
<1>4. ASSUME NEW t \in Tasks, NEW k \in Tokens \cup {NoToken},
             \/ \E s \in {"in_progress", "in_review"} : AdvanceTask(t, k, s)
             \/ BlockTask(t, k)
      PROVE  UNCHANGED Dag!dagVars
  <2>1. \A u \in Tasks : PhaseOf(status'[u]) = PhaseOf(status[u])
    BY <1>4, <1>a, PhaseFacts DEF AdvanceTask, BlockTask, WriteRow, TypeOK
  <2> QED
    BY <1>4, <2>1 DEF AdvanceTask, BlockTask, Dag!dagVars
<1>5. ASSUME NEW t \in Tasks, NEW k \in Tokens \cup {NoToken}, CancelTask(t, k)
      PROVE  Dag!DagNext
  <2>1. PhaseOf(status[t]) \in {"todo", "started"}
    BY <1>5, <1>a, PhaseFacts DEF CancelTask, PlanOpen, LeaseShape, TypeOK, TaskStatus
  <2>2. \A u \in Tasks :
          PhaseOf(status'[u]) = IF u \in {t} THEN "dropped" ELSE PhaseOf(status[u])
    BY <1>5, <1>a, PhaseFacts DEF CancelTask, WriteRow, TypeOK
  <2>3. Dag!Drop({t})
    BY <1>5, <2>1, <2>2 DEF CancelTask, Dag!Drop
  <2> QED
    BY <2>3 DEF Dag!DagNext
<1>6. ASSUME NEW a \in Agents, NEW t \in Tasks, NEW k \in Tokens \cup {NoToken},
             CompleteTask(a, t, k)
      PROVE  Dag!DagNext
  <2>1. PhaseOf(status[t]) = "started"
    BY <1>6, PhaseFacts DEF CompleteTask, CompleteAllowed
  <2>2. \A u \in Tasks :
          PhaseOf(status'[u]) = IF u = t THEN "done" ELSE PhaseOf(status[u])
    BY <1>6, PhaseFacts DEF CompleteTask, Unlocked
  <2>3. Dag!Finish(t)
    BY <1>6, <2>1, <2>2 DEF CompleteTask, Dag!Finish
  <2> QED
    BY <2>3 DEF Dag!DagNext
<1>7. \A a \in Agents : known[a] \subseteq Tokens
  BY <1>a DEF TypeOK
<1> QED
  BY <1>1, <1>2, <1>3, <1>4, <1>5, <1>6, <1>7
     DEF WorkNext, ClaimTask, ClaimTaskResponseLost, TokenArg

(* Whatever clients, leases and plans do, for any number of plans, tasks,
   agents and tokens: a task starts only after its prerequisites, what is done
   stays done, and no prerequisite is added under started work.             *)
THEOREM Refinement == Spec => ImplementsDag
<1>1. Init => Dag!DagInit
  BY PhaseFacts DEF Init, Dag!DagInit
<1>2. IInv /\ IInv' /\ [Next]_vars => [Dag!DagNext]_(Dag!dagVars)
  <2> SUFFICES ASSUME IInv, IInv', [Next]_vars
               PROVE  Dag!DagNext \/ UNCHANGED Dag!dagVars
    OBVIOUS
  <2>1. CASE PlanNext
    BY <2>1, PlanStepMaps
  <2>2. CASE WorkNext
    BY <2>2, WorkStepMaps
  <2>3. CASE Tick \/ \E a \in Agents : Crash(a) \/ DropStaleTokens(a)
    BY <2>3 DEF Tick, Crash, DropStaleTokens, rowVars, Dag!dagVars
  <2>4. CASE UNCHANGED vars
    BY <2>4 DEF vars, Dag!dagVars
  <2> QED
    BY <2>1, <2>2, <2>3, <2>4 DEF Next
<1> QED
  BY <1>1, <1>2, Invariant, PTL DEF Spec, ImplementsDag, Dag!DagSpec

-----------------------------------------------------------------------------
(* Sums over finite sets.  SumOver folds along an arbitrary choice of members;   *)
(* it counts the units of f over the set.                                   *)

Units(f, S) == {p \in S \X (1 .. MaxCopies) : p[2] <= f[p[1]]}
Copies(f, S) == \A x \in S : f[x] \in 0 .. MaxCopies
Some(s) == CHOOSE x \in s : TRUE
Sums(f, S, g) ==
    g = [s \in SUBSET S |-> IF s = {} THEN 0 ELSE f[Some(s)] + g[s \ {Some(s)}]]

LEMMA FiniteRange ==
  ASSUME NEW n \in Nat
  PROVE  IsFiniteSet(1 .. n) /\ Cardinality(1 .. n) = n
<1>1. IsFiniteSet(1 .. n) /\ Cardinality(1 .. n) = IF 1 > n THEN 0 ELSE n - 1 + 1
  <2>1. 1 \in Int /\ n \in Int
    OBVIOUS
  <2> QED
    BY <2>1, FS_Interval
<1> QED
  BY <1>1

LEMMA SumOverIs ==
  ASSUME NEW f, NEW S
  PROVE  SumOver(f, S) = (CHOOSE g : Sums(f, S, g))[S]
BY DEF SumOver, MapThenSumSet, MapThenFoldSet, Sums, Some

\* The units of one member more.
LEMMA UnitsGrow ==
  ASSUME NEW f, NEW S, IsFiniteSet(S), Copies(f, S), NEW x \in S
  PROVE  /\ Cardinality(Units(f, S)) \in Nat
         /\ Cardinality(Units(f, S)) = f[x] + Cardinality(Units(f, S \ {x}))
<1>1. MaxCopies \in Nat /\ f[x] \in Nat /\ f[x] <= MaxCopies
  BY KahnAssumption DEF Copies
<1>2. IsFiniteSet(S \X (1 .. MaxCopies))
  BY <1>1, FS_Product, FiniteRange
<1>3. Units(f, S) \in SUBSET (S \X (1 .. MaxCopies))
  BY DEF Units
<1>4. IsFiniteSet(Units(f, S)) /\ Cardinality(Units(f, S)) \in Nat
  BY <1>2, <1>3, FS_Subset, FS_CardinalityType
<1> DEFINE here == {x} \X (1 .. f[x])
           rest == Units(f, S \ {x})
<1>5. Units(f, S) = rest \cup here
  BY <1>1 DEF Units
<1>6. rest \cap here = {}
  BY DEF Units
<1>7. IsFiniteSet(here) /\ Cardinality(here) = f[x]
  <2>1. IsFiniteSet({x}) /\ Cardinality({x}) = 1
    BY FS_Singleton
  <2>2. IsFiniteSet(1 .. f[x]) /\ Cardinality(1 .. f[x]) = f[x]
    BY <1>1, FiniteRange
  <2>3. IsFiniteSet(here) /\ Cardinality(here) = 1 * f[x]
    <3>1. PICK I : I = 1 .. f[x]
      OBVIOUS
    <3>2. IsFiniteSet({x} \X I) /\ Cardinality({x} \X I) = Cardinality({x}) * Cardinality(I)
      BY <2>1, <2>2, <3>1, FS_Product
    <3> QED
      BY <2>1, <2>2, <3>1, <3>2
  <2> QED
    BY <1>1, <2>3
<1>8. IsFiniteSet(rest)
  <2>1. rest \in SUBSET Units(f, S)
    BY <1>5
  <2> QED
    BY <1>4, <2>1, FS_Subset
<1> HIDE DEF here, rest
<1>9. Cardinality(Units(f, S)) = Cardinality(rest) + Cardinality(here) - Cardinality({})
  BY <1>5, <1>6, <1>7, <1>8, FS_Union
<1>10. Cardinality({}) = 0 /\ Cardinality(rest) \in Nat
  BY <1>8, FS_EmptySet, FS_CardinalityType
<1> QED
  BY <1>1, <1>4, <1>7, <1>9, <1>10 DEF rest

\* Counting units is a way of summing.
LEMMA SumsExist ==
  ASSUME NEW f, NEW S, IsFiniteSet(S), Copies(f, S)
  PROVE  Sums(f, S, [s \in SUBSET S |-> Cardinality(Units(f, s))])
<1> DEFINE g == [s \in SUBSET S |-> Cardinality(Units(f, s))]
<1>1. ASSUME NEW s \in SUBSET S
      PROVE  g[s] = IF s = {} THEN 0 ELSE f[Some(s)] + g[s \ {Some(s)}]
  <2>1. CASE s = {}
    <3>1. Units(f, {}) = {}
      BY DEF Units
    <3> QED
      BY <2>1, <3>1, FS_EmptySet
  <2>2. CASE s # {}
    <3>1. Some(s) \in s
      BY <2>2 DEF Some
    <3>2. IsFiniteSet(s) /\ Copies(f, s)
      BY FS_Subset DEF Copies
    <3>3. Cardinality(Units(f, s)) = f[Some(s)] + Cardinality(Units(f, s \ {Some(s)}))
      BY <3>1, <3>2, UnitsGrow
    <3> QED
      BY <2>2, <3>3
  <2> QED
    BY <2>1, <2>2
<1>2. g = [s \in SUBSET S |-> g[s]]
  OBVIOUS
<1> HIDE DEF g
<1>3. g = [s \in SUBSET S |-> IF s = {} THEN 0 ELSE f[Some(s)] + g[s \ {Some(s)}]]
  BY <1>1, <1>2
<1> QED
  BY <1>3 DEF Sums, g

\* There is no other way: a least set on which two ways differ cannot be.
LEMMA SumsUnique ==
  ASSUME NEW f, NEW S, IsFiniteSet(S), NEW g, Sums(f, S, g), NEW h, Sums(f, S, h),
         NEW s \in SUBSET S
  PROVE  g[s] = h[s]
<1> DEFINE R == {ss \in Nat \X Nat : ss[1] < ss[2]}
           T == {n \in Nat : \E t \in SUBSET S : Cardinality(t) = n /\ g[t] # h[t]}
<1>1. IsWellFoundedOn(R, Nat)
  BY NatLessThanWellFounded DEF OpToRel
<1>2. \A t \in SUBSET S : IsFiniteSet(t) /\ Cardinality(t) \in Nat
  BY FS_Subset, FS_CardinalityType
<1>3. T = {}
  <2> SUFFICES ASSUME T # {} PROVE FALSE
    OBVIOUS
  <2>1. PICK n \in T : \A m \in T : <<m, n>> \notin R
    <3>1. T \subseteq Nat
      OBVIOUS
    <3> HIDE DEF T, R
    <3> QED
      BY <1>1, <3>1, WFMin
  <2>2. PICK t \in SUBSET S : Cardinality(t) = n /\ g[t] # h[t]
    OBVIOUS
  <2>3. /\ g[t] = IF t = {} THEN 0 ELSE f[Some(t)] + g[t \ {Some(t)}]
        /\ h[t] = IF t = {} THEN 0 ELSE f[Some(t)] + h[t \ {Some(t)}]
    BY DEF Sums
  <2>4. t # {}
    BY <2>2, <2>3
  <2>5. Some(t) \in t
    BY <2>4 DEF Some
  <2> DEFINE u == t \ {Some(t)}
  <2>6. u \in SUBSET S /\ Cardinality(u) = n - 1 /\ Cardinality(u) \in Nat /\ n \in Nat
    BY <1>2, <2>2, <2>5, FS_RemoveElement
  <2>7. g[u] = h[u]
    <3> SUFFICES ASSUME g[u] # h[u] PROVE FALSE
      OBVIOUS
    <3>1. Cardinality(u) \in T
      BY <2>6
    <3>2. <<Cardinality(u), n>> \in R
      BY <2>6
    <3> QED
      BY <2>1, <3>1, <3>2
  <2> QED
    BY <2>2, <2>3, <2>4, <2>7
<1> QED
  BY <1>2, <1>3

LEMMA SumCounts ==
  ASSUME NEW f, NEW S, IsFiniteSet(S), Copies(f, S)
  PROVE  SumOver(f, S) = Cardinality(Units(f, S))
<1> DEFINE g == [s \in SUBSET S |-> Cardinality(Units(f, s))]
           h == CHOOSE x : Sums(f, S, x)
<1>1. Sums(f, S, g)
  BY SumsExist
<1>2. Sums(f, S, h)
  BY <1>1
<1>3. g[S] = Cardinality(Units(f, S))
  OBVIOUS
<1>4. SumOver(f, S) = h[S]
  BY SumOverIs
<1> HIDE DEF g, h
<1>5. g[S] = h[S]
  BY <1>1, <1>2, SumsUnique
<1> QED
  BY <1>3, <1>4, <1>5

\* One member less, and the sum that is zero.
LEMMA SumFacts ==
  ASSUME NEW f, NEW S, IsFiniteSet(S), Copies(f, S)
  PROVE  /\ SumOver(f, S) \in Nat
         /\ \A x \in S : SumOver(f, S) = f[x] + SumOver(f, S \ {x})
         /\ SumOver(f, S) = 0 <=> \A x \in S : f[x] = 0
<1>1. SumOver(f, S) = Cardinality(Units(f, S))
  BY SumCounts
<1>2. IsFiniteSet(Units(f, S))
  <2>1. IsFiniteSet(S \X (1 .. MaxCopies))
    BY KahnAssumption, FS_Product, FiniteRange
  <2>2. Units(f, S) \in SUBSET (S \X (1 .. MaxCopies))
    BY DEF Units
  <2> QED
    BY <2>1, <2>2, FS_Subset
<1>3. SumOver(f, S) \in Nat
  BY <1>1, <1>2, FS_CardinalityType
<1>4. ASSUME NEW x \in S PROVE SumOver(f, S) = f[x] + SumOver(f, S \ {x})
  <2>1. IsFiniteSet(S \ {x}) /\ Copies(f, S \ {x})
    BY FS_RemoveElement DEF Copies
  <2>2. SumOver(f, S \ {x}) = Cardinality(Units(f, S \ {x}))
    BY <2>1, SumCounts
  <2> QED
    BY <1>1, <2>2, UnitsGrow
<1>5. SumOver(f, S) = 0 <=> Units(f, S) = {}
  BY <1>1, <1>2, FS_EmptySet
<1>6. Units(f, S) = {} <=> \A x \in S : f[x] = 0
  <2>1. ASSUME NEW x \in S, f[x] # 0 PROVE <<x, 1>> \in Units(f, S)
    BY <2>1, KahnAssumption DEF Units, Copies
  <2>2. ASSUME NEW p \in Units(f, S), \A x \in S : f[x] = 0 PROVE FALSE
    <3>1. p[1] \in S /\ p[2] \in 1 .. MaxCopies /\ p[2] <= f[p[1]]
      BY DEF Units
    <3>2. f[p[1]] = 0
      BY <2>2, <3>1
    <3> QED
      BY <3>1, <3>2
  <2> QED
    BY <2>1, <2>2
<1> QED
  BY <1>3, <1>4, <1>5, <1>6

-----------------------------------------------------------------------------
(* The queue algorithm.                                                     *)

\* What a round of the loop finds, V being the nodes visited so far: they need
\* nothing but each other and have no cycle, each other node counts its
\* prerequisites among the nodes not visited, and waits in the queue at zero.
Round(V) ==
    /\ visited = Cardinality(V)
    /\ inDegree = [v \in nodes |-> SumOver(edges, {v} \X (nodes \ V))]
    /\ queue = {v \in nodes \ V : inDegree[v] = 0}
    /\ \A n \in V, m \in nodes : <<n, m>> \in EdgeSet => m \in V
    /\ \A S \in SUBSET V : S # {} => \E n \in S : \A m \in S : <<n, m>> \notin EdgeSet

KahnInv ==
    /\ nodes \in SUBSET Ids
    /\ edges \in [Ids \X Ids -> 0 .. MaxCopies]
    /\ result \in {"running", "accepted", "rejected"}
    /\ DecidesAcyclic
    /\ result = "running" => /\ \A i \in Ids : <<i, i>> \notin EdgeSet
                             /\ \E V \in SUBSET nodes : Round(V)

\* The prerequisites of v among the nodes of A.
LEMMA DegreeFacts ==
  ASSUME KahnInv, NEW A \in SUBSET nodes, NEW v \in nodes
  PROVE  /\ SumOver(edges, {v} \X A) \in Nat
         /\ \A u \in A : SumOver(edges, {v} \X A) = edges[<<v, u>>] + SumOver(edges, {v} \X (A \ {u}))
         /\ SumOver(edges, {v} \X A) = 0 <=> \A u \in A : <<v, u>> \notin EdgeSet
<1> DEFINE P == {v} \X A
<1>1. nodes \in SUBSET Ids /\ edges \in [Ids \X Ids -> 0 .. MaxCopies]
  BY DEF KahnInv
<1>2. IsFiniteSet(P)
  <2>1. A \in SUBSET Ids
    BY <1>1
  <2>2. IsFiniteSet(A)
    BY <2>1, KahnAssumption, FS_Subset
  <2> QED
    BY <2>2, FS_Singleton, FS_Product
<1>3. \A p \in P : p \in Ids \X Ids
  BY <1>1
<1>4. Copies(edges, P)
  BY <1>1, <1>3 DEF Copies
<1>5. \A p \in P : edges[p] = 0 <=> p \notin EdgeSet
  BY <1>1, <1>3, KahnAssumption DEF EdgeSet
<1>6. \A u \in A : <<v, u>> \in P /\ P \ {<<v, u>>} = {v} \X (A \ {u})
  OBVIOUS
<1>7. \A p \in P : \E u \in A : p = <<v, u>>
  OBVIOUS
<1>8. /\ SumOver(edges, P) \in Nat
      /\ \A p \in P : SumOver(edges, P) = edges[p] + SumOver(edges, P \ {p})
      /\ SumOver(edges, P) = 0 <=> \A p \in P : edges[p] = 0
  <2> HIDE DEF P
  <2> QED
    BY <1>2, <1>4, SumFacts
<1>9. ASSUME NEW u \in A
      PROVE  SumOver(edges, P) = edges[<<v, u>>] + SumOver(edges, {v} \X (A \ {u}))
  <2>1. SumOver(edges, P) = edges[<<v, u>>] + SumOver(edges, P \ {<<v, u>>})
    BY <1>6, <1>8
  <2> QED
    BY <1>6, <2>1
<1>10. (\A p \in P : edges[p] = 0) <=> \A u \in A : <<v, u>> \notin EdgeSet
  BY <1>5, <1>6, <1>7
<1> QED
  BY <1>8, <1>9, <1>10

LEMMA KahnInitial == KahnInit => KahnInv
<1> SUFFICES ASSUME KahnInit PROVE KahnInv
  OBVIOUS
<1>1. /\ nodes \in SUBSET Ids /\ edges \in [Ids \X Ids -> 0 .. MaxCopies]
      /\ inDegree = [n \in nodes |-> SumOver(edges, {n} \X nodes)]
      /\ queue = {n \in nodes : SumOver(edges, {n} \X nodes) = 0}
      /\ visited = 0
      /\ result = IF \E i \in Ids : edges[<<i, i>>] > 0 THEN "rejected" ELSE "running"
  BY DEF KahnInit, DegreeIn
<1>2. Round({})
  <2>1. nodes \ {} = nodes
    OBVIOUS
  <2>2. Cardinality({}) = 0
    BY FS_EmptySet
  <2> QED
    BY <1>1, <2>1, <2>2 DEF Round
<1>3. \A i \in Ids : <<i, i>> \in EdgeSet <=> edges[<<i, i>>] > 0
  BY DEF EdgeSet
<1>4. DecidesAcyclic
  BY <1>1, <1>3 DEF DecidesAcyclic, AcyclicGraph
<1> QED
  BY <1>1, <1>2, <1>3, <1>4 DEF KahnInv

\* One node more is visited.
LEMMA VisitStep ==
  ASSUME KahnInv, NEW u \in nodes, Visit(u)
  PROVE  KahnInv'
<1>1. /\ result = "running" /\ u \in queue /\ visited' = visited + 1
      /\ inDegree' = [v \in nodes |-> inDegree[v] - edges[<<v, u>>]]
      /\ queue' = (queue \ {u}) \cup {v \in nodes : edges[<<v, u>>] > 0 /\ inDegree'[v] = 0}
      /\ nodes' = nodes /\ edges' = edges /\ result' = result
  BY DEF Visit, Decrement
<1>2. /\ nodes \in SUBSET Ids /\ edges \in [Ids \X Ids -> 0 .. MaxCopies]
      /\ \A i \in Ids : <<i, i>> \notin EdgeSet
  BY <1>1 DEF KahnInv
<1>3. PICK V \in SUBSET nodes : Round(V)
  BY <1>1 DEF KahnInv
<1>4. /\ visited = Cardinality(V)
      /\ inDegree = [v \in nodes |-> SumOver(edges, {v} \X (nodes \ V))]
      /\ queue = {v \in nodes \ V : inDegree[v] = 0}
      /\ \A n \in V, m \in nodes : <<n, m>> \in EdgeSet => m \in V
      /\ \A S \in SUBSET V : S # {} => \E n \in S : \A m \in S : <<n, m>> \notin EdgeSet
  BY <1>3 DEF Round
<1> DEFINE W == V \cup {u}
<1>5. u \in nodes \ V /\ inDegree[u] = 0 /\ W \in SUBSET nodes
  BY <1>1, <1>4
<1>6. \A v \in nodes : /\ inDegree[v] \in Nat
                       /\ inDegree[v] = edges[<<v, u>>] + SumOver(edges, {v} \X (nodes \ W))
                       /\ inDegree[v] = 0 => \A m \in nodes \ V : <<v, m>> \notin EdgeSet
                       /\ SumOver(edges, {v} \X (nodes \ W)) \in Nat
                       /\ edges[<<v, u>>] \in Nat
                       /\ <<v, u>> \in EdgeSet <=> edges[<<v, u>>] > 0
  <2> SUFFICES ASSUME NEW v \in nodes
               PROVE  /\ inDegree[v] \in Nat
                      /\ inDegree[v] = edges[<<v, u>>] + SumOver(edges, {v} \X (nodes \ W))
                      /\ inDegree[v] = 0 => \A m \in nodes \ V : <<v, m>> \notin EdgeSet
                      /\ SumOver(edges, {v} \X (nodes \ W)) \in Nat
                      /\ edges[<<v, u>>] \in Nat
                      /\ <<v, u>> \in EdgeSet <=> edges[<<v, u>>] > 0
    OBVIOUS
  <2>1. inDegree[v] = SumOver(edges, {v} \X (nodes \ V))
    BY <1>4
  <2>2. PICK A : A = nodes \ V
    OBVIOUS
  <2>3. A \in SUBSET nodes /\ u \in A /\ nodes \ W = A \ {u} /\ A \ {u} \in SUBSET nodes
    BY <1>5, <2>2
  <2>4. /\ SumOver(edges, {v} \X A) \in Nat
        /\ SumOver(edges, {v} \X A) = edges[<<v, u>>] + SumOver(edges, {v} \X (A \ {u}))
        /\ SumOver(edges, {v} \X A) = 0 => \A m \in A : <<v, m>> \notin EdgeSet
    <3>1. /\ SumOver(edges, {v} \X A) \in Nat
          /\ \A w \in A : SumOver(edges, {v} \X A) = edges[<<v, w>>] + SumOver(edges, {v} \X (A \ {w}))
      BY <2>3, DegreeFacts
    <3>2. SumOver(edges, {v} \X A) = 0 <=> \A m \in A : <<v, m>> \notin EdgeSet
      BY <2>3, DegreeFacts
    <3> QED
      BY <2>3, <3>1, <3>2
  <2>5. SumOver(edges, {v} \X (A \ {u})) \in Nat
    BY <2>3, DegreeFacts
  <2>6. edges[<<v, u>>] \in Nat /\ (<<v, u>> \in EdgeSet <=> edges[<<v, u>>] > 0)
    BY <1>2, KahnAssumption DEF EdgeSet
  <2> HIDE DEF W
  <2> QED
    BY <2>1, <2>2, <2>3, <2>4, <2>5, <2>6
<1>6a. \A v \in nodes : /\ inDegree[v] \in Nat
                        /\ edges[<<v, u>>] \in Nat
                        /\ <<v, u>> \in EdgeSet <=> edges[<<v, u>>] > 0
  <2> HIDE DEF W
  <2> QED
    BY <1>6
<1>6b. \A v, m \in nodes : inDegree[v] = 0 /\ m \notin V => <<v, m>> \notin EdgeSet
  <2> HIDE DEF W
  <2> QED
    BY <1>6
<1>7. \A v \in nodes : inDegree'[v] = SumOver(edges, {v} \X (nodes \ W))
  <2> HIDE DEF W
  <2> QED
    BY <1>1, <1>6
<1>8. inDegree' = [v \in nodes |-> SumOver(edges, {v} \X (nodes \ W))]
  <2> HIDE DEF W
  <2> QED
    BY <1>1, <1>7
<1>9. visited' = Cardinality(W)
  <2>1. IsFiniteSet(V)
    BY <1>2, KahnAssumption, FS_Subset
  <2> QED
    BY <1>1, <1>4, <1>5, <2>1, FS_AddElement
<1>10. queue' = {v \in nodes \ W : inDegree'[v] = 0}
  <2>1. ASSUME NEW v \in queue' PROVE v \in nodes \ W /\ inDegree'[v] = 0
    <3>1. CASE v \in queue \ {u}
      <4>1. v \in nodes \ V /\ inDegree[v] = 0 /\ v # u
        BY <1>4, <3>1
      <4>2. edges[<<v, u>>] = 0
        <5>1. <<v, u>> \notin EdgeSet
          BY <1>5, <1>6b, <4>1
        <5> QED
          BY <1>6a, <4>1, <5>1
      <4>3. inDegree'[v] = inDegree[v] - edges[<<v, u>>]
        BY <1>1, <4>1
      <4> QED
        BY <1>5, <4>1, <4>2, <4>3
    <3>2. CASE v \in nodes /\ edges[<<v, u>>] > 0 /\ inDegree'[v] = 0
      <4>1. <<v, u>> \in EdgeSet
        BY <1>6a, <3>2
      <4>2. v \notin V /\ v # u
        BY <1>2, <1>4, <1>5, <4>1
      <4> QED
        BY <3>2, <4>2
    <3> QED
      BY <1>1, <3>1, <3>2
  <2>2. ASSUME NEW v \in nodes \ W, inDegree'[v] = 0 PROVE v \in queue'
    <3>1. CASE edges[<<v, u>>] > 0
      BY <1>1, <2>2, <3>1
    <3>2. CASE ~(edges[<<v, u>>] > 0)
      <4>1. edges[<<v, u>>] = 0
        BY <1>6a, <3>2
      <4>2. inDegree[v] = 0
        <5>1. inDegree'[v] = inDegree[v] - edges[<<v, u>>]
          BY <1>1
        <5>2. inDegree[v] \in Nat
          BY <1>6a
        <5> QED
          BY <2>2, <4>1, <5>1, <5>2
      <4> QED
        BY <1>1, <1>4, <4>2
    <3> QED
      BY <3>1, <3>2
  <2> HIDE DEF W
  <2> QED
    BY <2>1, <2>2
<1>11. \A n \in W, m \in nodes : <<n, m>> \in EdgeSet => m \in W
  BY <1>4, <1>5, <1>6b
<1>12. ASSUME NEW S \in SUBSET W, S # {}
       PROVE  \E n \in S : \A m \in S : <<n, m>> \notin EdgeSet
  <2>1. CASE S \cap V = {}
    <3>1. S = {u}
      BY <1>12, <2>1
    <3> QED
      BY <1>2, <1>5, <3>1
  <2>2. CASE S \cap V # {}
    <3>1. PICK n \in S \cap V : \A m \in S \cap V : <<n, m>> \notin EdgeSet
      BY <1>4, <2>2
    <3>2. \A m \in S : <<n, m>> \notin EdgeSet
      BY <1>4, <1>5, <3>1
    <3> QED
      BY <3>1, <3>2
  <2> QED
    BY <2>1, <2>2
<1>13. EdgeSet' = EdgeSet
  BY <1>1 DEF EdgeSet
<1>14. Round(W)'
  <2> HIDE DEF W
  <2>1. \A v \in nodes : SumOver(edges, {v} \X (nodes \ W))' = SumOver(edges, {v} \X (nodes \ W))
    BY <1>1
  <2> QED
    BY <1>1, <1>8, <1>9, <1>10, <1>11, <1>12, <1>13 DEF Round
<1>15. DecidesAcyclic'
  BY <1>1 DEF DecidesAcyclic
<1> QED
  BY <1>1, <1>2, <1>5, <1>13, <1>14, <1>15 DEF KahnInv

\* The queue is empty: either every node was visited, or the rest is a cycle.
LEMMA DecideStep ==
  ASSUME KahnInv, Decide
  PROVE  KahnInv'
<1>1. /\ result = "running" /\ queue = {}
      /\ result' = IF visited < Cardinality(nodes) THEN "rejected" ELSE "accepted"
      /\ nodes' = nodes /\ edges' = edges
  BY DEF Decide
<1>2. /\ nodes \in SUBSET Ids /\ edges \in [Ids \X Ids -> 0 .. MaxCopies]
      /\ \A i \in Ids : <<i, i>> \notin EdgeSet
  BY <1>1 DEF KahnInv
<1>3. PICK V \in SUBSET nodes : Round(V)
  BY <1>1 DEF KahnInv
<1>4. /\ visited = Cardinality(V)
      /\ inDegree = [v \in nodes |-> SumOver(edges, {v} \X (nodes \ V))]
      /\ queue = {v \in nodes \ V : inDegree[v] = 0}
      /\ \A S \in SUBSET V : S # {} => \E n \in S : \A m \in S : <<n, m>> \notin EdgeSet
  BY <1>3 DEF Round
<1>5. IsFiniteSet(nodes) /\ IsFiniteSet(V) /\ Cardinality(nodes) \in Nat /\ Cardinality(V) \in Nat
  BY <1>2, KahnAssumption, FS_Subset, FS_CardinalityType
<1>6. CASE visited < Cardinality(nodes)
  <2>1. V # nodes
    BY <1>4, <1>5, <1>6
  <2> DEFINE S == nodes \ V
  <2>2. S # {} /\ S \in SUBSET nodes
    BY <2>1
  <2>3. ASSUME NEW n \in S PROVE \E m \in S : <<n, m>> \in EdgeSet
    <3>1. inDegree[n] # 0 /\ inDegree[n] = SumOver(edges, {n} \X S)
      BY <1>1, <1>4
    <3> HIDE DEF S
    <3> QED
      BY <2>2, <3>1, DegreeFacts
  <2>4. ~AcyclicGraph
    BY <2>2, <2>3 DEF AcyclicGraph
  <2> QED
    BY <1>1, <1>2, <1>6, <2>4 DEF KahnInv, DecidesAcyclic, AcyclicGraph, EdgeSet
<1>7. CASE ~(visited < Cardinality(nodes))
  <2>1. V = nodes
    BY <1>4, <1>5, <1>7, FS_Subset
  <2>2. AcyclicGraph
    BY <1>2, <1>4, <2>1 DEF AcyclicGraph
  <2> QED
    BY <1>1, <1>2, <1>7, <2>2 DEF KahnInv, DecidesAcyclic, AcyclicGraph, EdgeSet
<1> QED
  BY <1>6, <1>7

LEMMA KahnInvariant == KahnSpec => []KahnInv
<1>1. KahnInit => KahnInv
  BY KahnInitial
<1>2. KahnInv /\ [KahnNext]_kahnVars => KahnInv'
  <2> SUFFICES ASSUME KahnInv, [KahnNext]_kahnVars PROVE KahnInv'
    OBVIOUS
  <2>1. CASE KahnNext
    BY <2>1, VisitStep, DecideStep DEF KahnNext
  <2>2. CASE UNCHANGED kahnVars
    <3>1. /\ nodes' = nodes /\ edges' = edges /\ inDegree' = inDegree
          /\ queue' = queue /\ visited' = visited /\ result' = result
      BY <2>2 DEF kahnVars
    <3>2. EdgeSet' = EdgeSet
      BY <3>1 DEF EdgeSet
    <3>3. DecidesAcyclic' <=> DecidesAcyclic
      BY <3>1, <3>2 DEF DecidesAcyclic, AcyclicGraph
    <3>4. ASSUME NEW V \in SUBSET nodes, Round(V) PROVE Round(V)'
      BY <3>1, <3>2, <3>4 DEF Round
    <3>5. (\A i \in Ids : <<i, i>> \notin EdgeSet) => \A i \in Ids : <<i, i>> \notin EdgeSet'
      BY <3>2
    <3> QED
      BY <3>1, <3>3, <3>4, <3>5 DEF KahnInv
  <2> QED
    BY <2>1, <2>2
<1> QED
  BY <1>1, <1>2, PTL DEF KahnSpec

\* The algorithm that every written dependency passes accepts a graph exactly
\* when it has no cycle, whatever the order and the multiplicity of its edges.
THEOREM TheCheckDecidesAcyclic == KahnSpec => []DecidesAcyclic
<1>1. KahnInv => DecidesAcyclic
  BY DEF KahnInv
<1> QED
  BY <1>1, KahnInvariant, PTL

\* The guard Acyclic, by which the planning service is modelled, is what the
\* queue computes: it rejects a call exactly when the edges have a cycle among
\* the nodes or an edge from an id to itself.
THEOREM TheGuardIsTheCheck ==
  KahnSpec => [](result # "running" =>
                   (result = "accepted" <=> /\ \A i \in Ids : <<i, i>> \notin EdgeSet
                                            /\ Acyclic(nodes, EdgeSet)))
<1>1. KahnInv => (result # "running" =>
                   (result = "accepted" <=> /\ \A i \in Ids : <<i, i>> \notin EdgeSet
                                            /\ Acyclic(nodes, EdgeSet)))
  BY DEF KahnInv, DecidesAcyclic, AcyclicGraph, Acyclic
<1> QED
  BY <1>1, KahnInvariant, PTL

-----------------------------------------------------------------------------
(* The layout of an accepted graph.  A graph without cycles is its own
   induction: of the tasks for which something fails, one has only
   prerequisites for which it holds.                                        *)

DepthCalls == Ids \X SUBSET Ids

\* What depth does in one call, by what it returns in others.
Body(f, c) ==
    IF c[1] \notin nodes \/ Prerequisites(c[1]) = {} \/ c[1] \in c[2] THEN 0
    ELSE Column({IF p \in nodes THEN f[<<p, c[2] \cup {c[1]}>>] ELSE 0 : p \in Prerequisites(c[1])})
Depths(f) == f = [c \in DepthCalls |-> Body(f, c)]

\* The calls that k ids at most are not in the path of.
Follows(f, k) ==
    \A c \in DepthCalls : Cardinality(Ids \ c[2]) <= k => f[c] = Body(f, c)

LEMMA BodyAgrees ==
  ASSUME NEW f, NEW g, NEW c \in DepthCalls,
         c[1] \notin c[2] =>
            \A p \in Prerequisites(c[1]) : f[<<p, c[2] \cup {c[1]}>>] = g[<<p, c[2] \cup {c[1]}>>]
  PROVE  Body(f, c) = Body(g, c)
<1>1. CASE c[1] \in c[2]
  BY <1>1 DEF Body
<1>2. CASE c[1] \notin c[2]
  <2>1. {IF p \in nodes THEN f[<<p, c[2] \cup {c[1]}>>] ELSE 0 : p \in Prerequisites(c[1])}
          = {IF p \in nodes THEN g[<<p, c[2] \cup {c[1]}>>] ELSE 0 : p \in Prerequisites(c[1])}
    BY <1>2
  <2> QED
    BY <2>1 DEF Body
<1> QED
  BY <1>1, <1>2

\* The path grows with each call, and a task on the path ends it.
LEMMA DepthsExist == \E f : Depths(f)
<1> DEFINE R == {ss \in Nat \X Nat : ss[1] < ss[2]}
           T == {k \in Nat : \A f : ~Follows(f, k)}
<1>1. IsWellFoundedOn(R, Nat)
  BY NatLessThanWellFounded DEF OpToRel
<1>2. \A c \in DepthCalls : /\ c[1] \in Ids /\ c[2] \in SUBSET Ids
                            /\ IsFiniteSet(Ids \ c[2]) /\ Cardinality(Ids \ c[2]) \in Nat
  BY KahnAssumption, FS_Subset, FS_CardinalityType DEF DepthCalls
<1>3. \A c \in DepthCalls, p \in Ids : <<p, c[2] \cup {c[1]}>> \in DepthCalls
  BY <1>2 DEF DepthCalls
<1>4. ASSUME NEW c \in DepthCalls, c[1] \notin c[2]
      PROVE  Cardinality(Ids \ (c[2] \cup {c[1]})) = Cardinality(Ids \ c[2]) - 1
  <2>1. c[1] \in Ids \ c[2] /\ Ids \ (c[2] \cup {c[1]}) = (Ids \ c[2]) \ {c[1]}
    BY <1>2, <1>4
  <2> QED
    <3>1. PICK D : D = Ids \ c[2]
      OBVIOUS
    <3>2. IsFiniteSet(D) /\ c[1] \in D
      BY <1>2, <2>1, <3>1
    <3>3. Cardinality(D \ {c[1]}) = Cardinality(D) - 1
      BY <3>2, FS_RemoveElement
    <3> QED
      BY <2>1, <3>1, <3>3
<1>5. T = {}
  <2> SUFFICES ASSUME T # {} PROVE FALSE
    OBVIOUS
  <2>1. PICK k \in T : \A m \in T : <<m, k>> \notin R
    <3>1. T \subseteq Nat
      OBVIOUS
    <3> HIDE DEF T, R
    <3> QED
      BY <1>1, <3>1, WFMin
  <2>2. k \in Nat /\ \A f : ~Follows(f, k)
    OBVIOUS
  <2>3. CASE k = 0
    <3> DEFINE f == [c \in DepthCalls |-> 0]
    <3>1. ASSUME NEW c \in DepthCalls, Cardinality(Ids \ c[2]) <= 0 PROVE f[c] = Body(f, c)
      <4>1. Ids \ c[2] = {}
        BY <1>2, <3>1, FS_EmptySet
      <4>2. c[1] \in c[2]
        BY <1>2, <4>1
      <4> QED
        BY <4>2 DEF Body
    <3> HIDE DEF f
    <3>2. Follows(f, 0)
      BY <3>1 DEF Follows
    <3> QED
      BY <2>2, <2>3, <3>2
  <2>4. CASE k # 0
    <3>1. k - 1 \in Nat /\ <<k - 1, k>> \in R
      BY <2>2, <2>4
    <3>2. PICK f : Follows(f, k - 1)
      BY <2>1, <3>1
    <3> DEFINE g == [c \in DepthCalls |-> Body(f, c)]
    <3>3. \A c \in DepthCalls : g[c] = Body(f, c)
      OBVIOUS
    <3> HIDE DEF g
    <3>4. ASSUME NEW c \in DepthCalls, Cardinality(Ids \ c[2]) <= k PROVE g[c] = Body(g, c)
      <4>1. ASSUME c[1] \notin c[2], NEW p \in Prerequisites(c[1])
            PROVE  f[<<p, c[2] \cup {c[1]}>>] = g[<<p, c[2] \cup {c[1]}>>]
        <5> DEFINE d == <<p, c[2] \cup {c[1]}>>
        <5>1. d \in DepthCalls
          BY <1>3 DEF Prerequisites
        <5>2. Cardinality(Ids \ d[2]) = Cardinality(Ids \ c[2]) - 1
          BY <1>4, <4>1
        <5>3. Cardinality(Ids \ d[2]) <= k - 1
          <6>1. Cardinality(Ids \ c[2]) \in Nat /\ Cardinality(Ids \ c[2]) <= k
            BY <1>2, <3>4
          <6> HIDE DEF d
          <6> QED
            BY <2>2, <5>2, <6>1
        <5> HIDE DEF d
        <5>4. f[d] = Body(f, d)
          BY <3>2, <5>1, <5>3 DEF Follows
        <5>5. f[d] = g[d]
          BY <3>3, <5>1, <5>4
        <5> QED
          BY <5>5 DEF d
      <4>2. Body(f, c) = Body(g, c)
        BY <4>1, BodyAgrees
      <4> QED
        BY <3>3, <4>2
    <3>5. Follows(g, k)
      BY <3>4 DEF Follows
    <3> QED
      BY <2>2, <3>5
  <2> QED
    BY <2>3, <2>4
<1>6. PICK k : k = Cardinality(Ids)
  OBVIOUS
<1>7. k \in Nat /\ \A c \in DepthCalls : Cardinality(Ids \ c[2]) <= k
  <2>1. \A c \in DepthCalls : Ids \ c[2] \in SUBSET Ids
    OBVIOUS
  <2> QED
    BY <1>6, <2>1, KahnAssumption, FS_Subset, FS_CardinalityType
<1>8. PICK f : Follows(f, k)
  BY <1>5, <1>7
<1> DEFINE g == [c \in DepthCalls |-> f[c]]
<1>9. \A c \in DepthCalls : g[c] = f[c] /\ f[c] = Body(f, c)
  BY <1>7, <1>8 DEF Follows
<1>10. g = [c \in DepthCalls |-> g[c]]
  OBVIOUS
<1> HIDE DEF g
<1>11. ASSUME NEW c \in DepthCalls PROVE g[c] = Body(g, c)
  <2>1. \A p \in Prerequisites(c[1]) : <<p, c[2] \cup {c[1]}>> \in DepthCalls
    BY <1>3 DEF Prerequisites
  <2>2. \A p \in Prerequisites(c[1]) :
           f[<<p, c[2] \cup {c[1]}>>] = g[<<p, c[2] \cup {c[1]}>>]
    BY <1>9, <2>1
  <2>3. Body(f, c) = Body(g, c)
    BY <2>2, BodyAgrees
  <2> QED
    BY <1>9, <2>3
<1>12. g = [c \in DepthCalls |-> Body(g, c)]
  BY <1>10, <1>11
<1> QED
  BY <1>12 DEF Depths

\* depth, unfolded once.
Unfolded(n, path) ==
    IF n \notin nodes \/ Prerequisites(n) = {} \/ n \in path THEN 0
    ELSE Column({IF p \in nodes THEN depth[<<p, path \cup {n}>>] ELSE 0 : p \in Prerequisites(n)})

LEMMA DepthUnfolds ==
  ASSUME NEW n \in Ids, NEW path \in SUBSET Ids
  PROVE  depth[<<n, path>>] = Unfolded(n, path)
<1>1. depth = CHOOSE f : Depths(f)
  BY DEF depth, Depths, Body, DepthCalls
<1>2. Depths(depth)
  <2>1. Depths(CHOOSE f : Depths(f))
    BY DepthsExist
  <2> QED
    BY <1>1, <2>1
<1>3. <<n, path>> \in DepthCalls
  BY DEF DepthCalls
<1>4. depth[<<n, path>>] = Body(depth, <<n, path>>)
  BY <1>2, <1>3 DEF Depths
<1> QED
  BY <1>4 DEF Body, Unfolded

\* A finite set of numbers has a greatest one: a least set without would have
\* one when it loses a member.
LEMMA GreatestExists ==
  ASSUME NEW S, IsFiniteSet(S), S \subseteq Nat, S # {}
  PROVE  Max(S) \in S /\ \A x \in S : x <= Max(S)
<1> DEFINE R == {ss \in Nat \X Nat : ss[1] < ss[2]}
           HasMax(t) == \E m \in t : \A x \in t : x <= m
           T == {c \in Nat : \E t \in SUBSET S : t # {} /\ Cardinality(t) = c /\ ~HasMax(t)}
<1>1. IsWellFoundedOn(R, Nat)
  BY NatLessThanWellFounded DEF OpToRel
<1>2. \A t \in SUBSET S : IsFiniteSet(t) /\ Cardinality(t) \in Nat
  BY FS_Subset, FS_CardinalityType
<1>3. T = {}
  <2> SUFFICES ASSUME T # {} PROVE FALSE
    OBVIOUS
  <2>1. PICK n \in T : \A m \in T : <<m, n>> \notin R
    <3>1. T \subseteq Nat
      OBVIOUS
    <3> HIDE DEF T, R
    <3> QED
      BY <1>1, <3>1, WFMin
  <2>2. PICK t \in SUBSET S : t # {} /\ Cardinality(t) = n /\ ~HasMax(t)
    OBVIOUS
  <2>3. PICK y \in t : TRUE
    BY <2>2
  <2> DEFINE u == t \ {y}
  <2>4. u \in SUBSET S /\ Cardinality(u) = n - 1 /\ Cardinality(u) \in Nat /\ n \in Nat
    BY <1>2, <2>2, FS_RemoveElement
  <2>5. Cardinality(u) \notin T
    <3>1. <<Cardinality(u), n>> \in R
      BY <2>4
    <3> HIDE DEF T, R
    <3> QED
      BY <2>1, <3>1
  <2>6. u = {} \/ HasMax(u)
    BY <2>4, <2>5
  <2>7. y \in Nat /\ u \subseteq Nat
    OBVIOUS
  <2>8. CASE u = {}
    <3>1. \A x \in t : x = y
      BY <2>8
    <3>2. HasMax(t)
      BY <2>7, <3>1
    <3> QED
      BY <2>2, <3>2
  <2>9. CASE HasMax(u)
    <3>1. PICK m \in u : \A x \in u : x <= m
      BY <2>9
    <3>2. m \in Nat /\ \A x \in t : x = y \/ x \in u
      BY <2>7
    <3>3. HasMax(t)
      <4>1. CASE m <= y
        <5>1. \A x \in t : x <= y
          BY <2>7, <3>1, <3>2, <4>1
        <5> QED
          BY <5>1
      <4>2. CASE ~(m <= y)
        <5>1. \A x \in t : x <= m
          BY <2>7, <3>1, <3>2, <4>2
        <5> QED
          BY <3>1, <5>1
      <4> QED
        BY <4>1, <4>2
    <3> QED
      BY <2>2, <3>3
  <2> QED
    BY <2>6, <2>8, <2>9
<1>4. Cardinality(S) \notin T /\ Cardinality(S) \in Nat
  BY <1>2, <1>3
<1>5. HasMax(S)
  BY <1>4
<1>6. PICK m \in S : \A x \in S : x <= m
  BY <1>5
<1>7. \A x \in S : m >= x
  BY <1>6
<1>8. Max(S) \in S /\ \A x \in S : Max(S) >= x
  BY <1>7 DEF Max
<1>9. \A x \in S : x \in Nat
  OBVIOUS
<1> QED
  BY <1>8, <1>9

\* The tasks that n needs, directly or not, and n.
ClosedDown(C) == \A n \in C, p \in nodes : <<n, p>> \in EdgeSet => p \in C
Reach(n) == {x \in nodes : \A C \in SUBSET nodes : n \in C /\ ClosedDown(C) => x \in C}

LEMMA ReachFacts ==
  ASSUME NEW n \in nodes
  PROVE  /\ n \in Reach(n) /\ Reach(n) \in SUBSET nodes /\ ClosedDown(Reach(n))
         /\ \A x \in Reach(n) : Reach(x) \subseteq Reach(n)
<1>1. n \in Reach(n) /\ Reach(n) \in SUBSET nodes
  BY DEF Reach
<1>2. ClosedDown(Reach(n))
  BY DEF Reach, ClosedDown
<1> QED
  BY <1>1, <1>2 DEF Reach

LEMMA ReachSteps ==
  ASSUME NEW n \in nodes, NEW x \in Reach(n), x # n
  PROVE  \E p \in nodes : <<n, p>> \in EdgeSet /\ x \in Reach(p)
<1> DEFINE C == {n} \cup {y \in nodes : \E p \in nodes : <<n, p>> \in EdgeSet /\ y \in Reach(p)}
<1>1. ASSUME NEW m \in C, NEW q \in nodes, <<m, q>> \in EdgeSet
      PROVE  q \in C
  <2>1. CASE m = n
    BY <1>1, <2>1, ReachFacts
  <2>2. CASE m # n
    <3>1. PICK p \in nodes : <<n, p>> \in EdgeSet /\ m \in Reach(p)
      BY <2>2
    <3>2. q \in Reach(p)
      BY <1>1, <3>1, ReachFacts DEF ClosedDown
    <3> QED
      BY <3>1, <3>2
  <2> QED
    BY <2>1, <2>2
<1>2. C \in SUBSET nodes /\ n \in C
  OBVIOUS
<1>3. ClosedDown(C)
  <2> HIDE DEF C
  <2> QED
    BY <1>1 DEF ClosedDown
<1>4. x \in C
  <2> HIDE DEF C
  <2> QED
    BY <1>2, <1>3 DEF Reach
<1> QED
  BY <1>4

\* No task needs itself by way of a prerequisite.
LEMMA NoReturn ==
  ASSUME AcyclicGraph, NEW n \in nodes, NEW p \in nodes, <<n, p>> \in EdgeSet
  PROVE  n \notin Reach(p) /\ Reach(p) \subseteq Reach(n) /\ p \in Reach(n)
<1> DEFINE X == {x \in Reach(n) : n \in Reach(x)}
<1>1. p \in Reach(n) /\ Reach(p) \subseteq Reach(n) /\ n \in X /\ X \in SUBSET nodes
  BY ReachFacts DEF ClosedDown
<1>2. SUFFICES ASSUME n \in Reach(p) PROVE FALSE
  BY <1>1
<1>3. PICK x \in X : \A m \in X : <<x, m>> \notin EdgeSet
  <2> HIDE DEF X
  <2> QED
    BY <1>1 DEF AcyclicGraph
<1>4. CASE x = n
  <2>1. p \in X
    BY <1>1, <1>2
  <2> QED
    BY <1>3, <1>4, <2>1
<1>5. CASE x # n
  <2>1. x \in nodes /\ n \in Reach(x) /\ x \in Reach(n)
    BY <1>1
  <2>2. PICK q \in nodes : <<x, q>> \in EdgeSet /\ n \in Reach(q)
    BY <1>5, <2>1, ReachSteps
  <2>3. q \in Reach(n)
    BY <2>1, <2>2, ReachFacts DEF ClosedDown
  <2>4. q \in X
    BY <2>2, <2>3
  <2> QED
    BY <1>3, <2>2, <2>4
<1> QED
  BY <1>4, <1>5

\* What layoutDag asks for.
LEMMA UnfoldedAtStart ==
  ASSUME NEW n \in nodes, n \in Ids
  PROVE  depth[<<n, {}>>] =
           IF Prerequisites(n) = {} THEN 0
           ELSE Column({IF p \in nodes THEN depth[<<p, {n}>>] ELSE 0 : p \in Prerequisites(n)})
<1>1. PICK none : none = {}
  OBVIOUS
<1>2. none \in SUBSET Ids /\ n \notin none /\ none \cup {n} = {n}
  BY <1>1
<1>3. depth[<<n, none>>] = Unfolded(n, none)
  BY <1>2, DepthUnfolds
<1> QED
  BY <1>1, <1>2, <1>3 DEF Unfolded

\* A path that meets nothing the task needs makes no difference.
LEMMA PathDoesNotMatter ==
  ASSUME nodes \in SUBSET Ids, AcyclicGraph
  PROVE  \A n \in nodes : \A S \in SUBSET Ids :
            S \cap Reach(n) = {} => depth[<<n, S>>] = depth[<<n, {}>>]
<1> DEFINE Same(n) == \A S \in SUBSET Ids :
                         S \cap Reach(n) = {} => depth[<<n, S>>] = depth[<<n, {}>>]
           Bad == {n \in nodes : ~Same(n)}
<1>1. Bad = {}
  <2> SUFFICES ASSUME Bad # {} PROVE FALSE
    OBVIOUS
  <2>1. PICK n \in Bad : \A m \in Bad : <<n, m>> \notin EdgeSet
    BY DEF AcyclicGraph
  <2>2. n \in nodes /\ n \in Ids /\ n \in Reach(n)
    BY ReachFacts
  <2>3. ASSUME NEW S \in SUBSET Ids, S \cap Reach(n) = {}
        PROVE  depth[<<n, S>>] = depth[<<n, {}>>]
    <3>1. n \notin S
      BY <2>2, <2>3
    <3>2. ASSUME NEW p \in Prerequisites(n), p \in nodes
          PROVE  depth[<<p, S \cup {n}>>] = depth[<<p, {n}>>]
      <4>1. <<n, p>> \in EdgeSet
        BY DEF Prerequisites
      <4>2. Same(p)
        BY <2>1, <3>2, <4>1
      <4>3. n \notin Reach(p) /\ Reach(p) \subseteq Reach(n)
        BY <2>2, <3>2, <4>1, NoReturn
      <4>4. /\ S \cup {n} \in SUBSET Ids /\ (S \cup {n}) \cap Reach(p) = {}
            /\ {n} \in SUBSET Ids /\ {n} \cap Reach(p) = {}
        BY <2>2, <2>3, <4>3
      <4> QED
        BY <4>2, <4>4
    <3>3. {IF p \in nodes THEN depth[<<p, S \cup {n}>>] ELSE 0 : p \in Prerequisites(n)}
            = {IF p \in nodes THEN depth[<<p, {n}>>] ELSE 0 : p \in Prerequisites(n)}
      BY <3>2
    <3>4. depth[<<n, S>>] =
            IF Prerequisites(n) = {} THEN 0
            ELSE Column({IF p \in nodes THEN depth[<<p, S \cup {n}>>] ELSE 0 : p \in Prerequisites(n)})
      <4>1. depth[<<n, S>>] = Unfolded(n, S)
        BY <2>2, DepthUnfolds
      <4> QED
        BY <2>2, <3>1, <4>1 DEF Unfolded
    <3>5. depth[<<n, {}>>] =
            IF Prerequisites(n) = {} THEN 0
            ELSE Column({IF p \in nodes THEN depth[<<p, {n}>>] ELSE 0 : p \in Prerequisites(n)})
      BY <2>2, UnfoldedAtStart
    <3> QED
      BY <3>3, <3>4, <3>5
  <2>4. Same(n)
    BY <2>3
  <2> QED
    BY <2>1, <2>4
<1> QED
  BY <1>1

\* So a task stands one column right of its last prerequisite.
LEMMA LayoutUnfolds ==
  ASSUME nodes \in SUBSET Ids, AcyclicGraph, NEW n \in nodes
  PROVE  /\ layoutDag[n] =
              IF Prerequisites(n) = {} THEN 0
              ELSE Column({IF p \in nodes THEN layoutDag[p] ELSE 0 : p \in Prerequisites(n)})
         /\ \A p \in nodes : <<n, p>> \in EdgeSet => depth[<<p, {n}>>] = layoutDag[p]
<1>1. \A m \in nodes : layoutDag[m] = depth[<<m, {}>>]
  BY DEF layoutDag
<1>2. ASSUME NEW p \in nodes, <<n, p>> \in EdgeSet PROVE depth[<<p, {n}>>] = layoutDag[p]
  <2>1. {n} \in SUBSET Ids /\ {n} \cap Reach(p) = {}
    BY <1>2, NoReturn
  <2> QED
    BY <1>1, <2>1, PathDoesNotMatter
<1>3. \A p \in Prerequisites(n) : <<n, p>> \in EdgeSet
  BY DEF Prerequisites
<1>4. {IF p \in nodes THEN depth[<<p, {n}>>] ELSE 0 : p \in Prerequisites(n)}
        = {IF p \in nodes THEN layoutDag[p] ELSE 0 : p \in Prerequisites(n)}
  BY <1>2, <1>3
<1>5. depth[<<n, {}>>] =
        IF Prerequisites(n) = {} THEN 0
        ELSE Column({IF p \in nodes THEN depth[<<p, {n}>>] ELSE 0 : p \in Prerequisites(n)})
  BY UnfoldedAtStart
<1> QED
  BY <1>1, <1>2, <1>4, <1>5

\* The columns of the prerequisites are numbers, and one of them, or 0, is the
\* last.
LEMMA ColumnFacts ==
  ASSUME nodes \in SUBSET Ids, AcyclicGraph
  PROVE  \A n \in nodes :
            /\ layoutDag[n] \in Nat
            /\ \A p \in nodes : <<n, p>> \in EdgeSet => layoutDag[n] > layoutDag[p]
            /\ layoutDag[n] # 0 => Prerequisites(n) # {}
            /\ layoutDag[n] > 1 => \E p \in nodes : <<n, p>> \in EdgeSet /\ layoutDag[n] = 1 + layoutDag[p]
<1> DEFINE Good(n) == /\ layoutDag[n] \in Nat
                      /\ \A p \in nodes : <<n, p>> \in EdgeSet => layoutDag[n] > layoutDag[p]
                      /\ layoutDag[n] # 0 => Prerequisites(n) # {}
                      /\ layoutDag[n] > 1 => \E p \in nodes : <<n, p>> \in EdgeSet /\ layoutDag[n] = 1 + layoutDag[p]
           Bad == {n \in nodes : ~Good(n)}
<1>1. Bad = {}
  <2> SUFFICES ASSUME Bad # {} PROVE FALSE
    OBVIOUS
  <2>1. PICK n \in Bad : \A m \in Bad : <<n, m>> \notin EdgeSet
    BY DEF AcyclicGraph
  <2> DEFINE col(p) == IF p \in nodes THEN layoutDag[p] ELSE 0
             cols == {col(p) : p \in Prerequisites(n)}
  <2>2. \A p \in Prerequisites(n) : p \in Ids /\ <<n, p>> \in EdgeSet
    BY DEF Prerequisites
  <2>3. \A p \in Prerequisites(n) : p \in nodes => layoutDag[p] \in Nat
    <3>1. ASSUME NEW p \in Prerequisites(n), p \in nodes PROVE layoutDag[p] \in Nat
      <4>1. p \notin Bad
        BY <2>1, <2>2
      <4> QED
        BY <3>1, <4>1
    <3> QED
      BY <3>1
  <2>4. \A p \in nodes : <<n, p>> \in EdgeSet => p \in Prerequisites(n)
    BY DEF Prerequisites
  <2>5. layoutDag[n] = IF Prerequisites(n) = {} THEN 0 ELSE Column(cols)
    BY LayoutUnfolds
  <2>6. \A p \in Prerequisites(n) : col(p) \in Nat
    BY <2>3
  <2>7. IsFiniteSet(cols)
    <3>1. IsFiniteSet(Prerequisites(n))
      BY <2>2, KahnAssumption, FS_Subset
    <3> DEFINE F == [p \in Prerequisites(n) |-> col(p)]
    <3>2. F \in Surjection(Prerequisites(n), cols)
      BY DEF Surjection
    <3> HIDE DEF F, cols
    <3> QED
      BY <3>1, <3>2, FS_Surjection
  <2>8. /\ IsFiniteSet(cols \cup {0}) /\ cols \cup {0} \subseteq Nat /\ cols \cup {0} # {}
    <3>1. IsFiniteSet(cols \cup {0})
      <4> HIDE DEF cols
      <4> QED
        BY <2>7, FS_AddElement
    <3> QED
      BY <2>6, <3>1
  <2>9. PICK last : last = Max(cols \cup {0})
    OBVIOUS
  <2>10. last \in cols \cup {0} /\ last \in Nat /\ \A k \in cols \cup {0} : k <= last
    <3> HIDE DEF cols
    <3> QED
      BY <2>8, <2>9, GreatestExists
  <2>11. layoutDag[n] = IF Prerequisites(n) = {} THEN 0 ELSE 1 + last
    <3> HIDE DEF cols
    <3> QED
      BY <2>5, <2>9 DEF Column
  <2>12. layoutDag[n] \in Nat /\ (layoutDag[n] # 0 => Prerequisites(n) # {})
    BY <2>10, <2>11
  <2>13. ASSUME NEW p \in nodes, <<n, p>> \in EdgeSet PROVE layoutDag[n] > layoutDag[p]
    <3>1. p \in Prerequisites(n) /\ col(p) = layoutDag[p]
      BY <2>4, <2>13
    <3>2. layoutDag[p] \in cols /\ layoutDag[p] \in Nat
      BY <2>3, <3>1
    <3>3. layoutDag[p] <= last
      BY <2>10, <3>2
    <3> QED
      BY <2>10, <2>11, <3>1, <3>2, <3>3
  <2>14. ASSUME layoutDag[n] > 1
         PROVE  \E p \in nodes : <<n, p>> \in EdgeSet /\ layoutDag[n] = 1 + layoutDag[p]
    <3>1. last # 0 /\ layoutDag[n] = 1 + last
      BY <2>10, <2>11, <2>14
    <3>2. PICK p \in Prerequisites(n) : last = col(p)
      BY <2>10, <3>1
    <3>3. p \in nodes /\ last = layoutDag[p]
      BY <3>1, <3>2
    <3> QED
      BY <2>2, <3>1, <3>3
  <2> QED
    BY <2>1, <2>12, <2>13, <2>14
<1> QED
  BY <1>1

\* No column left of a task is empty.
LEMMA NoEmptyColumn ==
  ASSUME nodes \in SUBSET Ids, AcyclicGraph, \A n \in nodes : Prerequisites(n) \subseteq nodes
  PROVE  \A n \in nodes : \A k \in 0 .. layoutDag[n] : Layer(k) # {}
<1> DEFINE Good(n) == \A k \in 0 .. layoutDag[n] : Layer(k) # {}
           Bad == {n \in nodes : ~Good(n)}
<1>1. Bad = {}
  <2> SUFFICES ASSUME Bad # {} PROVE FALSE
    OBVIOUS
  <2>1. PICK n \in Bad : \A m \in Bad : <<n, m>> \notin EdgeSet
    BY DEF AcyclicGraph
  <2>2. n \in nodes /\ layoutDag[n] \in Nat
    BY ColumnFacts
  <2>3. \A p \in nodes : <<n, p>> \in EdgeSet => Good(p)
    BY <2>1
  <2>4. ASSUME NEW k \in 0 .. layoutDag[n] PROVE Layer(k) # {}
    <3>1. CASE k = layoutDag[n]
      BY <2>2, <3>1 DEF Layer
    <3>2. CASE k < layoutDag[n] /\ layoutDag[n] > 1
      <4>1. PICK p \in nodes : <<n, p>> \in EdgeSet /\ layoutDag[n] = 1 + layoutDag[p]
        BY <2>2, <3>2, ColumnFacts
      <4>2. layoutDag[p] \in Nat
        BY ColumnFacts
      <4>3. k \in 0 .. layoutDag[p]
        BY <2>2, <3>2, <4>1, <4>2
      <4> QED
        BY <2>3, <4>1, <4>3
    <3>3. CASE k < layoutDag[n] /\ ~(layoutDag[n] > 1)
      <4>1. k = 0 /\ layoutDag[n] = 1
        BY <2>2, <3>3
      <4>2. PICK p \in Prerequisites(n) : TRUE
        BY <2>2, <4>1, ColumnFacts
      <4>3. p \in nodes /\ <<n, p>> \in EdgeSet
        BY <2>2, <4>2 DEF Prerequisites
      <4>4. layoutDag[p] \in Nat /\ layoutDag[n] > layoutDag[p]
        BY <2>2, <4>3, ColumnFacts
      <4>5. layoutDag[p] = k
        BY <4>1, <4>4
      <4> QED
        BY <4>3, <4>5 DEF Layer
    <3> QED
      BY <2>2, <3>1, <3>2, <3>3
  <2> QED
    BY <2>1, <2>4
<1> QED
  BY <1>1

\* The panel lays out every graph that the service accepts from left to right,
\* whichever path it meets a task on, and leaves no column empty.
THEOREM LayoutIsLeftToRight == KahnSpec => []LayoutLeftToRight
<1>1. KahnInv => LayoutLeftToRight
  <2> SUFFICES ASSUME KahnInv, result = "accepted" PROVE LayoutLeftToRight
    BY DEF LayoutLeftToRight
  <2>1. nodes \in SUBSET Ids /\ AcyclicGraph
    BY DEF KahnInv, DecidesAcyclic
  <2>2. \A n, p \in nodes : <<n, p>> \in EdgeSet => /\ layoutDag[n] > layoutDag[p]
                                                    /\ depth[<<p, {n}>>] = layoutDag[p]
    BY <2>1, ColumnFacts, LayoutUnfolds
  <2>3. (\A n \in nodes : Prerequisites(n) \subseteq nodes) =>
            \A n \in nodes : \A k \in 0 .. layoutDag[n] : Layer(k) # {}
    BY <2>1, NoEmptyColumn
  <2> QED
    BY <2>2, <2>3 DEF LayoutLeftToRight
<1> QED
  BY <1>1, KahnInvariant, PTL

=============================================================================
