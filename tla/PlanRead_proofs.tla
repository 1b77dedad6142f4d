-------------------------- MODULE PlanRead_proofs --------------------------
(* Proofs about module PlanRead, for every set of plans, tasks, clients and
   tokens: what a reader without locks may conclude although writers commit
   between its statements.

   The argument is the same for both readers.  A few facts about a task only
   ever change in one direction, so what was read earlier still bounds what is
   there later; the rest is the inductive invariant of PlanTasks_proofs, which
   holds at each of the instants a statement reads.                         *)
EXTENDS PlanRead, PlanTasks_proofs

USE DEF NoLease, Held, Terminal, TaskStatus, PlanStatus

Activated == {"active", "completed", "archived"}

\* What no operation takes back: a dependency, the plan of a task, its
\* completion, the activation of a plan.  And no dependency is added below a
\* completed task.
OneWay ==
    /\ deps \subseteq deps'
    /\ \A t \in Tasks : planOf[t] # NoPlan => planOf'[t] = planOf[t]
    /\ \A t \in Tasks : status[t] = "completed" => status'[t] = "completed"
    /\ \A p \in Plans : planStatus[p] \in Activated => planStatus'[p] \in Activated
    /\ \A e \in deps' \ deps : status[e[1]] # "completed"

LEMMA StepsAreOneWay ==
  ASSUME TypeOK, LeaseShape, [Next]_vars
  PROVE  OneWay
<1>1. ASSUME NEW p \in Plans, CreatePlan(p) \/ CompletePlan(p)
      PROVE OneWay
  BY <1>1, PlanTasksAssumption DEF CreatePlan, CompletePlan, rowVars, TypeOK, OneWay, Activated
<1>2. ASSUME NEW p \in Plans, ActivatePlan(p) \/ ArchivePlan(p)
      PROVE OneWay
  BY <1>2, PlanTasksAssumption DEF ActivatePlan, ArchivePlan, TypeOK, OneWay, Activated
<1>3. ASSUME NEW p \in Plans, NEW T \in SUBSET Tasks, NEW E \in SUBSET (T \X T),
             CreatePlanWithTasks(p, T, E)
      PROVE OneWay
  BY <1>3, PlanTasksAssumption DEF CreatePlanWithTasks, LeaseShape, TypeOK, OneWay, Activated
<1>4. ASSUME NEW p \in Plans, NEW t \in Tasks, AddPlanTask(p, t)
      PROVE OneWay
  BY <1>4, PlanTasksAssumption DEF AddPlanTask, LeaseShape, TypeOK, OneWay, Activated
<1>5. ASSUME NEW t \in Tasks, NEW d \in Tasks, AddTaskDependency(t, d)
      PROVE OneWay
  BY <1>5, PlanTasksAssumption DEF AddTaskDependency, TypeOK, OneWay, Activated
<1>6. ASSUME NEW a \in Agents, NEW t \in Tasks, NEW k \in Tokens, NEW secs \in 1..MaxLease,
             ClaimTask(a, t, k, secs) \/ ClaimTaskResponseLost(a, t, k, secs)
      PROVE OneWay
  BY <1>6, PlanTasksAssumption DEF ClaimTask, ClaimTaskResponseLost, ClaimRow, WriteRow, ClaimAllowed, TypeOK, OneWay, Activated
<1>7. ASSUME NEW a \in Agents, NEW t \in Tasks, NEW k \in known[a], NEW secs \in 1..MaxLease,
             HeartbeatTask(t, k, secs)
      PROVE OneWay
  BY <1>7, PlanTasksAssumption DEF HeartbeatTask, TypeOK, OneWay, Activated
<1>8. ASSUME NEW a \in Agents, NEW t \in Tasks, NEW k \in known[a], ReleaseTask(t, k)
      PROVE OneWay
  BY <1>8, PlanTasksAssumption DEF ReleaseTask, WriteRow, TypeOK, OneWay, Activated
<1>9. ASSUME NEW a \in Agents, NEW t \in Tasks, NEW k \in TokenArg(a),
             BlockTask(t, k) \/ CancelTask(t, k) \/ UnblockTask(t, k)
      PROVE OneWay
  BY <1>9, PlanTasksAssumption DEF BlockTask, CancelTask, UnblockTask, WriteRow, TypeOK, OneWay, Activated
<1>10. ASSUME NEW a \in Agents, NEW t \in Tasks, NEW k \in TokenArg(a),
              NEW s \in {"in_progress", "in_review"}, AdvanceTask(t, k, s)
      PROVE OneWay
  BY <1>10, PlanTasksAssumption DEF AdvanceTask, TypeOK, OneWay, Activated
<1>11. ASSUME NEW a \in Agents, NEW t \in Tasks, NEW k \in TokenArg(a), CompleteTask(a, t, k)
      PROVE OneWay
  BY <1>11, PlanTasksAssumption DEF CompleteTask, Unlocked, TypeOK, OneWay, Activated
<1>12. ASSUME NEW a \in Agents, Crash(a) \/ DropStaleTokens(a)
      PROVE OneWay
  BY <1>12, PlanTasksAssumption DEF Crash, DropStaleTokens, rowVars, TypeOK, OneWay, Activated
<1>13. ASSUME Tick
      PROVE OneWay
  BY <1>13, PlanTasksAssumption DEF Tick, TypeOK, OneWay, Activated
<1>14. CASE UNCHANGED vars
  BY <1>14, PlanTasksAssumption DEF vars, TypeOK, OneWay, Activated
<1> QED
  BY <1>1, <1>2, <1>3, <1>4, <1>5, <1>6, <1>7, <1>8, <1>9, <1>10, <1>11, <1>12, <1>13, <1>14
  DEF Next, PlanNext, WorkNext

-----------------------------------------------------------------------------
(* The inductive invariant, one part per reader.                            *)

\* Between the statements of list_ready_tasks.  always only holds tasks that
\* are claimable now; a task whose lease ran out meanwhile is not one of them,
\* as it was not claimable before.
ListingInv ==
    /\ pc \notin ListPC => late = {}
    /\ pc \in ListPC => always \subseteq Claimable /\ always \cap late = {}
    /\ pc = "tasks" =>
        /\ plansRead \subseteq {p \in Plans : planStatus[p] \in Activated}
        /\ \A t \in always : planOf[t] \in plansRead
    /\ pc \in {"deps", "statuses"} =>
        /\ \A t \in Tasks : OfferedInView(t) => t \in atRead
        /\ \A t \in always : OfferedInView(t)
    /\ pc = "statuses" => depsRead \subseteq deps

\* Between the statements of get_plan: what was read as completed stays so,
\* with all its prerequisites.
GettingInv ==
    pc = "planDeps" =>
        /\ \A t \in Tasks : view[t] = "completed" => status[t] = "completed"
        /\ \A e \in deps : view[e[1]] = "completed" => view[e[2]] = "completed"

ReadInv ==
    /\ IInv
    /\ ListingInv
    /\ ListingIsASnapshot
    /\ GettingInv
    /\ CompletedViewConsistent

\* A statement reads and writes nothing of the plans.
LEMMA ReadStepIsAPlanStep ==
  ASSUME [ReadNext]_readVars
  PROVE  [Next]_vars
BY DEF ReadNext, ReaderStep, readVars, ListBegin, ListReadPlans, ListReadTasks, ListReadDeps,
   ListReadStatuses, GetBegin, GetReadTasks, GetReadDeps, ReadEnd, WriterStep, ReaderWatches

-----------------------------------------------------------------------------
(* Each statement of list_ready_tasks.                                      *)

\* The row and plan conditions of claim_task, for a task whose plan was active
\* once, are those the second SELECT looks at.
LEMMA OfferedIsClaimable ==
  ASSUME IInv, NEW t \in Tasks, planOf[t] \in Plans, planStatus[planOf[t]] \in Activated,
         status[t] = "ready" \/ (status[t] \in Held /\ HasExpiredLease(t))
  PROVE  ClaimAllowed(t)
<1>1. planStatus[planOf[t]] = "active" /\ planOf[t] # NoPlan
  BY PlanTasksAssumption DEF IInv, PlanLifecycle, Activated
<1>2. PrereqsDone(t)
  BY DEF IInv, StartedPrereqsDone
<1>3. lease[t] \in {NoLease} \cup 0..MaxLease /\ MaxLease \in Nat
  BY PlanTasksAssumption DEF IInv, TypeOK
<1> QED
  BY <1>1, <1>2, <1>3 DEF ClaimAllowed, HasExpiredLease

LEMMA ClaimableIsOffered ==
  ASSUME IInv, NEW t \in Tasks, ClaimAllowed(t)
  PROVE  /\ planOf[t] \in Plans /\ planStatus[planOf[t]] = "active"
         /\ status[t] = "ready" \/ (status[t] \in Held /\ HasExpiredLease(t))
         /\ ~(lease[t] > 0)
<1>1. lease[t] \in {NoLease} \cup 0..MaxLease /\ MaxLease \in Nat
  BY PlanTasksAssumption DEF IInv, TypeOK
<1>2. planOf[t] \in Plans \cup {NoPlan}
  BY DEF IInv, TypeOK
<1>3. status[t] \in Held <=> lease[t] # NoLease
  BY DEF IInv, LeaseShape
<1> QED
  BY <1>1, <1>2, <1>3 DEF ClaimAllowed, HasExpiredLease

LEMMA ListBeginStep ==
  ASSUME ReadInv, ListBegin
  PROVE  ListingInv' /\ ListingIsASnapshot'
<1>1. Claimable' = Claimable
  BY DEF ListBegin, vars, Claimable, ClaimAllowed, PrereqsDone, Prereqs
<1> QED
  BY <1>1 DEF ListBegin, ListingInv, ListingIsASnapshot, ReadInv, ListPC

LEMMA ListReadPlansStep ==
  ASSUME ReadInv, ListReadPlans
  PROVE  ListingInv' /\ ListingIsASnapshot'
<1>1. Claimable' = Claimable
  BY DEF ListReadPlans, vars, Claimable, ClaimAllowed, PrereqsDone, Prereqs
<1>2. \A t \in always : planOf[t] \in plansRead'
  BY ClaimableIsOffered DEF ListReadPlans, ReadInv, ListingInv, ListPC, Claimable
<1> QED
  BY <1>1, <1>2 DEF ListReadPlans, vars, ListingInv, ListingIsASnapshot, ReadInv, ListPC, Activated

LEMMA ListReadTasksStep ==
  ASSUME ReadInv, ListReadTasks
  PROVE  ListingInv' /\ ListingIsASnapshot'
<1> USE PlanTasksAssumption
<1>1. Claimable' = Claimable
  BY DEF ListReadTasks, vars, Claimable, ClaimAllowed, PrereqsDone, Prereqs
<1>2. ASSUME NEW t \in Tasks, OfferedInView(t)'
      PROVE  t \in atRead'
  <2>1. /\ planOf[t] \in plansRead
        /\ status[t] = "ready" \/ (status[t] \in Held /\ HasExpiredLease(t))
    BY <1>2 DEF ListReadTasks, OfferedInView
  <2>2. planOf[t] \in Plans /\ planStatus[planOf[t]] \in Activated
    BY <2>1 DEF ListReadTasks, ReadInv, ListingInv
  <2> QED
    BY <2>1, <2>2, OfferedIsClaimable DEF ListReadTasks, ReadInv, Claimable
<1>3. ASSUME NEW t \in always
      PROVE  OfferedInView(t)'
  <2>1. t \in Tasks /\ ClaimAllowed(t) /\ t \notin late /\ planOf[t] \in plansRead
    BY DEF ListReadTasks, ReadInv, ListingInv, ListPC, Claimable
  <2>2. status[t] = "ready" \/ (status[t] \in Held /\ HasExpiredLease(t))
    BY <2>1, ClaimableIsOffered DEF ReadInv
  <2> QED
    BY <2>1, <2>2 DEF ListReadTasks, OfferedInView
<1> QED
  BY <1>1, <1>2, <1>3 DEF ListReadTasks, ListingInv, ListingIsASnapshot, ReadInv, ListPC

LEMMA ListReadDepsStep ==
  ASSUME ReadInv, ListReadDeps
  PROVE  ListingInv' /\ ListingIsASnapshot'
<1>1. Claimable' = Claimable
  BY DEF ListReadDeps, vars, Claimable, ClaimAllowed, PrereqsDone, Prereqs
<1>2. \A t : OfferedInView(t)' <=> OfferedInView(t)
  BY DEF ListReadDeps, OfferedInView
<1> QED
  BY <1>1, <1>2 DEF ListReadDeps, vars, ListingInv, ListingIsASnapshot, ReadInv, ListPC

LEMMA ListReadStatusesStep ==
  ASSUME ReadInv, ListReadStatuses
  PROVE  ListingInv' /\ ListingIsASnapshot'
<1>1. Claimable' = Claimable
  BY DEF ListReadStatuses, vars, Claimable, ClaimAllowed, PrereqsDone, Prereqs
<1>2. listed' \subseteq atRead
  BY DEF ListReadStatuses, ReadInv, ListingInv
<1>3. ASSUME NEW t \in always
      PROVE  t \in listed'
  <2>1. t \in Tasks /\ ClaimAllowed(t) /\ OfferedInView(t)
    BY DEF ListReadStatuses, ReadInv, ListingInv, ListPC, Claimable
  <2>2. \A e \in depsRead : e \in deps /\ e \in Tasks \X Tasks
    BY DEF ListReadStatuses, ReadInv, ListingInv, IInv, TypeOK
  <2>3. \A e \in depsRead : e[1] = t => status[e[2]] = "completed"
    BY <2>1, <2>2 DEF ClaimAllowed, PrereqsDone, Prereqs
  <2> QED
    BY <2>1, <2>3 DEF ListReadStatuses
<1> QED
  BY <1>1, <1>2, <1>3 DEF ListReadStatuses, ListingInv, ListingIsASnapshot, ReadInv, ListPC

-----------------------------------------------------------------------------
(* Each statement of get_plan, the end of a read, and the writers.          *)

LEMMA GetStep ==
  ASSUME ReadInv, (\E p \in Plans : GetBegin(p)) \/ GetReadTasks \/ GetReadDeps \/ ReadEnd
  PROVE  ListingInv' /\ ListingIsASnapshot'
BY DEF GetBegin, GetReadTasks, GetReadDeps, ReadEnd, ReadInv, ListingInv, ListingIsASnapshot, ListPC

LEMMA ListStepGetting ==
  ASSUME ReadInv, ListBegin \/ ListReadPlans \/ ListReadTasks \/ ListReadDeps \/ ListReadStatuses
                    \/ ReadEnd \/ (\E p \in Plans : GetBegin(p))
  PROVE  GettingInv' /\ CompletedViewConsistent'
BY DEF ListBegin, ListReadPlans, ListReadTasks, ListReadDeps, ListReadStatuses, ReadEnd, GetBegin,
   GettingInv, CompletedViewConsistent

LEMMA GetReadTasksStep ==
  ASSUME ReadInv, GetReadTasks
  PROVE  GettingInv' /\ CompletedViewConsistent'
<1>1. ASSUME NEW e \in deps, view'[e[1]] = "completed"
      PROVE  view'[e[2]] = "completed"
  <2>1. e = <<e[1], e[2]>> /\ e[1] \in Tasks /\ e[2] \in Tasks
    BY DEF ReadInv, IInv, TypeOK
  <2>2. status[e[1]] = "completed" /\ planOf[e[1]] \in plansRead
    BY <1>1, <2>1 DEF GetReadTasks
  <2>3. status[e[2]] = "completed"
    BY <2>1, <2>2 DEF ReadInv, IInv, StartedPrereqsDone, PrereqsDone, Prereqs
  <2>4. planOf[e[1]] = planOf[e[2]]
    BY DEF ReadInv, IInv, GraphOK, SamePlan
  <2> QED
    BY <2>1, <2>2, <2>3, <2>4 DEF GetReadTasks
<1>2. \A t \in Tasks : view'[t] = "completed" => status[t] = "completed"
  BY DEF GetReadTasks
<1> QED
  BY <1>1, <1>2 DEF GetReadTasks, vars, GettingInv, CompletedViewConsistent

LEMMA GetReadDepsStep ==
  ASSUME ReadInv, GetReadDeps
  PROVE  GettingInv' /\ CompletedViewConsistent'
BY DEF GetReadDeps, ReadInv, GettingInv, CompletedViewConsistent

\* What was read still bounds what is there, whatever a writer commits.
LEMMA WriterStepKeeps ==
  ASSUME ReadInv, WriterStep
  PROVE  ListingInv' /\ ListingIsASnapshot' /\ GettingInv' /\ CompletedViewConsistent'
<1>1. OneWay
  BY StepsAreOneWay DEF WriterStep, ReaderWatches, ReadInv, IInv
<1>2. \A t \in Tasks : OfferedInView(t)' <=> OfferedInView(t)
  BY DEF WriterStep, ReaderWatches, OfferedInView
<1>3. always' \subseteq always /\ always' \subseteq Claimable'
  BY DEF WriterStep, ReaderWatches, Claimable
<1>4. pc \in ListPC => always' \cap late' = {}
  <2> SUFFICES ASSUME pc \in ListPC, NEW t \in always', t \in late' PROVE FALSE
    OBVIOUS
  <2>1. t \in always /\ t \notin late /\ t \in Claimable
    BY <1>3 DEF ReadInv, ListingInv
  <2>2. lease[t] > 0
    BY <2>1 DEF WriterStep, ReaderWatches
  <2> QED
    BY <2>1, <2>2, ClaimableIsOffered DEF ReadInv, Claimable
<1>5. pc = "tasks" => /\ plansRead \subseteq {p \in Plans : planStatus'[p] \in Activated}
                      /\ \A t \in always' : planOf'[t] \in plansRead
  <2> SUFFICES ASSUME pc = "tasks"
               PROVE  /\ plansRead \subseteq {p \in Plans : planStatus'[p] \in Activated}
                      /\ \A t \in always' : planOf'[t] \in plansRead
    OBVIOUS
  <2>1. plansRead \subseteq {p \in Plans : planStatus'[p] \in Activated}
    BY <1>1 DEF OneWay, ReadInv, ListingInv
  <2>2. ASSUME NEW t \in always'
        PROVE  planOf'[t] \in plansRead
    <3>1. t \in always /\ t \in Tasks /\ ClaimAllowed(t) /\ planOf[t] \in plansRead
      BY <1>3 DEF ReadInv, ListingInv, ListPC, Claimable
    <3> QED
      BY <3>1, <1>1 DEF OneWay, ClaimAllowed
  <2> QED
    BY <2>1, <2>2
<1>6. ListingInv'
  BY <1>1, <1>2, <1>3, <1>4, <1>5 DEF WriterStep, ReaderWatches, ReadInv, ListingInv, OneWay, ListPC, Claimable
<1>7. ListingIsASnapshot'
  BY <1>3 DEF WriterStep, ReaderWatches, ReadInv, ListingIsASnapshot
<1>8. GettingInv'
  <2> SUFFICES ASSUME pc = "planDeps"
               PROVE  /\ \A t \in Tasks : view[t] = "completed" => status'[t] = "completed"
                      /\ \A e \in deps' : view[e[1]] = "completed" => view[e[2]] = "completed"
    BY DEF WriterStep, ReaderWatches, GettingInv
  <2>1. \A t \in Tasks : view[t] = "completed" => status[t] = "completed" /\ status'[t] = "completed"
    BY <1>1 DEF OneWay, ReadInv, GettingInv
  <2>2. deps' \subseteq Tasks \X Tasks
    BY IInvStep DEF WriterStep, ReaderWatches, ReadInv, IInv, TypeOK
  <2>3. ASSUME NEW e \in deps' \ deps
        PROVE  view[e[1]] # "completed"
    BY <1>1, <2>1, <2>2 DEF OneWay
  <2> QED
    BY <2>1, <2>3 DEF ReadInv, GettingInv
<1>9. CompletedViewConsistent'
  BY DEF WriterStep, ReaderWatches, ReadInv, CompletedViewConsistent
<1> QED
  BY <1>6, <1>7, <1>8, <1>9

-----------------------------------------------------------------------------
(* The theorems.                                                            *)

\* The inductive invariant of the readers.
THEOREM ReadInvariant == ReadSpec => []ReadInv
<1>1. ReadInit => ReadInv
  <2> SUFFICES ASSUME ReadInit PROVE ReadInv
    OBVIOUS
  <2>1. IInv
    BY Initial DEF ReadInit
  <2>2. ListingInv /\ ListingIsASnapshot /\ GettingInv /\ CompletedViewConsistent
    BY DEF ReadInit, Idle, ListingInv, ListingIsASnapshot, GettingInv, CompletedViewConsistent,
       ListPC
  <2> QED
    BY <2>1, <2>2 DEF ReadInv
<1>2. ReadInv /\ [ReadNext]_readVars => ReadInv'
  <2> SUFFICES ASSUME ReadInv, [ReadNext]_readVars PROVE ReadInv'
    OBVIOUS
  <2>1. IInv'
    BY ReadStepIsAPlanStep, IInvStep DEF ReadInv
  <2>2. CASE UNCHANGED readVars
    BY <2>1, <2>2 DEF readVars, readerVars, vars, ReadInv, ListingInv, ListingIsASnapshot, GettingInv,
       CompletedViewConsistent, Claimable, ClaimAllowed, PrereqsDone, Prereqs, OfferedInView
  <2>3. CASE ReadNext
    BY <2>1, <2>3, ListBeginStep, ListReadPlansStep, ListReadTasksStep, ListReadDepsStep,
       ListReadStatusesStep, GetStep, ListStepGetting, GetReadTasksStep, GetReadDepsStep,
       WriterStepKeeps DEF ReadNext, ReaderStep, ReadInv
  <2> QED
    BY <2>2, <2>3
<1> QED
  BY <1>1, <1>2, PTL DEF ReadSpec

(* list_ready_tasks, although its five statements see five different states:
   every task it returns was claimable at one instant, that of its second
   SELECT, and a task that was claimable throughout is returned.            *)
THEOREM ListingLinearises == ReadSpec => []ListingIsASnapshot
<1>1. ReadInv => ListingIsASnapshot
  BY DEF ReadInv
<1> QED
  BY <1>1, ReadInvariant, PTL

(* get_plan never shows a completed task with an unfinished prerequisite,
   although tasks and dependencies are read at different instants.          *)
THEOREM CompletedViewsAgree == ReadSpec => []CompletedViewConsistent
<1>1. ReadInv => CompletedViewConsistent
  BY DEF ReadInv
<1> QED
  BY <1>1, ReadInvariant, PTL

=============================================================================
