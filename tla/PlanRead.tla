----------------------------- MODULE PlanRead ------------------------------
(* The read operations of planning/service.py running beside the writers of
   module PlanTasks.  get_plan and list_ready_tasks take no lock and issue one
   SELECT after the other; under READ COMMITTED each sees what is committed
   when it starts, so writers may commit between any two of them.

   One reader at a time: readers change nothing and do not see each other.   *)
EXTENDS PlanTasks

VARIABLES
    pc,         \* the next statement of the reader: "idle"; "plans", "tasks",
                \* "deps", "statuses", "listed" of list_ready_tasks;
                \* "planTasks", "planDeps", "got" of get_plan
    plansRead,  \* plan ids read by its first statement
    view,       \* view[t]: the status read for t, "none" if t was not read
    expired,    \* the tasks read with lease_expires_at <= the reader's now
    depsRead,   \* the dependency rows read
    listed,     \* the answer of list_ready_tasks
    late,       \* the tasks whose lease ran out after the reader took its now
    atRead,     \* history: what was claimable when the tasks were read
    always      \* history: what was claimable all the time since the start

readerVars == <<pc, plansRead, view, expired, depsRead, listed, late, atRead, always>>
readVars == <<vars, readerVars>>

Claimable == {t \in Tasks : ClaimAllowed(t)}
NoView == [t \in Tasks |-> "none"]
ListPC == {"plans", "tasks", "deps", "statuses", "listed"}

Idle ==
    /\ pc = "idle"
    /\ plansRead = {} /\ view = NoView /\ expired = {} /\ depsRead = {}
    /\ listed = {} /\ late = {} /\ atRead = {} /\ always = {}

ReadInit == Init /\ Idle

-----------------------------------------------------------------------------
(* list_ready_tasks, statement by statement.                                *)

\* now = _now()
ListBegin ==
    /\ pc = "idle"
    /\ pc' = "plans"
    /\ always' = Claimable
    /\ UNCHANGED <<vars, plansRead, view, expired, depsRead, listed, late, atRead>>

\* SELECT the active plans
ListReadPlans ==
    /\ pc = "plans"
    /\ pc' = "tasks"
    /\ plansRead' = {p \in Plans : planStatus[p] = "active"}
    /\ UNCHANGED <<vars, view, expired, depsRead, listed, late, atRead, always>>

\* SELECT the candidate tasks of those plans; their leases are compared with
\* the time taken at the beginning
ListReadTasks ==
    /\ pc = "tasks"
    /\ pc' = "deps"
    /\ view' = [t \in Tasks |->
                  IF planOf[t] \in plansRead /\ status[t] \notin Terminal \cup {"blocked"}
                    THEN status[t] ELSE "none"]
    /\ expired' = {t \in Tasks : HasExpiredLease(t) /\ t \notin late}
    /\ atRead' = Claimable
    /\ UNCHANGED <<vars, plansRead, depsRead, listed, late, always>>

\* SELECT the dependencies of the candidates
ListReadDeps ==
    /\ pc = "deps"
    /\ pc' = "statuses"
    /\ depsRead' = {e \in deps : view[e[1]] # "none"}
    /\ UNCHANGED <<vars, plansRead, view, expired, listed, late, atRead, always>>

\* A review is not offered again.
OfferedInView_NoReview(t) ==
    \/ view[t] = "ready"
    \/ view[t] \in {"claimed", "in_progress"} /\ t \in expired

\* The status and lease condition, on what was read.
OfferedInView(t) ==
    \/ view[t] = "ready"
    \/ view[t] \in Held /\ t \in expired

\* SELECT the statuses of the prerequisites, and build the answer
ListReadStatuses ==
    /\ pc = "statuses"
    /\ pc' = "listed"
    /\ listed' = {t \in Tasks :
                    /\ \A e \in depsRead : e[1] = t => status[e[2]] = "completed"
                    /\ OfferedInView(t)}
    /\ UNCHANGED <<vars, plansRead, view, expired, depsRead, late, atRead, always>>

-----------------------------------------------------------------------------
(* get_plan, statement by statement.                                        *)

\* SELECT the plan
GetBegin(p) ==
    /\ pc = "idle"
    /\ planStatus[p] # "none"
    /\ pc' = "planTasks"
    /\ plansRead' = {p}
    /\ UNCHANGED <<vars, view, expired, depsRead, listed, late, atRead, always>>

\* SELECT its tasks
GetReadTasks ==
    /\ pc = "planTasks"
    /\ pc' = "planDeps"
    /\ view' = [t \in Tasks |-> IF planOf[t] \in plansRead THEN status[t] ELSE "none"]
    /\ UNCHANGED <<vars, plansRead, expired, depsRead, listed, late, atRead, always>>

\* SELECT its dependencies; those of tasks that were not read are dropped
GetReadDeps ==
    /\ pc = "planDeps"
    /\ pc' = "got"
    /\ depsRead' = {e \in deps : planOf[e[1]] \in plansRead /\ view[e[1]] # "none"}
    /\ UNCHANGED <<vars, plansRead, view, expired, listed, late, atRead, always>>

-----------------------------------------------------------------------------

\* The answer goes out and the reader forgets it.
ReadEnd ==
    /\ pc \in {"listed", "got"}
    /\ pc' = "idle"
    /\ plansRead' = {} /\ view' = NoView /\ expired' = {} /\ depsRead' = {}
    /\ listed' = {} /\ late' = {} /\ atRead' = {} /\ always' = {}
    /\ UNCHANGED vars

\* What the history remembers of a step of somebody else.
ReaderWatches ==
    /\ late' = IF pc \in ListPC
                 THEN late \cup {t \in Tasks : lease[t] > 0 /\ lease'[t] = 0}
                 ELSE {}
    /\ always' = always \cap {t \in Tasks : ClaimAllowed(t)'}
    /\ UNCHANGED <<pc, plansRead, view, expired, depsRead, listed, atRead>>

\* A writer commits, or the clock moves, between two statements.
WriterStep == Next /\ ReaderWatches

ReaderStep ==
    \/ ListBegin
    \/ ListReadPlans
    \/ ListReadTasks
    \/ ListReadDeps
    \/ ListReadStatuses
    \/ \E p \in Plans : GetBegin(p)
    \/ GetReadTasks
    \/ GetReadDeps
    \/ ReadEnd

ReadNext == ReaderStep \/ WriterStep

ReadSpec == ReadInit /\ [][ReadNext]_readVars

-----------------------------------------------------------------------------
(* Properties.                                                              *)

\* The five statements of list_ready_tasks linearise at the second SELECT:
\* every task in the answer was claimable at the instant the tasks were read,
\* although plans, dependencies and prerequisites were read at other instants;
\* and a task that was claimable from the first statement to the last is in it.
ListingIsASnapshot == pc = "listed" => listed \subseteq atRead /\ always \subseteq listed

\* A completed task of a get_plan answer never shows an unfinished
\* prerequisite, whatever was committed between the two SELECTs.
CompletedViewConsistent ==
    pc = "got" =>
        \A e \in depsRead : view[e[1]] = "completed" => view[e[2]] = "completed"

=============================================================================
