--------------------------- MODULE PlanLiveness ----------------------------
(* What must eventually happen to the tasks of module PlanTasks.  The service
   has no scheduler and no timer of its own: progress comes from the clock and
   from clients that keep calling it.                                       *)
EXTENDS PlanTasks

\* The clock advances.  Nothing is assumed of any client.
ClockSpec == Spec /\ WF_vars(Tick)

\* A lease whose token nobody holds (lost response, crashed client) ends, so
\* the task can be listed and claimed again: no call of anyone can keep it
\* alive, and no operator is needed.
OrphanedLeaseEnds ==
    \A t \in Tasks :
        (lease[t] > 0 /\ \A a \in Agents : tokenHash[t] \notin known[a])
            ~> lease[t] <= 0

ClaimAnswered(t) ==
    \E a \in Agents, k \in Tokens, secs \in 1..MaxLease : ClaimTask(a, t, k, secs)
CompleteInTime(t) ==
    \E a \in Agents : \E k \in known[a] : CompleteTask(a, t, k)
Unblock(t) == UnblockTask(t, NoToken)

\* Workers that poll, as docs/architecture.md draws them: a task that is
\* claimable again and again is at some time claimed with the response
\* received, a task whose token some client holds again and again is at some
\* time completed, a blocked task is unblocked, and dead tokens are dropped.
\* Responses may still be lost, clients crash, leases expire and be
\* reclaimed, tasks be released or blocked, any finite number of times.
WorkersPoll ==
    /\ \A t \in Tasks :
        /\ SF_vars(ClaimAnswered(t))
        /\ SF_vars(CompleteInTime(t))
        /\ WF_vars(Unblock(t))
    /\ \A a \in Agents : WF_vars(DropStaleTokens(a))

\* Given such workers an active plan is completed task by task: the unlocking
\* done by complete_task alone reaches every task, unless somebody cancels one
\* or closes the plan.
PlanDrains ==
    WorkersPoll =>
        \A p \in Plans :
            planStatus[p] = "active" ~>
                \/ planStatus[p] # "active"
                \/ \E t \in TasksIn(p) : status[t] = "cancelled"
                \/ \A t \in TasksIn(p) : status[t] = "completed"

=============================================================================
