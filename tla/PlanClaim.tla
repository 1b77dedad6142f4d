----------------------------- MODULE PlanClaim -----------------------------
(* claim_task of planning/service.py, statement by statement, beside other
   claims and the remaining operations of module PlanTasks.

   Every operation on a plan locks its row FOR UPDATE first, so while one
   claim is past that statement no other operation commits on the plan; and
   what a claim decides on is what its session read of the task, which need
   not be what the row says.  SELECT ... FOR UPDATE locks the row and returns
   it, but an object that the session has loaded before keeps its attributes:
   only the query for the plan has populate_existing.

   The lock on the task row is not modelled: it is only ever taken under the
   lock on its plan.                                                         *)
EXTENDS PlanTasks

CONSTANT Calls  \* the claim_task calls that may be under way at once

VARIABLE req    \* req[c]: what call c, by client req[c].by, has done so far

claimVars == <<vars, req>>

Unread == [status |-> "unread", lease |-> NoLease]
NoReq == [pc |-> "idle", by |-> NoAgent, task |-> NoPlan, row |-> Unread,
          prereqs |-> {}, token |-> NoToken, left |-> 0]

ClaimInit == Init /\ req = [c \in Calls |-> NoReq]

-----------------------------------------------------------------------------

Pending(pcs) == {c \in Calls : req[c].pc \in pcs}
PlanLocked(p) ==
    \E c \in Pending({"locked", "read", "checked", "written"}) : planOf[req[c].task] = p

Row(t) == [status |-> status[t], lease |-> lease[t]]

\* The task is loaded, to see that it exists, before anything is locked.
ClaimStart_LoadsTask(c, a, t, secs) ==
    /\ req[c].pc = "idle"
    /\ planOf[t] # NoPlan
    /\ req' = [req EXCEPT ![c] = [NoReq EXCEPT !.pc = "asked", !.by = a, !.task = t,
                                               !.row = Row(t), !.left = secs]]
    /\ UNCHANGED vars

\* The arguments are checked and the project is looked up; nothing of the plan
\* is loaded yet.
ClaimStart(c, a, t, secs) ==
    /\ req[c].pc = "idle"
    /\ planOf[t] # NoPlan
    /\ req' = [req EXCEPT ![c] = [NoReq EXCEPT !.pc = "asked", !.by = a, !.task = t,
                                               !.left = secs]]
    /\ UNCHANGED vars

\* SELECT the plan FOR UPDATE
ClaimLockPlan(c) ==
    /\ req[c].pc = "asked"
    /\ ~PlanLocked(planOf[req[c].task])
    /\ planStatus[planOf[req[c].task]] = "active"
    /\ req' = [req EXCEPT ![c].pc = "locked"]
    /\ UNCHANGED vars

\* SELECT the task FOR UPDATE, into an object the session may have already
ClaimReadTask(c) ==
    LET row == IF req[c].row = Unread THEN Row(req[c].task) ELSE req[c].row
    IN  /\ req[c].pc = "locked"
        /\ row.status \notin Terminal \cup {"blocked", "pending"}
        /\ req' = [req EXCEPT ![c].pc = "read", ![c].row = row]
        /\ UNCHANGED vars

\* SELECT the ids of its prerequisites
ClaimReadDeps(c) ==
    /\ req[c].pc = "read"
    /\ req' = [req EXCEPT ![c].pc = "checked", ![c].prereqs = Prereqs(req[c].task)]
    /\ UNCHANGED vars

\* SELECT an incomplete one among them; then the clock is read, the lease
\* compared, and the token made and the row flushed.
ClaimWrite(c, k) ==
    /\ req[c].pc = "checked"
    /\ \A d \in req[c].prereqs : status[d] = "completed"
    /\ \/ req[c].row.status = "ready"
       \/ req[c].row.status \in Held /\ ~(req[c].row.lease > 0)
    /\ k \in Fresh \ {req[d].token : d \in Calls}
    /\ req' = [req EXCEPT ![c].pc = "written", ![c].token = k]
    /\ UNCHANGED vars

CommitRow(c) ==
    /\ req[c].pc = "written"
    /\ WriteRow(req[c].task, "claimed", req[c].token, req[c].by, req[c].left)
    /\ req' = [req EXCEPT ![c] = NoReq]
    /\ UNCHANGED <<planStatus, planOf, deps>>

\* The commit, whose response reaches the client or is lost.
ClaimCommit(c) ==
    /\ CommitRow(c)
    /\ known' = [known EXCEPT ![req[c].by] = @ \cup {req[c].token}]
ClaimCommitLost(c) == CommitRow(c) /\ UNCHANGED known

\* The call is refused at any of its checks, or its transaction fails.
ClaimEnds(c) ==
    /\ req[c].pc # "idle"
    /\ req' = [req EXCEPT ![c] = NoReq]
    /\ UNCHANGED vars

-----------------------------------------------------------------------------
(* Everybody else.                                                          *)

\* A plan somebody has locked is left alone.
LocksRespected ==
    \A p \in Plans :
        PlanLocked(p) =>
            /\ planStatus'[p] = planStatus[p]
            /\ \A t \in Tasks :
                  /\ planOf'[t] = p <=> planOf[t] = p
                  /\ planOf[t] = p => /\ status'[t] = status[t]
                                      /\ tokenHash'[t] = tokenHash[t]
                                      /\ claimedBy'[t] = claimedBy[t]
                                      /\ lease'[t] = lease[t]
                                      /\ Prereqs(t)' = Prereqs(t)

\* The operations of PlanTasks but claim_task.
OtherOperation ==
    \/ PlanNext
    \/ \E a \in Agents, t \in Tasks :
        \/ \E k \in known[a], secs \in 1..MaxLease : HeartbeatTask(t, k, secs)
        \/ \E k \in known[a] : ReleaseTask(t, k)
        \/ \E k \in TokenArg(a) :
            \/ \E s \in {"in_progress", "in_review"} : AdvanceTask(t, k, s)
            \/ BlockTask(t, k)
            \/ UnblockTask(t, k)
            \/ CancelTask(t, k)
            \/ CompleteTask(a, t, k)

\* One step of the clock: also what a session read is an instant, and so is
\* the end of a lease that is written but not committed.  A claim commits
\* before the lease it gives runs out.
ClockStep ==
    LET Left(l) == IF l > 0 THEN l - 1 ELSE l
    IN  /\ \/ \E t \in Tasks : lease[t] > 0
           \/ Pending({"written"}) # {}
        /\ \A c \in Pending({"written"}) : req[c].left > 1
        /\ lease' = [t \in Tasks |-> Left(lease[t])]
        /\ req' = [c \in Calls |->
                     [req[c] EXCEPT !.row.lease = Left(@),
                                    !.left = IF req[c].pc = "written" THEN Left(@) ELSE @]]
        /\ UNCHANGED <<planStatus, planOf, status, deps, tokenHash, claimedBy, known>>

ClaimNext ==
    \/ \E c \in Calls :
        \/ \E a \in Agents, t \in Tasks, secs \in 1..MaxLease : ClaimStart(c, a, t, secs)
        \/ ClaimLockPlan(c)
        \/ ClaimReadTask(c)
        \/ ClaimReadDeps(c)
        \/ \E k \in Tokens : ClaimWrite(c, k)
        \/ ClaimCommit(c)
        \/ ClaimCommitLost(c)
        \/ ClaimEnds(c)
    \/ OtherOperation /\ LocksRespected /\ UNCHANGED req
    \/ ClockStep
    \/ \E a \in Agents : (Crash(a) \/ DropStaleTokens(a)) /\ UNCHANGED req

ClaimSpec == ClaimInit /\ [][ClaimNext]_claimVars

-----------------------------------------------------------------------------

\* INV-PLAN-3, "Claiming a task atomically allocates an expiring lease": the
\* claims, each a transaction of five statements, behave as the single steps of
\* module PlanTasks.  Whatever two calls and the other operations do between
\* those statements, a row is written only if the plan, the task, its
\* prerequisites and its lease still allow the claim at the commit, and with a
\* token that is nobody else's.
ClaimsAreAtomic == Spec

=============================================================================
