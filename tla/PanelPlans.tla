----------------------------- MODULE PanelPlans -----------------------------
(* The plans page of the control panel (pages/Plans.tsx with its cards, its
   claim dialog and lib/planTasks.ts) working on one plan of module PlanTasks.

   A tab shows a cached copy of the plan, keeps claim tokens in localStorage,
   which all tabs share, and calls the server.  A call, its answer and the next
   fetch of the plan are separate steps: other clients, other tabs and the
   clock move in between, and any call may fail before or after it was served.

   Calls run callbacks as TanStack Query's useMutation does: the callbacks
   given to mutate() are dropped when the component unmounts and when mutate()
   is called again on the same hook.  Each kind of call has one hook.        *)
EXTENDS PlanTasks

CONSTANTS
    Tabs,       \* the browser's tabs
    Shown,      \* the plan the tabs show
    Edges,      \* its dependencies, <<task_id, depends_on_task_id>>
    Me,         \* the client of PlanTasks that all tabs of the browser are
    MaxClock,   \* bound: time runs from 0 to MaxClock
    MaxCalls,   \* bound: calls under way at a time
    NoView,     \* no plan in the cache
    NoTask      \* no task chosen

ASSUME PanelAssumption ==
    /\ Shown \in Plans
    /\ Edges \subseteq Tasks \X Tasks /\ Acyclic(Tasks, Edges)
    /\ Me \in Agents
    /\ MaxClock \in Nat /\ MaxCalls \in Nat
    /\ NoTask \notin Tasks

VARIABLES
    clock,      \* wall clock; one clock for server and browser
    expiry,     \* lease_expires_at as the server sends it, absolute
    stored,     \* localStorage: pcs-claim-token:<task>
    open,       \* the tabs that show the plan
    view,       \* view[b]: the plan as tab b has it cached
    now,        \* now[b]: the time tab b compares leases with
    hasToken,   \* hasToken[b]: tasks with a stored token when b last rendered
    modal,      \* modal[b]: claimTarget, the task of the open claim dialog
    busy,       \* busy[b]: busyTaskId
    calls,      \* requests to the server that the browser still waits for
    issued      \* history: <<task, token>> of every claim served for Me

browserVars == <<stored, open, view, now, hasToken, modal, busy, calls, issued>>
panelVars == <<vars, clock, expiry, browserVars>>

Ops == {"claim", "heartbeat", "release", "in_progress", "in_review", "blocked", "complete", "prompt"}
StatusOps == {"in_progress", "in_review", "blocked"}

\* The page is opened on a plan under way: its tasks exist and
\* activate_plan made the first ones ready.
PanelInit ==
    /\ planStatus = [p \in Plans |-> IF p = Shown THEN "active" ELSE "none"]
    /\ planOf = [t \in Tasks |-> Shown]
    /\ deps = Edges
    /\ status = [t \in Tasks |-> IF Prereqs(t) = {} THEN "ready" ELSE "pending"]
    /\ tokenHash = [t \in Tasks |-> NoToken]
    /\ claimedBy = [t \in Tasks |-> NoAgent]
    /\ lease = [t \in Tasks |-> NoLease]
    /\ known = [a \in Agents |-> {}]
    /\ clock = 0 /\ expiry = lease
    /\ stored = [t \in Tasks |-> NoToken]
    /\ open = {} /\ calls = {} /\ issued = {}
    /\ view = [b \in Tabs |-> NoView] /\ now = [b \in Tabs |-> 0]
    /\ hasToken = [b \in Tabs |-> {}]
    /\ modal = [b \in Tabs |-> NoTask] /\ busy = modal

-----------------------------------------------------------------------------
(* What a card offers, computed from the cached plan (lib/planTasks.ts and
   TaskCard).  An operator named X_... is X with a seeded bug.              *)

\* The boundary instant counts as still leased.
IsLeaseExpired_Strict(e, at) == e # NoLease /\ e < at

\* isLeaseExpired
IsLeaseExpired(e, at) == e # NoLease /\ e <= at

\* isReclaimable
IsReclaimable(v, t, at) == v.status[t] \in Held /\ IsLeaseExpired(v.expiry[t], at)

\* leaseState = "active"
LeaseShownActive(v, t, at) ==
    v.status[t] \in Held /\ v.expiry[t] # NoLease /\ ~IsLeaseExpired(v.expiry[t], at)

\* isTaskReady, with dependencies that are part of the answer and never change
IsTaskReady(v, t, at) ==
    /\ v.plan = "active"
    /\ v.status[t] \notin Terminal \cup {"blocked"}
    /\ \A d \in Prereqs(t) : v.status[d] = "completed"
    /\ v.status[t] = "ready" \/ IsReclaimable(v, t, at)

\* filterReadyTasks
FilterReadyTasks(v, at) == {t \in Tasks : IsTaskReady(v, t, at)}

\* Management buttons whatever the lease.
CanManage_AnyLease(b, t) == view[b].status[t] \in Held /\ t \in hasToken[b]

\* canManage: an active lease, and some token in this browser
CanManage(b, t) == LeaseShownActive(view[b], t, now[b]) /\ t \in hasToken[b]

\* canClaimOrReclaim
CanClaim(b, t) == view[b].status[t] = "ready" \/ IsReclaimable(view[b], t, now[b])

\* canComplete
CanComplete(b, t) ==
    /\ view[b].status[t] \notin Terminal
    /\ CanManage(b, t) \/ ~LeaseShownActive(view[b], t, now[b])

\* The buttons of a card
Offers(b, op, t) ==
    /\ b \in open /\ view[b] # NoView
    /\ \/ op = "claim" /\ CanClaim(b, t)
       \/ op = "complete" /\ CanComplete(b, t)
       \/ op = "prompt" /\ view[b].status[t] \notin Terminal
       \/ /\ CanManage(b, t)
          /\ \/ op \in {"heartbeat", "release"}
             \/ op = "in_progress" /\ view[b].status[t] = "claimed"
             \/ op = "in_review" /\ view[b].status[t] = "in_progress"
             \/ op = "blocked" /\ view[b].status[t] \in {"claimed", "in_progress"}

-----------------------------------------------------------------------------
(* The server's side of a call.                                             *)

Secs == 1..MaxLease

\* Does the server admit the call?  Repeating the present status is accepted,
\* and a prompt changes no plan.
Admits(op, t, k) ==
    \/ op = "prompt"
    \/ op = "claim" /\ ClaimAllowed(t)
    \/ op = "heartbeat" /\ PlanOpen(t) /\ HoldsLease(t, k)
    \/ op = "release" /\ PlanOpen(t) /\ HoldsLease(t, k) /\ status[t] \in {"claimed", "in_progress"}
    \/ op = "complete" /\ CompleteAllowed(t, k)
    \/ /\ op \in StatusOps /\ PlanOpen(t) /\ LeaseAdmits(t, k)
       /\ \/ status[t] = op
          \/ op = "in_progress" /\ status[t] = "claimed"
          \/ op = "in_review" /\ status[t] = "in_progress"
          \/ op = "blocked" /\ status[t] \in {"claimed", "in_progress"}

\* A refused call is answered 409 for a conflicting claim, a stale token or a
\* plan that is not active, and 400 for a transition that does not exist.
IsConflict(op, t, k) ==
    \/ ~PlanOpen(t)
    \/ op = "claim" /\ status[t] \in Held
    \/ op \in {"heartbeat", "release"} /\ ~HoldsLease(t, k)
    \/ op \in StatusOps /\ ~LeaseAdmits(t, k)
    \/ op = "complete" /\ status[t] \in Held

\* The admitted call as a step of PlanTasks; issue is the token it hands out.
Perform(op, t, k, issue) ==
    \/ op = "claim" /\ \E secs \in Secs : ClaimTask(Me, t, issue, secs)
    \/ op = "heartbeat" /\ \E secs \in Secs : HeartbeatTask(t, k, secs)
    \/ op = "release" /\ ReleaseTask(t, k)
    \/ op = "blocked" /\ BlockTask(t, k)
    \/ op \in {"in_progress", "in_review"} /\ AdvanceTask(t, k, op)
    \/ op = "complete" /\ CompleteTask(Me, t, k)
    \/ op \in StatusOps /\ status[t] = op /\ UNCHANGED vars
    \/ op = "prompt" /\ UNCHANGED vars

\* lease_expires_at in absolute time, after a step that may have written it;
\* the clock stands still in such a step
StampExpiry ==
    expiry' = [t \in Tasks |->
                 IF lease'[t] = NoLease THEN NoLease
                 ELSE IF lease'[t] > 0 THEN clock + lease'[t]
                 ELSE expiry[t]]

\* What becomes of call c when it is answered, with token k if it is a claim:
\* nobody waits for the answer to a call that is not heard any more.
Answer(c, a, k) ==
    calls' = (calls \ {c}) \cup
               IF c.heard THEN {[c EXCEPT !.answer = a, !.token = k]} ELSE {}

\* The server serves call c.
ServeCall(c) ==
    /\ c.answer = "none"
    /\ Admits(c.op, c.task, c.token)
    /\ \E k \in Tokens \cup {NoToken} :
        /\ c.op # "claim" => k = c.token
        /\ Perform(c.op, c.task, c.token, k)
        /\ Answer(c, "ok", IF c.op = "claim" THEN k ELSE NoToken)
        /\ issued' = IF c.op = "claim" THEN issued \cup {<<c.task, k>>} ELSE issued
    /\ StampExpiry
    /\ UNCHANGED <<clock, stored, open, view, now, hasToken, modal, busy>>

\* The server refuses call c.
RefuseCall(c) ==
    /\ c.answer = "none"
    /\ ~Admits(c.op, c.task, c.token)
    /\ Answer(c, IF IsConflict(c.op, c.task, c.token) THEN "conflict" ELSE "error", NoToken)
    /\ UNCHANGED <<vars, clock, expiry, stored, open, view, now, hasToken, modal, busy, issued>>

\* customFetch rejects without an HTTP status: the request or its answer was
\* lost, or a 2xx body could not be parsed.
LoseCall(c) ==
    /\ c.answer \in {"none", "ok"}
    /\ Answer(c, "error", NoToken)
    /\ UNCHANGED <<vars, clock, expiry, stored, open, view, now, hasToken, modal, busy, issued>>

-----------------------------------------------------------------------------
(* The browser's side.                                                      *)

Snapshot == [plan |-> planStatus[Shown], status |-> status, expiry |-> expiry]
HasToken(store) == {t \in Tasks : store[t] # NoToken}
Render(b, store) == hasToken' = [hasToken EXCEPT ![b] = HasToken(store)]

\* PlanDetail appears, with the cached plan if there is one.
OpenPlan(b) ==
    /\ b \notin open
    /\ open' = open \cup {b}
    /\ now' = [now EXCEPT ![b] = clock]
    /\ Render(b, stored)
    /\ UNCHANGED <<vars, clock, expiry, stored, view, modal, busy, calls, issued>>

\* The calls of tab b to ops lose their callbacks; the requests are not taken
\* back, and all but the prompts, which change nothing, still matter.
Unheard(b, ops) ==
    {IF c.tab = b /\ c.op \in ops THEN [c EXCEPT !.heard = FALSE] ELSE c :
        c \in {d \in calls : d.tab = b /\ d.op \in ops => d.answer = "none" /\ d.op # "prompt"}}

\* The tab leaves the plan: its component state and the callbacks of its calls
\* are gone.
LeavePlan(b) ==
    /\ b \in open
    /\ open' = open \ {b}
    /\ modal' = [modal EXCEPT ![b] = NoTask]
    /\ busy' = [busy EXCEPT ![b] = NoTask]
    /\ calls' = Unheard(b, Ops)
    /\ now' = [now EXCEPT ![b] = 0]
    /\ hasToken' = [hasToken EXCEPT ![b] = {}]
    /\ UNCHANGED <<vars, clock, expiry, stored, view, issued>>

\* The plan is fetched: after mounting, on window focus, with the refresh
\* button, or because a call succeeded.  It may come late or never.  now is
\* computed again only when plan.updated_at has changed, and no operation on
\* a task changes that.
RefetchPlan(b) ==
    /\ b \in open
    /\ view' = [view EXCEPT ![b] = Snapshot]
    /\ now' = [now EXCEPT ![b] =
                 IF view[b] = NoView THEN clock
                 ELSE IF view[b].plan # planStatus[Shown] THEN clock ELSE @]
    /\ Render(b, stored)
    /\ UNCHANGED <<vars, clock, expiry, stored, open, modal, busy, calls, issued>>

\* mutate(): the call goes out, and earlier calls on the same hook are no
\* longer listened to.
Hook(op) == IF op \in StatusOps THEN StatusOps ELSE {op}

Mutate(b, op, t, k) ==
    /\ Cardinality(calls) < MaxCalls
    /\ calls' = Unheard(b, Hook(op)) \cup
                 {[tab |-> b, op |-> op, task |-> t, token |-> k, answer |-> "none", heard |-> TRUE]}
    /\ busy' = [busy EXCEPT ![b] = t]

\* onClaim: the dialog opens
OpenClaim(b, t) ==
    /\ Offers(b, "claim", t) /\ busy[b] # t /\ modal[b] = NoTask
    /\ modal' = [modal EXCEPT ![b] = t]
    /\ Render(b, stored)
    /\ UNCHANGED <<vars, clock, expiry, stored, open, view, now, busy, calls, issued>>

\* Cancel, the cross or the backdrop, also while the claim is under way
CloseClaim(b) ==
    /\ modal[b] # NoTask
    /\ modal' = [modal EXCEPT ![b] = NoTask]
    /\ Render(b, stored)
    /\ UNCHANGED <<vars, clock, expiry, stored, open, view, now, busy, calls, issued>>

\* submitClaim, enabled while no claim of this tab is pending
SubmitClaim(b) ==
    /\ modal[b] # NoTask
    /\ \A c \in calls : ~(c.tab = b /\ c.op = "claim" /\ c.heard)
    /\ Mutate(b, "claim", modal[b], NoToken)
    /\ Render(b, stored)
    /\ UNCHANGED <<vars, clock, expiry, stored, open, view, now, modal, issued>>

\* heartbeat, release and setStatus through withToken, which reads localStorage
\* again and gives up without a token; complete goes out without one, and
\* copyPrompt never sends it.
Press(b, op, t) ==
    /\ Offers(b, op, t) /\ busy[b] # t /\ op # "claim" /\ modal[b] = NoTask
    /\ stored[t] # NoToken \/ op \in {"complete", "prompt"}
    /\ Mutate(b, op, t, IF op = "prompt" THEN NoToken ELSE stored[t])
    /\ Render(b, stored)
    /\ UNCHANGED <<vars, clock, expiry, stored, open, view, now, modal, issued>>

Stored(c, k) == stored' = [stored EXCEPT ![c.task] = k]

\* A new token is put under the task the dialog shows by then.
OnSuccess_DialogTask(c) ==
    /\ stored' = IF c.op = "claim"
                   THEN [t \in Tasks |-> IF t = modal[c.tab] THEN c.token ELSE stored[t]]
                 ELSE IF c.op \in {"release", "complete"} THEN [stored EXCEPT ![c.task] = NoToken]
                 ELSE stored
    /\ modal' = IF c.op = "claim" THEN [modal EXCEPT ![c.tab] = NoTask] ELSE modal

\* onSuccess: the token is kept or thrown away and the claim dialog closes.  The
\* refetch by invalidatePlanningQueries is a RefetchPlan; module QueryCache has
\* what it guarantees.
OnSuccess(c) ==
    /\ IF c.op = "claim" THEN Stored(c, c.token)
       ELSE IF c.op \in {"release", "complete"} THEN Stored(c, NoToken)
       ELSE stored' = stored
    /\ modal' = IF c.op = "claim" THEN [modal EXCEPT ![c.tab] = NoTask] ELSE modal

\* onError with handlePlanningError: any 409 clears the token of the task.
OnError(c) ==
    /\ IF c.answer = "conflict" THEN Stored(c, NoToken) ELSE stored' = stored
    /\ UNCHANGED modal

\* The error callbacks leave the card disabled.
Settle_OnlySuccess(c) ==
    busy' = IF c.answer = "ok" THEN [busy EXCEPT ![c.tab] = NoTask] ELSE busy

\* setBusyTaskId(null), the first or last statement of every callback
Settle(c) == busy' = [busy EXCEPT ![c.tab] = NoTask]

\* The answer arrives.
ReceiveCall(c) ==
    /\ c.answer # "none"
    /\ calls' = calls \ {c}
    /\ IF c.answer = "ok" THEN OnSuccess(c) ELSE OnError(c)
    /\ Settle(c)
    /\ Render(c.tab, stored')
    /\ UNCHANGED <<vars, clock, expiry, open, view, now, issued>>

-----------------------------------------------------------------------------
(* The environment and the specification.                                   *)

\* Agents and other browsers work on the same plan.  Of what they may do, their
\* heartbeats, other status changes and releases are left out: to this browser
\* they look like a longer lease, a task held or a task completed by others; and
\* a completed plan, which is not active either, looks like an archived one.
OtherClient(a, t) ==
    \/ \E k \in Tokens, secs \in Secs : ClaimTask(a, t, k, secs)
    \/ \E k \in TokenArg(a) : CompleteTask(a, t, k) \/ UnblockTask(t, k) \/ CancelTask(t, k)

OthersStep ==
    /\ \/ \E a \in Agents \ {Me}, t \in Tasks : OtherClient(a, t)
       \/ ArchivePlan(Shown)
    /\ StampExpiry
    /\ UNCHANGED <<clock, browserVars>>

TimePasses ==
    /\ clock < MaxClock
    /\ Tick
    /\ clock' = clock + 1
    /\ UNCHANGED <<expiry, browserVars>>

TabStep(b) ==
    \/ OpenPlan(b)
    \/ LeavePlan(b)
    \/ RefetchPlan(b)
    \/ \E t \in Tasks : OpenClaim(b, t)
    \/ CloseClaim(b)
    \/ SubmitClaim(b)
    \/ \E t \in Tasks, op \in Ops : Press(b, op, t)

PanelNext ==
    \/ \E b \in Tabs : TabStep(b)
    \/ \E c \in calls : ServeCall(c) \/ RefuseCall(c) \/ LoseCall(c) \/ ReceiveCall(c)
    \/ OthersStep
    \/ TimePasses

PanelSpec == PanelInit /\ [][PanelNext]_panelVars

-----------------------------------------------------------------------------
(* Properties.                                                              *)

\* A token is only ever kept under, and sent for, the task it was issued for,
\* although dialogs close, tasks change and claims overlap before it arrives.
TokensFiled ==
    /\ \A t \in Tasks : stored[t] # NoToken => <<t, stored[t]>> \in issued
    /\ \A c \in calls : c.token # NoToken => <<c.task, c.token>> \in issued

\* A disabled card waits for an answer that will enable it again: busyTaskId
\* is one variable for all cards and all calls, and callbacks get dropped.
BusyIsAnswered ==
    \A b \in Tabs : busy[b] # NoTask =>
        \E c \in calls : c.tab = b /\ c.task = busy[b] /\ c.heard

\* Tab b shows the rows as they are and has computed now from them.
ShowsPresent(b) == b \in open /\ view[b] = Snapshot /\ now[b] = clock

\* planTasks.ts, "mirrored client-side from list_ready_tasks": on present data
\* the ready filter shows what the server would list.
ReadyFilterAgrees ==
    \A b \in Tabs : ShowsPresent(b) => FilterReadyTasks(view[b], now[b]) = ListReady

\* The two buttons the page offers in vain: Release of a review, and Complete
\* without an active lease.
OfferedInVain(op, t) ==
    \/ op = "release" /\ status[t] = "in_review"
    \/ op = "complete" /\ ~HasActiveLease(t)

\* On present data, with the present token or none, the server admits every
\* other call a card offers.
OfferedIsAdmitted ==
    \A b \in Tabs : ShowsPresent(b) =>
        \A t \in Tasks, op \in Ops :
            /\ stored[t] \in {tokenHash[t], NoToken}
            /\ t \in hasToken[b] => stored[t] # NoToken
            /\ Offers(b, op, t)
          => Admits(op, t, stored[t]) \/ OfferedInVain(op, t)

=============================================================================
