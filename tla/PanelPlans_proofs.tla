------------------------- MODULE PanelPlans_proofs -------------------------
(* Proofs about module PanelPlans, for every number of tabs, every plan and
   every interleaving of calls, answers, other clients and the clock.

   The plan itself is that of PlanTasks: a step of the page or of another
   client is a step of PlanTasks or leaves its variables alone, so the
   inductive invariant of PlanTasks_proofs holds here too and only what the
   browser adds has to be shown.                                            *)
EXTENDS PanelPlans, PlanTasks_proofs

USE DEF NoLease, Held, Terminal, TaskStatus, PlanStatus

Answers == {"none", "ok", "conflict", "error"}
Call == [tab : Tabs, op : Ops, task : Tasks, token : Tokens \cup {NoToken},
         answer : Answers, heard : BOOLEAN]

\* The browser's state; issued tokens are tokens this client has received.
BrowserTypeOK ==
    /\ stored \in [Tasks -> Tokens \cup {NoToken}]
    /\ modal \in [Tabs -> Tasks \cup {NoTask}]
    /\ busy \in [Tabs -> Tasks \cup {NoTask}]
    /\ calls \subseteq Call
    /\ issued \subseteq Tasks \X known[Me]

\* All tasks belong to the plan shown.
OnePlan == planOf = [t \in Tasks |-> Shown]

\* lease_expires_at, absolute, says what the relative lease says.
ExpiryAgrees ==
    /\ clock \in Nat
    /\ expiry \in [Tasks -> Int]
    /\ \A t \in Tasks :
        /\ lease[t] = NoLease => expiry[t] = NoLease
        /\ lease[t] = 0 => expiry[t] \in 0..clock
        /\ lease[t] > 0 => expiry[t] = clock + lease[t]

PanelInv ==
    /\ IInv
    /\ BrowserTypeOK
    /\ TokensFiled
    /\ BusyIsAnswered
    /\ OnePlan
    /\ ExpiryAgrees

-----------------------------------------------------------------------------
(* What the page does to the plan.                                          *)

\* A call that is served is an operation of the service, with a token the
\* client knows or none.
LEMMA PerformIsAStep ==
  ASSUME TypeOK, NEW t \in Tasks, NEW op, NEW k \in TokenArg(Me),
         NEW issue \in Tokens \cup {NoToken}, Perform(op, t, k, issue)
  PROVE  [Next]_vars
<1> USE PlanTasksAssumption, PanelAssumption DEF Secs
<1>1. CASE \E secs \in Secs : ClaimTask(Me, t, issue, secs)
  <2>1. issue \in Tokens
    BY <1>1 DEF ClaimTask, ClaimRow, Fresh
  <2> QED
    BY <1>1, <2>1 DEF Next, WorkNext
<1>2. CASE \E secs \in Secs : HeartbeatTask(t, k, secs)
  <2>1. k \in known[Me]
    BY <1>2 DEF HeartbeatTask, HoldsLease, TokenArg, TypeOK
  <2> QED
    BY <1>2, <2>1 DEF Next, WorkNext
<1>3. CASE ReleaseTask(t, k)
  <2>1. k \in known[Me]
    BY <1>3 DEF ReleaseTask, HoldsLease, TokenArg, TypeOK
  <2> QED
    BY <1>3, <2>1 DEF Next, WorkNext
<1>4. CASE BlockTask(t, k)
  BY <1>4 DEF Next, WorkNext
<1>5. CASE op \in {"in_progress", "in_review"} /\ AdvanceTask(t, k, op)
  BY <1>5 DEF Next, WorkNext
<1>6. CASE CompleteTask(Me, t, k)
  BY <1>6 DEF Next, WorkNext
<1>7. CASE UNCHANGED vars
  BY <1>7
<1> QED
  BY <1>1, <1>2, <1>3, <1>4, <1>5, <1>6, <1>7 DEF Perform

\* The token a call carries is one this client knows, or none.
LEMMA CallTokenKnown ==
  ASSUME BrowserTypeOK, TokensFiled, NEW c \in calls
  PROVE  c.token \in TokenArg(Me)
BY DEF BrowserTypeOK, TokensFiled, TokenArg

\* Every step of the page, of the other clients and of the clock is a step of
\* the planning service or changes nothing of the plan.
LEMMA PanelStepIsAPlanStep ==
  ASSUME TypeOK, BrowserTypeOK, TokensFiled, [PanelNext]_panelVars
  PROVE  [Next]_vars
<1> USE PlanTasksAssumption, PanelAssumption
<1>1. ASSUME NEW b \in Tabs, TabStep(b)
      PROVE  UNCHANGED vars
  BY <1>1 DEF TabStep, OpenPlan, LeavePlan, RefetchPlan, OpenClaim, CloseClaim, SubmitClaim, Press
<1>2. ASSUME NEW c \in calls, ServeCall(c)
      PROVE  [Next]_vars
  <2>1. PICK k \in Tokens \cup {NoToken} : Perform(c.op, c.task, c.token, k)
    BY <1>2 DEF ServeCall
  <2>2. c.task \in Tasks
    BY DEF BrowserTypeOK, Call
  <2> QED
    BY <2>1, <2>2, CallTokenKnown, PerformIsAStep
<1>3. ASSUME NEW c \in calls, RefuseCall(c) \/ LoseCall(c) \/ ReceiveCall(c)
      PROVE  UNCHANGED vars
  BY <1>3 DEF RefuseCall, LoseCall, ReceiveCall
<1>4. ASSUME OthersStep
      PROVE  [Next]_vars
  BY <1>4 DEF OthersStep, OtherClient, Secs, Next, WorkNext, PlanNext
<1>5. ASSUME TimePasses
      PROVE  [Next]_vars
  BY <1>5 DEF TimePasses, Next
<1>6. CASE UNCHANGED panelVars
  BY <1>6 DEF panelVars
<1> QED
  BY <1>1, <1>2, <1>3, <1>4, <1>5, <1>6 DEF PanelNext

-----------------------------------------------------------------------------
(* Initially.                                                               *)

LEMMA PanelInitial ==
  ASSUME PanelInit
  PROVE  PanelInv
<1> USE PlanTasksAssumption, PanelAssumption DEF PanelInit
<1>1. TypeOK /\ LeaseShape
  BY DEF TypeOK, LeaseShape
<1>2. GraphOK
  BY DEF GraphOK, SamePlan, AcyclicPlans, Acyclic, TasksIn
<1>3. PlanLifecycle /\ StartedPrereqsDone /\ NoMissedUnlock /\ ExclusiveHolder
  BY DEF PlanLifecycle, StartedPrereqsDone, NoMissedUnlock, PrereqsDone, Prereqs, ExclusiveHolder
<1>4. BrowserTypeOK /\ TokensFiled /\ BusyIsAnswered
  BY DEF BrowserTypeOK, TokensFiled, BusyIsAnswered
<1>5. OnePlan /\ ExpiryAgrees
  BY DEF OnePlan, ExpiryAgrees
<1> QED
  BY <1>1, <1>2, <1>3, <1>4, <1>5 DEF PanelInv, IInv

-----------------------------------------------------------------------------
(* The browser's types, and who knows the tokens that were issued.          *)

\* A token stays known to the client it was issued to.
LEMMA KnownGrows ==
  ASSUME TypeOK, BrowserTypeOK, TokensFiled, [PanelNext]_panelVars
  PROVE  known[Me] \subseteq known'[Me]
<1> USE PlanTasksAssumption, PanelAssumption
<1>1. ASSUME NEW c \in calls, ServeCall(c)
      PROVE  known[Me] \subseteq known'[Me]
  BY <1>1 DEF ServeCall, Perform, ClaimTask, HeartbeatTask, ReleaseTask, BlockTask, AdvanceTask,
     CompleteTask, vars, TypeOK
<1>2. ASSUME OthersStep
      PROVE  known'[Me] = known[Me]
  BY <1>2 DEF OthersStep, OtherClient, ClaimTask, CompleteTask, UnblockTask, CancelTask,
     ArchivePlan, TypeOK
<1>3. ASSUME NEW b \in Tabs, TabStep(b)
      PROVE  UNCHANGED known
  BY <1>3 DEF TabStep, OpenPlan, LeavePlan, RefetchPlan, OpenClaim, CloseClaim, SubmitClaim,
     Press, vars
<1>4. ASSUME NEW c \in calls, RefuseCall(c) \/ LoseCall(c) \/ ReceiveCall(c)
      PROVE  UNCHANGED known
  BY <1>4 DEF RefuseCall, LoseCall, ReceiveCall, vars
<1> QED
  BY <1>1, <1>2, <1>3, <1>4 DEF PanelNext, TimePasses, Tick, panelVars, vars

\* An answered call stays itself, answered, while somebody waits for it.
LEMMA AnsweredCalls ==
  ASSUME NEW c \in Call, NEW a, NEW k, Answer(c, a, k)
  PROVE  /\ \A d \in calls : d = c \/ d \in calls'
         /\ \A d \in calls' : d \in calls \/ (d.task = c.task /\ d.token = k)
         /\ c.heard => \E d \in calls' : d.tab = c.tab /\ d.task = c.task /\ d.heard
<1> DEFINE e == [c EXCEPT !.answer = a, !.token = k]
<1>1. e.tab = c.tab /\ e.task = c.task /\ e.token = k /\ (c.heard => e.heard)
  BY DEF Call
<1>2. CASE c.heard
  BY <1>1, <1>2 DEF Answer
<1>3. CASE ~c.heard
  BY <1>3 DEF Answer
<1> QED
  BY <1>2, <1>3

\* Calls that lose their callbacks, and answered calls, are calls.
LEMMA CallTypes ==
  ASSUME calls \subseteq Call
  PROVE  /\ \A b, ops : Unheard(b, ops) \subseteq Call
         /\ \A c \in calls, a \in Answers, k \in Tokens \cup {NoToken} :
              Answer(c, a, k) => calls' \subseteq Call
<1>1. \A c \in calls : [c EXCEPT !.heard = FALSE] \in Call
  BY DEF Call
<1>2. \A c \in calls, a \in Answers, k \in Tokens \cup {NoToken} :
        [c EXCEPT !.answer = a, !.token = k] \in Call
  BY DEF Call
<1> QED
  <2>1. \A b, ops : Unheard(b, ops) \subseteq Call
    BY <1>1 DEF Unheard
  <2>2. \A c \in calls, a \in Answers, k \in Tokens \cup {NoToken} :
          Answer(c, a, k) => calls' \subseteq calls \cup {[c EXCEPT !.answer = a, !.token = k]}
    BY DEF Answer
  <2>3. ASSUME NEW c \in calls, NEW a \in Answers, NEW k \in Tokens \cup {NoToken}, Answer(c, a, k)
        PROVE  calls' \subseteq Call
    <3>1. [c EXCEPT !.answer = a, !.token = k] \in Call
      BY <1>2
    <3>2. calls' \subseteq calls \cup {[c EXCEPT !.answer = a, !.token = k]}
      BY <2>2, <2>3
    <3> QED
      BY <3>1, <3>2
  <2> QED
    BY <2>1, <2>3

LEMMA BrowserTypeOKStep ==
  ASSUME TypeOK, BrowserTypeOK, TokensFiled, [PanelNext]_panelVars
  PROVE  BrowserTypeOK'
<1> USE PlanTasksAssumption, PanelAssumption
<1> DEFINE Same == issued \subseteq Tasks \X known'[Me]
<1>0. Same
  BY KnownGrows DEF BrowserTypeOK
<1>1. ASSUME NEW b \in Tabs, OpenPlan(b) \/ LeavePlan(b) \/ RefetchPlan(b) \/ CloseClaim(b)
      PROVE  BrowserTypeOK'
  BY <1>1, <1>0, CallTypes DEF OpenPlan, LeavePlan, RefetchPlan, CloseClaim, BrowserTypeOK
<1>2. ASSUME NEW b \in Tabs, NEW t \in Tasks, OpenClaim(b, t)
      PROVE  BrowserTypeOK'
  BY <1>2, <1>0 DEF OpenClaim, BrowserTypeOK
<1>3. ASSUME NEW b \in Tabs, NEW t \in Tasks, NEW op \in Ops, NEW k \in Tokens \cup {NoToken},
             Mutate(b, op, t, k)
      PROVE  calls' \subseteq Call /\ busy' \in [Tabs -> Tasks \cup {NoTask}]
  <2>1. [tab |-> b, op |-> op, task |-> t, token |-> k, answer |-> "none", heard |-> TRUE] \in Call
    BY DEF Call, Answers
  <2> QED
    BY <1>3, <2>1, CallTypes DEF Mutate, BrowserTypeOK
<1>4. ASSUME NEW b \in Tabs, SubmitClaim(b)
      PROVE  BrowserTypeOK'
  <2>1. modal[b] \in Tasks /\ "claim" \in Ops
    BY <1>4 DEF SubmitClaim, BrowserTypeOK, Ops
  <2> QED
    BY <1>4, <1>3, <1>0, <2>1 DEF SubmitClaim, BrowserTypeOK
<1>5. ASSUME NEW b \in Tabs, NEW t \in Tasks, NEW op \in Ops, Press(b, op, t)
      PROVE  BrowserTypeOK'
  BY <1>5, <1>3, <1>0 DEF Press, BrowserTypeOK
<1>6. ASSUME NEW c \in calls, ServeCall(c)
      PROVE  BrowserTypeOK'
  <2>1. PICK k \in Tokens \cup {NoToken} :
          /\ Perform(c.op, c.task, c.token, k)
          /\ Answer(c, "ok", IF c.op = "claim" THEN k ELSE NoToken)
          /\ issued' = IF c.op = "claim" THEN issued \cup {<<c.task, k>>} ELSE issued
    BY <1>6 DEF ServeCall
  <2>2. calls' \subseteq Call
    BY <2>1, CallTypes DEF BrowserTypeOK, Answers
  <2>3. c.task \in Tasks
    BY DEF BrowserTypeOK, Call
  <2>4. c.op = "claim" => k \in known'[Me]
    BY <2>1, <2>3 DEF Perform, StatusOps, ClaimTask, TypeOK
  <2> QED
    BY <1>6, <1>0, <2>1, <2>2, <2>3, <2>4 DEF ServeCall, BrowserTypeOK
<1>7. ASSUME NEW c \in calls, RefuseCall(c) \/ LoseCall(c)
      PROVE  BrowserTypeOK'
  <2>1. calls' \subseteq Call
    BY <1>7, CallTypes DEF RefuseCall, LoseCall, BrowserTypeOK, Answers
  <2> QED
    BY <1>7, <1>0, <2>1 DEF RefuseCall, LoseCall, BrowserTypeOK
<1>8. ASSUME NEW c \in calls, ReceiveCall(c)
      PROVE  BrowserTypeOK'
  <2>1. c \in Call
    BY DEF BrowserTypeOK
  <2> QED
    BY <1>8, <1>0, <2>1 DEF ReceiveCall, OnSuccess, OnError, Stored, Settle, Call, BrowserTypeOK
<1>9. CASE OthersStep \/ TimePasses \/ UNCHANGED panelVars
  BY <1>9, <1>0 DEF OthersStep, TimePasses, panelVars, browserVars, BrowserTypeOK
<1> QED
  BY <1>1, <1>2, <1>4, <1>5, <1>6, <1>7, <1>8, <1>9 DEF PanelNext, TabStep

-----------------------------------------------------------------------------
(* Tokens and busy cards.                                                   *)

\* Losing callbacks changes no token.
LEMMA UnheardTokens ==
  ASSUME BrowserTypeOK, TokensFiled, NEW b, NEW ops
  PROVE  \A c \in Unheard(b, ops) : c.token # NoToken => <<c.task, c.token>> \in issued
<1>1. \A c \in calls : LET h == [c EXCEPT !.heard = FALSE]
                       IN  h.task = c.task /\ h.token = c.token
  BY DEF BrowserTypeOK, Call
<1> QED
  BY <1>1 DEF Unheard, TokensFiled

\* Wherever a token goes, it stays with the task it was issued for.
LEMMA TokensFiledStep ==
  ASSUME TypeOK, BrowserTypeOK, TokensFiled, [PanelNext]_panelVars
  PROVE  TokensFiled'
<1> USE PlanTasksAssumption, PanelAssumption
<1>1. ASSUME NEW b \in Tabs, OpenPlan(b) \/ LeavePlan(b) \/ RefetchPlan(b) \/ CloseClaim(b)
      PROVE  TokensFiled'
  BY <1>1, UnheardTokens DEF OpenPlan, LeavePlan, RefetchPlan, CloseClaim, TokensFiled
<1>2. ASSUME NEW b \in Tabs, NEW t \in Tasks, OpenClaim(b, t)
      PROVE  TokensFiled'
  BY <1>2 DEF OpenClaim, TokensFiled
<1>3. ASSUME NEW b \in Tabs, SubmitClaim(b)
      PROVE  TokensFiled'
  BY <1>3, UnheardTokens DEF SubmitClaim, Mutate, TokensFiled
<1>4. ASSUME NEW b \in Tabs, NEW t \in Tasks, NEW op \in Ops, Press(b, op, t)
      PROVE  TokensFiled'
  <2>1. \A c \in calls' : c.token # NoToken => <<c.task, c.token>> \in issued
    BY <1>4, UnheardTokens DEF Press, Mutate, TokensFiled
  <2> QED
    BY <1>4, <2>1 DEF Press, TokensFiled
<1>5. ASSUME NEW c \in calls, ServeCall(c)
      PROVE  TokensFiled'
  <2>1. PICK k \in Tokens \cup {NoToken} :
          /\ Answer(c, "ok", IF c.op = "claim" THEN k ELSE NoToken)
          /\ issued' = IF c.op = "claim" THEN issued \cup {<<c.task, k>>} ELSE issued
    BY <1>5 DEF ServeCall
  <2>2. c \in Call
    BY DEF BrowserTypeOK
  <2>3. \A d \in calls' : d.token # NoToken => <<d.task, d.token>> \in issued'
    BY <2>1, <2>2, AnsweredCalls DEF TokensFiled
  <2> QED
    BY <1>5, <2>1, <2>3 DEF ServeCall, TokensFiled
<1>6. ASSUME NEW c \in calls, RefuseCall(c) \/ LoseCall(c)
      PROVE  TokensFiled'
  <2>1. c \in Call
    BY DEF BrowserTypeOK
  <2>2. PICK a : Answer(c, a, NoToken)
    BY <1>6 DEF RefuseCall, LoseCall
  <2>3. \A d \in calls' : d.token # NoToken => <<d.task, d.token>> \in issued
    BY <2>1, <2>2, AnsweredCalls DEF TokensFiled
  <2> QED
    BY <1>6, <2>3 DEF RefuseCall, LoseCall, TokensFiled
<1>7. ASSUME NEW c \in calls, ReceiveCall(c)
      PROVE  TokensFiled'
  <2>1. c \in Call
    BY DEF BrowserTypeOK
  <2>2. stored' = stored \/ stored' = [stored EXCEPT ![c.task] = NoToken]
          \/ stored' = [stored EXCEPT ![c.task] = c.token]
    BY <1>7 DEF ReceiveCall, OnSuccess, OnError, Stored
  <2>3. \A t \in Tasks : stored'[t] # NoToken => <<t, stored'[t]>> \in issued
    BY <2>1, <2>2 DEF TokensFiled, BrowserTypeOK, Call
  <2> QED
    BY <1>7, <2>3 DEF ReceiveCall, TokensFiled
<1>8. CASE OthersStep \/ TimePasses \/ UNCHANGED panelVars
  BY <1>8 DEF OthersStep, TimePasses, panelVars, browserVars, TokensFiled
<1> QED
  BY <1>1, <1>2, <1>3, <1>4, <1>5, <1>6, <1>7, <1>8 DEF PanelNext, TabStep

\* A card that is disabled keeps a call whose answer will enable it.
LEMMA BusyIsAnsweredStep ==
  ASSUME BrowserTypeOK, BusyIsAnswered, [PanelNext]_panelVars
  PROVE  BusyIsAnswered'
<1> USE PlanTasksAssumption, PanelAssumption
<1> DEFINE Awaited(b, cs, t) == \E c \in cs : c.tab = b /\ c.task = t /\ c.heard
<1>0. \A ops, t : \A b, d \in Tabs :
        b # d /\ Awaited(d, calls, t) => Awaited(d, Unheard(b, ops), t)
  BY DEF Unheard
<1>1. ASSUME NEW b \in Tabs, OpenPlan(b) \/ RefetchPlan(b) \/ CloseClaim(b)
      PROVE  BusyIsAnswered'
  BY <1>1 DEF OpenPlan, RefetchPlan, CloseClaim, BusyIsAnswered
<1>2. ASSUME NEW b \in Tabs, NEW t \in Tasks, OpenClaim(b, t)
      PROVE  BusyIsAnswered'
  BY <1>2 DEF OpenClaim, BusyIsAnswered
<1>3. ASSUME NEW b \in Tabs, LeavePlan(b)
      PROVE  BusyIsAnswered'
  <2> SUFFICES ASSUME NEW d \in Tabs, busy'[d] # NoTask
               PROVE  Awaited(d, calls', busy'[d])
    BY DEF BusyIsAnswered
  <2>1. d # b /\ busy'[d] = busy[d] /\ calls' = Unheard(b, Ops)
    BY <1>3 DEF LeavePlan, BrowserTypeOK
  <2>2. Awaited(d, calls, busy[d])
    BY <2>1 DEF BusyIsAnswered
  <2> QED
    BY <1>0, <2>1, <2>2
<1>4. ASSUME NEW b \in Tabs, NEW t, NEW op, NEW k, Mutate(b, op, t, k)
      PROVE  BusyIsAnswered'
  <2> SUFFICES ASSUME NEW d \in Tabs, busy'[d] # NoTask
               PROVE  Awaited(d, calls', busy'[d])
    BY DEF BusyIsAnswered
  <2>1. CASE d = b
    <3> DEFINE new == [tab |-> b, op |-> op, task |-> t, token |-> k, answer |-> "none", heard |-> TRUE]
    <3>1. new \in calls' /\ busy'[b] = t
      BY <1>4 DEF Mutate, BrowserTypeOK
    <3>2. new.tab = b /\ new.task = t /\ new.heard
      OBVIOUS
    <3> QED
      BY <2>1, <3>1, <3>2
  <2>2. CASE d # b
    <3>1. busy'[d] = busy[d] /\ Unheard(b, Hook(op)) \subseteq calls'
      BY <1>4, <2>2 DEF Mutate, BrowserTypeOK
    <3> QED
      BY <1>0, <2>2, <3>1 DEF BusyIsAnswered
  <2> QED
    BY <2>1, <2>2
<1>5. ASSUME NEW b \in Tabs, SubmitClaim(b)
      PROVE  BusyIsAnswered'
  BY <1>5, <1>4 DEF SubmitClaim
<1>6. ASSUME NEW b \in Tabs, NEW t \in Tasks, NEW op \in Ops, Press(b, op, t)
      PROVE  BusyIsAnswered'
  BY <1>6, <1>4 DEF Press
<1>7. ASSUME NEW c \in calls, ServeCall(c) \/ RefuseCall(c) \/ LoseCall(c)
      PROVE  BusyIsAnswered'
  <2>1. PICK a, k : Answer(c, a, k)
    BY <1>7 DEF ServeCall, RefuseCall, LoseCall
  <2>2. busy' = busy
    BY <1>7 DEF ServeCall, RefuseCall, LoseCall
  <2>3. c \in Call
    BY DEF BrowserTypeOK
  <2>4. \A b \in Tabs, t \in Tasks : Awaited(b, calls, t) => Awaited(b, calls', t)
    BY <2>1, <2>3, AnsweredCalls
  <2> QED
    BY <2>2, <2>4 DEF BusyIsAnswered, BrowserTypeOK
<1>8. ASSUME NEW c \in calls, ReceiveCall(c)
      PROVE  BusyIsAnswered'
  <2>1. c \in Call
    BY DEF BrowserTypeOK
  <2> QED
    BY <1>8, <2>1 DEF ReceiveCall, Settle, BusyIsAnswered, BrowserTypeOK, Call
<1>9. CASE OthersStep \/ TimePasses \/ UNCHANGED panelVars
  BY <1>9 DEF OthersStep, TimePasses, panelVars, browserVars, BusyIsAnswered
<1> QED
  BY <1>1, <1>2, <1>3, <1>5, <1>6, <1>7, <1>8, <1>9 DEF PanelNext, TabStep

-----------------------------------------------------------------------------
(* The lease as the server sends it.                                        *)

\* No operation moves a task to another plan, and none but the clock lets a
\* lease reach its end.
LEMMA OperationsKeepLeases ==
  ASSUME TypeOK, OnePlan, BrowserTypeOK,
         OthersStep \/ (\E c \in calls : ServeCall(c))
  PROVE  /\ planOf' = planOf
         /\ lease' \in [Tasks -> {NoLease} \cup 0..MaxLease]
         /\ \A t \in Tasks : lease'[t] = 0 => lease[t] = 0
<1> USE PlanTasksAssumption, PanelAssumption DEF TypeOK
<1> DEFINE Kept == /\ planOf' = planOf
                   /\ lease' \in [Tasks -> {NoLease} \cup 0..MaxLease]
                   /\ \A t \in Tasks : lease'[t] = 0 => lease[t] = 0
<1>1. ASSUME NEW a, NEW t \in Tasks, NEW k, NEW secs \in Secs, ClaimTask(a, t, k, secs)
      PROVE  Kept
  BY <1>1 DEF ClaimTask, ClaimRow, WriteRow, Secs
<1>2. ASSUME NEW t \in Tasks, NEW k, NEW secs \in Secs, HeartbeatTask(t, k, secs)
      PROVE  Kept
  BY <1>2 DEF HeartbeatTask, Secs
<1>3. ASSUME NEW a, NEW t \in Tasks, NEW k, ReleaseTask(t, k) \/ BlockTask(t, k)
                \/ CancelTask(t, k) \/ CompleteTask(a, t, k)
      PROVE  Kept
  BY <1>3 DEF ReleaseTask, BlockTask, CancelTask, CompleteTask, WriteRow
<1>4. ASSUME NEW t \in Tasks, NEW k, NEW s, AdvanceTask(t, k, s) \/ UnblockTask(t, k)
      PROVE  Kept
  BY <1>4 DEF AdvanceTask, UnblockTask
<1>5. ASSUME ArchivePlan(Shown)
      PROVE  Kept
  BY <1>5 DEF ArchivePlan
<1>6. CASE UNCHANGED vars
  BY <1>6 DEF vars
<1>7. ASSUME NEW c \in calls, ServeCall(c)
      PROVE  Kept
  <2>1. c.task \in Tasks
    BY DEF BrowserTypeOK, Call
  <2> QED
    BY <1>7, <1>1, <1>2, <1>3, <1>4, <1>6, <2>1 DEF ServeCall, Perform
<1>8. ASSUME OthersStep
      PROVE  Kept
  BY <1>8, <1>1, <1>3, <1>4, <1>5 DEF OthersStep, OtherClient
<1> QED
  BY <1>7, <1>8

LEMMA ExpiryAgreesStep ==
  ASSUME TypeOK, OnePlan, BrowserTypeOK, ExpiryAgrees, [PanelNext]_panelVars
  PROVE  OnePlan' /\ ExpiryAgrees'
<1> USE PlanTasksAssumption, PanelAssumption
<1>1. ASSUME OthersStep \/ (\E c \in calls : ServeCall(c))
      PROVE  OnePlan' /\ ExpiryAgrees'
  <2>1. StampExpiry /\ clock' = clock
    BY <1>1 DEF OthersStep, ServeCall
  <2> QED
    BY <1>1, <2>1, OperationsKeepLeases DEF StampExpiry, ExpiryAgrees, OnePlan, TypeOK
<1>2. CASE TimePasses
  <2>1. /\ clock' = clock + 1 /\ expiry' = expiry /\ planOf' = planOf
        /\ lease' = [t \in Tasks |-> IF lease[t] > 0 THEN lease[t] - 1 ELSE lease[t]]
    BY <1>2 DEF TimePasses, Tick
  <2> QED
    BY <2>1 DEF ExpiryAgrees, OnePlan, TypeOK
<1>3. ASSUME NEW b \in Tabs, TabStep(b)
      PROVE  UNCHANGED <<planOf, lease, clock, expiry>>
  BY <1>3 DEF TabStep, OpenPlan, LeavePlan, RefetchPlan, OpenClaim, CloseClaim, SubmitClaim,
     Press, vars
<1>4. ASSUME NEW c \in calls, RefuseCall(c) \/ LoseCall(c) \/ ReceiveCall(c)
      PROVE  UNCHANGED <<planOf, lease, clock, expiry>>
  BY <1>4 DEF RefuseCall, LoseCall, ReceiveCall, vars
<1>5. ASSUME UNCHANGED <<planOf, lease, clock, expiry>>
      PROVE  OnePlan' /\ ExpiryAgrees'
  BY <1>5 DEF OnePlan, ExpiryAgrees
<1> QED
  BY <1>1, <1>2, <1>3, <1>4, <1>5 DEF PanelNext, panelVars, vars

-----------------------------------------------------------------------------
(* The theorems.                                                            *)

\* The inductive invariant of the page: that of the service, and what the
\* browser keeps beside it.
THEOREM PanelInvariant == PanelSpec => []PanelInv
<1>1. PanelInit => PanelInv
  BY PanelInitial
<1>2. PanelInv /\ [PanelNext]_panelVars => PanelInv'
  <2> SUFFICES ASSUME PanelInv, [PanelNext]_panelVars PROVE PanelInv'
    OBVIOUS
  <2>1. TypeOK /\ BrowserTypeOK /\ TokensFiled /\ BusyIsAnswered /\ OnePlan /\ ExpiryAgrees
    BY DEF PanelInv, IInv
  <2>2. IInv'
    BY <2>1, PanelStepIsAPlanStep, IInvStep DEF PanelInv
  <2> QED
    BY <2>1, <2>2, BrowserTypeOKStep, TokensFiledStep, BusyIsAnsweredStep, ExpiryAgreesStep
    DEF PanelInv
<1> QED
  BY <1>1, <1>2, PTL DEF PanelSpec

(* Whatever tabs, other clients and the clock do, each step is one of the
   planning service's operations or leaves the plan alone: the page never does
   to a plan what the service does not offer.                               *)
THEOREM ThePageIsAClient == PanelSpec => [][Next]_vars
<1>1. PanelInv /\ [PanelNext]_panelVars => [Next]_vars
  BY PanelStepIsAPlanStep DEF PanelInv, IInv
<1> QED
  BY <1>1, PanelInvariant, PTL DEF PanelSpec

(* Claim tokens in localStorage and in requests belong to the task they are
   filed under, whatever dialogs, overlapping claims and lost answers do.   *)
THEOREM TokensStayWithTheirTask == PanelSpec => []TokensFiled
<1>1. PanelInv => TokensFiled
  BY DEF PanelInv
<1> QED
  BY <1>1, PanelInvariant, PTL

(* busyTaskId never disables a card that no callback will enable again.     *)
THEOREM DisabledCardsAreAnswered == PanelSpec => []BusyIsAnswered
<1>1. PanelInv => BusyIsAnswered
  BY DEF PanelInv
<1> QED
  BY <1>1, PanelInvariant, PTL

\* On present data the absolute comparison of the browser is the relative one
\* of the server.
LEMMA SameExpiry ==
  ASSUME PanelInv, NEW t \in Tasks
  PROVE  /\ IsLeaseExpired(expiry[t], clock) <=> lease[t] = 0
         /\ expiry[t] # NoLease /\ ~IsLeaseExpired(expiry[t], clock) <=> lease[t] > 0
<1>1. lease[t] \in {NoLease} \cup 0..MaxLease /\ MaxLease \in Nat
  BY PlanTasksAssumption DEF PanelInv, IInv, TypeOK
<1>2. /\ clock \in Nat /\ expiry[t] \in Int
      /\ lease[t] = NoLease => expiry[t] = NoLease
      /\ lease[t] = 0 => expiry[t] \in 0..clock
      /\ lease[t] > 0 => expiry[t] = clock + lease[t]
  BY DEF PanelInv, ExpiryAgrees
<1> QED
  BY <1>1, <1>2 DEF IsLeaseExpired

(* planTasks.ts mirrors list_ready_tasks: with present data the ready filter
   shows what the server would list, the expiry instant included.           *)
THEOREM FilterAgreesWithServer == PanelSpec => []ReadyFilterAgrees
<1>1. PanelInv => ReadyFilterAgrees
  <2> SUFFICES ASSUME PanelInv, NEW b \in Tabs, view[b] = Snapshot, now[b] = clock
               PROVE  FilterReadyTasks(view[b], now[b]) = ListReady
    BY DEF ReadyFilterAgrees, ShowsPresent
  <2>1. \A t \in Tasks : IsReclaimable(Snapshot, t, clock) <=> status[t] \in Held /\ lease[t] = 0
    BY SameExpiry DEF IsReclaimable, Snapshot
  <2>2. \A t \in Tasks : planOf[t] = Shown /\ Shown # NoPlan
    BY PlanTasksAssumption, PanelAssumption DEF PanelInv, OnePlan
  <2>3. \A t \in Tasks : HasExpiredLease(t) <=> lease[t] = 0
    BY PlanTasksAssumption DEF HasExpiredLease, PanelInv, IInv, TypeOK
  <2> QED
    BY <2>1, <2>2, <2>3 DEF FilterReadyTasks, IsTaskReady, ListReady, PrereqsDone, Snapshot
<1> QED
  BY <1>1, PanelInvariant, PTL

(* No button in vain: on present data, with the present token or none, the
   server admits every call a card offers, but for the release of a review and
   the completion without a lease.                                          *)
THEOREM OffersAreAdmitted == PanelSpec => []OfferedIsAdmitted
<1>1. PanelInv => OfferedIsAdmitted
  <2> SUFFICES ASSUME PanelInv, NEW b \in Tabs, view[b] = Snapshot, now[b] = clock,
                      NEW t \in Tasks, NEW op \in Ops,
                      stored[t] \in {tokenHash[t], NoToken},
                      t \in hasToken[b] => stored[t] # NoToken,
                      Offers(b, op, t)
               PROVE  Admits(op, t, stored[t]) \/ OfferedInVain(op, t)
    BY DEF OfferedIsAdmitted, ShowsPresent
  <2> DEFINE k == stored[t]
  <2>1. /\ status[t] \in Held <=> lease[t] # NoLease
        /\ lease[t] # NoLease <=> tokenHash[t] # NoToken
        /\ status[t] # "none"
        /\ planOf[t] = Shown /\ planOf[t] # NoPlan
    BY PlanTasksAssumption, PanelAssumption DEF PanelInv, IInv, LeaseShape, OnePlan
  <2>2. lease[t] \in {NoLease} \cup 0..MaxLease /\ MaxLease \in Nat
    BY PlanTasksAssumption DEF PanelInv, IInv, TypeOK
  <2>3. status[t] \in Held \cup {"ready"} => planStatus[Shown] = "active"
    BY <2>1, PanelAssumption DEF PanelInv, IInv, PlanLifecycle, TypeOK
  <2>4. status[t] \in Held \cup {"ready"} => PrereqsDone(t)
    BY DEF PanelInv, IInv, StartedPrereqsDone
  <2>5. LeaseShownActive(view[b], t, now[b]) <=> status[t] \in Held /\ lease[t] > 0
    BY SameExpiry DEF LeaseShownActive, Snapshot
  <2>6. IsReclaimable(view[b], t, now[b]) <=> status[t] \in Held /\ lease[t] = 0
    BY SameExpiry DEF IsReclaimable, Snapshot
  <2>7. CanManage(b, t) => /\ status[t] \in Held /\ lease[t] > 0
                           /\ PlanOpen(t) /\ HoldsLease(t, k) /\ LeaseAdmits(t, k)
                           /\ ~HasExpiredLease(t)
    BY <2>1, <2>2, <2>3, <2>5 DEF CanManage, PlanOpen, HoldsLease, LeaseAdmits, HasActiveLease,
       HasExpiredLease
  <2>8. view[b].status[t] = status[t]
    BY DEF Snapshot
  <2>9. CASE op = "claim"
    BY <2>9, <2>1, <2>2, <2>3, <2>4, <2>6, <2>8 DEF Offers, CanClaim, Admits, ClaimAllowed
  <2>10. CASE op = "complete"
    BY <2>10, <2>1, <2>2, <2>5, <2>7, <2>8
    DEF Offers, CanComplete, Admits, CompleteAllowed, OfferedInVain, HasActiveLease
  <2>11. CASE op = "prompt"
    BY <2>11 DEF Admits
  <2>12. CASE op \in {"heartbeat", "release"} \cup StatusOps
    BY <2>12, <2>7, <2>8 DEF Offers, Admits, OfferedInVain, StatusOps
  <2> QED
    BY <2>9, <2>10, <2>11, <2>12 DEF Ops, StatusOps
<1> QED
  BY <1>1, PanelInvariant, PTL

=============================================================================
