----------------------------- MODULE PlanCalls -----------------------------
(* Reads and claims statement by statement: list_ready_tasks and get_plan among
   the atomic operations of module PlanTasks (PlanRead), and claim_task among
   the other operations (PlanClaim).

   The statements of a read and those of a claim are not interleaved.  A claim
   changes nothing that others see before it commits, and a read changes and
   locks nothing, so to each of them the other is one step: the commit, which
   ClaimsAreAtomic makes a step of PlanTasks, or none at all.                  *)
EXTENDS PlanRead, PlanClaim

callVars == <<readVars, req>>

CallsInit == ClaimInit /\ Idle

NoClaims == Pending({"idle"}) = Calls

CallsNext ==
    \/ NoClaims /\ ReadNext /\ UNCHANGED req
    \/ pc = "idle" /\ ClaimNext /\ UNCHANGED readerVars

CallsSpec == CallsInit /\ [][CallsNext]_callVars

=============================================================================
