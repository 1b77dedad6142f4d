---------------------------- MODULE MCPlanAudit ----------------------------
(* PlanAudit on a small instance.                                           *)
EXTENDS PlanAudit, TLC

WithoutLogged == <<vars, trail>>

Symmetry ==
    Permutations(Plans) \cup Permutations(Tasks) \cup Permutations(Agents) \cup Permutations(Tokens)

=============================================================================
