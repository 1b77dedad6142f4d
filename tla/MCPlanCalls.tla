---------------------------- MODULE MCPlanCalls ----------------------------
(* PlanCalls on a small instance.                                            *)
EXTENDS PlanCalls, TLC

Symmetry ==
    Permutations(Tasks) \cup Permutations(Tokens) \cup Permutations(Calls)

=============================================================================
