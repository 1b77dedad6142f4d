---------------------------- MODULE MCPanelPlans ---------------------------
(* PanelPlans on a small instance.                                          *)
EXTENDS PanelPlans, TLC

CONSTANTS t1, t2

Chain == {<<t2, t1>>}
Symmetry == Permutations(Tokens)

=============================================================================
