---------------------------- MODULE MCCloseGate ----------------------------
(* One invariant, two interchangeable authors. *)
EXTENDS CloseGate, TLC

CONSTANTS i1, c1, x, y, test, review, h1, h2, t0, t1

MCInvs == {i1}
MCCrits == {c1}
MCAuthors == {x, y}
MCKinds == {test, review}
MCCommits == {h1, h2}
MCTrees == {t0, t1}
Def(kind, required, review_, text) ==
    [inv |-> i1, kind |-> kind, required |-> required, review |-> review_, text |-> text]
MCDefinitions ==
    {Def(test, TRUE, FALSE, 0), Def(test, TRUE, FALSE, 1), Def(test, TRUE, TRUE, 0),
     Def(test, FALSE, FALSE, 0), Def(review, TRUE, FALSE, 0)}
MCSymmetry == Permutations(MCAuthors) \cup Permutations(MCCommits)
=============================================================================
