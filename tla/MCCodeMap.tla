----------------------------- MODULE MCCodeMap -----------------------------
(* Two versions of a small repository: a file at the top, one four levels deep,
   two directories that import each other, and a directory that is new in the
   second version.                                                           *)
EXTENDS CodeMap, TLC

top == <<"main">>
deep == <<"a", "x", "y", "deep">>
imported == <<"b", "c", "imported">>
other == <<"b", "d", "other">>
new == <<"a", "new">>

MCFiles == <<{top, deep, imported, other}, {top, deep, imported, new}>>
MCDeps == <<{<<deep, imported>>, <<imported, top>>, <<imported, other>>},
            {<<deep, imported>>, <<new, deep>>}>>
MCHotSpots == {<<"a", "x">>}
MCSegments == {"main", "a", "x", "y", "deep", "b", "c", "imported", "d", "other", "new"}
MCSymmetry == Permutations(Slots)
=============================================================================
