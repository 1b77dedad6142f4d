------------------------ MODULE MCRequirementsSync ------------------------
(* A small project.  Texts a and b have one prose under two titles; nested  *)
(* has b's title and a prose with a heading in it that the parser takes for *)
(* a block of its own; in quoting that heading carries the id 1 and a token *)
(* done; long has b's title and more prose than the store accepts, so that  *)
(* a row with text a becomes b when it is given long.                       *)
EXTENDS RequirementsSync, TLC

CONSTANTS a, b, nested, quoting, long, notStarted, done

MCTexts == {a, b, nested, quoting, long}
Piece(k, t, s) == [key |-> k, text |-> t, st |-> s, ok |-> TRUE]
Own(t) == Piece(NoKey, t, notStarted)
MCParts ==
    (a :> <<Own(a)>>) @@ (b :> <<Own(b)>>) @@ (long :> <<Own(long)>>)
      @@ (nested :> <<Own(b), Own(a)>>) @@ (quoting :> <<Own(b), Piece(1, a, done)>>)
MCRefused == {long}
MCKept == [p \in MCTexts \X MCRefused |-> IF p[1] = a THEN b ELSE p[1]]
MCStatuses == {notStarted, done}
=============================================================================
