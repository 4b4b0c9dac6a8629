--------------------------- MODULE MCExpenseDrafts ---------------------------
(* ExpenseDrafts with two requests that disagree about who took part.      *)
EXTENDS ExpenseDrafts

CONSTANTS c1, c2, b1, b2

MCCalls == {c1, c2}
MCBodies == {b1, b2}
MCBodyOf(c) == IF c = c1 THEN b1 ELSE b2
=============================================================================
