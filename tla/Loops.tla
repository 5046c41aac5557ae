-------------------------------- MODULE Loops --------------------------------
(***************************************************************************)
(* Loops of a fixed number of passes.  What pass k makes of v is pass[k][v]. *)
(***************************************************************************)
EXTENDS Naturals

\* What there is after each pass, of x at first.
Passes(pass, x, n) ==
  LET after[k \in 0 .. n] == IF k = 0 THEN x ELSE pass[k][after[k - 1]] IN after

Loop(pass, x, n) == Passes(pass, x, n)[n]
=============================================================================
