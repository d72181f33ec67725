-------------------------------- MODULE Loops --------------------------------
(* A loop over a list of the code, as the function that maps the state     *)
(* before the loop to the state after it.                                  *)
EXTENDS Integers

\* body[1], ..., body[n] applied in this order, to x first.
RunLoop(body, n, x) ==
  LET at[i \in 0 .. n] == IF i = 0 THEN x ELSE body[i][at[i - 1]]
  IN  at[n]
=============================================================================
