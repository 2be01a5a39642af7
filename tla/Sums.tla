-------------------------------- MODULE Sums --------------------------------
(***************************************************************************)
(* The sum of the values of a function over a finite set.  The function is  *)
(* a value, not an operator, so that lemmas can speak of every function.    *)
(***************************************************************************)
EXTENDS Naturals, FiniteSetsExt

Total(f, S) == MapThenSumSet(LAMBDA x : f[x], S)
=============================================================================
