------------------------------ MODULE MCTuple ------------------------------
(***************************************************************************)
(* A small instance of Tuple.                                              *)
(***************************************************************************)
EXTENDS Tuple

\* Every length at which a bounds check changes its mind, one byte below it, and
\* one well above.
MCLengths == {0, 19, 20, 27, 28, 39, 40, 43, 44, 47, 48, 59, 60, 100}
=============================================================================
