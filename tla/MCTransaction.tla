---------------------------- MODULE MCTransaction ----------------------------
(* Transaction.tla for TLC.  The values of the column are interchangeable. *)
EXTENDS Transaction, TLC

ValueSymmetry == Permutations(Values)
=============================================================================
