------------------------------ MODULE MCDatabase ------------------------------
(* Small instances of Database.tla for TLC. *)
EXTENDS Database, TLC

ValueSymmetry == Permutations(Values)
=============================================================================
