------------------------------ MODULE MCHeapDisk ------------------------------
(* Small instances of HeapDisk.tla for TLC: a page holds two rows of one byte. *)
EXTENDS HeapDisk, TLC

CONSTANTS a, t1, t2

RowSize == (a :> 1)

TableSymmetry == Permutations({t1, t2})
=============================================================================
