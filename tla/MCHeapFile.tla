------------------------------ MODULE MCHeapFile ------------------------------
(* Small instances of HeapFile.tla for TLC: rows of one and of two bytes. *)
EXTENDS HeapFile, TLC

CONSTANTS a, b, c, t1, t2

RowSize == (a :> 1) @@ (b :> 1) @@ (c :> 2)

HeapSymmetry == Permutations({a, b}) \cup Permutations({t1, t2})
=============================================================================
