----------------------------- MODULE MCBufferPool -----------------------------
(* Small instances of BufferPool.tla for TLC. *)
EXTENDS BufferPool, TLC

PoolSymmetry == Permutations(Frames) \cup Permutations(Callers) \cup Permutations(Data \ {Zero})
=============================================================================
