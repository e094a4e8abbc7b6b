--------------------------------- MODULE MCWal ---------------------------------
(* Small instances of Wal.tla for TLC. *)
EXTENDS Wal
=============================================================================
