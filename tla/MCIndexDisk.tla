----------------------------- MODULE MCIndexDisk -----------------------------
(* Small instances of IndexDisk.tla for TLC. *)
EXTENDS IndexDisk

Index(script) == [unique |-> FALSE, grain |-> 1, script |-> script, deletesFrom |-> 0, maxDeletes |-> 0]

\* Ascending keys: the root splits at the fifth row, its last leaf at the seventh.
Ascending == Index([n \in 1..7 |-> {n}])

\* Descending keys, which split the first leaf.
Descending == Index([n \in 1..6 |-> {7 - n}])

\* One key, which fills a leaf.
Equal == Index([n \in 1..5 |-> {1}])

SmallIndexes == {Ascending, Descending, Equal}
=============================================================================
