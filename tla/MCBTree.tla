------------------------------- MODULE MCBTree -------------------------------
(* Small instances of BTree.tla for TLC. *)
EXTENDS BTree

\* Three keys in any order, and deletes in between: runs of equal keys that fill a leaf.
Duplicates == [unique |-> FALSE, grain |-> 1, script |-> [n \in 1..7 |-> 1..3],
               deletesFrom |-> 0, maxDeletes |-> 3]

\* Ascending keys, so that every leaf but the last is half full, and then deletes.
Levels == [unique |-> TRUE, grain |-> 1, script |-> [n \in 1..13 |-> {n}],
           deletesFrom |-> 13, maxDeletes |-> 6]

\* Keys of which two agree in the part that is stored.
LongKeys == [unique |-> FALSE, grain |-> 2, script |-> [n \in 1..6 |-> 2..5],
             deletesFrom |-> 6, maxDeletes |-> 0]

SmallIndexes == {Duplicates, Levels, LongKeys}
=============================================================================
