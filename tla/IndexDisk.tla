------------------------------ MODULE IndexDisk ------------------------------
(***************************************************************************)
(* An index across crashes: the tree of BTree.tla is the one in the buffer *)
(* pool; its pages reach the file when the pool evicts one or flushes all, *)
(* its root reaches the catalog file whenever it moves, and its entries    *)
(* reach the log when their transaction commits, all but those of CREATE   *)
(* INDEX, which fills the index from the rows of the table.  Recovery      *)
(* inserts the logged entries into the tree it finds on disk.              *)
(*                                                                         *)
(* The rows themselves are taken to be recovered with their RIDs (module   *)
(* Database says when), and the file to be written as it is flushed        *)
(* (HeapDisk has the buffer of the file object).                           *)
(***************************************************************************)
EXTENDS BTree

CONSTANTS
  OldRows,      \* bound: the rows there may be before CREATE INDEX
  MaxCrashes,   \* bound
  MaxWrites     \* bound: the pages that are evicted dirty

ASSUME CrashAssumption == OldRows \subseteq Nat /\ MaxCrashes \in Nat /\ MaxWrites \in Nat

VARIABLES
  rows,         \* the key of each row of the table, by RID
  phase,        \* none, flushed, fill, up, replay, or failed: the open raised
  at,           \* rows filled in, or records replayed
  pending,      \* the last row is not committed
  log,          \* the btree_insert records of committed transactions since the checkpoint
  disk,         \* the pages of the index in the file
  saved,        \* root_page_id in the catalog file
  crashes,
  writes,       \* pages evicted dirty so far
  since,        \* history: what has happened since all pages were last flushed
  sound,        \* history: no crash has left a tree that lacks entries which are not logged
  exact,        \* history: nor one that has entries which are logged
  partial       \* history: CREATE INDEX raised half way

counts == <<crashes, writes>>

history == <<sound, exact, partial>>

indexVars == <<treeVars, rows, phase, at, pending, log, disk, saved, counts, since, history>>

\* A page of zeros reads as an internal node whose child is page 0, which is no index page.
ZeroNode == [leaf |-> FALSE, keys |-> <<>>, vals |-> <<NoPage>>, next |-> NoPage]

\* What makes a crash lose entries, or keep them twice.
Quiet == [written |-> FALSE, grown |-> FALSE, moved |-> FALSE, filled |-> FALSE, ahead |-> FALSE]

DiskInit ==
  /\ index \in Indexes
  /\ tree = [root |-> NoPage, node |-> <<>>]
  /\ entries = {} /\ inserts = 0 /\ deletes = 0
  /\ \E n \in OldRows \cap 0..Len(index.script) :
       rows \in {r \in [1..n -> Keys] : \A i \in 1..n : r[i] \in index.script[i]}
  /\ phase = "none" /\ at = 0 /\ pending = FALSE
  /\ log = <<>> /\ disk = <<>> /\ saved = NoPage
  /\ crashes = 0 /\ writes = 0 /\ since = Quiet
  /\ sound = TRUE /\ exact = TRUE /\ partial = FALSE

-----------------------------------------------------------------------------
(* The tree in the pool *)

\* Pages are only zero in the file until they are written.
Extended(t) == disk \o [i \in 1..(Len(t.node) - Len(disk)) |-> ZeroNode]

RECURSIVE Reaches(_, _, _)
Reaches(t, p, k) == p # NoPage /\ (~t.node[p].leaf => Reaches(t, Child(t.node[p], k), k))

\* insert() gets to a leaf, and that has room or can be split.
CanInsert(k) ==
  /\ Reaches(tree, tree.root, k)
  /\ LET x == tree.node[Last(FindLeafPath(tree, k))]
     IN  Len(x.keys) >= MaxLeaf => SplitPoint(InsertAt(x.keys, BisectRight(x.keys, k) + 1, k)) # NoSplit

AddEntry(k, rid) ==
  /\ CanInsert(k)
  /\ Insert(k, rid)
  /\ disk' = Extended(tree')
  /\ UNCHANGED <<index, inserts, deletes>>

\* (Fault: the catalog file keeps the old root.)
UpdateIndexRootInMemory == UNCHANGED saved

UpdateIndexRoot == saved' = tree'.root

Noted(s) == [s EXCEPT !.grown = @ \/ Len(tree'.node) > Len(tree.node), !.moved = @ \/ tree'.root # tree.root]

-----------------------------------------------------------------------------
(* CREATE INDEX *)

\* Catalog.create_index: the root is formatted and flushed, then the catalog is saved.
CreateIndex ==
  /\ phase = "none"
  /\ LET grown == NewPage(tree, Leaf(<<>>, <<>>, NoPage))
     IN  tree' = [grown EXCEPT !.root = LastPage(grown)]
  /\ disk' = tree'.node
  /\ phase' = "flushed"
  /\ UNCHANGED <<index, entries, inserts, deletes, rows, at, pending, log, saved, counts, since, history>>

SaveIndex ==
  /\ phase = "flushed"
  /\ saved' = tree.root
  /\ phase' = "fill"
  /\ at' = 0
  /\ since' = [since EXCEPT !.filled = rows # <<>>]
  /\ UNCHANGED <<treeVars, rows, pending, log, disk, counts, history>>

\* The rows are inserted one by one, nothing is logged, and the root is recorded at the end.
BackFill ==
  /\ phase = "fill" /\ at < Len(rows)
  /\ AddEntry(rows[at + 1], at + 1)
  /\ at' = at + 1
  /\ since' = Noted(since)
  /\ UNCHANGED <<rows, phase, pending, log, saved, counts, history>>

BackFillEnds ==
  /\ phase = "fill" /\ at = Len(rows)
  /\ UNCHANGED tree
  /\ UpdateIndexRoot
  /\ phase' = "up"
  /\ UNCHANGED <<index, entries, inserts, deletes, rows, at, pending, log, disk, counts, since, history>>

\* An insert raises; the index stays in the catalog, with the root it had at first.
BackFillRaises ==
  /\ phase = "fill" /\ at < Len(rows)
  /\ ~CanInsert(rows[at + 1])
  /\ tree' = [tree EXCEPT !.root = saved]
  /\ phase' = "up"
  /\ partial' = TRUE
  /\ UNCHANGED <<index, entries, inserts, deletes, rows, at, pending, log, disk, saved, counts, since, sound, exact>>

-----------------------------------------------------------------------------
(* Rows *)

\* An INSERT of one row: its entry, the root if that moved, then the log and its commit.
InsertRow ==
  /\ phase = "up" /\ ~pending
  /\ Len(rows) < Len(index.script)
  /\ \E k \in index.script[Len(rows) + 1] :
       /\ AddEntry(k, Len(rows) + 1)
       /\ rows' = Append(rows, k)
  /\ UpdateIndexRoot
  /\ pending' = TRUE
  /\ since' = Noted(since)
  /\ UNCHANGED <<phase, at, log, counts, history>>

Commit ==
  /\ pending
  /\ log' = Append(log, <<Last(rows), Len(rows)>>)
  /\ pending' = FALSE
  /\ UNCHANGED <<treeVars, rows, phase, at, disk, saved, counts, since, history>>

\* The pool evicts a dirty page.
WriteBack(p) ==
  /\ phase \in {"fill", "up", "replay"}
  /\ writes < MaxWrites
  /\ p \in DOMAIN disk /\ disk[p] # tree.node[p]
  /\ writes' = writes + 1
  /\ disk' = [disk EXCEPT ![p] = tree.node[p]]
  /\ since' = [since EXCEPT !.written = TRUE]
  /\ UNCHANGED <<treeVars, rows, phase, at, pending, log, saved, crashes, history>>


Checkpoint ==
  /\ phase = "up" /\ ~pending
  /\ disk' = tree.node
  /\ log' = <<>>
  /\ since' = Quiet
  /\ UNCHANGED <<treeVars, rows, phase, at, pending, saved, counts, history>>

-----------------------------------------------------------------------------
(* Crash and recovery *)

Torn == since.filled \/ since.moved \/ (since.grown /\ since.written)

Crash ==
  /\ phase # "failed" /\ crashes < MaxCrashes
  /\ tree' = [root |-> saved, node |-> disk]
  /\ entries' = {}
  /\ rows' = IF pending THEN Front(rows) ELSE rows
  /\ pending' = FALSE
  /\ phase' = IF saved = NoPage THEN "none" ELSE "replay"
  /\ at' = 0
  /\ crashes' = crashes + 1
  /\ since' = Quiet
  /\ sound' = (sound /\ ~Torn)
  /\ exact' = (exact /\ ~Torn /\ ~since.written /\ ~since.ahead)
  /\ UNCHANGED <<index, inserts, deletes, log, disk, saved, writes, partial>>

\* _apply_recovery_op
Replay ==
  /\ phase = "replay" /\ at < Len(log)
  /\ AddEntry(log[at + 1][1], log[at + 1][2])
  /\ UpdateIndexRoot
  /\ at' = at + 1
  /\ since' = Noted(since)
  /\ UNCHANGED <<rows, phase, pending, log, counts, history>>

\* A page of the path was never written, or there is no split: Database() raises.
ReplayRaises ==
  /\ phase = "replay" /\ at < Len(log)
  /\ ~CanInsert(log[at + 1][1])
  /\ phase' = "failed"
  /\ UNCHANGED <<treeVars, rows, at, pending, log, disk, saved, counts, since, history>>

\* flush_all, but no CHECKPOINT: the log still has what is now on disk.
ReplayEnds ==
  /\ phase = "replay" /\ at = Len(log)
  /\ disk' = tree.node
  /\ phase' = "up"
  /\ since' = [Quiet EXCEPT !.ahead = log # <<>>]
  /\ UNCHANGED <<treeVars, rows, at, pending, log, saved, counts, history>>

DiskNext ==
  \/ CreateIndex \/ SaveIndex \/ BackFill \/ BackFillEnds \/ BackFillRaises
  \/ InsertRow \/ Commit \/ Checkpoint
  \/ \E p \in DOMAIN disk : WriteBack(p)
  \/ Crash \/ Replay \/ ReplayRaises \/ ReplayEnds

DiskSpec == DiskInit /\ [][DiskNext]_indexVars

-----------------------------------------------------------------------------
(* Properties *)

\* Every row has a key of its own, and recovery has not added it so often that its entries
\* fill a leaf.
Roomy ==
  /\ \A i, j \in DOMAIN index.script : i # j => index.script[i] \cap index.script[j] = {}
  /\ crashes < MaxLeaf

\* The index can be opened and finds every row of the table after any number of crashes,
\* in any step of a statement or of recovery itself and whichever pages the pool had written
\* back, unless, since all pages were last flushed, CREATE INDEX had filled the index, its
\* root had moved, or a leaf had been split and some page written back.
RowsFound ==
  sound /\ ~partial =>
    /\ Roomy => phase # "failed"
    /\ phase = "up" => \A i \in DOMAIN rows : i \in Range(Search(tree, rows[i]))

=============================================================================
