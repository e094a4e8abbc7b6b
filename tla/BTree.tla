-------------------------------- MODULE BTree --------------------------------
(***************************************************************************)
(* The B+-tree of index/btree.py.  A tree is the page of its root and the  *)
(* nodes in its pages; pages are numbered from 1 in the order in which     *)
(* they are allocated, and are never given back.  A leaf has as many       *)
(* values (RIDs) as keys, an internal node has one value (a child) more.   *)
(*                                                                         *)
(* A key is a number.  A key longer than key_size is cut off when its node *)
(* is written: keys that agree up to `grain' are then the same key.  An    *)
(* INT index has grain = 1.                                                *)
(***************************************************************************)
EXTENDS Integers, Sequences, SequencesExt, FiniteSetsExt

CONSTANTS
  MaxLeaf,      \* max_leaf_keys
  MaxInternal,  \* max_internal_keys
  Indexes       \* bound: the indexes that are built, and from what, as records of
                \*   unique       whether the index is unique
                \*   grain        the keys its encoding does not tell apart
                \*   script       the keys its first, second, ... insert may be given
                \*   deletesFrom  the number of inserts after which deletes begin
                \*   maxDeletes   and how many there may be

ASSUME TreeAssumption ==
  /\ MaxLeaf \in Nat /\ MaxLeaf >= 4
  /\ MaxInternal \in Nat /\ MaxInternal >= 4
  /\ \A i \in Indexes : i.grain \in Nat \ {0} /\ i.unique \in BOOLEAN

VARIABLES
  index,        \* the one of the indexes that is built
  tree,         \* the tree: its root and its nodes
  entries,      \* history: the entries inserted and not deleted since
  inserts,      \* entries inserted so far, which numbers the RIDs
  deletes

treeVars == <<index, tree, entries, inserts, deletes>>

MinLeaf == MaxLeaf \div 2

MinInternal == IF (MaxInternal - 1) \div 2 > 1 THEN (MaxInternal - 1) \div 2 ELSE 1

NoPage == 0

-----------------------------------------------------------------------------
(* Pages *)

Encode(k) == k - (k % index.grain)

EncodeAll(keys) == [i \in DOMAIN keys |-> Encode(keys[i])]

Leaf(keys, rids, next) == [leaf |-> TRUE, keys |-> EncodeAll(keys), vals |-> rids, next |-> next]

Internal(children, keys) == [leaf |-> FALSE, keys |-> EncodeAll(keys), vals |-> children, next |-> NoPage]

\* The tree t with node x written to page p, and with x in a new page.
Write(t, p, x) == [t EXCEPT !.node[p] = x]

NewPage(t, x) == [t EXCEPT !.node = Append(@, x)]

LastPage(t) == Len(t.node)

Init ==
  /\ index \in Indexes
  /\ tree = [root |-> 1, node |-> <<Leaf(<<>>, <<>>, NoPage)>>]
  /\ entries = {}
  /\ inserts = 0
  /\ deletes = 0

-----------------------------------------------------------------------------
(* Search *)

\* As many keys come before the place of k: those below it, and those up to it.
BisectLeft(keys, k) == Cardinality({i \in DOMAIN keys : keys[i] < k})

BisectRight(keys, k) == Cardinality({i \in DOMAIN keys : keys[i] <= k})

Child(x, k) == x.vals[BisectRight(x.keys, k) + 1]

RECURSIVE PathFrom(_, _, _)
PathFrom(t, p, k) == IF t.node[p].leaf THEN <<p>> ELSE <<p>> \o PathFrom(t, Child(t.node[p], k), k)

FindLeafPath(t, k) == PathFrom(t, t.root, k)

Search(t, k) ==
  LET x == t.node[Last(FindLeafPath(t, k))]
  IN  SubSeq(x.vals, BisectLeft(x.keys, k) + 1, BisectRight(x.keys, k))

RECURSIVE LeftmostLeaf(_, _)
LeftmostLeaf(t, p) == IF t.node[p].leaf THEN p ELSE LeftmostLeaf(t, t.node[p].vals[1])

\* The leaves from page p on, along next_leaf (and n of them at most).
RECURSIVE LeavesFrom(_, _, _)
LeavesFrom(t, p, n) == IF p = NoPage \/ n = 0 THEN <<>> ELSE <<p>> \o LeavesFrom(t, t.node[p].next, n - 1)

\* What range_scan(start, end) yields: all the entries of these leaves, from `start' on,
\* up to the first that is beyond `end'.
RangeScan(t, start, end) ==
  LET leaves == LeavesFrom(t, Last(FindLeafPath(t, start)), LastPage(t))
      pairs(p) == [i \in DOMAIN t.node[p].keys |-> <<t.node[p].keys[i], t.node[p].vals[i]>>]
      from(p) == SubSeq(pairs(p), BisectLeft(t.node[p].keys, start) + 1, Len(pairs(p)))
      all == FlattenSeq([i \in DOMAIN leaves |-> from(leaves[i])])
      beyond == {i \in DOMAIN all : all[i][1] > end}
  IN  IF beyond = {} THEN all ELSE SubSeq(all, 1, Min(beyond) - 1)

FullScan(t) ==
  LET leaves == LeavesFrom(t, LeftmostLeaf(t, t.root), LastPage(t))
      pairs(p) == [i \in DOMAIN t.node[p].keys |-> <<t.node[p].keys[i], t.node[p].vals[i]>>]
  IN  FlattenSeq([i \in DOMAIN leaves |-> pairs(leaves[i])])

-----------------------------------------------------------------------------
(* Insertion *)

NoSplit == 0

\* (Fault: the middle, whatever the keys there.)
SplitPointMiddle(keys) == Len(keys) \div 2

\* _split_point_avoiding_duplicates: the end of the run of equal keys in the middle, or
\* its beginning, or none.
SplitPoint(keys) ==
  LET mid == Len(keys) \div 2
      ends == {i \in mid..(Len(keys) - 1) : keys[i + 1] # keys[mid]}
      begins == {i \in 1..(mid - 1) : keys[i] # keys[mid]}
  IN  IF ends # {} THEN Min(ends) ELSE IF begins # {} THEN Max(begins) ELSE NoSplit

UpTo(s, n) == SubSeq(s, 1, n)
After(s, n) == SubSeq(s, n + 1, Len(s))

IndexOf(s, e) == CHOOSE i \in DOMAIN s : s[i] = e /\ \A j \in 1..(i - 1) : s[j] # e

\* An internal node in page p that is too large: its right half goes to a new page, and the
\* key between the halves goes up.
SplitInternal(t, p, children, keys) ==
  LET mid == Len(keys) \div 2
  IN  Write(NewPage(t, Internal(After(children, mid + 1), After(keys, mid + 1))),
            p, Internal(UpTo(children, mid + 1), UpTo(keys, mid)))

RECURSIVE InsertIntoParent(_, _, _, _, _)
InsertIntoParent(t, path, left, sep, right) ==
  IF path = <<>>
    THEN LET grown == NewPage(t, Internal(<<left, right>>, <<sep>>))
         IN  [grown EXCEPT !.root = LastPage(grown)]
    ELSE LET parent == Last(path)
             idx == IndexOf(t.node[parent].vals, left)
             children == InsertAt(t.node[parent].vals, idx + 1, right)
             keys == InsertAt(t.node[parent].keys, idx, sep)
         IN  IF Len(keys) <= MaxInternal
               THEN Write(t, parent, Internal(children, keys))
               ELSE LET split == SplitInternal(t, parent, children, keys)
                    IN  InsertIntoParent(split, Front(path), parent,
                                         keys[(Len(keys) \div 2) + 1], LastPage(split))

SplitLeaf(t, p, keys, rids, mid) ==
  Write(NewPage(t, Leaf(After(keys, mid), After(rids, mid), t.node[p].next)),
        p, Leaf(UpTo(keys, mid), UpTo(rids, mid), LastPage(t) + 1))

\* insert(); it raises, and writes nothing, where a unique index has the key and where a
\* leaf has no split point.
Insert(k, rid) ==
  LET path == FindLeafPath(tree, k)
      p == Last(path)
      pos == BisectRight(tree.node[p].keys, k)
      keys == InsertAt(tree.node[p].keys, pos + 1, k)
      rids == InsertAt(tree.node[p].vals, pos + 1, rid)
      mid == SplitPoint(keys)
  IN  /\ index.unique => Search(tree, k) = <<>>
      /\ \/ /\ Len(keys) <= MaxLeaf
            /\ tree' = Write(tree, p, Leaf(keys, rids, tree.node[p].next))
         \/ /\ Len(keys) > MaxLeaf
            /\ mid # NoSplit
            /\ LET split == SplitLeaf(tree, p, keys, rids, mid)
               IN  tree' = InsertIntoParent(split, Front(path), p, keys[mid + 1], LastPage(split))
      /\ entries' = entries \cup {<<k, rid>>}

-----------------------------------------------------------------------------
(* Deletion *)

\* The run of equal keys that `keys' begins with, and the one it ends with.
LeadingRun(keys) == Cardinality({i \in DOMAIN keys : keys[i] = keys[1]})

TrailingRun(keys) == Cardinality({i \in DOMAIN keys : keys[i] = keys[Len(keys)]})

\* A leaf may give n entries to a sibling.
CanLend(from, to, n) ==
  n < Len(from.keys) /\ Len(from.keys) - n >= MinLeaf /\ Len(to.keys) + n <= MaxLeaf

BorrowRight(t, parent, idx) ==
  LET p == t.node[parent]
      x == t.node[p.vals[idx]]
      r == t.node[p.vals[idx + 1]]
      n == LeadingRun(r.keys)
      left == Leaf(x.keys \o UpTo(r.keys, n), x.vals \o UpTo(r.vals, n), x.next)
      right == Leaf(After(r.keys, n), After(r.vals, n), r.next)
  IN  Write(Write(Write(t, p.vals[idx], left), p.vals[idx + 1], right),
            parent, Internal(p.vals, [p.keys EXCEPT ![idx] = right.keys[1]]))

BorrowLeft(t, parent, idx) ==
  LET p == t.node[parent]
      x == t.node[p.vals[idx]]
      l == t.node[p.vals[idx - 1]]
      n == Len(l.keys) - TrailingRun(l.keys)
      left == Leaf(UpTo(l.keys, n), UpTo(l.vals, n), l.next)
      right == Leaf(After(l.keys, n) \o x.keys, After(l.vals, n) \o x.vals, x.next)
  IN  Write(Write(Write(t, p.vals[idx - 1], left), p.vals[idx], right),
            parent, Internal(p.vals, [p.keys EXCEPT ![idx - 1] = right.keys[1]]))

\* (Fault: the merged leaf points at the page that was merged into it.)
CombineLeavesUnthreaded(t, parent, i) ==
  LET p == t.node[parent]
      l == t.node[p.vals[i]]
      r == t.node[p.vals[i + 1]]
  IN  Write(Write(t, p.vals[i], Leaf(l.keys \o r.keys, l.vals \o r.vals, l.next)),
            parent, Internal(RemoveAt(p.vals, i + 1), RemoveAt(p.keys, i)))

\* The leaves at i and i + 1 become one, or share their entries anew if that is too large.
\* (There is a split point then: they have no key in common and neither is empty.)
CombineLeaves(t, parent, i) ==
  LET p == t.node[parent]
      l == t.node[p.vals[i]]
      r == t.node[p.vals[i + 1]]
      keys == l.keys \o r.keys
      rids == l.vals \o r.vals
      mid == SplitPoint(keys)
  IN  IF Len(keys) <= MaxLeaf
        THEN Write(Write(t, p.vals[i], Leaf(keys, rids, r.next)),
                   parent, Internal(RemoveAt(p.vals, i + 1), RemoveAt(p.keys, i)))
        ELSE Write(Write(Write(t, p.vals[i], Leaf(UpTo(keys, mid), UpTo(rids, mid), p.vals[i + 1])),
                         p.vals[i + 1], Leaf(After(keys, mid), After(rids, mid), r.next)),
                   parent, Internal(p.vals, [p.keys EXCEPT ![i] = keys[mid + 1]]))

FixupLeaf(t, parent, idx) ==
  LET p == t.node[parent]
      x == t.node[p.vals[idx]]
      hasRight == idx < Len(p.vals)
      hasLeft == idx > 1
  IN  IF hasRight /\ CanLend(t.node[p.vals[idx + 1]], x, LeadingRun(t.node[p.vals[idx + 1]].keys))
        THEN BorrowRight(t, parent, idx)
      ELSE IF hasLeft /\ CanLend(t.node[p.vals[idx - 1]], x, TrailingRun(t.node[p.vals[idx - 1]].keys))
        THEN BorrowLeft(t, parent, idx)
      ELSE CombineLeaves(t, parent, IF hasRight THEN idx ELSE idx - 1)

\* A child of the sibling moves over, and the separators turn through the parent.
RotateLeft(t, parent, idx) ==
  LET p == t.node[parent]
      x == t.node[p.vals[idx]]
      r == t.node[p.vals[idx + 1]]
  IN  Write(Write(Write(t, p.vals[idx], Internal(Append(x.vals, Head(r.vals)), Append(x.keys, p.keys[idx]))),
                  p.vals[idx + 1], Internal(Tail(r.vals), Tail(r.keys))),
            parent, Internal(p.vals, [p.keys EXCEPT ![idx] = Head(r.keys)]))

RotateRight(t, parent, idx) ==
  LET p == t.node[parent]
      x == t.node[p.vals[idx]]
      l == t.node[p.vals[idx - 1]]
  IN  Write(Write(Write(t, p.vals[idx], Internal(<<Last(l.vals)>> \o x.vals, <<p.keys[idx - 1]>> \o x.keys)),
                  p.vals[idx - 1], Internal(Front(l.vals), Front(l.keys))),
            parent, Internal(p.vals, [p.keys EXCEPT ![idx - 1] = Last(l.keys)]))

\* (Fault: the separator does not come down between the two.)
MergeInternalsBare(t, parent, i) ==
  LET p == t.node[parent]
      l == t.node[p.vals[i]]
      r == t.node[p.vals[i + 1]]
  IN  Write(Write(t, p.vals[i], Internal(l.vals \o r.vals, l.keys \o r.keys)),
            parent, Internal(RemoveAt(p.vals, i + 1), RemoveAt(p.keys, i)))

MergeInternals(t, parent, i) ==
  LET p == t.node[parent]
      l == t.node[p.vals[i]]
      r == t.node[p.vals[i + 1]]
  IN  Write(Write(t, p.vals[i], Internal(l.vals \o r.vals, l.keys \o <<p.keys[i]>> \o r.keys)),
            parent, Internal(RemoveAt(p.vals, i + 1), RemoveAt(p.keys, i)))

FixupInternal(t, parent, idx) ==
  LET p == t.node[parent]
      hasRight == idx < Len(p.vals)
      hasLeft == idx > 1
  IN  IF hasRight /\ Len(t.node[p.vals[idx + 1]].keys) > MinInternal THEN RotateLeft(t, parent, idx)
      ELSE IF hasLeft /\ Len(t.node[p.vals[idx - 1]].keys) > MinInternal THEN RotateRight(t, parent, idx)
      ELSE MergeInternals(t, parent, IF hasRight THEN idx ELSE idx - 1)

MaybeShrinkRoot(t) ==
  LET x == t.node[t.root]
  IN  IF ~x.leaf /\ x.keys = <<>> THEN [t EXCEPT !.root = x.vals[1]] ELSE t

\* From the leaf up, as long as a node has too few keys.
RECURSIVE FixupAfterDelete(_, _)
FixupAfterDelete(t, path) ==
  IF Len(path) = 1
    THEN MaybeShrinkRoot(t)
    ELSE LET x == t.node[Last(path)]
             parent == Last(Front(path))
             idx == IndexOf(t.node[parent].vals, Last(path))
             fixed == IF x.leaf THEN FixupLeaf(t, parent, idx) ELSE FixupInternal(t, parent, idx)
         IN  IF Len(x.keys) >= (IF x.leaf THEN MinLeaf ELSE MinInternal)
               THEN t
               ELSE FixupAfterDelete(fixed, Front(path))

\* delete(); it returns False if the entry is not among those of its key.
Delete(k, rid) ==
  LET path == FindLeafPath(tree, k)
      x == tree.node[Last(path)]
      found == {i \in (BisectLeft(x.keys, k) + 1)..BisectRight(x.keys, k) : x.vals[i] = rid}
  IN  /\ found # {}
      /\ LET i == Min(found)
         IN  tree' = FixupAfterDelete(Write(tree, Last(path),
                                            Leaf(RemoveAt(x.keys, i), RemoveAt(x.vals, i), x.next)), path)
      /\ entries' = entries \ {<<k, rid>>}

-----------------------------------------------------------------------------

InsertNext ==
  /\ inserts < Len(index.script)
  /\ \E k \in index.script[inserts + 1] : Insert(k, inserts + 1)
  /\ inserts' = inserts + 1
  /\ UNCHANGED <<index, deletes>>

DeleteAny ==
  /\ inserts >= index.deletesFrom
  /\ deletes < index.maxDeletes
  /\ \E e \in entries : Delete(e[1], e[2])
  /\ deletes' = deletes + 1
  /\ UNCHANGED <<index, inserts>>

Next == InsertNext \/ DeleteAny

Spec == Init /\ [][Next]_treeVars

-----------------------------------------------------------------------------
(* Properties *)

Keys == UNION Range(index.script)

\* No key is longer than what is stored of it.
KeysStoredWhole == \A k \in Keys : Encode(k) = k

\* search(key) returns every RID stored under the key, once, and no other, in an index
\* whose keys are stored whole.
SearchFindsAll ==
  KeysStoredWhole => \A k \in Keys :
    LET found == Search(tree, k)
    IN  IsInjective(found) /\ Range(found) = {e[2] : e \in {x \in entries : x[1] = k}}

\* A full scan yields every entry, in ascending order of the keys that are stored.  So
\* does range_scan for the entries of its range, along next_leaf from the leaf of any
\* key to that key, the next or the largest, in an index whose keys are stored whole.
ScansInOrder ==
  LET ordered(s) == \A i \in 1..(Len(s) - 1) : s[i][1] <= s[i + 1][1]
      exactly(s, es) == Len(s) = Cardinality(es) /\ Range(s) = es /\ ordered(s)
      keys == Keys
      largest == Max(keys)
  IN  /\ exactly(FullScan(tree), {<<Encode(e[1]), e[2]>> : e \in entries})
      /\ KeysStoredWhole => \A a \in keys : \A b \in {a, a + 1, largest} :
           exactly(RangeScan(tree, a, b), {e \in entries : a <= e[1] /\ e[1] <= b})

RECURSIVE DepthsBelow(_, _)
DepthsBelow(t, p) ==
  IF t.node[p].leaf THEN {1} ELSE UNION {{d + 1 : d \in DepthsBelow(t, c)} : c \in Range(t.node[p].vals)}

\* The keys below page p lie from lo on and under hi, between the separators on the way.
RECURSIVE Bounded(_, _, _, _)
Bounded(t, p, lo, hi) ==
  LET x == t.node[p]
      seps == <<lo>> \o x.keys \o <<hi>>
  IN  /\ \A i \in DOMAIN x.keys : lo <= x.keys[i] /\ x.keys[i] < hi
      /\ ~x.leaf => /\ Len(x.vals) = Len(x.keys) + 1
                    /\ \A i \in DOMAIN x.vals : Bounded(t, x.vals[i], seps[i], seps[i + 1])

\* The tree is balanced, its separators part the keys below them (if keys are stored
\* whole), its root is no internal node with a single child, and its internal nodes
\* fit in their pages.
WellFormed ==
  /\ Cardinality(DepthsBelow(tree, tree.root)) = 1
  /\ KeysStoredWhole => LET keys == Keys IN Bounded(tree, tree.root, Min(keys), Max(keys) + 1)
  /\ tree.node[tree.root].keys = <<>> => tree.node[tree.root].leaf
  /\ \A p \in DOMAIN tree.node : ~tree.node[p].leaf => Len(tree.node[p].keys) <= MaxInternal
=============================================================================
