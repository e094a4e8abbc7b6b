-------------------------------- MODULE Pins --------------------------------
(***************************************************************************)
(* The statements as clients of the buffer pool: which pages heap files    *)
(* (heap_file.py), B+-trees (btree.py), scans and joins (executor.py) pin, *)
(* in which order they release them, and what stays pinned when a scan is  *)
(* dropped or an exception passes.                                         *)
(*                                                                         *)
(* A method is the sequence of calls it makes on the pool, with a "use"    *)
(* wherever it reads or writes the bytes of a page.  Rows, keys and the    *)
(* order of eviction are left open: module BufferPool has the pool itself, *)
(* HeapFile and BTree what is in the pages.                                *)
(***************************************************************************)
EXTENDS Integers, Sequences, FiniteSets

CONSTANTS
    PoolSize,     \* frames
    MaxPages,     \* bound: pages allocated
    RowsPerPage,  \* bound: rows a scan finds on a page
    MaxChanges,   \* bound: rows an INSERT or UPDATE writes
    MaxLost       \* bound: pins that dropped scans and errors have left behind

ASSUME PinsAssumption ==
    /\ PoolSize \in Nat \ {0} /\ MaxPages \in Nat \ {0, 1}
    /\ RowsPerPage \in Nat /\ MaxChanges \in Nat /\ MaxLost \in Nat

Tables == {"left", "right"}

VARIABLES
    pin,        \* pin_count of each page, 0 for a page that is not resident
    resident,   \* pages in the page table
    chain,      \* the page chain of each table's heap
    level,      \* the pages of the index on "left", from the root's level down
    allocated,  \* pages of the file
    stmt,       \* the statement under way: kind, what is left to do, outcome
    cursors,    \* its suspended heap scans, outermost first
    todo,       \* calls of the method in progress
    before      \* pin when the statement began

vars == <<pin, resident, chain, level, allocated, stmt, cursors, todo, before>>

pool == <<pin, resident>>
files == <<chain, level, allocated>>

Pages == 1 .. MaxPages

-----------------------------------------------------------------------------
(* Methods as sequences of calls *)

Fetch(p) == <<"fetch", p>>
NewPage(p) == <<"new", p>>
Use(p) == <<"use", p>>
Unpin(p) == <<"unpin", p>>
Finally(p) == <<"finally", p>>   \* the unpin_page of a try ... finally
Link(p) == <<"link", p>>         \* the header of the last page gets its successor

Access(p) == <<Fetch(p), Use(p), Unpin(p)>>
Guarded(p) == <<Fetch(p), Use(p), Finally(p)>>

\* Blocks of n calls, one after the other.
Flat(blocks, n) ==
    [k \in 1 .. n * Len(blocks) |-> blocks[((k - 1) \div n) + 1][((k - 1) % n) + 1]]

AccessAll(ps) == Flat([i \in DOMAIN ps |-> Access(ps[i])], 3)

Last(ps) == ps[Len(ps)]

\* _find_last_page, in every construction of a HeapFile.
FindLastPage(t) == AccessAll(chain[t])

\* HeapFile.insert on the last page: the row fits, or a page is linked in and the
\* method calls itself.  The old page is unpinned when it has been linked, and a
\* second time by the finally.
InsertFits(p) == Guarded(p)

InsertGrows(p, q) ==
    <<Fetch(p), Use(p), NewPage(q), Use(q), Unpin(q), Link(q), Use(p), Unpin(p)>>
    \o InsertFits(q) \o <<Finally(p)>>

\* (Faults: the old page is released before its half is written; the new one is in its place.)
SplitNodeEarly(p, q) == <<NewPage(q), Use(q), Unpin(q), Unpin(p), Use(p)>>

SplitNodeKeeps(p, q) == <<NewPage(q), Use(q), Unpin(q), Use(p), Unpin(q)>>

\* A page is split: the right half is written to a new page first.
SplitNode(p, q) == <<NewPage(q), Use(q), Unpin(q), Use(p), Unpin(p)>>

SplitPage(p, q) == <<Fetch(p), Use(p)>> \o SplitNode(p, q)

NewRoot(q) == <<NewPage(q), Use(q), Unpin(q)>>

\* The levels of the tree when the last s pages of a path have been split, into
\* themselves and the new pages q, q+1, ...
Split(s, q) ==
    LET h     == Len(level)
        wider == [i \in 1 .. h |-> IF i > h - s THEN level[i] \cup {q + h - i} ELSE level[i]]
    IN  IF s = h THEN <<{q + s}>> \o wider ELSE wider

\* (Fault: the pages of the path are released at the end only.)
TreeInsertHolding(path, s, q) ==
    LET h       == Len(path)
        Node(i) == path[h + 1 - i]
        Hold(i) == <<Fetch(path[i]), Use(path[i])>>
    IN  Flat([i \in 1 .. h |-> Hold(i)], 2)
        \o Flat([i \in 1 .. s |-> SplitPage(Node(i), q + i - 1)], 7)
        \o (IF s = h THEN NewRoot(q + s) ELSE Access(Node(s + 1)))
        \o [i \in 1 .. h |-> Unpin(path[i])] \o <<<<"split", Split(s, q)>>>>

\* BPlusTree.insert along a path from the root to a leaf, whose last s pages are
\* split.  A split of the root makes a new root.
TreeInsert(path, s, q) ==
    LET h       == Len(path)
        Node(i) == path[h + 1 - i]
    IN  AccessAll(path)
        \o Flat([i \in 1 .. s |-> SplitPage(Node(i), q + i - 1)], 7)
        \o (IF s = h THEN NewRoot(q + s) ELSE Access(Node(s + 1)))
        \o <<<<"split", Split(s, q)>>>>

\* The leaf holds nothing but entries of one key and cannot be split.
TreeInsertThrows(path) ==
    AccessAll(path) \o <<Fetch(Last(path)), Use(Last(path)), <<"throw", Last(path)>>>>

Paths == {path \in [DOMAIN level -> Pages] : \A i \in DOMAIN level : path[i] \in level[i]}

NewPages(s) == IF s = Len(level) THEN s + 1 ELSE s

\* One entry is added to the index, or cannot be.
TreeInserts ==
    {TreeInsert(path, s, allocated + 1) :
        path \in Paths, s \in {s \in 0 .. Len(level) : allocated + NewPages(s) <= MaxPages}}
    \cup {TreeInsertThrows(path) : path \in Paths}

\* BPlusTree.search and HeapFile.get of what it finds: the unique check.
Search(path, p) == AccessAll(path) \o Guarded(Last(path)) \o Guarded(p)

-----------------------------------------------------------------------------
(* The pool *)

\* (Fault: the page that is evicted may be pinned.)
TakeFrameOfAny(p) ==
    /\ \/ p \in resident /\ UNCHANGED resident
       \/ p \notin resident /\ Cardinality(resident) < PoolSize /\ resident' = resident \cup {p}
       \/ /\ p \notin resident /\ Cardinality(resident) = PoolSize
          /\ \E v \in resident : resident' = (resident \ {v}) \cup {p}
    /\ pin' = [pin EXCEPT ![p] = @ + 1]

\* A frame for p: its own, a free one, or that of a page nobody has pinned.
TakeFrame(p) ==
    /\ \/ p \in resident /\ UNCHANGED resident
       \/ p \notin resident /\ Cardinality(resident) < PoolSize /\ resident' = resident \cup {p}
       \/ /\ p \notin resident /\ Cardinality(resident) = PoolSize
          /\ \E v \in resident : pin[v] = 0 /\ resident' = (resident \ {v}) \cup {p}
    /\ pin' = [pin EXCEPT ![p] = @ + 1]

\* BufferPoolFullError
NoFrame(p) ==
    /\ p \notin resident
    /\ Cardinality(resident) = PoolSize
    /\ \A v \in resident : pin[v] > 0

UnpinPage(p) == pin' = [pin EXCEPT ![p] = IF @ > 0 THEN @ - 1 ELSE 0]

-----------------------------------------------------------------------------
(* The calls of a method, one at a time *)

Idle(outcome) ==
    [kind |-> "idle", opened |-> FALSE, stage |-> "none", changes |-> 0, outcome |-> outcome]

\* What is still called when an exception leaves the methods in progress: the
\* finally of every try that has been entered.  Those are two at most: insert
\* calls itself once, the row fits on the new page.
Cleanup(calls) ==
    LET entered == {i \in DOMAIN calls : /\ calls[i][1] = "finally"
                                         /\ \A j \in DOMAIN calls : calls[j] # Fetch(calls[i][2])}
        inner   == CHOOSE i \in entered : \A j \in entered : i <= j
        outer   == CHOOSE i \in entered : \A j \in entered : j <= i
    IN  IF entered = {} THEN <<>>
        ELSE <<calls[inner]>> \o (IF inner = outer THEN <<>> ELSE <<calls[outer]>>)

Unwind(why) ==
    /\ todo' = Cleanup(todo)
    /\ cursors' = <<>>
    /\ stmt' = [stmt EXCEPT !.kind = "raising", !.outcome = why]

CallFetch ==
    /\ todo # <<>> /\ Head(todo)[1] \in {"fetch", "new"}
    /\ LET p == Head(todo)[2]
       IN  /\ allocated' = IF Head(todo)[1] = "new" THEN p ELSE allocated
           /\ \/ /\ TakeFrame(p)
                 /\ todo' = Tail(todo)
                 /\ UNCHANGED <<stmt, cursors>>
              \/ NoFrame(p) /\ Unwind("full") /\ UNCHANGED pool
    /\ UNCHANGED <<chain, level, before>>

CallUnpin ==
    /\ todo # <<>> /\ Head(todo)[1] \in {"unpin", "finally"}
    /\ UnpinPage(Head(todo)[2])
    /\ todo' = Tail(todo)
    /\ UNCHANGED <<resident, files, stmt, cursors, before>>

\* Bytes are read or written: a page joins the chain of the table that is
\* inserted into, or the tree has its new pages.
CallUse ==
    /\ todo # <<>> /\ Head(todo)[1] \in {"use", "link", "split"}
    /\ chain' = IF Head(todo)[1] = "link" THEN [chain EXCEPT !["left"] = Append(@, Head(todo)[2])]
                ELSE chain
    /\ level' = IF Head(todo)[1] = "split" THEN Head(todo)[2] ELSE level
    /\ todo' = Tail(todo)
    /\ UNCHANGED <<pool, allocated, stmt, cursors, before>>

CallThrow ==
    /\ todo # <<>> /\ Head(todo)[1] = "throw"
    /\ Unwind("error")
    /\ UNCHANGED <<pool, files, before>>

-----------------------------------------------------------------------------
(* Statements *)

Kinds == {"select", "join", "update", "insert"}

Lost == {l \in Pages \X (1 .. MaxLost + 1) : l[2] <= pin[l[1]]}

\* A statement that changes the table constructs its HeapFile first.
Begin(kind, calls) ==
    /\ stmt.kind = "idle"
    /\ Cardinality(Lost) <= MaxLost
    /\ todo' = calls \o (IF kind \in {"select", "join"} THEN <<>> ELSE FindLastPage("left"))
    /\ before' = pin
    /\ \E n \in 1 .. MaxChanges :
          stmt' = [Idle("none") EXCEPT !.kind = kind, !.changes = n]
    /\ UNCHANGED <<pool, cursors, chain, allocated>>

Start == \E kind \in Kinds : Begin(kind, <<>>) /\ UNCHANGED level

\* CREATE INDEX makes the root first.
StartCreateIndex ==
    /\ level = <<>> /\ allocated < MaxPages
    /\ LET q == allocated + 1
       IN  Begin("create index", NewRoot(q) \o <<<<"split", <<{q}>>>>>>)
    /\ UNCHANGED level

Working == stmt.kind \notin {"idle", "raising"} /\ todo = <<>>

Scanning == Working /\ stmt.kind # "insert"

Page(c) == chain[c.table][c.at]
Scan(t) == [table |-> t, at |-> 1, row |-> 1]

\* The plan is made, with a HeapFile of its own, and its scan is asked for its
\* first row.
OpenScan ==
    /\ Scanning /\ ~stmt.opened
    /\ stmt' = [stmt EXCEPT !.opened = TRUE]
    /\ \E t \in IF stmt.kind = "select" THEN Tables ELSE {"left"} :
          /\ cursors' = <<Scan(t)>>
          /\ todo' = (IF stmt.kind = "create index" THEN <<>> ELSE FindLastPage(t))
                     \o <<Fetch(Page(Scan(t)))>>
    /\ UNCHANGED <<pool, files, before>>

\* The plan is an index scan, which has no page pinned when it yields; of the
\* entries it finds the model has one.
OpenIndexScan ==
    /\ Scanning /\ ~stmt.opened /\ stmt.kind \in {"select", "update"} /\ level # <<>>
    /\ stmt' = [stmt EXCEPT !.opened = TRUE]
    /\ \E path \in Paths, i \in DOMAIN chain["left"] :
          todo' = FindLastPage("left") \o AccessAll(path) \o Access(Last(path))
                  \o Guarded(chain["left"][i])
    /\ UNCHANGED <<pool, files, cursors, before>>

Top == cursors[Len(cursors)]
Moved(c) == [cursors EXCEPT ![Len(cursors)] = c]
Closed == SubSeq(cursors, 1, Len(cursors) - 1)

\* The row the innermost scan has yielded is worked on, with its page pinned: a
\* join scans the right table anew for it, CREATE INDEX makes its entry.
NextRow ==
    /\ Scanning /\ cursors # <<>> /\ Top.row <= RowsPerPage
    /\ IF stmt.kind = "join" /\ Len(cursors) = 1
       THEN \E t \in Tables :
               /\ cursors' = <<[Top EXCEPT !.row = @ + 1], Scan(t)>>
               /\ todo' = FindLastPage(t) \o <<Fetch(Page(Scan(t)))>>
       ELSE /\ cursors' = Moved([Top EXCEPT !.row = @ + 1])
            /\ IF stmt.kind = "create index" THEN todo' \in TreeInserts ELSE UNCHANGED todo
    /\ UNCHANGED <<pool, files, stmt, before>>

\* (Fault: the scan goes on to the page it is at.)
NextPageSame ==
    /\ Scanning /\ cursors # <<>> /\ Top.row > RowsPerPage
    /\ IF Top.at < Len(chain[Top.table])
       THEN LET next == [Top EXCEPT !.row = 1]
            IN  cursors' = Moved(next) /\ todo' = <<Unpin(Page(Top)), Fetch(Page(next))>>
       ELSE cursors' = Closed /\ todo' = <<Unpin(Page(Top))>>
    /\ UNCHANGED <<pool, files, stmt, before>>

\* The scan is at the end of a page: it goes on to the next or is over.
NextPage ==
    /\ Scanning /\ cursors # <<>> /\ Top.row > RowsPerPage
    /\ IF Top.at < Len(chain[Top.table])
       THEN LET next == [Scan(Top.table) EXCEPT !.at = Top.at + 1]
            IN  cursors' = Moved(next) /\ todo' = <<Unpin(Page(Top)), Fetch(Page(next))>>
       ELSE cursors' = Closed /\ todo' = <<Unpin(Page(Top))>>
    /\ UNCHANGED <<pool, files, stmt, before>>

\* LIMIT is reached, or a predicate raises: nobody asks the scans for more, and
\* they have no finally.
DropScans ==
    /\ Scanning /\ cursors # <<>> /\ stmt.kind # "create index"
    /\ cursors' = <<>>
    /\ stmt' = Idle("dropped")
    /\ UNCHANGED <<pool, files, todo, before>>

Changing ==
    /\ Working /\ stmt.changes > 0
    /\ stmt.kind = "insert" \/ (stmt.kind = "update" /\ stmt.opened /\ cursors = <<>>)

\* One row of INSERT or UPDATE: get and update_in_place of the old version, then
\* the heap insert.
ChangeHeap ==
    /\ Changing /\ stmt.stage = "none"
    /\ \E i \in DOMAIN chain["left"] :
          LET old  == chain["left"][i]
              last == Last(chain["left"])
              head == IF stmt.kind = "update" THEN Guarded(old) \o Guarded(old) ELSE <<>>
          IN  \/ todo' = head \o InsertFits(last)
              \/ allocated < MaxPages /\ todo' = head \o InsertGrows(last, allocated + 1)
    /\ stmt' = [stmt EXCEPT !.stage = "index"]
    /\ UNCHANGED <<pool, files, cursors, before>>

\* Then its index entry, behind the unique check.
CheckUnique ==
    /\ Changing /\ stmt.stage = "index" /\ level # <<>>
    /\ \E path \in Paths, i \in DOMAIN chain["left"] : todo' = Search(path, chain["left"][i])
    /\ stmt' = [stmt EXCEPT !.stage = "entry"]
    /\ UNCHANGED <<pool, files, cursors, before>>

ChangeIndex ==
    /\ Changing
    /\ \/ stmt.stage = "index" /\ level = <<>> /\ UNCHANGED todo
       \/ stmt.stage = "entry" /\ todo' \in TreeInserts
    /\ stmt' = [stmt EXCEPT !.stage = "none", !.changes = @ - 1]
    /\ UNCHANGED <<pool, files, cursors, before>>

\* The statement is done, or its exception has left it.
Finish ==
    /\ todo = <<>>
    /\ \/ /\ Working
          /\ stmt.kind # "insert" => stmt.opened /\ cursors = <<>>
          /\ stmt.kind \in {"insert", "update"} => stmt.changes = 0
          /\ stmt' = Idle("ok")
       \/ stmt.kind = "raising" /\ stmt' = Idle(stmt.outcome)
    /\ UNCHANGED <<pool, files, cursors, todo, before>>

-----------------------------------------------------------------------------

\* A database that has just been opened, with two tables of one page.
Init ==
    /\ pin = [p \in Pages |-> 0]
    /\ resident = {}
    /\ chain = [t \in Tables |-> IF t = "left" THEN <<1>> ELSE <<2>>]
    /\ level = <<>>
    /\ allocated = 2
    /\ stmt = Idle("ok")
    /\ cursors = <<>>
    /\ todo = <<>>
    /\ before = pin

Running ==
    \/ CallFetch \/ CallUnpin \/ CallUse \/ CallThrow
    \/ OpenScan \/ OpenIndexScan \/ NextRow \/ NextPage \/ DropScans
    \/ ChangeHeap \/ CheckUnique \/ ChangeIndex \/ Finish

Next == Start \/ StartCreateIndex \/ Running

Spec == Init /\ [][Next]_vars

\* The interpreter goes on with a statement that has begun; clients need not
\* begin another.
FairSpec == Spec /\ WF_vars(Running)

-----------------------------------------------------------------------------
(* Properties *)

\* Pinned pages are in frames, and there are no more of those than frames.
TypeOK ==
    /\ pin \in [Pages -> Nat]
    /\ resident \subseteq Pages /\ Cardinality(resident) <= PoolSize
    /\ \A p \in Pages : pin[p] > 0 => p \in resident

\* Bytes are only read or written while their page is pinned, and a suspended
\* scan or join still has its own pins when it goes on: neither the second unpin
\* of a growing heap (heap_file.py:144 and 157), nor a rescan of the same table,
\* nor a statement whose predecessors left pins behind, releases a page that is
\* in use (the bytes of an evicted page would be written in vain).
PinnedWhileUsed ==
    /\ todo # <<>> /\ Head(todo)[1] = "use" => pin[Head(todo)[2]] > 0
    /\ \A p \in Pages :
          LET scans == {i \in DOMAIN cursors : Page(cursors[i]) = p}
          IN  (\A i \in DOMAIN todo : todo[i] # Fetch(p)) => Cardinality(scans) <= pin[p]

\* A statement that ends in the ordinary way has released every page it pinned.
StatementsUnpin ==
    stmt.kind = "idle" /\ stmt.outcome = "ok" => \A p \in Pages : pin[p] <= before[p]

\* Three frames are enough for any statement (CREATE INDEX needs them: the page
\* it scans, the leaf it splits and the new leaf): the pool is full only because
\* of pages that dropped scans and failed splits have left pinned.
FullOnlyAfterLosses ==
    stmt.outcome = "full" => PoolSize < 3 + Cardinality({p \in Pages : before[p] > 0})

\* Every statement ends: scans, rescans and splits come to an end, whatever
\* pages the heap and the tree grow by meanwhile.
StatementsEnd == stmt.kind # "idle" ~> stmt.kind = "idle"
=============================================================================
