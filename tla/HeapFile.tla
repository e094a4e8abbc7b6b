------------------------------- MODULE HeapFile -------------------------------
(***************************************************************************)
(* The heap files of storage/heap_file.py: the rows of each table in a     *)
(* chain of slotted pages.  Several tables share one page file, and their  *)
(* pages are allocated from it in the order they are needed.               *)
(*                                                                         *)
(* A page is its header, its slot directory and its bytes.  A byte holds   *)
(* what was written there last, a slot of the directory or a row: row r is *)
(* Size[r] bytes, each of them r.  So a row or a slot that was written     *)
(* over another reads back wrong.                                          *)
(* A page that was allocated but never formatted is all zeros, which reads *)
(* as no slots and page 0 as the next page.                                *)
(***************************************************************************)
EXTENDS Integers, Sequences

CONSTANTS
  PageSize, HeaderSize, SlotSize,  \* in bytes
  Rows,         \* the rows that can be stored
  Size,         \* the length of each in bytes
  Tables,       \* names of tables
  MaxPages      \* bound: pages in the file

ASSUME HeapAssumption ==
  /\ PageSize \in Nat /\ HeaderSize \in Nat \ {0} /\ SlotSize \in Nat \ {0}
  /\ HeaderSize + SlotSize <= PageSize
  /\ Size \in [Rows -> Nat \ {0}]
  /\ MaxPages \in Nat

VARIABLES
  numPages,     \* pages allocated
  page,         \* their contents
  first,        \* HeapFile.first_page_id, of each table
  last,         \* HeapFile.last_page_id
  stored        \* history: the rows callers have stored, by table and RID

heapVars == <<numPages, page, first, last, stored>>

PageIds == 0..(MaxPages - 1)

NoPage == -1
INVALID_PAGE_ID == -2

Deleted == PageSize + 1  \* _DELETED, longer than any row
Blank == "blank"         \* a byte that was never written
SlotByte == "slot"       \* a byte of the slot directory

Byte == 0..(PageSize - 1)

ZeroPage == [slots |-> <<>>, free |-> 0, next |-> 0, bytes |-> [i \in Byte |-> Blank]]

\* init_heap_page
EmptyPage == [slots |-> <<>>, free |-> PageSize, next |-> INVALID_PAGE_ID, bytes |-> [i \in Byte |-> Blank]]

Slot == [off : 0..PageSize, len : Nat]

Page == [slots : Seq(Slot), free : 0..PageSize, next : PageIds \cup {INVALID_PAGE_ID},
         bytes : [Byte -> Rows \cup {Blank, SlotByte}]]

Rid == PageIds \X Nat

Init ==
  /\ numPages = 0
  /\ page = [p \in PageIds |-> ZeroPage]
  /\ first = [t \in Tables |-> NoPage]
  /\ last = [t \in Tables |-> NoPage]
  /\ stored = [t \in Tables |-> {}]

-----------------------------------------------------------------------------
(* One page.  Slots are numbered from 0 in the code and from 1 here. *)

SlotOffset(n) == HeaderSize + n * SlotSize

Free(pg) == {i \in DOMAIN pg.slots : pg.slots[i].len = Deleted}

\* The slot insert() takes: the first deleted one, or a new one.
SlotFor(pg, i) ==
  IF Free(pg) # {} THEN i \in Free(pg) /\ \A j \in Free(pg) : i <= j
                   ELSE i = Len(pg.slots) + 1

\* (Fault: no room is kept for the new slot of the directory.)
FitsTight(pg, r) == Size[r] <= pg.free - SlotOffset(Len(pg.slots))

Fits(pg, r) ==
  Size[r] <= pg.free - SlotOffset(Len(pg.slots)) - (IF Free(pg) # {} THEN 0 ELSE SlotSize)

WithSlot(slots, i, s) == [j \in 1..(IF i > Len(slots) THEN i ELSE Len(slots)) |-> IF j = i THEN s ELSE slots[j]]

SlotBytes(i) == SlotOffset(i - 1)..(SlotOffset(i) - 1)

RowBytes(off, len) == off..(off + len - 1)

Written(bytes, where, what) == [k \in Byte |-> IF k \in where THEN what ELSE bytes[k]]

\* Row r is copied below the free-space pointer, and then its slot is written.
PlacedBytes(pg, i, r) ==
  Written(Written(pg.bytes, RowBytes(pg.free - Size[r], Size[r]), r), SlotBytes(i), SlotByte)

\* (Fault: the free-space pointer stays where it was.)
PlaceUnmoved(pg, i, r) ==
  [slots |-> WithSlot(pg.slots, i, [off |-> pg.free - Size[r], len |-> Size[r]]),
   free |-> pg.free, next |-> pg.next, bytes |-> PlacedBytes(pg, i, r)]

Place(pg, i, r) ==
  [slots |-> WithSlot(pg.slots, i, [off |-> pg.free - Size[r], len |-> Size[r]]),
   free |-> pg.free - Size[r], next |-> pg.next, bytes |-> PlacedBytes(pg, i, r)]

Linked(pg, p) == [slots |-> pg.slots, free |-> pg.free, next |-> p, bytes |-> pg.bytes]

Overwrite(pg, i, r) ==
  [slots |-> pg.slots, free |-> pg.free, next |-> pg.next,
   bytes |-> Written(pg.bytes, RowBytes(pg.slots[i].off, Size[r]), r)]

FreeSlot(pg, i) ==
  [slots |-> WithSlot(pg.slots, i, [off |-> 0, len |-> Deleted]), free |-> pg.free, next |-> pg.next,
   bytes |-> Written(pg.bytes, SlotBytes(i), SlotByte)]

LiveSlots(pg) == DOMAIN pg.slots \ Free(pg)

\* get() returns row r from slot i: the slot is as it was written, and so is the row.
Reads(pg, i, r) ==
  /\ i \in LiveSlots(pg)
  /\ pg.slots[i].len = Size[r]
  /\ \A k \in SlotBytes(i) : pg.bytes[k] = SlotByte
  /\ \A k \in RowBytes(pg.slots[i].off, Size[r]) : pg.bytes[k] = r

-----------------------------------------------------------------------------
(* The chain *)

\* Whoever is on a page of S and goes on to the next is still in S.
Closed(pg, S) == \A x \in S : pg[x].next \in S \cup {INVALID_PAGE_ID}

\* The pages a walk along `next' comes to from page p on, in the pages pg.
PagesFrom(pg, p) == {q \in PageIds : \A S \in SUBSET PageIds : p \in S /\ Closed(pg, S) => q \in S}

Chain(t) == PagesFrom(page, first[t])

\* _find_last_page returns p; it raises if it finds a cycle instead.
FindsLastPage(t, p) == p \in Chain(t) /\ page[p].next = INVALID_PAGE_ID

-----------------------------------------------------------------------------
(* Operations *)

\* HeapFile(pool) for a new table.
Create(t) ==
  /\ first[t] = NoPage
  /\ numPages \in PageIds
  /\ numPages' = numPages + 1
  /\ page' = [page EXCEPT ![numPages] = EmptyPage]
  /\ first' = [first EXCEPT ![t] = numPages]
  /\ last' = [last EXCEPT ![t] = numPages]
  /\ UNCHANGED stored

\* HeapFile(pool, first_page_id), as at the start of every statement.
Construct(t) ==
  /\ first[t] # NoPage
  /\ \E p \in PageIds : FindsLastPage(t, p) /\ last' = [last EXCEPT ![t] = p]
  /\ UNCHANGED <<numPages, page, first, stored>>

Store(t, rid, r) == stored' = [stored EXCEPT ![t] = @ \cup {<<rid, r>>}]

Insert(t, r) ==
  /\ last[t] # NoPage
  /\ SlotOffset(1) + Size[r] <= PageSize
  /\ Fits(page[last[t]], r)
  /\ \E i \in 1..(Len(page[last[t]].slots) + 1) :
       /\ SlotFor(page[last[t]], i)
       /\ page' = [page EXCEPT ![last[t]] = Place(page[last[t]], i, r)]
       /\ Store(t, <<last[t], i>>, r)
  /\ UNCHANGED <<numPages, first, last>>

\* (Fault: the new page is not linked in.)
InsertGrowsUnlinked(t, r) ==
  /\ last[t] # NoPage
  /\ SlotOffset(1) + Size[r] <= PageSize
  /\ ~Fits(page[last[t]], r)
  /\ numPages \in PageIds
  /\ numPages' = numPages + 1
  /\ page' = [page EXCEPT ![numPages] = Place(EmptyPage, 1, r)]
  /\ last' = [last EXCEPT ![t] = numPages]
  /\ Store(t, <<numPages, 1>>, r)
  /\ UNCHANGED first

\* The last page is full: a new page is formatted and linked in, and takes the row.
InsertGrows(t, r) ==
  /\ last[t] # NoPage
  /\ SlotOffset(1) + Size[r] <= PageSize
  /\ ~Fits(page[last[t]], r)
  /\ numPages \in PageIds
  /\ numPages' = numPages + 1
  /\ page' = [page EXCEPT ![numPages] = Place(EmptyPage, 1, r),
                          ![last[t]] = Linked(page[last[t]], numPages)]
  /\ last' = [last EXCEPT ![t] = numPages]
  /\ Store(t, <<numPages, 1>>, r)
  /\ UNCHANGED first

\* update_in_place; it returns False if the length is another one.
UpdateInPlace(t, p, i, old, r) ==
  /\ <<<<p, i>>, old>> \in stored[t]
  /\ i \in LiveSlots(page[p])
  /\ page[p].slots[i].len = Size[r]
  /\ page' = [page EXCEPT ![p] = Overwrite(page[p], i, r)]
  /\ stored' = [stored EXCEPT ![t] = (@ \ {<<<<p, i>>, old>>}) \cup {<<<<p, i>>, r>>}]
  /\ UNCHANGED <<numPages, first, last>>

Delete(t, p, i, old) ==
  /\ <<<<p, i>>, old>> \in stored[t]
  /\ i \in LiveSlots(page[p])
  /\ page' = [page EXCEPT ![p] = FreeSlot(page[p], i)]
  /\ stored' = [stored EXCEPT ![t] = @ \ {<<<<p, i>>, old>>}]
  /\ UNCHANGED <<numPages, first, last>>

Next ==
  \E t \in Tables :
    \/ Create(t)
    \/ Construct(t)
    \/ \E r \in Rows : Insert(t, r) \/ InsertGrows(t, r)
    \/ \E p \in PageIds : \E i \in 1..Len(page[p].slots) : \E old \in Rows :
         \/ Delete(t, p, i, old)
         \/ \E r \in Rows : UpdateInPlace(t, p, i, old, r)

Spec == Init /\ [][Next]_heapVars

-----------------------------------------------------------------------------
(* Properties *)

\* The variables hold values of the kinds their fields have in the code.
TypeOK ==
  /\ numPages \in 0..MaxPages
  /\ page \in [PageIds -> Page]
  /\ first \in [Tables -> PageIds \cup {NoPage}]
  /\ last \in [Tables -> PageIds \cup {NoPage}]
  /\ stored \in [Tables -> SUBSET (Rid \X Rows)]

Before(s1, s2) == s1.off + s1.len <= s2.off

\* The layout of a page: the slot directory ends below the free space, and the rows
\* lie above it, one beside the other.
Layout(pg) ==
  /\ pg.slots # <<>> => SlotOffset(Len(pg.slots)) <= pg.free
  /\ \A i \in LiveSlots(pg) : pg.free <= pg.slots[i].off /\ pg.slots[i].off + pg.slots[i].len <= PageSize
  /\ \A i, j \in LiveSlots(pg) : i # j => Before(pg.slots[i], pg.slots[j]) \/ Before(pg.slots[j], pg.slots[i])

\* No two rows have the same RID.
RidsUnique ==
  \A t, u \in Tables : \A x \in stored[t], y \in stored[u] : x[1] = y[1] => t = u /\ x = y

\* What every operation of heap_file.py relies on: pages are laid out as above, a table
\* appends to a page that was allocated, and no RID is handed out twice.
HeapInv ==
  /\ TypeOK
  /\ \A p \in PageIds : Layout(page[p])
  /\ \A t \in Tables : last[t] < numPages
  /\ \A p \in PageIds : p >= numPages => page[p] = ZeroPage
  /\ RidsUnique

\* A row that was stored reads back as it was stored, whatever was inserted,
\* deleted and updated since, in reused slots and in full pages too.
RowsReadBack ==
  \A t \in Tables : \A x \in stored[t] : Reads(page[x[1][1]], x[1][2], x[2])

\* A scan finds the rows of its table and no others: the live slots of the pages of its
\* chain, across the pages that other tables have in between.
ScanFindsRows ==
  \A t \in Tables : first[t] # NoPage =>
    {x[1] : x \in stored[t]} = UNION {{p} \X LiveSlots(page[p]) : p \in Chain(t)}
=============================================================================
