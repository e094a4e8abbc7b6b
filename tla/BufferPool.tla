------------------------------ MODULE BufferPool ------------------------------
(***************************************************************************)
(* The buffer pool of storage/buffer_pool.py over the page file of         *)
(* storage/disk_manager.py, and the callers that hold its pages.           *)
(*                                                                         *)
(* A caller gets a reference to the bytes in a frame and writes to them in *)
(* place, for as long as it holds the page; a caller that has written says *)
(* so when it unpins.  Each caller holds one page at a time: a function    *)
(* that holds two pages at once is two callers.                            *)
(***************************************************************************)
EXTENDS Integers, Sequences, FiniteSets

CONSTANTS
  Frames,         \* the frames of the pool
  MaxPages,       \* bound: pages in the file
  Callers,        \* the callers
  Data,           \* contents of a page
  Zero,           \* an all-zero page
  NoFrame,        \* not in the page table
  MissingFetches  \* callers also fetch pages that do not exist

ASSUME PoolAssumption ==
  /\ MaxPages \in Nat
  /\ IsFiniteSet(Callers)
  /\ Zero \in Data
  /\ NoFrame \notin Frames
  /\ MissingFetches \in BOOLEAN

VARIABLES
  numPages,       \* DiskManager.num_pages
  disk,           \* the pages of the file, as this process reads them
  framePage,      \* _Frame.page_id
  frameData,      \* _Frame.data
  pinCount,       \* _Frame.pin_count
  dirty,          \* _Frame.dirty
  pageTable,      \* BufferPoolManager._page_table
  freeFrames,     \* BufferPoolManager._free_frames
  lru,            \* BufferPoolManager._lru, least recently unpinned first
  held,           \* the page a caller holds
  ref,            \* the frame whose bytes it was handed
  wrote           \* it has written to them

diskVars == <<numPages, disk>>
frameVars == <<framePage, frameData, pinCount, dirty>>
callerVars == <<held, ref, wrote>>
poolVars == <<diskVars, frameVars, pageTable, freeFrames, lru, callerVars>>

PageIds == 0..(MaxPages - 1)

NoPage == -1

Init ==
  /\ numPages = 0
  /\ disk = [p \in PageIds |-> Zero]
  /\ framePage = [f \in Frames |-> NoPage]
  /\ frameData = [f \in Frames |-> Zero]
  /\ pinCount = [f \in Frames |-> 0]
  /\ dirty = [f \in Frames |-> FALSE]
  /\ pageTable = [p \in PageIds |-> NoFrame]
  /\ freeFrames = Frames
  /\ lru = <<>>
  /\ held = [c \in Callers |-> NoPage]
  /\ ref = [c \in Callers |-> NoFrame]
  /\ wrote = [c \in Callers |-> FALSE]

-----------------------------------------------------------------------------
(* Frames *)

InLru(f) == \E i \in DOMAIN lru : lru[i] = f

\* The queue without frame f, if it is there.
Without(f) ==
  IF InLru(f)
    THEN LET i == CHOOSE j \in DOMAIN lru : lru[j] = f
         IN  [j \in 1..(Len(lru) - 1) |-> IF j < i THEN lru[j] ELSE lru[j + 1]]
    ELSE lru

NoneToEvict == freeFrames = {} /\ lru = <<>>

\* _evict_one returns f: a free frame, or else the least recently unpinned one,
\* written back if it is dirty and taken out of the page table.
Evicts(f) ==
  IF freeFrames # {} THEN f \in freeFrames ELSE lru # <<>> /\ f = Head(lru)

DiskAfterEviction(f) ==
  IF freeFrames = {} /\ dirty[f] THEN [disk EXCEPT ![framePage[f]] = frameData[f]] ELSE disk

TableAfterEviction(f) ==
  IF freeFrames = {} THEN [pageTable EXCEPT ![framePage[f]] = NoFrame] ELSE pageTable

QueuesAfterEviction(f) ==
  /\ freeFrames' = freeFrames \ {f}
  /\ lru' = IF freeFrames = {} THEN Tail(lru) ELSE lru

\* (Fault: the bytes of the page that was evicted stay in the frame.)
LoadStale(f, p, x) ==
  /\ framePage' = [framePage EXCEPT ![f] = p]
  /\ dirty' = [dirty EXCEPT ![f] = FALSE]
  /\ pinCount' = [pinCount EXCEPT ![f] = 1]
  /\ pageTable' = [TableAfterEviction(f) EXCEPT ![p] = f]
  /\ UNCHANGED frameData

\* Frame f, just evicted, now holds page p with contents x, pinned once.
Load(f, p, x) ==
  /\ frameData' = [frameData EXCEPT ![f] = x]
  /\ framePage' = [framePage EXCEPT ![f] = p]
  /\ dirty' = [dirty EXCEPT ![f] = FALSE]
  /\ pinCount' = [pinCount EXCEPT ![f] = 1]
  /\ pageTable' = [TableAfterEviction(f) EXCEPT ![p] = f]

Handed(c, p, f) ==
  /\ held' = [held EXCEPT ![c] = p]
  /\ ref' = [ref EXCEPT ![c] = f]
  /\ wrote' = [wrote EXCEPT ![c] = FALSE]

-----------------------------------------------------------------------------
(* Operations *)

\* (Fault: the frame stays in the queue of candidates for eviction.)
FetchResidentQueued(c, p) ==
  LET f == pageTable[p]
  IN  /\ held[c] = NoPage
      /\ f # NoFrame
      /\ pinCount' = [pinCount EXCEPT ![f] = @ + 1]
      /\ Handed(c, p, f)
      /\ UNCHANGED <<diskVars, framePage, frameData, dirty, pageTable, freeFrames, lru>>

FetchResident(c, p) ==
  LET f == pageTable[p]
  IN  /\ held[c] = NoPage
      /\ f # NoFrame
      /\ pinCount' = [pinCount EXCEPT ![f] = @ + 1]
      /\ lru' = Without(f)
      /\ Handed(c, p, f)
      /\ UNCHANGED <<diskVars, framePage, frameData, dirty, pageTable, freeFrames>>

FetchFromDisk(c, p) ==
  /\ held[c] = NoPage
  /\ p < numPages
  /\ pageTable[p] = NoFrame
  /\ \E f \in Frames :
       /\ Evicts(f)
       /\ QueuesAfterEviction(f)
       /\ disk' = DiskAfterEviction(f)
       /\ Load(f, p, disk'[p])
       /\ Handed(c, p, f)
  /\ UNCHANGED numPages

\* read_page raises after _evict_one has given up its frame.
FetchMissing(p) ==
  /\ MissingFetches
  /\ p >= numPages
  /\ \E f \in Frames :
       /\ Evicts(f)
       /\ QueuesAfterEviction(f)
       /\ disk' = DiskAfterEviction(f)
       /\ pageTable' = TableAfterEviction(f)
  /\ UNCHANGED <<numPages, frameVars, callerVars>>

NewPage(c) ==
  /\ held[c] = NoPage
  /\ numPages \in PageIds
  /\ numPages' = numPages + 1
  /\ \E f \in Frames :
       /\ Evicts(f)
       /\ QueuesAfterEviction(f)
       /\ disk' = [DiskAfterEviction(f) EXCEPT ![numPages] = Zero]
       /\ Load(f, numPages, Zero)
       /\ Handed(c, numPages, f)

\* BufferPoolFullError, raised when the page has already been allocated.
NewPageRaises ==
  /\ NoneToEvict
  /\ numPages \in PageIds
  /\ numPages' = numPages + 1
  /\ disk' = [disk EXCEPT ![numPages] = Zero]
  /\ UNCHANGED <<frameVars, pageTable, freeFrames, lru, callerVars>>

Write(c, x) ==
  /\ held[c] # NoPage
  /\ frameData' = [frameData EXCEPT ![ref[c]] = x]
  /\ wrote' = [wrote EXCEPT ![c] = TRUE]
  /\ UNCHANGED <<diskVars, framePage, pinCount, dirty, pageTable, freeFrames, lru, held, ref>>

LetGo(c) ==
  /\ held' = [held EXCEPT ![c] = NoPage]
  /\ ref' = [ref EXCEPT ![c] = NoFrame]
  /\ wrote' = [wrote EXCEPT ![c] = FALSE]

\* (Fault: the last caller's flag replaces the frame's.)
UnpinForgetful(c, d) ==
  LET f == pageTable[held[c]]
  IN  /\ held[c] # NoPage
      /\ wrote[c] => d
      /\ dirty' = [dirty EXCEPT ![f] = d]
      /\ pinCount' = [pinCount EXCEPT ![f] = @ - 1]
      /\ lru' = IF pinCount[f] = 1 /\ ~InLru(f) THEN Append(lru, f) ELSE lru
      /\ LetGo(c)
      /\ UNCHANGED <<diskVars, framePage, frameData, pageTable, freeFrames>>

\* (Fault: the frame is queued on the count before the decrement.)
UnpinUnqueued(c, d) ==
  LET f == pageTable[held[c]]
  IN  /\ held[c] # NoPage
      /\ wrote[c] => d
      /\ dirty' = [dirty EXCEPT ![f] = dirty[f] \/ d]
      /\ pinCount' = [pinCount EXCEPT ![f] = @ - 1]
      /\ lru' = IF pinCount[f] = 0 /\ ~InLru(f) THEN Append(lru, f) ELSE lru
      /\ LetGo(c)
      /\ UNCHANGED <<diskVars, framePage, frameData, pageTable, freeFrames>>

\* unpin_page(held[c], d) by a caller that has finished with the page.
Unpin(c, d) ==
  LET f == pageTable[held[c]]
      left == IF pinCount[f] > 0 THEN pinCount[f] - 1 ELSE 0
  IN  /\ held[c] # NoPage
      /\ wrote[c] => d
      /\ IF f = NoFrame
           THEN UNCHANGED <<dirty, pinCount, lru>>
           ELSE /\ dirty' = [dirty EXCEPT ![f] = dirty[f] \/ d]
                /\ pinCount' = [pinCount EXCEPT ![f] = left]
                /\ lru' = IF left = 0 /\ ~InLru(f) THEN Append(lru, f) ELSE lru
      /\ LetGo(c)
      /\ UNCHANGED <<diskVars, framePage, frameData, pageTable, freeFrames>>

Dirty(p) == pageTable[p] # NoFrame /\ dirty[pageTable[p]]

\* flush_page for each page of P.
Flushes(P) ==
  /\ disk' = [p \in PageIds |-> IF p \in P /\ Dirty(p) THEN frameData[pageTable[p]] ELSE disk[p]]
  /\ dirty' = [f \in Frames |-> dirty[f] /\ ~\E p \in P : pageTable[p] = f]
  /\ UNCHANGED <<numPages, framePage, frameData, pinCount, pageTable, freeFrames, lru, callerVars>>

\* (Fault: pinned pages are passed over.)
FlushAllUnpinned == Flushes({p \in PageIds : pageTable[p] # NoFrame /\ pinCount[pageTable[p]] = 0})

FlushAll == Flushes(PageIds)

Next ==
  \/ \E c \in Callers, p \in PageIds : FetchResident(c, p) \/ FetchFromDisk(c, p)
  \/ \E p \in PageIds : FetchMissing(p) \/ Flushes({p})
  \/ \E c \in Callers : NewPage(c)
  \/ NewPageRaises
  \/ \E c \in Callers, x \in Data : Write(c, x)
  \/ \E c \in Callers, d \in BOOLEAN : Unpin(c, d)
  \/ FlushAll

Spec == Init /\ [][Next]_poolVars

-----------------------------------------------------------------------------
(* Properties *)

\* The variables hold values of the kinds their fields have in the code.
TypeOK ==
  /\ numPages \in 0..MaxPages
  /\ disk \in [PageIds -> Data]
  /\ framePage \in [Frames -> PageIds \cup {NoPage}]
  /\ frameData \in [Frames -> Data]
  /\ pinCount \in [Frames -> Nat]
  /\ dirty \in [Frames -> BOOLEAN]
  /\ pageTable \in [PageIds -> Frames \cup {NoFrame}]
  /\ freeFrames \in SUBSET Frames
  /\ lru \in Seq(Frames)
  /\ held \in [Callers -> PageIds \cup {NoPage}]
  /\ ref \in [Callers -> Frames \cup {NoFrame}]
  /\ wrote \in [Callers -> BOOLEAN]

\* The contents of a page as its callers see it.
Current(p) == IF pageTable[p] # NoFrame THEN frameData[pageTable[p]] ELSE disk[p]

Pages == INSTANCE PageStore WITH
  allocated <- 0..(numPages - 1),
  store <- [p \in PageIds |-> Current(p)],
  durable <- disk

\* The pool is transparent: caching, eviction and write-back never change what is
\* read from a page, only a caller that holds it does, and what reaches the
\* file is the page as it is.
ImplementsPageStore == Pages!Spec

\* The bytes a caller was handed are those of its page for as long as it holds
\* it: the page stays in the table and its frame is never given away.
HeldPagesStay ==
  \A c \in Callers : held[c] # NoPage =>
    /\ pageTable[held[c]] = ref[c]
    /\ ref[c] # NoFrame
    /\ pinCount[ref[c]] > 0

\* flush_all() leaves nothing behind: after it the file has every page as it is,
\* but for what a caller is still writing.
FlushReachesDisk ==
  [][FlushAll => \A p \in PageIds :
       (\A c \in Callers : held[c] = p => ~wrote[c]) => disk'[p] = Current(p)]_poolVars

Resident(f) == framePage[f] \in PageIds /\ pageTable[framePage[f]] = f

\* A frame that was lost to a fetch of a page that does not exist.
Lost(f) == MissingFetches /\ ~Resident(f)

\* BufferPoolFullError is raised only when every frame is pinned, or was lost to a
\* fetch of a page that does not exist.
FullOnlyWhenPinned == NoneToEvict => \A f \in Frames : pinCount[f] > 0 \/ Lost(f)

-----------------------------------------------------------------------------
(* The inductive invariant *)

\* The page table and the frames' page ids agree, and only allocated pages are cached.
TableInv ==
  \A p \in PageIds :
    /\ pageTable[p] # NoFrame => framePage[pageTable[p]] = p
    /\ p >= numPages => pageTable[p] = NoFrame /\ disk[p] = Zero

\* A frame is free, in the queue, or pinned, and nothing in between; a frame lost
\* to a fetch of a missing page is none of them.
FrameInv ==
  \A f \in Frames :
    /\ f \in freeFrames => pinCount[f] = 0 /\ ~Resident(f)
    /\ InLru(f) <=> Resident(f) /\ pinCount[f] = 0
    /\ pinCount[f] > 0 => Resident(f)
    /\ ~MissingFetches /\ ~Resident(f) => f \in freeFrames

\* No frame is in the queue twice.
QueueInv == \A i, j \in DOMAIN lru : lru[i] = lru[j] => i = j

Holders(f) == {c \in Callers : ref[c] = f}

\* pin_count is the number of callers that hold the page.
PinInv ==
  /\ \A f \in Frames : pinCount[f] = Cardinality(Holders(f))
  /\ \A c \in Callers :
       IF held[c] = NoPage THEN ref[c] = NoFrame /\ ~wrote[c]
                           ELSE ref[c] # NoFrame /\ pageTable[held[c]] = ref[c]

\* A cached page that differs from the file is dirty, or is about to be said so.
CleanInv ==
  \A p \in PageIds :
    pageTable[p] # NoFrame /\ ~dirty[pageTable[p]] /\ (\A c \in Callers : held[c] = p => ~wrote[c])
      => frameData[pageTable[p]] = disk[p]

\* The inductive invariant: the table, the queue, the pin counts and the dirty
\* flags tell the truth about the frames.
PoolInv == TypeOK /\ TableInv /\ FrameInv /\ QueueInv /\ PinInv /\ CleanInv
=============================================================================
