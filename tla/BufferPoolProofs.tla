--------------------------- MODULE BufferPoolProofs ---------------------------
(***************************************************************************)
(* The buffer pool keeps its bookkeeping truthful, for any number of       *)
(* frames, pages and callers, and therefore is transparent: it implements  *)
(* PageStore.tla.                                                          *)
(***************************************************************************)
EXTENDS BufferPool, FiniteSetTheorems, SequenceTheorems, TLAPS

\* Most leaves need first-order and set reasoning only: they go to Zenon, the others
\* name their prover.
USE ZenonT(30)

-----------------------------------------------------------------------------
(* The queue *)

\* The queue without a frame is a queue of the other frames, in the same order.
LEMMA WithoutFrame ==
  ASSUME lru \in Seq(Frames), QueueInv, NEW f \in Frames, lru' = Without(f)
  PROVE  /\ lru' \in Seq(Frames)
         /\ \A g \in Frames : InLru(g)' <=> InLru(g) /\ g # f
         /\ QueueInv'
  <1>1. CASE ~InLru(f)
    BY <1>1 DEF Without, InLru, QueueInv
  <1>2. CASE InLru(f)
    <2> DEFINE k == CHOOSE j \in DOMAIN lru : lru[j] = f
               n == Len(lru) - 1
    <2>1. k \in 1..Len(lru) /\ lru[k] = f
      BY SMTT(30), <1>2 DEF InLru
    <2> HIDE DEF k
    <2>2. lru' = [j \in 1..n |-> IF j < k THEN lru[j] ELSE lru[j + 1]]
      BY <1>2 DEF Without, k
    <2>3. n \in Nat /\ Len(lru) = n + 1 /\ Len(lru) \in Nat
      BY SMTT(30), <2>1
    <2> HIDE DEF n
    <2>4. \A j \in 1..n : lru'[j] \in Frames
      BY SMTT(30), <2>1, <2>2, <2>3
    <2>5. lru' \in Seq(Frames) /\ DOMAIN lru' = 1..n
      <3>1. lru' \in [1..n -> Frames]
        BY <2>2, <2>4
      <3> QED
        BY SMTT(30), <2>3, <3>1, SeqDef
    <2> DEFINE at(j) == IF j < k THEN j ELSE j + 1
    <2>a. \A j \in 1..n : lru'[j] = lru[at(j)] /\ at(j) \in DOMAIN lru /\ at(j) # k
      BY SMTT(30), <2>1, <2>2, <2>3
    <2>b. \A i, j \in 1..n : at(i) = at(j) => i = j
      BY SMTT(30), <2>1, <2>3
    <2> HIDE DEF at
    <2>6. ASSUME NEW i \in 1..n, NEW j \in 1..n, lru'[i] = lru'[j]
          PROVE  i = j
      BY SMTT(30), <2>6, <2>a, <2>b DEF QueueInv
    <2>7. ASSUME NEW i \in 1..n
          PROVE  InLru(lru'[i]) /\ lru'[i] # f
      BY SMTT(30), <2>1, <2>a DEF QueueInv, InLru
    <2>8. ASSUME NEW g \in Frames, InLru(g), g # f
          PROVE  \E i \in 1..n : lru'[i] = g
      <3>1. PICK m \in 1..Len(lru) : lru[m] = g
        BY SMTT(30), <2>8 DEF InLru
      <3>2. m # k
        BY <2>1, <2>8, <3>1
      <3>3. CASE m < k
        BY SMTT(30), <2>1, <2>2, <2>3, <3>1, <3>3
      <3>4. CASE m > k
        <4>1. m - 1 \in 1..n /\ ~(m - 1 < k) /\ m - 1 + 1 = m
          BY SMTT(30), <2>1, <2>3, <3>1, <3>4
        <4> QED
          BY <2>2, <3>1, <4>1
      <3> QED
        BY SMTT(30), <2>1, <3>1, <3>2, <3>3, <3>4
    <2>9. QueueInv'
      BY <2>5, <2>6 DEF QueueInv
    <2>10. \A g \in Frames : InLru(g)' <=> InLru(g) /\ g # f
      BY <2>5, <2>7, <2>8 DEF InLru
    <2> QED
      BY <2>5, <2>9, <2>10
  <1> QED
    BY <1>1, <1>2

\* Taking the least recently unpinned frame leaves the others.
LEMMA TailOfQueue ==
  ASSUME lru \in Seq(Frames), QueueInv, lru # <<>>, lru' = Tail(lru)
  PROVE  /\ Head(lru) \in Frames /\ InLru(Head(lru))
         /\ lru' \in Seq(Frames)
         /\ \A g \in Frames : InLru(g)' <=> InLru(g) /\ g # Head(lru)
         /\ QueueInv'
  <1>1. /\ Len(lru) \in Nat \ {0} /\ DOMAIN lru = 1..Len(lru) /\ Head(lru) = lru[1]
        /\ lru' \in Seq(Frames) /\ Len(lru') = Len(lru) - 1 /\ DOMAIN lru' = 1..(Len(lru) - 1)
        /\ \A i \in 1..(Len(lru) - 1) : lru'[i] = lru[i + 1]
    BY SMTT(30)
  <1>2. Head(lru) \in Frames /\ InLru(Head(lru))
    BY SMTT(30), <1>1 DEF InLru
  <1>3. ASSUME NEW i \in DOMAIN lru', NEW j \in DOMAIN lru', lru'[i] = lru'[j]
        PROVE  i = j
    BY SMTT(30), <1>1, <1>3 DEF QueueInv
  <1>4. ASSUME NEW i \in DOMAIN lru'
        PROVE  InLru(lru'[i]) /\ lru'[i] # Head(lru)
    BY SMTT(30), <1>1 DEF QueueInv, InLru
  <1>5. ASSUME NEW g \in Frames, InLru(g), g # Head(lru)
        PROVE  \E i \in DOMAIN lru' : lru'[i] = g
    <2>1. PICK m \in 1..Len(lru) : lru[m] = g
      BY SMTT(30), <1>5 DEF InLru
    <2>2. m # 1
      BY <1>1, <1>5, <2>1
    <2>3. m - 1 \in DOMAIN lru' /\ m - 1 + 1 = m
      BY SMTT(30), <1>1, <2>1, <2>2
    <2> QED
      BY <1>1, <2>1, <2>3
  <1>6. QueueInv'
    BY <1>3 DEF QueueInv
  <1>7. \A g \in Frames : InLru(g)' <=> InLru(g) /\ g # Head(lru)
    BY SMTT(30), <1>4, <1>5 DEF InLru
  <1> QED
    BY <1>1, <1>2, <1>6, <1>7

\* A frame that was not queued goes to the end of the queue.
LEMMA QueueAppend ==
  ASSUME lru \in Seq(Frames), QueueInv, NEW f \in Frames, ~InLru(f), lru' = Append(lru, f)
  PROVE  /\ lru' \in Seq(Frames)
         /\ \A g \in Frames : InLru(g)' <=> InLru(g) \/ g = f
         /\ QueueInv'
  <1>1. /\ lru' \in Seq(Frames) /\ DOMAIN lru' = 1..(Len(lru) + 1) /\ Len(lru) \in Nat
        /\ \A i \in 1..Len(lru) : lru'[i] = lru[i]
        /\ lru'[Len(lru) + 1] = f
        /\ DOMAIN lru = 1..Len(lru)
    BY SMTT(30)
  <1>2. ASSUME NEW i \in DOMAIN lru', NEW j \in DOMAIN lru', lru'[i] = lru'[j]
        PROVE  i = j
    BY SMTT(30), <1>1, <1>2 DEF QueueInv, InLru
  <1>3. ASSUME NEW g \in Frames
        PROVE  InLru(g)' <=> InLru(g) \/ g = f
    BY SMTT(30), <1>1 DEF InLru
  <1>4. QueueInv'
    BY <1>2 DEF QueueInv
  <1> QED
    BY <1>1, <1>3, <1>4

-----------------------------------------------------------------------------
(* Eviction *)

\* A caller that holds a page holds it in the frame it was handed.
LEMMA HolderFacts ==
  ASSUME PoolInv, NEW c \in Callers, held[c] # NoPage
  PROVE  /\ held[c] \in PageIds
         /\ ref[c] \in Frames
         /\ pageTable[held[c]] = ref[c]
         /\ framePage[ref[c]] = held[c]
  BY SMTT(30) DEF PoolInv, TypeOK, PinInv, TableInv

\* Counting the callers that hold a frame.
LEMMA HolderCount ==
  ASSUME PoolInv, NEW f \in Frames
  PROVE  /\ IsFiniteSet(Holders(f))
         /\ pinCount[f] = 0 <=> Holders(f) = {}
         /\ \A c \in Holders(f) : pinCount[f] \in Nat \ {0}
  <1>1. IsFiniteSet(Holders(f))
    BY PoolAssumption, FS_Subset DEF Holders
  <1>2. Cardinality(Holders(f)) = 0 <=> Holders(f) = {}
    BY <1>1, FS_EmptySet
  <1>3. pinCount[f] = Cardinality(Holders(f)) /\ pinCount[f] \in Nat
    BY DEF PoolInv, PinInv, TypeOK
  <1> QED
    BY <1>1, <1>2, <1>3

\* A frame with no pins has no holder, and no page of it is being written.
LEMMA UnpinnedUnheld ==
  ASSUME PoolInv, NEW f \in Frames, pinCount[f] = 0, NEW c \in Callers
  PROVE  /\ ref[c] # f
         /\ \A p \in PageIds : pageTable[p] = f => held[c] # p
  <1>1. ref[c] # f
    BY HolderCount DEF Holders
  <1>2. ASSUME NEW p \in PageIds, pageTable[p] = f, held[c] = p
        PROVE  FALSE
    <2>1. held[c] # NoPage
      BY SMTT(30), <1>2, PoolAssumption DEF NoPage, PageIds
    <2> QED
      BY <1>1, <1>2, <2>1, HolderFacts
  <1> QED
    BY <1>1, <1>2

\* A frame in the page table is the one of its page.
LEMMA ResidentPage ==
  ASSUME PoolInv, NEW f \in Frames
  PROVE  /\ Resident(f) => \A p \in PageIds : pageTable[p] = f <=> p = framePage[f]
         /\ ~Resident(f) => \A p \in PageIds : pageTable[p] # f
  <1>1. \A p \in PageIds : pageTable[p] = f => framePage[f] = p
    BY PoolAssumption DEF PoolInv, TableInv
  <1> QED
    BY <1>1 DEF Resident

\* What _evict_one does when it returns f: the frame is nobody's, the page it
\* had, if any, is out of the table and in the file as it was.
LEMMA EvictFacts ==
  ASSUME PoolInv, NEW f \in Frames, Evicts(f), QueuesAfterEviction(f)
  PROVE  /\ pinCount[f] = 0
         /\ freeFrames' = freeFrames \ {f}
         /\ lru' \in Seq(Frames)
         /\ QueueInv'
         /\ \A g \in Frames : InLru(g)' <=> InLru(g) /\ g # f
         /\ TableAfterEviction(f) \in [PageIds -> Frames \cup {NoFrame}]
         /\ \A p \in PageIds : TableAfterEviction(f)[p] = IF pageTable[p] = f THEN NoFrame ELSE pageTable[p]
         /\ DiskAfterEviction(f) \in [PageIds -> Data]
         /\ \A p \in PageIds : DiskAfterEviction(f)[p] = IF pageTable[p] = f THEN frameData[f] ELSE disk[p]
  <1>1. CASE freeFrames # {}
    <2>1. f \in freeFrames /\ lru' = lru
      BY <1>1 DEF Evicts, QueuesAfterEviction
    <2>2. pinCount[f] = 0 /\ ~Resident(f) /\ ~InLru(f)
      BY <2>1 DEF PoolInv, FrameInv
    <2>3. TableAfterEviction(f) = pageTable /\ DiskAfterEviction(f) = disk
      BY <1>1 DEF TableAfterEviction, DiskAfterEviction
    <2>4. \A p \in PageIds : pageTable[p] # f
      BY <2>2, ResidentPage
    <2>5. QueueInv' /\ \A g \in Frames : InLru(g)' <=> InLru(g) /\ g # f
      BY <2>1, <2>2 DEF QueueInv, InLru, PoolInv
    <2> QED
      BY <2>1, <2>2, <2>3, <2>4, <2>5 DEF QueuesAfterEviction, PoolInv, TypeOK
  <1>2. CASE freeFrames = {}
    <2>1. lru # <<>> /\ f = Head(lru) /\ lru' = Tail(lru)
      BY <1>2 DEF Evicts, QueuesAfterEviction
    <2>2. /\ lru' \in Seq(Frames)
          /\ InLru(f)
          /\ \A g \in Frames : InLru(g)' <=> InLru(g) /\ g # f
          /\ QueueInv'
      <3>1. lru \in Seq(Frames) /\ QueueInv
        BY DEF PoolInv, TypeOK
      <3> QED
        BY <2>1, <3>1, TailOfQueue
    <2>3. pinCount[f] = 0 /\ Resident(f)
      BY <2>2 DEF PoolInv, FrameInv
    <2>4. \A p \in PageIds : pageTable[p] = f <=> p = framePage[f]
      BY <2>3, ResidentPage
    <2>5. framePage[f] \in PageIds
      BY <2>3 DEF Resident
    <2>6. TableAfterEviction(f) = [pageTable EXCEPT ![framePage[f]] = NoFrame]
      BY <1>2 DEF TableAfterEviction
    <2>7. frameData[f] = disk[framePage[f]] \/ dirty[f]
      <3>1. pageTable[framePage[f]] = f /\ f # NoFrame
        BY <2>3, PoolAssumption DEF Resident
      <3>2. \A c \in Callers : held[c] # framePage[f]
        BY <2>3, <2>5, <3>1, UnpinnedUnheld
      <3> QED
        BY <2>5, <3>1, <3>2 DEF PoolInv, CleanInv
    <2>8. \A p \in PageIds : DiskAfterEviction(f)[p] = IF pageTable[p] = f THEN frameData[f] ELSE disk[p]
      BY <1>2, <2>4, <2>5, <2>7 DEF DiskAfterEviction, PoolInv, TypeOK
    <2>9. DiskAfterEviction(f) \in [PageIds -> Data]
      BY <2>5 DEF DiskAfterEviction, PoolInv, TypeOK
    <2> QED
      BY <2>2, <2>3, <2>4, <2>5, <2>6, <2>8, <2>9 DEF QueuesAfterEviction, PoolInv, TypeOK
  <1> QED
    BY <1>1, <1>2

-----------------------------------------------------------------------------
(* The inductive invariant, one action at a time *)

\* Loading a page into the frame that _evict_one returned.
LEMMA LoadStep ==
  ASSUME PoolInv, NEW c \in Callers, held[c] = NoPage, NEW p \in PageIds, NEW x \in Data,
         NEW f \in Frames, Evicts(f), QueuesAfterEviction(f),
         pageTable[p] = NoFrame, Load(f, p, x), Handed(c, p, f),
         numPages' \in 0..MaxPages, p < numPages', numPages' >= numPages,
         disk' \in [PageIds -> Data], disk'[p] = x,
         \A q \in PageIds : q # p => disk'[q] = DiskAfterEviction(f)[q]
  PROVE  PoolInv'
  <1> USE PoolAssumption
  <1>1. /\ pinCount[f] = 0
        /\ freeFrames' = freeFrames \ {f}
        /\ lru' \in Seq(Frames)
        /\ QueueInv'
        /\ \A g \in Frames : InLru(g)' <=> InLru(g) /\ g # f
        /\ TableAfterEviction(f) \in [PageIds -> Frames \cup {NoFrame}]
        /\ \A q \in PageIds : TableAfterEviction(f)[q] = IF pageTable[q] = f THEN NoFrame ELSE pageTable[q]
        /\ \A q \in PageIds : DiskAfterEviction(f)[q] = IF pageTable[q] = f THEN frameData[f] ELSE disk[q]
    BY EvictFacts
  <1>2. TypeOK'
    BY <1>1 DEF PoolInv, TypeOK, Load, Handed
  <1>3. \A q \in PageIds : pageTable'[q] = IF q = p THEN f ELSE IF pageTable[q] = f THEN NoFrame ELSE pageTable[q]
    BY <1>1 DEF Load
  <1>4. /\ \A g \in Frames : framePage'[g] = IF g = f THEN p ELSE framePage[g]
        /\ \A g \in Frames : pinCount'[g] = IF g = f THEN 1 ELSE pinCount[g]
        /\ \A g \in Frames : dirty'[g] <=> (g # f /\ dirty[g])
        /\ \A g \in Frames : frameData'[g] = IF g = f THEN x ELSE frameData[g]
        /\ \A d \in Callers : held'[d] = IF d = c THEN p ELSE held[d]
        /\ \A d \in Callers : ref'[d] = IF d = c THEN f ELSE ref[d]
        /\ \A d \in Callers : wrote'[d] <=> (d # c /\ wrote[d])
    BY DEF Load, Handed, PoolInv, TypeOK
  <1>a. \A g \in Frames : framePage'[g] = IF g = f THEN p ELSE framePage[g]
    BY <1>4, Zenon
  <1>b. /\ \A g \in Frames : pinCount'[g] = IF g = f THEN 1 ELSE pinCount[g]
        /\ \A g \in Frames : InLru(g)' <=> InLru(g) /\ g # f
        /\ freeFrames' = freeFrames \ {f}
    BY <1>1, <1>4, Zenon
  <1>5. /\ \A q \in PageIds : pageTable[q] # NoFrame => pageTable[q] \in Frames /\ framePage[pageTable[q]] = q
        /\ \A q \in PageIds : q >= numPages => pageTable[q] = NoFrame /\ disk[q] = Zero
        /\ \A d \in Callers : ref[d] # f /\ \A q \in PageIds : pageTable[q] = f => held[d] # q
    BY SMTT(30), <1>1, UnpinnedUnheld DEF PoolInv, TypeOK, TableInv
  <1>6. TableInv'
    <2>1. ASSUME NEW q \in PageIds
          PROVE  pageTable'[q] # NoFrame => framePage'[pageTable'[q]] = q
      BY SMTT(30), <1>3, <1>5, <1>a
    <2>2. ASSUME NEW q \in PageIds, q >= numPages'
          PROVE  pageTable'[q] = NoFrame /\ disk'[q] = Zero
      <3>1. q # p /\ q >= numPages
        BY SMTT(30), <2>2 DEF PoolInv, TypeOK, PageIds
      <3> QED
        BY <1>1, <1>3, <1>5, <3>1
    <2> QED
      BY <2>1, <2>2 DEF TableInv
  <1>7. ASSUME NEW g \in Frames
        PROVE  Resident(g)' <=> g = f \/ Resident(g)
    <2>1. CASE g = f
      BY <1>3, <1>4, <2>1, ZenonT(60) DEF Resident
    <2>2. CASE g # f
      BY SMTT(30), <1>3, <1>a, <2>2 DEF Resident
    <2> QED
      BY <2>1, <2>2
  <1>8. FrameInv'
    <2> SUFFICES ASSUME NEW g \in Frames
                 PROVE  /\ g \in freeFrames' => pinCount'[g] = 0 /\ ~Resident(g)'
                        /\ InLru(g)' <=> Resident(g)' /\ pinCount'[g] = 0
                        /\ pinCount'[g] > 0 => Resident(g)'
                        /\ ~MissingFetches /\ ~Resident(g)' => g \in freeFrames'
      BY DEF FrameInv
    <2>1. /\ g \in freeFrames => pinCount[g] = 0 /\ ~Resident(g)
          /\ InLru(g) <=> Resident(g) /\ pinCount[g] = 0
          /\ pinCount[g] > 0 => Resident(g)
          /\ ~MissingFetches /\ ~Resident(g) => g \in freeFrames
      BY DEF PoolInv, FrameInv
    <2> QED
      BY SMTT(30), <1>7, <1>b, <2>1
  <1>9. PinInv'
    <2>1. ASSUME NEW g \in Frames, g # f
          PROVE  Holders(g)' = Holders(g)
      BY SMTT(30), <1>4, <2>1 DEF Holders, PoolInv, PinInv
    <2>2. Holders(f)' = {c}
      BY SMTT(30), <1>4, <1>5 DEF Holders
    <2>3. Cardinality({c}) = 1
      BY FS_Singleton
    <2>4. \A g \in Frames : pinCount'[g] = Cardinality(Holders(g)')
      BY <1>4, <2>1, <2>2, <2>3, ZenonT(60) DEF PoolInv, PinInv
    <2>5. ASSUME NEW d \in Callers
          PROVE  (IF held[d] = NoPage THEN ref[d] = NoFrame /\ ~wrote[d]
                    ELSE ref[d] # NoFrame /\ pageTable[held[d]] = ref[d])'
      <3>1. CASE d = c
        <4>1. p # NoPage
          BY SMTT(30) DEF PageIds, NoPage
        <4>2. held'[d] = p /\ ref'[d] = f /\ pageTable'[p] = f
          BY <1>3, <1>4, <3>1
        <4> QED
          BY <4>1, <4>2
      <3>2. CASE d # c /\ held[d] = NoPage
        BY SMTT(30), <1>4, <3>2 DEF PoolInv, PinInv
      <3>3. CASE d # c /\ held[d] # NoPage
        <4>1. held[d] \in PageIds /\ ref[d] \in Frames /\ pageTable[held[d]] = ref[d]
          BY <3>3, HolderFacts
        <4>2. held'[d] = held[d] /\ ref'[d] = ref[d]
          BY <1>4, <3>3
        <4>3. pageTable[held[d]] # f /\ held[d] # p
          BY <1>5, <4>1
        <4>4. pageTable'[held[d]] = ref[d]
          BY <1>3, <4>1, <4>3
        <4> QED
          BY <3>3, <4>1, <4>2, <4>4
      <3> QED
        BY <3>1, <3>2, <3>3
    <2> QED
      BY <2>4, <2>5 DEF PinInv
  <1>10. CleanInv'
    <2> SUFFICES ASSUME NEW q \in PageIds, pageTable'[q] # NoFrame, ~dirty'[pageTable'[q]],
                        \A d \in Callers : held'[d] = q => ~wrote'[d]
                 PROVE  frameData'[pageTable'[q]] = disk'[q]
      BY DEF CleanInv
    <2>1. CASE q = p
      BY SMTT(30), <1>3, <1>4, <2>1
    <2>2. CASE q # p
      <3>1. pageTable'[q] = pageTable[q] /\ pageTable[q] # f /\ pageTable[q] \in Frames
        BY <1>3, <1>5, <2>2
      <3>2. disk'[q] = disk[q] /\ frameData'[pageTable'[q]] = frameData[pageTable[q]] /\ ~dirty[pageTable[q]]
        BY <1>1, <1>4, <2>2, <3>1, ZenonT(60)
      <3>3. \A d \in Callers : held[d] = q => ~wrote[d]
        <4> SUFFICES ASSUME NEW d \in Callers, held[d] = q
                     PROVE  ~wrote[d]
          OBVIOUS
        <4>1. d # c
          BY SMTT(30) DEF PageIds, NoPage
        <4> QED
          BY <1>4, <4>1
      <3> QED
        BY <3>1, <3>2, <3>3 DEF PoolInv, CleanInv
    <2> QED
      BY <2>1, <2>2
  <1> QED
    BY <1>1, <1>2, <1>6, <1>8, <1>9, <1>10 DEF PoolInv

\* Every frame is free, nothing is cached and nobody holds a page.
LEMMA InitPool == Init => PoolInv
  <1> SUFFICES ASSUME Init
               PROVE  PoolInv
    OBVIOUS
  <1> USE PoolAssumption
  <1>1. TypeOK
    BY SMTT(30) DEF Init, TypeOK
  <1>2. TableInv
    BY DEF Init, TableInv
  <1>3. FrameInv
    BY SMTT(30) DEF Init, FrameInv, Resident, InLru, NoPage, PageIds
  <1>4. QueueInv
    BY SMTT(30) DEF Init, QueueInv
  <1>5. \A f \in Frames : Holders(f) = {}
    BY DEF Init, Holders
  <1>6. PinInv
    BY <1>5, FS_EmptySet DEF Init, PinInv
  <1>7. CleanInv
    BY DEF Init, CleanInv
  <1> QED
    BY <1>1, <1>2, <1>3, <1>4, <1>6, <1>7 DEF PoolInv

\* A hit of fetch_page pins the frame and takes it out of the queue.
LEMMA FetchResidentStep ==
  ASSUME PoolInv, NEW c \in Callers, NEW p \in PageIds, FetchResident(c, p)
  PROVE  PoolInv'
  <1> USE PoolAssumption
  <1>0. PICK f \in Frames : f = pageTable[p]
    BY DEF FetchResident, PoolInv, TypeOK
  <1>1. framePage[f] = p /\ held[c] = NoPage /\ ref[c] = NoFrame /\ p # NoPage /\ f # NoFrame
    BY SMTT(30), <1>0 DEF FetchResident, PoolInv, TypeOK, TableInv, PinInv, NoPage, PageIds
  <1>2. /\ pinCount' = [pinCount EXCEPT ![f] = @ + 1]
        /\ lru' = Without(f)
        /\ Handed(c, p, f)
        /\ UNCHANGED <<numPages, disk, framePage, frameData, dirty, pageTable, freeFrames>>
    BY <1>0 DEF FetchResident, diskVars
  <1>3. pageTable[p] = f
    BY <1>0
  <1>4. /\ lru' \in Seq(Frames)
        /\ \A g \in Frames : InLru(g)' <=> InLru(g) /\ g # f
        /\ QueueInv'
    BY <1>1, <1>2, WithoutFrame DEF PoolInv, TypeOK
  <1>5. /\ \A g \in Frames : pinCount'[g] = IF g = f THEN pinCount[g] + 1 ELSE pinCount[g]
        /\ \A d \in Callers : held'[d] = IF d = c THEN p ELSE held[d]
        /\ \A d \in Callers : ref'[d] = IF d = c THEN f ELSE ref[d]
        /\ \A d \in Callers : wrote'[d] <=> (d # c /\ wrote[d])
    BY <1>2 DEF Handed, PoolInv, TypeOK
  <1>6. TypeOK'
    BY SMTT(30), <1>1, <1>2, <1>4 DEF PoolInv, TypeOK, Handed
  <1>7. TableInv'
    BY <1>2 DEF PoolInv, TableInv
  <1>8. FrameInv'
    <2>1. \A g \in Frames : Resident(g)' <=> Resident(g)
      BY <1>2 DEF Resident
    <2>2. Resident(f)
      BY <1>1, <1>3 DEF Resident
    <2>3. pinCount[f] \in Nat
      BY <1>1 DEF PoolInv, TypeOK
    <2>4. /\ freeFrames' = freeFrames
          /\ \A g \in Frames : InLru(g)' <=> InLru(g) /\ g # f
          /\ \A g \in Frames : pinCount'[g] = IF g = f THEN pinCount[g] + 1 ELSE pinCount[g]
      BY <1>2, <1>4, <1>5, Zenon
    <2>5. FrameInv
      BY DEF PoolInv
    <2> QED
      BY SMTT(30), <2>1, <2>2, <2>3, <2>4, <2>5 DEF FrameInv
  <1>9. PinInv'
    <2>1. ASSUME NEW g \in Frames, g # f
          PROVE  Holders(g)' = Holders(g)
      BY <1>1, <1>5, <2>1 DEF Holders
    <2>2. Holders(f)' = Holders(f) \cup {c} /\ c \notin Holders(f)
      BY <1>1, <1>5 DEF Holders
    <2>3. IsFiniteSet(Holders(f))
      BY <1>1, HolderCount
    <2>4. Cardinality(Holders(f)') = Cardinality(Holders(f)) + 1
      BY <2>2, <2>3, FS_AddElement
    <2>5. \A g \in Frames : pinCount'[g] = Cardinality(Holders(g)')
      BY SMTT(30), <1>1, <1>5, <2>1, <2>4 DEF PoolInv, PinInv
    <2>6. \A d \in Callers :
            IF held'[d] = NoPage THEN ref'[d] = NoFrame /\ ~wrote'[d]
                                 ELSE ref'[d] # NoFrame /\ pageTable'[held'[d]] = ref'[d]
      <3> TAKE d \in Callers
      <3>1. CASE d = c
        <4>1. held'[d] = p /\ ref'[d] = f /\ pageTable'[p] = f
          BY <1>2, <1>3, <1>5, <3>1
        <4> QED
          BY <1>1, <4>1
      <3>2. CASE d # c
        <4>1. held'[d] = held[d] /\ ref'[d] = ref[d] /\ (wrote'[d] <=> wrote[d]) /\ pageTable' = pageTable
          BY <1>2, <1>5, <3>2
        <4>2. IF held[d] = NoPage THEN ref[d] = NoFrame /\ ~wrote[d]
                                  ELSE ref[d] # NoFrame /\ pageTable[held[d]] = ref[d]
          BY DEF PoolInv, PinInv
        <4> QED
          BY <4>1, <4>2
      <3> QED
        BY <3>1, <3>2
    <2> QED
      BY <2>5, <2>6 DEF PinInv
  <1>10. CleanInv'
    <2> SUFFICES ASSUME NEW q \in PageIds, pageTable[q] # NoFrame, ~dirty[pageTable[q]],
                        \A d \in Callers : held'[d] = q => ~wrote'[d]
                 PROVE  frameData[pageTable[q]] = disk[q]
      BY <1>2 DEF CleanInv
    <2>1. \A d \in Callers : held[d] = q => ~wrote[d]
      BY SMTT(30), <1>1, <1>5 DEF PageIds, NoPage
    <2> QED
      BY <2>1 DEF PoolInv, CleanInv
  <1> QED
    BY <1>4, <1>6, <1>7, <1>8, <1>9, <1>10 DEF PoolInv

\* A miss of fetch_page evicts and loads the page that is in the file.
LEMMA FetchFromDiskStep ==
  ASSUME PoolInv, NEW c \in Callers, NEW p \in PageIds, FetchFromDisk(c, p)
  PROVE  PoolInv'
  <1> USE PoolAssumption
  <1>1. /\ held[c] = NoPage
        /\ p < numPages
        /\ pageTable[p] = NoFrame
        /\ numPages' = numPages
    BY DEF FetchFromDisk
  <1>2. PICK f \in Frames :
          /\ Evicts(f)
          /\ QueuesAfterEviction(f)
          /\ disk' = DiskAfterEviction(f)
          /\ Load(f, p, disk'[p])
          /\ Handed(c, p, f)
    BY DEF FetchFromDisk
  <1>3. DiskAfterEviction(f) \in [PageIds -> Data]
    BY <1>2, EvictFacts
  <1>4. disk' \in [PageIds -> Data] /\ disk'[p] \in Data
    BY <1>2, <1>3
  <1>5. PICK x \in Data : x = disk'[p]
    BY <1>4
  <1>6. /\ Load(f, p, x)
        /\ disk'[p] = x
        /\ \A q \in PageIds : q # p => disk'[q] = DiskAfterEviction(f)[q]
    BY <1>2, <1>5
  <1>7. numPages' \in 0..MaxPages /\ p < numPages' /\ numPages' >= numPages
    BY SMTT(30), <1>1 DEF PoolInv, TypeOK
  <1> QED
    BY <1>1, <1>2, <1>4, <1>6, <1>7, LoadStep

\* new_page evicts and hands out a page of zeros.
LEMMA NewPageStep ==
  ASSUME PoolInv, NEW c \in Callers, NewPage(c)
  PROVE  PoolInv'
  <1> USE PoolAssumption
  <1>1. held[c] = NoPage /\ numPages \in PageIds /\ numPages' = numPages + 1
    BY DEF NewPage
  <1>2. PICK f \in Frames :
          /\ Evicts(f)
          /\ QueuesAfterEviction(f)
          /\ disk' = [DiskAfterEviction(f) EXCEPT ![numPages] = Zero]
          /\ Load(f, numPages, Zero)
          /\ Handed(c, numPages, f)
    BY DEF NewPage
  <1>3. PICK p \in PageIds : p = numPages
    BY <1>1
  <1>4. DiskAfterEviction(f) \in [PageIds -> Data]
    BY <1>2, EvictFacts
  <1>5. /\ disk' \in [PageIds -> Data]
        /\ disk'[p] = Zero
        /\ \A q \in PageIds : q # p => disk'[q] = DiskAfterEviction(f)[q]
    BY <1>2, <1>3, <1>4
  <1>6. pageTable[p] = NoFrame
    BY SMTT(30), <1>3 DEF PoolInv, TableInv, PageIds
  <1>7. numPages' \in 0..MaxPages /\ p < numPages' /\ numPages' >= numPages
    BY SMTT(30), <1>1, <1>3 DEF PageIds
  <1>8. Load(f, p, Zero) /\ Handed(c, p, f)
    BY <1>2, <1>3
  <1> QED
    BY <1>1, <1>2, <1>5, <1>6, <1>7, <1>8, LoadStep

\* fetch_page of a page that does not exist evicts a frame and loses it.
LEMMA FetchMissingStep ==
  ASSUME PoolInv, NEW p \in PageIds, FetchMissing(p)
  PROVE  PoolInv'
  <1> USE PoolAssumption
  <1>1. PICK f \in Frames :
          /\ Evicts(f)
          /\ QueuesAfterEviction(f)
          /\ disk' = DiskAfterEviction(f)
          /\ pageTable' = TableAfterEviction(f)
    BY DEF FetchMissing
  <1>2. /\ MissingFetches
        /\ UNCHANGED <<numPages, framePage, frameData, pinCount, dirty, held, ref, wrote>>
    BY DEF FetchMissing, frameVars, callerVars
  <1>3. /\ pinCount[f] = 0
        /\ freeFrames' = freeFrames \ {f}
        /\ lru' \in Seq(Frames)
        /\ QueueInv'
        /\ \A g \in Frames : InLru(g)' <=> InLru(g) /\ g # f
        /\ pageTable' \in [PageIds -> Frames \cup {NoFrame}]
        /\ \A q \in PageIds : pageTable'[q] = IF pageTable[q] = f THEN NoFrame ELSE pageTable[q]
        /\ disk' \in [PageIds -> Data]
        /\ \A q \in PageIds : disk'[q] = IF pageTable[q] = f THEN frameData[f] ELSE disk[q]
    BY <1>1, EvictFacts, ZenonT(60)
  <1>4. TypeOK'
    BY <1>2, <1>3 DEF PoolInv, TypeOK
  <1>5. TableInv'
    BY SMTT(30), <1>2, <1>3 DEF PoolInv, TableInv
  <1>6. FrameInv'
    <2>1. \A g \in Frames : Resident(g)' <=> Resident(g) /\ g # f
      BY SMTT(30), <1>2, <1>3 DEF Resident
    <2>2. /\ MissingFetches /\ pinCount' = pinCount /\ freeFrames' = freeFrames \ {f}
          /\ \A g \in Frames : InLru(g)' <=> InLru(g) /\ g # f
      BY <1>2, <1>3, Zenon
    <2>3. pinCount[f] = 0 /\ FrameInv
      BY <1>3 DEF PoolInv
    <2> QED
      BY SMTT(30), <2>1, <2>2, <2>3 DEF FrameInv
  <1>7. PinInv'
    <2>1. \A g \in Frames : Holders(g)' = Holders(g)
      BY <1>2 DEF Holders
    <2>2. ASSUME NEW d \in Callers, held[d] # NoPage
          PROVE  ref[d] # NoFrame /\ pageTable'[held[d]] = ref[d]
      <3>1. held[d] \in PageIds /\ ref[d] \in Frames /\ pageTable[held[d]] = ref[d] /\ ref[d] # f
        BY <1>3, <2>2, HolderFacts, UnpinnedUnheld
      <3> QED
        BY <1>3, <3>1
    <2> QED
      BY <1>2, <2>1, <2>2 DEF PoolInv, PinInv
  <1>8. CleanInv'
    BY <1>2, <1>3 DEF PoolInv, CleanInv
  <1> QED
    BY <1>3, <1>4, <1>5, <1>6, <1>7, <1>8 DEF PoolInv

\* new_page with every frame pinned grows the file and nothing else.
LEMMA NewPageRaisesStep ==
  ASSUME PoolInv, NewPageRaises
  PROVE  PoolInv'
  <1> USE PoolAssumption
  <1>1. /\ numPages \in PageIds
        /\ numPages' = numPages + 1
        /\ disk' = [disk EXCEPT ![numPages] = Zero]
        /\ UNCHANGED <<framePage, frameData, pinCount, dirty, pageTable, freeFrames, lru, held, ref, wrote>>
    BY DEF NewPageRaises, frameVars, callerVars
  <1>2. pageTable[numPages] = NoFrame /\ disk[numPages] = Zero
    BY SMTT(30), <1>1 DEF PoolInv, TableInv, PageIds
  <1>3. disk' = disk
    BY <1>1, <1>2 DEF PoolInv, TypeOK
  <1>4. TypeOK'
    BY SMTT(30), <1>1, <1>3 DEF PoolInv, TypeOK, PageIds
  <1>5. TableInv'
    BY SMTT(30), <1>1, <1>3 DEF PoolInv, TableInv, PageIds
  <1>6. FrameInv' /\ QueueInv'
    BY <1>1 DEF PoolInv, FrameInv, QueueInv, Resident, InLru
  <1>7. PinInv'
    BY <1>1 DEF PoolInv, PinInv, Holders
  <1>8. CleanInv'
    BY <1>1, <1>3 DEF PoolInv, CleanInv
  <1> QED
    BY <1>4, <1>5, <1>6, <1>7, <1>8 DEF PoolInv

\* A caller writes in place in the frame it holds.
LEMMA WriteStep ==
  ASSUME PoolInv, NEW c \in Callers, NEW x \in Data, Write(c, x)
  PROVE  PoolInv'
  <1> USE PoolAssumption
  <1>1. /\ held[c] # NoPage
        /\ frameData' = [frameData EXCEPT ![ref[c]] = x]
        /\ wrote' = [wrote EXCEPT ![c] = TRUE]
        /\ UNCHANGED <<numPages, disk, framePage, pinCount, dirty, pageTable, freeFrames, lru, held, ref>>
    BY DEF Write, diskVars
  <1>2. /\ held[c] \in PageIds
        /\ ref[c] \in Frames
        /\ pageTable[held[c]] = ref[c]
        /\ framePage[ref[c]] = held[c]
    BY <1>1, HolderFacts
  <1>3. TypeOK'
    BY <1>1, <1>2 DEF PoolInv, TypeOK
  <1>4. TableInv' /\ FrameInv' /\ QueueInv'
    BY <1>1 DEF PoolInv, TableInv, FrameInv, QueueInv, Resident, InLru
  <1>5. PinInv'
    <2>1. \A d \in Callers : wrote'[d] <=> d = c \/ wrote[d]
      BY <1>1 DEF PoolInv, TypeOK
    <2>2. \A g \in Frames : Holders(g)' = Holders(g)
      BY <1>1 DEF Holders
    <2> QED
      BY <1>1, <2>1, <2>2 DEF PoolInv, PinInv
  <1>6. CleanInv'
    <2> SUFFICES ASSUME NEW q \in PageIds, pageTable[q] # NoFrame, ~dirty[pageTable[q]],
                        \A d \in Callers : held[d] = q => ~wrote'[d]
                 PROVE  frameData'[pageTable[q]] = disk[q]
      BY <1>1 DEF CleanInv
    <2>1. held[c] # q
      BY <1>1 DEF PoolInv, TypeOK
    <2>2. pageTable[q] # ref[c]
      BY <1>2, <2>1 DEF PoolInv, TableInv
    <2>3. frameData'[pageTable[q]] = frameData[pageTable[q]]
      BY <1>1, <2>2 DEF PoolInv, TypeOK
    <2>4. \A d \in Callers : held[d] = q => ~wrote[d]
      BY <1>1 DEF PoolInv, TypeOK
    <2> QED
      BY <2>3, <2>4 DEF PoolInv, CleanInv
  <1> QED
    BY <1>3, <1>4, <1>5, <1>6 DEF PoolInv

\* unpin_page queues the frame when its last pin goes, and keeps it dirty once it is.
LEMMA UnpinStep ==
  ASSUME PoolInv, NEW c \in Callers, NEW b \in BOOLEAN, Unpin(c, b)
  PROVE  PoolInv'
  <1> USE PoolAssumption
  <1>1. held[c] # NoPage /\ (wrote[c] => b)
    BY DEF Unpin
  <1>2. /\ held[c] \in PageIds
        /\ ref[c] \in Frames
        /\ pageTable[held[c]] = ref[c]
        /\ framePage[ref[c]] = held[c]
    BY <1>1, HolderFacts
  <1>3. PICK f \in Frames : f = ref[c]
    BY <1>2
  <1>4. PICK p \in PageIds : p = held[c]
    BY <1>2
  <1>5. pinCount[f] \in Nat \ {0} /\ IsFiniteSet(Holders(f))
    <2>1. c \in Holders(f)
      BY <1>3 DEF Holders
    <2> QED
      BY <2>1, HolderCount
  <1>6. /\ dirty' = [dirty EXCEPT ![f] = dirty[f] \/ b]
        /\ pinCount' = [pinCount EXCEPT ![f] = pinCount[f] - 1]
        /\ lru' = IF pinCount[f] - 1 = 0 /\ ~InLru(f) THEN Append(lru, f) ELSE lru
        /\ LetGo(c)
        /\ UNCHANGED <<numPages, disk, framePage, frameData, pageTable, freeFrames>>
    <2>1. pageTable[held[c]] = f /\ f # NoFrame
      BY <1>2, <1>3
    <2>2. (IF pinCount[f] > 0 THEN pinCount[f] - 1 ELSE 0) = pinCount[f] - 1
      BY SMTT(30), <1>5
    <2> QED
      BY <2>1, <2>2 DEF Unpin, diskVars
  <1>7. Resident(f) /\ ~InLru(f)
    BY <1>2, <1>3, <1>5 DEF PoolInv, FrameInv, Resident
  <1>8. /\ lru' \in Seq(Frames)
        /\ QueueInv'
        /\ \A g \in Frames : InLru(g)' <=> InLru(g) \/ (g = f /\ pinCount[f] = 1)
    <2>1. CASE pinCount[f] = 1
      <3>1. lru' = Append(lru, f)
        BY SMTT(30), <1>6, <1>7, <2>1
      <3> QED
        BY <1>7, <2>1, <3>1, QueueAppend DEF PoolInv, TypeOK
    <2>2. CASE pinCount[f] # 1
      <3>1. lru' = lru
        BY SMTT(30), <1>5, <1>6, <2>2
      <3> QED
        BY <2>2, <3>1 DEF PoolInv, TypeOK, QueueInv, InLru
    <2> QED
      BY <2>1, <2>2
  <1>9. /\ \A g \in Frames : pinCount'[g] = IF g = f THEN pinCount[g] - 1 ELSE pinCount[g]
        /\ \A d \in Callers : held'[d] = IF d = c THEN NoPage ELSE held[d]
        /\ \A d \in Callers : ref'[d] = IF d = c THEN NoFrame ELSE ref[d]
        /\ \A d \in Callers : wrote'[d] <=> (d # c /\ wrote[d])
        /\ \A g \in Frames : dirty'[g] <=> dirty[g] \/ (g = f /\ b)
    BY <1>6 DEF PoolInv, TypeOK, LetGo
  <1>10. TypeOK'
    BY SMTT(30), <1>5, <1>6, <1>8 DEF PoolInv, TypeOK, LetGo
  <1>11. TableInv'
    BY <1>6 DEF PoolInv, TableInv
  <1>12. FrameInv'
    <2>1. \A g \in Frames : Resident(g)' <=> Resident(g)
      BY <1>6 DEF Resident
    <2>2. \A g \in Frames : g \in freeFrames' <=> g \in freeFrames
      BY <1>6
    <2> SUFFICES ASSUME NEW g \in Frames
                 PROVE  /\ g \in freeFrames' => pinCount'[g] = 0 /\ ~Resident(g)'
                        /\ InLru(g)' <=> Resident(g)' /\ pinCount'[g] = 0
                        /\ pinCount'[g] > 0 => Resident(g)'
                        /\ ~MissingFetches /\ ~Resident(g)' => g \in freeFrames'
      BY DEF FrameInv
    <2>3. CASE g = f
      <3>1. pinCount'[f] = pinCount[f] - 1 /\ (InLru(f)' <=> pinCount[f] = 1) /\ Resident(f)'
        BY <1>7, <1>8, <1>9, <2>1
      <3>2. f \notin freeFrames'
        BY <1>7, <2>2 DEF PoolInv, FrameInv
      <3> QED
        BY SMTT(30), <1>5, <2>3, <3>1, <3>2
    <2>4. CASE g # f
      <3>1. pinCount'[g] = pinCount[g] /\ (InLru(g)' <=> InLru(g))
        BY <1>8, <1>9, <2>4
      <3> QED
        BY <2>1, <2>2, <3>1 DEF PoolInv, FrameInv
    <2> QED
      BY <2>3, <2>4
  <1>13. PinInv'
    <2>1. ASSUME NEW g \in Frames, g # f
          PROVE  Holders(g)' = Holders(g)
      BY SMTT(30), <1>3, <1>9, <2>1 DEF Holders
    <2>2. Holders(f)' = Holders(f) \ {c} /\ c \in Holders(f)
      BY SMTT(30), <1>3, <1>9 DEF Holders
    <2>3. Cardinality(Holders(f)') = Cardinality(Holders(f)) - 1
      BY <1>5, <2>2, FS_RemoveElement
    <2>4. \A g \in Frames : pinCount'[g] = Cardinality(Holders(g)')
      <3> TAKE g \in Frames
      <3>1. pinCount[g] = Cardinality(Holders(g))
        BY DEF PoolInv, PinInv
      <3>2. CASE g = f
        BY <1>9, <2>3, <3>1, <3>2
      <3>3. CASE g # f
        BY <1>9, <2>1, <3>1, <3>3
      <3> QED
        BY <3>2, <3>3
    <2>5. \A d \in Callers :
            IF held'[d] = NoPage THEN ref'[d] = NoFrame /\ ~wrote'[d]
                                 ELSE ref'[d] # NoFrame /\ pageTable'[held'[d]] = ref'[d]
      <3> TAKE d \in Callers
      <3>1. CASE d = c
        BY <1>9, <3>1
      <3>2. CASE d # c
        <4>1. held'[d] = held[d] /\ ref'[d] = ref[d] /\ (wrote'[d] <=> wrote[d]) /\ pageTable' = pageTable
          BY <1>6, <1>9, <3>2
        <4>2. IF held[d] = NoPage THEN ref[d] = NoFrame /\ ~wrote[d]
                                  ELSE ref[d] # NoFrame /\ pageTable[held[d]] = ref[d]
          BY DEF PoolInv, PinInv
        <4> QED
          BY <4>1, <4>2
      <3> QED
        BY <3>1, <3>2
    <2> QED
      BY <2>4, <2>5 DEF PinInv
  <1>14. CleanInv'
    <2> SUFFICES ASSUME NEW q \in PageIds, pageTable[q] # NoFrame, ~dirty'[pageTable[q]],
                        \A d \in Callers : held'[d] = q => ~wrote'[d]
                 PROVE  frameData[pageTable[q]] = disk[q]
      BY <1>6 DEF CleanInv
    <2>1. pageTable[q] \in Frames
      BY DEF PoolInv, TypeOK
    <2>2. ~dirty[pageTable[q]]
      BY <1>9, <2>1
    <2>3. held[c] = q => ~b
      BY <1>2, <1>3, <1>9
    <2>4. \A d \in Callers : held[d] = q => ~wrote[d]
      BY SMTT(30), <1>1, <1>9, <2>3
    <2> QED
      BY <2>2, <2>4 DEF PoolInv, CleanInv
  <1> QED
    BY <1>8, <1>10, <1>11, <1>12, <1>13, <1>14 DEF PoolInv

\* flush_page and flush_all: what is written to the file is what is in the frames.
LEMMA FlushesStep ==
  ASSUME PoolInv, NEW P \in SUBSET PageIds, Flushes(P)
  PROVE  PoolInv'
  <1> USE PoolAssumption
  <1>1. /\ \A p \in PageIds : disk'[p] = IF p \in P /\ Dirty(p) THEN frameData[pageTable[p]] ELSE disk[p]
        /\ \A f \in Frames : dirty'[f] <=> dirty[f] /\ ~\E p \in P : pageTable[p] = f
        /\ UNCHANGED <<numPages, framePage, frameData, pinCount, pageTable, freeFrames, lru, held, ref, wrote>>
    BY DEF Flushes, callerVars
  <1>2. TypeOK'
    <2>1. \A p \in PageIds : Dirty(p) => frameData[pageTable[p]] \in Data
      BY DEF PoolInv, TypeOK, Dirty
    <2>2. disk' \in [PageIds -> Data] /\ dirty' \in [Frames -> BOOLEAN]
      BY <2>1 DEF Flushes, PoolInv, TypeOK
    <2> QED
      BY <1>1, <2>2 DEF PoolInv, TypeOK
  <1>3. TableInv'
    BY <1>1 DEF PoolInv, TableInv, Dirty
  <1>4. FrameInv' /\ QueueInv'
    BY SMTT(30), <1>1 DEF PoolInv, FrameInv, QueueInv, Resident, InLru
  <1>5. PinInv'
    <2>1. UNCHANGED <<pinCount, pageTable, held, ref, wrote>>
      BY <1>1
    <2> QED
      BY <2>1 DEF PoolInv, PinInv, Holders
  <1>6. CleanInv'
    <2> SUFFICES ASSUME NEW q \in PageIds, pageTable[q] # NoFrame, ~dirty'[pageTable[q]],
                        \A d \in Callers : held[d] = q => ~wrote[d]
                 PROVE  frameData[pageTable[q]] = disk'[q]
      BY <1>1 DEF CleanInv
    <2>1. pageTable[q] \in Frames /\ framePage[pageTable[q]] = q
      BY DEF PoolInv, TypeOK, TableInv
    <2>2. CASE dirty[pageTable[q]]
      <3>1. PICK p \in P : pageTable[p] = pageTable[q]
        BY <1>1, <2>1, <2>2
      <3>2. p = q
        BY <2>1, <3>1 DEF PoolInv, TableInv
      <3> QED
        BY <1>1, <2>2, <3>1, <3>2 DEF Dirty
    <2>3. CASE ~dirty[pageTable[q]]
      BY <1>1, <2>3 DEF PoolInv, CleanInv, Dirty
    <2> QED
      BY <2>2, <2>3
  <1> QED
    BY <1>2, <1>3, <1>4, <1>5, <1>6 DEF PoolInv

\* Every step keeps the bookkeeping truthful.
LEMMA PoolStep == PoolInv /\ [Next]_poolVars => PoolInv'
  <1> SUFFICES ASSUME PoolInv, [Next]_poolVars
               PROVE  PoolInv'
    OBVIOUS
  <1>1. ASSUME NEW c \in Callers, NEW p \in PageIds, FetchResident(c, p) \/ FetchFromDisk(c, p)
        PROVE  PoolInv'
    BY <1>1, FetchResidentStep, FetchFromDiskStep
  <1>2. ASSUME NEW p \in PageIds, FetchMissing(p) \/ Flushes({p})
        PROVE  PoolInv'
    BY <1>2, FetchMissingStep, FlushesStep
  <1>3. ASSUME NEW c \in Callers, NewPage(c)
        PROVE  PoolInv'
    BY <1>3, NewPageStep
  <1>4. CASE NewPageRaises
    BY <1>4, NewPageRaisesStep
  <1>5. ASSUME NEW c \in Callers, NEW x \in Data, Write(c, x)
        PROVE  PoolInv'
    BY <1>5, WriteStep
  <1>6. ASSUME NEW c \in Callers, NEW b \in BOOLEAN, Unpin(c, b)
        PROVE  PoolInv'
    BY <1>6, UnpinStep
  <1>7. CASE FlushAll
    BY <1>7, FlushesStep DEF FlushAll
  <1>8. CASE UNCHANGED poolVars
    <2>1. /\ UNCHANGED <<numPages, disk, framePage, frameData, pinCount, dirty>>
          /\ UNCHANGED <<pageTable, freeFrames, lru, held, ref, wrote>>
      BY <1>8 DEF poolVars, diskVars, frameVars, callerVars
    <2>2. TypeOK' /\ TableInv'
      BY <2>1 DEF PoolInv, TypeOK, TableInv
    <2>3. FrameInv' /\ QueueInv'
      BY <2>1 DEF PoolInv, FrameInv, QueueInv, Resident, InLru
    <2>4. PinInv' /\ CleanInv'
      BY <2>1 DEF PoolInv, PinInv, CleanInv, Holders
    <2> QED
      BY <2>2, <2>3, <2>4 DEF PoolInv
  <1> QED
    BY <1>1, <1>2, <1>3, <1>4, <1>5, <1>6, <1>7, <1>8 DEF Next

-----------------------------------------------------------------------------
(* Theorems *)

\* The page table, the free list, the queue, the pin counts and the dirty flags
\* tell the truth about the frames, whatever the callers of the pool do.
THEOREM PoolInvariance == Spec => []PoolInv
  <1>1. Init => PoolInv
    BY InitPool
  <1>2. PoolInv /\ [Next]_poolVars => PoolInv'
    BY PoolStep
  <1> QED
    BY <1>1, <1>2, PTL DEF Spec

\* No caller's page is evicted while it holds it, so the bytes it was handed are
\* those of its page.
THEOREM HeldPages == Spec => []HeldPagesStay
  <1>1. PoolInv => HeldPagesStay
    <2> SUFFICES ASSUME PoolInv, NEW c \in Callers, held[c] # NoPage
                 PROVE  /\ pageTable[held[c]] = ref[c]
                        /\ ref[c] # NoFrame
                        /\ pinCount[ref[c]] > 0
      BY DEF HeldPagesStay
    <2>1. ref[c] \in Frames /\ pageTable[held[c]] = ref[c]
      BY HolderFacts
    <2>2. c \in Holders(ref[c])
      BY DEF Holders
    <2>3. pinCount[ref[c]] \in Nat \ {0}
      BY <2>1, <2>2, HolderCount
    <2>4. ref[c] # NoFrame
      BY <2>1, PoolAssumption
    <2>5. pinCount[ref[c]] > 0
      BY SMTT(30), <2>3
    <2> QED
      BY <2>1, <2>4, <2>5
  <1> QED
    BY <1>1, PoolInvariance, PTL

\* No frame is ever lost but to a fetch of a page that does not exist: without such
\* fetches new_page and fetch_page raise BufferPoolFullError only when every frame is
\* pinned.
THEOREM Capacity == Spec => []FullOnlyWhenPinned
  <1>1. PoolInv => FullOnlyWhenPinned
    <2> SUFFICES ASSUME PoolInv, NoneToEvict, NEW f \in Frames
                 PROVE  pinCount[f] > 0 \/ Lost(f)
      BY DEF FullOnlyWhenPinned
    <2>1. f \notin freeFrames /\ ~InLru(f)
      BY SMTT(30) DEF NoneToEvict, InLru
    <2> QED
      BY SMTT(30), <2>1 DEF PoolInv, FrameInv, TypeOK, Lost
  <1> QED
    BY <1>1, PoolInvariance, PTL

\* After flush_all the file holds every page as it is, but for what a caller that
\* still holds the page has written and not yet declared.
THEOREM FlushDurable == Spec => FlushReachesDisk
  <1>1. PoolInv /\ [Next]_poolVars =>
          [FlushAll => \A p \in PageIds :
             (\A c \in Callers : held[c] = p => ~wrote[c]) => disk'[p] = Current(p)]_poolVars
    <2> SUFFICES ASSUME PoolInv, FlushAll, NEW p \in PageIds, \A c \in Callers : held[c] = p => ~wrote[c]
                 PROVE  disk'[p] = Current(p)
      OBVIOUS
    <2>1. disk'[p] = IF Dirty(p) THEN frameData[pageTable[p]] ELSE disk[p]
      BY DEF FlushAll, Flushes
    <2> QED
      BY <2>1 DEF Dirty, Current, PoolInv, CleanInv
  <1> QED
    BY <1>1, PoolInvariance, PTL DEF Spec, FlushReachesDisk

-----------------------------------------------------------------------------
(* Transparency *)

\* The pages that an eviction copies to the file.
Evicted(f) == {p \in PageIds : pageTable[p] = f}

\* A step that evicts frame f and leaves the other frames alone copies the page that
\* was in f to the file and changes no page.
LEMMA EvictionTransparent ==
  ASSUME PoolInv, NEW f \in Frames, Evicts(f), QueuesAfterEviction(f), disk' = DiskAfterEviction(f),
         \A p \in PageIds : \/ pageTable'[p] = TableAfterEviction(f)[p]
                            \/ /\ pageTable[p] = NoFrame
                               /\ pageTable'[p] = f
                               /\ frameData'[f] = disk'[p],
         \A g \in Frames : g # f => frameData'[g] = frameData[g]
  PROVE  /\ Pages!Copy(Evicted(f))
         /\ \A p \in PageIds : Current(p)' = Current(p)
  <1> USE PoolAssumption
  <1>1. /\ \A p \in PageIds : TableAfterEviction(f)[p] = IF pageTable[p] = f THEN NoFrame ELSE pageTable[p]
        /\ disk' \in [PageIds -> Data]
        /\ \A p \in PageIds : disk'[p] = IF pageTable[p] = f THEN frameData[f] ELSE disk[p]
    BY EvictFacts, ZenonT(60)
  <1>2. \A p \in PageIds : disk'[p] = IF p \in Evicted(f) THEN Current(p) ELSE disk[p]
    BY <1>1, ZenonT(60) DEF Evicted, Current
  <1>3. disk' = [p \in PageIds |-> IF p \in Evicted(f) THEN Current(p) ELSE disk[p]]
    BY <1>1, <1>2
  <1>4. Pages!Copy(Evicted(f))
    BY <1>3 DEF Pages!Copy, Evicted
  <1>5. ASSUME NEW p \in PageIds
        PROVE  Current(p)' = Current(p)
    <2>1. pageTable[p] \in Frames \cup {NoFrame}
      BY DEF PoolInv, TypeOK
    <2>2. CASE pageTable'[p] = TableAfterEviction(f)[p]
      <3>1. /\ pageTable'[p] = IF pageTable[p] = f THEN NoFrame ELSE pageTable[p]
            /\ disk'[p] = IF pageTable[p] = f THEN frameData[f] ELSE disk[p]
        BY <1>1, <2>2
      <3>2. CASE pageTable[p] = f
        BY <3>1, <3>2 DEF Current
      <3>3. CASE pageTable[p] # f /\ pageTable[p] \in Frames
        <4>1. frameData'[pageTable[p]] = frameData[pageTable[p]]
          BY <3>3
        <4> QED
          BY <3>1, <3>3, <4>1 DEF Current
      <3>4. CASE pageTable[p] = NoFrame
        BY <3>1, <3>4 DEF Current
      <3> QED
        BY <2>1, <3>2, <3>3, <3>4
    <2>3. CASE pageTable[p] = NoFrame /\ pageTable'[p] = f /\ frameData'[f] = disk'[p]
      <3>1. disk'[p] = disk[p]
        BY <1>1, <2>3
      <3> QED
        BY <2>3, <3>1 DEF Current
    <2> QED
      BY <2>2, <2>3
  <1> QED
    BY <1>4, <1>5

\* Every step of the pool is a step of the page store, or none.
LEMMA TransparentStep == PoolInv /\ [Next]_poolVars => [Pages!Next]_Pages!storeVars
  <1> SUFFICES ASSUME PoolInv, [Next]_poolVars
               PROVE  [Pages!Next]_Pages!storeVars
    OBVIOUS
  <1> USE PoolAssumption
  <1>0. \A f \in Frames : Evicted(f) \in SUBSET PageIds
    BY DEF Evicted
  <1>1. ASSUME NEW c \in Callers, NEW p \in PageIds, FetchResident(c, p)
        PROVE  Pages!Next
    <2>1. /\ held[c] = NoPage
          /\ held' = [held EXCEPT ![c] = p]
          /\ UNCHANGED <<numPages, disk, frameData, pageTable>>
      BY <1>1 DEF FetchResident, Handed, diskVars
    <2>2. p \in 0..(numPages - 1)
      BY SMTT(30), <1>1 DEF FetchResident, PoolInv, TypeOK, TableInv, PageIds
    <2>3. Pages!Hold(c, p)
      BY <2>1, <2>2 DEF Pages!Hold, Current
    <2>4. Pages!Copy({})
      BY <2>1 DEF Pages!Copy, PoolInv, TypeOK
    <2> QED
      BY <2>3, <2>4 DEF Pages!Next
  <1>2. ASSUME NEW c \in Callers, NEW p \in PageIds, FetchFromDisk(c, p)
        PROVE  Pages!Next
    <2>1. PICK f \in Frames :
            /\ Evicts(f)
            /\ QueuesAfterEviction(f)
            /\ disk' = DiskAfterEviction(f)
            /\ Load(f, p, disk'[p])
            /\ Handed(c, p, f)
      BY <1>2 DEF FetchFromDisk
    <2>2. /\ held[c] = NoPage /\ p < numPages /\ pageTable[p] = NoFrame /\ numPages' = numPages
          /\ held' = [held EXCEPT ![c] = p]
      BY <1>2, <2>1 DEF FetchFromDisk, Handed
    <2>3. TableAfterEviction(f) \in [PageIds -> Frames \cup {NoFrame}]
      BY <2>1, EvictFacts
    <2>4. /\ \A q \in PageIds : \/ pageTable'[q] = TableAfterEviction(f)[q]
                                \/ /\ pageTable[q] = NoFrame
                                   /\ pageTable'[q] = f
                                   /\ frameData'[f] = disk'[q]
          /\ \A g \in Frames : g # f => frameData'[g] = frameData[g]
      BY <2>1, <2>2, <2>3 DEF Load, PoolInv, TypeOK
    <2>5. Pages!Copy(Evicted(f)) /\ \A q \in PageIds : Current(q)' = Current(q)
      BY <2>1, <2>4, EvictionTransparent
    <2>6. p \in 0..(numPages - 1)
      BY SMTT(30), <2>2 DEF PoolInv, TypeOK, PageIds
    <2>7. Pages!Hold(c, p)
      BY <2>2, <2>5, <2>6 DEF Pages!Hold
    <2> QED
      BY <1>0, <2>5, <2>7 DEF Pages!Next
  <1>3. ASSUME NEW p \in PageIds, FetchMissing(p)
        PROVE  Pages!Next
    <2>1. PICK f \in Frames :
            /\ Evicts(f)
            /\ QueuesAfterEviction(f)
            /\ disk' = DiskAfterEviction(f)
            /\ pageTable' = TableAfterEviction(f)
      BY <1>3 DEF FetchMissing
    <2>2. UNCHANGED <<numPages, frameData, held>>
      BY <1>3 DEF FetchMissing, frameVars, callerVars
    <2>3. Pages!Copy(Evicted(f)) /\ \A q \in PageIds : Current(q)' = Current(q)
      BY <2>1, <2>2, EvictionTransparent
    <2> QED
      BY <1>0, <2>2, <2>3 DEF Pages!Next
  <1>4. ASSUME NEW p \in PageIds, numPages = p, numPages' = p + 1,
               \A q \in PageIds : Current(q)' = Current(q),
               \/ held' = held
               \/ \E c \in Callers : held[c] = NoPage /\ held' = [held EXCEPT ![c] = p]
        PROVE  Pages!Allocate(p)
    <2>1. p \notin 0..(numPages - 1) /\ 0..(numPages' - 1) = 0..(numPages - 1) \cup {p}
      BY SMTT(30), <1>4 DEF PageIds
    <2>2. Current(p) = Zero
      BY SMTT(30), <1>4 DEF PoolInv, TableInv, Current, PageIds
    <2> QED
      BY <1>4, <2>1, <2>2 DEF Pages!Allocate
  <1>5. ASSUME NEW c \in Callers, NewPage(c)
        PROVE  Pages!Next
    <2>1. PICK f \in Frames :
            /\ Evicts(f)
            /\ QueuesAfterEviction(f)
            /\ disk' = [DiskAfterEviction(f) EXCEPT ![numPages] = Zero]
            /\ Load(f, numPages, Zero)
            /\ Handed(c, numPages, f)
      BY <1>5 DEF NewPage
    <2>2. PICK p \in PageIds : p = numPages
      BY <1>5 DEF NewPage
    <2>3. held[c] = NoPage /\ numPages' = p + 1 /\ held' = [held EXCEPT ![c] = p]
      BY <1>5, <2>1, <2>2 DEF NewPage, Handed
    <2>4. pageTable[p] = NoFrame /\ disk[p] = Zero
      <3>1. TableInv
        BY DEF PoolInv
      <3>2. p >= numPages
        BY SMTT(30), <2>2 DEF PageIds
      <3> QED
        BY <3>1, <3>2 DEF TableInv
    <2>5. /\ TableAfterEviction(f) \in [PageIds -> Frames \cup {NoFrame}]
          /\ DiskAfterEviction(f) \in [PageIds -> Data]
          /\ DiskAfterEviction(f)[p] = Zero
      BY SMTT(30), <2>1, <2>4, EvictFacts
    <2>6. disk' = DiskAfterEviction(f)
      BY <2>1, <2>2, <2>5
    <2>7. /\ \A q \in PageIds : \/ pageTable'[q] = TableAfterEviction(f)[q]
                                \/ /\ pageTable[q] = NoFrame
                                   /\ pageTable'[q] = f
                                   /\ frameData'[f] = disk'[q]
          /\ \A g \in Frames : g # f => frameData'[g] = frameData[g]
      BY <2>1, <2>2, <2>4, <2>5, <2>6 DEF Load, PoolInv, TypeOK
    <2>8. Pages!Copy(Evicted(f)) /\ \A q \in PageIds : Current(q)' = Current(q)
      BY <2>1, <2>6, <2>7, EvictionTransparent
    <2>9. Pages!Allocate(p)
      BY <1>4, <2>2, <2>3, <2>8
    <2> QED
      BY <1>0, <2>8, <2>9 DEF Pages!Next
  <1>6. CASE NewPageRaises
    <2>1. PICK p \in PageIds : p = numPages
      BY <1>6 DEF NewPageRaises
    <2>2. numPages' = p + 1 /\ UNCHANGED <<frameData, pageTable, held>>
      BY <1>6, <2>1 DEF NewPageRaises, frameVars, callerVars
    <2>3. disk' = disk
      BY SMTT(30), <1>6, <2>1 DEF NewPageRaises, PoolInv, TypeOK, TableInv, PageIds
    <2>4. \A q \in PageIds : Current(q)' = Current(q)
      BY <2>2, <2>3 DEF Current
    <2>5. Pages!Allocate(p)
      BY <1>4, <2>1, <2>2, <2>4
    <2>6. Pages!Copy({})
      BY <2>3 DEF Pages!Copy, PoolInv, TypeOK
    <2> QED
      BY <2>5, <2>6 DEF Pages!Next
  <1>7. ASSUME NEW c \in Callers, NEW x \in Data, Write(c, x)
        PROVE  Pages!Next
    <2>1. /\ held[c] # NoPage
          /\ frameData' = [frameData EXCEPT ![ref[c]] = x]
          /\ UNCHANGED <<numPages, disk, pageTable, held>>
      BY <1>7 DEF Write, diskVars
    <2>2. held[c] \in PageIds /\ ref[c] \in Frames /\ pageTable[held[c]] = ref[c] /\ framePage[ref[c]] = held[c]
      BY <2>1, HolderFacts
    <2>3. ASSUME NEW q \in PageIds
          PROVE  Current(q)' = IF q = held[c] THEN x ELSE Current(q)
      BY <2>1, <2>2 DEF Current, PoolInv, TypeOK, TableInv
    <2>4. [q \in PageIds |-> Current(q)]' = [[q \in PageIds |-> Current(q)] EXCEPT ![held[c]] = x]
      BY <2>2, <2>3
    <2>5. Pages!Write(c, x)
      BY <2>1, <2>4 DEF Pages!Write
    <2> QED
      BY <2>5 DEF Pages!Next
  <1>8. ASSUME NEW c \in Callers, NEW b \in BOOLEAN, Unpin(c, b)
        PROVE  Pages!Next
    <2>1. /\ held[c] # NoPage
          /\ held' = [held EXCEPT ![c] = NoPage]
          /\ UNCHANGED <<numPages, disk, frameData, pageTable>>
      BY <1>8 DEF Unpin, LetGo, diskVars
    <2>2. Pages!Release(c)
      BY <2>1 DEF Pages!Release, Current
    <2> QED
      BY <2>2 DEF Pages!Next
  <1>9. ASSUME NEW P \in SUBSET PageIds, Flushes(P)
        PROVE  Pages!Next
    <2>1. /\ disk' = [p \in PageIds |-> IF p \in P /\ Dirty(p) THEN frameData[pageTable[p]] ELSE disk[p]]
          /\ UNCHANGED <<numPages, frameData, pageTable, held>>
      BY <1>9 DEF Flushes, callerVars
    <2> DEFINE Q == {p \in P : Dirty(p)}
    <2>2. Pages!Copy(Q) /\ Q \in SUBSET PageIds
      BY <2>1 DEF Pages!Copy, Dirty, Current
    <2>3. \A q \in PageIds : Current(q)' = Current(q)
      <3> SUFFICES ASSUME NEW q \in PageIds
                   PROVE  Current(q)' = Current(q)
        OBVIOUS
      <3> QED
        BY <2>1 DEF Current, Dirty
    <2> HIDE DEF Q
    <2>4. UNCHANGED <<0..(numPages - 1), [q \in PageIds |-> Current(q)], held>>
      BY <2>1, <2>3
    <2> QED
      BY <2>2, <2>4 DEF Pages!Next
  <1>10. CASE UNCHANGED poolVars
    BY <1>10 DEF poolVars, diskVars, frameVars, callerVars, Pages!storeVars, Current
  <1> QED
    BY <1>1, <1>2, <1>3, <1>5, <1>6, <1>7, <1>8, <1>9, <1>10 DEF Next, FlushAll

\* The pool is transparent: what its callers read and write are pages in memory,
\* and what evictions and flushes put in the file is those pages.
THEOREM Transparency == Spec => ImplementsPageStore
  <1>1. Init => Pages!Init
    BY SMTT(30), PoolAssumption DEF Init, Pages!Init, Current
  <1>2. PoolInv /\ [Next]_poolVars => [Pages!Next]_Pages!storeVars
    BY TransparentStep
  <1> QED
    BY <1>1, <1>2, PoolInvariance, PTL DEF Spec, ImplementsPageStore, Pages!Spec
=============================================================================
