----------------------------- MODULE HeapProofs -----------------------------
(***************************************************************************)
(* Proofs about HeapFile.tla, for every page size, every set of rows and   *)
(* tables and every number of pages, and about HeapDisk.tla: where the     *)
(* process dies, a table of the catalog has its first page.  The lemmas say *)
(* what one operation does to one page; the theorems put them together     *)
(* along the steps of the specifications.                                  *)
(***************************************************************************)
EXTENDS HeapDisk, TLAPS

\* Most leaves need first-order and set reasoning only: they go to Zenon, the others
\* name their prover.
USE ZenonT(30)

\* The slot directory grows by one slot at a time.
LEMMA SlotOffsets ==
  ASSUME NEW m \in Nat, NEW n \in Nat
  PROVE  /\ SlotOffset(n) \in Nat
         /\ SlotOffset(n + 1) = SlotOffset(n) + SlotSize
         /\ m <= n => SlotOffset(m) <= SlotOffset(n)
<1>1. n * SlotSize \in Nat /\ m * SlotSize \in Nat /\ (n + 1) * SlotSize = n * SlotSize + SlotSize
  BY SMTT(30), HeapAssumption
<1>2. ASSUME m <= n PROVE m * SlotSize <= n * SlotSize
  <2>1. PICK d \in Nat : n = m + d
    BY SMTT(30), <1>2
  <2>2. (m + d) * SlotSize = m * SlotSize + d * SlotSize /\ d * SlotSize \in Nat
    BY SMTT(30), HeapAssumption
  <2> QED
    BY SMTT(30), <1>1, <2>1, <2>2
<1> QED
  BY SMTT(30), <1>1, <1>2, HeapAssumption DEF SlotOffset

\* The fields of a slot are numbers.
LEMMA SlotFields ==
  ASSUME NEW s \in Slot
  PROVE  s.off \in Nat /\ s.len \in Nat
BY SMTT(30), HeapAssumption DEF Slot

\* Writing one slot leaves the others as they are.
LEMMA WithSlotOthers ==
  ASSUME NEW slots \in Seq(Slot), NEW i \in 1..(Len(slots) + 1), NEW s \in Slot
  PROVE  /\ WithSlot(slots, i, s) \in Seq(Slot)
         /\ Len(WithSlot(slots, i, s)) = IF i > Len(slots) THEN i ELSE Len(slots)
         /\ WithSlot(slots, i, s)[i] = s
         /\ \A j \in 1..Len(slots) : j # i => WithSlot(slots, i, s)[j] = slots[j]
         /\ WithSlot(slots, i, s) # <<>>
<1> DEFINE n == IF i > Len(slots) THEN i ELSE Len(slots)
<1>1. n \in Nat /\ i \in 1..n /\ \A j \in 1..n : j # i => j \in 1..Len(slots)
  BY SMTT(30)
<1>2. WithSlot(slots, i, s) = [j \in 1..n |-> IF j = i THEN s ELSE slots[j]]
  BY DEF WithSlot
<1>3. \A j \in 1..n : (IF j = i THEN s ELSE slots[j]) \in Slot
  BY SMTT(30), <1>1
<1> HIDE DEF n
<1>4. WithSlot(slots, i, s) \in Seq(Slot) /\ Len(WithSlot(slots, i, s)) = n
  BY SMTT(30), <1>1, <1>2, <1>3
<1>5. n >= 1
  BY SMTT(30), <1>1
<1> QED
  BY SMTT(30), <1>1, <1>2, <1>4, <1>5 DEF n

\* A row longer than the page is never placed, so no row has the length of a deleted slot.
LEMMA FitsBounds ==
  ASSUME NEW pg \in Page, NEW r \in Rows, Fits(pg, r), NEW i \in 1..(Len(pg.slots) + 1), SlotFor(pg, i)
  PROVE  /\ Size[r] \in Nat \ {0} /\ Size[r] <= pg.free /\ Size[r] # Deleted
         /\ pg.free \in 0..PageSize /\ PageSize \in Nat
         /\ pg.slots \in Seq(Slot)
         /\ SlotOffset(i) <= pg.free - Size[r]
         /\ SlotOffset(Len(pg.slots)) <= pg.free - Size[r]
         /\ i \in DOMAIN pg.slots => i \in Free(pg)
<1>1. Size[r] \in Nat \ {0} /\ pg.free \in 0..PageSize /\ PageSize \in Nat /\ pg.slots \in Seq(Slot) /\ SlotSize \in Nat
  BY HeapAssumption DEF Page
<1>2. Len(pg.slots) \in Nat /\ DOMAIN pg.slots = 1..Len(pg.slots)
  BY SMTT(30), <1>1
<1>3. SlotOffset(Len(pg.slots)) \in Nat /\ SlotOffset(Len(pg.slots) + 1) = SlotOffset(Len(pg.slots)) + SlotSize
  BY <1>2, SlotOffsets
<1>4. CASE Free(pg) # {}
  <2>1. i \in Free(pg) /\ i \in 1..Len(pg.slots)
    BY <1>2, <1>4 DEF SlotFor, Free
  <2>2. SlotOffset(i) <= SlotOffset(Len(pg.slots)) /\ SlotOffset(i) \in Nat
    <3>1. i \in Nat /\ i <= Len(pg.slots)
      BY SMTT(30), <1>2, <2>1
    <3> QED
      BY <1>2, <3>1, SlotOffsets
  <2>3. Size[r] <= pg.free - SlotOffset(Len(pg.slots)) - 0
    BY <1>4 DEF Fits
  <2> QED
    BY <1>1, <1>3, <2>1, <2>2, <2>3, SMTT(30) DEF Deleted
<1>5. CASE Free(pg) = {}
  <2>1. i = Len(pg.slots) + 1 /\ i \notin DOMAIN pg.slots
    BY SMTT(30), <1>2, <1>5 DEF SlotFor
  <2>2. Size[r] <= pg.free - SlotOffset(Len(pg.slots)) - SlotSize
    BY <1>5 DEF Fits
  <2> QED
    BY SMTT(30), <1>1, <1>3, <2>1, <2>2 DEF Deleted
<1> QED
  BY <1>4, <1>5

\* The layout of a page with one more row.
LEMMA PlaceLayout ==
  ASSUME NEW pg \in Page, Layout(pg), NEW r \in Rows, Fits(pg, r),
         NEW i \in 1..(Len(pg.slots) + 1), SlotFor(pg, i)
  PROVE  /\ Place(pg, i, r) \in Page
         /\ Layout(Place(pg, i, r))
         /\ LiveSlots(Place(pg, i, r)) = LiveSlots(pg) \cup {i}
         /\ i \notin LiveSlots(pg)
<1> DEFINE new == Place(pg, i, r)
<1>1. /\ Size[r] \in Nat \ {0} /\ Size[r] <= pg.free /\ Size[r] # Deleted
      /\ pg.free \in 0..PageSize /\ PageSize \in Nat
      /\ pg.slots \in Seq(Slot)
      /\ SlotOffset(i) <= pg.free - Size[r]
      /\ SlotOffset(Len(pg.slots)) <= pg.free - Size[r]
      /\ i \in DOMAIN pg.slots => i \in Free(pg)
  BY FitsBounds
<1>2. PICK s \in Slot : s = [off |-> pg.free - Size[r], len |-> Size[r]]
  <2>1. pg.free - Size[r] \in 0..PageSize /\ Size[r] \in Nat
    BY SMTT(30), <1>1
  <2>2. [off |-> pg.free - Size[r], len |-> Size[r]] \in Slot
    BY <2>1 DEF Slot
  <2> QED
    BY <2>2
<1>3. /\ WithSlot(pg.slots, i, s) \in Seq(Slot)
      /\ Len(WithSlot(pg.slots, i, s)) = IF i > Len(pg.slots) THEN i ELSE Len(pg.slots)
      /\ WithSlot(pg.slots, i, s)[i] = s
      /\ \A j \in 1..Len(pg.slots) : j # i => WithSlot(pg.slots, i, s)[j] = pg.slots[j]
  <2>1. pg.slots \in Seq(Slot) /\ i \in 1..(Len(pg.slots) + 1) /\ s \in Slot
    BY <1>1, <1>2
  <2> QED
    BY <2>1, WithSlotOthers, ZenonT(30)
<1>4. /\ new.slots = WithSlot(pg.slots, i, s) /\ new.free = pg.free - Size[r]
      /\ new.next = pg.next /\ new.bytes = PlacedBytes(pg, i, r)
      /\ new = [slots |-> new.slots, free |-> new.free, next |-> new.next, bytes |-> new.bytes]
  BY <1>2 DEF Place
<1>5. new.bytes \in [Byte -> Rows \cup {Blank, SlotByte}]
  BY <1>4 DEF PlacedBytes, Written, Page
<1>6. new \in Page
  <2>1. new.next \in PageIds \cup {INVALID_PAGE_ID} /\ new.free \in 0..PageSize /\ new.slots \in Seq(Slot)
    BY SMTT(30), <1>1, <1>3, <1>4 DEF Page
  <2> HIDE DEF new
  <2> QED
    BY <1>4, <1>5, <2>1 DEF Page
<1> HIDE DEF new
<1>7. DOMAIN pg.slots = 1..Len(pg.slots) /\ DOMAIN new.slots = 1..Len(new.slots)
  BY SMTT(30), <1>1, <1>3, <1>4
<1>8. LiveSlots(new) = LiveSlots(pg) \cup {i} /\ i \notin LiveSlots(pg)
  <2>1. i \in LiveSlots(new)
    BY SMTT(30), <1>1, <1>2, <1>3, <1>4, <1>7 DEF LiveSlots, Free
  <2>2. ASSUME NEW j, j # i PROVE j \in LiveSlots(new) <=> j \in LiveSlots(pg)
    BY SMTT(30), <1>3, <1>4, <1>7, <2>2 DEF LiveSlots, Free
  <2>3. i \notin LiveSlots(pg)
    BY <1>1 DEF LiveSlots
  <2> QED
    BY <2>1, <2>2, <2>3
<1>9. \A j \in LiveSlots(pg) : new.slots[j] = pg.slots[j] /\ pg.slots[j] \in Slot
  BY SMTT(30), <1>1, <1>3, <1>4, <1>7, <1>8 DEF LiveSlots
<1>10. SlotOffset(Len(new.slots)) <= new.free
  BY <1>1, <1>3, <1>4
<1>11. \A j \in LiveSlots(pg) : new.free <= new.slots[j].off /\ new.slots[j].off + new.slots[j].len <= PageSize
                               /\ new.slots[i].off + new.slots[i].len <= new.slots[j].off
  <2> TAKE j \in LiveSlots(pg)
  <2>1. pg.free <= pg.slots[j].off /\ pg.slots[j].off + pg.slots[j].len <= PageSize
    BY DEF Layout
  <2>2. pg.slots[j].off \in Nat /\ pg.slots[j].len \in Nat /\ new.slots[j] = pg.slots[j]
    BY <1>9, SlotFields
  <2>3. new.slots[i].off = pg.free - Size[r] /\ new.slots[i].len = Size[r]
    BY SMTT(30), <1>2, <1>3, <1>4
  <2> QED
    BY SMTT(30), <1>1, <1>4, <2>1, <2>2, <2>3
<1>12. new.free <= new.slots[i].off /\ new.slots[i].off + new.slots[i].len <= PageSize
  BY SMTT(30), <1>1, <1>2, <1>3, <1>4
<1>13. \A j, k \in LiveSlots(new) : j # k => Before(new.slots[j], new.slots[k]) \/ Before(new.slots[k], new.slots[j])
  BY <1>8, <1>9, <1>11 DEF Layout, Before
<1>14. Layout(new)
  BY <1>8, <1>10, <1>11, <1>12, <1>13 DEF Layout
<1> QED
  BY <1>6, <1>8, <1>14 DEF new

\* The bytes of a page after a row was placed: its own, its slot's, and the others as before.
LEMMA PlaceReads ==
  ASSUME NEW pg \in Page, Layout(pg), NEW r \in Rows, Fits(pg, r),
         NEW i \in 1..(Len(pg.slots) + 1), SlotFor(pg, i)
  PROVE  /\ Reads(Place(pg, i, r), i, r)
         /\ \A j \in LiveSlots(pg), x \in Rows : Reads(pg, j, x) => Reads(Place(pg, i, r), j, x)
<1> DEFINE new == Place(pg, i, r)
<1>1. /\ Size[r] \in Nat \ {0} /\ Size[r] <= pg.free /\ Size[r] # Deleted
      /\ pg.free \in 0..PageSize /\ PageSize \in Nat
      /\ pg.slots \in Seq(Slot)
      /\ SlotOffset(i) <= pg.free - Size[r]
      /\ SlotOffset(Len(pg.slots)) <= pg.free - Size[r]
  BY FitsBounds
<1>a. /\ Size[r] \in Nat /\ pg.free \in Nat /\ PageSize \in Nat
      /\ Size[r] <= pg.free /\ pg.free <= PageSize /\ SlotOffset(i) <= pg.free - Size[r]
  BY SMTT(30), <1>1
<1>2. LiveSlots(new) = LiveSlots(pg) \cup {i} /\ i \notin LiveSlots(pg)
  BY PlaceLayout
<1>3. PICK s \in Slot : s = [off |-> pg.free - Size[r], len |-> Size[r]]
  <2>1. pg.free - Size[r] \in 0..PageSize /\ Size[r] \in Nat
    BY SMTT(30), <1>1
  <2>2. [off |-> pg.free - Size[r], len |-> Size[r]] \in Slot
    BY <2>1 DEF Slot
  <2> QED
    BY <2>2
<1>4. /\ WithSlot(pg.slots, i, s)[i] = s
      /\ \A j \in 1..Len(pg.slots) : j # i => WithSlot(pg.slots, i, s)[j] = pg.slots[j]
  <2>1. pg.slots \in Seq(Slot) /\ i \in 1..(Len(pg.slots) + 1) /\ s \in Slot
    BY <1>1, <1>3
  <2> QED
    BY <2>1, WithSlotOthers, ZenonT(30)
<1>5. new.slots = WithSlot(pg.slots, i, s) /\ new.bytes = PlacedBytes(pg, i, r)
  BY <1>3 DEF Place
<1>6. DOMAIN pg.slots = 1..Len(pg.slots) /\ Len(pg.slots) \in Nat
  BY SMTT(30), <1>1
<1>7. SlotOffset(i - 1) \in Nat /\ SlotOffset(i) = SlotOffset(i - 1) + SlotSize /\ SlotSize \in Nat
  <2>1. PICK n \in Nat : n = i - 1 /\ n + 1 = i
    BY SMTT(30), <1>6
  <2> QED
    BY <2>1, SlotOffsets, HeapAssumption
<1>8. \A k \in Byte : new.bytes[k] = IF k \in SlotBytes(i) THEN SlotByte
                                  ELSE IF k \in RowBytes(pg.free - Size[r], Size[r]) THEN r ELSE pg.bytes[k]
  BY <1>5 DEF PlacedBytes, Written
<1> HIDE DEF new
<1>9. \A k \in SlotBytes(i) : k \in Byte /\ new.bytes[k] = SlotByte
  <2>1. \A k \in SlotBytes(i) : k \in Byte
    BY SMTT(30), <1>1, <1>7 DEF SlotBytes, Byte
  <2> QED
    BY <1>8, <2>1
<1>10. \A k \in RowBytes(pg.free - Size[r], Size[r]) : new.bytes[k] = r
  <2>1. \A k \in RowBytes(pg.free - Size[r], Size[r]) : k \in Byte /\ k \notin SlotBytes(i)
    BY <1>7, <1>a, SMTT(30) DEF SlotBytes, RowBytes, Byte
  <2> QED
    BY <1>8, <2>1
<1>11. Reads(new, i, r)
  <2>1. new.slots[i].off = pg.free - Size[r] /\ new.slots[i].len = Size[r]
    BY SMTT(30), <1>3, <1>4, <1>5
  <2> QED
    BY <1>2, <1>9, <1>10, <2>1 DEF Reads
<1>12. ASSUME NEW j \in LiveSlots(pg), NEW x \in Rows, Reads(pg, j, x)
       PROVE  Reads(new, j, x)
  <2>1. j \in 1..Len(pg.slots) /\ j # i /\ new.slots[j] = pg.slots[j] /\ pg.slots[j] \in Slot
    BY SMTT(30), <1>1, <1>2, <1>4, <1>5, <1>6 DEF LiveSlots
  <2>2. pg.slots[j].off \in Nat /\ pg.free <= pg.slots[j].off /\ pg.slots[j].off + Size[x] <= PageSize
        /\ Size[x] \in Nat /\ pg.slots[j].len = Size[x]
    <3>1. pg.slots[j].off \in Nat
      BY <2>1, SlotFields
    <3>2. pg.free <= pg.slots[j].off /\ pg.slots[j].off + pg.slots[j].len <= PageSize
      BY DEF Layout
    <3> QED
      BY <1>12, <3>1, <3>2, HeapAssumption DEF Reads
  <2>3. /\ SlotOffset(j) <= SlotOffset(Len(pg.slots)) /\ SlotOffset(Len(pg.slots)) \in Nat
        /\ SlotOffset(j - 1) \in Nat /\ SlotOffset(j) \in Nat
    <3>1. PICK n \in Nat : n = j - 1
      BY SMTT(30), <2>1
    <3>2. j \in Nat /\ j <= Len(pg.slots)
      BY SMTT(30), <2>1, <1>6
    <3> QED
      BY <1>6, <3>1, <3>2, SlotOffsets
  <2>4. \A k \in SlotBytes(j) : new.bytes[k] = SlotByte
    <3>1. \A k \in SlotBytes(j) : k \in Byte /\ k \notin RowBytes(pg.free - Size[r], Size[r])
      BY SMTT(30), <1>1, <2>3 DEF SlotBytes, RowBytes, Byte
    <3>2. \A k \in SlotBytes(j) : pg.bytes[k] = SlotByte
      BY <1>12 DEF Reads
    <3> QED
      BY <1>8, <3>1, <3>2
  <2>5. \A k \in RowBytes(pg.slots[j].off, Size[x]) : new.bytes[k] = x
    <3>1. \A k \in RowBytes(pg.slots[j].off, Size[x]) :
            k \in Byte /\ k \notin RowBytes(pg.free - Size[r], Size[r]) /\ k \notin SlotBytes(i)
      <4> TAKE k \in RowBytes(pg.slots[j].off, Size[x])
      <4>1. k \in Int /\ pg.slots[j].off <= k /\ k < pg.slots[j].off + Size[x]
        BY SMTT(30), <2>2 DEF RowBytes
      <4>2. k \in Nat /\ pg.free <= k /\ k < PageSize
        BY SMTT(30), <1>a, <2>2, <4>1
      <4> QED
        BY <1>7, <1>a, <4>2, SMTT(30) DEF SlotBytes, RowBytes, Byte
    <3>2. \A k \in RowBytes(pg.slots[j].off, Size[x]) : pg.bytes[k] = x
      BY <1>12 DEF Reads
    <3> QED
      BY <1>8, <3>1, <3>2
  <2> QED
    BY <1>2, <2>1, <2>2, <2>4, <2>5 DEF Reads
<1> QED
  BY <1>11, <1>12 DEF new

\* A page that was just formatted, or never was, is laid out and has no rows.
LEMMA FreshPages ==
  ASSUME 0 \in PageIds
  PROVE  /\ EmptyPage \in Page /\ Layout(EmptyPage) /\ LiveSlots(EmptyPage) = {}
         /\ ZeroPage \in Page /\ Layout(ZeroPage) /\ LiveSlots(ZeroPage) = {}
<1>1. <<>> \in Seq(Slot) /\ DOMAIN <<>> = {}
  BY SMTT(30)
<1>2. [k \in Byte |-> Blank] \in [Byte -> Rows \cup {Blank, SlotByte}]
  OBVIOUS
<1>3. EmptyPage \in Page /\ ZeroPage \in Page
  BY SMTT(30), <1>1, <1>2, HeapAssumption DEF EmptyPage, ZeroPage, Page
<1>4. EmptyPage.slots = <<>> /\ ZeroPage.slots = <<>>
  BY DEF EmptyPage, ZeroPage
<1>5. LiveSlots(EmptyPage) = {} /\ LiveSlots(ZeroPage) = {}
  BY <1>1, <1>4 DEF LiveSlots
<1> QED
  BY <1>3, <1>4, <1>5 DEF Layout

\* The first row of a page that was just formatted: any row insert() does not refuse.
LEMMA FirstRow ==
  ASSUME 0 \in PageIds, NEW r \in Rows, SlotOffset(1) + Size[r] <= PageSize
  PROVE  Fits(EmptyPage, r) /\ SlotFor(EmptyPage, 1) /\ 1 \in 1..(Len(EmptyPage.slots) + 1)
<1>1. EmptyPage.slots = <<>> /\ EmptyPage.free = PageSize /\ Len(<<>>) = 0 /\ DOMAIN <<>> = {}
  BY SMTT(30) DEF EmptyPage
<1>2. Free(EmptyPage) = {}
  BY <1>1 DEF Free
<1>3. SlotOffset(1) = SlotOffset(0) + SlotSize /\ SlotOffset(0) \in Nat
  <2>1. 0 \in Nat /\ 0 + 1 = 1
    BY SMTT(30)
  <2> QED
    BY <2>1, SlotOffsets
<1>4. Size[r] \in Nat /\ PageSize \in Nat /\ SlotSize \in Nat
  BY HeapAssumption
<1>5. Fits(EmptyPage, r)
  <2>1. Size[r] <= PageSize - SlotOffset(0) - SlotSize
    BY SMTT(30), <1>3, <1>4
  <2> QED
    BY <1>1, <1>2, <2>1 DEF Fits
<1> QED
  BY SMTT(30), <1>1, <1>2, <1>5 DEF SlotFor

\* Linking a page to the next leaves its rows as they are.
LEMMA LinkedPage ==
  ASSUME NEW pg \in Page, Layout(pg), NEW q \in PageIds
  PROVE  /\ Linked(pg, q) \in Page /\ Layout(Linked(pg, q))
         /\ LiveSlots(Linked(pg, q)) = LiveSlots(pg)
         /\ \A j \in LiveSlots(pg), x \in Rows : Reads(pg, j, x) => Reads(Linked(pg, q), j, x)
<1> DEFINE new == Linked(pg, q)
<1>1. new.slots = pg.slots /\ new.free = pg.free /\ new.bytes = pg.bytes
  BY DEF Linked
<1>2. new \in Page
  BY DEF Linked, Page
<1> HIDE DEF new
<1>3. LiveSlots(new) = LiveSlots(pg)
  BY <1>1 DEF LiveSlots, Free
<1>4. Layout(new)
  BY <1>1, <1>3 DEF Layout
<1>5. \A j \in LiveSlots(pg), x \in Rows : Reads(pg, j, x) => Reads(new, j, x)
  BY <1>1, <1>3 DEF Reads
<1> QED
  BY <1>2, <1>3, <1>4, <1>5 DEF new

\* Where the slots and the rows of a page are: every slot below the free space, every row above.
LEMMA Extents ==
  ASSUME NEW pg \in Page, Layout(pg), NEW j \in LiveSlots(pg)
  PROVE  /\ j \in 1..Len(pg.slots) /\ pg.slots \in Seq(Slot) /\ DOMAIN pg.slots = 1..Len(pg.slots)
         /\ pg.slots[j] \in Slot /\ pg.slots[j].off \in Nat /\ pg.slots[j].len \in Nat
         /\ pg.free \in Nat /\ PageSize \in Nat /\ pg.free <= pg.slots[j].off
         /\ pg.slots[j].off + pg.slots[j].len <= PageSize
         /\ \A n \in 1..Len(pg.slots) : \A k \in SlotBytes(n) : k \in Byte /\ k < pg.free
<1>1. pg.slots \in Seq(Slot) /\ pg.free \in 0..PageSize /\ PageSize \in Nat
  BY HeapAssumption DEF Page
<1>2. j \in 1..Len(pg.slots) /\ DOMAIN pg.slots = 1..Len(pg.slots) /\ Len(pg.slots) \in Nat
  BY SMTT(30), <1>1 DEF LiveSlots
<1>3. pg.slots[j] \in Slot
  BY SMTT(30), <1>1, <1>2
<1>4. pg.slots[j].off \in Nat /\ pg.slots[j].len \in Nat
  BY <1>3, SlotFields
<1>5. pg.free <= pg.slots[j].off /\ pg.slots[j].off + pg.slots[j].len <= PageSize
  BY DEF Layout
<1>6. SlotOffset(Len(pg.slots)) <= pg.free
  <2>1. pg.slots # <<>>
    BY SMTT(30), <1>1, <1>2
  <2> QED
    BY <2>1 DEF Layout
<1>7. ASSUME NEW n \in 1..Len(pg.slots), NEW k \in SlotBytes(n)
      PROVE  k \in Byte /\ k < pg.free
  <2>1. PICK m \in Nat : m = n - 1
    BY SMTT(30), <1>2
  <2>2. n \in Nat /\ n <= Len(pg.slots)
    BY SMTT(30), <1>2
  <2>3. SlotOffset(m) \in Nat /\ SlotOffset(n) \in Nat /\ SlotOffset(Len(pg.slots)) \in Nat
        /\ SlotOffset(n) <= SlotOffset(Len(pg.slots))
    BY <1>2, <2>2, SlotOffsets
  <2>4. k \in SlotOffset(m)..(SlotOffset(n) - 1)
    BY <2>1 DEF SlotBytes
  <2> QED
    BY SMTT(30), <1>1, <1>6, <2>3, <2>4 DEF Byte
<1> QED
  BY SMTT(30), <1>1, <1>2, <1>3, <1>4, <1>5, <1>7

\* A row overwritten in place: it reads as the new row, and the others as before.
LEMMA OverwriteReads ==
  ASSUME NEW pg \in Page, Layout(pg), NEW i \in LiveSlots(pg), NEW old \in Rows, Reads(pg, i, old),
         NEW r \in Rows, pg.slots[i].len = Size[r]
  PROVE  /\ Overwrite(pg, i, r) \in Page /\ Layout(Overwrite(pg, i, r))
         /\ Reads(Overwrite(pg, i, r), i, r)
         /\ \A j \in LiveSlots(pg), x \in Rows : j # i /\ Reads(pg, j, x) => Reads(Overwrite(pg, i, r), j, x)
<1> DEFINE new == Overwrite(pg, i, r)
           off == pg.slots[i].off
<1>1. new.slots = pg.slots /\ new.free = pg.free /\ new.next = pg.next
      /\ new.bytes = Written(pg.bytes, RowBytes(off, Size[r]), r)
      /\ new = [slots |-> new.slots, free |-> new.free, next |-> new.next, bytes |-> new.bytes]
  BY DEF Overwrite
<1>2. new.bytes \in [Byte -> Rows \cup {Blank, SlotByte}]
  BY <1>1 DEF Written, Page
<1>3. \A k \in Byte : new.bytes[k] = IF k \in RowBytes(off, Size[r]) THEN r ELSE pg.bytes[k]
  BY <1>1 DEF Written
<1> HIDE DEF new
<1>4. new \in Page
  BY <1>1, <1>2 DEF Page
<1>5. LiveSlots(new) = LiveSlots(pg)
  BY <1>1 DEF LiveSlots, Free
<1>6. Layout(new)
  BY <1>1, <1>5 DEF Layout
<1>7. /\ i \in 1..Len(pg.slots) /\ off \in Nat /\ pg.slots[i].len \in Nat /\ pg.free \in Nat /\ PageSize \in Nat
      /\ pg.free <= off /\ off + pg.slots[i].len <= PageSize
      /\ \A n \in 1..Len(pg.slots) : \A k \in SlotBytes(n) : k \in Byte /\ k < pg.free
  BY Extents
<1>8. \A n \in 1..Len(pg.slots) : \A k \in SlotBytes(n) : new.bytes[k] = pg.bytes[k]
  <2> TAKE n \in 1..Len(pg.slots)
  <2> TAKE k \in SlotBytes(n)
  <2>1. k \in Byte /\ k < pg.free /\ k \in Int
    BY SMTT(30), <1>7 DEF Byte
  <2>2. k \notin RowBytes(off, Size[r])
    BY SMTT(30), <1>7, <2>1 DEF RowBytes
  <2> QED
    BY <1>3, <2>1, <2>2
<1>9. Reads(new, i, r)
  <2>1. \A k \in RowBytes(off, Size[r]) : k \in Byte
    BY SMTT(30), <1>7 DEF RowBytes, Byte
  <2>2. \A k \in SlotBytes(i) : new.bytes[k] = SlotByte
    BY <1>7, <1>8 DEF Reads
  <2> QED
    BY <1>1, <1>3, <1>5, <2>1, <2>2 DEF Reads
<1>10. ASSUME NEW j \in LiveSlots(pg), NEW x \in Rows, j # i, Reads(pg, j, x)
       PROVE  Reads(new, j, x)
  <2>1. j \in 1..Len(pg.slots) /\ pg.slots[j].off \in Nat /\ pg.slots[j].len \in Nat
        /\ pg.slots[j].off + pg.slots[j].len <= PageSize
    BY Extents
  <2>2. pg.slots[j].len = Size[x]
    BY <1>10 DEF Reads
  <2>3. off + pg.slots[i].len <= pg.slots[j].off \/ pg.slots[j].off + pg.slots[j].len <= off
    BY <1>10 DEF Layout, Before
  <2>4. \A k \in RowBytes(pg.slots[j].off, Size[x]) : new.bytes[k] = x
    <3> TAKE k \in RowBytes(pg.slots[j].off, Size[x])
    <3>1. k \in Int /\ pg.slots[j].off <= k /\ k < pg.slots[j].off + pg.slots[j].len
      BY SMTT(30), <2>1, <2>2 DEF RowBytes
    <3>2. k \in Byte
      BY SMTT(30), <1>7, <2>1, <3>1 DEF Byte
    <3>3. k \notin RowBytes(off, Size[r])
      <4>1. k \in RowBytes(off, Size[r]) => off <= k /\ k < off + pg.slots[i].len
        BY SMTT(30), <1>7, <3>1 DEF RowBytes
      <4> HIDE DEF off
      <4> QED
        BY <1>7, <2>1, <2>3, <3>1, <4>1, SMTT(30)
    <3> QED
      BY <1>3, <1>10, <3>2, <3>3 DEF Reads
  <2>5. \A k \in SlotBytes(j) : new.bytes[k] = SlotByte
    BY <1>8, <1>10, <2>1 DEF Reads
  <2> QED
    BY <1>1, <1>5, <2>2, <2>4, <2>5 DEF Reads
<1> QED
  BY <1>4, <1>6, <1>9, <1>10 DEF new

\* A slot freed: its row is gone, and the others read as before.
LEMMA FreeSlotReads ==
  ASSUME NEW pg \in Page, Layout(pg), NEW i \in LiveSlots(pg)
  PROVE  /\ FreeSlot(pg, i) \in Page /\ Layout(FreeSlot(pg, i))
         /\ \A j \in LiveSlots(pg), x \in Rows : j # i /\ Reads(pg, j, x) => Reads(FreeSlot(pg, i), j, x)
<1> DEFINE new == FreeSlot(pg, i)
<1>1. /\ i \in 1..Len(pg.slots) /\ pg.slots \in Seq(Slot) /\ DOMAIN pg.slots = 1..Len(pg.slots)
      /\ pg.free \in Nat /\ PageSize \in Nat
      /\ \A n \in 1..Len(pg.slots) : \A k \in SlotBytes(n) : k \in Byte /\ k < pg.free
  BY Extents
<1>2. PICK s \in Slot : s = [off |-> 0, len |-> Deleted]
  <2>1. Deleted \in Nat /\ 0 \in 0..PageSize
    BY SMTT(30), HeapAssumption DEF Deleted
  <2>2. [off |-> 0, len |-> Deleted] \in Slot
    BY <2>1 DEF Slot
  <2> QED
    BY <2>2
<1>3. /\ WithSlot(pg.slots, i, s) \in Seq(Slot)
      /\ Len(WithSlot(pg.slots, i, s)) = IF i > Len(pg.slots) THEN i ELSE Len(pg.slots)
      /\ WithSlot(pg.slots, i, s)[i] = s
      /\ \A j \in 1..Len(pg.slots) : j # i => WithSlot(pg.slots, i, s)[j] = pg.slots[j]
  <2>1. pg.slots \in Seq(Slot) /\ i \in 1..(Len(pg.slots) + 1) /\ s \in Slot
    BY SMTT(30), <1>1, <1>2
  <2> QED
    BY <2>1, WithSlotOthers, ZenonT(30)
<1>4. /\ new.slots = WithSlot(pg.slots, i, s) /\ new.free = pg.free /\ new.next = pg.next
      /\ new.bytes = Written(pg.bytes, SlotBytes(i), SlotByte)
      /\ new = [slots |-> new.slots, free |-> new.free, next |-> new.next, bytes |-> new.bytes]
  BY <1>2 DEF FreeSlot
<1>5. new.bytes \in [Byte -> Rows \cup {Blank, SlotByte}]
      /\ \A k \in Byte : new.bytes[k] = IF k \in SlotBytes(i) THEN SlotByte ELSE pg.bytes[k]
  BY <1>4 DEF Written, Page
<1> HIDE DEF new
<1>6. new \in Page
  BY <1>3, <1>4, <1>5 DEF Page
<1>7. Len(new.slots) = Len(pg.slots) /\ DOMAIN new.slots = 1..Len(pg.slots)
  BY SMTT(30), <1>1, <1>3, <1>4
<1>8. \A j \in LiveSlots(new) : j \in LiveSlots(pg) /\ j # i /\ new.slots[j] = pg.slots[j]
  BY SMTT(30), <1>1, <1>2, <1>3, <1>4, <1>7 DEF LiveSlots, Free
<1>9. Layout(new)
  <2>1. pg.slots # <<>>
    BY SMTT(30), <1>1
  <2>2. SlotOffset(Len(new.slots)) <= new.free
    BY <1>4, <1>7, <2>1 DEF Layout
  <2> QED
    BY <1>4, <1>8, <2>2 DEF Layout
<1>10. ASSUME NEW j \in LiveSlots(pg), NEW x \in Rows, j # i, Reads(pg, j, x)
       PROVE  Reads(new, j, x)
  <2>1. j \in 1..Len(pg.slots) /\ pg.slots[j].off \in Nat /\ pg.slots[j].len \in Nat
        /\ pg.free <= pg.slots[j].off /\ pg.slots[j].off + pg.slots[j].len <= PageSize
    BY Extents
  <2>2. pg.slots[j].len = Size[x]
    BY <1>10 DEF Reads
  <2>3. new.slots[j] = pg.slots[j] /\ j \in LiveSlots(new)
    BY <1>1, <1>3, <1>4, <1>7, <1>10, <2>1 DEF LiveSlots, Free
  <2>4. \A k \in RowBytes(pg.slots[j].off, Size[x]) : new.bytes[k] = x
    <3> TAKE k \in RowBytes(pg.slots[j].off, Size[x])
    <3>1. k \in Int /\ pg.slots[j].off <= k /\ k < pg.slots[j].off + pg.slots[j].len
      BY SMTT(30), <2>1, <2>2 DEF RowBytes
    <3>2. k \in Byte /\ ~(k < pg.free)
      BY SMTT(30), <1>1, <2>1, <3>1 DEF Byte
    <3> QED
      BY <1>1, <1>5, <1>10, <3>2 DEF Reads
  <2>5. \A k \in SlotBytes(j) : new.bytes[k] = SlotByte
    BY <1>1, <1>5, <1>10, <2>1 DEF Reads
  <2> QED
    BY <2>2, <2>3, <2>4, <2>5 DEF Reads
<1> QED
  BY <1>6, <1>9, <1>10 DEF new

-----------------------------------------------------------------------------
(* The steps of the specification *)

HInv == HeapInv /\ RowsReadBack

\* Where a stored row is: in a live slot of a page of the file.
LEMMA StoredAt ==
  ASSUME HInv, NEW u \in Tables, NEW x \in stored[u]
  PROVE  /\ x = <<<<x[1][1], x[1][2]>>, x[2]>>
         /\ x[1][1] \in PageIds /\ x[1][2] \in Nat /\ x[2] \in Rows
         /\ x[1][2] \in LiveSlots(page[x[1][1]]) /\ Reads(page[x[1][1]], x[1][2], x[2])
         /\ page[x[1][1]] \in Page /\ Layout(page[x[1][1]])
<1>1. x \in Rid \X Rows
  BY DEF HInv, HeapInv, TypeOK
<1>2. x = <<<<x[1][1], x[1][2]>>, x[2]>> /\ x[1][1] \in PageIds /\ x[1][2] \in Nat /\ x[2] \in Rows
  BY SMTT(30), <1>1 DEF Rid
<1>3. Reads(page[x[1][1]], x[1][2], x[2])
  BY DEF HInv, RowsReadBack
<1> QED
  BY <1>2, <1>3 DEF Reads, HInv, HeapInv, TypeOK

\* The first state.
LEMMA HeapInit == Init => HInv
<1> SUFFICES ASSUME Init PROVE HInv
  OBVIOUS
<1>1. \A p \in PageIds : 0 \in PageIds
  BY SMTT(30), HeapAssumption DEF PageIds
<1>2. \A p \in PageIds : page[p] \in Page /\ Layout(page[p]) /\ page[p] = ZeroPage
  BY <1>1, FreshPages DEF Init
<1>3. TypeOK
  BY SMTT(30), <1>2, HeapAssumption DEF Init, TypeOK
<1>4. RidsUnique /\ RowsReadBack
  BY DEF Init, RidsUnique, RowsReadBack
<1>5. \A t \in Tables : last[t] < numPages
  BY SMTT(30) DEF Init, NoPage
<1> QED
  BY <1>2, <1>3, <1>4, <1>5 DEF HInv, HeapInv

\* A table is created in a page of its own.
LEMMA CreateStep ==
  ASSUME HInv, NEW t \in Tables, Create(t)
  PROVE  HInv'
<1>1. PICK n \in PageIds : n = numPages
  BY DEF Create
<1>2. 0 \in PageIds /\ MaxPages \in Nat /\ n + 1 \in 0..MaxPages /\ n \in Nat
  BY SMTT(30), HeapAssumption DEF PageIds
<1>3. EmptyPage \in Page /\ Layout(EmptyPage) /\ LiveSlots(ZeroPage) = {}
  BY <1>2, FreshPages
<1>4. TypeOK
  BY DEF HInv, HeapInv
<1>5. page' = [page EXCEPT ![n] = EmptyPage] /\ stored' = stored /\ numPages' = n + 1
      /\ first' = [first EXCEPT ![t] = n] /\ last' = [last EXCEPT ![t] = n]
  BY <1>1 DEF Create
<1>6. TypeOK'
  BY <1>2, <1>3, <1>4, <1>5 DEF TypeOK
<1>7. \A p \in PageIds : Layout(page'[p])
  BY <1>3, <1>4, <1>5 DEF HInv, HeapInv, TypeOK
<1>8. \A u \in Tables : last'[u] < numPages'
  <2>1. \A u \in Tables : last[u] < n /\ last[u] \in Int
    BY SMTT(30), <1>1, <1>4 DEF HInv, HeapInv, TypeOK, PageIds, NoPage
  <2> QED
    BY SMTT(30), <1>2, <1>4, <1>5, <2>1 DEF TypeOK
<1>9. \A p \in PageIds : p >= numPages' => page'[p] = ZeroPage
  <2>1. \A p \in PageIds : p \in Int /\ (p >= n + 1 => p >= n /\ p # n)
    BY SMTT(30), <1>2 DEF PageIds
  <2> QED
    BY <1>1, <1>4, <1>5, <2>1 DEF HInv, HeapInv, TypeOK
<1>10. RidsUnique'
  BY SMTT(30), <1>5 DEF HInv, HeapInv, RidsUnique
<1>11. RowsReadBack'
  <2> SUFFICES ASSUME NEW u \in Tables, NEW x \in stored[u]
               PROVE  Reads(page'[x[1][1]], x[1][2], x[2])
    BY <1>5 DEF RowsReadBack
  <2>1. x[1][1] \in PageIds /\ x[1][2] \in LiveSlots(page[x[1][1]]) /\ Reads(page[x[1][1]], x[1][2], x[2])
    BY StoredAt
  <2>2. page[n] = ZeroPage
    <3>1. n >= numPages
      BY SMTT(30), <1>1, <1>2
    <3> QED
      BY <3>1 DEF HInv, HeapInv
  <2> QED
    BY <1>3, <1>4, <1>5, <2>1, <2>2 DEF TypeOK
<1> QED
  BY <1>6, <1>7, <1>8, <1>9, <1>10, <1>11 DEF HInv, HeapInv

\* Opening a table changes none of its rows: the last page it finds is one of the file,
\* as every page after the end of the file is all zeros and ends no chain.
LEMMA ConstructStep ==
  ASSUME HInv, NEW t \in Tables, Construct(t)
  PROVE  HInv'
<1>1. PICK p \in PageIds : FindsLastPage(t, p) /\ last' = [last EXCEPT ![t] = p]
  BY DEF Construct
<1>2. page' = page /\ stored' = stored /\ numPages' = numPages /\ first' = first
  BY DEF Construct
<1>3. TypeOK
  BY DEF HInv, HeapInv
<1>4. page[p] # ZeroPage
  BY SMTT(30), <1>1 DEF FindsLastPage, ZeroPage, INVALID_PAGE_ID
<1>5. p < numPages
  <2>1. p \in Int /\ numPages \in Int
    BY SMTT(30), <1>3 DEF TypeOK, PageIds
  <2> QED
    BY SMTT(30), <1>4, <2>1 DEF HInv, HeapInv
<1>6. TypeOK'
  BY <1>1, <1>2, <1>3 DEF TypeOK
<1>7. \A u \in Tables : last'[u] < numPages'
  BY <1>1, <1>2, <1>3, <1>5 DEF HInv, HeapInv, TypeOK
<1>8. RidsUnique' /\ RowsReadBack'
  BY SMTT(30), <1>2 DEF HInv, HeapInv, RidsUnique, RowsReadBack
<1> QED
  BY <1>2, <1>6, <1>7, <1>8 DEF HInv, HeapInv

\* A row goes into the last page, in a slot no row has.
LEMMA InsertStep ==
  ASSUME HInv, NEW t \in Tables, NEW r \in Rows, Insert(t, r)
  PROVE  HInv'
<1>1. TypeOK
  BY DEF HInv, HeapInv
<1>2. PICK p \in PageIds : p = last[t]
  BY <1>1 DEF Insert, TypeOK
<1>3. page[p] \in Page /\ Layout(page[p]) /\ Fits(page[p], r)
  BY <1>1, <1>2 DEF Insert, HInv, HeapInv, TypeOK
<1>4. PICK i \in 1..(Len(page[p].slots) + 1) :
        /\ SlotFor(page[p], i)
        /\ page' = [page EXCEPT ![p] = Place(page[p], i, r)]
        /\ stored' = [stored EXCEPT ![t] = stored[t] \cup {<<<<p, i>>, r>>}]
  BY <1>2 DEF Insert, Store
<1>5. numPages' = numPages /\ first' = first /\ last' = last
  BY DEF Insert
<1>6. PICK new \in Page : new = Place(page[p], i, r)
  BY <1>3, <1>4, PlaceLayout
<1>7. Layout(new) /\ i \notin LiveSlots(page[p])
  BY <1>3, <1>4, <1>6, PlaceLayout
<1>8. Reads(new, i, r) /\ \A j \in LiveSlots(page[p]), x \in Rows : Reads(page[p], j, x) => Reads(new, j, x)
  BY <1>3, <1>4, <1>6, PlaceReads
<1>9. page' = [page EXCEPT ![p] = new] /\ i \in Nat
  BY SMTT(30), <1>3, <1>4, <1>6 DEF Page
<1>10. TypeOK'
  <2>1. <<<<p, i>>, r>> \in Rid \X Rows
    BY <1>9 DEF Rid
  <2>2. stored' \in [Tables -> SUBSET (Rid \X Rows)]
    BY <1>1, <1>4, <2>1 DEF TypeOK
  <2> QED
    BY <1>1, <1>5, <1>9, <2>2 DEF TypeOK
<1>11. \A q \in PageIds : Layout(page'[q])
  BY <1>1, <1>7, <1>9 DEF HInv, HeapInv, TypeOK
<1>12. \A q \in PageIds : q >= numPages' => page'[q] = ZeroPage
  <2>1. ~(p >= numPages)
    BY SMTT(30), <1>1, <1>2 DEF HInv, HeapInv, TypeOK, PageIds
  <2> QED
    BY <1>1, <1>5, <1>9, <2>1 DEF HInv, HeapInv, TypeOK
<1>13. \A u \in Tables : \A x \in stored[u] : x[1] # <<p, i>>
  BY SMTT(30), <1>7, StoredAt
<1>14. \A u \in Tables : stored'[u] = IF u = t THEN stored[t] \cup {<<<<p, i>>, r>>} ELSE stored[u]
  BY <1>1, <1>4 DEF TypeOK
<1>15. RidsUnique'
  BY SMTT(30), <1>13, <1>14 DEF HInv, HeapInv, RidsUnique
<1>16. RowsReadBack'
  <2> SUFFICES ASSUME NEW u \in Tables, NEW x \in stored'[u]
               PROVE  Reads(page'[x[1][1]], x[1][2], x[2])
    BY DEF RowsReadBack
  <2>1. CASE x = <<<<p, i>>, r>>
    BY <1>1, <1>8, <1>9, <2>1 DEF TypeOK
  <2>2. CASE x \in stored[u]
    <3>1. x[1][1] \in PageIds /\ x[2] \in Rows /\ x[1][2] \in LiveSlots(page[x[1][1]])
          /\ Reads(page[x[1][1]], x[1][2], x[2])
      BY <2>2, StoredAt
    <3> QED
      BY <1>1, <1>8, <1>9, <3>1 DEF TypeOK
  <2> QED
    BY <1>14, <2>1, <2>2
<1> QED
  BY <1>5, <1>10, <1>11, <1>12, <1>15, <1>16 DEF HInv, HeapInv

\* A row goes into a new page, linked to the one that was full.
LEMMA InsertGrowsStep ==
  ASSUME HInv, NEW t \in Tables, NEW r \in Rows, InsertGrows(t, r)
  PROVE  HInv'
<1>1. TypeOK
  BY DEF HInv, HeapInv
<1>2. PICK p \in PageIds : p = last[t]
  BY <1>1 DEF InsertGrows, TypeOK
<1>3. PICK n \in PageIds : n = numPages
  BY DEF InsertGrows
<1>4. p < n /\ n \in Nat /\ p \in Nat /\ 0 \in PageIds /\ n + 1 \in 0..MaxPages
  BY SMTT(30), <1>2, <1>3, HeapAssumption DEF HInv, HeapInv, PageIds
<1>5. Fits(EmptyPage, r) /\ SlotFor(EmptyPage, 1) /\ 1 \in 1..(Len(EmptyPage.slots) + 1)
  BY <1>4, FirstRow DEF InsertGrows
<1>6. EmptyPage \in Page /\ Layout(EmptyPage) /\ LiveSlots(ZeroPage) = {}
  BY <1>4, FreshPages
<1>7. PICK new \in Page : new = Place(EmptyPage, 1, r)
  BY <1>5, <1>6, PlaceLayout
<1>8. Layout(new) /\ Reads(new, 1, r)
  <2>1. Layout(new)
    BY <1>5, <1>6, <1>7, PlaceLayout
  <2>2. Reads(new, 1, r)
    BY <1>5, <1>6, <1>7, PlaceReads
  <2> QED
    BY <2>1, <2>2
<1>9. page[p] \in Page /\ Layout(page[p])
  BY <1>1 DEF HInv, HeapInv, TypeOK
<1>10. PICK full \in Page : full = Linked(page[p], n)
  BY <1>9, LinkedPage
<1>11. Layout(full) /\ \A j \in LiveSlots(page[p]), x \in Rows : Reads(page[p], j, x) => Reads(full, j, x)
  BY <1>9, <1>10, LinkedPage
<1>12. page' = [page EXCEPT ![n] = new, ![p] = full]
       /\ stored' = [stored EXCEPT ![t] = stored[t] \cup {<<<<n, 1>>, r>>}]
       /\ numPages' = n + 1 /\ first' = first /\ last' = [last EXCEPT ![t] = n]
  BY <1>2, <1>3, <1>7, <1>10 DEF InsertGrows, Store
<1>13. \A q \in PageIds : page'[q] = IF q = p THEN full ELSE IF q = n THEN new ELSE page[q]
  BY <1>1, <1>4, <1>12 DEF TypeOK
<1>14. TypeOK'
  <2>1. <<<<n, 1>>, r>> \in Rid \X Rows
    BY DEF Rid
  <2>2. stored' \in [Tables -> SUBSET (Rid \X Rows)]
    BY <1>1, <1>12, <2>1 DEF TypeOK
  <2> QED
    BY <1>1, <1>4, <1>12, <2>2 DEF TypeOK
<1>15. \A q \in PageIds : Layout(page'[q])
  BY <1>8, <1>11, <1>13 DEF HInv, HeapInv
<1>16. \A u \in Tables : last'[u] < numPages'
  <2>1. \A u \in Tables : last[u] < n /\ last[u] \in Int
    BY SMTT(30), <1>1, <1>3 DEF HInv, HeapInv, TypeOK, PageIds, NoPage
  <2> QED
    BY SMTT(30), <1>1, <1>4, <1>12, <2>1 DEF TypeOK
<1>17. \A q \in PageIds : q >= numPages' => page'[q] = ZeroPage
  <2>1. \A q \in PageIds : q \in Int /\ (q >= n + 1 => q >= n /\ q # n /\ q # p)
    BY SMTT(30), <1>4 DEF PageIds
  <2> QED
    BY <1>3, <1>12, <1>13, <2>1 DEF HInv, HeapInv
<1>18. page[n] = ZeroPage
  BY SMTT(30), <1>3, <1>4 DEF HInv, HeapInv
<1>19. \A u \in Tables : \A x \in stored[u] : x[1][1] # n /\ x[1] # <<n, 1>>
  <2> TAKE u \in Tables
  <2> TAKE x \in stored[u]
  <2>1. x[1][2] \in LiveSlots(page[x[1][1]])
    BY StoredAt
  <2> QED
    BY SMTT(30), <1>6, <1>18, <2>1
<1>20. \A u \in Tables : stored'[u] = IF u = t THEN stored[t] \cup {<<<<n, 1>>, r>>} ELSE stored[u]
  BY <1>1, <1>12 DEF TypeOK
<1>21. RidsUnique'
  BY SMTT(30), <1>19, <1>20 DEF HInv, HeapInv, RidsUnique
<1>22. RowsReadBack'
  <2> SUFFICES ASSUME NEW u \in Tables, NEW x \in stored'[u]
               PROVE  Reads(page'[x[1][1]], x[1][2], x[2])
    BY DEF RowsReadBack
  <2>1. CASE x = <<<<n, 1>>, r>>
    BY SMTT(30), <1>4, <1>8, <1>13, <2>1
  <2>2. CASE x \in stored[u]
    <3>1. x[1][1] \in PageIds /\ x[2] \in Rows /\ x[1][2] \in LiveSlots(page[x[1][1]])
          /\ Reads(page[x[1][1]], x[1][2], x[2])
      BY <2>2, StoredAt
    <3> QED
      BY <1>11, <1>13, <1>19, <2>2, <3>1
  <2> QED
    BY <1>20, <2>1, <2>2
<1> QED
  BY <1>14, <1>15, <1>16, <1>17, <1>21, <1>22 DEF HInv, HeapInv

\* A row is overwritten in place.
LEMMA UpdateInPlaceStep ==
  ASSUME HInv, NEW t \in Tables, NEW p \in PageIds, NEW i \in 1..Len(page[p].slots), NEW old \in Rows,
         NEW r \in Rows, UpdateInPlace(t, p, i, old, r)
  PROVE  HInv'
<1>1. TypeOK
  BY DEF HInv, HeapInv
<1>2. <<<<p, i>>, old>> \in stored[t] /\ page[p].slots[i].len = Size[r]
      /\ page' = [page EXCEPT ![p] = Overwrite(page[p], i, r)]
      /\ stored' = [stored EXCEPT ![t] = (stored[t] \ {<<<<p, i>>, old>>}) \cup {<<<<p, i>>, r>>}]
      /\ numPages' = numPages /\ first' = first /\ last' = last
  BY DEF UpdateInPlace
<1>3. page[p] \in Page /\ Layout(page[p]) /\ i \in Nat
  <2>1. page[p] \in Page
    BY <1>1 DEF TypeOK
  <2>2. Layout(page[p])
    BY DEF HInv, HeapInv
  <2> QED
    BY SMTT(30), <2>1, <2>2
<1>4. i \in LiveSlots(page[p]) /\ Reads(page[p], i, old)
  <2>1. PICK y \in stored[t] : y = <<<<p, i>>, old>>
    BY <1>2
  <2> QED
    BY <2>1, StoredAt
<1>5. PICK new \in Page : new = Overwrite(page[p], i, r)
  BY <1>2, <1>3, <1>4, OverwriteReads
<1>6. Layout(new) /\ Reads(new, i, r)
      /\ \A j \in LiveSlots(page[p]), x \in Rows : j # i /\ Reads(page[p], j, x) => Reads(new, j, x)
  BY <1>2, <1>3, <1>4, <1>5, OverwriteReads
<1>7. \A q \in PageIds : page'[q] = IF q = p THEN new ELSE page[q]
  BY <1>1, <1>2, <1>5 DEF TypeOK
<1>8. TypeOK'
  <2>1. <<<<p, i>>, r>> \in Rid \X Rows
    BY <1>3 DEF Rid
  <2>2. stored' \in [Tables -> SUBSET (Rid \X Rows)]
    BY <1>1, <1>2, <2>1 DEF TypeOK
  <2> QED
    BY <1>1, <1>2, <1>5, <2>2 DEF TypeOK
<1>9. \A q \in PageIds : q >= numPages' => page'[q] = ZeroPage
  <2>1. LiveSlots(ZeroPage) = {}
    BY SMTT(30), HeapAssumption, FreshPages DEF PageIds
  <2>2. ~(p >= numPages)
    BY <1>4, <2>1 DEF HInv, HeapInv
  <2> QED
    BY <1>2, <1>7, <2>2 DEF HInv, HeapInv
<1>10. \A u \in Tables : stored'[u] =
         IF u = t THEN (stored[t] \ {<<<<p, i>>, old>>}) \cup {<<<<p, i>>, r>>} ELSE stored[u]
  BY <1>1, <1>2 DEF TypeOK
<1>11. \A u \in Tables : \A x \in stored[u] : x[1] = <<p, i>> => u = t /\ x = <<<<p, i>>, old>>
  <2>1. PICK y \in stored[t] : y = <<<<p, i>>, old>>
    BY <1>2
  <2>2. RidsUnique
    BY DEF HInv, HeapInv
  <2> QED
    BY SMTT(30), <2>1, <2>2 DEF RidsUnique
<1>12. RidsUnique'
  <2>1. \A u \in Tables : \A x \in stored'[u] :
          (x[1] = <<p, i>> /\ u = t /\ x = <<<<p, i>>, r>>) \/ (x[1] # <<p, i>> /\ x \in stored[u])
    BY SMTT(30), <1>10, <1>11
  <2> QED
    BY SMTT(30), <2>1 DEF HInv, HeapInv, RidsUnique
<1>13. RowsReadBack'
  <2> SUFFICES ASSUME NEW u \in Tables, NEW x \in stored'[u]
               PROVE  Reads(page'[x[1][1]], x[1][2], x[2])
    BY DEF RowsReadBack
  <2>1. CASE x = <<<<p, i>>, r>>
    BY <1>6, <1>7, <2>1
  <2>2. CASE x \in stored[u] /\ x[1] # <<p, i>>
    <3>1. x[1][1] \in PageIds /\ x[2] \in Rows /\ x[1][2] \in LiveSlots(page[x[1][1]])
          /\ Reads(page[x[1][1]], x[1][2], x[2]) /\ x = <<<<x[1][1], x[1][2]>>, x[2]>>
      BY <2>2, StoredAt
    <3>2. x[1][1] = p => x[1][2] # i
      BY SMTT(30), <2>2, <3>1
    <3> QED
      BY <1>6, <1>7, <3>1, <3>2
  <2> QED
    BY <1>10, <1>11, <2>1, <2>2
<1>14. \A q \in PageIds : Layout(page'[q])
  BY <1>6, <1>7 DEF HInv, HeapInv
<1> QED
  BY <1>2, <1>8, <1>9, <1>12, <1>13, <1>14 DEF HInv, HeapInv

\* A slot is freed; the row is no longer there to read.
LEMMA DeleteStep ==
  ASSUME HInv, NEW t \in Tables, NEW p \in PageIds, NEW i \in 1..Len(page[p].slots), NEW old \in Rows,
         Delete(t, p, i, old)
  PROVE  HInv'
<1>1. TypeOK
  BY DEF HInv, HeapInv
<1>2. <<<<p, i>>, old>> \in stored[t] /\ i \in LiveSlots(page[p])
      /\ page' = [page EXCEPT ![p] = FreeSlot(page[p], i)]
      /\ stored' = [stored EXCEPT ![t] = stored[t] \ {<<<<p, i>>, old>>}]
      /\ numPages' = numPages /\ first' = first /\ last' = last
  BY DEF Delete
<1>3. page[p] \in Page /\ Layout(page[p])
  BY <1>1 DEF HInv, HeapInv, TypeOK
<1>4. PICK new \in Page : new = FreeSlot(page[p], i)
  BY <1>2, <1>3, FreeSlotReads
<1>5. Layout(new) /\ \A j \in LiveSlots(page[p]), x \in Rows : j # i /\ Reads(page[p], j, x) => Reads(new, j, x)
  BY <1>2, <1>3, <1>4, FreeSlotReads
<1>6. \A q \in PageIds : page'[q] = IF q = p THEN new ELSE page[q]
  BY <1>1, <1>2, <1>4 DEF TypeOK
<1>7. TypeOK'
  BY <1>1, <1>2, <1>4 DEF TypeOK
<1>8. \A q \in PageIds : q >= numPages' => page'[q] = ZeroPage
  <2>1. LiveSlots(ZeroPage) = {}
    BY SMTT(30), HeapAssumption, FreshPages DEF PageIds
  <2>2. ~(p >= numPages)
    BY <1>2, <2>1 DEF HInv, HeapInv
  <2> QED
    BY <1>2, <1>6, <2>2 DEF HInv, HeapInv
<1>9. \A u \in Tables : \A x \in stored'[u] : x \in stored[u] /\ x[1] # <<p, i>>
  <2>1. PICK y \in stored[t] : y = <<<<p, i>>, old>>
    BY <1>2
  <2>2. \A u \in Tables : \A x \in stored[u] : x[1] = <<p, i>> => u = t /\ x = <<<<p, i>>, old>>
    <3>1. RidsUnique
      BY DEF HInv, HeapInv
    <3> QED
      BY SMTT(30), <2>1, <3>1 DEF RidsUnique
  <2>3. \A u \in Tables : stored'[u] = IF u = t THEN stored[t] \ {<<<<p, i>>, old>>} ELSE stored[u]
    BY <1>1, <1>2 DEF TypeOK
  <2> QED
    BY SMTT(30), <2>2, <2>3
<1>10. RidsUnique'
  BY SMTT(30), <1>9 DEF HInv, HeapInv, RidsUnique
<1>11. RowsReadBack'
  <2> SUFFICES ASSUME NEW u \in Tables, NEW x \in stored'[u]
               PROVE  Reads(page'[x[1][1]], x[1][2], x[2])
    BY DEF RowsReadBack
  <2>1. x[1][1] \in PageIds /\ x[2] \in Rows /\ x[1][2] \in LiveSlots(page[x[1][1]])
        /\ Reads(page[x[1][1]], x[1][2], x[2]) /\ x = <<<<x[1][1], x[1][2]>>, x[2]>>
    BY <1>9, StoredAt
  <2>2. x[1][1] = p => x[1][2] # i
    BY SMTT(30), <1>9, <2>1
  <2> QED
    BY <1>5, <1>6, <2>1, <2>2
<1>12. \A q \in PageIds : Layout(page'[q])
  BY <1>5, <1>6 DEF HInv, HeapInv
<1> QED
  BY <1>2, <1>7, <1>8, <1>10, <1>11, <1>12 DEF HInv, HeapInv

\* Every step keeps the invariant.
LEMMA HeapStep == HInv /\ [Next]_heapVars => HInv'
<1> SUFFICES ASSUME HInv, [Next]_heapVars PROVE HInv'
  OBVIOUS
<1>1. CASE UNCHANGED heapVars
  BY SMTT(30), <1>1 DEF heapVars, HInv, HeapInv, TypeOK, RidsUnique, RowsReadBack
<1>2. CASE Next
  <2>1. PICK t \in Tables :
          \/ Create(t)
          \/ Construct(t)
          \/ \E r \in Rows : Insert(t, r) \/ InsertGrows(t, r)
          \/ \E p \in PageIds : \E i \in 1..Len(page[p].slots) : \E old \in Rows :
               \/ Delete(t, p, i, old)
               \/ \E r \in Rows : UpdateInPlace(t, p, i, old, r)
    BY <1>2 DEF Next
  <2> QED
    BY <2>1, CreateStep, ConstructStep, InsertStep, InsertGrowsStep, UpdateInPlaceStep, DeleteStep
<1> QED
  BY <1>1, <1>2

\* The pages of heap_file.py keep their layout, whatever the page size and the rows.
THEOREM HeapInvariance == Spec => []HeapInv
<1>1. HInv => HeapInv
  BY DEF HInv
<1> QED
  BY <1>1, HeapInit, HeapStep, PTL DEF Spec

\* get() returns the row that was stored, whatever the page size and the rows.
THEOREM RowsIntact == Spec => []RowsReadBack
<1>1. HInv => RowsReadBack
  BY DEF HInv
<1> QED
  BY <1>1, HeapInit, HeapStep, PTL DEF Spec

-----------------------------------------------------------------------------
(* The chains *)

\* A walk along `next' visits the smallest set of pages it cannot leave.
LEMMA WalkLeast ==
  ASSUME NEW pg, NEW p \in PageIds, \A x \in PageIds : pg[x].next \in PageIds \cup {INVALID_PAGE_ID}
  PROVE  /\ p \in PagesFrom(pg, p)
         /\ PagesFrom(pg, p) \subseteq PageIds
         /\ Closed(pg, PagesFrom(pg, p))
         /\ \A S \in SUBSET PageIds : p \in S /\ Closed(pg, S) => PagesFrom(pg, p) \subseteq S
<1>1. ASSUME NEW x \in PagesFrom(pg, p), pg[x].next # INVALID_PAGE_ID
      PROVE  pg[x].next \in PagesFrom(pg, p)
  <2>1. x \in PageIds /\ pg[x].next \in PageIds
    BY <1>1 DEF PagesFrom
  <2>2. ASSUME NEW S \in SUBSET PageIds, p \in S, Closed(pg, S)
        PROVE  pg[x].next \in S
    <3>1. x \in S
      BY <2>2 DEF PagesFrom
    <3> QED
      BY <1>1, <2>2, <3>1 DEF Closed
  <2> QED
    BY <2>1, <2>2 DEF PagesFrom
<1>2. Closed(pg, PagesFrom(pg, p))
  BY <1>1 DEF Closed
<1> QED
  BY <1>2 DEF PagesFrom

\* A walk depends on the links of the pages it visits only.
LEMMA WalkSame ==
  ASSUME NEW pg, NEW qg, NEW p \in PageIds,
         \A x \in PageIds : pg[x].next \in PageIds \cup {INVALID_PAGE_ID},
         \A x \in PageIds : qg[x].next \in PageIds \cup {INVALID_PAGE_ID},
         \A x \in PagesFrom(pg, p) : qg[x].next = pg[x].next
  PROVE  PagesFrom(qg, p) = PagesFrom(pg, p)
<1> DEFINE A == PagesFrom(pg, p)
           B == PagesFrom(qg, p)
<1>1. /\ p \in A /\ A \subseteq PageIds /\ Closed(pg, A)
      /\ \A S \in SUBSET PageIds : p \in S /\ Closed(pg, S) => A \subseteq S
  BY WalkLeast
<1>2. /\ p \in B /\ B \subseteq PageIds /\ Closed(qg, B)
      /\ \A S \in SUBSET PageIds : p \in S /\ Closed(qg, S) => B \subseteq S
  BY WalkLeast
<1> HIDE DEF A, B
<1>3. B \subseteq A
  <2>1. Closed(qg, A)
    BY <1>1 DEF Closed, A
  <2> QED
    BY <1>1, <1>2, <2>1
<1>4. A \subseteq B
  <2>1. Closed(pg, B)
    BY <1>2, <1>3 DEF Closed, A
  <2> QED
    BY <1>1, <1>2, <2>1
<1> QED
  BY <1>3, <1>4 DEF A, B

\* A page linked in behind the last of a walk is the one page the walk gains.
LEMMA WalkGrows ==
  ASSUME NEW pg, NEW qg, NEW p \in PageIds, NEW e \in PagesFrom(pg, p), NEW n \in PageIds,
         \A x \in PageIds : pg[x].next \in PageIds \cup {INVALID_PAGE_ID},
         \A x \in PageIds : qg[x].next \in PageIds \cup {INVALID_PAGE_ID},
         pg[e].next = INVALID_PAGE_ID,
         qg[e].next = n, qg[n].next = INVALID_PAGE_ID,
         \A x \in PagesFrom(pg, p) : x # e => qg[x].next = pg[x].next
  PROVE  PagesFrom(qg, p) = PagesFrom(pg, p) \cup {n}
<1> DEFINE A == PagesFrom(pg, p)
           B == PagesFrom(qg, p)
<1>1. /\ p \in A /\ A \subseteq PageIds /\ Closed(pg, A)
      /\ \A S \in SUBSET PageIds : p \in S /\ Closed(pg, S) => A \subseteq S
  BY WalkLeast
<1>2. /\ p \in B /\ B \subseteq PageIds /\ Closed(qg, B)
      /\ \A S \in SUBSET PageIds : p \in S /\ Closed(qg, S) => B \subseteq S
  BY WalkLeast
<1> HIDE DEF A, B
<1>3. B \subseteq A \cup {n}
  <2>1. Closed(qg, A \cup {n})
    BY <1>1 DEF Closed, A
  <2> QED
    BY <1>1, <1>2, <2>1
<1>4. A \subseteq B
  <2>1. Closed(pg, A \cap B)
    BY <1>1, <1>2 DEF Closed, A
  <2>2. p \in A \cap B /\ A \cap B \in SUBSET PageIds
    BY <1>1, <1>2
  <2> QED
    BY <1>1, <2>1, <2>2
<1>5. n \in B
  <2>1. e \in B /\ n # INVALID_PAGE_ID
    BY SMTT(30), <1>4 DEF A, PageIds, INVALID_PAGE_ID
  <2> QED
    BY <1>2, <2>1 DEF Closed
<1> QED
  BY <1>3, <1>4, <1>5 DEF A, B

\* The invariant behind ScanFindsRows: the chains of the tables have no page in common
\* and end in the page the table appends to; a table's rows are in the pages of its chain,
\* and every live slot of these is a row of the table.
ChainInv ==
  /\ \A t \in Tables : first[t] = NoPage => last[t] = NoPage /\ stored[t] = {}
  /\ \A t \in Tables : first[t] # NoPage =>
       /\ last[t] \in Chain(t) /\ page[last[t]].next = INVALID_PAGE_ID
       /\ \A q \in Chain(t) : q < numPages /\ (page[q].next = INVALID_PAGE_ID => q = last[t])
       /\ \A x \in stored[t] : x[1][1] \in Chain(t)
       /\ \A q \in Chain(t) : \A i \in LiveSlots(page[q]) : \E x \in stored[t] : x[1] = <<q, i>>
  /\ \A t, u \in Tables :
       t # u /\ first[t] # NoPage /\ first[u] # NoPage => Chain(t) \cap Chain(u) = {}

CInv == HInv /\ ChainInv

\* Links lead to pages, and so does a table that was created.
LEMMA LinksTyped ==
  ASSUME TypeOK
  PROVE  /\ \A x \in PageIds : page[x].next \in PageIds \cup {INVALID_PAGE_ID}
         /\ \A t \in Tables : first[t] # NoPage => first[t] \in PageIds
BY DEF TypeOK, Page

\* What a chain has and lacks.
LEMMA ChainFacts ==
  ASSUME CInv, NEW t \in Tables, first[t] # NoPage
  PROVE  /\ first[t] \in Chain(t) /\ last[t] \in Chain(t) /\ Chain(t) \subseteq PageIds
         /\ page[last[t]].next = INVALID_PAGE_ID
         /\ \A q \in Chain(t) : q < numPages /\ (page[q].next = INVALID_PAGE_ID => q = last[t])
         /\ \A x \in stored[t] : x[1][1] \in Chain(t)
         /\ \A q \in Chain(t) : \A i \in LiveSlots(page[q]) : \E x \in stored[t] : x[1] = <<q, i>>
<1>1. TypeOK /\ ChainInv
  BY DEF CInv, HInv, HeapInv
<1>2. first[t] \in PageIds /\ \A x \in PageIds : page[x].next \in PageIds \cup {INVALID_PAGE_ID}
  BY <1>1, LinksTyped
<1>3. first[t] \in Chain(t) /\ Chain(t) \subseteq PageIds
  BY <1>2, WalkLeast DEF Chain
<1> QED
  BY <1>1, <1>3 DEF ChainInv

\* The chains stay as they are when no link changes.
LEMMA ChainsKept ==
  ASSUME TypeOK, TypeOK', NEW t \in Tables, first[t] # NoPage, first'[t] = first[t],
         \A x \in Chain(t) : page'[x].next = page[x].next
  PROVE  Chain(t)' = Chain(t)
<1>1. first[t] \in PageIds /\ \A x \in PageIds : page[x].next \in PageIds \cup {INVALID_PAGE_ID}
  BY LinksTyped
<1>2. \A x \in PageIds : page'[x].next \in PageIds \cup {INVALID_PAGE_ID}
  BY DEF TypeOK, Page
<1>3. PagesFrom(page', first[t]) = PagesFrom(page, first[t])
  BY <1>1, <1>2, WalkSame DEF Chain
<1> QED
  BY <1>3 DEF Chain

\* A step that puts a row of table t at slot i of a page of its chain, or takes one from
\* there, keeps the invariant.
LEMMA RowStep ==
  ASSUME CInv, HInv', NEW t \in Tables, NEW p \in Chain(t), NEW i, first[t] # NoPage,
         numPages' = numPages, first' = first, last' = last,
         \A q \in PageIds : page'[q].next = page[q].next,
         \A q \in PageIds : q # p => LiveSlots(page'[q]) = LiveSlots(page[q]),
         \A j \in LiveSlots(page'[p]) : IF j = i THEN \E x \in stored'[t] : x[1] = <<p, i>>
                                                 ELSE j \in LiveSlots(page[p]),
         \A u \in Tables : u # t => stored'[u] = stored[u],
         \A x \in stored'[t] : x \in stored[t] \/ x[1] = <<p, i>>,
         \A x \in stored[t] : x[1] # <<p, i>> => x \in stored'[t]
  PROVE  ChainInv'
<1>1. TypeOK /\ TypeOK' /\ ChainInv
  BY DEF CInv, HInv, HeapInv
<1>2. \A u \in Tables : first[u] # NoPage => Chain(u)' = Chain(u) /\ Chain(u) \subseteq PageIds /\ last[u] \in Chain(u)
  BY <1>1, ChainsKept, ChainFacts
<1>3. ASSUME NEW u \in Tables, first'[u] = NoPage PROVE last'[u] = NoPage /\ stored'[u] = {}
  BY <1>1, <1>3 DEF ChainInv
<1>4. ASSUME NEW u \in Tables, first'[u] # NoPage
      PROVE  /\ last'[u] \in Chain(u)' /\ page'[last'[u]].next = INVALID_PAGE_ID
             /\ \A q \in Chain(u)' : q < numPages' /\ (page'[q].next = INVALID_PAGE_ID => q = last'[u])
             /\ \A x \in stored'[u] : x[1][1] \in Chain(u)'
             /\ \A q \in Chain(u)' : \A j \in LiveSlots(page'[q]) : \E x \in stored'[u] : x[1] = <<q, j>>
  <2>1. /\ last'[u] \in Chain(u)' /\ page'[last'[u]].next = INVALID_PAGE_ID
        /\ \A q \in Chain(u)' : q < numPages' /\ (page'[q].next = INVALID_PAGE_ID => q = last'[u])
    BY SMTT(30), <1>2, <1>4, ChainFacts
  <2>2. \A x \in stored[u] : x[1][1] \in Chain(u)
    BY <1>4, ChainFacts
  <2>3. \A x \in stored'[u] : x[1][1] \in Chain(u)'
    BY SMTT(30), <1>2, <1>4, <2>2
  <2>4. ASSUME NEW q \in Chain(u), NEW j \in LiveSlots(page'[q])
        PROVE  \E x \in stored'[u] : x[1] = <<q, j>>
    <3>1. CASE q = p /\ j = i /\ u = t
      BY <2>4, <3>1
    <3>2. CASE u # t
      <4>1. q # p /\ q \in PageIds
        BY SMTT(30), <1>1, <1>2, <1>4, <2>4, <3>2 DEF ChainInv
      <4>2. j \in LiveSlots(page[q])
        BY <2>4, <4>1
      <4>3. \A y \in Chain(u) : \A k \in LiveSlots(page[y]) : \E x \in stored[u] : x[1] = <<y, k>>
        BY <1>4, ChainFacts
      <4> QED
        BY <2>4, <3>2, <4>2, <4>3
    <3>3. CASE u = t /\ ~(q = p /\ j = i)
      <4>1. q \in PageIds
        BY <1>2, <1>4, <2>4
      <4>2. j \in LiveSlots(page[q])
        BY <2>4, <3>3, <4>1
      <4>3. PICK x \in stored[t] : x[1] = <<q, j>>
        BY <1>4, <3>3, <4>2, ChainFacts
      <4> QED
        BY SMTT(30), <3>3, <4>3
    <3> QED
      BY <3>1, <3>2, <3>3
  <2> QED
    BY <1>2, <1>4, <2>1, <2>3, <2>4
<1>5. \A u, v \in Tables : u # v /\ first'[u] # NoPage /\ first'[v] # NoPage => Chain(u)' \cap Chain(v)' = {}
  BY <1>1, <1>2 DEF ChainInv
<1> QED
  BY <1>3, <1>4, <1>5 DEF ChainInv

\* Nothing changes for the chains when nothing changes.
LEMMA ChainStutter ==
  ASSUME ChainInv, UNCHANGED heapVars
  PROVE  ChainInv'
<1>1. numPages' = numPages /\ page' = page /\ first' = first /\ last' = last /\ stored' = stored
  BY DEF heapVars
<1>2. \A t \in Tables : Chain(t)' = Chain(t)
  BY <1>1 DEF Chain
<1>3. ASSUME NEW t \in Tables, first[t] # NoPage
      PROVE  /\ last[t] \in Chain(t) /\ page[last[t]].next = INVALID_PAGE_ID
             /\ \A q \in Chain(t) : q < numPages /\ (page[q].next = INVALID_PAGE_ID => q = last[t])
             /\ \A x \in stored[t] : x[1][1] \in Chain(t)
             /\ \A q \in Chain(t) : \A i \in LiveSlots(page[q]) : \E x \in stored[t] : x[1] = <<q, i>>
  BY <1>3 DEF ChainInv
<1>4. ASSUME NEW t \in Tables, first'[t] # NoPage
      PROVE  /\ last'[t] \in Chain(t)' /\ page'[last'[t]].next = INVALID_PAGE_ID
             /\ \A q \in Chain(t)' : q < numPages' /\ (page'[q].next = INVALID_PAGE_ID => q = last'[t])
             /\ \A x \in stored'[t] : x[1][1] \in Chain(t)'
             /\ \A q \in Chain(t)' : \A i \in LiveSlots(page'[q]) : \E x \in stored'[t] : x[1] = <<q, i>>
  <2>1. /\ last[t] \in Chain(t) /\ page[last[t]].next = INVALID_PAGE_ID
        /\ \A q \in Chain(t) : q < numPages /\ (page[q].next = INVALID_PAGE_ID => q = last[t])
        /\ \A x \in stored[t] : x[1][1] \in Chain(t)
    BY <1>1, <1>3, <1>4
  <2>2. \A q \in Chain(t) : \A i \in LiveSlots(page[q]) : \E x \in stored[t] : x[1] = <<q, i>>
    BY <1>1, <1>3, <1>4
  <2>3. Chain(t)' = Chain(t)
    BY <1>2
  <2>4. \A q \in Chain(t)' : \A i \in LiveSlots(page'[q]) : \E x \in stored'[t] : x[1] = <<q, i>>
    BY <1>1, <2>2, <2>3
  <2> QED
    BY <1>1, <2>1, <2>3, <2>4
<1>5. \A t \in Tables : first'[t] = NoPage => last'[t] = NoPage /\ stored'[t] = {}
  BY <1>1 DEF ChainInv
<1>6. \A t, u \in Tables : t # u /\ first'[t] # NoPage /\ first'[u] # NoPage => Chain(t)' \cap Chain(u)' = {}
  BY <1>1, <1>2 DEF ChainInv
<1> QED
  BY <1>4, <1>5, <1>6 DEF ChainInv

\* A new table has a chain of one page, which no other chain has.
LEMMA CreateChain ==
  ASSUME CInv, NEW t \in Tables, Create(t)
  PROVE  ChainInv'
<1>1. TypeOK /\ TypeOK' /\ ChainInv
  BY CreateStep DEF CInv, HInv, HeapInv
<1>2. PICK n \in PageIds : n = numPages
  BY DEF Create
<1>3. page' = [page EXCEPT ![n] = EmptyPage] /\ stored' = stored /\ numPages' = n + 1
      /\ first' = [first EXCEPT ![t] = n] /\ last' = [last EXCEPT ![t] = n] /\ first[t] = NoPage
  BY <1>2 DEF Create
<1>4. n \in Nat /\ n # NoPage /\ 0 \in PageIds
  BY SMTT(30), HeapAssumption DEF PageIds, NoPage
<1>5. EmptyPage.next = INVALID_PAGE_ID /\ LiveSlots(EmptyPage) = {}
  BY <1>4, FreshPages DEF EmptyPage
<1>6. /\ \A u \in Tables : first'[u] = (IF u = t THEN n ELSE first[u]) /\ last'[u] = (IF u = t THEN n ELSE last[u])
      /\ \A q \in PageIds : page'[q] = IF q = n THEN EmptyPage ELSE page[q]
  BY <1>1, <1>3 DEF TypeOK
<1>7. Chain(t)' = {n}
  <2>1. \A x \in PageIds : page'[x].next \in PageIds \cup {INVALID_PAGE_ID}
    BY <1>1 DEF TypeOK, Page
  <2>2. Closed(page', {n})
    BY <1>5, <1>6 DEF Closed
  <2>3. n \in PagesFrom(page', n) /\ \A S \in SUBSET PageIds : n \in S /\ Closed(page', S) => PagesFrom(page', n) \subseteq S
    BY <2>1, WalkLeast
  <2>4. PagesFrom(page', n) = {n}
    BY <2>2, <2>3
  <2> QED
    BY <1>6, <2>4 DEF Chain
<1>8. ASSUME NEW u \in Tables, u # t, first[u] # NoPage
      PROVE  Chain(u)' = Chain(u) /\ Chain(u) \subseteq PageIds /\ n \notin Chain(u)
  <2>1. Chain(u) \subseteq PageIds /\ \A q \in Chain(u) : q < n
    BY <1>2, <1>8, ChainFacts
  <2>2. n \notin Chain(u)
    BY SMTT(30), <1>4, <2>1
  <2> QED
    BY <1>1, <1>6, <1>8, <2>1, <2>2, ChainsKept
<1>9. ASSUME NEW u \in Tables, first'[u] = NoPage PROVE last'[u] = NoPage /\ stored'[u] = {}
  BY SMTT(30), <1>1, <1>3, <1>4, <1>6, <1>9 DEF ChainInv
<1>10. ASSUME NEW u \in Tables, first'[u] # NoPage
       PROVE  /\ last'[u] \in Chain(u)' /\ page'[last'[u]].next = INVALID_PAGE_ID
              /\ \A q \in Chain(u)' : q < numPages' /\ (page'[q].next = INVALID_PAGE_ID => q = last'[u])
              /\ \A x \in stored'[u] : x[1][1] \in Chain(u)'
              /\ \A q \in Chain(u)' : \A j \in LiveSlots(page'[q]) : \E x \in stored'[u] : x[1] = <<q, j>>
  <2>1. CASE u = t
    <3>1. stored'[t] = {}
      BY <1>1, <1>3 DEF ChainInv
    <3> QED
      BY SMTT(30), <1>3, <1>4, <1>5, <1>6, <1>7, <2>1, <3>1
  <2>2. CASE u # t
    <3>1. first[u] # NoPage /\ Chain(u)' = Chain(u) /\ Chain(u) \subseteq PageIds /\ n \notin Chain(u)
      BY <1>6, <1>8, <1>10, <2>2
    <3>2. \A q \in Chain(u) : page'[q] = page[q] /\ q \in Int
      BY SMTT(30), <1>6, <3>1 DEF PageIds
    <3>3. last'[u] = last[u] /\ numPages' = n + 1 /\ stored'[u] = stored[u]
      BY <1>3, <1>6, <2>2
    <3>4. /\ last[u] \in Chain(u) /\ page[last[u]].next = INVALID_PAGE_ID
          /\ \A q \in Chain(u) : q < n /\ (page[q].next = INVALID_PAGE_ID => q = last[u])
          /\ \A x \in stored[u] : x[1][1] \in Chain(u)
      BY <1>2, <3>1, ChainFacts
    <3>5. \A q \in Chain(u) : \A j \in LiveSlots(page[q]) : \E x \in stored[u] : x[1] = <<q, j>>
      BY <3>1, ChainFacts
    <3>6. \A q \in Chain(u)' : \A j \in LiveSlots(page'[q]) : \E x \in stored'[u] : x[1] = <<q, j>>
      BY SMTT(30), <3>1, <3>2, <3>3, <3>5
    <3>7. \A q \in Chain(u)' : q < numPages' /\ (page'[q].next = INVALID_PAGE_ID => q = last'[u])
      BY SMTT(30), <1>4, <3>1, <3>2, <3>3, <3>4
    <3> QED
      BY <3>1, <3>2, <3>3, <3>4, <3>6, <3>7
  <2> QED
    BY <2>1, <2>2
<1>11. \A u, v \in Tables : u # v /\ first'[u] # NoPage /\ first'[v] # NoPage => Chain(u)' \cap Chain(v)' = {}
  BY SMTT(30), <1>1, <1>6, <1>7, <1>8 DEF ChainInv
<1> QED
  BY <1>9, <1>10, <1>11 DEF ChainInv

\* The last page a construction finds is the one the table appended to before.
LEMMA ConstructChain ==
  ASSUME CInv, NEW t \in Tables, Construct(t)
  PROVE  ChainInv'
<1>1. PICK p \in PageIds : FindsLastPage(t, p) /\ last' = [last EXCEPT ![t] = p]
  BY DEF Construct
<1>2. page' = page /\ stored' = stored /\ numPages' = numPages /\ first' = first /\ first[t] # NoPage
  BY DEF Construct
<1>3. p = last[t]
  <2>1. \A q \in Chain(t) : page[q].next = INVALID_PAGE_ID => q = last[t]
    BY <1>2, ChainFacts
  <2> QED
    BY <1>1, <2>1 DEF FindsLastPage
<1>4. last' = last
  BY <1>1, <1>3 DEF CInv, HInv, HeapInv, TypeOK
<1>5. UNCHANGED heapVars
  BY <1>2, <1>4 DEF heapVars
<1> QED
  BY <1>5, ChainStutter DEF CInv

\* A row that goes into the last page goes into the chain.
LEMMA InsertChain ==
  ASSUME CInv, NEW t \in Tables, NEW r \in Rows, Insert(t, r)
  PROVE  ChainInv'
<1>1. HInv' /\ TypeOK /\ ChainInv
  BY InsertStep DEF CInv, HInv, HeapInv
<1>2. first[t] # NoPage
  BY <1>1 DEF Insert, ChainInv
<1>3. PICK p \in Chain(t) : p = last[t] /\ p \in PageIds
  BY <1>2, ChainFacts
<1>4. page[p] \in Page /\ Layout(page[p]) /\ Fits(page[p], r)
  BY <1>1, <1>3 DEF Insert, CInv, HInv, HeapInv, TypeOK
<1>5. PICK i \in 1..(Len(page[p].slots) + 1) :
        /\ SlotFor(page[p], i)
        /\ page' = [page EXCEPT ![p] = Place(page[p], i, r)]
        /\ stored' = [stored EXCEPT ![t] = stored[t] \cup {<<<<p, i>>, r>>}]
  BY <1>3 DEF Insert, Store
<1>6. LiveSlots(Place(page[p], i, r)) = LiveSlots(page[p]) \cup {i} /\ Place(page[p], i, r).next = page[p].next
  <2>1. LiveSlots(Place(page[p], i, r)) = LiveSlots(page[p]) \cup {i}
    BY <1>4, <1>5, PlaceLayout
  <2> QED
    BY <2>1 DEF Place
<1>7. \A q \in PageIds : page'[q] = IF q = p THEN Place(page[p], i, r) ELSE page[q]
  BY <1>1, <1>5 DEF TypeOK
<1>8. \A u \in Tables : stored'[u] = IF u = t THEN stored[t] \cup {<<<<p, i>>, r>>} ELSE stored[u]
  BY <1>1, <1>5 DEF TypeOK
<1>9. numPages' = numPages /\ first' = first /\ last' = last
  BY DEF Insert
<1>10. /\ \A q \in PageIds : page'[q].next = page[q].next
       /\ \A q \in PageIds : q # p => LiveSlots(page'[q]) = LiveSlots(page[q])
       /\ LiveSlots(page'[p]) = LiveSlots(page[p]) \cup {i}
  BY <1>3, <1>6, <1>7
<1>11. /\ \A x \in stored'[t] : x \in stored[t] \/ x[1] = <<p, i>>
       /\ \A x \in stored[t] : x[1] # <<p, i>> => x \in stored'[t]
       /\ \A u \in Tables : u # t => stored'[u] = stored[u]
  BY SMTT(30), <1>8
<1>12. \A j \in LiveSlots(page'[p]) : IF j = i THEN \E x \in stored'[t] : x[1] = <<p, i>>
                                               ELSE j \in LiveSlots(page[p])
  <2>1. \E x \in stored'[t] : x[1] = <<p, i>>
    <3>1. <<<<p, i>>, r>> \in stored'[t]
      BY <1>8
    <3> QED
      BY <3>1
  <2> QED
    BY <1>10, <2>1
<1> QED
  BY <1>1, <1>2, <1>9, <1>10, <1>11, <1>12, RowStep

\* The page that is linked in is the one page the chain gains, and no other chain has it.
LEMMA InsertGrowsChain ==
  ASSUME CInv, NEW t \in Tables, NEW r \in Rows, InsertGrows(t, r)
  PROVE  ChainInv'
<1>1. TypeOK /\ TypeOK' /\ ChainInv
  BY InsertGrowsStep DEF CInv, HInv, HeapInv
<1>2. first[t] # NoPage
  BY <1>1 DEF InsertGrows, ChainInv
<1>3. PICK p \in Chain(t) : p = last[t] /\ p \in PageIds
  BY <1>2, ChainFacts
<1>4. PICK n \in PageIds : n = numPages
  BY DEF InsertGrows
<1>5. p < n /\ n \in Nat /\ p \in Nat /\ 0 \in PageIds
  BY SMTT(30), <1>2, <1>3, <1>4, HeapAssumption, ChainFacts DEF PageIds
<1> DEFINE new == Place(EmptyPage, 1, r)
           full == Linked(page[p], n)
<1>6. new.next = INVALID_PAGE_ID /\ LiveSlots(new) = {1}
  <2>1. Fits(EmptyPage, r) /\ SlotFor(EmptyPage, 1) /\ 1 \in 1..(Len(EmptyPage.slots) + 1)
    BY <1>5, FirstRow DEF InsertGrows
  <2>2. EmptyPage \in Page /\ Layout(EmptyPage) /\ LiveSlots(EmptyPage) = {}
    BY <1>5, FreshPages
  <2>3. LiveSlots(new) = LiveSlots(EmptyPage) \cup {1}
    BY <2>1, <2>2, PlaceLayout
  <2> QED
    BY <2>2, <2>3 DEF Place, EmptyPage
<1>7. full.next = n /\ LiveSlots(full) = LiveSlots(page[p])
  BY DEF Linked, LiveSlots, Free
<1>8. page' = [page EXCEPT ![n] = new, ![p] = full]
      /\ stored' = [stored EXCEPT ![t] = stored[t] \cup {<<<<n, 1>>, r>>}]
      /\ numPages' = n + 1 /\ first' = first /\ last' = [last EXCEPT ![t] = n]
  BY <1>3, <1>4 DEF InsertGrows, Store
<1> HIDE DEF new, full
<1>9. /\ \A q \in PageIds : page'[q] = IF q = p THEN full ELSE IF q = n THEN new ELSE page[q]
      /\ \A u \in Tables : stored'[u] = IF u = t THEN stored[t] \cup {<<<<n, 1>>, r>>} ELSE stored[u]
      /\ \A u \in Tables : last'[u] = IF u = t THEN n ELSE last[u]
  BY <1>1, <1>5, <1>8 DEF TypeOK
<1>10. \A u \in Tables : first[u] # NoPage =>
         Chain(u) \subseteq PageIds /\ n \notin Chain(u) /\ \A q \in Chain(u) : q \in Int /\ q < n
  <2> TAKE u \in Tables
  <2> HAVE first[u] # NoPage
  <2>1. Chain(u) \subseteq PageIds /\ \A q \in Chain(u) : q < n
    BY <1>4, ChainFacts
  <2> QED
    BY SMTT(30), <1>5, <2>1 DEF PageIds
<1>11. Chain(t)' = Chain(t) \cup {n}
  <2>1. first[t] \in PageIds /\ \A x \in PageIds : page[x].next \in PageIds \cup {INVALID_PAGE_ID}
    BY <1>1, <1>2, LinksTyped
  <2>2. \A x \in PageIds : page'[x].next \in PageIds \cup {INVALID_PAGE_ID}
    BY <1>1 DEF TypeOK, Page
  <2>3. page[p].next = INVALID_PAGE_ID
    BY <1>2, <1>3, ChainFacts
  <2>4. page'[p].next = n /\ page'[n].next = INVALID_PAGE_ID
    BY SMTT(30), <1>3, <1>5, <1>6, <1>7, <1>9
  <2>5. \A x \in PagesFrom(page, first[t]) : x # p => page'[x].next = page[x].next
    BY <1>2, <1>9, <1>10 DEF Chain
  <2>6. p \in PagesFrom(page, first[t])
    BY <1>3 DEF Chain
  <2>7. PagesFrom(page', first[t]) = PagesFrom(page, first[t]) \cup {n}
    BY SMTT(30), <2>1, <2>2, <2>3, <2>4, <2>5, <2>6, WalkGrows
  <2> QED
    BY <1>8, <2>7 DEF Chain
<1>12. ASSUME NEW u \in Tables, u # t, first[u] # NoPage
       PROVE  Chain(u)' = Chain(u) /\ \A q \in Chain(u) : page'[q] = page[q]
  <2>1. p \notin Chain(u)
    BY <1>1, <1>2, <1>3, <1>12 DEF ChainInv
  <2>2. \A q \in Chain(u) : page'[q] = page[q]
    BY <1>9, <1>10, <1>12, <2>1
  <2> QED
    BY <1>1, <1>8, <1>12, <2>2, ChainsKept
<1>13. ASSUME NEW u \in Tables, first'[u] = NoPage PROVE last'[u] = NoPage /\ stored'[u] = {}
  BY SMTT(30), <1>1, <1>2, <1>8, <1>9, <1>13 DEF ChainInv
<1>14. /\ last'[t] \in Chain(t)' /\ page'[last'[t]].next = INVALID_PAGE_ID
       /\ \A q \in Chain(t)' : q < numPages' /\ (page'[q].next = INVALID_PAGE_ID => q = last'[t])
       /\ \A x \in stored'[t] : x[1][1] \in Chain(t)'
       /\ \A q \in Chain(t)' : \A j \in LiveSlots(page'[q]) : \E x \in stored'[t] : x[1] = <<q, j>>
  <2>1. last'[t] = n /\ page'[n].next = INVALID_PAGE_ID /\ stored'[t] = stored[t] \cup {<<<<n, 1>>, r>>}
    BY SMTT(30), <1>5, <1>6, <1>9
  <2>2. /\ \A q \in Chain(t) : page[q].next = INVALID_PAGE_ID => q = p
        /\ \A x \in stored[t] : x[1][1] \in Chain(t)
    BY <1>2, <1>3, ChainFacts
  <2>3. \A q \in Chain(t)' : q < numPages' /\ (page'[q].next = INVALID_PAGE_ID => q = last'[t])
    <3>1. \A q \in Chain(t) : q < n + 1
      BY SMTT(30), <1>2, <1>5, <1>10
    <3>2. n # INVALID_PAGE_ID
      BY SMTT(30), <1>5 DEF INVALID_PAGE_ID
    <3>3. \A q \in Chain(t) : page'[q] = IF q = p THEN full ELSE page[q]
      BY <1>2, <1>9, <1>10
    <3>4. \A q \in Chain(t) : page'[q].next # INVALID_PAGE_ID
      BY <1>7, <2>2, <3>2, <3>3
    <3>5. n < n + 1 /\ numPages' = n + 1
      BY SMTT(30), <1>5, <1>8
    <3> QED
      BY <1>11, <2>1, <3>1, <3>4, <3>5
  <2>4. \A x \in stored'[t] : x[1][1] \in Chain(t)'
    BY SMTT(30), <1>11, <2>1, <2>2
  <2>5. ASSUME NEW q \in Chain(t)', NEW j \in LiveSlots(page'[q])
        PROVE  \E x \in stored'[t] : x[1] = <<q, j>>
    <3>1. CASE q = n
      <4>1. j = 1
        BY SMTT(30), <1>5, <1>6, <1>9, <2>5, <3>1
      <4>2. <<<<n, 1>>, r>> \in stored'[t]
        BY <2>1
      <4> QED
        BY <3>1, <4>1, <4>2
    <3>2. CASE q \in Chain(t)
      <4>1. LiveSlots(page'[q]) = LiveSlots(page[q])
        BY <1>2, <1>7, <1>9, <1>10, <3>2
      <4>2. \A y \in Chain(t) : \A k \in LiveSlots(page[y]) : \E x \in stored[t] : x[1] = <<y, k>>
        BY <1>2, ChainFacts
      <4>3. \E x \in stored[t] : x[1] = <<q, j>>
        BY <2>5, <3>2, <4>1, <4>2
      <4> QED
        BY <2>1, <4>3
    <3> QED
      BY <1>11, <2>5, <3>1, <3>2
  <2> QED
    BY <1>11, <2>1, <2>3, <2>4, <2>5
<1>15. ASSUME NEW u \in Tables, u # t, first'[u] # NoPage
       PROVE  /\ last'[u] \in Chain(u)' /\ page'[last'[u]].next = INVALID_PAGE_ID
              /\ \A q \in Chain(u)' : q < numPages' /\ (page'[q].next = INVALID_PAGE_ID => q = last'[u])
              /\ \A x \in stored'[u] : x[1][1] \in Chain(u)'
              /\ \A q \in Chain(u)' : \A j \in LiveSlots(page'[q]) : \E x \in stored'[u] : x[1] = <<q, j>>
  <2>1. first[u] # NoPage /\ last'[u] = last[u] /\ stored'[u] = stored[u]
    BY <1>8, <1>9, <1>15
  <2>2. Chain(u)' = Chain(u) /\ \A q \in Chain(u) : page'[q] = page[q]
    BY <1>12, <1>15, <2>1
  <2>3. /\ last[u] \in Chain(u) /\ page[last[u]].next = INVALID_PAGE_ID
        /\ \A q \in Chain(u) : page[q].next = INVALID_PAGE_ID => q = last[u]
        /\ \A x \in stored[u] : x[1][1] \in Chain(u)
    BY <2>1, ChainFacts
  <2>4. \A q \in Chain(u) : q < numPages'
    BY SMTT(30), <1>5, <1>8, <1>10, <2>1
  <2>5. \A q \in Chain(u) : \A j \in LiveSlots(page[q]) : \E x \in stored[u] : x[1] = <<q, j>>
    BY <2>1, ChainFacts
  <2>6. \A q \in Chain(u)' : \A j \in LiveSlots(page'[q]) : \E x \in stored'[u] : x[1] = <<q, j>>
    BY <2>1, <2>2, <2>5
  <2> QED
    BY <2>1, <2>2, <2>3, <2>4, <2>6
<1>16. \A u, v \in Tables : u # v /\ first'[u] # NoPage /\ first'[v] # NoPage => Chain(u)' \cap Chain(v)' = {}
  <2>1. \A u, v \in Tables : u # v /\ first[u] # NoPage /\ first[v] # NoPage => Chain(u) \cap Chain(v) = {}
    BY <1>1 DEF ChainInv
  <2>2. \A u \in Tables : first'[u] = first[u]
    BY <1>8
  <2>3. \A u \in Tables : first[u] # NoPage => n \notin Chain(u)
    BY <1>10
  <2>4. \A u \in Tables : u # t /\ first[u] # NoPage => Chain(u)' = Chain(u)
    BY <1>12
  <2>5. \A u \in Tables : u # t /\ first[u] # NoPage => Chain(u)' \cap Chain(t)' = {}
    BY <1>2, <1>11, <2>1, <2>3, <2>4
  <2> QED
    BY <2>1, <2>2, <2>4, <2>5
<1>17. ASSUME NEW u \in Tables, first'[u] # NoPage
       PROVE  /\ last'[u] \in Chain(u)' /\ page'[last'[u]].next = INVALID_PAGE_ID
              /\ \A q \in Chain(u)' : q < numPages' /\ (page'[q].next = INVALID_PAGE_ID => q = last'[u])
              /\ \A x \in stored'[u] : x[1][1] \in Chain(u)'
              /\ \A q \in Chain(u)' : \A j \in LiveSlots(page'[q]) : \E x \in stored'[u] : x[1] = <<q, j>>
  <2>1. CASE u = t
    BY <1>14, <2>1
  <2>2. CASE u # t
    BY <1>15, <1>17, <2>2
  <2> QED
    BY <2>1, <2>2
<1> QED
  BY <1>13, <1>16, <1>17 DEF ChainInv

\* The row that is overwritten stays where it was.
LEMMA UpdateInPlaceChain ==
  ASSUME CInv, NEW t \in Tables, NEW p \in PageIds, NEW i \in 1..Len(page[p].slots), NEW old \in Rows,
         NEW r \in Rows, UpdateInPlace(t, p, i, old, r)
  PROVE  ChainInv'
<1>1. HInv' /\ TypeOK /\ ChainInv
  BY UpdateInPlaceStep DEF CInv, HInv, HeapInv
<1>2. <<<<p, i>>, old>> \in stored[t]
      /\ page' = [page EXCEPT ![p] = Overwrite(page[p], i, r)]
      /\ stored' = [stored EXCEPT ![t] = (stored[t] \ {<<<<p, i>>, old>>}) \cup {<<<<p, i>>, r>>}]
      /\ numPages' = numPages /\ first' = first /\ last' = last
  BY DEF UpdateInPlace
<1>3. first[t] # NoPage
  BY <1>1, <1>2 DEF ChainInv
<1>4. p \in Chain(t)
  <2>1. \A x \in stored[t] : x[1][1] \in Chain(t)
    BY <1>3, ChainFacts
  <2>2. PICK y \in stored[t] : y = <<<<p, i>>, old>>
    BY <1>2
  <2> QED
    BY <2>1, <2>2
<1>5. LiveSlots(Overwrite(page[p], i, r)) = LiveSlots(page[p]) /\ Overwrite(page[p], i, r).next = page[p].next
  BY DEF Overwrite, LiveSlots, Free
<1>6. \A q \in PageIds : page'[q] = IF q = p THEN Overwrite(page[p], i, r) ELSE page[q]
  BY <1>1, <1>2 DEF TypeOK
<1>7. \A u \in Tables : stored'[u] =
        IF u = t THEN (stored[t] \ {<<<<p, i>>, old>>}) \cup {<<<<p, i>>, r>>} ELSE stored[u]
  BY <1>1, <1>2 DEF TypeOK
<1>8. /\ \A q \in PageIds : page'[q].next = page[q].next
      /\ \A q \in PageIds : q # p => LiveSlots(page'[q]) = LiveSlots(page[q])
      /\ LiveSlots(page'[p]) = LiveSlots(page[p])
  BY <1>5, <1>6
<1>9. /\ \A x \in stored'[t] : x \in stored[t] \/ x[1] = <<p, i>>
      /\ \A x \in stored[t] : x[1] # <<p, i>> => x \in stored'[t]
      /\ \A u \in Tables : u # t => stored'[u] = stored[u]
  BY SMTT(30), <1>7
<1>10. \A j \in LiveSlots(page'[p]) : IF j = i THEN \E x \in stored'[t] : x[1] = <<p, i>>
                                               ELSE j \in LiveSlots(page[p])
  <2>1. <<<<p, i>>, r>> \in stored'[t]
    BY <1>7
  <2>2. \E x \in stored'[t] : x[1] = <<p, i>>
    BY <2>1
  <2> QED
    BY <1>8, <2>2
<1>11. numPages' = numPages /\ first' = first /\ last' = last
  BY <1>2
<1> QED
  BY <1>1, <1>3, <1>4, <1>8, <1>9, <1>10, <1>11, RowStep

\* The slot that is freed holds no row any more.
LEMMA DeleteChain ==
  ASSUME CInv, NEW t \in Tables, NEW p \in PageIds, NEW i \in 1..Len(page[p].slots), NEW old \in Rows,
         Delete(t, p, i, old)
  PROVE  ChainInv'
<1>1. HInv' /\ TypeOK /\ ChainInv
  BY DeleteStep DEF CInv, HInv, HeapInv
<1>2. <<<<p, i>>, old>> \in stored[t]
      /\ page' = [page EXCEPT ![p] = FreeSlot(page[p], i)]
      /\ stored' = [stored EXCEPT ![t] = stored[t] \ {<<<<p, i>>, old>>}]
      /\ numPages' = numPages /\ first' = first /\ last' = last
  BY DEF Delete
<1>3. first[t] # NoPage
  BY <1>1, <1>2 DEF ChainInv
<1>4. p \in Chain(t)
  <2>1. \A x \in stored[t] : x[1][1] \in Chain(t)
    BY <1>3, ChainFacts
  <2>2. PICK y \in stored[t] : y = <<<<p, i>>, old>>
    BY <1>2
  <2> QED
    BY <2>1, <2>2
<1>5. LiveSlots(FreeSlot(page[p], i)) = LiveSlots(page[p]) \ {i} /\ FreeSlot(page[p], i).next = page[p].next
  <2> DEFINE gone == [off |-> 0, len |-> Deleted]
  <2>1. page[p].slots \in Seq(Slot) /\ gone \in Slot /\ i \in 1..(Len(page[p].slots) + 1)
    <3>1. page[p].slots \in Seq(Slot)
      BY <1>1 DEF TypeOK, Page
    <3>2. gone \in Slot
      BY SMTT(30), HeapAssumption DEF Slot, Deleted
    <3> QED
      BY SMTT(30), <3>1, <3>2
  <2>2. PICK ss \in Seq(Slot) : ss = WithSlot(page[p].slots, i, gone)
    BY <2>1, WithSlotOthers
  <2>3. Len(ss) = Len(page[p].slots) /\ ss[i].len = Deleted
        /\ \A j \in 1..Len(page[p].slots) : j # i => ss[j] = page[p].slots[j]
    <3> HIDE DEF gone
    <3> DEFINE old_ss == page[p].slots
    <3> HIDE DEF old_ss
    <3>0. old_ss \in Seq(Slot) /\ gone \in Slot /\ i \in 1..(Len(old_ss) + 1) /\ ss = WithSlot(old_ss, i, gone)
      BY <2>1, <2>2 DEF old_ss
    <3>1. ss[i] = gone /\ \A j \in 1..Len(old_ss) : j # i => ss[j] = old_ss[j]
      BY <3>0, WithSlotOthers
    <3>2. Len(ss) = IF i > Len(old_ss) THEN i ELSE Len(old_ss)
      BY <3>0, WithSlotOthers
    <3> QED
      BY SMTT(30), <2>1, <3>1, <3>2 DEF gone, old_ss
  <2>4. FreeSlot(page[p], i).slots = ss /\ FreeSlot(page[p], i).next = page[p].next
    BY <2>2 DEF FreeSlot
  <2>5. DOMAIN ss = DOMAIN page[p].slots /\ DOMAIN ss = 1..Len(ss)
    BY SMTT(30), <2>1, <2>3
  <2>6. \A j : j \in LiveSlots(FreeSlot(page[p], i)) <=> j \in DOMAIN ss /\ ss[j].len # Deleted
    BY <2>4 DEF LiveSlots, Free
  <2>7. \A j : j \in LiveSlots(page[p]) <=> j \in DOMAIN page[p].slots /\ page[p].slots[j].len # Deleted
    BY DEF LiveSlots, Free
  <2> QED
    BY SMTT(30), <2>3, <2>4, <2>5, <2>6, <2>7
<1>6. \A q \in PageIds : page'[q] = IF q = p THEN FreeSlot(page[p], i) ELSE page[q]
  BY <1>1, <1>2 DEF TypeOK
<1>7. \A u \in Tables : stored'[u] = IF u = t THEN stored[t] \ {<<<<p, i>>, old>>} ELSE stored[u]
  BY <1>1, <1>2 DEF TypeOK
<1>8. /\ \A q \in PageIds : page'[q].next = page[q].next
      /\ \A q \in PageIds : q # p => LiveSlots(page'[q]) = LiveSlots(page[q])
      /\ LiveSlots(page'[p]) = LiveSlots(page[p]) \ {i}
  BY <1>5, <1>6
<1>9. /\ \A x \in stored'[t] : x \in stored[t] \/ x[1] = <<p, i>>
      /\ \A x \in stored[t] : x[1] # <<p, i>> => x \in stored'[t]
      /\ \A u \in Tables : u # t => stored'[u] = stored[u]
  BY SMTT(30), <1>7
<1>10. \A j \in LiveSlots(page'[p]) : IF j = i THEN \E x \in stored'[t] : x[1] = <<p, i>>
                                               ELSE j \in LiveSlots(page[p])
  BY <1>8
<1>11. numPages' = numPages /\ first' = first /\ last' = last
  BY <1>2
<1> QED
  BY <1>1, <1>3, <1>4, <1>8, <1>9, <1>10, <1>11, RowStep

\* A scan of a table yields its rows and no others, in every interleaving of inserts, updates
\* in place, deletes and reopenings of any number of tables, whatever the page size.
THEOREM ScansComplete == Spec => []ScanFindsRows
<1>1. Init => CInv
  <2>1. Init => HInv
    BY HeapInit
  <2>2. Init => ChainInv
    BY DEF Init, ChainInv
  <2> QED
    BY <2>1, <2>2 DEF CInv
<1>2. CInv /\ [Next]_heapVars => CInv'
  <2> SUFFICES ASSUME CInv, [Next]_heapVars PROVE CInv'
    OBVIOUS
  <2>1. HInv'
    BY HeapStep DEF CInv
  <2>2. CASE UNCHANGED heapVars
    BY <2>1, <2>2, ChainStutter DEF CInv
  <2>3. CASE Next
    <3>1. PICK t \in Tables :
            \/ Create(t)
            \/ Construct(t)
            \/ \E r \in Rows : Insert(t, r) \/ InsertGrows(t, r)
            \/ \E p \in PageIds : \E i \in 1..Len(page[p].slots) : \E old \in Rows :
                 \/ Delete(t, p, i, old)
                 \/ \E r \in Rows : UpdateInPlace(t, p, i, old, r)
      BY <2>3 DEF Next
    <3>2. ChainInv'
      BY <3>1, CreateChain, ConstructChain, InsertChain, InsertGrowsChain, UpdateInPlaceChain, DeleteChain
    <3> QED
      BY <2>1, <3>2 DEF CInv
  <2> QED
    BY <2>2, <2>3
<1>3. CInv => ScanFindsRows
  <2> SUFFICES ASSUME CInv, NEW t \in Tables, first[t] # NoPage
               PROVE  {x[1] : x \in stored[t]} = UNION {{p} \X LiveSlots(page[p]) : p \in Chain(t)}
    BY DEF ScanFindsRows
  <2>1. /\ \A x \in stored[t] : x[1][1] \in Chain(t)
        /\ \A q \in Chain(t) : \A i \in LiveSlots(page[q]) : \E x \in stored[t] : x[1] = <<q, i>>
    BY ChainFacts
  <2>2. ASSUME NEW x \in stored[t]
        PROVE  x[1] \in {x[1][1]} \X LiveSlots(page[x[1][1]])
    <3>1. x[1][2] \in LiveSlots(page[x[1][1]]) /\ x[1] = <<x[1][1], x[1][2]>>
      BY SMTT(30), StoredAt DEF CInv
    <3> QED
      BY <3>1
  <2>3. ASSUME NEW q \in Chain(t), NEW y \in {q} \X LiveSlots(page[q])
        PROVE  y \in {x[1] : x \in stored[t]}
    <3>1. PICK i \in LiveSlots(page[q]) : y = <<q, i>>
      BY SMTT(30)
    <3> QED
      BY <2>1, <3>1
  <2> DEFINE scan == UNION {{p} \X LiveSlots(page[p]) : p \in Chain(t)}
             rids == {x[1] : x \in stored[t]}
  <2>4. rids \subseteq scan
    BY SMTT(30), <2>1, <2>2
  <2>5. scan \subseteq rids
    BY <2>3
  <2> QED
    BY <2>4, <2>5
<1> QED
  BY <1>1, <1>2, <1>3, PTL DEF Spec

-----------------------------------------------------------------------------
(* The file on disk *)

\* A page laid out as the operations of heap_file.py leave it.
LaidOut(pg) == pg \in Page /\ Layout(pg)

\* Storing a row leaves room for the header, so a page that took a row is formatted.
LEMMA PlaceFormatted ==
  ASSUME NEW pg, LaidOut(pg), NEW r \in Rows, Fits(pg, r),
         NEW i \in 1..(Len(pg.slots) + 1), SlotFor(pg, i)
  PROVE  LaidOut(Place(pg, i, r)) /\ Formatted(Place(pg, i, r))
<1>1. pg \in Page /\ Layout(pg)
  BY DEF LaidOut
<1>2. /\ pg.free \in Nat /\ Size[r] \in Nat /\ pg.slots \in Seq(Slot)
      /\ SlotOffset(Len(pg.slots)) <= pg.free - Size[r]
  <2>1. /\ Size[r] \in Nat \ {0} /\ pg.free \in 0..PageSize /\ PageSize \in Nat
        /\ pg.slots \in Seq(Slot) /\ SlotOffset(Len(pg.slots)) <= pg.free - Size[r]
    BY <1>1, FitsBounds
  <2> QED
    BY SMTT(30), <2>1
<1>3. SlotOffset(Len(pg.slots)) \in Nat \ {0}
  <2>1. Len(pg.slots) * SlotSize \in Nat
    <3>1. Len(pg.slots) \in Nat /\ SlotSize \in Nat
      BY SMTT(30), <1>2, HeapAssumption
    <3> QED
      BY SMTT(30), <3>1
  <2> QED
    BY SMTT(30), <2>1, HeapAssumption DEF SlotOffset
<1>4. Place(pg, i, r).free # 0
  BY SMTT(30), <1>2, <1>3 DEF Place
<1> QED
  BY <1>1, <1>4, PlaceLayout DEF LaidOut, Formatted

\* Every page is laid out, in the pool and in the file.
LEMMA Pool ==
  ASSUME DiskInv
  PROVE  \A p \in PageIds : LaidOut(page[p]) /\ LaidOut(disk[p])
BY DEF DiskInv, LaidOut

\* The pool's pages stay laid out, and formatted where they were, when a table is created.
LEMMA CreatePages ==
  ASSUME DiskInv, NEW t \in Tables, Create(t)
  PROVE  /\ page' \in [PageIds -> Page] /\ \A p \in PageIds : Layout(page'[p])
         /\ \A p \in PageIds : Formatted(page[p]) => Formatted(page'[p])
         /\ Formatted(page'[numPages])
<1>1. numPages \in PageIds /\ page' = [page EXCEPT ![numPages] = EmptyPage]
  BY DEF Create
<1>2. 0 \in PageIds
  BY SMTT(30), <1>1, HeapAssumption DEF PageIds
<1>3. EmptyPage \in Page /\ Layout(EmptyPage)
  BY <1>2, FreshPages
<1>4. Formatted(EmptyPage)
  BY SMTT(30), HeapAssumption DEF Formatted, EmptyPage
<1>5. \A p \in PageIds : page'[p] = IF p = numPages THEN EmptyPage ELSE page[p]
  BY <1>1 DEF DiskInv
<1> QED
  BY <1>1, <1>3, <1>4, <1>5 DEF DiskInv

\* ... when a row goes to the last page ...
LEMMA InsertPages ==
  ASSUME DiskInv, NEW t \in Tables, NEW r \in Rows, Insert(t, r)
  PROVE  /\ page' \in [PageIds -> Page] /\ \A p \in PageIds : Layout(page'[p])
         /\ \A p \in PageIds : Formatted(page[p]) => Formatted(page'[p])
<1>1. last[t] \in PageIds /\ Fits(page[last[t]], r)
  BY DEF Insert, DiskInv
<1>2. PICK i \in 1..(Len(page[last[t]].slots) + 1) :
        /\ SlotFor(page[last[t]], i)
        /\ page' = [page EXCEPT ![last[t]] = Place(page[last[t]], i, r)]
  BY DEF Insert
<1>3. LaidOut(page[last[t]])
  BY <1>1, Pool
<1>4. LaidOut(Place(page[last[t]], i, r)) /\ Formatted(Place(page[last[t]], i, r))
  BY <1>1, <1>2, <1>3, PlaceFormatted
<1>5. \A p \in PageIds : page'[p] = IF p = last[t] THEN Place(page[last[t]], i, r) ELSE page[p]
  BY <1>2 DEF DiskInv
<1>6. page' = [p \in PageIds |-> page'[p]]
  BY <1>2 DEF DiskInv
<1> QED
  BY SMTT(30), <1>1, <1>4, <1>5, <1>6 DEF DiskInv, LaidOut

\* ... and when it goes to a new one.
LEMMA GrowPages ==
  ASSUME DiskInv, NEW t \in Tables, NEW r \in Rows, InsertGrows(t, r)
  PROVE  /\ page' \in [PageIds -> Page] /\ \A p \in PageIds : Layout(page'[p])
         /\ \A p \in PageIds : Formatted(page[p]) => Formatted(page'[p])
<1> DEFINE new == Place(EmptyPage, 1, r)
           old == Linked(page[last[t]], numPages)
<1>1. /\ last[t] \in PageIds /\ numPages \in PageIds /\ SlotOffset(1) + Size[r] <= PageSize
      /\ page' = [page EXCEPT ![numPages] = new, ![last[t]] = old]
  BY DEF InsertGrows, DiskInv
<1>2. 0 \in PageIds
  BY SMTT(30), <1>1, HeapAssumption DEF PageIds
<1>3. LaidOut(EmptyPage)
  BY <1>2, FreshPages DEF LaidOut
<1>4. LaidOut(new) /\ Formatted(new)
  <2>1. Fits(EmptyPage, r) /\ SlotFor(EmptyPage, 1) /\ 1 \in 1..(Len(EmptyPage.slots) + 1)
    BY <1>1, <1>2, FirstRow
  <2> QED
    BY <1>3, <2>1, PlaceFormatted
<1>5. LaidOut(old)
  BY <1>1, Pool, LinkedPage DEF LaidOut
<1>6. Formatted(page[last[t]]) => Formatted(old)
  BY DEF Formatted, Linked
<1> HIDE DEF new, old
<1>7. \A p \in PageIds : page'[p] = IF p = last[t] THEN old ELSE IF p = numPages THEN new ELSE page[p]
  BY <1>1 DEF DiskInv
<1>8. page' = [p \in PageIds |-> page'[p]]
  BY <1>1 DEF DiskInv
<1> QED
  BY <1>1, <1>4, <1>5, <1>6, <1>7, <1>8 DEF DiskInv, LaidOut

\* Writing out the buffer of the file object completes the pages of the catalog.
LEMMA FlushedPages ==
  ASSUME DiskInv
  PROVE  /\ Flushed \in [PageIds -> Page] /\ \A p \in PageIds : Layout(Flushed[p])
         /\ \A p \in PageIds : Formatted(disk[p]) \/ p = fileBuf.id => Formatted(Flushed[p])
         /\ \A t \in Tables : saved[t] # NoPage /\ t \notin lost => Formatted(Flushed[saved[t]])
<1>1. \A p \in PageIds : Flushed[p] = IF p = fileBuf.id THEN fileBuf.data ELSE disk[p]
  BY DEF Flushed
<1>2. NoPage \notin PageIds
  BY SMTT(30) DEF NoPage, PageIds
<1>3. \A p \in PageIds : Formatted(disk[p]) \/ p = fileBuf.id => Formatted(Flushed[p])
  BY SMTT(30), <1>1, <1>2 DEF DiskInv
<1>4. \A t \in Tables : saved[t] # NoPage /\ t \notin lost => Formatted(Flushed[saved[t]])
  BY SMTT(30), <1>3 DEF DiskInv, CatalogPagesWritten
<1>5. \A p \in PageIds : Flushed[p] \in Page /\ Layout(Flushed[p])
  BY SMTT(30), <1>1, <1>2 DEF DiskInv
<1>6. Flushed = [p \in PageIds |-> Flushed[p]]
  BY DEF Flushed
<1> QED
  BY <1>3, <1>4, <1>5, <1>6

-----------------------------------------------------------------------------
(* The steps of create_table *)

\* The first page is allocated, which writes out what was buffered, and formatted.
LEMMA CreateTableStep ==
  ASSUME DiskInv, NEW t \in Tables, CreateTable(t)
  PROVE  DiskInv'
<1>1. /\ Create(t) /\ disk' = Flushed /\ fileBuf' = NoWrite
      /\ ddl' = [ddl EXCEPT ![t] = "flush"] /\ saved' = saved /\ lost' = lost
      /\ \A u \in Tables : ddl[u] = "idle"
  BY DEF CreateTable, FileFlush, Idle
<1>2. /\ first[t] = NoPage /\ numPages \in PageIds /\ numPages' = numPages + 1
      /\ first' = [first EXCEPT ![t] = numPages] /\ last' = [last EXCEPT ![t] = numPages]
  BY <1>1 DEF Create
<1>3. /\ page' \in [PageIds -> Page] /\ \A p \in PageIds : Layout(page'[p])
      /\ \A p \in PageIds : Formatted(page[p]) => Formatted(page'[p])
      /\ Formatted(page'[numPages])
  BY <1>1, CreatePages
<1>4. /\ disk' \in [PageIds -> Page] /\ \A p \in PageIds : Layout(disk'[p])
      /\ CatalogPagesWritten'
  BY <1>1, FlushedPages DEF CatalogPagesWritten
<1>5. NoPage \notin PageIds
  BY SMTT(30) DEF NoPage, PageIds
<1>6. fileBuf'.id = NoPage
  BY <1>1 DEF NoWrite
<1>7. /\ numPages' \in 0..MaxPages
      /\ first' \in [Tables -> PageIds \cup {NoPage}] /\ last' \in [Tables -> PageIds \cup {NoPage}]
      /\ saved' \in [Tables -> PageIds \cup {NoPage}]
      /\ ddl' \in [Tables -> {"idle", "flush", "save"}]
  BY SMTT(30), <1>1, <1>2, HeapAssumption DEF DiskInv, PageIds
<1>8. ASSUME NEW u \in Tables
      PROVE  /\ saved'[u] # NoPage => first'[u] = saved'[u]
             /\ first'[u] # NoPage /\ u \notin lost' => Formatted(page'[first'[u]])
             /\ ddl'[u] # "idle" => /\ first'[u] # NoPage
                                    /\ Formatted(page'[first'[u]])
                                    /\ \A w \in Tables : w # u => ddl'[w] = "idle"
             /\ ddl'[u] = "flush" => fileBuf'.id = NoPage
             /\ ddl'[u] # "save"
  <2>1. CASE u = t
    <3>1. first'[u] = numPages /\ saved'[u] = NoPage /\ ddl'[u] = "flush"
      BY <1>1, <1>2, <2>1 DEF DiskInv
    <3>2. \A w \in Tables : w # u => ddl'[w] = "idle"
      BY <1>1, <2>1 DEF DiskInv
    <3> QED
      BY <1>2, <1>3, <1>5, <1>6, <3>1, <3>2
  <2>2. CASE u # t
    <3>1. first'[u] = first[u] /\ saved'[u] = saved[u] /\ ddl'[u] = "idle" /\ lost' = lost
      BY <1>1, <1>2, <2>2 DEF DiskInv
    <3> QED
      BY SMTT(30), <1>3, <3>1 DEF DiskInv
  <2> QED
    BY <2>1, <2>2
<1> QED
  BY <1>3, <1>4, <1>6, <1>7, <1>8 DEF DiskInv

\* flush_page: the formatted page is in the buffer, which was empty.
LEMMA FlushFirstPageStep ==
  ASSUME DiskInv, NEW t \in Tables, FlushFirstPage(t)
  PROVE  DiskInv'
<1>1. /\ ddl[t] = "flush" /\ fileBuf' = [id |-> first[t], data |-> page[first[t]]]
      /\ ddl' = [ddl EXCEPT ![t] = "save"]
      /\ numPages' = numPages /\ page' = page /\ first' = first /\ last' = last
      /\ disk' = disk /\ saved' = saved /\ lost' = lost
  BY DEF FlushFirstPage, heapVars
<1>2. first[t] \in PageIds /\ Formatted(page[first[t]]) /\ fileBuf.id = NoPage
  BY SMTT(30), <1>1 DEF DiskInv
<1>3. /\ fileBuf'.data \in Page /\ Layout(fileBuf'.data)
      /\ Formatted(fileBuf'.data) /\ fileBuf'.id = first[t]
  BY <1>1, <1>2 DEF DiskInv
<1>4. CatalogPagesWritten'
  BY <1>1, <1>2 DEF DiskInv, CatalogPagesWritten
<1>5. ddl' \in [Tables -> {"idle", "flush", "save"}]
  BY <1>1 DEF DiskInv
<1>6. \A u \in Tables : ddl'[u] = IF u = t THEN "save" ELSE "idle"
  BY <1>1 DEF DiskInv
<1> QED
  BY SMTT(30), <1>1, <1>2, <1>3, <1>4, <1>5, <1>6 DEF DiskInv

\* The catalog is saved: the page is in the buffer or has left it for the file.
LEMMA SaveCatalogStep ==
  ASSUME DiskInv, NEW t \in Tables, SaveCatalog(t)
  PROVE  DiskInv'
<1>1. /\ ddl[t] = "save" /\ saved' = [saved EXCEPT ![t] = first[t]]
      /\ ddl' = [ddl EXCEPT ![t] = "idle"]
      /\ numPages' = numPages /\ page' = page /\ first' = first /\ last' = last
      /\ disk' = disk /\ fileBuf' = fileBuf /\ lost' = lost
  BY DEF SaveCatalog, heapVars
<1>2. \A u \in Tables : ddl'[u] = "idle" /\ saved'[u] = IF u = t THEN first[t] ELSE saved[u]
  BY <1>1 DEF DiskInv
<1>3. CatalogPagesWritten'
  BY SMTT(30), <1>1, <1>2 DEF DiskInv, CatalogPagesWritten
<1>4. /\ ddl' \in [Tables -> {"idle", "flush", "save"}]
      /\ saved' \in [Tables -> PageIds \cup {NoPage}]
  BY <1>1 DEF DiskInv
<1> QED
  BY <1>1, <1>2, <1>3, <1>4 DEF DiskInv

-----------------------------------------------------------------------------
(* Statements, write-backs and crashes *)

\* Opening a table finds its last page and changes nothing else.
LEMMA OpenTableStep ==
  ASSUME DiskInv, NEW t \in Tables, OpenTable(t)
  PROVE  DiskInv'
<1>1. /\ numPages' = numPages /\ page' = page /\ first' = first /\ disk' = disk
      /\ fileBuf' = fileBuf /\ saved' = saved /\ ddl' = ddl /\ lost' = lost
      /\ last' \in [Tables -> PageIds \cup {NoPage}]
  BY SMTT(30) DEF OpenTable, Construct, DiskInv
<1>2. CatalogPagesWritten'
  BY <1>1 DEF DiskInv, CatalogPagesWritten
<1> QED
  BY <1>1, <1>2 DEF DiskInv

\* A statement that stores a row in the pool, with what an allocation writes out.
LEMMA StoreStep ==
  ASSUME DiskInv, Idle,
         page' \in [PageIds -> Page], \A p \in PageIds : Layout(page'[p]),
         \A p \in PageIds : Formatted(page[p]) => Formatted(page'[p]),
         numPages' \in 0..MaxPages, last' \in [Tables -> PageIds \cup {NoPage}],
         UNCHANGED <<disk, fileBuf>> \/ FileFlush,
         UNCHANGED <<first, saved, ddl, lost>>
  PROVE  DiskInv'
<1>1. first' = first /\ saved' = saved /\ ddl' = ddl /\ lost' = lost
  OBVIOUS
<1>2. \A t \in Tables : ddl'[t] = "idle"
  BY <1>1 DEF Idle
<1>3. /\ disk' \in [PageIds -> Page] /\ \A p \in PageIds : Layout(disk'[p])
      /\ fileBuf'.id \in PageIds \cup {NoPage}
      /\ fileBuf'.id # NoPage =>
           fileBuf'.data \in Page /\ Layout(fileBuf'.data) /\ Formatted(fileBuf'.data)
      /\ CatalogPagesWritten'
  <2>1. CASE UNCHANGED <<disk, fileBuf>>
    <3>1. disk' = disk /\ fileBuf' = fileBuf
      BY <2>1
    <3> QED
      BY <1>1, <3>1 DEF DiskInv, CatalogPagesWritten
  <2>2. CASE FileFlush
    <3>1. disk' = Flushed /\ fileBuf'.id = NoPage
      BY <2>2 DEF FileFlush, NoWrite
    <3> QED
      BY <1>1, <3>1, FlushedPages DEF CatalogPagesWritten
  <2> QED
    BY <2>1, <2>2
<1>4. /\ first' \in [Tables -> PageIds \cup {NoPage}] /\ saved' \in [Tables -> PageIds \cup {NoPage}]
      /\ ddl' \in [Tables -> {"idle", "flush", "save"}]
  BY <1>1 DEF DiskInv
<1>5. \A t \in Tables : /\ saved'[t] # NoPage => first'[t] = saved'[t]
                        /\ first'[t] # NoPage /\ t \notin lost' => Formatted(page'[first'[t]])
  BY SMTT(30), <1>1 DEF DiskInv
<1> QED
  BY <1>2, <1>3, <1>4, <1>5 DEF DiskInv

\* A row goes to the last page.
LEMMA InsertRowStep ==
  ASSUME DiskInv, NEW t \in Tables, NEW r \in Rows, InsertRow(t, r)
  PROVE  DiskInv'
<1>1. /\ Idle /\ Insert(t, r) /\ UNCHANGED <<disk, fileBuf>>
      /\ UNCHANGED <<first, saved, ddl, lost>>
      /\ numPages' \in 0..MaxPages /\ last' \in [Tables -> PageIds \cup {NoPage}]
  BY DEF InsertRow, Insert, DiskInv
<1> QED
  BY <1>1, InsertPages, StoreStep

\* A row goes to a new page.
LEMMA InsertRowGrowsStep ==
  ASSUME DiskInv, NEW t \in Tables, NEW r \in Rows, InsertRowGrows(t, r)
  PROVE  DiskInv'
<1>1. /\ Idle /\ InsertGrows(t, r) /\ FileFlush
      /\ UNCHANGED <<first, saved, ddl, lost>>
      /\ numPages \in PageIds /\ numPages' = numPages + 1 /\ last' = [last EXCEPT ![t] = numPages]
  BY DEF InsertRowGrows, InsertGrows
<1>2. /\ numPages' \in 0..MaxPages
      /\ last' \in [Tables -> PageIds \cup {NoPage}]
  BY SMTT(30), <1>1, HeapAssumption DEF PageIds, DiskInv
<1> QED
  BY <1>1, <1>2, GrowPages, StoreStep

\* A page is written back over what is in the file.
LEMMA WriteBackStep ==
  ASSUME DiskInv, NEW p \in PageIds, WriteBack(p)
  PROVE  DiskInv'
<1>1. /\ Idle /\ disk' = [Flushed EXCEPT ![p] = page[p]]
      /\ fileBuf'.id = NoPage
      /\ numPages' = numPages /\ page' = page /\ first' = first /\ last' = last
      /\ saved' = saved /\ ddl' = ddl /\ lost' = lost
  BY DEF WriteBack, heapVars, NoWrite
<1>2. \A q \in PageIds : disk'[q] = IF q = p THEN page[p] ELSE Flushed[q]
  BY <1>1, FlushedPages
<1>3. disk' \in [PageIds -> Page] /\ \A q \in PageIds : Layout(disk'[q])
  <2>1. page[p] \in Page /\ Layout(page[p])
    BY DEF DiskInv
  <2> QED
    BY <1>1, <1>2, <2>1, FlushedPages
<1>4. CatalogPagesWritten'
  <2> SUFFICES ASSUME NEW t \in Tables, saved[t] # NoPage, t \notin lost
               PROVE  Formatted(disk'[saved[t]])
    BY <1>1 DEF CatalogPagesWritten
  <2>1. saved[t] \in PageIds /\ first[t] = saved[t] /\ Formatted(page[saved[t]])
    BY DEF DiskInv
  <2>2. Formatted(Flushed[saved[t]])
    BY FlushedPages
  <2> QED
    BY <1>2, <2>1, <2>2
<1>5. \A t \in Tables : ddl[t] = "idle"
  BY <1>1 DEF Idle
<1> QED
  BY <1>1, <1>3, <1>4, <1>5 DEF DiskInv

\* The buffer of the file object is written out.
LEMMA DrainStep ==
  ASSUME DiskInv, Drain
  PROVE  DiskInv'
<1>1. /\ disk' = Flushed /\ fileBuf'.id = NoPage
      /\ numPages' = numPages /\ page' = page /\ first' = first /\ last' = last
      /\ saved' = saved /\ ddl' = ddl /\ lost' = lost
  BY DEF Drain, FileFlush, heapVars, NoWrite
<1>2. CatalogPagesWritten'
  BY <1>1, FlushedPages DEF CatalogPagesWritten
<1>3. \A t \in Tables : ddl[t] = "save" => Formatted(disk'[first[t]])
  <2> SUFFICES ASSUME NEW t \in Tables, ddl[t] = "save"
               PROVE  Formatted(disk'[first[t]])
    OBVIOUS
  <2>1. first[t] \in PageIds /\ (Formatted(disk[first[t]]) \/ first[t] = fileBuf.id)
    BY DEF DiskInv
  <2>2. Formatted(Flushed[first[t]])
    BY <2>1, FlushedPages
  <2> QED
    BY <1>1, <2>2
<1> QED
  BY <1>1, <1>2, <1>3, FlushedPages DEF DiskInv

\* A crash leaves the file and the catalog; a page in the buffer is lost, with its table.
LEMMA CrashStep ==
  ASSUME DiskInv, Crash
  PROVE  DiskInv'
<1>1. /\ page' = disk /\ first' = saved /\ last' = [t \in Tables |-> NoPage]
      /\ ddl' = [t \in Tables |-> "idle"] /\ fileBuf'.id = NoPage
      /\ lost' = lost \cup {t \in Tables : saved[t] # NoPage /\ saved[t] = fileBuf.id}
      /\ numPages' = numPages /\ disk' = disk /\ saved' = saved
  BY DEF Crash, NoWrite
<1>2. \A t \in Tables : saved[t] # NoPage /\ t \notin lost' => Formatted(disk[saved[t]])
  BY <1>1 DEF DiskInv, CatalogPagesWritten
<1>3. CatalogPagesWritten'
  BY <1>1, <1>2 DEF CatalogPagesWritten
<1> QED
  BY <1>1, <1>2, <1>3 DEF DiskInv

-----------------------------------------------------------------------------
(* The theorem *)

\* The invariant holds in an empty file.
LEMMA DiskInvInit == DiskInit => DiskInv
<1> SUFFICES ASSUME DiskInit PROVE DiskInv
  OBVIOUS
<1>1. ASSUME NEW p \in PageIds
      PROVE  ZeroPage \in Page /\ Layout(ZeroPage)
  <2>1. 0 \in PageIds
    BY SMTT(30), HeapAssumption DEF PageIds
  <2> QED
    BY <2>1, FreshPages
<1> QED
  BY SMTT(30), <1>1, HeapAssumption DEF DiskInit, Init, DiskInv, NoWrite, CatalogPagesWritten

\* Every step keeps it.
LEMMA DiskInvStep == DiskInv /\ [DiskNext]_diskVars => DiskInv'
<1> SUFFICES ASSUME DiskInv, [DiskNext]_diskVars PROVE DiskInv'
  OBVIOUS
<1>1. CASE UNCHANGED diskVars
  BY <1>1 DEF diskVars, heapVars, DiskInv, CatalogPagesWritten
<1>2. CASE DiskNext
  BY <1>2, CreateTableStep, FlushFirstPageStep, SaveCatalogStep, OpenTableStep, InsertRowStep,
     InsertRowGrowsStep, WriteBackStep, DrainStep, CrashStep DEF DiskNext
<1> QED
  BY <1>1, <1>2

\* Wherever the process dies, and however often, the first page of a table that the
\* catalog names is formatted in the file, unless a crash caught it in the buffer of the
\* file object: create_table flushes the page before it saves the catalog.
THEOREM FirstPagesWritten == DiskSpec => []CatalogPagesWritten
<1>1. DiskInv => CatalogPagesWritten
  BY DEF DiskInv
<1> QED
  BY <1>1, DiskInvInit, DiskInvStep, PTL DEF DiskSpec
=============================================================================
