----------------------------- MODULE PinsSteps -------------------------------
(***************************************************************************)
(* What the methods of Pins.tla do, for every number of frames, pages and  *)
(* rows, and what the steps of a statement keep.                           *)
(*                                                                         *)
(* A sequence of calls is judged by what is open at each of its positions: *)
(* the pages that the calls from there on release, or use, before they pin *)
(* them again.  The invariant (PinsInv) bounds the pins of a page by that: *)
(* from below by those of the scans, and one more if the page is needed;   *)
(* from above by the same, where it is open, on top of the pins that there *)
(* were before the statement.                                              *)
(***************************************************************************)
EXTENDS Pins, TLAPS

\* Most leaves need first-order and set reasoning only: they go to Zenon, the others
\* name their prover.
USE ZenonT(30)

-----------------------------------------------------------------------------
(* Calls *)

PageCalls == {"fetch", "new", "use", "unpin", "finally", "link", "throw"}

Call == (PageCalls \X Pages) \cup ({"split"} \X (Seq(SUBSET Pages) \ {<<>>}))

Opens(c, p) == c[1] \in {"fetch", "new"} /\ c[2] = p

\* The page is released, or the exception that leaves it pinned is raised.
Closes(c, p) == c[1] \in {"unpin", "finally", "throw"} /\ c[2] = p

\* The page has to be pinned.
Needs(c, p) == c[1] \in {"use", "unpin"} /\ c[2] = p

\* The calls from position i on release p, or need it, before they pin it.
Open(s, i, p) == \E k \in i..Len(s) : Closes(s[k], p) /\ \A j \in i..(k - 1) : ~Opens(s[j], p)

Needed(s, i, p) == \E k \in i..Len(s) : Needs(s[k], p) /\ \A j \in i..(k - 1) : ~Opens(s[j], p)

\* What is pinned is released, but for what a scan keeps at the end, and what is
\* released is not used.
Disciplined(s, keep) ==
  \A i \in 1..Len(s), p \in Pages :
    /\ Closes(s[i], p) => ~Needed(s, i + 1, p)
    /\ Opens(s[i], p) => Open(s, i + 1, p) \/ (i = Len(s) /\ p = keep)

\* Where a page is pinned at most one other is open, or none.
Narrow(s) ==
  \A i \in 1..Len(s), q, p1, p2 \in Pages : Opens(s[i], q) /\ Open(s, i, p1) /\ Open(s, i, p2) => p1 = p2

Sequential(s) == \A i \in 1..Len(s), q, p \in Pages : Opens(s[i], q) => ~Open(s, i, p)

\* Nothing is open, or needed, when the calls begin.
Fresh(s) == \A p \in Pages : ~Open(s, 1, p) /\ ~Needed(s, 1, p)

Method(s, keep) == s \in Seq(Call) /\ Fresh(s) /\ Disciplined(s, keep) /\ Narrow(s)

Only(s, ops) == \A i \in 1..Len(s) : s[i][1] \in ops

Plain == {"fetch", "use", "unpin"}
Growing == {"fetch", "new", "use", "unpin"}
Unguarded == {"fetch", "new", "use", "unpin", "link", "split", "throw"}
Quiet == {"fetch", "use", "unpin", "finally", "throw"}

\* The pages of the chains and of the tree have been allocated, and so will those
\* be that the calls add to them.
Mentioned(c) == CASE c[1] = "link"  -> {c[2]}
                  [] c[1] = "split" -> UNION {c[2][l] : l \in 1..Len(c[2])}
                  [] OTHER          -> {}

Allocates(s, last) ==
  \A i \in 1..Len(s) :
    /\ s[i][1] = "new" => s[i][2] > last /\ \A k \in (i + 1)..Len(s) : s[k][1] = "new" => s[k][2] > s[i][2]
    /\ \A p \in Mentioned(s[i]) :
         p <= last \/ \E j \in 1..(i - 1) : s[j][1] = "new" /\ p <= s[j][2]

-----------------------------------------------------------------------------
(* The state that methods are called in *)

Cursor == [table : Tables, at : Nat \ {0}, row : Nat \ {0}]

Statement == [kind : Kinds \cup {"idle", "raising", "create index"}, opened : BOOLEAN,
              stage : {"none", "index", "entry"}, changes : Nat,
              outcome : {"ok", "none", "full", "error", "dropped"}]

StateOK ==
  /\ allocated \in Pages
  /\ chain \in [Tables -> Seq(Pages)]
  /\ \A t \in Tables : Len(chain[t]) > 0 /\ \A i \in 1..Len(chain[t]) : chain[t][i] <= allocated
  /\ level \in Seq(SUBSET Pages)
  /\ \A l \in 1..Len(level) : \A p \in level[l] : p <= allocated
  /\ stmt \in Statement
  /\ before \in [Pages -> Nat]
  /\ cursors \in Seq(Cursor) /\ Len(cursors) <= 2
  /\ \A i \in 1..Len(cursors) : cursors[i].at <= Len(chain[cursors[i].table])

-----------------------------------------------------------------------------
(* What is open along a sequence of calls *)

\* What is open at a position, from the call there and what is open behind it.
LEMMA Unfold ==
  ASSUME NEW s, Len(s) \in Nat, NEW i \in 1..Len(s), NEW p
  PROVE  /\ Open(s, i, p) <=> Closes(s[i], p) \/ (~Opens(s[i], p) /\ Open(s, i + 1, p))
         /\ Needed(s, i, p) <=> Needs(s[i], p) \/ (~Opens(s[i], p) /\ Needed(s, i + 1, p))
<1>1. /\ i..(i - 1) = {} /\ i \in i..Len(s)
      /\ \A k \in i..Len(s) : k = i \/ (k \in (i + 1)..Len(s) /\ i \in i..(k - 1))
      /\ \A k \in (i + 1)..Len(s) : k \in i..Len(s)
      /\ \A k \in Int : \A j \in (i + 1)..(k - 1) : j \in i..(k - 1)
      /\ \A k \in Int : \A j \in i..(k - 1) : j = i \/ j \in (i + 1)..(k - 1)
  BY SMTT(30)
<1>2. \A k \in i..Len(s) : k \in Int
  BY SMTT(30)
<1>3. \A k \in (i + 1)..Len(s) : k \in Int
  BY SMTT(30)
<1>4. ASSUME Open(s, i, p)
      PROVE  Closes(s[i], p) \/ (~Opens(s[i], p) /\ Open(s, i + 1, p))
  BY <1>1, <1>2, <1>4 DEF Open
<1>5. ASSUME Closes(s[i], p) \/ (~Opens(s[i], p) /\ Open(s, i + 1, p))
      PROVE  Open(s, i, p)
  BY <1>1, <1>3, <1>5 DEF Open
<1>6. ASSUME Needed(s, i, p)
      PROVE  Needs(s[i], p) \/ (~Opens(s[i], p) /\ Needed(s, i + 1, p))
  BY <1>1, <1>2, <1>6 DEF Needed
<1>7. ASSUME Needs(s[i], p) \/ (~Opens(s[i], p) /\ Needed(s, i + 1, p))
      PROVE  Needed(s, i, p)
  BY <1>1, <1>3, <1>7 DEF Needed
<1> QED
  BY <1>4, <1>5, <1>6, <1>7

\* Nothing is open at the end.
LEMMA AtEnd ==
  ASSUME NEW s, Len(s) \in Nat, NEW p
  PROVE  ~Open(s, Len(s) + 1, p) /\ ~Needed(s, Len(s) + 1, p)
<1>1. (Len(s) + 1)..Len(s) = {}
  BY SMTT(30)
<1> QED
  BY <1>1 DEF Open, Needed

\* The calls that remain when the first has been made.
LEMMA TailAt ==
  ASSUME NEW S, NEW s \in Seq(S), s # <<>>
  PROVE  /\ Tail(s) \in Seq(S) /\ Len(s) \in Nat \ {0} /\ Len(Tail(s)) \in Nat /\ Len(s) = Len(Tail(s)) + 1
         /\ \A i \in 1..Len(Tail(s)) : Tail(s)[i] = s[i + 1]
         /\ Head(s) = s[1] /\ s[1] \in S
BY SMTT(30)

\* A segment of a sequence behind which nothing is open: what is open in it is what
\* is open in the segment by itself.
LEMMA SegmentOpen ==
  ASSUME NEW s, NEW t, Len(s) \in Nat, Len(t) \in Nat, NEW d \in Nat, d + Len(s) <= Len(t),
         \A k \in 1..Len(s) : t[d + k] = s[k], NEW p, NEW i \in 1..(Len(s) + 1)
  PROVE  /\ Open(s, i, p) => Open(t, d + i, p)
         /\ Needed(s, i, p) => Needed(t, d + i, p)
         /\ ~Open(t, d + Len(s) + 1, p) => (Open(t, d + i, p) => Open(s, i, p))
         /\ ~Needed(t, d + Len(s) + 1, p) => (Needed(t, d + i, p) => Needed(s, i, p))
<1>1. /\ \A k \in i..Len(s) : d + k \in (d + i)..Len(t) /\ k \in 1..Len(s)
      /\ \A k \in i..Len(s) : \A j \in (d + i)..(d + k - 1) :
           j - d \in i..(k - 1) /\ j - d \in 1..Len(s) /\ j = d + (j - d)
      /\ \A k \in (d + i)..Len(t) : \/ k - d \in i..Len(s) /\ k = d + (k - d)
                                    \/ k \in (d + Len(s) + 1)..Len(t)
      /\ \A k \in (d + i)..Len(t) : \A j \in (d + Len(s) + 1)..(k - 1) : j \in (d + i)..(k - 1)
  BY SMTT(30)
<1>2. ASSUME Open(s, i, p) PROVE Open(t, d + i, p)
  <2>1. PICK k \in i..Len(s) : Closes(s[k], p) /\ \A j \in i..(k - 1) : ~Opens(s[j], p)
    BY <1>2 DEF Open
  <2>2. ASSUME NEW j \in (d + i)..(d + k - 1) PROVE ~Opens(t[j], p)
    <3>1. j - d \in i..(k - 1) /\ j - d \in 1..Len(s) /\ j = d + (j - d)
      BY <2>1, <1>1
    <3>2. t[d + (j - d)] = s[j - d]
      BY <3>1
    <3> QED
      BY <3>1, <3>2, <2>1
  <2>3. d + k \in (d + i)..Len(t) /\ t[d + k] = s[k]
    BY <2>1, <1>1
  <2> QED
    BY <2>1, <2>2, <2>3, SMTT(30) DEF Open
<1>3. ASSUME Needed(s, i, p) PROVE Needed(t, d + i, p)
  <2>1. PICK k \in i..Len(s) : Needs(s[k], p) /\ \A j \in i..(k - 1) : ~Opens(s[j], p)
    BY <1>3 DEF Needed
  <2>2. ASSUME NEW j \in (d + i)..(d + k - 1) PROVE ~Opens(t[j], p)
    <3>1. j - d \in i..(k - 1) /\ j - d \in 1..Len(s) /\ j = d + (j - d)
      BY <2>1, <1>1
    <3>2. t[d + (j - d)] = s[j - d]
      BY <3>1
    <3> QED
      BY <3>1, <3>2, <2>1
  <2>3. d + k \in (d + i)..Len(t) /\ t[d + k] = s[k]
    BY <2>1, <1>1
  <2> QED
    BY <2>1, <2>2, <2>3, SMTT(30) DEF Needed
<1>4. ASSUME ~Open(t, d + Len(s) + 1, p), Open(t, d + i, p) PROVE Open(s, i, p)
  <2>1. PICK k \in (d + i)..Len(t) : Closes(t[k], p) /\ \A j \in (d + i)..(k - 1) : ~Opens(t[j], p)
    BY <1>4 DEF Open
  <2>2. k \notin (d + Len(s) + 1)..Len(t)
    BY <2>1, <1>1, <1>4 DEF Open
  <2>3. k - d \in i..Len(s) /\ k = d + (k - d)
    BY <2>1, <2>2, <1>1
  <2>4. ASSUME NEW j \in i..((k - d) - 1) PROVE ~Opens(s[j], p)
    <3>1. d + j \in (d + i)..(k - 1) /\ j \in 1..Len(s)
      BY <2>3, SMTT(30)
    <3>2. t[d + j] = s[j]
      BY <3>1
    <3> QED
      BY <3>1, <3>2, <2>1
  <2> QED
    BY <2>1, <2>3, <2>4, <1>1 DEF Open
<1>5. ASSUME ~Needed(t, d + Len(s) + 1, p), Needed(t, d + i, p) PROVE Needed(s, i, p)
  <2>1. PICK k \in (d + i)..Len(t) : Needs(t[k], p) /\ \A j \in (d + i)..(k - 1) : ~Opens(t[j], p)
    BY <1>5 DEF Needed
  <2>2. k \notin (d + Len(s) + 1)..Len(t)
    BY <2>1, <1>1, <1>5 DEF Needed
  <2>3. k - d \in i..Len(s) /\ k = d + (k - d)
    BY <2>1, <2>2, <1>1
  <2>4. ASSUME NEW j \in i..((k - d) - 1) PROVE ~Opens(s[j], p)
    <3>1. d + j \in (d + i)..(k - 1) /\ j \in 1..Len(s)
      BY <2>3, SMTT(30)
    <3>2. t[d + j] = s[j]
      BY <3>1
    <3> QED
      BY <3>1, <3>2, <2>1
  <2> QED
    BY <2>1, <2>3, <2>4, <1>1 DEF Needed
<1> QED
  BY <1>2, <1>3, <1>4, <1>5

\* What is open behind the first call.
LEMMA TailOpen ==
  ASSUME NEW S, NEW s \in Seq(S), s # <<>>, NEW i \in 1..Len(s), NEW p
  PROVE  /\ Open(Tail(s), i, p) <=> Open(s, i + 1, p)
         /\ Needed(Tail(s), i, p) <=> Needed(s, i + 1, p)
<1>1. /\ Len(s) \in Nat \ {0} /\ Len(Tail(s)) \in Nat /\ Len(s) = Len(Tail(s)) + 1
      /\ \A k \in 1..Len(Tail(s)) : Tail(s)[k] = s[k + 1]
  BY TailAt
<1>2. /\ i \in 1..(Len(Tail(s)) + 1) /\ 1 \in Nat /\ 1 + Len(Tail(s)) <= Len(s) /\ 1 + i = i + 1
      /\ 1 + Len(Tail(s)) + 1 = Len(s) + 1 /\ \A k \in 1..Len(Tail(s)) : 1 + k = k + 1
      /\ Len(s) \in Nat
  BY <1>1, SMTT(30)
<1>3. ~Open(s, Len(s) + 1, p) /\ ~Needed(s, Len(s) + 1, p)
  BY <1>2, AtEnd
<1>4. \A k \in 1..Len(Tail(s)) : s[1 + k] = Tail(s)[k]
  BY <1>1, <1>2
<1>5. /\ Open(Tail(s), i, p) => Open(s, 1 + i, p)
      /\ Needed(Tail(s), i, p) => Needed(s, 1 + i, p)
      /\ ~Open(s, 1 + Len(Tail(s)) + 1, p) => (Open(s, 1 + i, p) => Open(Tail(s), i, p))
      /\ ~Needed(s, 1 + Len(Tail(s)) + 1, p) => (Needed(s, 1 + i, p) => Needed(Tail(s), i, p))
  BY <1>1, <1>2, <1>4, SegmentOpen
<1> QED
  BY <1>2, <1>3, <1>5

-----------------------------------------------------------------------------
(* Methods put together *)

\* A method that is a segment of a sequence behaves there as it does by itself.
LEMMA SegmentMethod ==
  ASSUME NEW s, NEW t, NEW keep, NEW d \in Nat, Len(s) \in Nat, Len(t) \in Nat, d + Len(s) <= Len(t),
         Method(s, keep), \A k \in 1..Len(s) : t[d + k] = s[k],
         keep \notin Pages \/ d + Len(s) = Len(t),
         \A p \in Pages : ~Open(t, d + Len(s) + 1, p) /\ ~Needed(t, d + Len(s) + 1, p)
  PROVE  /\ \A p \in Pages : ~Open(t, d + 1, p) /\ ~Needed(t, d + 1, p)
         /\ \A i \in 1..Len(s), p \in Pages :
              /\ Closes(t[d + i], p) => ~Needed(t, d + i + 1, p)
              /\ Opens(t[d + i], p) => Open(t, d + i + 1, p) \/ (d + i = Len(t) /\ p = keep)
         /\ \A i \in 1..Len(s), q, p1, p2 \in Pages :
              Opens(t[d + i], q) /\ Open(t, d + i, p1) /\ Open(t, d + i, p2) => p1 = p2
         /\ Sequential(s) =>
              \A i \in 1..Len(s), q, p \in Pages : Opens(t[d + i], q) => ~Open(t, d + i, p)
<1>1. ASSUME NEW i \in 1..(Len(s) + 1), NEW p \in Pages
      PROVE  (Open(s, i, p) <=> Open(t, d + i, p)) /\ (Needed(s, i, p) <=> Needed(t, d + i, p))
  <2>1. /\ Open(s, i, p) => Open(t, d + i, p)
        /\ Needed(s, i, p) => Needed(t, d + i, p)
        /\ ~Open(t, d + Len(s) + 1, p) => (Open(t, d + i, p) => Open(s, i, p))
        /\ ~Needed(t, d + Len(s) + 1, p) => (Needed(t, d + i, p) => Needed(s, i, p))
    BY SegmentOpen
  <2> QED
    BY <2>1
<1>2. /\ 1 \in 1..(Len(s) + 1)
      /\ \A i \in 1..Len(s) : /\ i \in 1..(Len(s) + 1) /\ i + 1 \in 1..(Len(s) + 1)
                              /\ d + (i + 1) = d + i + 1 /\ (i = Len(s) => d + i = d + Len(s))
  BY SMTT(30)
<1>3. \A p \in Pages : ~Open(t, d + 1, p) /\ ~Needed(t, d + 1, p)
  BY <1>1, <1>2 DEF Method, Fresh
<1>4. ASSUME NEW i \in 1..Len(s), NEW p \in Pages
      PROVE  /\ Closes(t[d + i], p) => ~Needed(t, d + i + 1, p)
             /\ Opens(t[d + i], p) => Open(t, d + i + 1, p) \/ (d + i = Len(t) /\ p = keep)
  <2>1. /\ Closes(s[i], p) => ~Needed(s, i + 1, p)
        /\ Opens(s[i], p) => Open(s, i + 1, p) \/ (i = Len(s) /\ p = keep)
    BY DEF Method, Disciplined
  <2>2. t[d + i] = s[i] /\ i + 1 \in 1..(Len(s) + 1) /\ d + (i + 1) = d + i + 1
    BY <1>2
  <2>3. (Open(s, i + 1, p) <=> Open(t, d + i + 1, p)) /\ (Needed(s, i + 1, p) <=> Needed(t, d + i + 1, p))
    <3>1. (Open(s, i + 1, p) <=> Open(t, d + (i + 1), p)) /\ (Needed(s, i + 1, p) <=> Needed(t, d + (i + 1), p))
      BY <2>2, <1>1
    <3> QED
      BY <3>1, <2>2
  <2>4. i = Len(s) /\ p = keep => d + i = Len(t)
    BY <1>2
  <2> QED
    BY <2>1, <2>2, <2>3, <2>4
<1>5. ASSUME NEW i \in 1..Len(s), NEW q \in Pages, NEW p1 \in Pages, NEW p2 \in Pages,
             Opens(t[d + i], q), Open(t, d + i, p1), Open(t, d + i, p2)
      PROVE  p1 = p2
  <2>1. t[d + i] = s[i] /\ i \in 1..(Len(s) + 1)
    BY <1>2
  <2>2. Open(s, i, p1) /\ Open(s, i, p2)
    BY <2>1, <1>1, <1>5
  <2> QED
    BY <2>1, <2>2, <1>5 DEF Method, Narrow
<1>6. ASSUME Sequential(s), NEW i \in 1..Len(s), NEW q \in Pages, NEW p \in Pages, Opens(t[d + i], q)
      PROVE  ~Open(t, d + i, p)
  <2>1. t[d + i] = s[i] /\ i \in 1..(Len(s) + 1)
    BY <1>2
  <2> QED
    BY <2>1, <1>1, <1>6 DEF Sequential
<1> QED
  BY <1>3, <1>4, <1>5, <1>6

\* The calls of two sequences, one after the other.
LEMMA ConcatAt ==
  ASSUME NEW a \in Seq(Call), NEW b \in Seq(Call)
  PROVE  /\ a \o b \in Seq(Call) /\ Len(a) \in Nat /\ Len(b) \in Nat /\ Len(a \o b) \in Nat
         /\ Len(a \o b) = Len(a) + Len(b)
         /\ \A k \in 1..Len(a) : (a \o b)[k] = a[k]
         /\ \A k \in 1..Len(b) : (a \o b)[Len(a) + k] = b[k]
BY SMTT(30)

\* One method after the other.
LEMMA ConcatMethod ==
  ASSUME NEW a, NEW b, NEW keep, Method(a, 0), Method(b, keep)
  PROVE  /\ Method(a \o b, keep)
         /\ Sequential(a) /\ Sequential(b) => Sequential(a \o b)
         /\ \A ops : Only(a, ops) /\ Only(b, ops) => Only(a \o b, ops)
<1> DEFINE t == a \o b
<1>1. a \in Seq(Call) /\ b \in Seq(Call) /\ 0 \notin Pages
  BY SMTT(30) DEF Method, Pages
<1>2. /\ t \in Seq(Call) /\ Len(a) \in Nat /\ Len(b) \in Nat /\ Len(t) \in Nat /\ Len(t) = Len(a) + Len(b)
      /\ \A k \in 1..Len(a) : t[k] = a[k]
      /\ \A k \in 1..Len(b) : t[Len(a) + k] = b[k]
  BY <1>1, ConcatAt
<1> HIDE DEF t
<1>3. /\ \A i \in 1..Len(t) : \/ i \in 1..Len(a)
                              \/ i - Len(a) \in 1..Len(b) /\ i = Len(a) + (i - Len(a))
      /\ Len(a) + Len(b) + 1 = Len(t) + 1 /\ Len(a) + Len(b) <= Len(t) /\ 0 + Len(a) <= Len(t)
      /\ 0 \in Nat /\ 0 + Len(a) + 1 = Len(a) + 1 /\ 0 + 1 = 1
      /\ \A k \in 1..Len(a) : 0 + k = k
  BY <1>2, SMTT(30)
<1>4. \A p \in Pages : ~Open(t, Len(a) + Len(b) + 1, p) /\ ~Needed(t, Len(a) + Len(b) + 1, p)
  BY <1>2, <1>3, AtEnd
<1>5. Len(a) + Len(b) = Len(t)
  BY <1>2
<1>6. /\ \A p \in Pages : ~Open(t, Len(a) + 1, p) /\ ~Needed(t, Len(a) + 1, p)
      /\ \A i \in 1..Len(b), p \in Pages :
           /\ Closes(t[Len(a) + i], p) => ~Needed(t, Len(a) + i + 1, p)
           /\ Opens(t[Len(a) + i], p) => Open(t, Len(a) + i + 1, p) \/ (Len(a) + i = Len(t) /\ p = keep)
      /\ \A i \in 1..Len(b), q, p1, p2 \in Pages :
           Opens(t[Len(a) + i], q) /\ Open(t, Len(a) + i, p1) /\ Open(t, Len(a) + i, p2) => p1 = p2
      /\ Sequential(b) =>
           \A i \in 1..Len(b), q, p \in Pages : Opens(t[Len(a) + i], q) => ~Open(t, Len(a) + i, p)
  BY <1>2, <1>3, <1>4, <1>5, SegmentMethod
<1>7. \A k \in 1..Len(a) : t[0 + k] = a[k]
  BY <1>2, <1>3
<1>8. \A p \in Pages : ~Open(t, 0 + Len(a) + 1, p) /\ ~Needed(t, 0 + Len(a) + 1, p)
  BY <1>6, <1>3
<1>9. /\ \A p \in Pages : ~Open(t, 0 + 1, p) /\ ~Needed(t, 0 + 1, p)
      /\ \A i \in 1..Len(a), p \in Pages :
           /\ Closes(t[0 + i], p) => ~Needed(t, 0 + i + 1, p)
           /\ Opens(t[0 + i], p) => Open(t, 0 + i + 1, p) \/ (0 + i = Len(t) /\ p = 0)
      /\ \A i \in 1..Len(a), q, p1, p2 \in Pages :
           Opens(t[0 + i], q) /\ Open(t, 0 + i, p1) /\ Open(t, 0 + i, p2) => p1 = p2
      /\ Sequential(a) =>
           \A i \in 1..Len(a), q, p \in Pages : Opens(t[0 + i], q) => ~Open(t, 0 + i, p)
  BY <1>1, <1>2, <1>3, <1>7, <1>8, SegmentMethod
<1>10. Fresh(t)
  BY <1>9, <1>3 DEF Fresh
<1>11. Disciplined(t, keep)
  <2> SUFFICES ASSUME NEW i \in 1..Len(t), NEW p \in Pages
               PROVE  /\ Closes(t[i], p) => ~Needed(t, i + 1, p)
                      /\ Opens(t[i], p) => Open(t, i + 1, p) \/ (i = Len(t) /\ p = keep)
    BY DEF Disciplined
  <2>1. CASE i \in 1..Len(a)
    <3>1. 0 + i = i
      BY <2>1, <1>3
    <3>2. /\ Closes(t[0 + i], p) => ~Needed(t, 0 + i + 1, p)
          /\ Opens(t[0 + i], p) => Open(t, 0 + i + 1, p) \/ (0 + i = Len(t) /\ p = 0)
      BY <2>1, <1>9
    <3> QED
      BY <3>1, <3>2, <1>1
  <2>2. CASE i - Len(a) \in 1..Len(b) /\ i = Len(a) + (i - Len(a))
    <3>1. /\ Closes(t[Len(a) + (i - Len(a))], p) => ~Needed(t, Len(a) + (i - Len(a)) + 1, p)
          /\ Opens(t[Len(a) + (i - Len(a))], p) =>
               \/ Open(t, Len(a) + (i - Len(a)) + 1, p)
               \/ Len(a) + (i - Len(a)) = Len(t) /\ p = keep
      BY <2>2, <1>6
    <3> QED
      BY <3>1, <2>2
  <2> QED
    BY <2>1, <2>2, <1>3
<1>12. Narrow(t)
  <2> SUFFICES ASSUME NEW i \in 1..Len(t), NEW q \in Pages, NEW p1 \in Pages, NEW p2 \in Pages,
                      Opens(t[i], q), Open(t, i, p1), Open(t, i, p2)
               PROVE  p1 = p2
    BY DEF Narrow
  <2>1. CASE i \in 1..Len(a)
    <3>1. 0 + i = i
      BY <2>1, <1>3
    <3>2. Opens(t[0 + i], q) /\ Open(t, 0 + i, p1) /\ Open(t, 0 + i, p2)
      BY <3>1
    <3> QED
      BY <3>2, <2>1, <1>9
  <2>2. ASSUME NEW k \in 1..Len(b), i = Len(a) + k PROVE p1 = p2
    <3>1. Opens(t[Len(a) + k], q) /\ Open(t, Len(a) + k, p1) /\ Open(t, Len(a) + k, p2)
      BY <2>2
    <3> QED
      BY <3>1, <1>6
  <2> QED
    BY <2>1, <2>2, <1>3
<1>13. ASSUME Sequential(a), Sequential(b) PROVE Sequential(t)
  <2> SUFFICES ASSUME NEW i \in 1..Len(t), NEW q \in Pages, NEW p \in Pages, Opens(t[i], q)
               PROVE  ~Open(t, i, p)
    BY DEF Sequential
  <2>1. CASE i \in 1..Len(a)
    <3>1. 0 + i = i
      BY <2>1, <1>3
    <3>2. Opens(t[0 + i], q)
      BY <3>1
    <3>3. ~Open(t, 0 + i, p)
      BY <3>2, <2>1, <1>9, <1>13
    <3> QED
      BY <3>1, <3>3
  <2>2. ASSUME NEW k \in 1..Len(b), i = Len(a) + k PROVE ~Open(t, i, p)
    <3>1. Opens(t[Len(a) + k], q)
      BY <2>2
    <3>2. ~Open(t, Len(a) + k, p)
      BY <3>1, <1>6, <1>13
    <3> QED
      BY <3>2, <2>2
  <2> QED
    BY <2>1, <2>2, <1>3
<1>14. ASSUME NEW ops, Only(a, ops), Only(b, ops) PROVE Only(t, ops)
  <2> SUFFICES ASSUME NEW i \in 1..Len(t) PROVE t[i][1] \in ops
    BY DEF Only
  <2>1. CASE i \in 1..Len(a)
    BY <2>1, <1>2, <1>14 DEF Only
  <2>2. CASE i - Len(a) \in 1..Len(b) /\ i = Len(a) + (i - Len(a))
    <3>1. t[i] = b[i - Len(a)]
      BY <2>2, <1>2
    <3> QED
      BY <3>1, <2>2, <1>14 DEF Only
  <2> QED
    BY <2>1, <2>2, <1>3
<1>15. Method(t, keep)
  BY <1>2, <1>10, <1>11, <1>12 DEF Method
<1> QED
  BY <1>13, <1>14, <1>15 DEF t

\* Products of the length of a block.
LEMMA Times ==
  ASSUME NEW n \in Nat
  PROVE  \A x, y \in Nat : n * x \in Nat /\ (x <= y => n * x <= n * y)
BY SMTT(30)

\* Where block c begins and ends.
LEMMA BlockEnds ==
  ASSUME NEW n \in Nat, NEW m \in Nat, NEW c \in 1..m
  PROVE  c - 1 \in Nat /\ c \in Nat /\ n * (c - 1) \in Nat /\ n * (c - 1) + n = n * c /\ n * c <= n * m
<1>1. c \in Nat /\ c - 1 \in Nat /\ c <= m
  BY SMTT(30)
<1>2. n * c <= n * m /\ n * (c - 1) \in Nat
  BY <1>1, Times
<1>3. n * (c - 1) + n = n * c
  BY <1>1, SMTT(30)
<1> QED
  BY <1>1, <1>2, <1>3

\* Position r of block c.
LEMMA BlockPosition ==
  ASSUME NEW n \in Nat \ {0}, NEW m \in Nat, NEW c \in 1..m, NEW r \in 1..n
  PROVE  /\ n * (c - 1) + r \in 1..(n * m)
         /\ ((n * (c - 1) + r - 1) \div n) + 1 = c
         /\ ((n * (c - 1) + r - 1) % n) + 1 = r
<1>1. c - 1 \in Nat /\ n * (c - 1) \in Nat /\ n * (c - 1) + n = n * c /\ n * c <= n * m /\ n * m \in Nat
  BY BlockEnds, Times
<1>2. n * (c - 1) + r \in 1..(n * m)
  BY <1>1, SMTT(30)
<1>3. \A b \in Nat, x \in 0..(n - 1) : (n * b + x) \div n = b /\ (n * b + x) % n = x
  <2> TAKE b \in Nat, x \in 0..(n - 1)
  <2> QED
    BY SMTT(30)
<1>4. r - 1 \in 0..(n - 1) /\ n * (c - 1) + r - 1 = n * (c - 1) + (r - 1)
  BY <1>1, SMTT(30)
<1>5. (n * (c - 1) + r - 1) \div n = c - 1 /\ (n * (c - 1) + r - 1) % n = r - 1
  BY <1>1, <1>3, <1>4
<1> QED
  BY <1>2, <1>5, SMTT(30)

\* The block that position k is in.
LEMMA BlockOf ==
  ASSUME NEW n \in Nat \ {0}, NEW m \in Nat, NEW k \in 1..(n * m)
  PROVE  /\ ((k - 1) \div n) + 1 \in 1..m
         /\ ((k - 1) % n) + 1 \in 1..n
         /\ k = n * ((k - 1) \div n) + (((k - 1) % n) + 1)
<1>1. k - 1 \in Nat /\ k \in Nat
  BY Times, SMTT(30)
<1>2. ((k - 1) \div n) + 1 \in 1..m
  BY SMTT(30)
<1>3. ((k - 1) % n) + 1 \in 1..n
  BY <1>1, SMTT(30)
<1>4. k - 1 = n * ((k - 1) \div n) + ((k - 1) % n)
  <2> DEFINE b == (k - 1) \div n
             x == (k - 1) - n * b
  <2>1. b \in Nat /\ x \in 0..(n - 1)
    BY <1>1, SMTT(30)
  <2>2. n * b \in Nat
    BY <2>1, Times
  <2>3. n * b + x = k - 1
    BY <1>1, <2>1, <2>2, SMTT(30)
  <2> HIDE DEF b, x
  <2>4. (n * b + x) % n = x
    BY <2>1, SMTT(30)
  <2>5. (k - 1) % n = x
    BY <2>3, <2>4
  <2> QED
    BY <2>3, <2>5 DEF b
<1> QED
  BY <1>1, <1>2, <1>3, <1>4, SMTT(30)

\* Blocks of n calls.
Blocks(blocks, n) ==
  Len(blocks) \in Nat /\ \A c \in 1..Len(blocks) : blocks[c] \in Seq(Call) /\ Len(blocks[c]) = n

IsFlat(t, blocks, n) ==
  /\ t \in Seq(Call) /\ Len(t) = n * Len(blocks)
  /\ \A c \in 1..Len(blocks), r \in 1..n : n * (c - 1) + r \in 1..Len(t) /\ t[n * (c - 1) + r] = blocks[c][r]
  /\ \A k \in 1..Len(t) : \E c \in 1..Len(blocks), r \in 1..n : k = n * (c - 1) + r

\* The calls of a sequence of blocks.
LEMMA FlatAt ==
  ASSUME NEW blocks, NEW n \in Nat \ {0}, Blocks(blocks, n)
  PROVE  IsFlat(Flat(blocks, n), blocks, n)
<1> DEFINE m == Len(blocks)
           t == Flat(blocks, n)
<1>1. m \in Nat
  BY DEF Blocks
<1> HIDE DEF m
<1>2. n * m \in Nat
  BY <1>1, Times
<1>3. t = [k \in 1..(n * m) |-> blocks[((k - 1) \div n) + 1][((k - 1) % n) + 1]]
  BY DEF Flat, m
<1> HIDE DEF t
<1>4. ASSUME NEW c \in 1..m, NEW r \in 1..n PROVE blocks[c][r] \in Call
  <2>1. blocks[c] \in Seq(Call) /\ Len(blocks[c]) = n
    BY DEF m, Blocks
  <2> QED
    BY <2>1, SMTT(30)
<1>5. ASSUME NEW k \in 1..(n * m) PROVE t[k] \in Call
  <2>1. t[k] = blocks[((k - 1) \div n) + 1][((k - 1) % n) + 1]
    BY <1>3
  <2>2. ((k - 1) \div n) + 1 \in 1..m /\ ((k - 1) % n) + 1 \in 1..n
    BY <1>1, BlockOf
  <2> QED
    BY <2>1, <2>2, <1>4
<1>6. DOMAIN t = 1..(n * m)
  BY <1>3
<1>7. t \in Seq(Call) /\ Len(t) = n * m
  <2>1. t = [k \in 1..(n * m) |-> t[k]]
    BY <1>3, <1>6
  <2> QED
    BY <2>1, <1>2, <1>5, SMTT(30)
<1>8. ASSUME NEW c \in 1..m, NEW r \in 1..n
      PROVE  n * (c - 1) + r \in 1..(n * m) /\ t[n * (c - 1) + r] = blocks[c][r]
  <2>1. /\ n * (c - 1) + r \in 1..(n * m)
        /\ ((n * (c - 1) + r - 1) \div n) + 1 = c
        /\ ((n * (c - 1) + r - 1) % n) + 1 = r
    BY <1>1, BlockPosition, SMTT(30)
  <2>2. \A k \in 1..(n * m) : t[k] = blocks[((k - 1) \div n) + 1][((k - 1) % n) + 1]
    BY <1>3
  <2>3. t[n * (c - 1) + r] = blocks[((n * (c - 1) + r - 1) \div n) + 1][((n * (c - 1) + r - 1) % n) + 1]
    BY <2>1, <2>2, SMTT(30)
  <2> QED
    BY <2>1, <2>3
<1>9. ASSUME NEW k \in 1..(n * m) PROVE \E c \in 1..m, r \in 1..n : k = n * (c - 1) + r
  <2>1. /\ ((k - 1) \div n) + 1 \in 1..m
        /\ ((k - 1) % n) + 1 \in 1..n
        /\ k = n * ((k - 1) \div n) + (((k - 1) % n) + 1)
    BY <1>1, BlockOf
  <2>2. (((k - 1) \div n) + 1) - 1 = (k - 1) \div n
    BY <2>1, <1>2, SMTT(30)
  <2> QED
    BY <2>1, <2>2
<1> QED
  BY <1>7, <1>8, <1>9 DEF m, t, IsFlat

\* Methods of the same length one after the other.
LEMMA FlatMethod ==
  ASSUME NEW blocks, NEW n \in Nat \ {0}, Len(blocks) \in Nat,
         \A c \in 1..Len(blocks) : Method(blocks[c], 0) /\ Len(blocks[c]) = n
  PROVE  /\ Method(Flat(blocks, n), 0)
         /\ (\A c \in 1..Len(blocks) : Sequential(blocks[c])) => Sequential(Flat(blocks, n))
         /\ \A ops : (\A c \in 1..Len(blocks) : Only(blocks[c], ops)) => Only(Flat(blocks, n), ops)
<1> DEFINE m == Len(blocks)
           t == Flat(blocks, n)
<1>1. Blocks(blocks, n)
  BY DEF Method, Blocks
<1>2. /\ t \in Seq(Call) /\ Len(t) = n * m
      /\ \A c \in 1..m, r \in 1..n : n * (c - 1) + r \in 1..Len(t) /\ t[n * (c - 1) + r] = blocks[c][r]
      /\ \A k \in 1..Len(t) : \E c \in 1..m, r \in 1..n : k = n * (c - 1) + r
  <2>1. IsFlat(t, blocks, n)
    BY <1>1, FlatAt
  <2> HIDE DEF t
  <2> QED
    BY <2>1 DEF IsFlat
<1>3. m \in Nat /\ \A c \in 1..m : Method(blocks[c], 0) /\ Len(blocks[c]) = n
  OBVIOUS
<1> HIDE DEF m, t
<1>4. n * m \in Nat /\ \A x, y \in Nat : n * x \in Nat /\ (x <= y => n * x <= n * y)
  BY <1>3, Times
<1>5. Len(t) \in Nat /\ 0 \notin Pages
  BY <1>2, <1>4, SMTT(30) DEF Pages
<1>6. ASSUME NEW b \in Nat, NEW k \in (n * b + 1)..Len(t), NEW p \in Pages, 
             Closes(t[k], p) \/ Needs(t[k], p)
      PROVE  \E j \in (n * b + 1)..(k - 1) : Opens(t[j], p)
  <2>1. n * b \in Nat /\ k \in 1..Len(t)
    BY <1>4, <1>5, SMTT(30)
  <2>2. PICK c \in 1..m, r \in 1..n : k = n * (c - 1) + r
    BY <2>1, <1>2
  <2>3. t[k] = blocks[c][r] /\ Method(blocks[c], 0) /\ Len(blocks[c]) = n
    BY <2>2, <1>2, <1>3
  <2>4. ~Open(blocks[c], 1, p) /\ ~Needed(blocks[c], 1, p)
    BY <2>3 DEF Method, Fresh
  <2>5. PICK x \in 1..(r - 1) : Opens(blocks[c][x], p)
    BY <2>3, <2>4, <1>6 DEF Open, Needed
  <2>6. x \in 1..n
    BY SMTT(30)
  <2>7. t[n * (c - 1) + x] = blocks[c][x]
    BY <2>6, <1>2
  <2>8. n * b <= n * (c - 1)
    <3>1. c \in Nat /\ c - 1 \in Nat /\ n * (c - 1) + n = n * c /\ n * (c - 1) \in Nat
      BY <1>3, BlockEnds
    <3>2. CASE b <= c - 1
      BY <3>1, <3>2, <1>4
    <3>3. CASE c <= b
      <4>1. n * c <= n * b /\ n * (c - 1) + n = n * c /\ n * (c - 1) \in Nat /\ n * c \in Nat
        BY <3>1, <3>3, <1>4
      <4>2. \A B, C, D \in Nat : D <= B /\ C + n = D /\ k \in (B + 1)..Len(t) => k # C + r
        BY <1>5, SMTT(30)
      <4> QED
        BY <4>1, <4>2, <2>1, <2>2
    <3> QED
      BY <3>1, <3>2, <3>3, SMTT(30)
  <2>9. n * (c - 1) + x \in (n * b + 1)..(k - 1)
    <3>1. \A B, C \in Nat : B <= C /\ k = C + r => C + x \in (B + 1)..(k - 1)
      BY SMTT(30)
    <3>2. n * (c - 1) \in Nat
      BY <1>3, BlockEnds
    <3> QED
      BY <3>1, <3>2, <2>1, <2>2, <2>8
  <2> QED
    BY <2>5, <2>7, <2>9
<1>7. ASSUME NEW b \in Nat, NEW p \in Pages
      PROVE  ~Open(t, n * b + 1, p) /\ ~Needed(t, n * b + 1, p)
  BY <1>6 DEF Open, Needed
<1>8. ASSUME NEW c \in 1..m
      PROVE  LET s == blocks[c]
                 d == n * (c - 1)
             IN  /\ \A i \in 1..Len(s), p \in Pages :
                      /\ Closes(t[d + i], p) => ~Needed(t, d + i + 1, p)
                      /\ Opens(t[d + i], p) => Open(t, d + i + 1, p) \/ (d + i = Len(t) /\ p = 0)
                 /\ \A i \in 1..Len(s), q, p1, p2 \in Pages :
                      Opens(t[d + i], q) /\ Open(t, d + i, p1) /\ Open(t, d + i, p2) => p1 = p2
                 /\ Sequential(s) =>
                      \A i \in 1..Len(s), q, p \in Pages : Opens(t[d + i], q) => ~Open(t, d + i, p)
  <2> DEFINE s == blocks[c]
             d == n * (c - 1)
  <2>1. Method(s, 0) /\ Len(s) = n /\ Len(s) \in Nat /\ \A k \in 1..Len(s) : t[d + k] = s[k]
    BY <1>2, <1>3
  <2>2. d \in Nat /\ d + Len(s) = n * c /\ d + Len(s) <= Len(t) /\ d + Len(s) + 1 = n * c + 1 /\ c \in Nat
    <3>1. d \in Nat /\ d + n = n * c /\ n * c <= n * m /\ c \in Nat
      BY <1>3, BlockEnds
    <3> QED
      BY <3>1, <2>1, <1>2
  <2>3. \A p \in Pages : ~Open(t, d + Len(s) + 1, p) /\ ~Needed(t, d + Len(s) + 1, p)
    BY <2>2, <1>7
  <2> HIDE DEF s, d
  <2>4. /\ \A p \in Pages : ~Open(t, d + 1, p) /\ ~Needed(t, d + 1, p)
        /\ \A i \in 1..Len(s), p \in Pages :
              /\ Closes(t[d + i], p) => ~Needed(t, d + i + 1, p)
              /\ Opens(t[d + i], p) => Open(t, d + i + 1, p) \/ (d + i = Len(t) /\ p = 0)
        /\ \A i \in 1..Len(s), q, p1, p2 \in Pages :
              Opens(t[d + i], q) /\ Open(t, d + i, p1) /\ Open(t, d + i, p2) => p1 = p2
        /\ Sequential(s) =>
              \A i \in 1..Len(s), q, p \in Pages : Opens(t[d + i], q) => ~Open(t, d + i, p)
    BY <1>5, <2>1, <2>2, <2>3, SegmentMethod
  <2> QED
    BY <2>4 DEF s, d
<1>9. Fresh(t)
  <2>1. n * 0 + 1 = 1 /\ 0 \in Nat
    BY SMTT(30)
  <2> QED
    BY <2>1, <1>7 DEF Fresh
<1>10. Disciplined(t, 0)
  <2> SUFFICES ASSUME NEW i \in 1..Len(t), NEW p \in Pages
               PROVE  /\ Closes(t[i], p) => ~Needed(t, i + 1, p)
                      /\ Opens(t[i], p) => Open(t, i + 1, p) \/ (i = Len(t) /\ p = 0)
    BY DEF Disciplined
  <2>1. PICK c \in 1..m, r \in 1..n : i = n * (c - 1) + r
    BY <1>2
  <2>2. r \in 1..Len(blocks[c])
    BY <1>3
  <2> QED
    BY <2>1, <2>2, <1>8
<1>11. Narrow(t)
  <2> SUFFICES ASSUME NEW i \in 1..Len(t), NEW q \in Pages, NEW p1 \in Pages, NEW p2 \in Pages,
                      Opens(t[i], q), Open(t, i, p1), Open(t, i, p2)
               PROVE  p1 = p2
    BY DEF Narrow
  <2>1. PICK c \in 1..m, r \in 1..n : i = n * (c - 1) + r
    BY <1>2
  <2>2. r \in 1..Len(blocks[c])
    BY <1>3
  <2> QED
    BY <2>1, <2>2, <1>8
<1>12. ASSUME \A c \in 1..m : Sequential(blocks[c]) PROVE Sequential(t)
  <2> SUFFICES ASSUME NEW i \in 1..Len(t), NEW q \in Pages, NEW p \in Pages, Opens(t[i], q)
               PROVE  ~Open(t, i, p)
    BY DEF Sequential
  <2>1. PICK c \in 1..m, r \in 1..n : i = n * (c - 1) + r
    BY <1>2
  <2>2. r \in 1..Len(blocks[c])
    BY <1>3
  <2> QED
    BY <2>1, <2>2, <1>8, <1>12
<1>13. ASSUME NEW ops, \A c \in 1..m : Only(blocks[c], ops) PROVE Only(t, ops)
  <2> SUFFICES ASSUME NEW i \in 1..Len(t) PROVE t[i][1] \in ops
    BY DEF Only
  <2>1. PICK c \in 1..m, r \in 1..n : i = n * (c - 1) + r
    BY <1>2
  <2>2. t[i] = blocks[c][r] /\ r \in 1..Len(blocks[c])
    BY <2>1, <1>2, <1>3
  <2> QED
    BY <2>2, <1>13 DEF Only
<1>14. Method(t, 0)
  BY <1>2, <1>9, <1>10, <1>11 DEF Method
<1> QED
  BY <1>12, <1>13, <1>14 DEF m, t

-----------------------------------------------------------------------------
(* The methods *)

\* The only new page of a method, and where it is linked in.
NewAt(s, k, q) ==
  /\ k \in 1..Len(s) /\ s[k][1] = "new" /\ s[k][2] = q
  /\ \A i \in 1..Len(s) : s[i][1] = "new" => i = k

LinksBehind(s, k, q) ==
  \A i \in 1..Len(s) : s[i][1] # "split" /\ (s[i][1] = "link" => s[i][2] = q /\ k \in 1..(i - 1))

\* What is open before a call, from what is open behind it.
Unfolds(s, i, j, x) ==
  /\ Open(s, i, x) <=> Closes(s[i], x) \/ (~Opens(s[i], x) /\ Open(s, j, x))
  /\ Needed(s, i, x) <=> Needs(s[i], x) \/ (~Opens(s[i], x) /\ Needed(s, j, x))

\* The next position by its name.
LEMMA UnfoldTo ==
  ASSUME NEW s, Len(s) \in Nat, NEW i \in 1..Len(s), NEW j, i + 1 = j, NEW x
  PROVE  Unfolds(s, i, j, x)
BY Unfold DEF Unfolds

\* A page is read or written.
LEMMA AccessMethod ==
  ASSUME NEW p \in Pages
  PROVE  /\ Method(Access(p), 0)
         /\ Len(Access(p)) = 3
         /\ Sequential(Access(p))
         /\ Only(Access(p), Plain)
<1> DEFINE s == Access(p)
<1>1. s \in Seq(Call) /\ Len(s) = 3 /\ Len(s) \in Nat /\ 1..Len(s) = {1, 2, 3}
  BY SMTT(30) DEF Call, PageCalls, Access, Fetch, Unpin, Use
<1>2. s[1][1] = "fetch" /\ s[1][2] = p /\ 1 \in 1..Len(s) /\ 1 + 1 = 2
  BY <1>1, SMTT(30) DEF Access, Fetch, Unpin, Use
<1>3. s[2][1] = "use" /\ s[2][2] = p /\ 2 \in 1..Len(s) /\ 2 + 1 = 3
  BY <1>1, SMTT(30) DEF Access, Fetch, Unpin, Use
<1>4. s[3][1] = "unpin" /\ s[3][2] = p /\ 3 \in 1..Len(s) /\ 3 + 1 = 4
  BY <1>1, SMTT(30) DEF Access, Fetch, Unpin, Use
<1> HIDE DEF s
<1>5. ASSUME NEW x
      PROVE  /\ ~Open(s, 1, x) /\ ~Needed(s, 1, x)
             /\ (Open(s, 2, x) <=> x = p) /\ (Needed(s, 2, x) <=> x = p)
             /\ (Open(s, 3, x) <=> x = p) /\ (Needed(s, 3, x) <=> x = p)
             /\ ~Open(s, 4, x) /\ ~Needed(s, 4, x)
  <2>1. ~Open(s, 4, x) /\ ~Needed(s, 4, x)
    BY <1>1, <1>4, AtEnd
  <2>2. (Open(s, 3, x) <=> x = p) /\ (Needed(s, 3, x) <=> x = p)
    <3>1. Unfolds(s, 3, 4, x)
      BY <1>1, <1>4, UnfoldTo
    <3> QED
      BY <3>1, <2>1, <1>4 DEF Unfolds, Opens, Closes, Needs
  <2>3. (Open(s, 2, x) <=> x = p) /\ (Needed(s, 2, x) <=> x = p)
    <3>1. Unfolds(s, 2, 3, x)
      BY <1>1, <1>3, UnfoldTo
    <3> QED
      BY <3>1, <2>2, <1>3 DEF Unfolds, Opens, Closes, Needs
  <2>4. ~Open(s, 1, x) /\ ~Needed(s, 1, x)
    <3>1. Unfolds(s, 1, 2, x)
      BY <1>1, <1>2, UnfoldTo
    <3> QED
      BY <3>1, <2>3, <1>2 DEF Unfolds, Opens, Closes, Needs
  <2> QED
    BY <2>1, <2>2, <2>3, <2>4
<1>6. Fresh(s)
  BY <1>5 DEF Fresh
<1>7. Disciplined(s, 0)
  <2> SUFFICES ASSUME NEW i \in 1..Len(s), NEW x \in Pages
               PROVE  /\ Closes(s[i], x) => ~Needed(s, i + 1, x)
                      /\ Opens(s[i], x) => Open(s, i + 1, x) \/ (i = Len(s) /\ x = 0)
    BY DEF Disciplined
  <2>1. CASE i = 1
    BY <2>1, <1>1, <1>2, <1>5 DEF Opens, Closes
  <2>2. CASE i = 2
    BY <2>2, <1>1, <1>3, <1>5 DEF Opens, Closes
  <2>3. CASE i = 3
    BY <2>3, <1>1, <1>4, <1>5 DEF Opens, Closes
  <2> QED
    BY <1>1, <2>1, <2>2, <2>3
<1>8. Narrow(s) /\ Sequential(s)
  <2>1. ASSUME NEW i \in 1..Len(s), NEW x, Opens(s[i], x) PROVE i = 1
    BY <2>1, <1>1, <1>2, <1>3, <1>4 DEF Opens
  <2> QED
    BY <2>1, <1>5 DEF Narrow, Sequential
<1>9. Only(s, Plain)
  BY <1>1, <1>2, <1>3, <1>4 DEF Only, Plain
<1> QED
  BY <1>1, <1>6, <1>7, <1>8, <1>9 DEF s, Method

\* The same, in a try ... finally.
LEMMA GuardedMethod ==
  ASSUME NEW p \in Pages
  PROVE  Method(Guarded(p), 0) /\ Len(Guarded(p)) = 3 /\ Only(Guarded(p), Quiet)
<1> DEFINE s == Guarded(p)
<1>1. s \in Seq(Call) /\ Len(s) = 3 /\ Len(s) \in Nat /\ 1..Len(s) = {1, 2, 3}
  BY SMTT(30) DEF Call, PageCalls, Guarded, Fetch, Finally, Use
<1>2. s[1][1] = "fetch" /\ s[1][2] = p /\ 1 \in 1..Len(s) /\ 1 + 1 = 2
  BY <1>1, SMTT(30) DEF Guarded, Fetch, Finally, Use
<1>3. s[2][1] = "use" /\ s[2][2] = p /\ 2 \in 1..Len(s) /\ 2 + 1 = 3
  BY <1>1, SMTT(30) DEF Guarded, Fetch, Finally, Use
<1>4. s[3][1] = "finally" /\ s[3][2] = p /\ 3 \in 1..Len(s) /\ 3 + 1 = 4
  BY <1>1, SMTT(30) DEF Guarded, Fetch, Finally, Use
<1> HIDE DEF s
<1>5. ASSUME NEW x
      PROVE  /\ ~Open(s, 1, x) /\ ~Needed(s, 1, x)
             /\ (Open(s, 2, x) <=> x = p) /\ (Needed(s, 2, x) <=> x = p)
             /\ (Open(s, 3, x) <=> x = p) /\ ~Needed(s, 3, x)
             /\ ~Open(s, 4, x) /\ ~Needed(s, 4, x)
  <2>1. ~Open(s, 4, x) /\ ~Needed(s, 4, x)
    BY <1>1, <1>4, AtEnd
  <2>2. (Open(s, 3, x) <=> x = p) /\ ~Needed(s, 3, x)
    <3>1. Unfolds(s, 3, 4, x)
      BY <1>1, <1>4, UnfoldTo
    <3> QED
      BY <3>1, <2>1, <1>4 DEF Unfolds, Opens, Closes, Needs
  <2>3. (Open(s, 2, x) <=> x = p) /\ (Needed(s, 2, x) <=> x = p)
    <3>1. Unfolds(s, 2, 3, x)
      BY <1>1, <1>3, UnfoldTo
    <3> QED
      BY <3>1, <2>2, <1>3 DEF Unfolds, Opens, Closes, Needs
  <2>4. ~Open(s, 1, x) /\ ~Needed(s, 1, x)
    <3>1. Unfolds(s, 1, 2, x)
      BY <1>1, <1>2, UnfoldTo
    <3> QED
      BY <3>1, <2>3, <1>2 DEF Unfolds, Opens, Closes, Needs
  <2> QED
    BY <2>1, <2>2, <2>3, <2>4
<1>6. Fresh(s)
  BY <1>5 DEF Fresh
<1>7. Disciplined(s, 0)
  <2> SUFFICES ASSUME NEW i \in 1..Len(s), NEW x \in Pages
               PROVE  /\ Closes(s[i], x) => ~Needed(s, i + 1, x)
                      /\ Opens(s[i], x) => Open(s, i + 1, x) \/ (i = Len(s) /\ x = 0)
    BY DEF Disciplined
  <2>1. CASE i = 1
    BY <2>1, <1>1, <1>2, <1>5 DEF Opens, Closes
  <2>2. CASE i = 2
    BY <2>2, <1>1, <1>3, <1>5 DEF Opens, Closes
  <2>3. CASE i = 3
    BY <2>3, <1>1, <1>4, <1>5 DEF Opens, Closes
  <2> QED
    BY <1>1, <2>1, <2>2, <2>3
<1>8. Narrow(s)
  <2>1. ASSUME NEW i \in 1..Len(s), NEW x, Opens(s[i], x) PROVE i = 1
    BY <2>1, <1>1, <1>2, <1>3, <1>4 DEF Opens
  <2> QED
    BY <2>1, <1>5 DEF Narrow
<1>9. Only(s, Quiet)
  BY <1>1, <1>2, <1>3, <1>4 DEF Only, Quiet
<1> QED
  BY <1>1, <1>6, <1>7, <1>8, <1>9 DEF s, Method

\* A page of the tree is split into itself and a new one.
LEMMA SplitPageMethod ==
  ASSUME NEW p \in Pages, NEW q \in Pages, p # q
  PROVE  /\ Method(SplitPage(p, q), 0)
         /\ Len(SplitPage(p, q)) = 7
         /\ Only(SplitPage(p, q), Growing)
         /\ NewAt(SplitPage(p, q), 3, q)
<1> DEFINE s == SplitPage(p, q)
<1>1. s \in Seq(Call) /\ Len(s) = 7 /\ Len(s) \in Nat /\ 1..Len(s) = {1, 2, 3, 4, 5, 6, 7}
  BY SMTT(30) DEF Call, PageCalls, SplitPage, SplitNode, Fetch, NewPage, Unpin, Use
<1>2. s[1][1] = "fetch" /\ s[1][2] = p /\ 1 \in 1..Len(s) /\ 1 + 1 = 2
  BY <1>1, SMTT(30) DEF SplitPage, SplitNode, Fetch, NewPage, Unpin, Use
<1>3. s[2][1] = "use" /\ s[2][2] = p /\ 2 \in 1..Len(s) /\ 2 + 1 = 3
  BY <1>1, SMTT(30) DEF SplitPage, SplitNode, Fetch, NewPage, Unpin, Use
<1>4. s[3][1] = "new" /\ s[3][2] = q /\ 3 \in 1..Len(s) /\ 3 + 1 = 4
  BY <1>1, SMTT(30) DEF SplitPage, SplitNode, Fetch, NewPage, Unpin, Use
<1>5. s[4][1] = "use" /\ s[4][2] = q /\ 4 \in 1..Len(s) /\ 4 + 1 = 5
  BY <1>1, SMTT(30) DEF SplitPage, SplitNode, Fetch, NewPage, Unpin, Use
<1>6. s[5][1] = "unpin" /\ s[5][2] = q /\ 5 \in 1..Len(s) /\ 5 + 1 = 6
  BY <1>1, SMTT(30) DEF SplitPage, SplitNode, Fetch, NewPage, Unpin, Use
<1>7. s[6][1] = "use" /\ s[6][2] = p /\ 6 \in 1..Len(s) /\ 6 + 1 = 7
  BY <1>1, SMTT(30) DEF SplitPage, SplitNode, Fetch, NewPage, Unpin, Use
<1>8. s[7][1] = "unpin" /\ s[7][2] = p /\ 7 \in 1..Len(s) /\ 7 + 1 = 8
  BY <1>1, SMTT(30) DEF SplitPage, SplitNode, Fetch, NewPage, Unpin, Use
<1> HIDE DEF s
<1>9. ASSUME NEW x
      PROVE  /\ ~Open(s, 1, x) /\ ~Needed(s, 1, x)
             /\ (Open(s, 2, x) <=> x = p) /\ (Needed(s, 2, x) <=> x = p)
             /\ (Open(s, 3, x) <=> x = p) /\ (Needed(s, 3, x) <=> x = p)
             /\ (Open(s, 4, x) <=> x = p \/ x = q) /\ (Needed(s, 4, x) <=> x = p \/ x = q)
             /\ (Open(s, 5, x) <=> x = p \/ x = q) /\ (Needed(s, 5, x) <=> x = p \/ x = q)
             /\ (Open(s, 6, x) <=> x = p) /\ (Needed(s, 6, x) <=> x = p)
             /\ (Open(s, 7, x) <=> x = p) /\ (Needed(s, 7, x) <=> x = p)
             /\ ~Open(s, 8, x) /\ ~Needed(s, 8, x)
  <2>1. ~Open(s, 8, x) /\ ~Needed(s, 8, x)
    BY <1>1, <1>8, AtEnd
  <2>2. (Open(s, 7, x) <=> x = p) /\ (Needed(s, 7, x) <=> x = p)
    <3>1. Unfolds(s, 7, 8, x)
      BY <1>1, <1>8, UnfoldTo
    <3> QED
      BY <3>1, <2>1, <1>8 DEF Unfolds, Opens, Closes, Needs
  <2>3. (Open(s, 6, x) <=> x = p) /\ (Needed(s, 6, x) <=> x = p)
    <3>1. Unfolds(s, 6, 7, x)
      BY <1>1, <1>7, UnfoldTo
    <3> QED
      BY <3>1, <2>2, <1>7 DEF Unfolds, Opens, Closes, Needs
  <2>4. (Open(s, 5, x) <=> x = p \/ x = q) /\ (Needed(s, 5, x) <=> x = p \/ x = q)
    <3>1. Unfolds(s, 5, 6, x)
      BY <1>1, <1>6, UnfoldTo
    <3> QED
      BY <3>1, <2>3, <1>6 DEF Unfolds, Opens, Closes, Needs
  <2>5. (Open(s, 4, x) <=> x = p \/ x = q) /\ (Needed(s, 4, x) <=> x = p \/ x = q)
    <3>1. Unfolds(s, 4, 5, x)
      BY <1>1, <1>5, UnfoldTo
    <3> QED
      BY <3>1, <2>4, <1>5 DEF Unfolds, Opens, Closes, Needs
  <2>6. (Open(s, 3, x) <=> x = p) /\ (Needed(s, 3, x) <=> x = p)
    <3>1. Unfolds(s, 3, 4, x)
      BY <1>1, <1>4, UnfoldTo
    <3> QED
      BY <3>1, <2>5, <1>4, SMTT(30) DEF Unfolds, Opens, Closes, Needs
  <2>7. (Open(s, 2, x) <=> x = p) /\ (Needed(s, 2, x) <=> x = p)
    <3>1. Unfolds(s, 2, 3, x)
      BY <1>1, <1>3, UnfoldTo
    <3> QED
      BY <3>1, <2>6, <1>3 DEF Unfolds, Opens, Closes, Needs
  <2>8. ~Open(s, 1, x) /\ ~Needed(s, 1, x)
    <3>1. Unfolds(s, 1, 2, x)
      BY <1>1, <1>2, UnfoldTo
    <3> QED
      BY <3>1, <2>7, <1>2 DEF Unfolds, Opens, Closes, Needs
  <2> QED
    BY <2>1, <2>2, <2>3, <2>4, <2>5, <2>6, <2>7, <2>8
<1>10. Fresh(s)
  BY <1>9 DEF Fresh
<1>11. Disciplined(s, 0)
  <2> SUFFICES ASSUME NEW i \in 1..Len(s), NEW x \in Pages
               PROVE  /\ Closes(s[i], x) => ~Needed(s, i + 1, x)
                      /\ Opens(s[i], x) => Open(s, i + 1, x) \/ (i = Len(s) /\ x = 0)
    BY DEF Disciplined
  <2>1. CASE i = 1
    BY <2>1, <1>1, <1>2, <1>9 DEF Opens, Closes
  <2>2. CASE i = 2
    BY <2>2, <1>1, <1>3, <1>9 DEF Opens, Closes
  <2>3. CASE i = 3
    BY <2>3, <1>1, <1>4, <1>9 DEF Opens, Closes
  <2>4. CASE i = 4
    BY <2>4, <1>1, <1>5, <1>9 DEF Opens, Closes
  <2>5. CASE i = 5
    BY <2>5, <1>1, <1>6, <1>9 DEF Opens, Closes
  <2>6. CASE i = 6
    BY <2>6, <1>1, <1>7, <1>9 DEF Opens, Closes
  <2>7. CASE i = 7
    BY <2>7, <1>1, <1>8, <1>9 DEF Opens, Closes
  <2> QED
    BY <1>1, <2>1, <2>2, <2>3, <2>4, <2>5, <2>6, <2>7
<1>12. Narrow(s)
  <2> SUFFICES ASSUME NEW i \in 1..Len(s), NEW x \in Pages, NEW p1 \in Pages, NEW p2 \in Pages,
                      Opens(s[i], x), Open(s, i, p1), Open(s, i, p2)
               PROVE  p1 = p2
    BY DEF Narrow
  <2>1. i = 1 \/ i = 3
    BY <1>1, <1>2, <1>3, <1>4, <1>5, <1>6, <1>7, <1>8 DEF Opens
  <2>2. \A y : ~Open(s, 1, y) /\ (Open(s, 3, y) => y = p)
    BY <1>9
  <2> QED
    BY <2>1, <2>2
<1>13. Only(s, Growing)
  BY <1>1, <1>2, <1>3, <1>4, <1>5, <1>6, <1>7, <1>8 DEF Only, Growing
<1>14. NewAt(s, 3, q)
  BY <1>1, <1>2, <1>3, <1>4, <1>5, <1>6, <1>7, <1>8 DEF NewAt
<1> QED
  BY <1>1, <1>10, <1>11, <1>12, <1>13, <1>14 DEF s, Method

\* The tree gets a new root.
LEMMA NewRootMethod ==
  ASSUME NEW q \in Pages
  PROVE  /\ Method(NewRoot(q), 0)
         /\ Len(NewRoot(q)) = 3
         /\ Sequential(NewRoot(q))
         /\ Only(NewRoot(q), Growing)
         /\ NewAt(NewRoot(q), 1, q)
<1> DEFINE s == NewRoot(q)
<1>1. s \in Seq(Call) /\ Len(s) = 3 /\ Len(s) \in Nat /\ 1..Len(s) = {1, 2, 3}
  BY SMTT(30) DEF Call, PageCalls, NewRoot, NewPage, Unpin, Use
<1>2. s[1][1] = "new" /\ s[1][2] = q /\ 1 \in 1..Len(s) /\ 1 + 1 = 2
  BY <1>1, SMTT(30) DEF NewRoot, NewPage, Unpin, Use
<1>3. s[2][1] = "use" /\ s[2][2] = q /\ 2 \in 1..Len(s) /\ 2 + 1 = 3
  BY <1>1, SMTT(30) DEF NewRoot, NewPage, Unpin, Use
<1>4. s[3][1] = "unpin" /\ s[3][2] = q /\ 3 \in 1..Len(s) /\ 3 + 1 = 4
  BY <1>1, SMTT(30) DEF NewRoot, NewPage, Unpin, Use
<1> HIDE DEF s
<1>5. ASSUME NEW x
      PROVE  /\ ~Open(s, 1, x) /\ ~Needed(s, 1, x)
             /\ (Open(s, 2, x) <=> x = q) /\ (Needed(s, 2, x) <=> x = q)
             /\ (Open(s, 3, x) <=> x = q) /\ (Needed(s, 3, x) <=> x = q)
             /\ ~Open(s, 4, x) /\ ~Needed(s, 4, x)
  <2>1. ~Open(s, 4, x) /\ ~Needed(s, 4, x)
    BY <1>1, <1>4, AtEnd
  <2>2. (Open(s, 3, x) <=> x = q) /\ (Needed(s, 3, x) <=> x = q)
    <3>1. Unfolds(s, 3, 4, x)
      BY <1>1, <1>4, UnfoldTo
    <3> QED
      BY <3>1, <2>1, <1>4 DEF Unfolds, Opens, Closes, Needs
  <2>3. (Open(s, 2, x) <=> x = q) /\ (Needed(s, 2, x) <=> x = q)
    <3>1. Unfolds(s, 2, 3, x)
      BY <1>1, <1>3, UnfoldTo
    <3> QED
      BY <3>1, <2>2, <1>3 DEF Unfolds, Opens, Closes, Needs
  <2>4. ~Open(s, 1, x) /\ ~Needed(s, 1, x)
    <3>1. Unfolds(s, 1, 2, x)
      BY <1>1, <1>2, UnfoldTo
    <3> QED
      BY <3>1, <2>3, <1>2 DEF Unfolds, Opens, Closes, Needs
  <2> QED
    BY <2>1, <2>2, <2>3, <2>4
<1>6. Fresh(s)
  BY <1>5 DEF Fresh
<1>7. Disciplined(s, 0)
  <2> SUFFICES ASSUME NEW i \in 1..Len(s), NEW x \in Pages
               PROVE  /\ Closes(s[i], x) => ~Needed(s, i + 1, x)
                      /\ Opens(s[i], x) => Open(s, i + 1, x) \/ (i = Len(s) /\ x = 0)
    BY DEF Disciplined
  <2>1. CASE i = 1
    BY <2>1, <1>1, <1>2, <1>5 DEF Opens, Closes
  <2>2. CASE i = 2
    BY <2>2, <1>1, <1>3, <1>5 DEF Opens, Closes
  <2>3. CASE i = 3
    BY <2>3, <1>1, <1>4, <1>5 DEF Opens, Closes
  <2> QED
    BY <1>1, <2>1, <2>2, <2>3
<1>8. Narrow(s) /\ Sequential(s)
  <2>1. ASSUME NEW i \in 1..Len(s), NEW x, Opens(s[i], x) PROVE i = 1
    BY <2>1, <1>1, <1>2, <1>3, <1>4 DEF Opens
  <2> QED
    BY <2>1, <1>5 DEF Narrow, Sequential
<1>9. Only(s, Growing)
  BY <1>1, <1>2, <1>3, <1>4 DEF Only, Growing
<1>10. NewAt(s, 1, q)
  BY <1>1, <1>2, <1>3, <1>4 DEF NewAt
<1> QED
  BY <1>1, <1>6, <1>7, <1>8, <1>9, <1>10 DEF s, Method

\* A page is linked in behind the last one, which is released twice: nothing uses
\* it in between.
LEMMA InsertGrowsMethod ==
  ASSUME NEW p \in Pages, NEW q \in Pages, p # q
  PROVE  /\ Method(InsertGrows(p, q), 0)
         /\ Len(InsertGrows(p, q)) = 12
         /\ NewAt(InsertGrows(p, q), 3, q)
         /\ LinksBehind(InsertGrows(p, q), 3, q)
<1> DEFINE s == InsertGrows(p, q)
<1>1. s \in Seq(Call) /\ Len(s) = 12 /\ Len(s) \in Nat /\ 1..Len(s) = {1, 2, 3, 4, 5, 6, 7, 8, 9, 10, 11, 12}
  BY SMTT(30) DEF Call, PageCalls, InsertGrows, InsertFits, Guarded, Fetch, Finally, Link, NewPage, Unpin, Use
<1>2. s[1][1] = "fetch" /\ s[1][2] = p /\ 1 \in 1..Len(s) /\ 1 + 1 = 2
  BY <1>1, SMTT(30) DEF InsertGrows, InsertFits, Guarded, Fetch, Finally, Link, NewPage, Unpin, Use
<1>3. s[2][1] = "use" /\ s[2][2] = p /\ 2 \in 1..Len(s) /\ 2 + 1 = 3
  BY <1>1, SMTT(30) DEF InsertGrows, InsertFits, Guarded, Fetch, Finally, Link, NewPage, Unpin, Use
<1>4. s[3][1] = "new" /\ s[3][2] = q /\ 3 \in 1..Len(s) /\ 3 + 1 = 4
  BY <1>1, SMTT(30) DEF InsertGrows, InsertFits, Guarded, Fetch, Finally, Link, NewPage, Unpin, Use
<1>5. s[4][1] = "use" /\ s[4][2] = q /\ 4 \in 1..Len(s) /\ 4 + 1 = 5
  BY <1>1, SMTT(30) DEF InsertGrows, InsertFits, Guarded, Fetch, Finally, Link, NewPage, Unpin, Use
<1>6. s[5][1] = "unpin" /\ s[5][2] = q /\ 5 \in 1..Len(s) /\ 5 + 1 = 6
  BY <1>1, SMTT(30) DEF InsertGrows, InsertFits, Guarded, Fetch, Finally, Link, NewPage, Unpin, Use
<1>7. s[6][1] = "link" /\ s[6][2] = q /\ 6 \in 1..Len(s) /\ 6 + 1 = 7
  BY <1>1, SMTT(30) DEF InsertGrows, InsertFits, Guarded, Fetch, Finally, Link, NewPage, Unpin, Use
<1>8. s[7][1] = "use" /\ s[7][2] = p /\ 7 \in 1..Len(s) /\ 7 + 1 = 8
  BY <1>1, SMTT(30) DEF InsertGrows, InsertFits, Guarded, Fetch, Finally, Link, NewPage, Unpin, Use
<1>9. s[8][1] = "unpin" /\ s[8][2] = p /\ 8 \in 1..Len(s) /\ 8 + 1 = 9
  BY <1>1, SMTT(30) DEF InsertGrows, InsertFits, Guarded, Fetch, Finally, Link, NewPage, Unpin, Use
<1>10. s[9][1] = "fetch" /\ s[9][2] = q /\ 9 \in 1..Len(s) /\ 9 + 1 = 10
  BY <1>1, SMTT(30) DEF InsertGrows, InsertFits, Guarded, Fetch, Finally, Link, NewPage, Unpin, Use
<1>11. s[10][1] = "use" /\ s[10][2] = q /\ 10 \in 1..Len(s) /\ 10 + 1 = 11
  BY <1>1, SMTT(30) DEF InsertGrows, InsertFits, Guarded, Fetch, Finally, Link, NewPage, Unpin, Use
<1>12. s[11][1] = "finally" /\ s[11][2] = q /\ 11 \in 1..Len(s) /\ 11 + 1 = 12
  BY <1>1, SMTT(30) DEF InsertGrows, InsertFits, Guarded, Fetch, Finally, Link, NewPage, Unpin, Use
<1>13. s[12][1] = "finally" /\ s[12][2] = p /\ 12 \in 1..Len(s) /\ 12 + 1 = 13
  BY <1>1, SMTT(30) DEF InsertGrows, InsertFits, Guarded, Fetch, Finally, Link, NewPage, Unpin, Use
<1> HIDE DEF s
<1>14. ASSUME NEW x
      PROVE  /\ ~Open(s, 1, x) /\ ~Needed(s, 1, x)
             /\ (Open(s, 2, x) <=> x = p) /\ (Needed(s, 2, x) <=> x = p)
             /\ (Open(s, 3, x) <=> x = p) /\ (Needed(s, 3, x) <=> x = p)
             /\ (Open(s, 4, x) <=> x = p \/ x = q) /\ (Needed(s, 4, x) <=> x = p \/ x = q)
             /\ (Open(s, 5, x) <=> x = p \/ x = q) /\ (Needed(s, 5, x) <=> x = p \/ x = q)
             /\ (Open(s, 6, x) <=> x = p) /\ (Needed(s, 6, x) <=> x = p)
             /\ (Open(s, 7, x) <=> x = p) /\ (Needed(s, 7, x) <=> x = p)
             /\ (Open(s, 8, x) <=> x = p) /\ (Needed(s, 8, x) <=> x = p)
             /\ (Open(s, 9, x) <=> x = p) /\ ~Needed(s, 9, x)
             /\ (Open(s, 10, x) <=> x = p \/ x = q) /\ (Needed(s, 10, x) <=> x = q)
             /\ (Open(s, 11, x) <=> x = p \/ x = q) /\ ~Needed(s, 11, x)
             /\ (Open(s, 12, x) <=> x = p) /\ ~Needed(s, 12, x)
             /\ ~Open(s, 13, x) /\ ~Needed(s, 13, x)
  <2>1. ~Open(s, 13, x) /\ ~Needed(s, 13, x)
    BY <1>1, <1>13, AtEnd
  <2>2. (Open(s, 12, x) <=> x = p) /\ ~Needed(s, 12, x)
    <3>1. Unfolds(s, 12, 13, x)
      BY <1>1, <1>13, UnfoldTo
    <3> QED
      BY <3>1, <2>1, <1>13 DEF Unfolds, Opens, Closes, Needs
  <2>3. (Open(s, 11, x) <=> x = p \/ x = q) /\ ~Needed(s, 11, x)
    <3>1. Unfolds(s, 11, 12, x)
      BY <1>1, <1>12, UnfoldTo
    <3> QED
      BY <3>1, <2>2, <1>12 DEF Unfolds, Opens, Closes, Needs
  <2>4. (Open(s, 10, x) <=> x = p \/ x = q) /\ (Needed(s, 10, x) <=> x = q)
    <3>1. Unfolds(s, 10, 11, x)
      BY <1>1, <1>11, UnfoldTo
    <3> QED
      BY <3>1, <2>3, <1>11 DEF Unfolds, Opens, Closes, Needs
  <2>5. (Open(s, 9, x) <=> x = p) /\ ~Needed(s, 9, x)
    <3>1. Unfolds(s, 9, 10, x)
      BY <1>1, <1>10, UnfoldTo
    <3> QED
      BY <3>1, <2>4, <1>10 DEF Unfolds, Opens, Closes, Needs
  <2>6. (Open(s, 8, x) <=> x = p) /\ (Needed(s, 8, x) <=> x = p)
    <3>1. Unfolds(s, 8, 9, x)
      BY <1>1, <1>9, UnfoldTo
    <3> QED
      BY <3>1, <2>5, <1>9 DEF Unfolds, Opens, Closes, Needs
  <2>7. (Open(s, 7, x) <=> x = p) /\ (Needed(s, 7, x) <=> x = p)
    <3>1. Unfolds(s, 7, 8, x)
      BY <1>1, <1>8, UnfoldTo
    <3> QED
      BY <3>1, <2>6, <1>8 DEF Unfolds, Opens, Closes, Needs
  <2>8. (Open(s, 6, x) <=> x = p) /\ (Needed(s, 6, x) <=> x = p)
    <3>1. Unfolds(s, 6, 7, x)
      BY <1>1, <1>7, UnfoldTo
    <3> QED
      BY <3>1, <2>7, <1>7 DEF Unfolds, Opens, Closes, Needs
  <2>9. (Open(s, 5, x) <=> x = p \/ x = q) /\ (Needed(s, 5, x) <=> x = p \/ x = q)
    <3>1. Unfolds(s, 5, 6, x)
      BY <1>1, <1>6, UnfoldTo
    <3> QED
      BY <3>1, <2>8, <1>6 DEF Unfolds, Opens, Closes, Needs
  <2>10. (Open(s, 4, x) <=> x = p \/ x = q) /\ (Needed(s, 4, x) <=> x = p \/ x = q)
    <3>1. Unfolds(s, 4, 5, x)
      BY <1>1, <1>5, UnfoldTo
    <3> QED
      BY <3>1, <2>9, <1>5 DEF Unfolds, Opens, Closes, Needs
  <2>11. (Open(s, 3, x) <=> x = p) /\ (Needed(s, 3, x) <=> x = p)
    <3>1. Unfolds(s, 3, 4, x)
      BY <1>1, <1>4, UnfoldTo
    <3> QED
      BY <3>1, <2>10, <1>4, SMTT(30) DEF Unfolds, Opens, Closes, Needs
  <2>12. (Open(s, 2, x) <=> x = p) /\ (Needed(s, 2, x) <=> x = p)
    <3>1. Unfolds(s, 2, 3, x)
      BY <1>1, <1>3, UnfoldTo
    <3> QED
      BY <3>1, <2>11, <1>3 DEF Unfolds, Opens, Closes, Needs
  <2>13. ~Open(s, 1, x) /\ ~Needed(s, 1, x)
    <3>1. Unfolds(s, 1, 2, x)
      BY <1>1, <1>2, UnfoldTo
    <3> QED
      BY <3>1, <2>12, <1>2 DEF Unfolds, Opens, Closes, Needs
  <2> QED
    BY <2>1, <2>2, <2>3, <2>4, <2>5, <2>6, <2>7, <2>8, <2>9, <2>10, <2>11, <2>12, <2>13
<1>15. Fresh(s)
  BY <1>14 DEF Fresh
<1>16. Disciplined(s, 0)
  <2> SUFFICES ASSUME NEW i \in 1..Len(s), NEW x \in Pages
               PROVE  /\ Closes(s[i], x) => ~Needed(s, i + 1, x)
                      /\ Opens(s[i], x) => Open(s, i + 1, x) \/ (i = Len(s) /\ x = 0)
    BY DEF Disciplined
  <2>1. CASE i = 1
    BY <2>1, <1>1, <1>2, <1>14 DEF Opens, Closes
  <2>2. CASE i = 2
    BY <2>2, <1>1, <1>3, <1>14 DEF Opens, Closes
  <2>3. CASE i = 3
    BY <2>3, <1>1, <1>4, <1>14 DEF Opens, Closes
  <2>4. CASE i = 4
    BY <2>4, <1>1, <1>5, <1>14 DEF Opens, Closes
  <2>5. CASE i = 5
    BY <2>5, <1>1, <1>6, <1>14 DEF Opens, Closes
  <2>6. CASE i = 6
    BY <2>6, <1>1, <1>7, <1>14 DEF Opens, Closes
  <2>7. CASE i = 7
    BY <2>7, <1>1, <1>8, <1>14 DEF Opens, Closes
  <2>8. CASE i = 8
    BY <2>8, <1>1, <1>9, <1>14 DEF Opens, Closes
  <2>9. CASE i = 9
    BY <2>9, <1>1, <1>10, <1>14 DEF Opens, Closes
  <2>10. CASE i = 10
    BY <2>10, <1>1, <1>11, <1>14 DEF Opens, Closes
  <2>11. CASE i = 11
    BY <2>11, <1>1, <1>12, <1>14 DEF Opens, Closes
  <2>12. CASE i = 12
    BY <2>12, <1>1, <1>13, <1>14 DEF Opens, Closes
  <2> QED
    BY <1>1, <2>1, <2>2, <2>3, <2>4, <2>5, <2>6, <2>7, <2>8, <2>9, <2>10, <2>11, <2>12
<1>17. Narrow(s)
  <2> SUFFICES ASSUME NEW i \in 1..Len(s), NEW x \in Pages, NEW p1 \in Pages, NEW p2 \in Pages,
                      Opens(s[i], x), Open(s, i, p1), Open(s, i, p2)
               PROVE  p1 = p2
    BY DEF Narrow
  <2>1. i = 1 \/ i = 3 \/ i = 9
    BY <1>1, <1>2, <1>3, <1>4, <1>5, <1>6, <1>7, <1>8, <1>9, <1>10, <1>11, <1>12, <1>13 DEF Opens
  <2>2. \A y : ~Open(s, 1, y) /\ (Open(s, 3, y) => y = p) /\ (Open(s, 9, y) => y = p)
    BY <1>14
  <2> QED
    BY <2>1, <2>2
<1>18. NewAt(s, 3, q) /\ LinksBehind(s, 3, q)
  <2>1. 3 \in 1..(6 - 1)
    BY SMTT(30)
  <2> QED
    BY <2>1, <1>1, <1>2, <1>3, <1>4, <1>5, <1>6, <1>7, <1>8, <1>9, <1>10, <1>11, <1>12, <1>13 DEF NewAt, LinksBehind
<1> QED
  BY <1>1, <1>15, <1>16, <1>17, <1>18 DEF s, Method

\* A leaf that cannot be split: its page stays pinned when the exception leaves.
LEMMA ThrowMethod ==
  ASSUME NEW p \in Pages
  PROVE  /\ Method(<<Fetch(p), Use(p), <<"throw", p>>>>, 0)
         /\ Len(<<Fetch(p), Use(p), <<"throw", p>>>>) = 3
         /\ Only(<<Fetch(p), Use(p), <<"throw", p>>>>, Quiet \cap Unguarded)
<1> DEFINE s == <<Fetch(p), Use(p), <<"throw", p>>>>
<1>1. s \in Seq(Call) /\ Len(s) = 3 /\ Len(s) \in Nat /\ 1..Len(s) = {1, 2, 3}
  BY SMTT(30) DEF Call, PageCalls, Fetch, Use
<1>2. s[1][1] = "fetch" /\ s[1][2] = p /\ 1 \in 1..Len(s) /\ 1 + 1 = 2
  BY <1>1, SMTT(30) DEF Fetch, Use
<1>3. s[2][1] = "use" /\ s[2][2] = p /\ 2 \in 1..Len(s) /\ 2 + 1 = 3
  BY <1>1, SMTT(30) DEF Fetch, Use
<1>4. s[3][1] = "throw" /\ s[3][2] = p /\ 3 \in 1..Len(s) /\ 3 + 1 = 4
  BY <1>1, SMTT(30) DEF Fetch, Use
<1> HIDE DEF s
<1>5. ASSUME NEW x
      PROVE  /\ ~Open(s, 1, x) /\ ~Needed(s, 1, x)
             /\ (Open(s, 2, x) <=> x = p) /\ (Needed(s, 2, x) <=> x = p)
             /\ (Open(s, 3, x) <=> x = p) /\ ~Needed(s, 3, x)
             /\ ~Open(s, 4, x) /\ ~Needed(s, 4, x)
  <2>1. ~Open(s, 4, x) /\ ~Needed(s, 4, x)
    BY <1>1, <1>4, AtEnd
  <2>2. (Open(s, 3, x) <=> x = p) /\ ~Needed(s, 3, x)
    <3>1. Unfolds(s, 3, 4, x)
      BY <1>1, <1>4, UnfoldTo
    <3> QED
      BY <3>1, <2>1, <1>4 DEF Unfolds, Opens, Closes, Needs
  <2>3. (Open(s, 2, x) <=> x = p) /\ (Needed(s, 2, x) <=> x = p)
    <3>1. Unfolds(s, 2, 3, x)
      BY <1>1, <1>3, UnfoldTo
    <3> QED
      BY <3>1, <2>2, <1>3 DEF Unfolds, Opens, Closes, Needs
  <2>4. ~Open(s, 1, x) /\ ~Needed(s, 1, x)
    <3>1. Unfolds(s, 1, 2, x)
      BY <1>1, <1>2, UnfoldTo
    <3> QED
      BY <3>1, <2>3, <1>2 DEF Unfolds, Opens, Closes, Needs
  <2> QED
    BY <2>1, <2>2, <2>3, <2>4
<1>6. Fresh(s)
  BY <1>5 DEF Fresh
<1>7. Disciplined(s, 0)
  <2> SUFFICES ASSUME NEW i \in 1..Len(s), NEW x \in Pages
               PROVE  /\ Closes(s[i], x) => ~Needed(s, i + 1, x)
                      /\ Opens(s[i], x) => Open(s, i + 1, x) \/ (i = Len(s) /\ x = 0)
    BY DEF Disciplined
  <2>1. CASE i = 1
    BY <2>1, <1>1, <1>2, <1>5 DEF Opens, Closes
  <2>2. CASE i = 2
    BY <2>2, <1>1, <1>3, <1>5 DEF Opens, Closes
  <2>3. CASE i = 3
    BY <2>3, <1>1, <1>4, <1>5 DEF Opens, Closes
  <2> QED
    BY <1>1, <2>1, <2>2, <2>3
<1>8. Narrow(s)
  <2>1. ASSUME NEW i \in 1..Len(s), NEW x, Opens(s[i], x) PROVE i = 1
    BY <2>1, <1>1, <1>2, <1>3, <1>4 DEF Opens
  <2> QED
    BY <2>1, <1>5 DEF Narrow
<1>9. Only(s, Quiet \cap Unguarded)
  BY <1>1, <1>2, <1>3, <1>4 DEF Only, Quiet, Unguarded
<1> QED
  BY <1>1, <1>6, <1>7, <1>8, <1>9 DEF s, Method

\* The tree has its new pages.
LEMMA SplitMethod ==
  ASSUME NEW l \in Seq(SUBSET Pages), l # <<>>
  PROVE  /\ Method(<<<<"split", l>>>>, 0)
         /\ Len(<<<<"split", l>>>>) = 1
         /\ Sequential(<<<<"split", l>>>>)
         /\ Only(<<<<"split", l>>>>, Unguarded)
<1> DEFINE s == <<<<"split", l>>>>
<1>1. s \in Seq(Call) /\ Len(s) = 1 /\ Len(s) \in Nat /\ 1..Len(s) = {1}
  BY SMTT(30) DEF Call, PageCalls
<1>2. s[1][1] = "split" /\ s[1][2] = l /\ 1 \in 1..Len(s) /\ 1 + 1 = 2
  BY <1>1, SMTT(30)
<1> HIDE DEF s
<1>3. ASSUME NEW x
      PROVE  /\ ~Open(s, 1, x) /\ ~Needed(s, 1, x)
             /\ ~Open(s, 2, x) /\ ~Needed(s, 2, x)
  <2>1. ~Open(s, 2, x) /\ ~Needed(s, 2, x)
    BY <1>1, <1>2, AtEnd
  <2>2. ~Open(s, 1, x) /\ ~Needed(s, 1, x)
    <3>1. Unfolds(s, 1, 2, x)
      BY <1>1, <1>2, UnfoldTo
    <3> QED
      BY <3>1, <2>1, <1>2 DEF Unfolds, Opens, Closes, Needs
  <2> QED
    BY <2>1, <2>2
<1>4. Fresh(s)
  BY <1>3 DEF Fresh
<1>5. Disciplined(s, 0)
  <2> SUFFICES ASSUME NEW i \in 1..Len(s), NEW x \in Pages
               PROVE  /\ Closes(s[i], x) => ~Needed(s, i + 1, x)
                      /\ Opens(s[i], x) => Open(s, i + 1, x) \/ (i = Len(s) /\ x = 0)
    BY DEF Disciplined
  <2>1. CASE i = 1
    BY <2>1, <1>1, <1>2, <1>3 DEF Opens, Closes
  <2> QED
    BY <1>1, <2>1
<1>6. Narrow(s) /\ Sequential(s)
  <2>1. ASSUME NEW i \in 1..Len(s), NEW x PROVE ~Opens(s[i], x)
    BY <2>1, <1>1, <1>2 DEF Opens
  <2> QED
    BY <2>1, <1>3 DEF Narrow, Sequential
<1>7. Only(s, Unguarded)
  BY <1>1, <1>2 DEF Only, Unguarded
<1> QED
  BY <1>1, <1>4, <1>5, <1>6, <1>7 DEF s, Method

\* A scan fetches the page it keeps.
LEMMA KeepMethod ==
  ASSUME NEW p \in Pages
  PROVE  /\ Method(<<Fetch(p)>>, p)
         /\ Len(<<Fetch(p)>>) = 1
         /\ Sequential(<<Fetch(p)>>)
         /\ Only(<<Fetch(p)>>, Plain)
<1> DEFINE s == <<Fetch(p)>>
<1>1. s \in Seq(Call) /\ Len(s) = 1 /\ Len(s) \in Nat /\ 1..Len(s) = {1}
  BY SMTT(30) DEF Call, PageCalls, Fetch
<1>2. s[1][1] = "fetch" /\ s[1][2] = p /\ 1 \in 1..Len(s) /\ 1 + 1 = 2
  BY <1>1, SMTT(30) DEF Fetch
<1> HIDE DEF s
<1>3. ASSUME NEW x
      PROVE  /\ ~Open(s, 1, x) /\ ~Needed(s, 1, x)
             /\ ~Open(s, 2, x) /\ ~Needed(s, 2, x)
  <2>1. ~Open(s, 2, x) /\ ~Needed(s, 2, x)
    BY <1>1, <1>2, AtEnd
  <2>2. ~Open(s, 1, x) /\ ~Needed(s, 1, x)
    <3>1. Unfolds(s, 1, 2, x)
      BY <1>1, <1>2, UnfoldTo
    <3> QED
      BY <3>1, <2>1, <1>2 DEF Unfolds, Opens, Closes, Needs
  <2> QED
    BY <2>1, <2>2
<1>4. Fresh(s)
  BY <1>3 DEF Fresh
<1>5. Disciplined(s, p)
  <2> SUFFICES ASSUME NEW i \in 1..Len(s), NEW x \in Pages
               PROVE  /\ Closes(s[i], x) => ~Needed(s, i + 1, x)
                      /\ Opens(s[i], x) => Open(s, i + 1, x) \/ (i = Len(s) /\ x = p)
    BY DEF Disciplined
  <2>1. CASE i = 1
    BY <2>1, <1>1, <1>2, <1>3 DEF Opens, Closes
  <2> QED
    BY <1>1, <2>1
<1>6. Narrow(s) /\ Sequential(s)
  <2>1. ASSUME NEW i \in 1..Len(s), NEW x, Opens(s[i], x) PROVE i = 1
    BY <2>1, <1>1, <1>2 DEF Opens
  <2> QED
    BY <2>1, <1>3 DEF Narrow, Sequential
<1>7. Only(s, Plain)
  BY <1>1, <1>2 DEF Only, Plain
<1> QED
  BY <1>1, <1>4, <1>5, <1>6, <1>7 DEF s, Method

\* Whatever calls a smaller set allows, a larger one does.
LEMMA OnlyMore ==
  /\ \A s : Only(s, Plain) => Only(s, Quiet) /\ Only(s, Growing) /\ Only(s, Quiet \cap Unguarded)
  /\ \A s : Only(s, Growing) => Only(s, Unguarded)
  /\ \A s : Only(s, Quiet \cap Unguarded) => Only(s, Quiet) /\ Only(s, Unguarded)
BY DEF Only, Plain, Quiet, Growing, Unguarded

\* A scan may keep what a method does not.
LEMMA KeepMore ==
  ASSUME NEW s, NEW keep, Method(s, 0)
  PROVE  Method(s, keep)
<1>1. 0 \notin Pages
  BY SMTT(30) DEF Pages
<1> QED
  BY <1>1 DEF Method, Disciplined

\* The pages of a chain or a path, one after the other.
LEMMA AccessAllMethod ==
  ASSUME NEW ps \in Seq(Pages)
  PROVE  Method(AccessAll(ps), 0) /\ Sequential(AccessAll(ps)) /\ Only(AccessAll(ps), Plain)
<1> DEFINE blocks == [i \in DOMAIN ps |-> Access(ps[i])]
<1>1. DOMAIN ps = 1..Len(ps) /\ Len(ps) \in Nat /\ \A i \in 1..Len(ps) : ps[i] \in Pages
  BY SMTT(30)
<1>2. Len(blocks) = Len(ps)
  BY <1>1, SMTT(30)
<1>3. \A c \in 1..Len(ps) : blocks[c] = Access(ps[c])
  BY <1>1
<1>4. AccessAll(ps) = Flat(blocks, 3)
  BY DEF AccessAll
<1> HIDE DEF blocks
<1>5. ASSUME NEW c \in 1..Len(blocks)
      PROVE  Method(blocks[c], 0) /\ Len(blocks[c]) = 3 /\ Sequential(blocks[c]) /\ Only(blocks[c], Plain)
  <2>1. ps[c] \in Pages /\ blocks[c] = Access(ps[c])
    BY <1>1, <1>2, <1>3
  <2> QED
    BY <2>1, AccessMethod
<1>6. Len(blocks) \in Nat /\ 3 \in Nat \ {0}
  BY <1>1, <1>2, SMTT(30)
<1>7. /\ Method(Flat(blocks, 3), 0)
      /\ (\A c \in 1..Len(blocks) : Sequential(blocks[c])) => Sequential(Flat(blocks, 3))
      /\ \A ops : (\A c \in 1..Len(blocks) : Only(blocks[c], ops)) => Only(Flat(blocks, 3), ops)
  BY <1>5, <1>6, FlatMethod
<1> QED
  BY <1>4, <1>5, <1>7

\* A HeapFile is constructed and its scan fetches the page it keeps.
LEMMA ScanMethod ==
  ASSUME NEW ps \in Seq(Pages), NEW p \in Pages
  PROVE  LET s == AccessAll(ps) \o <<Fetch(p)>>
         IN  Method(s, p) /\ Sequential(s) /\ Only(s, Plain) /\ s # <<>> /\ s[Len(s)] = Fetch(p)
<1> DEFINE a == AccessAll(ps)
           b == <<Fetch(p)>>
<1>1. Method(a, 0) /\ Sequential(a) /\ Only(a, Plain)
  BY AccessAllMethod
<1>2. Method(b, p) /\ Sequential(b) /\ Only(b, Plain)
  BY KeepMethod
<1>3. a \in Seq(Call)
  BY <1>1 DEF Method
<1>4. b \in Seq(Call)
  BY <1>2 DEF Method
<1>5. Len(b) = 1 /\ b[1] = Fetch(p)
  BY SMTT(30)
<1> HIDE DEF a, b
<1>6. a \o b # <<>> /\ (a \o b)[Len(a \o b)] = b[1]
  <2>1. Len(a) \in Nat /\ Len(a \o b) = Len(a) + Len(b) /\ (a \o b)[Len(a) + 1] = b[1]
    <3>1. 1 \in 1..Len(b)
      BY <1>5, SMTT(30)
    <3> QED
      BY <3>1, <1>3, <1>4, ConcatAt
  <2> QED
    BY <2>1, <1>5, SMTT(30)
<1>7. Method(a \o b, p) /\ Sequential(a \o b) /\ Only(a \o b, Plain)
  BY <1>1, <1>2, ConcatMethod
<1> QED
  BY <1>5, <1>6, <1>7 DEF a, b

\* BPlusTree.search and HeapFile.get.
LEMMA SearchMethod ==
  ASSUME NEW path \in Seq(Pages), Len(path) > 0, NEW p \in Pages
  PROVE  Method(Search(path, p), 0) /\ Only(Search(path, p), Quiet)
<1> DEFINE a == AccessAll(path)
           b == Guarded(Last(path))
           c == Guarded(p)
<1>1. Last(path) \in Pages
  BY SMTT(30) DEF Last
<1>2. Method(a, 0) /\ Only(a, Quiet)
  BY AccessAllMethod, OnlyMore
<1>3. Method(b, 0) /\ Only(b, Quiet) /\ Method(c, 0) /\ Only(c, Quiet)
  BY <1>1, GuardedMethod
<1>4. Search(path, p) = (a \o b) \o c
  BY DEF Search
<1> HIDE DEF a, b, c
<1>5. Method(a \o b, 0) /\ Only(a \o b, Quiet)
  BY <1>2, <1>3, ConcatMethod
<1>6. Method((a \o b) \o c, 0) /\ Only((a \o b) \o c, Quiet)
  BY <1>3, <1>5, ConcatMethod
<1> QED
  BY <1>4, <1>6

\* An index scan, with the rows it finds.
LEMMA IndexScanMethod ==
  ASSUME NEW ps \in Seq(Pages), NEW path \in Seq(Pages), Len(path) > 0, NEW p \in Pages
  PROVE  LET s == AccessAll(ps) \o AccessAll(path) \o Access(Last(path)) \o Guarded(p)
         IN  Method(s, 0) /\ Only(s, Quiet)
<1> DEFINE a == AccessAll(ps)
           b == AccessAll(path)
           c == Access(Last(path))
           d == Guarded(p)
<1>1. Last(path) \in Pages
  BY SMTT(30) DEF Last
<1>2. Method(a, 0) /\ Only(a, Quiet) /\ Method(b, 0) /\ Only(b, Quiet)
  BY AccessAllMethod, OnlyMore
<1>3. Method(c, 0) /\ Only(c, Quiet) /\ Method(d, 0) /\ Only(d, Quiet)
  BY <1>1, AccessMethod, GuardedMethod, OnlyMore
<1> HIDE DEF a, b, c, d
<1>4. Method(a \o b, 0) /\ Only(a \o b, Quiet)
  BY <1>2, ConcatMethod
<1>5. Method((a \o b) \o c, 0) /\ Only((a \o b) \o c, Quiet)
  BY <1>3, <1>4, ConcatMethod
<1>6. Method(((a \o b) \o c) \o d, 0) /\ Only(((a \o b) \o c) \o d, Quiet)
  BY <1>3, <1>5, ConcatMethod
<1> QED
  BY <1>6 DEF a, b, c, d

-----------------------------------------------------------------------------
(* New pages *)

\* The new pages of a sequence of calls follow lo, up to hi.
News(s, lo, hi) ==
  /\ s \in Seq(Call) /\ Only(s, Growing) /\ lo \in Nat /\ hi \in Nat /\ lo <= hi
  /\ \A i \in 1..Len(s) : s[i][1] = "new" =>
       lo < s[i][2] /\ s[i][2] <= hi /\ \A k \in (i + 1)..Len(s) : s[k][1] = "new" => s[k][2] > s[i][2]
  /\ lo = hi \/ \E i \in 1..Len(s) : s[i][1] = "new" /\ s[i][2] = hi

\* A method that makes no page.
LEMMA NewsPlain ==
  ASSUME NEW s \in Seq(Call), Only(s, Plain), NEW last \in Nat
  PROVE  News(s, last, last)
<1>1. Only(s, Growing) /\ last <= last
  BY OnlyMore, SMTT(30)
<1>2. \A i \in 1..Len(s) : s[i][1] # "new"
  BY DEF Only, Plain
<1> QED
  BY <1>1, <1>2 DEF News

\* A method that makes one.
LEMMA NewsOne ==
  ASSUME NEW s \in Seq(Call), Only(s, Growing), NEW last \in Nat, NEW k, NewAt(s, k, last + 1)
  PROVE  News(s, last, last + 1)
<1>1. /\ last + 1 \in Nat /\ last <= last + 1 /\ last < last + 1 /\ last + 1 <= last + 1 /\ Len(s) \in Nat
      /\ k \in 1..Len(s) => k \notin (k + 1)..Len(s)
      /\ \A i \in 1..Len(s) : \A j \in (i + 1)..Len(s) : j \in 1..Len(s)
  BY SMTT(30)
<1>2. ASSUME NEW i \in 1..Len(s), s[i][1] = "new"
      PROVE  i = k /\ s[i][2] = last + 1 /\ \A j \in (i + 1)..Len(s) : s[j][1] # "new"
  BY <1>1, <1>2 DEF NewAt
<1> QED
  BY <1>1, <1>2 DEF News, NewAt

\* One after the other.
LEMMA NewsConcat ==
  ASSUME NEW a, NEW b, NEW lo, NEW mid, NEW hi, News(a, lo, mid), News(b, mid, hi)
  PROVE  News(a \o b, lo, hi)
<1> DEFINE t == a \o b
<1>1. /\ a \in Seq(Call) /\ b \in Seq(Call) /\ lo \in Nat /\ mid \in Nat /\ hi \in Nat /\ lo <= mid /\ mid <= hi
      /\ Only(a, Growing) /\ Only(b, Growing)
  BY DEF News
<1>2. /\ t \in Seq(Call) /\ Len(a) \in Nat /\ Len(b) \in Nat /\ Len(t) \in Nat /\ Len(t) = Len(a) + Len(b)
      /\ \A k \in 1..Len(a) : t[k] = a[k]
      /\ \A k \in 1..Len(b) : t[Len(a) + k] = b[k]
  BY <1>1, ConcatAt
<1> HIDE DEF t
<1>3. lo <= hi /\ (lo = hi => lo = mid /\ mid = hi)
  BY <1>1, SMTT(30)
<1>4. ASSUME NEW i \in 1..Len(t)
      PROVE  \/ i \in 1..Len(a) /\ t[i] = a[i]
             \/ \E k \in 1..Len(b) : i = Len(a) + k /\ t[i] = b[k]
  <2>1. CASE i \in 1..Len(a)
    BY <2>1, <1>2
  <2>2. CASE i \notin 1..Len(a)
    <3>1. i - Len(a) \in 1..Len(b) /\ i = Len(a) + (i - Len(a))
      BY <2>2, <1>2, SMTT(30)
    <3>2. t[Len(a) + (i - Len(a))] = b[i - Len(a)]
      BY <3>1, <1>2
    <3> QED
      BY <3>1, <3>2, SMTT(30)
  <2> QED
    BY <2>1, <2>2
<1>5. Only(t, Growing)
  BY <1>1, <1>4 DEF Only
<1>6. ASSUME NEW i \in 1..Len(t), t[i][1] = "new"
      PROVE  lo < t[i][2] /\ t[i][2] <= hi /\ \A k \in (i + 1)..Len(t) : t[k][1] = "new" => t[k][2] > t[i][2]
  <2>1. CASE i \in 1..Len(a) /\ t[i] = a[i]
    <3>1. lo < a[i][2] /\ a[i][2] <= mid /\ a[i][2] \in Int
      <4>1. lo < a[i][2] /\ a[i][2] <= mid
        BY <2>1, <1>6 DEF News
      <4>2. a[i] \in Call
        BY <2>1, <1>1, SMTT(30)
      <4> QED
        BY <4>1, <4>2, <2>1, <1>6, SMTT(30) DEF Call, Pages
    <3>2. ASSUME NEW k \in (i + 1)..Len(t), t[k][1] = "new" PROVE t[k][2] > t[i][2]
      <4>1. k \in 1..Len(t)
        BY <1>2, SMTT(30)
      <4>2. CASE k \in 1..Len(a) /\ t[k] = a[k]
        <5>1. k \in (i + 1)..Len(a)
          BY <4>2, <1>2, SMTT(30)
        <5> QED
          BY <5>1, <4>2, <3>2, <2>1, <1>6 DEF News
      <4>3. ASSUME NEW j \in 1..Len(b), k = Len(a) + j, t[k] = b[j] PROVE t[k][2] > t[i][2]
        <5>1. mid < b[j][2]
          BY <4>3, <3>2 DEF News
        <5>2. b[j] \in Call /\ b[j][1] = "new"
          BY <4>3, <3>2, <1>1, SMTT(30)
        <5>3. b[j][2] \in Int
          BY <5>2, SMTT(30) DEF Call, Pages
        <5>4. \A x, y, z \in Int : x <= y /\ y < z => z > x
          BY SMTT(30)
        <5>5. mid \in Int /\ t[k][2] = b[j][2] /\ t[i][2] = a[i][2]
          BY <4>3, <2>1, <1>1, SMTT(30)
        <5> QED
          BY <5>1, <5>3, <5>4, <5>5, <3>1
      <4> QED
        BY <4>1, <4>2, <4>3, <1>4
    <3>3. \A x \in Int : x <= mid => x <= hi
      BY <1>1, SMTT(30)
    <3> QED
      BY <3>1, <3>2, <3>3, <2>1
  <2>2. ASSUME NEW j \in 1..Len(b), i = Len(a) + j, t[i] = b[j]
        PROVE  lo < t[i][2] /\ t[i][2] <= hi /\ \A k \in (i + 1)..Len(t) : t[k][1] = "new" => t[k][2] > t[i][2]
    <3>1. mid < b[j][2] /\ b[j][2] <= hi /\ \A k \in (j + 1)..Len(b) : b[k][1] = "new" => b[k][2] > b[j][2]
      BY <2>2, <1>6 DEF News
    <3>2. b[j] \in Call /\ b[j][1] = "new"
      BY <2>2, <1>1, <1>6, SMTT(30)
    <3>3. lo < t[i][2] /\ t[i][2] <= hi
      BY <3>1, <3>2, <2>2, <1>1, SMTT(30) DEF Call, Pages
    <3>4. ASSUME NEW k \in (i + 1)..Len(t), t[k][1] = "new" PROVE t[k][2] > t[i][2]
      <4>1. k - Len(a) \in (j + 1)..Len(b) /\ k - Len(a) \in 1..Len(b) /\ k = Len(a) + (k - Len(a))
        BY <2>2, <1>2, SMTT(30)
      <4>2. t[Len(a) + (k - Len(a))] = b[k - Len(a)]
        BY <4>1, <1>2
      <4>3. t[k] = b[k - Len(a)]
        BY <4>1, <4>2, SMTT(30)
      <4> QED
        BY <4>1, <4>3, <3>1, <3>4, <2>2
    <3> QED
      BY <3>3, <3>4
  <2> QED
    BY <2>1, <2>2, <1>4
<1>7. lo = hi \/ \E i \in 1..Len(t) : t[i][1] = "new" /\ t[i][2] = hi
  <2>1. ASSUME NEW i \in 1..Len(b), b[i][1] = "new", b[i][2] = hi
        PROVE  \E k \in 1..Len(t) : t[k][1] = "new" /\ t[k][2] = hi
    <3>1. Len(a) + i \in 1..Len(t) /\ t[Len(a) + i] = b[i]
      BY <1>2, SMTT(30)
    <3> QED
      BY <3>1, <2>1
  <2>2. ASSUME NEW i \in 1..Len(a), a[i][1] = "new", a[i][2] = mid
        PROVE  \E k \in 1..Len(t) : t[k][1] = "new" /\ t[k][2] = mid
    <3>1. i \in 1..Len(t) /\ t[i] = a[i]
      BY <1>2, SMTT(30)
    <3> QED
      BY <3>1, <2>2
  <2> QED
    BY <2>1, <2>2 DEF News
<1> QED
  BY <1>1, <1>2, <1>3, <1>5, <1>6, <1>7 DEF News, t

\* Pages are only made, or nothing is.
LEMMA AllocatesQuiet ==
  ASSUME NEW s \in Seq(Call), Only(s, Quiet), NEW last
  PROVE  Allocates(s, last)
<1>1. \A i \in 1..Len(s) : s[i][1] \notin {"new", "link", "split"}
  BY DEF Only, Quiet
<1>2. \A i \in 1..Len(s) : Mentioned(s[i]) = {}
  BY <1>1 DEF Mentioned
<1> QED
  BY <1>1, <1>2 DEF Allocates

\* Calls that make no page come before or after.
LEMMA AllocatesConcat ==
  ASSUME NEW a \in Seq(Call), NEW b \in Seq(Call), NEW last,
         (Only(a, Quiet) /\ Allocates(b, last)) \/ (Allocates(a, last) /\ Only(b, Quiet))
  PROVE  Allocates(a \o b, last)
<1> DEFINE t == a \o b
<1>1. /\ t \in Seq(Call) /\ Len(a) \in Nat /\ Len(b) \in Nat /\ Len(t) \in Nat /\ Len(t) = Len(a) + Len(b)
      /\ \A k \in 1..Len(a) : t[k] = a[k]
      /\ \A k \in 1..Len(b) : t[Len(a) + k] = b[k]
  BY ConcatAt
<1> HIDE DEF t
<1>2. ASSUME NEW s, Only(s, Quiet), NEW i \in 1..Len(s) PROVE s[i][1] # "new" /\ Mentioned(s[i]) = {}
  <2>1. s[i][1] \notin {"new", "link", "split"}
    BY <1>2 DEF Only, Quiet
  <2> QED
    BY <2>1 DEF Mentioned
<1>3. ASSUME NEW i \in 1..Len(t), i \notin 1..Len(a)
      PROVE  \E k \in 1..Len(b) : i = Len(a) + k /\ t[i] = b[k]
  <2>1. i - Len(a) \in 1..Len(b) /\ i = Len(a) + (i - Len(a))
    BY <1>3, <1>1, SMTT(30)
  <2>2. t[Len(a) + (i - Len(a))] = b[i - Len(a)]
    BY <2>1, <1>1
  <2> QED
    BY <2>1, <2>2, SMTT(30)
<1> SUFFICES ASSUME NEW i \in 1..Len(t)
             PROVE  /\ t[i][1] = "new" => /\ t[i][2] > last
                                          /\ \A k \in (i + 1)..Len(t) : t[k][1] = "new" => t[k][2] > t[i][2]
                    /\ \A p \in Mentioned(t[i]) :
                         p <= last \/ \E j \in 1..(i - 1) : t[j][1] = "new" /\ p <= t[j][2]
  BY DEF Allocates, t
<1>4. CASE Only(a, Quiet) /\ Allocates(b, last)
  <2>1. CASE i \in 1..Len(a)
    <3>1. a[i][1] # "new" /\ Mentioned(a[i]) = {} /\ t[i] = a[i]
      BY <2>1, <1>1, <1>2, <1>4
    <3> QED
      BY <3>1
  <2>2. CASE i \notin 1..Len(a)
    <3>1. PICK k \in 1..Len(b) : i = Len(a) + k /\ t[i] = b[k]
      BY <2>2, <1>3
    <3>2. /\ b[k][1] = "new" => b[k][2] > last /\ \A j \in (k + 1)..Len(b) : b[j][1] = "new" => b[j][2] > b[k][2]
          /\ \A p \in Mentioned(b[k]) : p <= last \/ \E j \in 1..(k - 1) : b[j][1] = "new" /\ p <= b[j][2]
      BY <1>4 DEF Allocates
    <3>3. ASSUME NEW j \in (i + 1)..Len(t), t[i][1] = "new", t[j][1] = "new" PROVE t[j][2] > t[i][2]
      <4>1. j - Len(a) \in (k + 1)..Len(b) /\ j - Len(a) \in 1..Len(b) /\ j = Len(a) + (j - Len(a))
        BY <3>1, <1>1, SMTT(30)
      <4>2. t[Len(a) + (j - Len(a))] = b[j - Len(a)]
        BY <4>1, <1>1
      <4>3. t[j] = b[j - Len(a)]
        BY <4>1, <4>2, SMTT(30)
      <4> QED
        BY <4>1, <4>3, <3>1, <3>2, <3>3
    <3>4. ASSUME NEW j \in 1..(k - 1) PROVE Len(a) + j \in 1..(i - 1) /\ t[Len(a) + j] = b[j]
      <4>1. j \in 1..Len(b) /\ Len(a) + j \in 1..(i - 1)
        BY <3>1, <1>1, SMTT(30)
      <4> QED
        BY <4>1, <1>1
    <3>5. ASSUME NEW p \in Mentioned(t[i]) PROVE p <= last \/ \E j \in 1..(i - 1) : t[j][1] = "new" /\ p <= t[j][2]
      <4>1. CASE p <= last
        BY <4>1
      <4>2. ASSUME NEW j \in 1..(k - 1), b[j][1] = "new", p <= b[j][2]
            PROVE  \E x \in 1..(i - 1) : t[x][1] = "new" /\ p <= t[x][2]
        BY <4>2, <3>4
      <4> QED
        BY <4>1, <4>2, <3>1, <3>2
    <3> QED
      BY <3>1, <3>2, <3>3, <3>5
  <2> QED
    BY <2>1, <2>2
<1>5. CASE Allocates(a, last) /\ Only(b, Quiet)
  <2>1. CASE i \in 1..Len(a)
    <3>1. /\ a[i][1] = "new" => a[i][2] > last /\ \A j \in (i + 1)..Len(a) : a[j][1] = "new" => a[j][2] > a[i][2]
          /\ \A p \in Mentioned(a[i]) : p <= last \/ \E j \in 1..(i - 1) : a[j][1] = "new" /\ p <= a[j][2]
      BY <2>1, <1>5 DEF Allocates
    <3>2. t[i] = a[i] /\ \A j \in 1..(i - 1) : t[j] = a[j]
      <4>1. \A j \in 1..(i - 1) : j \in 1..Len(a)
        BY <2>1, <1>1, SMTT(30)
      <4> QED
        BY <4>1, <2>1, <1>1
    <3>3. ASSUME NEW j \in (i + 1)..Len(t), t[i][1] = "new", t[j][1] = "new" PROVE t[j][2] > t[i][2]
      <4>1. j \in 1..Len(t) /\ (j \in 1..Len(a) => j \in (i + 1)..Len(a))
        BY <2>1, <1>1, SMTT(30)
      <4>2. CASE j \in 1..Len(a)
        BY <4>1, <4>2, <3>1, <3>2, <3>3, <1>1
      <4>3. CASE j \notin 1..Len(a)
        <5>1. PICK k \in 1..Len(b) : t[j] = b[k]
          BY <4>1, <4>3, <1>3
        <5>2. b[k][1] # "new"
          BY <1>2, <1>5
        <5> QED
          BY <5>1, <5>2, <3>3
      <4> QED
        BY <4>2, <4>3
    <3> QED
      BY <3>1, <3>2, <3>3
  <2>2. CASE i \notin 1..Len(a)
    <3>1. PICK k \in 1..Len(b) : t[i] = b[k]
      BY <2>2, <1>3
    <3>2. b[k][1] # "new" /\ Mentioned(b[k]) = {}
      BY <1>2, <1>5
    <3> QED
      BY <3>1, <3>2
  <2> QED
    BY <2>1, <2>2
<1> QED
  BY <1>4, <1>5

\* The tree gets the pages that have been made.
LEMMA AllocatesSplit ==
  ASSUME NEW s, NEW last, NEW hi, News(s, last, hi), NEW l \in Seq(SUBSET Pages), l # <<>>,
         \A i \in 1..Len(l) : \A p \in l[i] : p <= hi
  PROVE  Allocates(s \o <<<<"split", l>>>>, last)
<1> DEFINE c == <<"split", l>>
           t == s \o <<c>>
<1>1. /\ s \in Seq(Call) /\ Only(s, Growing) /\ last \in Nat /\ hi \in Nat
      /\ last = hi \/ \E i \in 1..Len(s) : s[i][1] = "new" /\ s[i][2] = hi
  BY DEF News
<1>2. c \in Call /\ c[1] = "split" /\ c[2] = l
  BY SMTT(30) DEF Call
<1> HIDE DEF c
<1>3. /\ Len(s) \in Nat /\ Len(t) = Len(s) + 1 /\ t[Len(s) + 1] = c
      /\ \A k \in 1..Len(s) : t[k] = s[k]
  BY <1>1, <1>2, SMTT(30)
<1> HIDE DEF t
<1> SUFFICES ASSUME NEW i \in 1..Len(t)
             PROVE  /\ t[i][1] = "new" => /\ t[i][2] > last
                                          /\ \A k \in (i + 1)..Len(t) : t[k][1] = "new" => t[k][2] > t[i][2]
                    /\ \A p \in Mentioned(t[i]) :
                         p <= last \/ \E j \in 1..(i - 1) : t[j][1] = "new" /\ p <= t[j][2]
  BY DEF Allocates, t, c
<1>4. CASE i \in 1..Len(s)
  <2>1. t[i] = s[i] /\ s[i][1] \in Growing
    BY <1>1, <1>3, <1>4 DEF Only
  <2>2. Mentioned(t[i]) = {}
    BY <2>1 DEF Mentioned, Growing
  <2>3. ASSUME s[i][1] = "new"
        PROVE  /\ s[i][2] > last /\ \A k \in (i + 1)..Len(s) : s[k][1] = "new" => s[k][2] > s[i][2]
    <3>1. /\ last < s[i][2] /\ \A k \in (i + 1)..Len(s) : s[k][1] = "new" => s[k][2] > s[i][2]
      BY <2>3, <1>4 DEF News
    <3>2. s[i] \in Call
      BY <1>1, <1>4, SMTT(30)
    <3> QED
      BY <3>1, <3>2, <2>3, <1>1, SMTT(30) DEF Call, Pages
  <2>4. ASSUME NEW k \in (i + 1)..Len(t), t[k][1] = "new" PROVE k \in (i + 1)..Len(s) /\ t[k] = s[k]
    <3>1. k = Len(s) + 1 \/ (k \in (i + 1)..Len(s) /\ k \in 1..Len(s))
      BY <1>3, <1>4, SMTT(30)
    <3> QED
      BY <3>1, <2>4, <1>2, <1>3
  <2> QED
    BY <2>1, <2>2, <2>3, <2>4
<1>5. CASE i \notin 1..Len(s)
  <2>1. i = Len(s) + 1 /\ 1..(i - 1) = 1..Len(s)
    BY <1>3, <1>5, SMTT(30)
  <2>2. t[i] = c
    BY <2>1, <1>3
  <2>3. ASSUME NEW p \in Mentioned(t[i]) PROVE p <= hi
    <3>1. p \in UNION {l[k] : k \in 1..Len(l)}
      BY <2>2, <2>3, <1>2 DEF Mentioned
    <3> QED
      BY <3>1
  <2> QED
    BY <2>1, <2>2, <2>3, <1>1, <1>2, <1>3
<1> QED
  BY <1>4, <1>5

-----------------------------------------------------------------------------
(* An entry is added to the index *)

\* The pages at the end of a path are split.
LEMMA SplitsMethod ==
  ASSUME NEW path \in Seq(Pages), NEW s \in 0..Len(path), NEW last \in Nat, last + s <= MaxPages,
         \A i \in 1..Len(path) : path[i] <= last
  PROVE  LET sp == Flat([i \in 1..s |-> SplitPage(path[Len(path) + 1 - i], last + 1 + i - 1)], 7)
         IN  Method(sp, 0) /\ Only(sp, Growing) /\ News(sp, last, last + s)
<1> DEFINE blocks == [i \in 1..s |-> SplitPage(path[Len(path) + 1 - i], last + 1 + i - 1)]
           sp == Flat(blocks, 7)
<1>1. s \in Nat /\ Len(path) \in Nat
  BY SMTT(30)
<1>2. Len(blocks) = s
  BY <1>1, SMTT(30)
<1>3. \A c \in 1..s : blocks[c] = SplitPage(path[Len(path) + 1 - c], last + 1 + c - 1)
  OBVIOUS
<1> HIDE DEF blocks
<1>4. ASSUME NEW c \in 1..s
      PROVE  /\ Method(blocks[c], 0) /\ Len(blocks[c]) = 7 /\ Only(blocks[c], Growing)
             /\ NewAt(blocks[c], 3, last + c)
  <2> DEFINE p == path[Len(path) + 1 - c]
             q == last + 1 + c - 1
  <2>1. Len(path) + 1 - c \in 1..Len(path) /\ q = last + c /\ q \in Pages /\ q > last
    BY <1>1, PinsAssumption, SMTT(30) DEF Pages
  <2>2. p \in Pages /\ p <= last
    BY <2>1, SMTT(30)
  <2>3. p # q
    BY <2>1, <2>2, SMTT(30) DEF Pages
  <2>4. blocks[c] = SplitPage(p, q)
    BY <1>3
  <2> HIDE DEF p, q
  <2>5. /\ Method(SplitPage(p, q), 0) /\ Len(SplitPage(p, q)) = 7
        /\ Only(SplitPage(p, q), Growing) /\ NewAt(SplitPage(p, q), 3, q)
    BY <2>1, <2>2, <2>3, SplitPageMethod
  <2> QED
    BY <2>1, <2>4, <2>5
<1>5. 7 \in Nat \ {0} /\ Len(blocks) \in Nat
  BY <1>1, <1>2, SMTT(30)
<1>6. \A c \in 1..Len(blocks) : Method(blocks[c], 0) /\ Len(blocks[c]) = 7
  BY <1>2, <1>4
<1>7. /\ Method(sp, 0)
      /\ \A ops : (\A c \in 1..Len(blocks) : Only(blocks[c], ops)) => Only(sp, ops)
  BY <1>5, <1>6, FlatMethod
<1>8. Only(sp, Growing)
  BY <1>2, <1>4, <1>7
<1>9. IsFlat(sp, blocks, 7)
  <2>1. Blocks(blocks, 7)
    BY <1>5, <1>6 DEF Method, Blocks
  <2> QED
    BY <1>5, <2>1, FlatAt
<1> HIDE DEF sp
<1>10. /\ sp \in Seq(Call) /\ Len(sp) = 7 * s
       /\ \A c \in 1..s, r \in 1..7 : 7 * (c - 1) + r \in 1..Len(sp) /\ sp[7 * (c - 1) + r] = blocks[c][r]
       /\ \A k \in 1..Len(sp) : \E c \in 1..s, r \in 1..7 : k = 7 * (c - 1) + r
  BY <1>2, <1>9 DEF IsFlat
<1>11. ASSUME NEW k \in 1..Len(sp), sp[k][1] = "new"
       PROVE  \E c \in 1..s : k = 7 * (c - 1) + 3 /\ sp[k][2] = last + c
  <2>1. PICK c \in 1..s, r \in 1..7 : k = 7 * (c - 1) + r
    BY <1>10
  <2>2. sp[k] = blocks[c][r] /\ r \in 1..Len(blocks[c]) /\ NewAt(blocks[c], 3, last + c)
    BY <2>1, <1>4, <1>10
  <2>3. r = 3 /\ sp[k][2] = last + c
    BY <2>2, <1>11 DEF NewAt
  <2> QED
    BY <2>1, <2>3
<1>12. ASSUME NEW k \in 1..Len(sp), sp[k][1] = "new"
       PROVE  /\ last < sp[k][2] /\ sp[k][2] <= last + s
              /\ \A j \in (k + 1)..Len(sp) : sp[j][1] = "new" => sp[j][2] > sp[k][2]
  <2>1. PICK c \in 1..s : k = 7 * (c - 1) + 3 /\ sp[k][2] = last + c
    BY <1>11, <1>12
  <2>2. ASSUME NEW j \in (k + 1)..Len(sp), sp[j][1] = "new" PROVE sp[j][2] > sp[k][2]
    <3>1. j \in 1..Len(sp)
      BY <1>10, <1>1, SMTT(30)
    <3>2. PICK b \in 1..s : j = 7 * (b - 1) + 3 /\ sp[j][2] = last + b
      BY <3>1, <2>2, <1>11
    <3> QED
      BY <3>2, <2>1, <1>1, SMTT(30)
  <2>3. last < sp[k][2] /\ sp[k][2] <= last + s
    BY <2>1, <1>1, SMTT(30)
  <2> QED
    BY <2>2, <2>3
<1>13. last = last + s \/ \E k \in 1..Len(sp) : sp[k][1] = "new" /\ sp[k][2] = last + s
  <2>1. CASE s = 0
    BY <2>1, SMTT(30)
  <2>2. CASE s # 0
    <3>1. s \in 1..s /\ 3 \in 1..7
      BY <2>2, <1>1, SMTT(30)
    <3>2. 7 * (s - 1) + 3 \in 1..Len(sp) /\ sp[7 * (s - 1) + 3] = blocks[s][3] /\ NewAt(blocks[s], 3, last + s)
      BY <3>1, <1>4, <1>10
    <3> QED
      BY <3>2 DEF NewAt
  <2> QED
    BY <2>1, <2>2
<1>14. last + s \in Nat /\ last <= last + s
  BY <1>1, SMTT(30)
<1>15. News(sp, last, last + s)
  BY <1>8, <1>10, <1>12, <1>13, <1>14 DEF News
<1> QED
  BY <1>7, <1>8, <1>15 DEF sp, blocks

\* One sequence of levels in front of another.
InFront(t, a, b) ==
  /\ Len(a) \in Nat /\ Len(b) \in Nat /\ Len(t) = Len(a) + Len(b)
  /\ \A k \in 1..Len(a) : t[k] = a[k]
  /\ \A k \in 1..Len(b) : t[Len(a) + k] = b[k]

\* Sequences of anything.
LEMMA InFrontAt ==
  ASSUME NEW S, NEW a \in Seq(S), NEW b \in Seq(S)
  PROVE  a \o b \in Seq(S) /\ InFront(a \o b, a, b)
BY SMTT(30) DEF InFront

\* The levels of the tree afterwards.
LEMMA SplitLevels ==
  ASSUME StateOK, level # <<>>, NEW s \in 0..Len(level), allocated + NewPages(s) <= MaxPages
  PROVE  LET l == Split(s, allocated + 1)
         IN  /\ l \in Seq(SUBSET Pages) /\ l # <<>>
             /\ \A i \in 1..Len(l) : \A p \in l[i] : p <= allocated + NewPages(s)
<1> DEFINE h == Len(level)
           q == allocated + 1
           hi == allocated + NewPages(s)
           wider == [i \in 1..h |-> IF i > h - s THEN level[i] \cup {q + h - i} ELSE level[i]]
           l == Split(s, q)
<1>1. /\ h \in Nat \ {0} /\ s \in Nat /\ allocated \in Nat \ {0} /\ MaxPages \in Nat
      /\ \A i \in 1..h : level[i] \in SUBSET Pages /\ \A p \in level[i] : p <= allocated
  BY PinsAssumption, SMTT(30) DEF StateOK, Pages
<1>2. NewPages(s) = (IF s = h THEN s + 1 ELSE s)
  BY DEF NewPages
<1>3. l = IF s = h THEN <<{q + s}>> \o wider ELSE wider
  BY DEF Split
<1>4. hi \in Nat /\ hi <= MaxPages /\ allocated <= hi /\ allocated + s <= hi /\ (s = h => hi = q + s /\ q + s \in Pages)
  BY <1>1, <1>2, SMTT(30) DEF Pages
<1>5. ASSUME NEW i \in 1..h
      PROVE  wider[i] \in SUBSET Pages /\ \A p \in wider[i] : p <= hi
  <2>1. wider[i] = IF i > h - s THEN level[i] \cup {q + h - i} ELSE level[i]
    OBVIOUS
  <2>2. i > h - s => q + h - i \in Pages /\ q + h - i <= hi
    BY <1>1, <1>4, SMTT(30) DEF Pages
  <2>3. \A p \in level[i] : p \in Pages /\ p <= hi
    BY <1>1, <1>4, SMTT(30) DEF Pages
  <2> HIDE DEF wider, h, q, hi
  <2> QED
    BY <2>1, <2>2, <2>3
<1>6. wider = [i \in 1..h |-> wider[i]]
  OBVIOUS
<1> HIDE DEF wider, hi, h, l
<1>7. wider \in Seq(SUBSET Pages) /\ Len(wider) = h
  BY <1>1, <1>5, <1>6, SMTT(30)
<1>8. CASE s # h
  <2>1. l = wider
    BY <1>3, <1>8
  <2>2. l # <<>>
    BY <2>1, <1>1, <1>7, SMTT(30)
  <2> QED
    BY <2>1, <2>2, <1>5, <1>7 DEF l, hi
<1>9. CASE s = h
  <2> DEFINE root == <<{q + s}>>
  <2>1. l = root \o wider /\ q + s \in Pages /\ hi = q + s
    BY <1>3, <1>4, <1>9
  <2>2. root \in Seq(SUBSET Pages) /\ Len(root) = 1 /\ root[1] = {q + s}
    BY <2>1, SMTT(30)
  <2> HIDE DEF root
  <2>3. /\ l \in Seq(SUBSET Pages) /\ Len(l) = h + 1 /\ l[1] = root[1]
        /\ \A i \in 1..h : l[i + 1] = wider[i]
    <3>1. root \o wider \in Seq(SUBSET Pages) /\ InFront(root \o wider, root, wider)
      BY <2>2, <1>7, InFrontAt
    <3>2. /\ l \in Seq(SUBSET Pages) /\ Len(l) = 1 + h
          /\ \A k \in 1..1 : l[k] = root[k]
          /\ \A k \in 1..h : l[1 + k] = wider[k]
      BY <3>1, <2>1, <2>2, <1>7 DEF InFront
    <3>3. 1 \in 1..1 /\ 1 + h = h + 1 /\ \A k \in 1..h : 1 + k = k + 1
      BY <1>1, SMTT(30)
    <3> QED
      BY <3>2, <3>3
  <2>4. l # <<>> /\ \A i \in 1..Len(l) : i = 1 \/ (i - 1 \in 1..h /\ i = (i - 1) + 1)
    BY <2>3, <1>1, SMTT(30)
  <2>5. ASSUME NEW i \in 1..Len(l), NEW p \in l[i] PROVE p <= hi
    <3>1. CASE i = 1
      <4>1. p = q + s /\ hi <= hi
        BY <3>1, <2>2, <2>3, <2>5, <1>4, SMTT(30)
      <4> QED
        BY <4>1, <2>1
    <3>2. CASE i - 1 \in 1..h /\ i = (i - 1) + 1
      <4>1. l[(i - 1) + 1] = wider[i - 1]
        BY <3>2, <2>3
      <4>2. p \in wider[i - 1]
        BY <4>1, <3>2, <2>5, SMTT(30)
      <4> QED
        BY <4>2, <3>2, <1>5
    <3> QED
      BY <3>1, <3>2, <2>4
  <2> QED
    BY <2>3, <2>4, <2>5 DEF l, hi
<1> QED
  BY <1>8, <1>9

\* A path is as long as the tree is high, and its pages have been allocated.
LEMMA PathsAt ==
  ASSUME StateOK, NEW path \in Paths
  PROVE  /\ path \in Seq(Pages) /\ Len(path) = Len(level)
         /\ \A i \in 1..Len(path) : path[i] \in Pages /\ path[i] <= allocated
<1>1. /\ DOMAIN level = 1..Len(level) /\ Len(level) \in Nat
      /\ \A i \in 1..Len(level) : \A p \in level[i] : p <= allocated
  BY SMTT(30) DEF StateOK
<1>2. path \in [DOMAIN level -> Pages] /\ \A i \in DOMAIN level : path[i] \in level[i]
  BY DEF Paths
<1>3. path \in [1..Len(level) -> Pages]
  BY <1>1, <1>2
<1>4. path \in Seq(Pages) /\ Len(path) = Len(level)
  BY <1>1, <1>3, SMTT(30)
<1> QED
  BY <1>1, <1>2, <1>3, <1>4

\* BPlusTree.insert.
LEMMA TreeInsertMethod ==
  ASSUME StateOK, level # <<>>, NEW path \in Paths, NEW s \in 0..Len(level), allocated + NewPages(s) <= MaxPages
  PROVE  LET t == TreeInsert(path, s, allocated + 1)
         IN  Method(t, 0) /\ Only(t, Unguarded) /\ Allocates(t, allocated)
<1> DEFINE h == Len(path)
           q == allocated + 1
           a == AccessAll(path)
           b == Flat([i \in 1..s |-> SplitPage(path[h + 1 - i], q + i - 1)], 7)
           c == IF s = h THEN NewRoot(q + s) ELSE Access(path[h + 1 - (s + 1)])
           l == Split(s, q)
           hi == allocated + NewPages(s)
<1>1. /\ path \in Seq(Pages) /\ h = Len(level) /\ h \in Nat /\ s \in 0..h
      /\ \A i \in 1..h : path[i] \in Pages /\ path[i] <= allocated
  BY PathsAt, SMTT(30) DEF StateOK
<1>2. /\ allocated \in Nat /\ MaxPages \in Nat /\ hi = (IF s = h THEN allocated + s + 1 ELSE allocated + s)
      /\ s \in Nat /\ allocated + s <= MaxPages /\ allocated + s \in Nat
  BY <1>1, PinsAssumption, SMTT(30) DEF StateOK, Pages, NewPages
<1>3. TreeInsert(path, s, q) = ((a \o b) \o c) \o <<<<"split", l>>>>
  BY DEF TreeInsert
<1>4. Method(a, 0) /\ Only(a, Plain) /\ Only(a, Growing) /\ a \in Seq(Call)
  BY <1>1, AccessAllMethod, OnlyMore DEF Method
<1>5. Method(b, 0) /\ Only(b, Growing) /\ News(b, allocated, allocated + s)
  BY <1>1, <1>2, SplitsMethod
<1>6. Method(c, 0) /\ Only(c, Growing) /\ News(c, allocated + s, hi)
  <2>1. CASE s = h
    <3>1. c = NewRoot(q + s) /\ q + s = (allocated + s) + 1 /\ q + s \in Pages /\ hi = (allocated + s) + 1
      BY <2>1, <1>2, SMTT(30) DEF Pages
    <3>2. Method(c, 0) /\ Only(c, Growing) /\ NewAt(c, 1, (allocated + s) + 1)
      BY <3>1, NewRootMethod
    <3>3. c \in Seq(Call)
      BY <3>2 DEF Method
    <3> HIDE DEF c, hi
    <3>4. News(c, allocated + s, (allocated + s) + 1)
      BY <3>2, <3>3, <1>2, NewsOne
    <3> QED
      BY <3>1, <3>2, <3>4
  <2>2. CASE s # h
    <3>1. c = Access(path[h + 1 - (s + 1)]) /\ h + 1 - (s + 1) \in 1..h /\ hi = allocated + s
      BY <2>2, <1>1, <1>2, SMTT(30)
    <3>2. Method(c, 0) /\ Only(c, Plain) /\ Only(c, Growing)
      BY <3>1, <1>1, AccessMethod, OnlyMore
    <3>3. c \in Seq(Call)
      BY <3>2 DEF Method
    <3> HIDE DEF c, hi
    <3>4. News(c, allocated + s, allocated + s)
      BY <3>2, <3>3, <1>2, NewsPlain
    <3> QED
      BY <3>1, <3>2, <3>4
  <2> QED
    BY <2>1, <2>2
<1>7. l \in Seq(SUBSET Pages) /\ l # <<>> /\ \A i \in 1..Len(l) : \A p \in l[i] : p <= hi
  BY SplitLevels
<1>8. News(a, allocated, allocated)
  BY <1>2, <1>4, NewsPlain
<1> DEFINE d == <<<<"split", l>>>>
<1> HIDE DEF a, b, c, l, hi, d
<1>9. Method(d, 0) /\ Only(d, Unguarded)
  BY <1>7, SplitMethod DEF d
<1>10. News((a \o b) \o c, allocated, hi)
  BY <1>5, <1>6, <1>8, NewsConcat
<1>11. Method(a \o b, 0) /\ Only(a \o b, Growing)
  BY <1>4, <1>5, ConcatMethod
<1>12. Method((a \o b) \o c, 0) /\ Only((a \o b) \o c, Growing)
  BY <1>6, <1>11, ConcatMethod
<1>13. Only((a \o b) \o c, Unguarded)
  BY <1>12, OnlyMore
<1>14. Method(((a \o b) \o c) \o d, 0) /\ Only(((a \o b) \o c) \o d, Unguarded)
  BY <1>9, <1>12, <1>13, ConcatMethod
<1>15. Allocates(((a \o b) \o c) \o d, allocated)
  BY <1>7, <1>10, AllocatesSplit DEF d
<1> QED
  BY <1>3, <1>14, <1>15 DEF d

\* The same, when the leaf cannot be split.
LEMMA TreeInsertThrowsMethod ==
  ASSUME StateOK, level # <<>>, NEW path \in Paths
  PROVE  LET t == TreeInsertThrows(path)
         IN  Method(t, 0) /\ Only(t, Unguarded) /\ Allocates(t, allocated)
<1> DEFINE a == AccessAll(path)
           b == <<Fetch(Last(path)), Use(Last(path)), <<"throw", Last(path)>>>>
<1>1. path \in Seq(Pages) /\ Len(path) = Len(level)
  BY PathsAt
<1>2. Last(path) \in Pages
  BY <1>1, SMTT(30) DEF Last, StateOK
<1>3. Method(a, 0) /\ Only(a, Quiet \cap Unguarded)
  BY <1>1, AccessAllMethod, OnlyMore
<1>4. Method(b, 0) /\ Only(b, Quiet \cap Unguarded)
  BY <1>2, ThrowMethod
<1>5. TreeInsertThrows(path) = a \o b
  BY DEF TreeInsertThrows
<1> HIDE DEF a, b
<1>6. Method(a \o b, 0) /\ Only(a \o b, Quiet \cap Unguarded)
  BY <1>3, <1>4, ConcatMethod
<1>7. Only(a \o b, Quiet) /\ Only(a \o b, Unguarded) /\ a \o b \in Seq(Call)
  BY <1>6, OnlyMore DEF Method
<1>8. Allocates(a \o b, allocated)
  BY <1>7, AllocatesQuiet
<1> QED
  BY <1>5, <1>6, <1>7, <1>8

\* Whatever happens to the entry.
LEMMA TreeInsertsMethod ==
  ASSUME StateOK, level # <<>>, NEW t \in TreeInserts
  PROVE  Method(t, 0) /\ Only(t, Unguarded) /\ Allocates(t, allocated)
<1>1. \/ \E path \in Paths : \E s \in {s \in 0..Len(level) : allocated + NewPages(s) <= MaxPages} :
           t = TreeInsert(path, s, allocated + 1)
      \/ \E path \in Paths : t = TreeInsertThrows(path)
  BY SMTT(30) DEF TreeInserts
<1>2. CASE \E path \in Paths : \E s \in {s \in 0..Len(level) : allocated + NewPages(s) <= MaxPages} :
             t = TreeInsert(path, s, allocated + 1)
  BY <1>2, TreeInsertMethod
<1>3. CASE \E path \in Paths : t = TreeInsertThrows(path)
  BY <1>3, TreeInsertThrowsMethod
<1> QED
  BY <1>1, <1>2, <1>3

\* HeapFile.insert behind the calls of an UPDATE, or without.
LEMMA ChangeHeapMethod ==
  ASSUME NEW old \in Pages, NEW last \in Pages, NEW kind, NEW done \in Nat,
         last <= done, done <= MaxPages
  PROVE  LET head == IF kind = "update" THEN Guarded(old) \o Guarded(old) ELSE <<>>
             s    == head \o InsertFits(last)
             t    == head \o InsertGrows(last, done + 1)
         IN  /\ Method(s, 0) /\ Allocates(s, done)
             /\ done < MaxPages => Method(t, 0) /\ Allocates(t, done)
<1> DEFINE head == IF kind = "update" THEN Guarded(old) \o Guarded(old) ELSE <<>>
           q == done + 1
           grows == InsertGrows(last, q)
<1>1. Method(head, 0) /\ Only(head, Quiet)
  <2>1. Method(Guarded(old), 0) /\ Only(Guarded(old), Quiet)
    BY GuardedMethod
  <2>2. Method(Guarded(old) \o Guarded(old), 0) /\ Only(Guarded(old) \o Guarded(old), Quiet)
    BY <2>1, ConcatMethod
  <2>3. Method(<<>>, 0) /\ Only(<<>>, Quiet)
    <3>1. <<>> \in Seq(Call) /\ Len(<<>>) \in Nat /\ 1..Len(<<>>) = {} /\ Len(<<>>) + 1 = 1
      BY SMTT(30)
    <3> QED
      BY <3>1, AtEnd DEF Method, Fresh, Disciplined, Narrow, Only
  <2> QED
    BY <2>2, <2>3
<1>2. Method(InsertFits(last), 0) /\ Only(InsertFits(last), Quiet)
  BY GuardedMethod DEF InsertFits
<1> HIDE DEF head
<1>3. Method(head \o InsertFits(last), 0) /\ Only(head \o InsertFits(last), Quiet)
  BY <1>1, <1>2, ConcatMethod
<1>4. Allocates(head \o InsertFits(last), done)
  BY <1>3, AllocatesQuiet DEF Method
<1>5. ASSUME done < MaxPages
      PROVE  Method(head \o grows, 0) /\ Allocates(head \o grows, done)
  <2>1. q \in Pages /\ last # q /\ q > done /\ q <= q
    BY <1>5, PinsAssumption, SMTT(30) DEF Pages
  <2>2. Method(grows, 0) /\ Len(grows) = 12 /\ NewAt(grows, 3, q) /\ LinksBehind(grows, 3, q)
    BY <2>1, InsertGrowsMethod
  <2> HIDE DEF grows, q
  <2>3. Allocates(grows, done)
    <3> SUFFICES ASSUME NEW i \in 1..Len(grows)
                 PROVE  /\ grows[i][1] = "new" =>
                             /\ grows[i][2] > done
                             /\ \A k \in (i + 1)..Len(grows) : grows[k][1] = "new" => grows[k][2] > grows[i][2]
                        /\ \A p \in Mentioned(grows[i]) :
                             p <= done \/ \E j \in 1..(i - 1) : grows[j][1] = "new" /\ p <= grows[j][2]
      BY DEF Allocates
    <3>1. grows[i][1] = "new" => i = 3 /\ grows[i][2] = q
      BY <2>2 DEF NewAt
    <3>2. \A k \in (i + 1)..Len(grows) : k \in 1..Len(grows) /\ k # i
      BY <2>2, SMTT(30)
    <3>3. \A k \in (i + 1)..Len(grows) : grows[i][1] = "new" => grows[k][1] # "new"
      BY <3>1, <3>2, <2>2 DEF NewAt
    <3>4. ASSUME NEW p \in Mentioned(grows[i])
          PROVE  p = q /\ 3 \in 1..(i - 1)
      <4>1. grows[i][1] # "split" /\ (grows[i][1] = "link" => grows[i][2] = q /\ 3 \in 1..(i - 1))
        BY <2>2 DEF LinksBehind
      <4> QED
        BY <4>1, <3>4 DEF Mentioned
    <3>5. grows[3][1] = "new" /\ grows[3][2] = q
      BY <2>2 DEF NewAt
    <3> QED
      BY <3>1, <3>3, <3>4, <3>5, <2>1
  <2>4. Method(head \o grows, 0)
    BY <1>1, <2>2, ConcatMethod
  <2>5. Allocates(head \o grows, done)
    <3>1. head \in Seq(Call) /\ grows \in Seq(Call)
      BY <1>1, <2>2 DEF Method
    <3> QED
      BY <3>1, <1>1, <2>3, AllocatesConcat
  <2> QED
    BY <2>4, <2>5
<1> QED
  BY <1>3, <1>4, <1>5 DEF head

-----------------------------------------------------------------------------
(* A call is made *)

\* What is open before the first call and behind it.
LEMMA FirstCall ==
  ASSUME NEW s \in Seq(Call), s # <<>>, NEW p
  PROVE  /\ Open(s, 1, p) <=> Closes(s[1], p) \/ (~Opens(s[1], p) /\ Open(Tail(s), 1, p))
         /\ Needed(s, 1, p) <=> Needs(s[1], p) \/ (~Opens(s[1], p) /\ Needed(Tail(s), 1, p))
<1>1. Len(s) \in Nat \ {0}
  BY TailAt
<1>2. Len(s) \in Nat /\ 1 \in 1..Len(s)
  BY <1>1, SMTT(30)
<1>3. /\ Open(Tail(s), 1, p) <=> Open(s, 1 + 1, p)
      /\ Needed(Tail(s), 1, p) <=> Needed(s, 1 + 1, p)
  BY <1>2, TailOpen
<1>4. /\ Open(s, 1, p) <=> Closes(s[1], p) \/ (~Opens(s[1], p) /\ Open(s, 1 + 1, p))
      /\ Needed(s, 1, p) <=> Needs(s[1], p) \/ (~Opens(s[1], p) /\ Needed(s, 1 + 1, p))
  BY <1>2, Unfold
<1> QED
  BY <1>3, <1>4

\* The calls that remain are as disciplined as all of them.
LEMMA TailMethod ==
  ASSUME NEW s \in Seq(Call), s # <<>>, NEW keep
  PROVE  /\ Disciplined(s, keep) => Disciplined(Tail(s), keep)
         /\ Narrow(s) => Narrow(Tail(s))
         /\ Sequential(s) => Sequential(Tail(s))
         /\ \A ops : Only(s, ops) => Only(Tail(s), ops)
<1> DEFINE t == Tail(s)
<1>1. /\ Len(s) \in Nat \ {0} /\ Len(t) \in Nat /\ Len(s) = Len(t) + 1
      /\ \A i \in 1..Len(t) : t[i] = s[i + 1]
  BY TailAt
<1>2. ASSUME NEW i \in 1..Len(s), NEW p
      PROVE  (Open(t, i, p) <=> Open(s, i + 1, p)) /\ (Needed(t, i, p) <=> Needed(s, i + 1, p))
  BY TailOpen
<1> HIDE DEF t
<1>3. \A i \in 1..Len(t) : /\ i \in 1..Len(s) /\ i + 1 \in 1..Len(s)
                           /\ (i = Len(t) <=> i + 1 = Len(s))
  BY <1>1, SMTT(30)
<1>4. ASSUME Disciplined(s, keep) PROVE Disciplined(t, keep)
  <2> SUFFICES ASSUME NEW i \in 1..Len(t), NEW p \in Pages
               PROVE  /\ Closes(t[i], p) => ~Needed(t, i + 1, p)
                      /\ Opens(t[i], p) => Open(t, i + 1, p) \/ (i = Len(t) /\ p = keep)
    BY DEF Disciplined
  <2>1. t[i] = s[i + 1] /\ i + 1 \in 1..Len(s) /\ (i = Len(t) <=> i + 1 = Len(s))
    BY <1>1, <1>3
  <2>2. /\ Open(t, i + 1, p) <=> Open(s, (i + 1) + 1, p)
        /\ Needed(t, i + 1, p) <=> Needed(s, (i + 1) + 1, p)
    BY <2>1, <1>2
  <2>3. /\ Closes(s[i + 1], p) => ~Needed(s, (i + 1) + 1, p)
        /\ Opens(s[i + 1], p) => Open(s, (i + 1) + 1, p) \/ (i + 1 = Len(s) /\ p = keep)
    BY <2>1, <1>4 DEF Disciplined
  <2> QED
    BY <2>1, <2>2, <2>3
<1>5. ASSUME Narrow(s) PROVE Narrow(t)
  <2> SUFFICES ASSUME NEW i \in 1..Len(t), NEW q \in Pages, NEW p1 \in Pages, NEW p2 \in Pages,
                      Opens(t[i], q), Open(t, i, p1), Open(t, i, p2)
               PROVE  p1 = p2
    BY DEF Narrow
  <2>1. t[i] = s[i + 1] /\ i + 1 \in 1..Len(s) /\ i \in 1..Len(s)
    BY <1>1, <1>3
  <2>2. Open(s, i + 1, p1) /\ Open(s, i + 1, p2) /\ Opens(s[i + 1], q)
    BY <2>1, <1>2
  <2> QED
    BY <2>1, <2>2, <1>5 DEF Narrow
<1>6. ASSUME Sequential(s) PROVE Sequential(t)
  <2> SUFFICES ASSUME NEW i \in 1..Len(t), NEW q \in Pages, NEW p \in Pages, Opens(t[i], q)
               PROVE  ~Open(t, i, p)
    BY DEF Sequential
  <2>1. t[i] = s[i + 1] /\ i + 1 \in 1..Len(s) /\ i \in 1..Len(s)
    BY <1>1, <1>3
  <2>2. ~Open(s, i + 1, p)
    BY <2>1, <1>6 DEF Sequential
  <2> QED
    BY <2>1, <2>2, <1>2
<1>7. ASSUME NEW ops, Only(s, ops) PROVE Only(t, ops)
  BY <1>1, <1>3, <1>7 DEF Only
<1> QED
  BY <1>4, <1>5, <1>6, <1>7 DEF t

\* A call is on a page, or gives the tree its levels.
LEMMA CallShape ==
  ASSUME NEW c \in Call
  PROVE  \/ c[1] \in PageCalls /\ c[1] # "split" /\ c[2] \in Pages
         \/ c[1] = "split" /\ c[2] \in Seq(SUBSET Pages) /\ c[2] # <<>>
BY SMTT(30) DEF Call, PageCalls

\* The pages a call adds to a chain or to the tree are pages.
LEMMA MentionedPages ==
  ASSUME NEW c \in Call, NEW p \in Mentioned(c)
  PROVE  p \in Pages
<1>1. CASE c[1] = "split" /\ c[2] \in Seq(SUBSET Pages)
  <2>1. \A l \in 1..Len(c[2]) : c[2][l] \in SUBSET Pages
    BY <1>1, SMTT(30)
  <2> QED
    BY <2>1, <1>1 DEF Mentioned
<1>2. CASE c[1] # "split" /\ c[2] \in Pages
  BY <1>2 DEF Mentioned
<1> QED
  BY <1>1, <1>2, CallShape

\* A page that is made is the last one then.
LEMMA TailAllocates ==
  ASSUME NEW s \in Seq(Call), s # <<>>, NEW last \in Pages, Allocates(s, last)
  PROVE  /\ Allocates(Tail(s), IF s[1][1] = "new" THEN s[1][2] ELSE last)
         /\ s[1][1] = "new" => s[1][2] > last
         /\ \A p \in Mentioned(s[1]) : p <= last
<1> DEFINE t == Tail(s)
           next == IF s[1][1] = "new" THEN s[1][2] ELSE last
<1>1. /\ Len(s) \in Nat \ {0} /\ Len(t) \in Nat /\ Len(s) = Len(t) + 1 /\ s[1] \in Call
      /\ \A i \in 1..Len(t) : t[i] = s[i + 1]
  BY TailAt
<1>2. 1 \in 1..Len(s) /\ 1..(1 - 1) = {}
  BY <1>1, SMTT(30)
<1>3. /\ s[1][1] = "new" => s[1][2] > last
      /\ \A p \in Mentioned(s[1]) : p <= last
  BY <1>2 DEF Allocates
<1> HIDE DEF t
<1>4. \A i \in 1..Len(t) : i + 1 \in 1..Len(s) /\ i + 1 \in (1 + 1)..Len(s)
  BY <1>1, SMTT(30)
<1>5. s[1][1] = "new" => s[1][2] \in Pages
  BY <1>1, SMTT(30) DEF Call
<1>6. next \in Pages /\ last <= next
  BY <1>3, <1>5, SMTT(30) DEF Pages
<1> SUFFICES ASSUME NEW i \in 1..Len(t)
             PROVE  /\ t[i][1] = "new" => /\ t[i][2] > next
                                          /\ \A k \in (i + 1)..Len(t) : t[k][1] = "new" => t[k][2] > t[i][2]
                    /\ \A p \in Mentioned(t[i]) :
                         p <= next \/ \E j \in 1..(i - 1) : t[j][1] = "new" /\ p <= t[j][2]
  BY <1>3 DEF Allocates, t
<1>7. ASSUME t[i][1] = "new" PROVE t[i][2] > next
  <2>1. s[i + 1][1] = "new" /\ s[i + 1][2] = t[i][2]
    BY <1>7, <1>1
  <2>2. s[i + 1][2] > last
    BY <2>1, <1>4 DEF Allocates
  <2>3. s[1][1] = "new" => s[i + 1][2] > s[1][2]
    BY <2>1, <1>2, <1>4 DEF Allocates
  <2> QED
    BY <2>1, <2>2, <2>3
<1>8. ASSUME t[i][1] = "new", NEW k \in (i + 1)..Len(t), t[k][1] = "new" PROVE t[k][2] > t[i][2]
  <2>1. k \in 1..Len(t) /\ k + 1 \in ((i + 1) + 1)..Len(s)
    BY <1>1, <1>8, SMTT(30)
  <2>2. t[k] = s[k + 1] /\ t[i] = s[i + 1] /\ i + 1 \in 1..Len(s)
    BY <2>1, <1>1, <1>4
  <2> QED
    BY <2>1, <2>2, <1>8 DEF Allocates
<1>9. ASSUME NEW p \in Mentioned(t[i])
      PROVE  p <= next \/ \E j \in 1..(i - 1) : t[j][1] = "new" /\ p <= t[j][2]
  <2>1. t[i] = s[i + 1] /\ i + 1 \in 1..Len(s)
    BY <1>1, <1>4
  <2>2. p <= last \/ \E j \in 1..((i + 1) - 1) : s[j][1] = "new" /\ p <= s[j][2]
    BY <2>1, <1>9 DEF Allocates
  <2>3. CASE p <= last
    <3>1. p \in Pages
      <4>1. s[i + 1] \in Call
        BY <2>1, SMTT(30)
      <4> QED
        BY <4>1, <2>1, <1>9, MentionedPages
    <3> QED
      BY <3>1, <2>3, <1>6, SMTT(30) DEF Pages
  <2>4. ASSUME NEW j \in 1..((i + 1) - 1), s[j][1] = "new", p <= s[j][2]
        PROVE  p <= next \/ \E k \in 1..(i - 1) : t[k][1] = "new" /\ p <= t[k][2]
    <3>1. j = 1 \/ (j - 1 \in 1..(i - 1) /\ j - 1 \in 1..Len(t) /\ (j - 1) + 1 = j)
      BY <1>1, SMTT(30)
    <3>2. CASE j = 1
      BY <3>2, <2>4
    <3>3. CASE j - 1 \in 1..(i - 1) /\ j - 1 \in 1..Len(t) /\ (j - 1) + 1 = j
      <4>1. t[j - 1] = s[(j - 1) + 1]
        BY <3>3, <1>1
      <4> QED
        BY <4>1, <3>3, <2>4
    <3> QED
      BY <3>1, <3>2, <3>3
  <2> QED
    BY <2>2, <2>3, <2>4
<1> QED
  BY <1>7, <1>8, <1>9

-----------------------------------------------------------------------------
(* The inductive invariant *)

\* The statement, and what it has under way.
PhaseInv ==
  /\ stmt.kind = "idle" => todo = <<>>
  /\ stmt.kind = "raising" =>
       stmt.outcome \in {"full", "error"} /\ Only(todo, {"finally"})
  /\ stmt.kind \in {"idle", "raising", "insert"} \/ ~stmt.opened => cursors = <<>>
  /\ Len(cursors) = 2 => stmt.kind = "join"
  /\ stmt.kind = "create index" => level # <<>> \/ \E i \in 1..Len(todo) : todo[i][1] = "split"
  /\ stmt.stage = "entry" => level # <<>>

Keep == IF cursors = <<>> THEN 0 ELSE Page(Top)

TodoInv ==
  /\ todo \in Seq(Call)
  /\ Disciplined(todo, Keep) /\ Narrow(todo) /\ Allocates(todo, allocated)
  /\ Len(cursors) = 2 => Sequential(todo)
  /\ cursors # <<>> => Only(todo, Unguarded)

\* The innermost scan has its page still to fetch.
Pending == cursors # <<>> /\ todo # <<>> /\ todo[Len(todo)] = Fetch(Page(Top))

HeldBy(i, p) ==
  IF i \in 1..Len(cursors) /\ Page(cursors[i]) = p /\ ~(i = Len(cursors) /\ Pending) THEN 1 ELSE 0

Held(p) == HeldBy(1, p) + HeldBy(2, p)

One(b) == IF b THEN 1 ELSE 0

\* Scans and calls have the pins they rely on.
LowerInv == \A p \in Pages : pin[p] >= Held(p) + One(Needed(todo, 1, p))

\* There are no others than those and what the statement found.
UpperInv ==
  stmt.kind \notin {"idle", "raising"} \/ (stmt.kind = "idle" /\ stmt.outcome = "ok") =>
    \A p \in Pages : pin[p] <= before[p] + Held(p) + One(Open(todo, 1, p))

PinsInv == TypeOK /\ StateOK /\ PhaseInv /\ TodoInv /\ LowerInv /\ UpperInv /\ FullOnlyAfterLosses

-----------------------------------------------------------------------------
(* The pins of the scans *)

\* A sequence of anything.
LEMMA SeqFacts ==
  ASSUME NEW S, NEW s \in Seq(S)
  PROVE  /\ Len(s) \in Nat /\ (s = <<>> <=> Len(s) = 0) /\ DOMAIN s = 1..Len(s)
         /\ \A i \in 1..Len(s) : s[i] \in S
BY SMTT(30)

\* The pages of the scans.
LEMMA CursorPages ==
  ASSUME StateOK
  PROVE  /\ Len(cursors) \in {0, 1, 2} /\ (cursors = <<>> <=> Len(cursors) = 0)
         /\ \A i \in 1..Len(cursors) :
              /\ cursors[i] \in Cursor /\ cursors[i].table \in Tables
              /\ cursors[i].at \in 1..Len(chain[cursors[i].table])
              /\ Page(cursors[i]) \in Pages /\ Page(cursors[i]) <= allocated
<1>1. /\ Len(cursors) \in {0, 1, 2} /\ (cursors = <<>> <=> Len(cursors) = 0)
      /\ \A i \in 1..Len(cursors) : cursors[i] \in Cursor
  <2>1. cursors \in Seq(Cursor) /\ Len(cursors) <= 2
    BY DEF StateOK
  <2>2. /\ Len(cursors) \in Nat /\ (cursors = <<>> <=> Len(cursors) = 0)
        /\ \A i \in 1..Len(cursors) : cursors[i] \in Cursor
    BY <2>1, SeqFacts
  <2>3. \A n \in Nat : n <= 2 => n \in {0, 1, 2}
    BY SMTT(30)
  <2> QED
    BY <2>1, <2>2, <2>3
<1>2. ASSUME NEW i \in 1..Len(cursors)
      PROVE  /\ cursors[i] \in Cursor /\ cursors[i].table \in Tables
             /\ cursors[i].at \in 1..Len(chain[cursors[i].table])
             /\ Page(cursors[i]) \in Pages /\ Page(cursors[i]) <= allocated
  <2>1. cursors[i].table \in Tables /\ cursors[i].at \in Nat \ {0}
    BY <1>1, SMTT(30) DEF Cursor
  <2>2. chain[cursors[i].table] \in Seq(Pages)
    BY <2>1 DEF StateOK
  <2>3. cursors[i].at <= Len(chain[cursors[i].table])
    BY DEF StateOK
  <2>4. cursors[i].at \in 1..Len(chain[cursors[i].table])
    BY <2>1, <2>2, <2>3, SMTT(30)
  <2>5. chain[cursors[i].table][cursors[i].at] \in Pages
    BY <2>2, <2>4, SMTT(30)
  <2>6. chain[cursors[i].table][cursors[i].at] <= allocated
    BY <2>1, <2>4 DEF StateOK
  <2> QED
    BY <1>1, <2>1, <2>4, <2>5, <2>6 DEF Page
<1> QED
  BY <1>1, <1>2

\* The page a scan keeps is its own.
LEMMA KeepPage ==
  ASSUME StateOK
  PROVE  /\ Keep \in Pages <=> cursors # <<>>
         /\ cursors # <<>> => Keep = Page(Top) /\ Keep <= allocated
                              /\ Len(cursors) \in 1..Len(cursors)
<1>1. /\ Len(cursors) \in {0, 1, 2} /\ (cursors = <<>> <=> Len(cursors) = 0)
      /\ \A i \in 1..Len(cursors) : Page(cursors[i]) \in Pages /\ Page(cursors[i]) <= allocated
  BY CursorPages
<1>2. 0 \notin Pages /\ (cursors # <<>> => Len(cursors) \in 1..Len(cursors))
  BY <1>1, SMTT(30) DEF Pages
<1> QED
  BY <1>1, <1>2 DEF Keep, Top

\* A scan has one pin, or none.
LEMMA HeldNat ==
  \A p : HeldBy(1, p) \in {0, 1} /\ HeldBy(2, p) \in {0, 1} /\ Held(p) \in Nat
<1>1. \A p : HeldBy(1, p) \in {0, 1} /\ HeldBy(2, p) \in {0, 1}
  BY DEF HeldBy
<1> QED
  BY <1>1, SMTT(30) DEF Held

\* Without scans none is held.
LEMMA HeldNone ==
  ASSUME StateOK, cursors = <<>>
  PROVE  \A p : Held(p) = 0
<1>1. Len(cursors) = 0
  BY CursorPages
<1>2. 1 \notin 1..Len(cursors) /\ 2 \notin 1..Len(cursors)
  BY <1>1, SMTT(30)
<1>3. \A p : HeldBy(1, p) = 0 /\ HeldBy(2, p) = 0
  BY <1>2 DEF HeldBy
<1> QED
  BY <1>3, SMTT(30) DEF Held

\* The calls that remain, and the scan that waits for the last of them.
LEMMA TailTodo ==
  ASSUME StateOK, TodoInv, todo # <<>>, todo' = Tail(todo), cursors' = cursors,
         \A i \in 1..Len(cursors) : Page(cursors[i])' = Page(cursors[i])
  PROVE  /\ todo' \in Seq(Call) /\ Disciplined(todo', Keep') /\ Narrow(todo')
         /\ Len(cursors') = 2 => Sequential(todo')
         /\ cursors' # <<>> => Only(todo', Unguarded)
         /\ \A ops : Only(todo, ops) => Only(todo', ops)
         /\ Keep' = Keep
         /\ todo[1][1] # "fetch" \/ Len(todo) # 1 => (Pending' <=> Pending)
         /\ Len(todo) = 1 => ~Pending'
<1>1. cursors # <<>> => Len(cursors) \in 1..Len(cursors)
  BY KeepPage
<1>2. Keep' = Keep /\ (cursors # <<>> => Page(Top)' = Page(Top))
  BY <1>1 DEF Keep, Top
<1>3. /\ todo \in Seq(Call) /\ Disciplined(todo, Keep) /\ Narrow(todo)
      /\ Len(cursors) = 2 => Sequential(todo)
      /\ cursors # <<>> => Only(todo, Unguarded)
  BY DEF TodoInv
<1>4. /\ Tail(todo) \in Seq(Call) /\ Len(todo) \in Nat \ {0} /\ Len(Tail(todo)) \in Nat
      /\ Len(todo) = Len(Tail(todo)) + 1
      /\ \A i \in 1..Len(Tail(todo)) : Tail(todo)[i] = todo[i + 1]
  BY <1>3, TailAt
<1>5. /\ Disciplined(Tail(todo), Keep) /\ Narrow(Tail(todo))
      /\ Len(cursors) = 2 => Sequential(Tail(todo))
      /\ \A ops : Only(todo, ops) => Only(Tail(todo), ops)
  BY <1>3, TailMethod
<1>6. CASE Len(todo) = 1
  <2>1. Tail(todo) = <<>>
    <3>1. Len(Tail(todo)) = 0
      <4>1. \A n \in Nat : n + 1 = 1 => n = 0
        BY SMTT(30)
      <4> QED
        BY <4>1, <1>4, <1>6
    <3> QED
      BY <3>1, <1>4, SeqFacts
  <2>2. ~Pending'
    BY <2>1 DEF Pending
  <2>3. todo[1][1] # "fetch" => ~Pending
    <3>1. \A p : Fetch(p)[1] = "fetch"
      BY SMTT(30) DEF Fetch
    <3> QED
      BY <3>1, <1>6 DEF Pending
  <2> QED
    BY <1>2, <1>3, <1>4, <1>5, <1>6, <2>2, <2>3
<1>7. CASE Len(todo) # 1
  <2>1. Len(Tail(todo)) \in 1..Len(Tail(todo)) /\ Tail(todo) # <<>>
    <3>1. \A n \in Nat : n + 1 # 1 => n \in 1..n /\ n # 0
      BY SMTT(30)
    <3> QED
      BY <3>1, <1>4, <1>7, SeqFacts
  <2>2. Tail(todo)[Len(Tail(todo))] = todo[Len(todo)]
    BY <2>1, <1>4
  <2>3. Pending' <=> Pending
    BY <2>1, <2>2, <1>2 DEF Pending
  <2> QED
    BY <1>2, <1>3, <1>4, <1>5, <1>7, <2>3
<1> QED
  BY <1>6, <1>7

\* The scans hold what they held.
LEMMA SameHeld ==
  ASSUME cursors' = cursors, \A i \in 1..Len(cursors) : Page(cursors[i])' = Page(cursors[i]),
         Pending' <=> Pending
  PROVE  \A p : Held(p)' = Held(p)
<1>1. ASSUME NEW p, NEW i PROVE HeldBy(i, p)' = HeldBy(i, p)
  BY DEF HeldBy
<1> QED
  BY <1>1 DEF Held

\* There is a first call.
LEMMA FirstIndex ==
  ASSUME NEW s \in Seq(Call), s # <<>>
  PROVE  1 \in 1..Len(s)
<1>1. Len(s) \in Nat \ {0}
  BY TailAt
<1> QED
  BY <1>1, SMTT(30)

\* The tree still gets its levels.
LEMMA SplitRemains ==
  ASSUME NEW s \in Seq(Call), s # <<>>, s[1][1] # "split", NEW i \in 1..Len(s), s[i][1] = "split"
  PROVE  \E k \in 1..Len(Tail(s)) : Tail(s)[k][1] = "split"
<1>1. /\ Len(s) \in Nat \ {0} /\ Len(Tail(s)) \in Nat /\ Len(s) = Len(Tail(s)) + 1
      /\ \A k \in 1..Len(Tail(s)) : Tail(s)[k] = s[k + 1]
  BY TailAt
<1>2. i # 1
  OBVIOUS
<1>3. i - 1 \in 1..Len(Tail(s)) /\ (i - 1) + 1 = i
  BY <1>1, <1>2, SMTT(30)
<1>4. Tail(s)[i - 1] = s[(i - 1) + 1]
  BY <1>1, <1>3
<1> QED
  BY <1>3, <1>4

\* What the first call releases is not needed afterwards, what it pins is open.
LEMMA FirstDisciplined ==
  ASSUME NEW s \in Seq(Call), s # <<>>, NEW keep, Disciplined(s, keep), NEW p \in Pages
  PROVE  /\ Closes(s[1], p) => ~Needed(Tail(s), 1, p)
         /\ Opens(s[1], p) => Open(Tail(s), 1, p) \/ (Len(s) = 1 /\ p = keep)
<1>1. Len(s) \in Nat \ {0}
  BY TailAt
<1>2. 1 \in 1..Len(s)
  BY <1>1, SMTT(30)
<1>3. /\ Open(Tail(s), 1, p) <=> Open(s, 1 + 1, p)
      /\ Needed(Tail(s), 1, p) <=> Needed(s, 1 + 1, p)
  BY <1>2, TailOpen
<1> QED
  BY <1>2, <1>3 DEF Disciplined

-----------------------------------------------------------------------------
(* Every step preserves the invariant *)

\* unpin_page: a page that is in use has a pin for each use.
LEMMA CallUnpinInv ==
  ASSUME PinsInv, CallUnpin
  PROVE  PinsInv'
<1> DEFINE c == todo[1]
           p == todo[1][2]
<1>1. TypeOK /\ StateOK /\ PhaseInv /\ TodoInv /\ LowerInv /\ UpperInv /\ FullOnlyAfterLosses
  BY DEF PinsInv
<1>2. todo \in Seq(Call) /\ Disciplined(todo, Keep) /\ Allocates(todo, allocated)
  BY <1>1 DEF TodoInv
<1>3. todo # <<>> /\ Head(todo) = todo[1] /\ c \in Call
  BY <1>2, TailAt DEF CallUnpin
<1>4. /\ c[1] \in {"unpin", "finally"} /\ todo' = Tail(todo)
      /\ pin' = [pin EXCEPT ![p] = IF @ > 0 THEN @ - 1 ELSE 0]
      /\ resident' = resident /\ chain' = chain /\ level' = level /\ allocated' = allocated
      /\ stmt' = stmt /\ cursors' = cursors /\ before' = before
  BY <1>3 DEF CallUnpin, UnpinPage, files
<1>5. p \in Pages
  BY <1>3, <1>4, CallShape
<1> HIDE DEF c, p
<1>6. \A i \in 1..Len(cursors) : Page(cursors[i])' = Page(cursors[i])
  BY <1>4 DEF Page
<1>7. /\ todo' \in Seq(Call) /\ Disciplined(todo', Keep') /\ Narrow(todo')
      /\ Len(cursors') = 2 => Sequential(todo')
      /\ cursors' # <<>> => Only(todo', Unguarded)
      /\ \A ops : Only(todo, ops) => Only(todo', ops)
      /\ todo[1][1] # "fetch" \/ Len(todo) # 1 => (Pending' <=> Pending)
  BY <1>1, <1>3, <1>4, <1>6, TailTodo
<1>8. \A q : Held(q)' = Held(q)
  <2>1. Pending' <=> Pending
    BY <1>4, <1>7 DEF c
  <2> QED
    BY <2>1, <1>4, <1>6, SameHeld
<1>9. /\ c[1] # "new" /\ Allocates(todo', allocated')
  <2>1. Allocates(Tail(todo), IF todo[1][1] = "new" THEN todo[1][2] ELSE allocated)
    BY <1>1, <1>2, <1>3, TailAllocates DEF StateOK
  <2> QED
    BY <2>1, <1>4 DEF c
<1>10. ASSUME NEW q \in Pages, q # p
       PROVE  /\ Open(todo', 1, q) <=> Open(todo, 1, q)
              /\ Needed(todo', 1, q) <=> Needed(todo, 1, q)
  <2>1. ~Opens(c, q) /\ ~Closes(c, q) /\ ~Needs(c, q)
    BY <1>10 DEF Opens, Closes, Needs, c, p
  <2> QED
    BY <2>1, <1>2, <1>3, <1>4, FirstCall DEF c
<1>11. /\ Open(todo, 1, p) /\ ~Needed(todo', 1, p)
       /\ c[1] = "unpin" => Needed(todo, 1, p)
  <2>1. Closes(c, p) /\ (c[1] = "unpin" => Needs(c, p))
    BY <1>4 DEF Closes, Needs, c, p
  <2> QED
    BY <2>1, <1>2, <1>3, <1>4, <1>5, FirstCall, FirstDisciplined DEF c
<1>12. /\ pin \in [Pages -> Nat] /\ before \in [Pages -> Nat]
       /\ pin' \in [Pages -> Nat]
       /\ pin'[p] = IF pin[p] > 0 THEN pin[p] - 1 ELSE 0
       /\ \A q \in Pages : q # p => pin'[q] = pin[q]
  <2>1. pin \in [Pages -> Nat] /\ before \in [Pages -> Nat]
    BY <1>1 DEF TypeOK, StateOK
  <2> QED
    BY <2>1, <1>4, <1>5, SMTT(30)
<1>13. TypeOK'
  <2>1. \A q \in Pages : pin'[q] > 0 => pin[q] > 0
    BY <1>5, <1>12, SMTT(30)
  <2> QED
    BY <2>1, <1>1, <1>4, <1>12 DEF TypeOK
<1>14. StateOK'
  BY <1>1, <1>4 DEF StateOK
<1>15. PhaseInv'
  <2>1. todo # <<>> => stmt.kind # "idle"
    BY <1>1 DEF PhaseInv
  <2>2. stmt.kind = "create index" => level # <<>> \/ \E i \in 1..Len(todo') : todo'[i][1] = "split"
    BY <1>1, <1>2, <1>3, <1>4, SplitRemains DEF PhaseInv, c
  <2> QED
    BY <2>1, <2>2, <1>1, <1>3, <1>4, <1>7 DEF PhaseInv
<1>16. TodoInv'
  BY <1>7, <1>9 DEF TodoInv
<1>17. c[1] = "finally" => cursors = <<>>
  <2>1. ASSUME Only(todo, Unguarded) PROVE c[1] # "finally"
    <3>1. 1 \in 1..Len(todo)
      BY <1>2, <1>3, FirstIndex
    <3> QED
      BY <2>1, <3>1 DEF Only, Unguarded, c
  <2> QED
    BY <2>1, <1>1 DEF TodoInv
<1>18. /\ pin[p] >= Held(p) + One(Needed(todo, 1, p))
       /\ Held(p) \in Nat /\ (c[1] = "finally" => Held(p) = 0)
  BY <1>1, <1>5, <1>17, HeldNat, HeldNone DEF LowerInv
<1>19. LowerInv'
  <2> SUFFICES ASSUME NEW q \in Pages
               PROVE  pin'[q] >= Held(q)' + One(Needed(todo', 1, q))
    BY DEF LowerInv, One
  <2>1. CASE q # p
    BY <2>1, <1>1, <1>8, <1>10, <1>12 DEF LowerInv, One
  <2>2. CASE q = p
    <3>1. One(Needed(todo', 1, p)) = 0 /\ (c[1] = "unpin" => One(Needed(todo, 1, p)) = 1)
      BY <1>11 DEF One
    <3>2. pin[p] \in Nat /\ One(Needed(todo, 1, p)) \in {0, 1}
      BY <1>5, <1>12 DEF One
    <3>3. pin'[p] >= Held(p) + 0
      BY <3>1, <3>2, <1>4, <1>12, <1>18, SMTT(30)
    <3> QED
      BY <3>1, <3>3, <2>2, <1>8
  <2> QED
    BY <2>1, <2>2
<1>20. UpperInv'
  <2> SUFFICES ASSUME stmt.kind \notin {"idle", "raising"} \/ (stmt.kind = "idle" /\ stmt.outcome = "ok"),
                      NEW q \in Pages
               PROVE  pin'[q] <= before[q] + Held(q)' + One(Open(todo', 1, q))
    BY <1>4 DEF UpperInv, One
  <2>0. pin[q] <= before[q] + Held(q) + One(Open(todo, 1, q))
    BY <1>1 DEF UpperInv
  <2>1. CASE q # p
    BY <2>0, <2>1, <1>8, <1>10, <1>12 DEF One
  <2>2. CASE q = p
    <3>1. One(Open(todo, 1, p)) = 1 /\ One(Open(todo', 1, p)) \in {0, 1}
      BY <1>11 DEF One
    <3>2. pin[p] \in Nat /\ before[p] \in Nat
      BY <1>5, <1>12
    <3>3. pin'[p] <= before[p] + Held(p) + One(Open(todo', 1, p))
      BY <3>1, <3>2, <2>0, <2>2, <1>12, <1>18, SMTT(30)
    <3> QED
      BY <3>3, <2>2, <1>8
  <2> QED
    BY <2>1, <2>2
<1>21. FullOnlyAfterLosses'
  BY <1>1, <1>4 DEF FullOnlyAfterLosses
<1> QED
  BY <1>13, <1>14, <1>15, <1>16, <1>19, <1>20, <1>21 DEF PinsInv

\* A chain with one page more, or the same.
Grown(old, new, p) ==
  /\ Len(old) \in Nat /\ Len(new) \in Nat /\ Len(old) <= Len(new)
  /\ \A i \in 1..Len(old) : new[i] = old[i]
  /\ \A i \in 1..Len(new) : i \in 1..Len(old) \/ new[i] = p

AllGrown(old, new, p) ==
  new \in [Tables -> Seq(Pages)] /\ \A t \in Tables : Grown(old[t], new[t], p)

\* The chains, with one page more.
LEMMA ChainGrows ==
  ASSUME NEW ch \in [Tables -> Seq(Pages)], NEW p \in Pages
  PROVE  AllGrown(ch, [ch EXCEPT !["left"] = Append(@, p)], p)
<1> DEFINE new == [ch EXCEPT !["left"] = Append(@, p)]
<1>1. ASSUME NEW s \in Seq(Pages)
      PROVE  /\ Append(s, p) \in Seq(Pages) /\ Len(s) \in Nat /\ Len(Append(s, p)) = Len(s) + 1
             /\ \A i \in 1..Len(s) : Append(s, p)[i] = s[i]
             /\ Append(s, p)[Len(s) + 1] = p
  BY SMTT(30)
<1>2. ASSUME NEW n \in Nat
      PROVE  n + 1 \in Nat /\ n <= n + 1 /\ n <= n /\ \A i \in 1..(n + 1) : i \in 1..n \/ i = n + 1
  BY SMTT(30)
<1>3. ASSUME NEW s \in Seq(Pages) PROVE Grown(s, Append(s, p), p) /\ Grown(s, s, p)
  BY <1>1, <1>2 DEF Grown
<1>4. "left" \in Tables
  BY DEF Tables
<1>5. ASSUME NEW t \in Tables
      PROVE  new[t] = (IF t = "left" THEN Append(ch[t], p) ELSE ch[t]) /\ ch[t] \in Seq(Pages)
  BY <1>4
<1>6. new \in [Tables -> Seq(Pages)]
  <2>1. Append(ch["left"], p) \in Seq(Pages)
    BY <1>1, <1>4
  <2> QED
    BY <2>1, <1>4
<1> QED
  BY <1>3, <1>5, <1>6 DEF AllGrown

\* The files when a page has joined the chain, or the tree has its levels.
LEMMA FilesGrow ==
  ASSUME StateOK, NEW c \in Call, c[1] \in {"use", "link", "split"}, \A p \in Mentioned(c) : p <= allocated,
         chain' = (IF c[1] = "link" THEN [chain EXCEPT !["left"] = Append(@, c[2])] ELSE chain),
         level' = (IF c[1] = "split" THEN c[2] ELSE level),
         allocated' = allocated, stmt' = stmt, before' = before, cursors' = cursors
  PROVE  /\ StateOK' /\ (level # <<>> => level' # <<>>)
         /\ \A i \in 1..Len(cursors) : Page(cursors[i])' = Page(cursors[i])
<1>1. /\ chain \in [Tables -> Seq(Pages)]
      /\ \A t \in Tables : Len(chain[t]) > 0 /\ \A i \in 1..Len(chain[t]) : chain[t][i] <= allocated
      /\ level \in Seq(SUBSET Pages)
      /\ \A l \in 1..Len(level) : \A p \in level[l] : p <= allocated
      /\ \A i \in 1..Len(cursors) : cursors[i].at <= Len(chain[cursors[i].table])
      /\ allocated \in Pages /\ stmt \in Statement /\ before \in [Pages -> Nat]
      /\ cursors \in Seq(Cursor) /\ Len(cursors) <= 2
  BY DEF StateOK
<1>2. \A i \in 1..Len(cursors) : /\ cursors[i].table \in Tables /\ cursors[i].at \in Nat
                                 /\ cursors[i].at \in 1..Len(chain[cursors[i].table])
  <2>1. \A i \in 1..Len(cursors) : /\ cursors[i] \in Cursor /\ cursors[i].table \in Tables
                                   /\ cursors[i].at \in 1..Len(chain[cursors[i].table])
    BY CursorPages
  <2>2. \A k \in Cursor : k.at \in Nat
    BY SMTT(30) DEF Cursor
  <2> QED
    BY <2>1, <2>2
<1>3. /\ level' \in Seq(SUBSET Pages) /\ (level # <<>> => level' # <<>>)
      /\ \A l \in 1..Len(level') : \A p \in level'[l] : p <= allocated
  <2>1. CASE c[1] = "split"
    <3>1. c[2] \in Seq(SUBSET Pages) /\ c[2] # <<>>
      BY <2>1, CallShape
    <3>2. \A l \in 1..Len(c[2]) : \A p \in c[2][l] : p <= allocated
      BY <2>1 DEF Mentioned
    <3> QED
      BY <3>1, <3>2, <2>1
  <2> QED
    BY <2>1, <1>1
<1>4. /\ chain' \in [Tables -> Seq(Pages)]
      /\ \A t \in Tables : Len(chain'[t]) > 0 /\ \A i \in 1..Len(chain'[t]) : chain'[t][i] <= allocated
      /\ \A i \in 1..Len(cursors) : /\ cursors[i].at <= Len(chain'[cursors[i].table])
                                    /\ Page(cursors[i])' = Page(cursors[i])
  <2>1. CASE c[1] = "link"
    <3>1. c[2] \in Pages /\ c[2] <= allocated /\ chain' = [chain EXCEPT !["left"] = Append(@, c[2])]
      BY <2>1, CallShape DEF Mentioned
    <3>2. chain' \in [Tables -> Seq(Pages)] /\ \A t \in Tables : Grown(chain[t], chain'[t], c[2])
      <4>1. AllGrown(chain, [chain EXCEPT !["left"] = Append(@, c[2])], c[2])
        BY <3>1, <1>1, ChainGrows
      <4>2. AllGrown(chain, chain', c[2])
        BY <4>1, <3>1
      <4> QED
        BY <4>2 DEF AllGrown
    <3>3. \A m, n, k \in Nat : m <= n => (m > 0 => n > 0) /\ (k <= m => k <= n)
      BY SMTT(30)
    <3>4. ASSUME NEW t \in Tables
          PROVE  Len(chain'[t]) > 0 /\ \A i \in 1..Len(chain'[t]) : chain'[t][i] <= allocated
      <4>1. Grown(chain[t], chain'[t], c[2]) /\ Len(chain[t]) > 0
        BY <3>2, <1>1
      <4>2. Len(chain'[t]) > 0
        BY <4>1, <3>3 DEF Grown
      <4>3. ASSUME NEW i \in 1..Len(chain'[t]) PROVE chain'[t][i] <= allocated
        BY <4>1, <4>3, <3>1, <1>1 DEF Grown
      <4> QED
        BY <4>2, <4>3
    <3>5. ASSUME NEW i \in 1..Len(cursors)
          PROVE  /\ cursors[i].at <= Len(chain'[cursors[i].table])
                 /\ Page(cursors[i])' = Page(cursors[i])
      <4> DEFINE t == cursors[i].table
      <4>1. /\ t \in Tables /\ cursors[i].at \in Nat /\ cursors[i].at \in 1..Len(chain[t])
            /\ cursors[i].at <= Len(chain[t])
        BY <1>1, <1>2
      <4>2. Grown(chain[t], chain'[t], c[2])
        BY <4>1, <3>2
      <4> HIDE DEF t
      <4>3. cursors[i].at <= Len(chain'[t]) /\ chain'[t][cursors[i].at] = chain[t][cursors[i].at]
        BY <4>1, <4>2, <3>3 DEF Grown
      <4> QED
        BY <4>3 DEF Page, t
    <3> QED
      BY <3>2, <3>4, <3>5
  <2>2. CASE c[1] # "link"
    BY <2>2, <1>1 DEF Page
  <2> QED
    BY <2>1, <2>2
<1> QED
  BY <1>1, <1>3, <1>4 DEF StateOK

\* The bytes of a page are read or written.
LEMMA CallUseInv ==
  ASSUME PinsInv, CallUse
  PROVE  PinsInv'
<1> DEFINE c == todo[1]
<1>1. TypeOK /\ StateOK /\ PhaseInv /\ TodoInv /\ LowerInv /\ UpperInv /\ FullOnlyAfterLosses
  BY DEF PinsInv
<1>2. todo \in Seq(Call) /\ Allocates(todo, allocated) /\ allocated \in Pages
  BY <1>1 DEF TodoInv, StateOK
<1>3. todo # <<>> /\ Head(todo) = todo[1] /\ c \in Call
  BY <1>2, TailAt DEF CallUse
<1>4. /\ c[1] \in {"use", "link", "split"} /\ todo' = Tail(todo)
      /\ chain' = (IF c[1] = "link" THEN [chain EXCEPT !["left"] = Append(@, c[2])] ELSE chain)
      /\ level' = (IF c[1] = "split" THEN c[2] ELSE level)
      /\ pin' = pin /\ resident' = resident /\ allocated' = allocated
      /\ stmt' = stmt /\ cursors' = cursors /\ before' = before
  BY <1>3 DEF CallUse, pool
<1> HIDE DEF c
<1>5. /\ Allocates(Tail(todo), IF c[1] = "new" THEN c[2] ELSE allocated)
      /\ \A p \in Mentioned(c) : p <= allocated
  BY <1>2, <1>3, TailAllocates DEF c
<1>6. /\ StateOK' /\ (level # <<>> => level' # <<>>)
      /\ \A i \in 1..Len(cursors) : Page(cursors[i])' = Page(cursors[i])
  BY <1>1, <1>3, <1>4, <1>5, FilesGrow
<1>7. /\ todo' \in Seq(Call) /\ Disciplined(todo', Keep') /\ Narrow(todo')
      /\ Len(cursors') = 2 => Sequential(todo')
      /\ cursors' # <<>> => Only(todo', Unguarded)
      /\ \A ops : Only(todo, ops) => Only(todo', ops)
      /\ todo[1][1] # "fetch" \/ Len(todo) # 1 => (Pending' <=> Pending)
  BY <1>1, <1>3, <1>4, <1>6, TailTodo
<1>8. \A q : Held(q)' = Held(q)
  BY <1>4, <1>6, <1>7, SameHeld DEF c
<1>9. ASSUME NEW q
      PROVE  /\ Open(todo', 1, q) <=> Open(todo, 1, q)
             /\ Needed(todo', 1, q) => Needed(todo, 1, q)
  <2>1. ~Opens(c, q) /\ ~Closes(c, q)
    BY <1>4 DEF Opens, Closes
  <2> QED
    BY <2>1, <1>2, <1>3, <1>4, FirstCall DEF c
<1>10. TypeOK'
  BY <1>1, <1>4 DEF TypeOK
<1>11. PhaseInv'
  <2>1. todo # <<>> => stmt.kind # "idle"
    BY <1>1 DEF PhaseInv
  <2>2. stmt.kind = "create index" => level' # <<>> \/ \E i \in 1..Len(todo') : todo'[i][1] = "split"
    <3>1. CASE c[1] = "split"
      BY <3>1, <1>3, <1>4, CallShape
    <3>2. CASE c[1] # "split"
      BY <3>2, <1>1, <1>2, <1>3, <1>4, SplitRemains DEF PhaseInv, c
    <3> QED
      BY <3>1, <3>2
  <2> QED
    BY <2>1, <2>2, <1>1, <1>3, <1>4, <1>6, <1>7 DEF PhaseInv
<1>12. TodoInv'
  BY <1>4, <1>5, <1>7 DEF TodoInv
<1>13. LowerInv'
  <2> SUFFICES ASSUME NEW q \in Pages
               PROVE  pin'[q] >= Held(q)' + One(Needed(todo', 1, q))
    BY DEF LowerInv, One
  <2>1. pin[q] >= Held(q) + One(Needed(todo, 1, q)) /\ pin[q] \in Nat /\ Held(q) \in Nat
    BY <1>1, HeldNat DEF LowerInv, TypeOK
  <2>2. One(Needed(todo, 1, q)) \in {0, 1} /\ One(Needed(todo', 1, q)) \in {0, One(Needed(todo, 1, q))}
    BY <1>9 DEF One
  <2>3. pin[q] >= Held(q) + One(Needed(todo', 1, q))
    BY <2>1, <2>2, SMTT(30)
  <2> QED
    BY <2>3, <1>4, <1>8
<1>14. UpperInv'
  BY <1>1, <1>4, <1>8, <1>9 DEF UpperInv, One
<1>15. FullOnlyAfterLosses'
  BY <1>1, <1>4 DEF FullOnlyAfterLosses
<1> QED
  BY <1>6, <1>10, <1>11, <1>12, <1>13, <1>14, <1>15 DEF PinsInv

\* The pins of n scans, on page x and on page y.
Counts(n, x, y, p) == One(n >= 1 /\ x = p) + One(n = 2 /\ y = p)

\* How many scans have their pages.
Scans(n, waits) == IF waits THEN n - 1 ELSE n

\* The scan that waits is the last one.
LEMMA ScansAt ==
  ASSUME NEW n \in {0, 1, 2}, NEW waits \in BOOLEAN, waits => n # 0
  PROVE  /\ 1 \in 1..n /\ ~(1 = n /\ waits) <=> Scans(n, waits) >= 1
         /\ 2 \in 1..n /\ ~(2 = n /\ waits) <=> Scans(n, waits) = 2
BY SMTT(30) DEF Scans

\* What the scans hold, in this state.
LEMMA HeldCounts ==
  ASSUME Len(cursors) \in {0, 1, 2}, cursors = <<>> <=> Len(cursors) = 0, NEW p
  PROVE  Held(p) = Counts(Scans(Len(cursors), Pending), Page(cursors[1]), Page(cursors[2]), p)
<1>1. (Pending => Len(cursors) # 0) /\ Pending \in BOOLEAN
  BY DEF Pending
<1>2. /\ 1 \in 1..Len(cursors) /\ ~(1 = Len(cursors) /\ Pending) <=> Scans(Len(cursors), Pending) >= 1
      /\ 2 \in 1..Len(cursors) /\ ~(2 = Len(cursors) /\ Pending) <=> Scans(Len(cursors), Pending) = 2
  BY <1>1, ScansAt
<1> QED
  BY <1>2 DEF Held, HeldBy, Counts, One

\* And in the next.
LEMMA HeldCountsNext ==
  ASSUME Len(cursors') \in {0, 1, 2}, cursors' = <<>> <=> Len(cursors') = 0, NEW p
  PROVE  Held(p)' = Counts(Scans(Len(cursors'), Pending'), Page(cursors[1])', Page(cursors[2])', p)
<1>1. (Pending' => Len(cursors') # 0) /\ Pending' \in BOOLEAN
  BY DEF Pending
<1>2. /\ 1 \in 1..Len(cursors') /\ ~(1 = Len(cursors') /\ Pending') <=> Scans(Len(cursors'), Pending') >= 1
      /\ 2 \in 1..Len(cursors') /\ ~(2 = Len(cursors') /\ Pending') <=> Scans(Len(cursors'), Pending') = 2
  BY <1>1, ScansAt
<1> QED
  BY <1>2 DEF Held, HeldBy, Counts, One

\* The files stay, or a page has been allocated.
LEMMA FilesKept ==
  ASSUME StateOK, chain' = chain, level' = level, allocated' \in Pages, allocated <= allocated',
         stmt' \in Statement, before' \in [Pages -> Nat], cursors' \in Seq(Cursor), Len(cursors') <= 2,
         \A i \in 1..Len(cursors') : cursors'[i].at <= Len(chain[cursors'[i].table])
  PROVE  StateOK'
<1>1. \A p, a, b \in Pages : p <= a /\ a <= b => p <= b
  BY SMTT(30) DEF Pages
<1>2. allocated \in Pages
  BY DEF StateOK
<1>3. ASSUME NEW t \in Tables, NEW i \in 1..Len(chain[t])
      PROVE  chain[t][i] <= allocated'
  <2>1. chain[t] \in Seq(Pages) /\ chain[t][i] <= allocated
    BY DEF StateOK
  <2>2. chain[t][i] \in Pages
    BY <2>1, SeqFacts
  <2> QED
    BY <2>1, <2>2, <1>1, <1>2
<1>4. ASSUME NEW l \in 1..Len(level), NEW p \in level[l]
      PROVE  p <= allocated'
  <2>1. level \in Seq(SUBSET Pages) /\ p <= allocated
    BY DEF StateOK
  <2>2. level[l] \in SUBSET Pages
    BY <2>1, SeqFacts
  <2> QED
    BY <2>1, <2>2, <1>1, <1>2
<1>5. /\ chain \in [Tables -> Seq(Pages)] /\ level \in Seq(SUBSET Pages)
      /\ \A t \in Tables : Len(chain[t]) > 0
  BY DEF StateOK
<1> QED
  BY <1>3, <1>4, <1>5 DEF StateOK

\* Between two methods every pin of a statement is one of its scans.
LEMMA PinsBetween ==
  ASSUME PinsInv, todo = <<>>, NEW p \in Pages
  PROVE  /\ pin[p] \in Nat /\ before[p] \in Nat /\ Held(p) \in Nat /\ pin[p] >= Held(p)
         /\ stmt.kind \notin {"idle", "raising"} => pin[p] <= before[p] + Held(p)
<1>1. ~Open(todo, 1, p) /\ ~Needed(todo, 1, p)
  <2>1. 1..Len(<<>>) = {}
    BY SMTT(30)
  <2> QED
    BY <2>1 DEF Open, Needed
<1>2. /\ pin[p] >= Held(p) + One(Needed(todo, 1, p))
      /\ stmt.kind \notin {"idle", "raising"} => pin[p] <= before[p] + Held(p) + One(Open(todo, 1, p))
  BY DEF PinsInv, LowerInv, UpperInv
<1>3. pin[p] \in Nat /\ before[p] \in Nat /\ Held(p) \in Nat
  BY HeldNat DEF PinsInv, TypeOK, StateOK
<1>4. One(Open(todo, 1, p)) = 0 /\ One(Needed(todo, 1, p)) = 0
  BY <1>1 DEF One
<1> QED
  BY <1>2, <1>3, <1>4, SMTT(30)

\* A method begins, in which nothing is open yet: the pins are those of the scans.
LEMMA MethodBegins ==
  ASSUME TypeOK, StateOK', PhaseInv', FullOnlyAfterLosses', pin' = pin, resident' = resident,
         Method(todo', Keep'), Allocates(todo', allocated'),
         Len(cursors') = 2 => Sequential(todo'), cursors' # <<>> => Only(todo', Unguarded),
         \A p \in Pages : pin[p] >= Held(p)',
         stmt'.kind \notin {"idle", "raising"} \/ (stmt'.kind = "idle" /\ stmt'.outcome = "ok") =>
           \A p \in Pages : pin[p] <= before'[p] + Held(p)'
  PROVE  PinsInv'
<1>1. TypeOK'
  BY DEF TypeOK
<1>2. TodoInv'
  BY DEF TodoInv, Method
<1>3. ASSUME NEW p \in Pages
      PROVE  /\ One(Open(todo', 1, p)) = 0 /\ One(Needed(todo', 1, p)) = 0
             /\ pin[p] \in Nat /\ before'[p] \in Nat /\ Held(p)' \in Nat
  <2>1. /\ HeldBy(1, p)' \in {0, 1} /\ HeldBy(2, p)' \in {0, 1}
    BY DEF HeldBy
  <2>2. Held(p)' \in Nat
    BY <2>1, SMTT(30) DEF Held
  <2> QED
    BY <2>2 DEF Method, Fresh, One, TypeOK, StateOK
<1>4. \A x, y, z \in Nat : (x >= z => x >= z + 0) /\ (x <= y + z => x <= y + z + 0)
  BY SMTT(30)
<1>5. LowerInv'
  <2> SUFFICES ASSUME NEW p \in Pages
               PROVE  pin'[p] >= Held(p)' + One(Needed(todo', 1, p))
    BY DEF LowerInv, One
  <2> QED
    BY <1>3, <1>4
<1>6. UpperInv'
  <2> SUFFICES ASSUME stmt'.kind \notin {"idle", "raising"} \/ (stmt'.kind = "idle" /\ stmt'.outcome = "ok"),
                      NEW p \in Pages
               PROVE  pin'[p] <= before'[p] + Held(p)' + One(Open(todo', 1, p))
    BY DEF UpperInv, One
  <2> QED
    BY <1>3, <1>4
<1> QED
  BY <1>1, <1>2, <1>5, <1>6 DEF PinsInv

\* A statement that has no scan makes a method's calls.
LEMMA QuietBegins ==
  ASSUME PinsInv, todo = <<>>, stmt.kind \notin {"idle", "raising"}, cursors = <<>>, cursors' = cursors,
         UNCHANGED pool, UNCHANGED files, before' = before,
         stmt' \in Statement, stmt'.kind = stmt.kind, stmt'.outcome = stmt.outcome,
         stmt'.stage = "entry" => level # <<>>,
         Method(todo', 0), Allocates(todo', allocated)
  PROVE  PinsInv'
<1>1. /\ pin' = pin /\ resident' = resident
      /\ chain' = chain /\ level' = level /\ allocated' = allocated
  BY DEF pool, files
<1>2. TypeOK /\ StateOK /\ PhaseInv /\ FullOnlyAfterLosses
  BY DEF PinsInv
<1>3. Len(<<>>) = 0 /\ ~(0 = 2) /\ 1..0 = {} /\ 0 <= 2 /\ \A a \in Pages : a <= a
  BY SMTT(30) DEF Pages
<1>4. StateOK'
  <2>1. allocated \in Pages /\ before \in [Pages -> Nat] /\ cursors \in Seq(Cursor)
    BY <1>2 DEF StateOK
  <2> QED
    BY <2>1, <1>1, <1>2, <1>3, FilesKept
<1>5. PhaseInv'
  <2>1. stmt.kind = "create index" => level # <<>>
    BY <1>2, <1>3 DEF PhaseInv
  <2> QED
    BY <2>1, <1>1, <1>3 DEF PhaseInv
<1>6. FullOnlyAfterLosses'
  BY <1>2 DEF FullOnlyAfterLosses
<1>7. ASSUME NEW p \in Pages
      PROVE  pin[p] >= Held(p)' /\ pin[p] <= before'[p] + Held(p)'
  <2>1. Held(p) = 0
    BY <1>2, HeldNone
  <2>2. Held(p)' = 0
    <3>1. 1 \notin 1..Len(cursors') /\ 2 \notin 1..Len(cursors')
      BY <1>3
    <3>2. HeldBy(1, p)' = 0 /\ HeldBy(2, p)' = 0
      BY <3>1 DEF HeldBy
    <3> QED
      BY <3>2, SMTT(30) DEF Held
  <2> QED
    BY <2>1, <2>2, PinsBetween
<1>8. Method(todo', Keep')
  BY KeepMore
<1> QED
  BY <1>1, <1>2, <1>3, <1>4, <1>5, <1>6, <1>7, <1>8, MethodBegins

\* The fields of a statement that goes on.
LEMMA StatementOpens ==
  ASSUME NEW s \in Statement
  PROVE  LET new == [s EXCEPT !.opened = TRUE]
         IN  /\ new \in Statement /\ new.kind = s.kind /\ new.outcome = s.outcome
             /\ new.stage = s.stage /\ new.opened = TRUE
BY DEF Statement

\* And of one that changes a row.
LEMMA StatementChanges ==
  ASSUME NEW s \in Statement, NEW stage \in {"none", "index", "entry"}
  PROVE  /\ LET new == [s EXCEPT !.stage = stage]
            IN  new \in Statement /\ new.kind = s.kind /\ new.outcome = s.outcome /\ new.stage = stage
         /\ s.changes > 0 =>
              LET new == [s EXCEPT !.stage = stage, !.changes = @ - 1]
              IN  new \in Statement /\ new.kind = s.kind /\ new.outcome = s.outcome /\ new.stage = stage
<1>1. LET new == [s EXCEPT !.stage = stage]
      IN  new \in Statement /\ new.kind = s.kind /\ new.outcome = s.outcome /\ new.stage = stage
  BY DEF Statement
<1>2. ASSUME s.changes > 0
      PROVE  LET new == [s EXCEPT !.stage = stage, !.changes = @ - 1]
             IN  new \in Statement /\ new.kind = s.kind /\ new.outcome = s.outcome /\ new.stage = stage
  <2>1. \A n \in Nat : n > 0 => n - 1 \in Nat
    BY SMTT(30)
  <2>2. s.changes - 1 \in Nat
    BY <1>2, <2>1 DEF Statement
  <2> QED
    BY <2>2 DEF Statement
<1> QED
  BY <1>1, <1>2

\* No call is a method.
LEMMA NoCalls ==
  /\ \A keep : Method(<<>>, keep)
  /\ Sequential(<<>>) /\ (\A ops : Only(<<>>, ops)) /\ (\A last : Allocates(<<>>, last))
<1>1. <<>> \in Seq(Call) /\ Len(<<>>) \in Nat /\ 1..Len(<<>>) = {}
  BY SMTT(30)
<1>2. \A p : ~Open(<<>>, 1, p) /\ ~Needed(<<>>, 1, p)
  BY <1>1 DEF Open, Needed
<1> QED
  BY <1>1, <1>2 DEF Method, Fresh, Disciplined, Narrow, Sequential, Only, Allocates

\* The pages of the chain of a table.
LEMMA ChainPages ==
  ASSUME StateOK, NEW t \in Tables
  PROVE  /\ chain[t] \in Seq(Pages) /\ DOMAIN chain[t] = 1..Len(chain[t])
         /\ Len(chain[t]) \in Nat /\ Len(chain[t]) > 0 /\ 1 \in 1..Len(chain[t])
         /\ \A i \in 1..Len(chain[t]) : chain[t][i] \in Pages /\ chain[t][i] <= allocated
         /\ Last(chain[t]) \in Pages /\ Last(chain[t]) <= allocated
<1>1. /\ chain[t] \in Seq(Pages) /\ Len(chain[t]) > 0
      /\ \A i \in 1..Len(chain[t]) : chain[t][i] <= allocated
  BY DEF StateOK
<1>2. /\ Len(chain[t]) \in Nat /\ DOMAIN chain[t] = 1..Len(chain[t])
      /\ \A i \in 1..Len(chain[t]) : chain[t][i] \in Pages
  BY <1>1, SeqFacts
<1>3. Len(chain[t]) \in 1..Len(chain[t]) /\ 1 \in 1..Len(chain[t])
  <2>1. \A n \in Nat : n > 0 => n \in 1..n /\ 1 \in 1..n
    BY SMTT(30)
  <2> QED
    BY <2>1, <1>1, <1>2
<1> QED
  BY <1>1, <1>2, <1>3 DEF Last

\* A path of a tree that has levels.
LEMMA PathPages ==
  ASSUME StateOK, level # <<>>, NEW path \in Paths
  PROVE  path \in Seq(Pages) /\ Len(path) > 0
<1>1. path \in Seq(Pages) /\ Len(path) = Len(level)
  BY PathsAt
<1>2. Len(level) \in Nat /\ Len(level) # 0
  BY SeqFacts DEF StateOK
<1> QED
  BY <1>1, <1>2, SMTT(30)

\* The plan is an index scan.
LEMMA OpenIndexScanInv ==
  ASSUME PinsInv, OpenIndexScan
  PROVE  PinsInv'
<1>1. StateOK /\ PhaseInv /\ stmt \in Statement /\ allocated \in Pages
  BY DEF PinsInv, StateOK
<1>2. /\ todo = <<>> /\ stmt.kind \notin {"idle", "raising"} /\ ~stmt.opened /\ level # <<>>
      /\ stmt' = [stmt EXCEPT !.opened = TRUE]
      /\ UNCHANGED pool /\ UNCHANGED files /\ cursors' = cursors /\ before' = before
  BY DEF OpenIndexScan, Scanning, Working
<1>3. cursors = <<>> /\ (stmt.stage = "entry" => level # <<>>)
  BY <1>1, <1>2 DEF PhaseInv
<1>4. /\ stmt' \in Statement /\ stmt'.kind = stmt.kind /\ stmt'.outcome = stmt.outcome
      /\ stmt'.stage = stmt.stage
  BY <1>1, <1>2, StatementOpens
<1>5. Method(todo', 0) /\ Only(todo', Quiet)
  <2>1. PICK path \in Paths, i \in DOMAIN chain["left"] :
          todo' = FindLastPage("left") \o AccessAll(path) \o Access(Last(path)) \o Guarded(chain["left"][i])
    BY DEF OpenIndexScan
  <2>2. path \in Seq(Pages) /\ Len(path) > 0
    BY <1>1, <1>2, PathPages
  <2>3. chain["left"] \in Seq(Pages) /\ chain["left"][i] \in Pages
    BY <1>1, ChainPages DEF Tables
  <2> QED
    BY <2>1, <2>2, <2>3, IndexScanMethod DEF FindLastPage
<1>6. Allocates(todo', allocated)
  BY <1>5, AllocatesQuiet DEF Method
<1> QED
  BY <1>2, <1>3, <1>4, <1>5, <1>6, QuietBegins

\* What holds when a row is to be changed.
LEMMA ChangingState ==
  ASSUME PinsInv, Changing
  PROVE  /\ StateOK /\ stmt \in Statement /\ allocated \in Pages /\ stmt.changes > 0
         /\ todo = <<>> /\ stmt.kind \notin {"idle", "raising"} /\ cursors = <<>>
         /\ stmt.stage = "entry" => level # <<>>
BY DEF PinsInv, StateOK, PhaseInv, Changing, Working

\* The heap gets a row.
LEMMA ChangeHeapInv ==
  ASSUME PinsInv, ChangeHeap
  PROVE  PinsInv'
<1>1. /\ StateOK /\ stmt \in Statement /\ allocated \in Pages
      /\ todo = <<>> /\ stmt.kind \notin {"idle", "raising"} /\ cursors = <<>>
  BY ChangingState DEF ChangeHeap
<1>2. /\ stmt' = [stmt EXCEPT !.stage = "index"]
      /\ UNCHANGED pool /\ UNCHANGED files /\ cursors' = cursors /\ before' = before
  BY DEF ChangeHeap
<1>3. /\ stmt' \in Statement /\ stmt'.kind = stmt.kind /\ stmt'.outcome = stmt.outcome
      /\ stmt'.stage # "entry"
  BY <1>1, <1>2, StatementChanges
<1>4. Method(todo', 0) /\ Allocates(todo', allocated)
  <2> DEFINE last == Last(chain["left"])
             head(old) == IF stmt.kind = "update" THEN Guarded(old) \o Guarded(old) ELSE <<>>
  <2>1. PICK i \in DOMAIN chain["left"] :
          \/ todo' = head(chain["left"][i]) \o InsertFits(last)
          \/ allocated < MaxPages /\ todo' = head(chain["left"][i]) \o InsertGrows(last, allocated + 1)
    BY DEF ChangeHeap
  <2>2. chain["left"][i] \in Pages /\ last \in Pages /\ last <= allocated
    BY <1>1, ChainPages DEF Tables
  <2>3. allocated \in Nat /\ allocated <= MaxPages
    BY <1>1, PinsAssumption, SMTT(30) DEF Pages
  <2> QED
    BY <2>1, <2>2, <2>3, ChangeHeapMethod
<1> QED
  BY <1>1, <1>2, <1>3, <1>4, QuietBegins

\* The index is searched.
LEMMA CheckUniqueInv ==
  ASSUME PinsInv, CheckUnique
  PROVE  PinsInv'
<1>1. /\ StateOK /\ stmt \in Statement /\ allocated \in Pages
      /\ todo = <<>> /\ stmt.kind \notin {"idle", "raising"} /\ cursors = <<>>
  BY ChangingState DEF CheckUnique
<1>2. /\ stmt' = [stmt EXCEPT !.stage = "entry"] /\ level # <<>>
      /\ UNCHANGED pool /\ UNCHANGED files /\ cursors' = cursors /\ before' = before
  BY DEF CheckUnique
<1>3. stmt' \in Statement /\ stmt'.kind = stmt.kind /\ stmt'.outcome = stmt.outcome
  BY <1>1, <1>2, StatementChanges
<1>4. Method(todo', 0) /\ Only(todo', Quiet)
  <2>1. PICK path \in Paths, i \in DOMAIN chain["left"] : todo' = Search(path, chain["left"][i])
    BY DEF CheckUnique
  <2>2. path \in Seq(Pages) /\ Len(path) > 0
    BY <1>1, <1>2, PathPages
  <2>3. chain["left"][i] \in Pages
    BY <1>1, ChainPages DEF Tables
  <2> QED
    BY <2>1, <2>2, <2>3, SearchMethod
<1>5. Allocates(todo', allocated)
  BY <1>4, AllocatesQuiet DEF Method
<1> QED
  BY <1>1, <1>2, <1>3, <1>4, <1>5, QuietBegins

\* The index gets an entry.
LEMMA ChangeIndexInv ==
  ASSUME PinsInv, ChangeIndex
  PROVE  PinsInv'
<1>1. /\ StateOK /\ stmt \in Statement /\ allocated \in Pages /\ stmt.changes > 0
      /\ todo = <<>> /\ stmt.kind \notin {"idle", "raising"} /\ cursors = <<>>
      /\ stmt.stage = "entry" => level # <<>>
  BY ChangingState DEF ChangeIndex
<1>2. /\ stmt' = [stmt EXCEPT !.stage = "none", !.changes = @ - 1]
      /\ UNCHANGED pool /\ UNCHANGED files /\ cursors' = cursors /\ before' = before
      /\ todo' = todo \/ (level # <<>> /\ todo' \in TreeInserts)
  BY <1>1 DEF ChangeIndex
<1>3. /\ stmt' \in Statement /\ stmt'.kind = stmt.kind /\ stmt'.outcome = stmt.outcome
      /\ stmt'.stage # "entry"
  BY <1>1, <1>2, StatementChanges
<1>4. Method(todo', 0) /\ Allocates(todo', allocated)
  BY <1>1, <1>2, TreeInsertsMethod, NoCalls
<1> QED
  BY <1>1, <1>2, <1>3, <1>4, QuietBegins

\* Without scans none is held in the next state either.
LEMMA HeldNoneNext ==
  ASSUME cursors' = <<>>
  PROVE  \A p : Held(p)' = 0
<1>1. 1 \notin 1..Len(<<>>) /\ 2 \notin 1..Len(<<>>)
  BY SMTT(30)
<1>2. \A p : HeldBy(1, p)' = 0 /\ HeldBy(2, p)' = 0
  BY <1>1 DEF HeldBy
<1> QED
  BY <1>2, SMTT(30) DEF Held

\* A statement ends: well, if its pins are released.
LEMMA StatementEnds ==
  ASSUME PinsInv, todo = <<>>, todo' = todo, cursors' = <<>>, UNCHANGED pool, UNCHANGED files, before' = before,
         NEW outcome \in {"ok", "full", "error", "dropped"}, stmt' = Idle(outcome),
         outcome = "full" => stmt.outcome = "full",
         outcome = "ok" => \A p \in Pages : pin[p] <= before[p] + 0
  PROVE  PinsInv'
<1>1. /\ pin' = pin /\ resident' = resident
      /\ chain' = chain /\ level' = level /\ allocated' = allocated
  BY DEF pool, files
<1>2. TypeOK /\ StateOK /\ FullOnlyAfterLosses /\ allocated \in Pages /\ before \in [Pages -> Nat]
  BY DEF PinsInv, StateOK
<1>3. /\ stmt' \in Statement /\ stmt'.kind = "idle" /\ stmt'.outcome = outcome
      /\ stmt'.stage = "none"
  BY SMTT(30) DEF Statement, Idle
<1>4. Len(<<>>) = 0 /\ ~(0 = 2) /\ 1..0 = {} /\ 0 <= 2 /\ (\A a \in Pages : a <= a) /\ <<>> \in Seq(Cursor)
  BY SMTT(30) DEF Pages
<1>5. StateOK'
  BY <1>1, <1>2, <1>3, <1>4, FilesKept
<1>6. PhaseInv'
  BY <1>3, <1>4 DEF PhaseInv
<1>7. FullOnlyAfterLosses'
  BY <1>2, <1>3 DEF FullOnlyAfterLosses
<1>8. /\ Method(todo', Keep') /\ Sequential(todo') /\ Only(todo', Unguarded) /\ Allocates(todo', allocated')
  BY NoCalls
<1>9. ASSUME NEW p \in Pages
      PROVE  pin[p] >= 0
  BY <1>2, SMTT(30) DEF TypeOK
<1>10. \A p : Held(p)' = 0
  BY HeldNoneNext
<1> QED
  BY <1>1, <1>2, <1>3, <1>5, <1>6, <1>7, <1>8, <1>9, <1>10, MethodBegins

\* The statement is done.
LEMMA FinishInv ==
  ASSUME PinsInv, Finish
  PROVE  PinsInv'
<1>1. /\ todo = <<>> /\ todo' = todo /\ cursors' = cursors
      /\ UNCHANGED pool /\ UNCHANGED files /\ before' = before
  BY DEF Finish
<1>2. StateOK /\ PhaseInv
  BY DEF PinsInv
<1>3. CASE /\ Working
           /\ stmt.kind # "insert" => stmt.opened /\ cursors = <<>>
           /\ stmt' = Idle("ok")
  <2>1. cursors = <<>> /\ stmt.kind \notin {"idle", "raising"}
    BY <1>2, <1>3 DEF PhaseInv, Working
  <2>2. ASSUME NEW p \in Pages PROVE pin[p] <= before[p] + 0
    <3>1. pin[p] <= before[p] + Held(p) /\ Held(p) = 0
      BY <1>1, <1>2, <2>1, PinsBetween, HeldNone
    <3> QED
      BY <3>1
  <2>3. "ok" \in {"ok", "full", "error", "dropped"} /\ "ok" # "full"
    OBVIOUS
  <2> QED
    BY <1>1, <1>3, <2>1, <2>2, <2>3, StatementEnds
<1>4. CASE stmt.kind = "raising" /\ stmt' = Idle(stmt.outcome)
  BY <1>1, <1>2, <1>4, StatementEnds DEF PhaseInv
<1> QED
  BY <1>3, <1>4 DEF Finish

\* The scans are dropped.
LEMMA DropScansInv ==
  ASSUME PinsInv, DropScans
  PROVE  PinsInv'
BY StatementEnds DEF DropScans, Scanning, Working

\* What a statement starts with: no scan, and no page of its own.
LEMMA StartNumbers ==
  /\ Len(<<>>) = 0 /\ ~(0 = 2) /\ 1..0 = {} /\ 0 <= 2 /\ (\A a \in Pages : a <= a) /\ <<>> \in Seq(Cursor)
  /\ \A n \in Nat : n >= 0 /\ n <= n + 0
  /\ \A n \in 1..MaxChanges : n \in Nat
BY SMTT(30) DEF Pages

\* The fields of a statement that begins.
LEMMA StatementFresh ==
  ASSUME NEW kind \in Kinds \cup {"create index"}, NEW n \in 1..MaxChanges
  PROVE  LET new == [Idle("none") EXCEPT !.kind = kind, !.changes = n]
         IN  /\ new \in Statement /\ new.kind = kind /\ new.outcome = "none"
             /\ new.stage = "none" /\ new.opened = FALSE
<1>1. n \in Nat
  BY StartNumbers
<1> QED
  BY <1>1 DEF Statement, Idle

\* A statement begins.
LEMMA StatementBegins ==
  ASSUME PinsInv, NEW kind \in Kinds \cup {"create index"}, NEW calls, Begin(kind, calls), level' = level,
         Method(todo', 0), Allocates(todo', allocated),
         kind = "create index" => \E i \in 1..Len(todo') : todo'[i][1] = "split"
  PROVE  PinsInv'
<1>1. /\ stmt.kind = "idle" /\ before' = pin /\ pin' = pin /\ resident' = resident
      /\ chain' = chain /\ allocated' = allocated /\ cursors' = cursors
      /\ \E n \in 1..MaxChanges : stmt' = [Idle("none") EXCEPT !.kind = kind, !.changes = n]
  BY DEF Begin, pool
<1>2. TypeOK /\ StateOK /\ PhaseInv /\ allocated \in Pages /\ pin \in [Pages -> Nat]
  BY DEF PinsInv, StateOK, TypeOK
<1>3. cursors = <<>>
  BY <1>1, <1>2 DEF PhaseInv
<1>4. /\ stmt' \in Statement /\ stmt'.kind = kind /\ stmt'.outcome = "none"
      /\ stmt'.stage = "none" /\ stmt'.opened = FALSE
  <2>1. PICK n \in 1..MaxChanges : stmt' = [Idle("none") EXCEPT !.kind = kind, !.changes = n]
    BY <1>1
  <2> QED
    BY <2>1, StatementFresh
<1>5. kind \notin {"idle", "raising"}
  BY DEF Kinds
<1>6. Len(<<>>) = 0 /\ ~(0 = 2) /\ 1..0 = {} /\ 0 <= 2 /\ (\A a \in Pages : a <= a) /\ <<>> \in Seq(Cursor)
  BY StartNumbers
<1>7. StateOK'
  BY <1>1, <1>2, <1>3, <1>4, <1>6, FilesKept
<1>8. PhaseInv'
  BY <1>1, <1>3, <1>4, <1>5, <1>6 DEF PhaseInv
<1>9. FullOnlyAfterLosses'
  BY <1>4 DEF FullOnlyAfterLosses
<1>10. \A p : Held(p)' = 0
  BY <1>1, <1>3, HeldNoneNext
<1>11. ASSUME NEW p \in Pages
       PROVE  pin[p] >= 0 /\ pin[p] <= pin[p] + 0
  BY <1>2, StartNumbers
<1>12. Method(todo', Keep')
  BY KeepMore
<1>13. \A p \in Pages : pin[p] >= Held(p)' /\ pin[p] <= before'[p] + Held(p)'
  BY <1>1, <1>10, <1>11
<1>14. /\ Allocates(todo', allocated') /\ cursors' = <<>> /\ Len(cursors') # 2
  BY <1>1, <1>3, <1>6
<1> QED
  BY <1>1, <1>2, <1>7, <1>8, <1>9, <1>12, <1>13, <1>14, MethodBegins

\* A statement other than CREATE INDEX.
LEMMA StartInv ==
  ASSUME PinsInv, Start
  PROVE  PinsInv'
<1>1. PICK kind \in Kinds : Begin(kind, <<>>) /\ level' = level
  BY DEF Start
<1>2. StateOK
  BY DEF PinsInv
<1>3. kind # "create index"
  BY DEF Kinds
<1>4. todo' = <<>> \o (IF kind \in {"select", "join"} THEN <<>> ELSE FindLastPage("left"))
  BY <1>1 DEF Begin
<1>5. Method(FindLastPage("left"), 0) /\ Only(FindLastPage("left"), Quiet)
  BY <1>2, ChainPages, AccessAllMethod, OnlyMore DEF FindLastPage, Tables
<1>6. Method(<<>>, 0) /\ Only(<<>>, Quiet)
  BY NoCalls
<1>7. Method(todo', 0) /\ Only(todo', Quiet)
  <2>1. Method(<<>> \o <<>>, 0) /\ Only(<<>> \o <<>>, Quiet)
    BY <1>6, ConcatMethod
  <2>2. Method(<<>> \o FindLastPage("left"), 0) /\ Only(<<>> \o FindLastPage("left"), Quiet)
    BY <1>5, <1>6, ConcatMethod
  <2>3. CASE kind \in {"select", "join"}
    BY <1>4, <2>1, <2>3
  <2>4. CASE kind \notin {"select", "join"}
    BY <1>4, <2>2, <2>4
  <2> QED
    BY <2>3, <2>4
<1>8. Allocates(todo', allocated)
  BY <1>7, AllocatesQuiet DEF Method
<1> QED
  BY <1>1, <1>3, <1>7, <1>8, StatementBegins

\* The page that the allocator hands out next.
LEMMA PageAfter ==
  ASSUME NEW a \in Pages, a < MaxPages
  PROVE  a + 1 \in Pages /\ a \in Nat /\ a + 1 <= a + 1
BY PinsAssumption, SMTT(30) DEF Pages

\* CREATE INDEX makes the root of its tree.
LEMMA StartCreateIndexInv ==
  ASSUME PinsInv, StartCreateIndex
  PROVE  PinsInv'
<1> DEFINE q == allocated + 1
           a == NewRoot(q)
           b == <<<<"split", <<{q}>>>>>>
           f == FindLastPage("left")
<1>1. StateOK /\ allocated \in Pages
  BY DEF PinsInv, StateOK
<1>2. allocated < MaxPages /\ Begin("create index", a \o b) /\ level' = level
  BY DEF StartCreateIndex
<1>3. q \in Pages /\ allocated \in Nat /\ q <= q
  BY <1>1, <1>2, PageAfter
<1>4. todo' = (a \o b) \o f
  <2>1. "create index" \notin {"select", "join"}
    OBVIOUS
  <2> QED
    BY <1>2, <2>1 DEF Begin
<1>5. Method(f, 0) /\ Only(f, Quiet)
  BY <1>1, ChainPages, AccessAllMethod, OnlyMore DEF FindLastPage, Tables
<1>6. /\ <<{q}>> \in Seq(SUBSET Pages) /\ <<{q}>> # <<>>
      /\ \A i \in 1..Len(<<{q}>>) : <<{q}>>[i] = {q}
  BY <1>3, SMTT(30)
<1>7. Method(b, 0) /\ Len(b) = 1
  BY <1>6, SplitMethod
<1>8. b[1][1] = "split"
  BY SMTT(30)
<1>9. Method(a, 0) /\ Only(a, Growing) /\ NewAt(a, 1, q)
  BY <1>3, NewRootMethod
<1>10. Allocates(a \o b, allocated)
  <2>1. a \in Seq(Call)
    BY <1>9 DEF Method
  <2>2. News(a, allocated, q)
    BY <2>1, <1>3, <1>9, NewsOne
  <2>3. \A i \in 1..Len(<<{q}>>) : \A p \in <<{q}>>[i] : p <= q
    BY <1>3, <1>6
  <2> QED
    BY <2>2, <2>3, <1>6, AllocatesSplit
<1> HIDE DEF a, b, f, q
<1>11. Method(a \o b, 0)
  BY <1>7, <1>9, ConcatMethod
<1>12. Method((a \o b) \o f, 0)
  BY <1>5, <1>11, ConcatMethod
<1>13. a \in Seq(Call) /\ b \in Seq(Call) /\ f \in Seq(Call) /\ a \o b \in Seq(Call)
  BY <1>5, <1>7, <1>9, <1>11 DEF Method
<1>14. Allocates((a \o b) \o f, allocated)
  BY <1>5, <1>10, <1>13, AllocatesConcat
<1>15. \E i \in 1..Len((a \o b) \o f) : ((a \o b) \o f)[i][1] = "split"
  <2>1. /\ Len(a) \in Nat /\ Len(b) \in Nat /\ Len(a \o b) = Len(a) + Len(b)
        /\ \A k \in 1..Len(b) : (a \o b)[Len(a) + k] = b[k]
    BY <1>13, ConcatAt
  <2>2. /\ Len(f) \in Nat /\ Len((a \o b) \o f) = Len(a \o b) + Len(f)
        /\ \A k \in 1..Len(a \o b) : ((a \o b) \o f)[k] = (a \o b)[k]
    BY <1>13, ConcatAt
  <2>3. /\ 1 \in 1..Len(b) /\ Len(a) + 1 \in 1..Len(a \o b)
        /\ Len(a) + 1 \in 1..Len((a \o b) \o f)
    <3>1. \A m, n \in Nat : 1 \in 1..1 /\ m + 1 \in 1..(m + 1) /\ m + 1 \in 1..((m + 1) + n)
      BY SMTT(30)
    <3> QED
      BY <3>1, <2>1, <2>2, <1>7
  <2>4. (a \o b)[Len(a) + 1] = b[1]
    BY <2>1, <2>3
  <2>5. ((a \o b) \o f)[Len(a) + 1] = (a \o b)[Len(a) + 1]
    BY <2>2, <2>3
  <2> QED
    BY <2>3, <2>4, <2>5, <1>8
<1>16. Method(todo', 0) /\ Allocates(todo', allocated) /\ \E i \in 1..Len(todo') : todo'[i][1] = "split"
  BY <1>4, <1>12, <1>14, <1>15
<1> QED
  BY <1>2, <1>16, StatementBegins

\* CREATE INDEX has its HeapFile already, other scans construct one.
LEMMA ScanOrFetch ==
  ASSUME NEW ps \in Seq(Pages), NEW p \in Pages, NEW made, NEW s,
         s = (IF made THEN <<>> ELSE AccessAll(ps)) \o <<Fetch(p)>>
  PROVE  /\ Method(s, p) /\ Sequential(s) /\ Only(s, Plain) /\ s # <<>> /\ s[Len(s)] = Fetch(p)
<1>1. CASE made
  <2>1. s = <<Fetch(p)>> /\ s # <<>> /\ s[Len(s)] = Fetch(p)
    BY <1>1, SMTT(30)
  <2> QED
    BY <2>1, KeepMethod
<1>2. CASE ~made
  BY <1>2, ScanMethod
<1> QED
  BY <1>1, <1>2

\* The statement's scans move, and their pins with them.
LEMMA ScansMove ==
  ASSUME PinsInv, todo = <<>>, stmt.kind \notin {"idle", "raising", "insert"},
         UNCHANGED pool, UNCHANGED files, before' = before,
         stmt' \in Statement, stmt'.kind = stmt.kind, stmt'.outcome = stmt.outcome,
         stmt'.stage = stmt.stage, stmt'.opened,
         cursors' \in Seq(Cursor), Len(cursors') \in {0, 1, 2}, Len(cursors') = 2 => stmt.kind = "join",
         \A i \in 1..Len(cursors') : cursors'[i].at <= Len(chain[cursors'[i].table]),
         todo' \in Seq(Call), Disciplined(todo', Keep'), Narrow(todo'), Allocates(todo', allocated),
         Len(cursors') = 2 => Sequential(todo'), cursors' # <<>> => Only(todo', Unguarded),
         \A p \in Pages : /\ Held(p)' + One(Needed(todo', 1, p)) <= Held(p)
                          /\ Held(p) <= Held(p)' + One(Open(todo', 1, p))
  PROVE  PinsInv'
<1>1. /\ pin' = pin /\ resident' = resident
      /\ chain' = chain /\ level' = level /\ allocated' = allocated
  BY DEF pool, files
<1>2. TypeOK /\ StateOK /\ PhaseInv /\ FullOnlyAfterLosses
  BY DEF PinsInv
<1>3. StateOK'
  <2>1. allocated \in Pages /\ before \in [Pages -> Nat] /\ allocated <= allocated
    BY <1>2, SMTT(30) DEF StateOK, Pages
  <2>2. Len(cursors') <= 2
    BY SMTT(30)
  <2> QED
    BY <2>1, <2>2, <1>1, <1>2, FilesKept
<1>4. PhaseInv'
  <2>1. 1..Len(<<>>) = {}
    BY SMTT(30)
  <2>2. /\ stmt.kind = "create index" => level # <<>>
        /\ stmt.stage = "entry" => level # <<>>
    BY <2>1, <1>2 DEF PhaseInv
  <2> QED
    BY <2>2, <1>1 DEF PhaseInv
<1>5. TypeOK' /\ FullOnlyAfterLosses'
  BY <1>1, <1>2 DEF TypeOK, FullOnlyAfterLosses
<1>6. TodoInv'
  BY <1>1 DEF TodoInv
<1>7. ASSUME NEW p \in Pages
      PROVE  /\ pin[p] >= Held(p)' + One(Needed(todo', 1, p))
             /\ pin[p] <= before[p] + Held(p)' + One(Open(todo', 1, p))
  <2>1. /\ pin[p] \in Nat /\ before[p] \in Nat /\ Held(p) \in Nat /\ pin[p] >= Held(p)
        /\ pin[p] <= before[p] + Held(p)
    BY PinsBetween
  <2>2. /\ HeldBy(1, p)' \in {0, 1} /\ HeldBy(2, p)' \in {0, 1}
        /\ One(Needed(todo', 1, p)) \in {0, 1} /\ One(Open(todo', 1, p)) \in {0, 1}
    BY DEF HeldBy, One
  <2>3. Held(p)' \in Nat
    BY <2>2, SMTT(30) DEF Held
  <2>4. /\ Held(p)' + One(Needed(todo', 1, p)) <= Held(p)
        /\ Held(p) <= Held(p)' + One(Open(todo', 1, p))
    OBVIOUS
  <2>5. \A x, y, h, g \in Nat, n, o \in {0, 1} :
          /\ x >= h /\ g + n <= h => x >= g + n
          /\ x <= y + h /\ h <= g + o => x <= y + g + o
    BY SMTT(30)
  <2> QED
    BY <2>1, <2>2, <2>3, <2>4, <2>5
<1>8. LowerInv' /\ UpperInv'
  BY <1>1, <1>7 DEF LowerInv, UpperInv, One
<1> QED
  BY <1>3, <1>4, <1>5, <1>6, <1>8 DEF PinsInv

\* A scan that begins is at the first page.
LEMMA ScanFirst ==
  ASSUME StateOK, NEW t \in Tables
  PROVE  /\ Scan(t) \in Cursor /\ Scan(t).table = t /\ Scan(t).at = 1
         /\ Page(Scan(t)) = chain[t][1] /\ Page(Scan(t)) \in Pages
         /\ Scan(t).at <= Len(chain[Scan(t).table])
<1>1. Scan(t) \in Cursor /\ Scan(t).table = t /\ Scan(t).at = 1
  BY SMTT(30) DEF Scan, Cursor
<1>2. 1 \in 1..Len(chain[t]) /\ Len(chain[t]) \in Nat /\ chain[t][1] \in Pages
  BY ChainPages
<1>3. \A n \in Nat : 1 \in 1..n => 1 <= n
  BY SMTT(30)
<1> QED
  BY <1>1, <1>2, <1>3 DEF Page

\* How many pins no scan has.
LEMMA CountsNone ==
  ASSUME NEW x, NEW y, NEW p
  PROVE  Counts(0, x, y, p) = 0
BY SMTT(30) DEF Counts, One

\* One scan.
LEMMA OneScan ==
  ASSUME NEW c \in Cursor
  PROVE  /\ <<c>> \in Seq(Cursor) /\ Len(<<c>>) = 1 /\ <<c>> # <<>> /\ <<c>>[1] = c
         /\ 1..Len(<<c>>) = {1} /\ 1 # 2 /\ 1 # 0
BY SMTT(30)

\* The plan is made and its scan begins.
LEMMA OpenScanInv ==
  ASSUME PinsInv, OpenScan
  PROVE  PinsInv'
<1>1. StateOK /\ PhaseInv /\ stmt \in Statement /\ allocated \in Pages
  BY DEF PinsInv, StateOK
<1>2. /\ todo = <<>> /\ stmt.kind \notin {"idle", "raising", "insert"} /\ ~stmt.opened
      /\ stmt' = [stmt EXCEPT !.opened = TRUE]
      /\ UNCHANGED pool /\ UNCHANGED files /\ before' = before
  BY DEF OpenScan, Scanning, Working
<1>3. cursors = <<>> /\ chain' = chain
  BY <1>1, <1>2 DEF PhaseInv, files
<1>4. /\ stmt' \in Statement /\ stmt'.kind = stmt.kind /\ stmt'.outcome = stmt.outcome
      /\ stmt'.stage = stmt.stage /\ stmt'.opened
  BY <1>1, <1>2, StatementOpens
<1>5. PICK t \in Tables : /\ cursors' = <<Scan(t)>>
                          /\ todo' = (IF stmt.kind = "create index" THEN <<>> ELSE FindLastPage(t))
                                     \o <<Fetch(Page(Scan(t)))>>
  BY DEF OpenScan, Tables
<1>6. /\ Scan(t) \in Cursor /\ Page(Scan(t)) \in Pages
      /\ Scan(t).at <= Len(chain[Scan(t).table]) /\ chain[t] \in Seq(Pages)
  BY <1>1, ScanFirst, ChainPages
<1>7. /\ cursors' \in Seq(Cursor) /\ Len(cursors') = 1 /\ cursors' # <<>> /\ cursors'[1] = Scan(t)
      /\ 1..Len(cursors') = {1} /\ 1 # 2 /\ 1 # 0
  BY <1>5, <1>6, OneScan
<1>8. Keep' = Page(Scan(t)) /\ Page(Top)' = Page(Scan(t))
  BY <1>3, <1>7 DEF Keep, Top, Page
<1>9. /\ Method(todo', Page(Scan(t))) /\ Only(todo', Plain) /\ todo' # <<>>
      /\ todo'[Len(todo')] = Fetch(Page(Scan(t)))
  BY <1>5, <1>6, ScanOrFetch DEF FindLastPage
<1>10. Only(todo', Unguarded) /\ Allocates(todo', allocated)
  BY <1>9, OnlyMore, AllocatesQuiet DEF Method
<1>11. ASSUME NEW p \in Pages
       PROVE  /\ Held(p)' + One(Needed(todo', 1, p)) <= Held(p)
              /\ Held(p) <= Held(p)' + One(Open(todo', 1, p))
  <2>1. Pending'
    BY <1>7, <1>8, <1>9 DEF Pending
  <2>2. Held(p)' = 0
    <3>1. Held(p)' = Counts(Scans(Len(cursors'), Pending'), Page(cursors[1])', Page(cursors[2])', p)
      BY <1>7, HeldCountsNext
    <3>2. Scans(Len(cursors'), Pending') = 0
      BY <2>1, <1>7, SMTT(30) DEF Scans
    <3>3. Counts(0, Page(cursors[1])', Page(cursors[2])', p) = 0
      BY CountsNone
    <3> QED
      BY <3>1, <3>2, <3>3
  <2>3. Held(p) = 0
    BY <1>1, <1>3, HeldNone
  <2>4. One(Needed(todo', 1, p)) = 0 /\ One(Open(todo', 1, p)) = 0
    BY <1>9 DEF Method, Fresh, One
  <2> QED
    BY <2>2, <2>3, <2>4, SMTT(30)
<1>12. /\ todo' \in Seq(Call) /\ Disciplined(todo', Keep') /\ Narrow(todo')
  BY <1>8, <1>9 DEF Method
<1> QED
  BY <1>2, <1>4, <1>6, <1>7, <1>10, <1>11, <1>12, ScansMove

\* The innermost scan.
LEMMA TopAt ==
  ASSUME StateOK, cursors # <<>>
  PROVE  /\ Len(cursors) \in {1, 2} /\ Top = cursors[Len(cursors)] /\ Top \in Cursor
         /\ Top.table \in Tables /\ Top.at \in 1..Len(chain[Top.table])
         /\ Page(Top) \in Pages /\ Page(Top) <= allocated
<1>1. /\ Len(cursors) \in {0, 1, 2} /\ (cursors = <<>> <=> Len(cursors) = 0)
      /\ \A i \in 1..Len(cursors) :
           /\ cursors[i] \in Cursor /\ cursors[i].table \in Tables
           /\ cursors[i].at \in 1..Len(chain[cursors[i].table])
           /\ Page(cursors[i]) \in Pages /\ Page(cursors[i]) <= allocated
  BY CursorPages
<1>2. Len(cursors) \in 1..Len(cursors)
  BY KeepPage
<1> QED
  BY <1>1, <1>2 DEF Top

\* The innermost scan goes on.
LEMMA MovedAt ==
  ASSUME StateOK, cursors # <<>>, NEW c \in Cursor
  PROVE  /\ Moved(c) \in Seq(Cursor) /\ Len(Moved(c)) = Len(cursors) /\ Moved(c)[Len(cursors)] = c
         /\ \A i \in 1..Len(cursors) : i # Len(cursors) => Moved(c)[i] = cursors[i]
<1>1. cursors \in Seq(Cursor)
  BY DEF StateOK
<1>2. Len(cursors) \in {1, 2} /\ Len(cursors) \in 1..Len(cursors)
  BY TopAt, KeepPage
<1> QED
  BY <1>1, <1>2, SMTT(30) DEF Moved

\* All but the last element of a sequence.
LEMMA FrontAt ==
  ASSUME NEW S, NEW s \in Seq(S), NEW n \in 0..Len(s)
  PROVE  /\ SubSeq(s, 1, n) \in Seq(S) /\ Len(SubSeq(s, 1, n)) = n
         /\ \A i \in 1..n : SubSeq(s, 1, n)[i] = s[i]
BY SMTT(30)

\* The innermost scan is over.
LEMMA ClosedAt ==
  ASSUME StateOK, cursors # <<>>
  PROVE  /\ Closed \in Seq(Cursor) /\ Len(Closed) = Len(cursors) - 1
         /\ \A i \in 1..Len(Closed) : Closed[i] = cursors[i]
<1>1. cursors \in Seq(Cursor)
  BY DEF StateOK
<1>2. Len(cursors) \in {1, 2}
  BY TopAt
<1>3. Len(cursors) - 1 \in 0..Len(cursors)
  BY <1>2, SMTT(30)
<1> QED
  BY <1>1, <1>3, FrontAt DEF Closed

\* A scan at the next row, or the next page.
LEMMA CursorMoves ==
  ASSUME NEW c \in Cursor
  PROVE  /\ LET row == [c EXCEPT !.row = @ + 1]
            IN  row \in Cursor /\ row.table = c.table /\ row.at = c.at
         /\ LET page == [Scan(c.table) EXCEPT !.at = c.at + 1]
            IN  page \in Cursor /\ page.table = c.table /\ page.at = c.at + 1
<1>1. c.table \in Tables /\ c.at \in Nat \ {0} /\ c.row \in Nat \ {0}
  BY SMTT(30) DEF Cursor
<1>2. c.at + 1 \in Nat \ {0} /\ c.row + 1 \in Nat \ {0}
  BY <1>1, SMTT(30)
<1>3. ASSUME NEW d \in Cursor, NEW a \in Nat \ {0}
      PROVE  LET new == [d EXCEPT !.at = a]
             IN  new \in Cursor /\ new.table = d.table /\ new.at = a
  BY SMTT(30) DEF Cursor
<1>4. ASSUME NEW r \in Nat \ {0}
      PROVE  LET new == [c EXCEPT !.row = r]
             IN  new \in Cursor /\ new.table = c.table /\ new.at = c.at
  BY SMTT(30) DEF Cursor
<1>5. Scan(c.table) \in Cursor /\ Scan(c.table).table = c.table
  BY <1>1, SMTT(30) DEF Scan, Cursor
<1> QED
  BY <1>2, <1>3, <1>4, <1>5

\* Pins of scans on the same pages.
AsMany(n, x, y, x2, y2, p) == Counts(n, x, y, p) = Counts(n, x2, y2, p)

LEMMA CountsSame ==
  ASSUME NEW n \in {0, 1, 2}, NEW x, NEW y, NEW x2, NEW y2, n # 0 => x = x2, n = 2 => y = y2, NEW p
  PROVE  AsMany(n, x, y, x2, y2, p)
<1>1. n >= 1 <=> n # 0
  BY SMTT(30)
<1> QED
  BY <1>1 DEF Counts, One, AsMany

\* The pin of the innermost scan.
OneMore(n, x, y, p, last) == Counts(n, x, y, p) = Counts(n - 1, x, y, p) + One(last = p)

LEMMA CountsLast ==
  ASSUME NEW n \in {1, 2}, NEW x, NEW y, NEW p, NEW last, last = (IF n = 1 THEN x ELSE y)
  PROVE  OneMore(n, x, y, p, last)
BY SMTT(30) DEF Counts, One, OneMore

\* All scans but the innermost.
LEMMA OuterScans ==
  ASSUME NEW n \in {1, 2}
  PROVE  n - 1 \in {0, 1, 2} /\ (n - 1 # 0 => n = 2) /\ n - 1 # 2
BY SMTT(30)

\* What the scans hold between two methods.
LEMMA HeldIdle ==
  ASSUME StateOK, todo = <<>>, NEW p
  PROVE  Held(p) = Counts(Len(cursors), Page(cursors[1]), Page(cursors[2]), p)
<1>1. Len(cursors) \in {0, 1, 2} /\ (cursors = <<>> <=> Len(cursors) = 0)
  BY CursorPages
<1>2. Scans(Len(cursors), Pending) = Len(cursors)
  BY DEF Pending, Scans
<1>3. Held(p) = Counts(Scans(Len(cursors), Pending), Page(cursors[1]), Page(cursors[2]), p)
  BY <1>1, HeldCounts
<1> QED
  BY <1>2, <1>3

\* What they hold in the next state.
LEMMA HeldNext ==
  ASSUME cursors' \in Seq(Cursor), Len(cursors') \in {0, 1, 2}, NEW p
  PROVE  /\ Pending' => Held(p)' = Counts(Len(cursors') - 1, Page(cursors[1])', Page(cursors[2])', p)
         /\ ~Pending' => Held(p)' = Counts(Len(cursors'), Page(cursors[1])', Page(cursors[2])', p)
<1>1. cursors' = <<>> <=> Len(cursors') = 0
  BY SeqFacts
<1>2. /\ Pending' => Scans(Len(cursors'), Pending') = Len(cursors') - 1
      /\ ~Pending' => Scans(Len(cursors'), Pending') = Len(cursors')
  BY DEF Scans
<1>3. Held(p)' = Counts(Scans(Len(cursors'), Pending'), Page(cursors[1])', Page(cursors[2])', p)
  BY <1>1, HeldCountsNext
<1> QED
  BY <1>2, <1>3

\* A method that keeps nothing does not end with a fetch.
LEMMA EndsClosed ==
  ASSUME NEW s, Method(s, 0), s # <<>>, NEW p \in Pages
  PROVE  s[Len(s)] # Fetch(p)
<1>1. s \in Seq(Call) /\ Disciplined(s, 0)
  BY DEF Method
<1>2. Len(s) \in Nat /\ Len(s) \in 1..Len(s) /\ 0 \notin Pages
  <2>1. Len(s) \in Nat /\ Len(s) # 0
    BY <1>1, SeqFacts
  <2> QED
    BY <2>1, SMTT(30) DEF Pages
<1>3. Opens(Fetch(p), p)
  BY SMTT(30) DEF Opens, Fetch
<1>4. ~Open(s, Len(s) + 1, p)
  BY <1>2, AtEnd
<1> QED
  BY <1>1, <1>2, <1>3, <1>4 DEF Disciplined

\* What holds when a scan is asked for more.
LEMMA ScanningState ==
  ASSUME PinsInv, Scanning, cursors # <<>>
  PROVE  /\ StateOK /\ stmt \in Statement /\ allocated \in Pages
         /\ todo = <<>> /\ stmt.kind \notin {"idle", "raising", "insert"} /\ stmt.opened
         /\ Len(cursors) = 2 => stmt.kind = "join"
         /\ stmt.kind = "create index" => level # <<>>
         /\ \A i \in 1..Len(cursors) : cursors[i].at <= Len(chain[cursors[i].table])
<1>1. 1..Len(<<>>) = {}
  BY SMTT(30)
<1> QED
  BY <1>1 DEF PinsInv, StateOK, PhaseInv, Scanning, Working

\* Two of anything.
IsPair(s, x, y) ==
  Len(s) = 2 /\ s # <<>> /\ s[1] = x /\ s[2] = y /\ 1..Len(s) = {1, 2}

LEMMA PairAt ==
  ASSUME NEW S, NEW x \in S, NEW y \in S
  PROVE  <<x, y>> \in Seq(S) /\ IsPair(<<x, y>>, x, y)
BY SMTT(30) DEF IsPair

\* The row is worked on: a join scans the other table for it.
LEMMA NextRowJoinInv ==
  ASSUME PinsInv, Scanning, cursors # <<>>, stmt.kind = "join", Len(cursors) = 1,
         NEW t \in Tables, cursors' = <<[Top EXCEPT !.row = @ + 1], Scan(t)>>,
         todo' = FindLastPage(t) \o <<Fetch(Page(Scan(t)))>>,
         UNCHANGED pool, UNCHANGED files, stmt' = stmt, before' = before
  PROVE  PinsInv'
<1> DEFINE c == [Top EXCEPT !.row = @ + 1]
           p2 == Page(Scan(t))
<1>1. /\ StateOK /\ stmt \in Statement /\ todo = <<>> /\ stmt.kind \notin {"idle", "raising", "insert"}
      /\ stmt.opened /\ chain' = chain /\ 1 \in 1..1
      /\ \A i \in 1..Len(cursors) : cursors[i].at <= Len(chain[cursors[i].table])
  <2>1. 1 \in 1..1
    BY SMTT(30)
  <2> QED
    BY <2>1, ScanningState DEF files
<1>2. Top = cursors[1] /\ c \in Cursor /\ c.table = cursors[1].table /\ c.at = cursors[1].at
  <2>1. Top = cursors[1] /\ Top \in Cursor
    BY <1>1, TopAt
  <2>2. c \in Cursor /\ c.table = Top.table /\ c.at = Top.at
    BY <2>1, CursorMoves
  <2> QED
    BY <2>1, <2>2
<1>3. /\ Scan(t) \in Cursor /\ p2 \in Pages
      /\ Scan(t).at <= Len(chain[Scan(t).table]) /\ chain[t] \in Seq(Pages)
  BY <1>1, ScanFirst, ChainPages
<1> HIDE DEF c
<1>4. /\ cursors' \in Seq(Cursor) /\ Len(cursors') = 2 /\ cursors' # <<>>
      /\ cursors'[1] = c /\ cursors'[2] = Scan(t) /\ 1..Len(cursors') = {1, 2}
  <2>1. cursors' = <<c, Scan(t)>>
    BY DEF c
  <2>2. <<c, Scan(t)>> \in Seq(Cursor) /\ IsPair(<<c, Scan(t)>>, c, Scan(t))
    BY <1>2, <1>3, PairAt
  <2> QED
    BY <2>1, <2>2 DEF IsPair
<1>5. Keep' = p2 /\ Page(Top)' = p2 /\ Page(cursors[1])' = Page(cursors[1])
  BY <1>1, <1>2, <1>4 DEF Keep, Top, Page
<1> HIDE DEF p2
<1>6. /\ Method(todo', p2) /\ Sequential(todo') /\ Only(todo', Plain) /\ todo' # <<>>
      /\ todo'[Len(todo')] = Fetch(p2)
  BY <1>3, ScanMethod DEF FindLastPage, p2
<1>7. Only(todo', Unguarded) /\ Allocates(todo', allocated)
  BY <1>6, OnlyMore, AllocatesQuiet DEF Method
<1>8. ASSUME NEW p \in Pages
      PROVE  /\ Held(p)' + One(Needed(todo', 1, p)) <= Held(p)
             /\ Held(p) <= Held(p)' + One(Open(todo', 1, p))
  <2>1. Pending'
    BY <1>4, <1>5, <1>6 DEF Pending
  <2>2. Held(p)' = Counts(2 - 1, Page(cursors[1])', Page(cursors[2])', p)
    BY <2>1, <1>4, HeldNext
  <2>3. Held(p) = Counts(1, Page(cursors[1]), Page(cursors[2]), p)
    BY <1>1, HeldIdle
  <2>4. Counts(1, Page(cursors[1])', Page(cursors[2])', p) = Counts(1, Page(cursors[1]), Page(cursors[2]), p)
    <3>1. 1 \in {0, 1, 2} /\ 1 # 2
      BY SMTT(30)
    <3>2. AsMany(1, Page(cursors[1])', Page(cursors[2])', Page(cursors[1]), Page(cursors[2]), p)
      BY <3>1, <1>5, CountsSame
    <3> QED
      BY <3>2 DEF AsMany
  <2>5. 2 - 1 = 1
    BY SMTT(30)
  <2>6. Held(p)' = Held(p)
    BY <2>2, <2>3, <2>4, <2>5
  <2>7. One(Needed(todo', 1, p)) = 0 /\ One(Open(todo', 1, p)) = 0 /\ Held(p) \in Nat
    BY <1>6, HeldNat DEF Method, Fresh, One
  <2> QED
    BY <2>6, <2>7, SMTT(30)
<1>9. todo' \in Seq(Call) /\ Disciplined(todo', Keep') /\ Narrow(todo')
  BY <1>5, <1>6 DEF Method
<1>10. \A i \in 1..Len(cursors') : cursors'[i].at <= Len(chain[cursors'[i].table])
  <2>1. c.at <= Len(chain[c.table])
    BY <1>1, <1>2
  <2> QED
    BY <2>1, <1>3, <1>4
<1> QED
  BY <1>1, <1>4, <1>6, <1>7, <1>8, <1>9, <1>10, ScansMove

\* Arithmetic about the number of scans and the pins of a page that no call moves.
LEMMA ScanNumbers ==
  /\ \A n \in {1, 2} : n \in {0, 1, 2} /\ (n # 0 => 1 \in 1..n) /\ (n = 2 => 2 \in 1..n)
  /\ \A h \in Nat : h + 0 <= h /\ h <= h + 0
BY SMTT(30)

\* The row is worked on, without another scan.
LEMMA NextRowSameInv ==
  ASSUME PinsInv, Scanning, cursors # <<>>, cursors' = Moved([Top EXCEPT !.row = @ + 1]),
         IF stmt.kind = "create index" THEN todo' \in TreeInserts ELSE todo' = todo,
         UNCHANGED pool, UNCHANGED files, stmt' = stmt, before' = before
  PROVE  PinsInv'
<1> DEFINE c == [Top EXCEPT !.row = @ + 1]
<1>0. PICK n : n = Len(cursors)
  OBVIOUS
<1>1. /\ StateOK /\ stmt \in Statement /\ todo = <<>> /\ stmt.kind \notin {"idle", "raising", "insert"}
      /\ stmt.opened /\ chain' = chain /\ (n = 2 => stmt.kind = "join")
      /\ stmt.kind = "create index" => level # <<>>
      /\ \A i \in 1..n : cursors[i].at <= Len(chain[cursors[i].table])
  BY <1>0, ScanningState DEF files
<1>2. /\ n \in {1, 2} /\ n \in 1..n /\ Top = cursors[n]
      /\ c \in Cursor /\ c.table = cursors[n].table /\ c.at = cursors[n].at
  <2>1. n \in {1, 2} /\ n \in 1..n /\ Top = cursors[n] /\ Top \in Cursor
    BY <1>0, <1>1, TopAt, KeepPage
  <2>2. c \in Cursor /\ c.table = Top.table /\ c.at = Top.at
    BY <2>1, CursorMoves
  <2> QED
    BY <2>1, <2>2
<1>3. /\ cursors' \in Seq(Cursor) /\ Len(cursors') = n /\ cursors'[n] = c
      /\ \A i \in 1..n : i # n => cursors'[i] = cursors[i]
  <2>1. cursors' = Moved(c)
    OBVIOUS
  <2> HIDE DEF c
  <2>2. /\ Moved(c) \in Seq(Cursor) /\ Len(Moved(c)) = n /\ Moved(c)[n] = c
        /\ \A i \in 1..n : i # n => Moved(c)[i] = cursors[i]
    BY <1>0, <1>1, <1>2, MovedAt
  <2> QED
    BY <2>1, <2>2
<1> HIDE DEF c
<1>4. ASSUME NEW i \in 1..n
      PROVE  /\ cursors'[i].at = cursors[i].at /\ cursors'[i].table = cursors[i].table
             /\ Page(cursors[i])' = Page(cursors[i])
  <2>1. cursors'[i].at = cursors[i].at /\ cursors'[i].table = cursors[i].table
    BY <1>2, <1>3
  <2> QED
    BY <2>1, <1>1 DEF Page
<1>5. /\ Method(todo', 0) /\ Only(todo', Unguarded) /\ Allocates(todo', allocated)
      /\ n = 2 => Sequential(todo')
  <2>1. CASE stmt.kind = "create index"
    BY <2>1, <1>1, TreeInsertsMethod
  <2>2. CASE stmt.kind # "create index"
    BY <2>2, <1>1, NoCalls
  <2> QED
    BY <2>1, <2>2
<1>6. ~Pending'
  <2>1. Page(Top)' \in Pages
    <3>0. Page(Top) \in Pages
      BY <1>1, TopAt
    <3>1. Page(cursors[n])' = Page(cursors[n]) /\ Page(cursors[n]) \in Pages
      BY <3>0, <1>2, <1>4
    <3>2. Page(Top)' = Page(cursors[n])'
      BY <1>3 DEF Top
    <3> QED
      BY <3>1, <3>2
  <2> QED
    BY <2>1, <1>5, EndsClosed DEF Pending
<1>7. ASSUME NEW p \in Pages
      PROVE  /\ Held(p)' + One(Needed(todo', 1, p)) <= Held(p)
             /\ Held(p) <= Held(p)' + One(Open(todo', 1, p))
  <2>1. Held(p)' = Counts(n, Page(cursors[1])', Page(cursors[2])', p)
    BY <1>2, <1>3, <1>6, HeldNext
  <2>2. Held(p) = Counts(n, Page(cursors[1]), Page(cursors[2]), p)
    BY <1>0, <1>1, HeldIdle
  <2>3. n \in {0, 1, 2} /\ (n # 0 => 1 \in 1..n) /\ (n = 2 => 2 \in 1..n)
    BY <1>2, ScanNumbers
  <2>4. Counts(n, Page(cursors[1])', Page(cursors[2])', p) = Counts(n, Page(cursors[1]), Page(cursors[2]), p)
    <3>1. /\ n # 0 => Page(cursors[1])' = Page(cursors[1])
          /\ n = 2 => Page(cursors[2])' = Page(cursors[2])
      BY <2>3, <1>4
    <3>2. AsMany(n, Page(cursors[1])', Page(cursors[2])', Page(cursors[1]), Page(cursors[2]), p)
      BY <2>3, <3>1, CountsSame
    <3> QED
      BY <3>2 DEF AsMany
  <2>5. One(Needed(todo', 1, p)) = 0 /\ One(Open(todo', 1, p)) = 0 /\ Held(p) \in Nat
    BY <1>5, HeldNat DEF Method, Fresh, One
  <2>6. Held(p)' = Held(p)
    BY <2>1, <2>2, <2>4
  <2> QED
    BY <2>5, <2>6, ScanNumbers
<1>8. todo' \in Seq(Call) /\ Disciplined(todo', Keep') /\ Narrow(todo')
  BY <1>5, KeepMore DEF Method
<1>9. \A i \in 1..n : cursors'[i].at <= Len(chain[cursors'[i].table])
  BY <1>1, <1>4
<1> QED
  BY <1>1, <1>2, <1>3, <1>5, <1>7, <1>8, <1>9, ScansMove

\* A row of a scan.
LEMMA NextRowInv ==
  ASSUME PinsInv, NextRow
  PROVE  PinsInv'
BY NextRowJoinInv, NextRowSameInv DEF NextRow

\* A page is released, and the next one pinned.
LEMMA ReleaseMethod ==
  ASSUME NEW p0 \in Pages, NEW pn \in Pages
  PROVE  LET s == <<Unpin(p0), Fetch(pn)>>
         IN  /\ s \in Seq(Call) /\ s # <<>> /\ s[Len(s)] = Fetch(pn)
             /\ Disciplined(s, pn) /\ Narrow(s) /\ Sequential(s) /\ Only(s, Plain)
             /\ \A x : (Open(s, 1, x) <=> x = p0) /\ (Needed(s, 1, x) <=> x = p0)
<1> DEFINE s == <<Unpin(p0), Fetch(pn)>>
<1>1. Unpin(p0) \in Call /\ Fetch(pn) \in Call
  BY SMTT(30) DEF Call, PageCalls, Unpin, Fetch
<1>2. s \in Seq(Call) /\ IsPair(s, Unpin(p0), Fetch(pn))
  BY <1>1, PairAt
<1> HIDE DEF s
<1>3. /\ Len(s) = 2 /\ Len(s) \in Nat /\ s # <<>> /\ 1..Len(s) = {1, 2} /\ s[Len(s)] = Fetch(pn)
      /\ s[1][1] = "unpin" /\ s[1][2] = p0 /\ s[2][1] = "fetch" /\ s[2][2] = pn
      /\ 1 + 1 = 2 /\ 2 + 1 = 3 /\ 1 # 2 /\ 1 \in 1..Len(s) /\ 2 \in 1..Len(s)
  <2>1. 2 \in Nat /\ 1 + 1 = 2 /\ 2 + 1 = 3 /\ 1 # 2
    BY SMTT(30)
  <2>2. Unpin(p0)[1] = "unpin" /\ Unpin(p0)[2] = p0 /\ Fetch(pn)[1] = "fetch" /\ Fetch(pn)[2] = pn
    BY SMTT(30) DEF Unpin, Fetch
  <2> QED
    BY <2>1, <2>2, <1>2 DEF IsPair
<1>4. ASSUME NEW x
      PROVE  /\ ~Open(s, 3, x) /\ ~Needed(s, 3, x) /\ ~Open(s, 2, x) /\ ~Needed(s, 2, x)
             /\ (Open(s, 1, x) <=> x = p0) /\ (Needed(s, 1, x) <=> x = p0)
  <2>1. ~Open(s, 3, x) /\ ~Needed(s, 3, x)
    BY <1>3, AtEnd
  <2>2. Unfolds(s, 2, 3, x) /\ Unfolds(s, 1, 2, x)
    BY <1>3, UnfoldTo
  <2>3. ~Open(s, 2, x) /\ ~Needed(s, 2, x)
    BY <2>1, <2>2, <1>3 DEF Unfolds, Opens, Closes, Needs
  <2>4. (Open(s, 1, x) <=> x = p0) /\ (Needed(s, 1, x) <=> x = p0)
    BY <2>2, <2>3, <1>3 DEF Unfolds, Opens, Closes, Needs
  <2> QED
    BY <2>1, <2>3, <2>4
<1>5. Disciplined(s, pn)
  BY <1>3, <1>4 DEF Disciplined, Opens, Closes
<1>6. Sequential(s)
  BY <1>3, <1>4 DEF Sequential, Opens
<1>7. Narrow(s)
  BY <1>6 DEF Sequential, Narrow
<1>8. Only(s, Plain)
  BY <1>3 DEF Only, Plain
<1> QED
  BY <1>2, <1>3, <1>4, <1>5, <1>6, <1>7, <1>8 DEF s

\* The last page is released.
LEMMA LastRelease ==
  ASSUME NEW p0 \in Pages, NEW keep
  PROVE  LET s == <<Unpin(p0)>>
         IN  /\ s \in Seq(Call) /\ s # <<>> /\ \A p : s[Len(s)] # Fetch(p)
             /\ Disciplined(s, keep) /\ Narrow(s) /\ Sequential(s) /\ Only(s, Plain)
             /\ \A x : (Open(s, 1, x) <=> x = p0) /\ (Needed(s, 1, x) <=> x = p0)
<1> DEFINE s == <<Unpin(p0)>>
<1>1. Unpin(p0) \in Call
  BY SMTT(30) DEF Call, PageCalls, Unpin
<1>2. s \in Seq(Call) /\ s # <<>> /\ Len(s) = 1 /\ s[1] = Unpin(p0) /\ 1..Len(s) = {1}
  BY <1>1, SMTT(30)
<1> HIDE DEF s
<1>3. /\ Len(s) \in Nat /\ s[1][1] = "unpin" /\ s[1][2] = p0 /\ 1 + 1 = 2 /\ 1 \in 1..Len(s)
  BY <1>2, SMTT(30) DEF Unpin
<1>4. ASSUME NEW x
      PROVE  /\ ~Open(s, 2, x) /\ ~Needed(s, 2, x)
             /\ (Open(s, 1, x) <=> x = p0) /\ (Needed(s, 1, x) <=> x = p0)
  <2>1. ~Open(s, 2, x) /\ ~Needed(s, 2, x)
    BY <1>2, <1>3, AtEnd
  <2>2. Unfolds(s, 1, 2, x)
    BY <1>2, <1>3, UnfoldTo
  <2> QED
    BY <2>1, <2>2, <1>3 DEF Unfolds, Opens, Closes, Needs
<1>5. Disciplined(s, keep)
  BY <1>2, <1>3, <1>4 DEF Disciplined, Opens, Closes
<1>6. Sequential(s)
  BY <1>2, <1>3 DEF Sequential, Opens
<1>7. Narrow(s)
  BY <1>6 DEF Sequential, Narrow
<1>8. Only(s, Plain)
  BY <1>2, <1>3 DEF Only, Plain
<1>9. ASSUME NEW p PROVE s[Len(s)] # Fetch(p)
  <2>1. Fetch(p)[1] = "fetch"
    BY SMTT(30) DEF Fetch
  <2> QED
    BY <2>1, <1>2, <1>3
<1> QED
  BY <1>2, <1>4, <1>5, <1>6, <1>7, <1>8, <1>9 DEF s

\* The innermost scan leaves its page.
LEMMA ReleaseInv ==
  ASSUME PinsInv, Scanning, cursors # <<>>, NEW n, n = Len(cursors),
         UNCHANGED pool, UNCHANGED files, stmt' = stmt, before' = before,
         cursors' \in Seq(Cursor), Len(cursors') \in {0, 1, 2}, Len(cursors') = 2 => n = 2,
         n = 2 => cursors'[1] = cursors[1],
         \A i \in 1..Len(cursors') : cursors'[i].at <= Len(chain[cursors'[i].table]),
         todo' \in Seq(Call), Disciplined(todo', Keep'), Narrow(todo'), Sequential(todo'),
         Only(todo', Plain),
         \A x : (Open(todo', 1, x) <=> x = Page(Top)) /\ (Needed(todo', 1, x) <=> x = Page(Top)),
         \A p : Held(p)' = Counts(n - 1, Page(cursors[1])', Page(cursors[2])', p)
  PROVE  PinsInv'
<1>1. /\ StateOK /\ stmt \in Statement /\ todo = <<>> /\ stmt.kind \notin {"idle", "raising", "insert"}
      /\ stmt.opened /\ chain' = chain /\ (n = 2 => stmt.kind = "join")
  BY ScanningState DEF files
<1>2. n \in {1, 2} /\ Top = cursors[n]
  BY <1>1, TopAt
<1>3. Only(todo', Unguarded) /\ Allocates(todo', allocated)
  BY OnlyMore, AllocatesQuiet
<1>4. ASSUME NEW p \in Pages
      PROVE  /\ Held(p)' + One(Needed(todo', 1, p)) <= Held(p)
             /\ Held(p) <= Held(p)' + One(Open(todo', 1, p))
  <2>1. Held(p) = Counts(n, Page(cursors[1]), Page(cursors[2]), p)
    BY <1>1, HeldIdle
  <2>2. Page(Top) = IF n = 1 THEN Page(cursors[1]) ELSE Page(cursors[2])
    BY <1>2
  <2>3. OneMore(n, Page(cursors[1]), Page(cursors[2]), p, Page(Top))
    BY <1>2, <2>2, CountsLast
  <2>4. n - 1 \in {0, 1, 2} /\ (n - 1 # 0 => n = 2) /\ n - 1 # 2
    BY <1>2, OuterScans
  <2>5. n - 1 # 0 => Page(cursors[1])' = Page(cursors[1])
    BY <2>4, <1>1 DEF Page
  <2>6. AsMany(n - 1, Page(cursors[1])', Page(cursors[2])', Page(cursors[1]), Page(cursors[2]), p)
    BY <2>4, <2>5, CountsSame
  <2>7. Held(p) = Held(p)' + One(Page(Top) = p)
    BY <2>1, <2>3, <2>6 DEF AsMany, OneMore
  <2>8. One(Needed(todo', 1, p)) = One(Page(Top) = p) /\ One(Open(todo', 1, p)) = One(Page(Top) = p)
    BY DEF One
  <2>9. Held(p) \in Nat
    BY HeldNat
  <2> QED
    BY <2>7, <2>8, <2>9, SMTT(30)
<1> QED
  BY <1>1, <1>3, <1>4, ScansMove

\* The next page of the scan, or none.
LEMMA NextPageInv ==
  ASSUME PinsInv, NextPage
  PROVE  PinsInv'
<1>0. PICK n : n = Len(cursors)
  OBVIOUS
<1>1. /\ Scanning /\ cursors # <<>>
      /\ UNCHANGED pool /\ UNCHANGED files /\ stmt' = stmt /\ before' = before
  BY DEF NextPage
<1>2. /\ StateOK /\ todo = <<>> /\ chain' = chain
      /\ \A i \in 1..n : cursors[i].at <= Len(chain[cursors[i].table])
  BY <1>0, <1>1, ScanningState DEF files
<1>3. /\ n \in {1, 2} /\ n \in 1..n /\ Top = cursors[n] /\ Top \in Cursor /\ Page(Top) \in Pages
      /\ Top.table \in Tables /\ Top.at \in 1..Len(chain[Top.table])
  BY <1>0, <1>1, <1>2, TopAt, KeepPage
<1>4. CASE Top.at < Len(chain[Top.table])
  <2> DEFINE next == [Scan(Top.table) EXCEPT !.at = Top.at + 1]
  <2>1. cursors' = Moved(next) /\ todo' = <<Unpin(Page(Top)), Fetch(Page(next))>>
    BY <1>4 DEF NextPage
  <2>2. next \in Cursor /\ next.table = Top.table /\ next.at = Top.at + 1
    BY <1>3, CursorMoves
  <2> HIDE DEF next
  <2>3. /\ cursors' \in Seq(Cursor) /\ Len(cursors') = n /\ cursors'[n] = next
        /\ \A i \in 1..n : i # n => cursors'[i] = cursors[i]
    BY <1>0, <1>1, <1>2, <2>1, <2>2, MovedAt
  <2>4. Page(next) \in Pages /\ next.at <= Len(chain[next.table])
    <3>1. chain[Top.table] \in Seq(Pages)
      BY <1>2, <1>3, ChainPages
    <3>2. Len(chain[Top.table]) \in Nat /\ \A i \in 1..Len(chain[Top.table]) : chain[Top.table][i] \in Pages
      BY <3>1, SeqFacts
    <3>3. \A l \in Nat : \A i \in 1..l : i < l => i + 1 \in 1..l /\ i + 1 <= l
      BY SMTT(30)
    <3> QED
      BY <3>2, <3>3, <2>2, <1>3, <1>4 DEF Page
  <2>5. cursors' # <<>> /\ Keep' = Page(next) /\ Page(Top)' = Page(next)
    <3>1. cursors' # <<>>
      <4>1. n # 0
        BY <1>3, SMTT(30)
      <4> QED
        BY <4>1, <2>3, SeqFacts
    <3> QED
      BY <3>1, <2>3, <1>2 DEF Keep, Top, Page
  <2>6. /\ todo' \in Seq(Call) /\ todo' # <<>> /\ todo'[Len(todo')] = Fetch(Page(next))
        /\ Disciplined(todo', Keep') /\ Narrow(todo') /\ Sequential(todo') /\ Only(todo', Plain)
        /\ \A x : (Open(todo', 1, x) <=> x = Page(Top)) /\ (Needed(todo', 1, x) <=> x = Page(Top))
    BY <2>1, <2>4, <2>5, <1>3, ReleaseMethod
  <2>7. Pending'
    BY <2>5, <2>6 DEF Pending
  <2>8. \A p : Held(p)' = Counts(n - 1, Page(cursors[1])', Page(cursors[2])', p)
    BY <2>3, <2>7, <1>3, HeldNext
  <2>9. \A i \in 1..Len(cursors') : cursors'[i].at <= Len(chain[cursors'[i].table])
    BY <2>3, <2>4, <1>2
  <2>10. n = 2 => cursors'[1] = cursors[1]
    <3>1. 1 \in 1..2 /\ 1 # 2
      BY SMTT(30)
    <3> QED
      BY <3>1, <2>3
  <2> QED
    BY <1>0, <1>1, <1>3, <2>3, <2>6, <2>8, <2>9, <2>10, ReleaseInv
<1>5. CASE ~(Top.at < Len(chain[Top.table]))
  <2>1. cursors' = Closed /\ todo' = <<Unpin(Page(Top))>>
    BY <1>5 DEF NextPage
  <2>2. /\ cursors' \in Seq(Cursor) /\ Len(cursors') = n - 1
        /\ \A i \in 1..Len(cursors') : cursors'[i] = cursors[i]
    BY <1>0, <1>1, <1>2, <2>1, ClosedAt
  <2>3. n - 1 \in {0, 1, 2} /\ n - 1 # 2 /\ (\A i \in 1..(n - 1) : i \in 1..n) /\ (n = 2 => 1 \in 1..(n - 1))
    BY <1>3, SMTT(30)
  <2>4. /\ todo' \in Seq(Call) /\ todo' # <<>> /\ \A p : todo'[Len(todo')] # Fetch(p)
        /\ Disciplined(todo', Keep') /\ Narrow(todo') /\ Sequential(todo') /\ Only(todo', Plain)
        /\ \A x : (Open(todo', 1, x) <=> x = Page(Top)) /\ (Needed(todo', 1, x) <=> x = Page(Top))
    BY <2>1, <1>3, LastRelease
  <2>5. ~Pending'
    BY <2>4 DEF Pending
  <2>6. \A p : Held(p)' = Counts(n - 1, Page(cursors[1])', Page(cursors[2])', p)
    BY <2>2, <2>3, <2>5, HeldNext
  <2>7. \A i \in 1..Len(cursors') : cursors'[i].at <= Len(chain[cursors'[i].table])
    BY <2>2, <2>3, <1>2
  <2>8. n = 2 => cursors'[1] = cursors[1]
    BY <2>2, <2>3
  <2>9. Len(cursors') \in {0, 1, 2} /\ (Len(cursors') = 2 => n = 2)
    BY <2>2, <2>3
  <2> QED
    BY <1>0, <1>1, <2>2, <2>4, <2>6, <2>7, <2>8, <2>9, ReleaseInv
<1> QED
  BY <1>4, <1>5

=============================================================================
