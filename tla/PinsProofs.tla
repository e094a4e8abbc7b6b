----------------------------- MODULE PinsProofs ------------------------------
(***************************************************************************)
(* The theorems about Pins.tla: the steps that take a frame or find none,  *)
(* for which frames are counted, and what follows from the invariant of    *)
(* PinsSteps.tla.                                                          *)
(***************************************************************************)
EXTENDS PinsSteps, FiniteSetTheorems

\* As in PinsSteps.
USE ZenonT(30)

-----------------------------------------------------------------------------
(* A page is taken, or an exception leaves the statement *)

\* The innermost scan has got its page.
LEMMA HeldTaken ==
  ASSUME StateOK, cursors # <<>>, cursors' = cursors, chain' = chain, Pending, ~Pending', NEW q
  PROVE  Held(q)' = Held(q) + One(Page(Top) = q)
<1>0. PICK n : n = Len(cursors)
  OBVIOUS
<1>1. n \in {0, 1, 2} /\ n \in {1, 2} /\ Top = cursors[n] /\ cursors \in Seq(Cursor)
  BY <1>0, TopAt, CursorPages DEF StateOK
<1>2. Held(q)' = Counts(n, Page(cursors[1])', Page(cursors[2])', q)
  BY <1>0, <1>1, HeldNext
<1>3. Held(q) = Counts(n - 1, Page(cursors[1]), Page(cursors[2]), q)
  <2>1. cursors = <<>> <=> Len(cursors) = 0
    BY CursorPages
  <2>2. Held(q) = Counts(Scans(n, Pending), Page(cursors[1]), Page(cursors[2]), q)
    BY <2>1, <1>0, <1>1, HeldCounts
  <2>3. Scans(n, Pending) = n - 1
    BY DEF Scans
  <2> QED
    BY <2>2, <2>3
<1>4. Page(Top) = IF n = 1 THEN Page(cursors[1]) ELSE Page(cursors[2])
  BY <1>1
<1>5. OneMore(n, Page(cursors[1]), Page(cursors[2]), q, Page(Top))
  BY <1>1, <1>4, CountsLast
<1>6. Page(cursors[1])' = Page(cursors[1]) /\ Page(cursors[2])' = Page(cursors[2])
  BY DEF Page
<1> QED
  BY <1>2, <1>3, <1>5, <1>6 DEF OneMore

\* A page has one pin more, for a scan or because it is open.
Taken(x, b, h, m, n, o) == x + 1 >= (h + m) + n /\ x + 1 <= b + (h + m) + o

LEMMA TakenOpen ==
  ASSUME NEW x \in Nat, NEW b \in Nat, NEW h \in Nat, x >= h + 0, x <= b + h + 0, NEW n \in {0, 1}
  PROVE  Taken(x, b, h, 0, n, 1)
BY SMTT(30) DEF Taken

LEMMA TakenHeld ==
  ASSUME NEW x \in Nat, NEW b \in Nat, NEW h \in Nat, x >= h + 0, x <= b + h + 0
  PROVE  Taken(x, b, h, 1, 0, 0)
BY SMTT(30) DEF Taken

\* fetch_page and new_page: the page that is pinned is released later, or it is
\* that of the scan that waits for it.
LEMMA PageTaken ==
  ASSUME PinsInv, TypeOK', todo # <<>>, todo[1][1] \in {"fetch", "new"}, NEW p, p = todo[1][2],
         allocated' = (IF todo[1][1] = "new" THEN p ELSE allocated),
         pin' = [pin EXCEPT ![p] = @ + 1], todo' = Tail(todo),
         stmt' = stmt, cursors' = cursors, chain' = chain, level' = level, before' = before
  PROVE  PinsInv'
<1> DEFINE c == todo[1]
<1>1. TypeOK /\ StateOK /\ PhaseInv /\ TodoInv /\ LowerInv /\ UpperInv /\ FullOnlyAfterLosses
  BY DEF PinsInv
<1>2. /\ todo \in Seq(Call) /\ Disciplined(todo, Keep) /\ Allocates(todo, allocated) /\ c \in Call
      /\ 1 \in 1..Len(todo)
  BY <1>1, TailAt, FirstIndex DEF TodoInv
<1>3. p \in Pages /\ allocated \in Pages
  BY <1>1, <1>2, CallShape DEF StateOK
<1>4. allocated' \in Pages /\ allocated <= allocated' /\ (c[1] = "new" => p > allocated)
  <2>1. c[1] = "new" => p > allocated
    BY <1>2, <1>3, TailAllocates
  <2> QED
    BY <2>1, <1>3, SMTT(30) DEF Pages
<1>5. Allocates(todo', allocated')
  BY <1>2, <1>3, TailAllocates
<1>6. StateOK'
  BY <1>1, <1>4, FilesKept DEF StateOK
<1>7. \A i \in 1..Len(cursors) : Page(cursors[i])' = Page(cursors[i])
  BY DEF Page
<1>8. /\ todo' \in Seq(Call) /\ Disciplined(todo', Keep') /\ Narrow(todo')
      /\ Len(cursors') = 2 => Sequential(todo')
      /\ cursors' # <<>> => Only(todo', Unguarded)
      /\ \A ops : Only(todo, ops) => Only(todo', ops)
      /\ Len(todo) # 1 => (Pending' <=> Pending)
      /\ Len(todo) = 1 => ~Pending'
  BY <1>1, <1>7, TailTodo
<1>9. stmt.kind \notin {"idle", "raising"}
  BY <1>1, <1>2 DEF PhaseInv, Only
<1>10. PhaseInv'
  <2>1. stmt.kind = "create index" => level # <<>> \/ \E i \in 1..Len(todo') : todo'[i][1] = "split"
    BY <1>1, <1>2, SplitRemains DEF PhaseInv
  <2> QED
    BY <2>1, <1>1, <1>9 DEF PhaseInv
<1>11. TodoInv'
  BY <1>5, <1>8 DEF TodoInv
<1> DEFINE more == IF Len(todo) = 1 THEN 1 ELSE 0
<1>12. /\ Opens(c, p) /\ ~Closes(c, p) /\ ~Needs(c, p)
       /\ \A q : q # p => ~Opens(c, q) /\ ~Closes(c, q) /\ ~Needs(c, q)
  BY DEF Opens, Closes, Needs
<1>13. ASSUME NEW q, q # p
       PROVE  (Open(todo', 1, q) <=> Open(todo, 1, q)) /\ (Needed(todo', 1, q) <=> Needed(todo, 1, q))
  BY <1>2, <1>12, <1>13, FirstCall
<1>14. ~Open(todo, 1, p) /\ ~Needed(todo, 1, p)
  BY <1>2, <1>12, FirstCall
<1>15. Len(todo) # 1 => Open(todo', 1, p)
  BY <1>2, <1>3, <1>12, FirstDisciplined
<1>16. Len(todo) = 1 => ~Open(todo', 1, p) /\ ~Needed(todo', 1, p)
  <2>1. Len(Tail(todo)) \in Nat /\ Len(todo) = Len(Tail(todo)) + 1
    BY <1>2, TailAt
  <2>2. \A n \in Nat : n + 1 = 1 => 1..n = {}
    BY SMTT(30)
  <2>3. Len(todo) = 1 => 1..Len(Tail(todo)) = {}
    BY <2>1, <2>2
  <2> QED
    BY <2>3 DEF Open, Needed
<1>17. Len(todo) = 1 => cursors # <<>> /\ Pending /\ Page(Top) = p
  <2> SUFFICES ASSUME Len(todo) = 1 PROVE cursors # <<>> /\ Pending /\ Page(Top) = p
    OBVIOUS
  <2>1. p = Keep
    BY <1>2, <1>3, <1>12, <1>16, FirstDisciplined
  <2>2. cursors # <<>> /\ p = Page(Top) /\ p <= allocated
    BY <2>1, <1>1, <1>3, KeepPage
  <2>3. c[1] = "fetch"
    <3>1. \A x, y \in Pages : x <= y => ~(x > y)
      BY SMTT(30) DEF Pages
    <3> QED
      BY <3>1, <2>2, <1>3, <1>4
  <2>4. todo[Len(todo)] = Fetch(p)
    <3>1. ASSUME NEW d \in Call, d[1] = "fetch" PROVE d = <<"fetch", d[2]>>
      BY <3>1, SMTT(30) DEF Call, PageCalls
    <3> QED
      BY <3>1, <2>3, <1>2 DEF Fetch
  <2> QED
    BY <2>2, <2>4 DEF Pending
<1>18. ASSUME NEW q
       PROVE  Held(q)' = Held(q) + (IF q = p THEN more ELSE 0)
  <2>0. Held(q) \in Nat
    BY HeldNat
  <2>1. CASE Len(todo) = 1
    <3>1. Held(q)' = Held(q) + One(Page(Top) = q)
      BY <2>1, <1>1, <1>8, <1>17, HeldTaken
    <3>2. One(Page(Top) = q) = IF q = p THEN more ELSE 0
      BY <2>1, <1>17 DEF One
    <3> QED
      BY <3>1, <3>2
  <2>2. CASE Len(todo) # 1
    <3>1. Held(q)' = Held(q)
      BY <2>2, <1>7, <1>8, SameHeld
    <3>2. (IF q = p THEN more ELSE 0) = 0
      BY <2>2
    <3>3. \A h \in Nat : h + 0 = h
      BY SMTT(30)
    <3> QED
      BY <2>0, <3>1, <3>2, <3>3
  <2> QED
    BY <2>1, <2>2
<1>19. /\ pin \in [Pages -> Nat] /\ before \in [Pages -> Nat] /\ pin'[p] = pin[p] + 1
       /\ \A q \in Pages : q # p => pin'[q] = pin[q]
  BY <1>1, <1>3 DEF TypeOK, StateOK
<1> HIDE DEF c, more
<1>20. ASSUME NEW q \in Pages
       PROVE  /\ pin'[q] >= Held(q)' + One(Needed(todo', 1, q))
              /\ pin'[q] <= before[q] + Held(q)' + One(Open(todo', 1, q))
  <2>1. /\ pin[q] >= Held(q) + One(Needed(todo, 1, q))
        /\ pin[q] <= before[q] + Held(q) + One(Open(todo, 1, q))
    BY <1>1, <1>9 DEF LowerInv, UpperInv
  <2>2. pin[q] \in Nat /\ before[q] \in Nat /\ Held(q) \in Nat
    BY <1>19, HeldNat
  <2>3. CASE q # p
    <3>1. Held(q)' = Held(q) + 0
      BY <2>3, <1>18
    <3>2. \A h \in Nat : h + 0 = h
      BY SMTT(30)
    <3>3. Held(q)' = Held(q)
      BY <3>1, <3>2, <2>2
    <3> QED
      BY <3>3, <2>1, <2>3, <1>13, <1>19 DEF One
  <2>4. CASE q = p
    <3>1. One(Needed(todo, 1, p)) = 0 /\ One(Open(todo, 1, p)) = 0
      BY <1>14 DEF One
    <3>2. /\ One(Needed(todo', 1, p)) \in {0, 1} /\ more \in {0, 1}
          /\ more = 1 => One(Needed(todo', 1, p)) = 0 /\ One(Open(todo', 1, p)) = 0
          /\ more = 0 => One(Open(todo', 1, p)) = 1
      <4>1. 0 # 1
        BY SMTT(30)
      <4> QED
        BY <4>1, <1>15, <1>16 DEF One, more
    <3>3. Held(p)' = Held(p) + more
      BY <1>18
    <3>4. One(Open(todo', 1, p)) \in {0, 1}
      BY DEF One
    <3>5. /\ pin[p] >= Held(p) + 0 /\ pin[p] <= before[p] + Held(p) + 0
          /\ pin[p] \in Nat /\ before[p] \in Nat /\ Held(p) \in Nat
      BY <3>1, <2>1, <2>2, <2>4
    <3>6. PICK h, n, o, m : /\ h = Held(p) /\ m = more
                            /\ n = One(Needed(todo', 1, p)) /\ o = One(Open(todo', 1, p))
      OBVIOUS
    <3>7. Taken(pin[p], before[p], h, m, n, o)
      <4>1. m \in {0, 1} /\ n \in {0, 1} /\ o \in {0, 1} /\ (m = 1 => n = 0 /\ o = 0) /\ (m = 0 => o = 1)
        BY <3>2, <3>4, <3>6
      <4>2. /\ pin[p] >= h + 0 /\ pin[p] <= before[p] + h + 0
            /\ pin[p] \in Nat /\ before[p] \in Nat /\ h \in Nat
        BY <3>5, <3>6
      <4>3. \A k \in {0, 1} : Taken(pin[p], before[p], h, 0, k, 1)
        BY <4>2, TakenOpen
      <4>4. Taken(pin[p], before[p], h, 1, 0, 0)
        BY <4>2, TakenHeld
      <4> QED
        BY <4>1, <4>3, <4>4
    <3> QED
      BY <3>3, <3>6, <3>7, <2>4, <1>19 DEF Taken
  <2> QED
    BY <2>3, <2>4
<1>21. LowerInv' /\ UpperInv'
  BY <1>20 DEF LowerInv, UpperInv, One
<1>22. FullOnlyAfterLosses'
  BY <1>1 DEF FullOnlyAfterLosses
<1> QED
  BY <1>6, <1>10, <1>11, <1>21, <1>22 DEF PinsInv

\* The fields of a statement that is left by an exception.
LEMMA StatementRaises ==
  ASSUME NEW s \in Statement, NEW why \in {"full", "error"}
  PROVE  LET new == [s EXCEPT !.kind = "raising", !.outcome = why]
         IN  /\ new \in Statement /\ new.kind = "raising" /\ new.outcome = why
             /\ new.stage = s.stage
BY DEF Statement

\* Nothing is pinned, or needed, by what is called on the way out.
LEMMA FinallyOnly ==
  ASSUME NEW s \in Seq(Call), Only(s, {"finally"}), NEW keep, NEW last
  PROVE  /\ Disciplined(s, keep) /\ Narrow(s) /\ Allocates(s, last)
         /\ \A p : ~Needed(s, 1, p)
<1>1. \A i \in 1..Len(s) : s[i][1] = "finally"
  BY DEF Only
<1>2. \A i \in 1..Len(s) : \A p : ~Opens(s[i], p) /\ ~Needs(s[i], p)
  BY <1>1 DEF Opens, Needs
<1>3. Len(s) \in Nat
  BY SeqFacts
<1>4. \A i \in 1..Len(s) : \A k \in (i + 1)..Len(s) : k \in 1..Len(s)
  BY <1>3, SMTT(30)
<1>5. \A i \in 1..Len(s) : \A p : ~Needed(s, i + 1, p)
  BY <1>2, <1>4 DEF Needed
<1>6. \A p : ~Needed(s, 1, p)
  BY <1>2 DEF Needed
<1>7. Allocates(s, last)
  <2>1. Only(s, Quiet)
    BY <1>1 DEF Only, Quiet
  <2> QED
    BY <2>1, AllocatesQuiet
<1> QED
  BY <1>2, <1>5, <1>6, <1>7 DEF Disciplined, Narrow

\* An exception leaves the statement.
LEMMA UnwindInv ==
  ASSUME PinsInv, FullOnlyAfterLosses', UNCHANGED pool, chain' = chain, level' = level, before' = before,
         allocated' \in Pages, allocated <= allocated', cursors' = <<>>,
         todo' \in Seq(Call), Only(todo', {"finally"}),
         NEW why \in {"full", "error"}, stmt' = [stmt EXCEPT !.kind = "raising", !.outcome = why]
  PROVE  PinsInv'
<1>1. TypeOK /\ StateOK /\ PhaseInv /\ pin' = pin /\ resident' = resident
  BY DEF PinsInv, pool
<1>2. /\ stmt' \in Statement /\ stmt'.kind = "raising" /\ stmt'.outcome = why
      /\ stmt'.stage = stmt.stage
  <2>1. stmt \in Statement
    BY <1>1 DEF StateOK
  <2> QED
    BY <2>1, StatementRaises
<1>3. Len(cursors') = 0 /\ cursors' \in Seq(Cursor) /\ Len(cursors') <= 2 /\ 1..Len(cursors') = {}
      /\ Len(cursors') # 2
  BY SMTT(30)
<1>4. StateOK'
  BY <1>1, <1>2, <1>3, FilesKept DEF StateOK
<1>5. PhaseInv'
  BY <1>1, <1>2, <1>3 DEF PhaseInv
<1>6. /\ Disciplined(todo', Keep') /\ Narrow(todo') /\ Allocates(todo', allocated')
      /\ \A p : ~Needed(todo', 1, p)
  BY FinallyOnly
<1>7. TodoInv'
  BY <1>3, <1>6 DEF TodoInv
<1>8. LowerInv'
  <2> SUFFICES ASSUME NEW p \in Pages PROVE pin'[p] >= Held(p)' + One(Needed(todo', 1, p))
    BY DEF LowerInv, One
  <2>1. Held(p)' = 0
    BY HeldNoneNext
  <2>2. One(Needed(todo', 1, p)) = 0
    BY <1>6 DEF One
  <2>3. pin[p] \in Nat
    BY <1>1 DEF TypeOK
  <2>4. \A x \in Nat : x >= 0 + 0
    BY SMTT(30)
  <2> QED
    BY <2>1, <2>2, <2>3, <2>4, <1>1
<1>9. UpperInv'
  BY <1>2 DEF UpperInv
<1>10. TypeOK'
  BY <1>1 DEF TypeOK
<1> QED
  BY <1>4, <1>5, <1>7, <1>8, <1>9, <1>10 DEF PinsInv

\* Who has a page pinned when another is asked for: the statements before, and at
\* two pages this one.
LEMMA FrameOwners ==
  ASSUME PinsInv, todo # <<>>, todo[1][1] \in {"fetch", "new"}
  PROVE  \E x, y : \A v \in Pages : pin[v] > 0 => before[v] > 0 \/ v = x \/ v = y
<1>1. TypeOK /\ StateOK /\ PhaseInv /\ TodoInv /\ UpperInv
  BY DEF PinsInv
<1>2. /\ todo \in Seq(Call) /\ todo[1] \in Call /\ 1 \in 1..Len(todo) /\ Narrow(todo)
      /\ Len(cursors) = 2 => Sequential(todo)
  BY <1>1, TailAt, FirstIndex DEF TodoInv
<1>3. todo[1][2] \in Pages /\ Opens(todo[1], todo[1][2])
  BY <1>2, CallShape DEF Opens
<1>4. stmt.kind \notin {"idle", "raising"}
  BY <1>1, <1>2 DEF PhaseInv, Only
<1>5. \A v, w \in Pages : Open(todo, 1, v) /\ Open(todo, 1, w) => v = w
  BY <1>2, <1>3 DEF Narrow
<1>6. Len(cursors) = 2 => \A v \in Pages : ~Open(todo, 1, v)
  BY <1>2, <1>3 DEF Sequential
<1>7. ASSUME NEW v \in Pages, pin[v] > 0
      PROVE  \/ before[v] > 0 \/ Open(todo, 1, v)
             \/ v = Page(cursors[1]) \/ (Len(cursors) = 2 /\ v = Page(cursors[2]))
  <2> SUFFICES ASSUME v # Page(cursors[1]), ~(Len(cursors) = 2 /\ v = Page(cursors[2])), ~Open(todo, 1, v)
               PROVE  before[v] > 0
    OBVIOUS
  <2>1. pin[v] <= before[v] + Held(v) + One(Open(todo, 1, v))
    BY <1>1, <1>4 DEF UpperInv
  <2>2. One(Open(todo, 1, v)) = 0
    BY DEF One
  <2>3. Held(v) = 0 + 0
    <3>1. Len(cursors) \in {0, 1, 2}
      BY <1>1, CursorPages
    <3>2. \A n \in {0, 1, 2} : 2 \in 1..n => n = 2
      BY SMTT(30)
    <3>3. HeldBy(1, v) = 0 /\ HeldBy(2, v) = 0
      BY <3>1, <3>2 DEF HeldBy
    <3> QED
      BY <3>3 DEF Held
  <2>4. pin[v] \in Nat /\ before[v] \in Nat
    BY <1>1 DEF TypeOK, StateOK
  <2>5. \A a, b \in Nat : a > 0 /\ a <= b + (0 + 0) + 0 => b > 0
    BY SMTT(30)
  <2> QED
    BY <2>1, <2>2, <2>3, <2>4, <2>5, <1>7
<1>8. CASE Len(cursors) = 2
  <2>1. \A v \in Pages : pin[v] > 0 => before[v] > 0 \/ v = Page(cursors[1]) \/ v = Page(cursors[2])
    BY <1>6, <1>7, <1>8
  <2> QED
    BY <2>1
<1>9. CASE Len(cursors) # 2 /\ \E w \in Pages : Open(todo, 1, w)
  <2>1. PICK w \in Pages : Open(todo, 1, w)
    BY <1>9
  <2> QED
    BY <2>1, <1>5, <1>7, <1>9
<1>10. CASE Len(cursors) # 2 /\ ~ \E w \in Pages : Open(todo, 1, w)
  BY <1>7, <1>10
<1> QED
  BY <1>8, <1>9, <1>10

\* Numbers have a smallest one.
LEMMA Smallest ==
  ASSUME NEW T, T \subseteq Nat, T # {}
  PROVE  \E i \in T : \A j \in T : i <= j
<1>1. IsWellFoundedOn(OpToRel(<, Nat), Nat)
  BY NatLessThanWellFounded
<1>2. PICK i \in T : \A j \in T : ~(<<j, i>> \in OpToRel(<, Nat))
  BY <1>1, WFMin
<1>3. ASSUME NEW j \in T PROVE i <= j
  <2>1. j \in Nat /\ i \in Nat
    OBVIOUS
  <2>2. j < i => <<j, i>> \in OpToRel(<, Nat)
    BY <2>1 DEF OpToRel
  <2>3. ~(j < i)
    BY <2>2, <1>2
  <2> QED
    BY <2>1, <2>3, SMTT(30)
<1> QED
  BY <1>3

\* Positions of a sequence have a first one and a last one.
LEMMA FirstLast ==
  ASSUME NEW n \in Nat, NEW T, T \subseteq 1..n, T # {}
  PROVE  /\ \E i \in T : \A j \in T : i <= j
         /\ \E i \in T : \A j \in T : j <= i
<1>1. \A i \in 1..n : i \in Nat /\ n - i \in Nat /\ i \in Int
  BY SMTT(30)
<1>2. \E i \in T : \A j \in T : i <= j
  BY <1>1, Smallest
<1>3. \E i \in T : \A j \in T : j <= i
  <2> DEFINE U == {n - i : i \in T}
  <2>1. U \subseteq Nat /\ U # {}
    BY <1>1
  <2>2. PICK u \in U : \A v \in U : u <= v
    BY <2>1, Smallest
  <2>3. PICK i \in T : u = n - i
    BY <2>2
  <2>4. ASSUME NEW j \in T PROVE j <= i
    <3>1. n - i <= n - j
      BY <2>2, <2>3
    <3>2. i \in 1..n /\ j \in 1..n
      OBVIOUS
    <3> QED
      BY <3>1, <3>2, SMTT(30)
  <2> QED
    BY <2>4
<1> QED
  BY <1>2, <1>3

\* Two calls, one after the other.
LEMMA Joined ==
  ASSUME NEW S, NEW c \in S, NEW d \in S
  PROVE  <<c>> \o <<d>> \in Seq(S) /\ IsPair(<<c>> \o <<d>>, c, d)
BY SMTT(30) DEF IsPair

\* What is called when an exception leaves the methods: the finally of a try.
LEMMA CleanupFinally ==
  ASSUME NEW s \in Seq(Call)
  PROVE  Cleanup(s) \in Seq(Call) /\ Only(Cleanup(s), {"finally"})
<1> DEFINE entered == {i \in DOMAIN s : /\ s[i][1] = "finally"
                                        /\ \A j \in DOMAIN s : s[j] # Fetch(s[i][2])}
           inner == CHOOSE i \in entered : \A j \in entered : i <= j
           outer == CHOOSE i \in entered : \A j \in entered : j <= i
<1>1. /\ Len(s) \in Nat /\ entered \subseteq 1..Len(s)
      /\ \A i \in entered : s[i] \in Call /\ s[i][1] = "finally"
  BY SeqFacts
<1>2. Cleanup(s) = IF entered = {} THEN <<>>
                   ELSE <<s[inner]>> \o (IF inner = outer THEN <<>> ELSE <<s[outer]>>)
  BY DEF Cleanup
<1>3. entered # {} => inner \in entered /\ outer \in entered
  <2> SUFFICES ASSUME entered # {} PROVE inner \in entered /\ outer \in entered
    OBVIOUS
  <2> HIDE DEF entered
  <2>1. /\ \E i \in entered : \A j \in entered : i <= j
        /\ \E i \in entered : \A j \in entered : j <= i
    BY <1>1, FirstLast
  <2> QED
    BY <2>1
<1> HIDE DEF entered, inner, outer
<1>4. CASE entered = {}
  <2>1. <<>> \in Seq(Call) /\ 1..Len(<<>>) = {}
    BY SMTT(30)
  <2> QED
    BY <2>1, <1>2, <1>4 DEF Only
<1>5. CASE entered # {}
  <2>1. PICK c, d : c = s[inner] /\ d = s[outer]
    OBVIOUS
  <2>2. c \in Call /\ c[1] = "finally" /\ d \in Call /\ d[1] = "finally"
    BY <2>1, <1>1, <1>3, <1>5
  <2>3. CASE inner = outer
    <3>1. Cleanup(s) = <<c>> \o <<>>
      BY <2>1, <2>3, <1>2, <1>5
    <3>2. <<c>> \o <<>> \in Seq(Call) /\ 1..Len(<<c>> \o <<>>) = {1} /\ (<<c>> \o <<>>)[1] = c
      BY <2>2, SMTT(30)
    <3> QED
      BY <3>1, <3>2, <2>2 DEF Only
  <2>4. CASE inner # outer
    <3>1. Cleanup(s) = <<c>> \o <<d>>
      BY <2>1, <2>4, <1>2, <1>5
    <3>2. <<c>> \o <<d>> \in Seq(Call) /\ IsPair(<<c>> \o <<d>>, c, d)
      BY <2>2, Joined
    <3> QED
      BY <3>1, <3>2, <2>2 DEF Only, IsPair
  <2> QED
    BY <2>3, <2>4
<1> QED
  BY <1>4, <1>5

-----------------------------------------------------------------------------
(* Frames can be counted *)

LEMMA PagesFinite ==
  ASSUME NEW R, R \subseteq Pages
  PROVE  IsFiniteSet(R) /\ Cardinality(R) \in Nat
<1>1. IsFiniteSet(Pages)
  <2>1. 1 \in Int /\ MaxPages \in Int
    BY PinsAssumption, SMTT(30)
  <2> QED
    BY <2>1, FS_Interval DEF Pages
<1>2. IsFiniteSet(R)
  BY <1>1, FS_Subset
<1> QED
  BY <1>2, FS_CardinalityType

\* A page in a free frame, or in that of another.
LEMMA FrameTaken ==
  ASSUME NEW R, R \subseteq Pages, NEW p, p \notin R
  PROVE  /\ Cardinality(R \cup {p}) = Cardinality(R) + 1
         /\ \A v \in R : Cardinality((R \ {v}) \cup {p}) = Cardinality(R)
<1>1. IsFiniteSet(R) /\ Cardinality(R) \in Nat
  BY PagesFinite
<1>2. Cardinality(R \cup {p}) = Cardinality(R) + 1
  BY <1>1, FS_AddElement
<1>3. ASSUME NEW v \in R PROVE Cardinality((R \ {v}) \cup {p}) = Cardinality(R)
  <2>1. IsFiniteSet(R \ {v}) /\ Cardinality(R \ {v}) = Cardinality(R) - 1
    BY <1>1, FS_RemoveElement
  <2>2. Cardinality((R \ {v}) \cup {p}) = (Cardinality(R) - 1) + 1
    BY <2>1, FS_AddElement
  <2>3. \A n \in Nat : (n - 1) + 1 = n
    BY SMTT(30)
  <2> QED
    BY <2>2, <2>3, <1>1
<1> QED
  BY <1>2, <1>3

\* Two pages more than those of a set.
LEMMA TwoMore ==
  ASSUME NEW R, NEW B, B \subseteq Pages, NEW x, NEW y, \A v \in R : v \in B \/ v = x \/ v = y
  PROVE  Cardinality(R) <= Cardinality(B) + 2 /\ Cardinality(B) \in Nat /\ Cardinality(R) \in Nat
<1> DEFINE D == B \cup {x}
           E == D \cup {y}
<1>1. IsFiniteSet(B) /\ Cardinality(B) \in Nat
  BY PagesFinite
<1>2. IsFiniteSet(D) /\ Cardinality(D) = IF x \in B THEN Cardinality(B) ELSE Cardinality(B) + 1
  BY <1>1, FS_AddElement
<1>3. R \subseteq E
  OBVIOUS
<1> HIDE DEF D
<1>4. IsFiniteSet(E) /\ Cardinality(E) = IF y \in D THEN Cardinality(D) ELSE Cardinality(D) + 1
  BY <1>2, FS_AddElement
<1> HIDE DEF E
<1>5. IsFiniteSet(R) /\ Cardinality(R) <= Cardinality(E)
  BY <1>3, <1>4, FS_Subset
<1>6. Cardinality(R) \in Nat
  BY <1>5, FS_CardinalityType
<1>7. \A b \in Nat, d, e, r \in Int : /\ d = b \/ d = b + 1
                                      /\ e = d \/ e = d + 1
                                      /\ r <= e
                                      => r <= b + 2
  BY SMTT(30)
<1>8. Cardinality(D) \in Nat /\ Cardinality(E) \in Nat
  BY <1>2, <1>4, FS_CardinalityType
<1>9. \A n \in Nat : n \in Int
  BY SMTT(30)
<1> QED
  BY <1>1, <1>2, <1>4, <1>5, <1>6, <1>7, <1>8, <1>9

\* At most two scans.
LEMMA TwoScans ==
  ASSUME NEW n \in {0, 1, 2}, NEW T, T \subseteq 1..n
  PROVE  Cardinality(T) = One(1 \in T) + One(2 \in T)
<1>1. \A i \in T : i = 1 \/ i = 2
  <2>1. \A i \in 1..n : i = 1 \/ i = 2
    BY SMTT(30)
  <2> QED
    BY <2>1
<1>2. 1 # 2 /\ 0 + 0 = 0 /\ 0 + 1 = 1 /\ 1 + 0 = 1 /\ 1 + 1 = 2
  BY SMTT(30)
<1>3. CASE 1 \notin T /\ 2 \notin T
  <2>1. T = {}
    BY <1>1, <1>3
  <2> QED
    BY <2>1, <1>2, <1>3, FS_EmptySet DEF One
<1>4. CASE 1 \in T /\ 2 \notin T
  <2>1. T = {1}
    BY <1>1, <1>4
  <2> QED
    BY <2>1, <1>2, <1>4, FS_Singleton DEF One
<1>5. CASE 1 \notin T /\ 2 \in T
  <2>1. T = {2}
    BY <1>1, <1>5
  <2> QED
    BY <2>1, <1>2, <1>5, FS_Singleton DEF One
<1>6. CASE 1 \in T /\ 2 \in T
  <2>1. T = {1} \cup {2} /\ 2 \notin {1}
    BY <1>1, <1>2, <1>6
  <2>2. IsFiniteSet({1}) /\ Cardinality({1}) = 1
    BY FS_Singleton
  <2>3. Cardinality(T) = 1 + 1
    BY <2>1, <2>2, FS_AddElement
  <2> QED
    BY <2>3, <1>6 DEF One
<1> QED
  BY <1>3, <1>4, <1>5, <1>6

-----------------------------------------------------------------------------
(* The steps that take a frame, or find none *)

\* A pinned page stays in its frame, and there is one frame for each page.
LEMMA TakeFrameType ==
  ASSUME TypeOK, NEW p \in Pages, TakeFrame(p)
  PROVE  TypeOK'
<1>1. /\ pin \in [Pages -> Nat] /\ resident \subseteq Pages /\ Cardinality(resident) <= PoolSize
      /\ \A q \in Pages : pin[q] > 0 => q \in resident
  BY DEF TypeOK
<1>2. /\ pin' = [pin EXCEPT ![p] = @ + 1] /\ PoolSize \in Nat /\ Cardinality(resident) \in Nat
  BY <1>1, PinsAssumption, PagesFinite DEF TakeFrame
<1>3. pin' \in [Pages -> Nat] /\ \A q \in Pages : q # p => pin'[q] = pin[q]
  BY <1>1, <1>2, SMTT(30)
<1>4. /\ resident' \subseteq Pages /\ p \in resident' /\ Cardinality(resident') <= PoolSize
      /\ \A q \in resident : pin[q] > 0 => q \in resident'
  <2>1. CASE p \in resident /\ resident' = resident
    BY <2>1, <1>1
  <2>2. CASE p \notin resident /\ Cardinality(resident) < PoolSize /\ resident' = resident \cup {p}
    <3>1. Cardinality(resident') = Cardinality(resident) + 1
      BY <2>2, <1>1, FrameTaken
    <3>2. \A m, n \in Nat : m < n => m + 1 <= n
      BY SMTT(30)
    <3> QED
      BY <3>1, <3>2, <2>2, <1>1, <1>2
  <2>3. CASE /\ p \notin resident
             /\ \E v \in resident : pin[v] = 0 /\ resident' = (resident \ {v}) \cup {p}
    <3>1. PICK v \in resident : pin[v] = 0 /\ resident' = (resident \ {v}) \cup {p}
      BY <2>3
    <3>2. Cardinality(resident') = Cardinality(resident)
      BY <3>1, <2>3, <1>1, FrameTaken
    <3>3. ~(0 > 0)
      BY SMTT(30)
    <3> QED
      BY <3>1, <3>2, <3>3, <1>1
  <2> QED
    BY <2>1, <2>2, <2>3 DEF TakeFrame
<1> QED
  BY <1>1, <1>3, <1>4 DEF TypeOK

\* No frame is left: the statement has two at most, the others have been pinned
\* since before it began.
LEMMA FullNeedsLosses ==
  ASSUME PinsInv, todo # <<>>, todo[1][1] \in {"fetch", "new"}, NEW p, NoFrame(p)
  PROVE  PoolSize < 3 + Cardinality({q \in Pages : before[q] > 0})
<1> DEFINE B == {q \in Pages : before[q] > 0}
<1>1. PICK x, y : \A v \in Pages : pin[v] > 0 => before[v] > 0 \/ v = x \/ v = y
  BY FrameOwners
<1>2. /\ resident \subseteq Pages /\ Cardinality(resident) = PoolSize /\ \A v \in resident : pin[v] > 0
  BY DEF NoFrame, PinsInv, TypeOK
<1>3. B \subseteq Pages /\ \A v \in resident : v \in B \/ v = x \/ v = y
  BY <1>1, <1>2
<1> HIDE DEF B
<1>4. Cardinality(resident) <= Cardinality(B) + 2 /\ Cardinality(B) \in Nat /\ Cardinality(resident) \in Nat
  BY <1>3, TwoMore
<1>5. \A r, b \in Nat : r <= b + 2 => r < 3 + b
  BY SMTT(30)
<1> QED
  BY <1>2, <1>4, <1>5 DEF B

\* fetch_page and new_page.
LEMMA CallFetchInv ==
  ASSUME PinsInv, CallFetch
  PROVE  PinsInv'
<1> DEFINE p == todo[1][2]
<1>1. /\ TypeOK /\ StateOK /\ todo \in Seq(Call) /\ todo # <<>> /\ Allocates(todo, allocated)
      /\ allocated \in Pages
  BY DEF PinsInv, TodoInv, CallFetch, StateOK
<1>2. Head(todo) = todo[1] /\ todo[1] \in Call
  BY <1>1, TailAt
<1>3. /\ todo[1][1] \in {"fetch", "new"}
      /\ allocated' = (IF todo[1][1] = "new" THEN p ELSE allocated)
      /\ chain' = chain /\ level' = level /\ before' = before
  BY <1>2 DEF CallFetch
<1>4. p \in Pages
  BY <1>2, <1>3, CallShape
<1> HIDE DEF p
<1>5. \/ TakeFrame(p) /\ todo' = Tail(todo) /\ stmt' = stmt /\ cursors' = cursors
      \/ NoFrame(p) /\ Unwind("full") /\ UNCHANGED pool
  BY <1>2 DEF CallFetch, p
<1>6. CASE TakeFrame(p) /\ todo' = Tail(todo) /\ stmt' = stmt /\ cursors' = cursors
  <2>1. TypeOK' /\ pin' = [pin EXCEPT ![p] = @ + 1]
    BY <1>1, <1>4, <1>6, TakeFrameType DEF TakeFrame
  <2> QED
    BY <2>1, <1>1, <1>3, <1>6, PageTaken DEF p
<1>7. CASE NoFrame(p) /\ Unwind("full") /\ UNCHANGED pool
  <2>1. FullOnlyAfterLosses'
    <3>1. PoolSize < 3 + Cardinality({q \in Pages : before[q] > 0})
      BY <1>1, <1>3, <1>7, FullNeedsLosses
    <3> QED
      BY <3>1, <1>3 DEF FullOnlyAfterLosses
  <2>2. allocated' \in Pages /\ allocated <= allocated'
    <3>1. todo[1][1] = "new" => p > allocated
      BY <1>1, TailAllocates DEF p
    <3>2. \A a, b \in Pages : a <= a /\ (b > a => a <= b)
      BY SMTT(30) DEF Pages
    <3> QED
      BY <3>1, <3>2, <1>1, <1>3, <1>4
  <2>3. /\ todo' = Cleanup(todo) /\ cursors' = <<>>
        /\ stmt' = [stmt EXCEPT !.kind = "raising", !.outcome = "full"]
    BY <1>7 DEF Unwind
  <2>4. todo' \in Seq(Call) /\ Only(todo', {"finally"})
    BY <2>3, <1>1, CleanupFinally
  <2> QED
    BY <2>1, <2>2, <2>3, <2>4, <1>3, <1>7, UnwindInv
<1> QED
  BY <1>5, <1>6, <1>7

\* An index entry does not fit.
LEMMA CallThrowInv ==
  ASSUME PinsInv, CallThrow
  PROVE  PinsInv'
<1>1. /\ StateOK /\ todo \in Seq(Call) /\ allocated \in Pages
  BY DEF PinsInv, TodoInv, StateOK
<1>2. /\ todo' = Cleanup(todo) /\ cursors' = <<>>
      /\ stmt' = [stmt EXCEPT !.kind = "raising", !.outcome = "error"]
      /\ UNCHANGED pool /\ chain' = chain /\ level' = level /\ allocated' = allocated /\ before' = before
  BY DEF CallThrow, Unwind, files
<1>3. allocated <= allocated
  BY <1>1, SMTT(30) DEF Pages
<1>4. FullOnlyAfterLosses'
  <2>1. stmt \in Statement
    BY <1>1 DEF StateOK
  <2>2. stmt'.outcome = "error"
    BY <2>1, <1>2, StatementRaises
  <2> QED
    BY <2>2 DEF FullOnlyAfterLosses
<1>5. todo' \in Seq(Call) /\ Only(todo', {"finally"})
  BY <1>1, <1>2, CleanupFinally
<1> QED
  BY <1>1, <1>2, <1>3, <1>4, <1>5, UnwindInv

-----------------------------------------------------------------------------
(* The theorems *)

\* The invariant holds of a database that has just been opened.
LEMMA InitInv ==
  ASSUME Init
  PROVE  PinsInv
<1>1. /\ pin = [p \in Pages |-> 0] /\ resident = {} /\ before = pin /\ level = <<>>
      /\ chain = [t \in Tables |-> IF t = "left" THEN <<1>> ELSE <<2>>]
      /\ allocated = 2 /\ stmt = Idle("ok") /\ cursors = <<>> /\ todo = <<>>
  BY DEF Init
<1>2. /\ 1 \in Pages /\ 2 \in Pages /\ 0 \in Nat /\ ~(0 > 0) /\ 0 <= PoolSize
  BY PinsAssumption, SMTT(30) DEF Pages
<1>3. TypeOK
  <2>1. Cardinality({}) = 0
    BY FS_EmptySet
  <2> QED
    BY <2>1, <1>1, <1>2 DEF TypeOK
<1>4. /\ stmt \in Statement /\ stmt.kind = "idle" /\ stmt.outcome = "ok" /\ stmt.stage = "none"
  BY <1>1, SMTT(30) DEF Idle, Statement, Kinds
<1>5. /\ <<>> \in Seq(Cursor) /\ <<>> \in Seq(SUBSET Pages) /\ Len(<<>>) <= 2 /\ 1..Len(<<>>) = {}
      /\ Len(<<>>) # 2
  BY SMTT(30)
<1>6. StateOK
  <2>1. \A p \in Pages : /\ <<p>> \in Seq(Pages) /\ Len(<<p>>) > 0 /\ 1..Len(<<p>>) = {1} /\ <<p>>[1] = p
    BY SMTT(30)
  <2>2. 1 <= 2 /\ 2 <= 2
    BY SMTT(30)
  <2>3. ASSUME NEW t \in Tables
        PROVE  chain[t] \in Seq(Pages) /\ Len(chain[t]) > 0 /\ \A i \in 1..Len(chain[t]) : chain[t][i] <= allocated
    BY <2>1, <2>2, <1>1, <1>2
  <2>4. chain \in [Tables -> Seq(Pages)]
    BY <2>1, <1>1, <1>2
  <2> QED
    BY <2>3, <2>4, <1>1, <1>2, <1>4, <1>5 DEF StateOK
<1>7. PhaseInv
  BY <1>1, <1>4, <1>5 DEF PhaseInv
<1>8. \A keep : Method(<<>>, keep)
  BY NoCalls
<1>9. TodoInv
  BY <1>1, <1>5, <1>8 DEF TodoInv, Method, Allocates
<1>10. ASSUME NEW p \in Pages
       PROVE  Held(p) = 0 /\ ~Open(todo, 1, p) /\ ~Needed(todo, 1, p) /\ pin[p] = 0 /\ before[p] = 0
  BY <1>1, <1>6, <1>8, HeldNone DEF Method, Fresh
<1>11. LowerInv /\ UpperInv
  <2>1. 0 >= 0 + 0 /\ 0 <= 0 + 0 + 0
    BY SMTT(30)
  <2> QED
    BY <2>1, <1>10 DEF LowerInv, UpperInv, One
<1>12. FullOnlyAfterLosses
  BY <1>4 DEF FullOnlyAfterLosses
<1> QED
  BY <1>3, <1>6, <1>7, <1>9, <1>11, <1>12 DEF PinsInv

\* Nothing changes.
LEMMA StutterInv ==
  ASSUME PinsInv, UNCHANGED vars
  PROVE  PinsInv'
<1>1. /\ pin' = pin /\ resident' = resident /\ chain' = chain /\ level' = level
      /\ allocated' = allocated /\ stmt' = stmt /\ cursors' = cursors /\ todo' = todo /\ before' = before
  BY DEF vars
<1>2. TypeOK' /\ StateOK' /\ PhaseInv' /\ FullOnlyAfterLosses'
  BY <1>1 DEF PinsInv, TypeOK, StateOK, PhaseInv, FullOnlyAfterLosses
<1>3. Keep' = Keep /\ (Pending' <=> Pending) /\ \A i : Page(cursors[i])' = Page(cursors[i])
  BY <1>1 DEF Keep, Pending, Top, Page
<1>4. \A p : Held(p)' = Held(p)
  BY <1>1, <1>3, SameHeld
<1> QED
  BY <1>1, <1>2, <1>3, <1>4 DEF PinsInv, TodoInv, LowerInv, UpperInv, One

\* Every step of the statements preserves the invariant.
LEMMA NextInv ==
  ASSUME PinsInv, [Next]_vars
  PROVE  PinsInv'
<1>1. CASE Start
  BY <1>1, StartInv
<1>2. CASE StartCreateIndex
  BY <1>2, StartCreateIndexInv
<1>3. CASE CallFetch
  BY <1>3, CallFetchInv
<1>4. CASE CallUnpin
  BY <1>4, CallUnpinInv
<1>5. CASE CallUse
  BY <1>5, CallUseInv
<1>6. CASE CallThrow
  BY <1>6, CallThrowInv
<1>7. CASE OpenScan
  BY <1>7, OpenScanInv
<1>8. CASE OpenIndexScan
  BY <1>8, OpenIndexScanInv
<1>9. CASE NextRow
  BY <1>9, NextRowInv
<1>10. CASE NextPage
  BY <1>10, NextPageInv
<1>11. CASE DropScans
  BY <1>11, DropScansInv
<1>12. CASE ChangeHeap
  BY <1>12, ChangeHeapInv
<1>13. CASE CheckUnique
  BY <1>13, CheckUniqueInv
<1>14. CASE ChangeIndex
  BY <1>14, ChangeIndexInv
<1>15. CASE Finish
  BY <1>15, FinishInv
<1>16. CASE UNCHANGED vars
  BY <1>16, StutterInv
<1> QED
  BY <1>1, <1>2, <1>3, <1>4, <1>5, <1>6, <1>7, <1>8, <1>9, <1>10, <1>11, <1>12, <1>13, <1>14,
     <1>15, <1>16 DEF Next, Running

\* The inductive invariant, in every state of the statements.
THEOREM PinsAlways == Spec => []PinsInv
<1>1. Init => PinsInv
  BY InitInv
<1>2. PinsInv /\ [Next]_vars => PinsInv'
  BY NextInv
<1> QED
  BY <1>1, <1>2, PTL DEF Spec

\* No frame is given away while its page is pinned, and there are no more resident
\* pages than frames (TypeOK), whatever statements are run.
THEOREM FramesOfPinned == Spec => []TypeOK
<1>1. PinsInv => TypeOK
  BY DEF PinsInv
<1> QED
  BY <1>1, PinsAlways, PTL

\* A page that a call needs has the pin for it.
LEMMA NeededPinned ==
  ASSUME PinsInv, todo # <<>>, Head(todo)[1] = "use"
  PROVE  pin[Head(todo)[2]] > 0
<1>1. todo \in Seq(Call)
  BY DEF PinsInv, TodoInv
<1>2. Head(todo) = todo[1] /\ todo[1] \in Call
  BY <1>1, TailAt
<1>3. PICK p : p = todo[1][2]
  OBVIOUS
<1>4. p \in Pages
  BY <1>2, <1>3, CallShape
<1>5. Needed(todo, 1, p)
  <2>1. Needs(todo[1], p)
    BY <1>2, <1>3 DEF Needs
  <2> QED
    BY <2>1, <1>1, FirstCall
<1>6. pin[p] >= Held(p) + 1 /\ pin[p] \in Nat /\ Held(p) \in Nat
  BY <1>4, <1>5, HeldNat DEF PinsInv, LowerInv, TypeOK, One
<1>7. \A x, h \in Nat : x >= h + 1 => x > 0
  BY SMTT(30)
<1> QED
  BY <1>2, <1>3, <1>6, <1>7

\* The scans have a pin each on the page they are at.
LEMMA ScansPinned ==
  ASSUME PinsInv, NEW p \in Pages, \A i \in DOMAIN todo : todo[i] # Fetch(p)
  PROVE  Cardinality({i \in DOMAIN cursors : Page(cursors[i]) = p}) <= pin[p]
<1> DEFINE scans == {i \in DOMAIN cursors : Page(cursors[i]) = p}
<1>1. StateOK /\ todo \in Seq(Call) /\ cursors \in Seq(Cursor)
  BY DEF PinsInv, TodoInv, StateOK
<1>2. Len(cursors) \in {0, 1, 2} /\ DOMAIN cursors = 1..Len(cursors)
  BY <1>1, CursorPages, SeqFacts
<1>3. ASSUME Pending PROVE Page(cursors[Len(cursors)]) # p
  <2>1. todo # <<>> /\ todo[Len(todo)] = Fetch(Page(cursors[Len(cursors)]))
    BY <1>3 DEF Pending, Top
  <2>2. Len(todo) \in Nat /\ Len(todo) # 0 /\ DOMAIN todo = 1..Len(todo)
    BY <2>1, <1>1, SeqFacts
  <2>3. \A n \in Nat : n # 0 => n \in 1..n
    BY SMTT(30)
  <2> QED
    BY <2>1, <2>2, <2>3
<1>4. HeldBy(1, p) = One(1 \in scans) /\ HeldBy(2, p) = One(2 \in scans)
  BY <1>2, <1>3 DEF HeldBy, One
<1>5. scans \subseteq 1..Len(cursors)
  BY <1>2
<1> HIDE DEF scans
<1>6. Cardinality(scans) = One(1 \in scans) + One(2 \in scans)
  BY <1>2, <1>5, TwoScans
<1>7. Cardinality(scans) = Held(p)
  BY <1>4, <1>6 DEF Held
<1>8. pin[p] >= Held(p) + One(Needed(todo, 1, p)) /\ pin[p] \in Nat /\ Held(p) \in Nat
  BY HeldNat DEF PinsInv, LowerInv, TypeOK
<1>9. \A x, h \in Nat, n \in {0, 1} : x >= h + n => h <= x
  BY SMTT(30)
<1>10. One(Needed(todo, 1, p)) \in {0, 1}
  BY DEF One
<1> QED
  BY <1>7, <1>8, <1>9, <1>10 DEF scans

\* PinnedWhileUsed: bytes are read and written only while their page is pinned, and a
\* suspended scan or join has its own pins still, whatever the methods in between
\* release: the second unpin of HeapFile.insert, a rescan, a split of the tree.
THEOREM UsedPagesPinned == Spec => []PinnedWhileUsed
<1>1. PinsInv => PinnedWhileUsed
  BY NeededPinned, ScansPinned DEF PinnedWhileUsed
<1> QED
  BY <1>1, PinsAlways, PTL

\* StatementsUnpin: a statement that ends in the ordinary way has released every page
\* it pinned.
THEOREM OrdinaryEndUnpins == Spec => []StatementsUnpin
<1>1. ASSUME PinsInv, stmt.kind = "idle", stmt.outcome = "ok", NEW p \in Pages
      PROVE  pin[p] <= before[p]
  <2>1. todo = <<>> /\ cursors = <<>> /\ StateOK
    BY <1>1 DEF PinsInv, PhaseInv
  <2>2. Held(p) = 0
    BY <2>1, HeldNone
  <2>3. ~Open(todo, 1, p)
    BY <2>1, NoCalls DEF Method, Fresh
  <2>4. pin[p] <= before[p] + 0 + 0
    BY <2>2, <2>3, <1>1 DEF PinsInv, UpperInv, One
  <2>5. before[p] \in Nat
    BY <2>1 DEF StateOK
  <2>6. \A b \in Nat : b + 0 + 0 = b
    BY SMTT(30)
  <2> QED
    BY <2>4, <2>5, <2>6
<1>2. PinsInv => StatementsUnpin
  BY <1>1 DEF StatementsUnpin
<1> QED
  BY <1>2, PinsAlways, PTL

\* FullOnlyAfterLosses: a pool with three frames more than there are pages left
\* pinned is never full, whatever the statement.
THEOREM ThreeFramesSuffice == Spec => []FullOnlyAfterLosses
<1>1. PinsInv => FullOnlyAfterLosses
  BY DEF PinsInv
<1> QED
  BY <1>1, PinsAlways, PTL

=============================================================================
