--------------------------- MODULE RecoveryProofs ---------------------------
(***************************************************************************)
(* The third layer of the invariants of Database.tla: what the log and the *)
(* last checkpoint say about the heap and the index is kept by every step, *)
(* so that replaying the log gives back what the commits promised.         *)
(***************************************************************************)
EXTENDS DatabaseProofs

\* Most leaves need first-order and set reasoning only: they go to Zenon, the others
\* name their prover.
USE ZenonT(30)

-----------------------------------------------------------------------------
(* A running database: transactions write and abort *)

\* The logged operations when t writes: those of the row, or none of t if it aborts.
LEMMA WriteOps ==
  ASSUME BaseInv, phase = "up", NEW t \in Xids, NEW d, NEW n, NEW new, NEW more,
         WriteStep(t, d, n, new, more)
  PROVE  /\ CommittedTxns(wal)' = CommittedTxns(wal) /\ t \in activeXids /\ t \notin CommittedTxns(wal)
         /\ Len(Log) \in Nat /\ DOMAIN more = 1..Len(more) /\ Len(more) \in Nat
         /\ \A kind : \A i \in Ops(kind) : Log'[i] = Log[i] /\ i \in 1..Len(Log) /\ Log[i].txn \in Live
         /\ \A k \in 1..Len(more) : Log'[Len(Log) + k] = more[k] /\ more[k].txn = t
         /\ abort(t) => /\ Live' = Live \ {t} /\ abortedXids' = abortedXids \cup {t}
                        /\ \A kind, i : i \in Ops(kind)' <=> i \in Ops(kind) /\ Log[i].txn \in Live'
         /\ ~abort(t) => /\ Live' = Live /\ abortedXids' = abortedXids
                         /\ \A kind, i : i \in Ops(kind)' <=>
                              \/ i \in Ops(kind)
                              \/ \E k \in 1..Len(more) : i = Len(Log) + k /\ more[k].type = "OP" /\ more[k].op.kind = kind
<1> DEFINE C == CommittedTxns(wal)
<1>1. C' = C /\ t \in activeXids /\ t \notin C
  BY WriteBase
<1>2. Logged(t, d, n, new, more) /\ Buffer(more) /\ (abort(t) \/ UNCHANGED txnVars)
  BY DEF WriteStep
<1>3. /\ more \in Seq(LogRecord)
      /\ \A k \in DOMAIN more : more[k].txn = t /\ more[k].type \in {"OP", "ABORT"}
  BY <1>2 DEF Logged
<1>4. \A k \in DOMAIN more : more[k].type # "CHECKPOINT"
  BY <1>3
<1>5. /\ Len(Log) \in Nat /\ Len(more) \in Nat /\ DOMAIN more = 1..Len(more)
      /\ \A kind, i : i \in Ops(kind)' <=>
           \/ /\ i \in SinceLastCheckpoint(Log) /\ Log[i].type = "OP" /\ Log[i].op.kind = kind
              /\ Log[i].txn \in Live'
           \/ \E k \in 1..Len(more) : /\ i = Len(Log) + k /\ more[k].type = "OP" /\ more[k].op.kind = kind
                                      /\ more[k].txn \in Live'
      /\ \A i \in SinceLastCheckpoint(Log) : Log'[i] = Log[i] /\ i \in 1..Len(Log)
      /\ \A k \in 1..Len(more) : Log'[Len(Log) + k] = more[k]
  BY <1>2, <1>3, <1>4, OpsGrow
<1>6. \A kind, i : i \in Ops(kind) <=>
        i \in SinceLastCheckpoint(Log) /\ Log[i].type = "OP" /\ Log[i].op.kind = kind /\ Log[i].txn \in Live
  BY DEF Ops
<1>7. \A kind : \A i \in Ops(kind) : Log'[i] = Log[i] /\ i \in 1..Len(Log) /\ Log[i].txn \in Live
  BY <1>5, <1>6
<1>8. \A k \in 1..Len(more) : more[k].txn = t
  BY <1>3, <1>5
<1>9. ASSUME abort(t)
      PROVE  /\ Live' = Live \ {t} /\ abortedXids' = abortedXids \cup {t}
             /\ \A kind, i : i \in Ops(kind)' <=> i \in Ops(kind) /\ Log[i].txn \in Live'
  <2>1. activeXids' = activeXids \ {t} /\ abortedXids' = abortedXids \cup {t}
    BY <1>9 DEF abort
  <2>2. Live' = Live \ {t}
    BY <1>1, <2>1 DEF Live
  <2> QED
    BY SMTT(30), <1>5, <1>6, <1>8, <2>1, <2>2
<1>10. ASSUME ~abort(t)
       PROVE  /\ Live' = Live /\ abortedXids' = abortedXids
              /\ \A kind, i : i \in Ops(kind)' <=>
                   \/ i \in Ops(kind)
                   \/ \E k \in 1..Len(more) : i = Len(Log) + k /\ more[k].type = "OP" /\ more[k].op.kind = kind
  <2>1. activeXids' = activeXids /\ abortedXids' = abortedXids
    BY <1>2, <1>10 DEF txnVars
  <2>2. Live' = Live /\ t \in Live
    BY <1>1, <2>1 DEF Live
  <2> QED
    BY SMTT(30), <1>5, <1>6, <1>8, <2>1, <2>2
<1> QED
  BY <1>1, <1>5, <1>7, <1>8, <1>9, <1>10

\* A version that t stamps is of a committed transaction or its own, and bears no stamp
\* that counts other than its own.
LEMMA StampTarget ==
  ASSUME BaseInv, phase = "up", HeapIds, NEW t \in activeXids, NEW r \in Visible(SnapshotOf(t)),
         MayStamp(t, heap[r].xmax)
  PROVE  /\ r \in 1..Len(heap) /\ heap[r].xmin \in CommittedTxns(wal) \cup {t}
         /\ heap[r].xmax \in Live => heap[r].xmax = t
         /\ heap[r].xmax \notin CommittedTxns(wal)
<1> DEFINE C == CommittedTxns(wal)
<1>1. /\ heap \in Seq(Row) /\ DOMAIN heap = 1..Len(heap) /\ abortedXids \subseteq Xids /\ activeXids \subseteq Xids
  BY SMTT(30) DEF BaseInv, StoreTypeOK, TypeOK
<1>2. /\ \A x \in Xids : state[x] = "committed" <=> x \in C
      /\ activeXids = {x \in Xids : state[x] = "active"}
      /\ \A x \in abortedXids : state[x] = "aborted"
  BY DEF BaseInv, ManagerInv
<1>3. C \subseteq Xids /\ INFINITY_TXN \notin C /\ INFINITY_TXN \notin Xids
  <2>1. INFINITY_TXN \notin Xids
    BY SMTT(30), ConstantsAssumption DEF INFINITY_TXN, Xids
  <2> QED
    BY <2>1, CommittedAreXids DEF BaseInv, StoreTypeOK
<1>4. r \in 1..Len(heap) /\ heap[r].xmin \notin abortedXids
      /\ (heap[r].xmin = t \/ (heap[r].xmin < t /\ heap[r].xmin \notin snapshot[t]))
  BY <1>1 DEF Visible, IsVisible, CommittedBefore, SnapshotOf
<1>5. /\ heap[r].xmin \in C \cup activeXids \cup abortedXids
      /\ \A u \in activeXids : u < t => u \in snapshot[t]
  BY <1>4 DEF HeapIds, Live, BaseInv, OlderInv
<1>6. heap[r].xmax = INFINITY_TXN \/ heap[r].xmax = t \/ heap[r].xmax \in abortedXids
  BY DEF MayStamp
<1> HIDE DEF C
<1>7. heap[r].xmin \in C \cup {t}
  BY <1>4, <1>5
<1>8. heap[r].xmax = t \/ heap[r].xmax \notin C \cup activeXids
  BY <1>1, <1>2, <1>3, <1>6
<1>9. t \notin C
  BY <1>1, <1>2
<1> QED
  BY <1>4, <1>7, <1>8, <1>9 DEF Live, C

\* The heap after t has stamped the versions in d and appended n.
LEMMA HeapAfter ==
  ASSUME heap \in Seq(Row), NEW t, NEW d, NEW n \in {0, 1}, Writes(t, d, n)
  PROVE  /\ Len(heap) \in Nat /\ Len(heap') \in Nat /\ Len(heap) <= Len(heap')
         /\ \A r \in 1..Len(heap) :
              /\ r \in 1..Len(heap') /\ heap'[r].xmin = heap[r].xmin /\ heap'[r].val = heap[r].val
              /\ heap'[r].xmax = IF r \in d THEN t ELSE heap[r].xmax
         /\ \A r \in 1..Len(heap') : \/ r \in 1..Len(heap)
                                     \/ n = 1 /\ r = NewRid /\ heap'[r].xmin = t /\ heap'[r].xmax = INFINITY_TXN
         /\ n = 1 => NewRid \in 1..Len(heap') /\ heap'[NewRid].xmin = t /\ heap'[NewRid].xmax = INFINITY_TXN
<1>1. /\ Len(heap) \in Nat /\ Len(heap') = Len(heap) + n /\ heap' \in Seq(Row)
      /\ \A r \in 1..Len(heap) : heap'[r] = IF r \in d THEN WithXmax(heap[r], t) ELSE heap[r]
      /\ n = 1 => heap'[NewRid].xmin = t /\ heap'[NewRid].xmax = INFINITY_TXN
  BY SMTT(30) DEF Writes, NewRid
<1>2. /\ Len(heap') \in Nat /\ Len(heap) <= Len(heap')
      /\ 1..Len(heap) \subseteq 1..Len(heap')
      /\ \A r \in 1..Len(heap') : r \in 1..Len(heap) \/ (n = 1 /\ r = NewRid)
      /\ n = 1 => NewRid \in 1..Len(heap')
  BY SMTT(30), <1>1 DEF NewRid
<1>3. \A r \in 1..Len(heap) : /\ heap'[r].xmin = heap[r].xmin /\ heap'[r].val = heap[r].val
                              /\ heap'[r].xmax = IF r \in d THEN t ELSE heap[r].xmax
  <2>1. ASSUME NEW r \in 1..Len(heap)
        PROVE  /\ heap'[r].xmin = heap[r].xmin /\ heap'[r].val = heap[r].val
               /\ heap'[r].xmax = IF r \in d THEN t ELSE heap[r].xmax
    <3>1. heap'[r] = IF r \in d THEN WithXmax(heap[r], t) ELSE heap[r]
      BY <1>1
    <3> QED
      BY SMTT(30), <3>1 DEF WithXmax
  <2> QED
    BY <2>1
<1>4. \A r \in 1..Len(heap') : \/ r \in 1..Len(heap)
                               \/ n = 1 /\ r = NewRid /\ heap'[r].xmin = t /\ heap'[r].xmax = INFINITY_TXN
  BY <1>1, <1>2
<1>5. \A r \in 1..Len(heap) : r \in 1..Len(heap')
  BY <1>2
<1>6. n = 1 => NewRid \in 1..Len(heap') /\ heap'[NewRid].xmin = t /\ heap'[NewRid].xmax = INFINITY_TXN
  BY <1>1, <1>2
<1>7. Len(heap) \in Nat /\ Len(heap') \in Nat /\ Len(heap) <= Len(heap')
  BY <1>1, <1>2
<1> QED
  BY <1>3, <1>4, <1>5, <1>6, <1>7

\* A transaction aborts, perhaps with the last row it wrote.
LEMMA AbortRecovery ==
  ASSUME BaseInv, phase = "up", LoggedInv, AppliedInv, UNCHANGED <<replay, ckpt>>,
         NEW t \in Xids, NEW d, NEW n \in {0, 1}, NEW new, NEW more, WriteStep(t, d, n, new, more), abort(t)
  PROVE  LoggedInv' /\ AppliedInv' /\ \A v : Survivors(v)' = Survivors(v)
<1> DEFINE C == CommittedTxns(wal)
           ins == Ops("heap_insert")
           stamps == Ops("heap_set_xmax")
<1>1. /\ C' = C /\ t \in activeXids /\ t \notin C
      /\ \A kind : \A i \in Ops(kind) : Log'[i] = Log[i] /\ Log[i].txn \in Live
      /\ Live' = Live \ {t} /\ abortedXids' = abortedXids \cup {t}
      /\ \A kind, i : i \in Ops(kind)' <=> i \in Ops(kind) /\ Log[i].txn \in Live'
  BY WriteOps
<1>2. /\ Writes(t, d, n) /\ index' = index \cup new /\ failed \subseteq failed'
      /\ new # {} => n = 1 /\ new = {NewEntry}
  BY DEF WriteStep
<1>3. heap \in Seq(Row) /\ ckpt.heap \in Seq(Row) /\ replay = {} /\ replay' = {} /\ ckpt' = ckpt
  BY DEF BaseInv, StoreTypeOK, TypeOK, PhaseInv
<1>4. /\ Len(heap) \in Nat /\ Len(heap') \in Nat /\ Len(heap) <= Len(heap')
      /\ \A r \in 1..Len(heap) :
           /\ r \in 1..Len(heap') /\ heap'[r].xmin = heap[r].xmin /\ heap'[r].val = heap[r].val
           /\ heap'[r].xmax = IF r \in d THEN t ELSE heap[r].xmax
      /\ \A r \in 1..Len(heap') : \/ r \in 1..Len(heap)
                                  \/ n = 1 /\ r = NewRid /\ heap'[r].xmin = t /\ heap'[r].xmax = INFINITY_TXN
      /\ n = 1 => NewRid \in 1..Len(heap') /\ heap'[NewRid].xmin = t
  BY SMTT(30), <1>2, <1>3, HeapAfter
<1>5. /\ StampsLogged /\ EntriesLogged /\ CkptIndexed
      /\ CkptIds /\ RowsApplied /\ StampsApplied /\ EntriesApplied /\ HeapIds
  BY DEF LoggedInv, AppliedInv
<1>6. \A r \in d : heap[r].xmax \notin C /\ (heap[r].xmax \in Live => heap[r].xmax = t)
  BY <1>1, <1>2, <1>5, StampTarget DEF Writes
<1>7. C \subseteq Live' /\ \A x : Indexed(x)' => Indexed(x)
  BY <1>1, <1>2 DEF Live, Indexed, Indexable
<1>8. LoggedInv'
  <2>1. StampsLogged' /\ EntriesLogged' /\ CkptIndexed'
    BY <1>1, <1>3, <1>5, <1>7, KeepLogged
  <2> QED
    BY <2>1 DEF LoggedInv
<1>9. CkptIds'
  BY <1>1, <1>3, <1>5 DEF CkptIds
<1>10. \A v : Survivors(v)' = Survivors(v)
  BY <1>1, <1>3, <1>7, KeepSurvivors
<1>11. INFINITY_TXN \notin Live
  <2>1. INFINITY_TXN \notin Xids /\ activeXids \subseteq Xids
    BY SMTT(30), ConstantsAssumption DEF INFINITY_TXN, Xids, BaseInv, StoreTypeOK, TypeOK
  <2> QED
    BY <2>1, CommittedAreXids DEF Live, BaseInv, StoreTypeOK
<1>12. Len(ckpt.heap) \in Nat /\ Len(ckpt.heap) <= Len(heap)
  BY SMTT(30), <1>3, <1>5 DEF RowsApplied
<1>13. RowsApplied'
  <2>1. Len(ckpt'.heap) <= Len(heap')
    BY SMTT(30), <1>3, <1>4, <1>12
  <2>2. ASSUME NEW r \in 1..Len(ckpt.heap)
        PROVE  /\ heap'[r].xmin = ckpt.heap[r].xmin /\ heap'[r].val = ckpt.heap[r].val
               /\ ckpt.heap[r].xmax \in C => heap'[r].xmax = ckpt.heap[r].xmax
    <3>1. r \in 1..Len(heap)
      BY SMTT(30), <1>4, <1>12
    <3>2. /\ heap[r].xmin = ckpt.heap[r].xmin /\ heap[r].val = ckpt.heap[r].val
          /\ ckpt.heap[r].xmax \in C => heap[r].xmax = ckpt.heap[r].xmax
      BY <1>5 DEF RowsApplied
    <3> HIDE DEF C
    <3> QED
      BY <1>4, <1>6, <3>1, <3>2
  <2>3. \A i \in ins : /\ Log[i].op.rid \in 1..Len(heap)
                       /\ heap[Log[i].op.rid].xmin = Log[i].txn
                       /\ heap[Log[i].op.rid].val = Log[i].op.tuple.val
    BY <1>3, <1>5 DEF RowsApplied
  <2>4. \A r \in 1..Len(heap) : r > Len(ckpt.heap) /\ heap[r].xmin \in Live => \E i \in ins : Log[i].op.rid = r
    BY <1>3, <1>5 DEF RowsApplied
  <2> HIDE DEF C, ins
  <2>5. \A i : i \in ins' <=> i \in ins /\ Log[i].txn \in Live'
    BY <1>1 DEF ins
  <2>6. \A i \in ins : Log'[i] = Log[i]
    BY <1>1 DEF ins
  <2>7. \A i \in ins' : /\ Log'[i].op.rid \in 1..Len(heap')
                        /\ heap'[Log'[i].op.rid].xmin = Log'[i].txn
                        /\ heap'[Log'[i].op.rid].val = Log'[i].op.tuple.val
    <3> SUFFICES ASSUME NEW i \in ins'
                 PROVE  /\ Log'[i].op.rid \in 1..Len(heap')
                        /\ heap'[Log'[i].op.rid].xmin = Log'[i].txn
                        /\ heap'[Log'[i].op.rid].val = Log'[i].op.tuple.val
      OBVIOUS
    <3>1. i \in ins /\ Log'[i] = Log[i]
      BY <2>5, <2>6
    <3>2. PICK r \in 1..Len(heap) : /\ r = Log[i].op.rid
                                    /\ heap[r].xmin = Log[i].txn /\ heap[r].val = Log[i].op.tuple.val
      BY <2>3, <3>1
    <3>3. r \in 1..Len(heap') /\ heap'[r].xmin = heap[r].xmin /\ heap'[r].val = heap[r].val
      BY <1>4
    <3> QED
      BY <3>1, <3>2, <3>3
  <2>8. ASSUME NEW r \in 1..Len(heap'), r > Len(ckpt.heap), heap'[r].xmin \in Live'
        PROVE  \E i \in ins' : Log'[i].op.rid = r
    <3>1. r \in 1..Len(heap) /\ heap[r].xmin \in Live' /\ heap[r].xmin \in Live
      BY <1>1, <1>4, <2>8
    <3>2. PICK i \in ins : Log[i].op.rid = r
      BY <2>4, <2>8, <3>1
    <3> QED
      BY <2>3, <2>5, <2>6, <3>1, <3>2
  <2>9. \A r \in 1..Len(ckpt.heap) :
          /\ heap'[r].xmin = ckpt.heap[r].xmin /\ heap'[r].val = ckpt.heap[r].val
          /\ ckpt.heap[r].xmax \in C' => heap'[r].xmax = ckpt.heap[r].xmax
    BY <1>1, <2>2
  <2> QED
    BY <1>3, <2>1, <2>7, <2>8, <2>9 DEF RowsApplied, C, ins
<1>14. StampsApplied'
  <2>1. \A i \in stamps : Log[i].op.rid \in 1..Len(heap) /\ heap[Log[i].op.rid].xmax = Log[i].txn
    BY <1>3, <1>5 DEF StampsApplied
  <2>2. \A r \in 1..Len(heap) : heap[r].xmax \in Live =>
          (\E i \in stamps : Log[i].op.rid = r) \/ (r <= Len(ckpt.heap) /\ ckpt.heap[r].xmax = heap[r].xmax)
    BY <1>3, <1>5 DEF StampsApplied
  <2> HIDE DEF C, stamps
  <2>3. \A i : i \in stamps' <=> i \in stamps /\ Log[i].txn \in Live'
    BY <1>1 DEF stamps
  <2>4. \A i \in stamps : Log'[i] = Log[i]
    BY <1>1 DEF stamps
  <2>5. \A i \in stamps' : Log'[i].op.rid \in 1..Len(heap') /\ heap'[Log'[i].op.rid].xmax = Log'[i].txn
    <3> SUFFICES ASSUME NEW i \in stamps'
                 PROVE  Log'[i].op.rid \in 1..Len(heap') /\ heap'[Log'[i].op.rid].xmax = Log'[i].txn
      OBVIOUS
    <3>1. i \in stamps /\ Log[i].txn \in Live /\ Log[i].txn # t
      BY <1>1, <2>3
    <3>2. Log[i].op.rid \notin d
      BY <1>6, <2>1, <3>1
    <3> QED
      BY SMTT(30), <1>4, <2>1, <2>4, <3>1, <3>2
  <2>6. ASSUME NEW r \in 1..Len(heap'), heap'[r].xmax \in Live'
        PROVE  (\E i \in stamps' : Log'[i].op.rid = r) \/ (r <= Len(ckpt.heap) /\ ckpt.heap[r].xmax = heap'[r].xmax)
    <3>1. r \in 1..Len(heap) /\ heap'[r].xmax = heap[r].xmax /\ heap[r].xmax \in Live
      BY <1>1, <1>4, <1>11, <2>6
    <3>2. CASE \E i \in stamps : Log[i].op.rid = r
      <4>1. PICK i \in stamps : Log[i].op.rid = r
        BY <3>2
      <4>2. i \in stamps' /\ Log'[i].op.rid = r
        BY <2>1, <2>3, <2>4, <2>6, <3>1, <4>1
      <4> QED
        BY <4>2
    <3> QED
      BY <2>2, <3>1, <3>2
  <2> QED
    BY <1>3, <2>5, <2>6 DEF StampsApplied, stamps
<1>15. EntriesApplied'
  <2>1. \A e \in index : e.rid \in 1..Len(heap) /\ heap[e.rid].val = e.key
    BY <1>5 DEF EntriesApplied
  <2>2. \A r \in 1..Len(heap) : heap[r].xmin \in Live /\ Indexed(heap[r].xmin) => EntryFor(heap[r], r) \in index
    BY <1>3, <1>5 DEF EntriesApplied
  <2>3. new # {} => NewEntry.rid = NewRid /\ NewEntry.key = heap'[NewRid].val
    BY DEF NewEntry
  <2>4. \A e \in index' : e.rid \in 1..Len(heap') /\ heap'[e.rid].val = e.key
    BY <1>2, <1>4, <2>1, <2>3
  <2>5. ASSUME NEW r \in 1..Len(heap'), heap'[r].xmin \in Live', Indexed(heap[r].xmin)'
        PROVE  EntryFor(heap[r], r)' \in index'
    <3>1. r \in 1..Len(heap) /\ heap[r].xmin \in Live
      BY <1>1, <1>4, <2>5
    <3>2. heap'[r].xmin = heap[r].xmin /\ heap'[r].val = heap[r].val
      BY <1>4, <3>1
    <3>3. Indexed(heap[r].xmin)
      BY <1>2, <2>5, <3>2 DEF Indexed, Indexable
    <3>4. EntryFor(heap[r], r)' = EntryFor(heap[r], r)
      BY <3>2 DEF EntryFor
    <3> QED
      BY <1>2, <2>2, <3>1, <3>3, <3>4
  <2> QED
    BY <2>4, <2>5 DEF EntriesApplied
<1>16. HeapIds'
  <2>1. \A r \in 1..Len(heap) : heap[r].xmin \in Live \cup abortedXids /\ heap[r].xmax \in Live \cup abortedXids \cup {INFINITY_TXN}
    BY <1>5 DEF HeapIds
  <2>2. \A r \in 1..Len(heap') : heap'[r].xmin \in Live' \cup abortedXids' /\ heap'[r].xmax \in Live' \cup abortedXids' \cup {INFINITY_TXN}
    BY <1>1, <1>4, <2>1
  <2> QED
    BY <2>2 DEF HeapIds
<1> QED
  BY <1>8, <1>9, <1>10, <1>13, <1>14, <1>15, <1>16 DEF AppliedInv

\* The operations that t logs, by kind.
NewInsert(i, t) ==
  Log'[i].txn = t /\ Log'[i].op.rid = NewRid /\ Log'[i].op.tuple.val = heap'[NewRid].val /\ i > Len(Log)

NewStamp(i, t, d) ==
  Log'[i].txn = t /\ Log'[i].op.rid \in d /\ i \in Nat /\ i > Len(Log)

NewEntryOp(i, t) ==
  Log'[i].txn = t /\ Log'[i].op.rid = NewRid /\ Log'[i].op.key = heap'[NewRid].val

\* What a write adds to the logged operations of each kind.
WriteAddsOps(t, d, n, new) ==
  /\ \A kind : Ops(kind) \subseteq Ops(kind)' /\ \A i \in Ops(kind) : Log'[i] = Log[i] /\ i \in 1..Len(Log)
  /\ \A i \in Ops("heap_insert")' : i \in Ops("heap_insert") \/ (n = 1 /\ NewInsert(i, t))
  /\ n = 1 => \E i \in Ops("heap_insert")' : NewInsert(i, t)
  /\ \A i \in Ops("heap_set_xmax")' : i \in Ops("heap_set_xmax") \/ NewStamp(i, t, d)
  /\ \A r \in d : \E i \in Ops("heap_set_xmax")' : NewStamp(i, t, d) /\ Log'[i].op.rid = r
  /\ \A i \in Ops("btree_insert")' :
       \/ i \in Ops("btree_insert")
       \/ /\ n = 1 /\ new = {NewEntry} /\ NewEntryOp(i, t)
          /\ \E j \in Ops("heap_insert")' : j < i /\ NewInsert(j, t)
  /\ new # {} => \E i \in Ops("btree_insert")' : NewEntryOp(i, t)

\* A write adds the operations that Logged says it does.
LEMMA WriteOpsByKind ==
  ASSUME BaseInv, phase = "up", NEW t \in Xids, NEW d, NEW n \in {0, 1}, NEW new, NEW more,
         WriteStep(t, d, n, new, more), ~abort(t)
  PROVE  WriteAddsOps(t, d, n, new)
<1>1. /\ Len(Log) \in Nat /\ DOMAIN more = 1..Len(more) /\ Len(more) \in Nat
      /\ \A kind : \A i \in Ops(kind) : Log'[i] = Log[i] /\ i \in 1..Len(Log)
      /\ \A k \in 1..Len(more) : Log'[Len(Log) + k] = more[k] /\ more[k].txn = t
      /\ \A kind, i : i \in Ops(kind)' <=>
           \/ i \in Ops(kind)
           \/ \E k \in 1..Len(more) : i = Len(Log) + k /\ more[k].type = "OP" /\ more[k].op.kind = kind
  BY SMTT(30), WriteOps
<1>2. Logged(t, d, n, new, more)
  BY DEF WriteStep
<1>3. /\ \A k \in 1..Len(more) : more[k].type = "OP" =>
           \/ \E r \in d : more[k].op = HeapSetXmax(r, t)
           \/ n = 1 /\ more[k].op = HeapInsert(heap'[NewRid], NewRid)
           \/ /\ n = 1 /\ new = {NewEntry} /\ more[k].op = BtreeInsert(NewEntry.key, NewRid)
              /\ \E j \in 1..Len(more) : /\ j < k /\ more[j].type = "OP"
                                         /\ more[j].op = HeapInsert(heap'[NewRid], NewRid)
      /\ \A r \in d : \E k \in 1..Len(more) : more[k].type = "OP" /\ more[k].op = HeapSetXmax(r, t)
      /\ n = 1 => \E k \in 1..Len(more) : more[k].type = "OP" /\ more[k].op = HeapInsert(heap'[NewRid], NewRid)
      /\ new # {} => \E k \in 1..Len(more) : more[k].type = "OP" /\ more[k].op = BtreeInsert(NewEntry.key, NewRid)
  <2>1. DOMAIN more = 1..Len(more)
    BY <1>1
  <2> QED
    BY <1>2, <2>1 DEF Logged
<1>4. /\ HeapInsert(heap'[NewRid], NewRid).kind = "heap_insert" /\ HeapInsert(heap'[NewRid], NewRid).rid = NewRid
      /\ HeapInsert(heap'[NewRid], NewRid).tuple = heap'[NewRid]
      /\ \A r : HeapSetXmax(r, t).kind = "heap_set_xmax" /\ HeapSetXmax(r, t).rid = r
      /\ BtreeInsert(NewEntry.key, NewRid).kind = "btree_insert" /\ BtreeInsert(NewEntry.key, NewRid).rid = NewRid
      /\ BtreeInsert(NewEntry.key, NewRid).key = heap'[NewRid].val
  BY DEF HeapInsert, HeapSetXmax, BtreeInsert, NewEntry
<1>5. \A k \in 1..Len(more) : Len(Log) + k \in Nat /\ Len(Log) + k > Len(Log)
  BY SMTT(30), <1>1
<1>6. ASSUME NEW k \in 1..Len(more), more[k].type = "OP", more[k].op = HeapInsert(heap'[NewRid], NewRid)
      PROVE  Len(Log) + k \in Ops("heap_insert")' /\ NewInsert(Len(Log) + k, t)
  BY SMTT(30), <1>1, <1>4, <1>5, <1>6 DEF NewInsert
<1>7. ASSUME NEW i \in Ops("heap_insert")', i \notin Ops("heap_insert")
      PROVE  n = 1 /\ NewInsert(i, t)
  <2>1. PICK k \in 1..Len(more) : i = Len(Log) + k /\ more[k].type = "OP" /\ more[k].op.kind = "heap_insert"
    BY SMTT(30), <1>1, <1>7
  <2>2. n = 1 /\ more[k].op = HeapInsert(heap'[NewRid], NewRid)
    BY SMTT(30), <1>3, <1>4, <2>1
  <2> QED
    BY <1>6, <2>1, <2>2
<1>8. ASSUME NEW i \in Ops("heap_set_xmax")', i \notin Ops("heap_set_xmax")
      PROVE  NewStamp(i, t, d)
  <2>1. PICK k \in 1..Len(more) : i = Len(Log) + k /\ more[k].type = "OP" /\ more[k].op.kind = "heap_set_xmax"
    BY SMTT(30), <1>1, <1>8
  <2>2. more[k].op.rid \in d
    BY SMTT(30), <1>3, <1>4, <2>1
  <2> QED
    BY SMTT(30), <1>1, <1>5, <2>1, <2>2 DEF NewStamp
<1>9. ASSUME NEW r \in d
      PROVE  \E i \in Ops("heap_set_xmax")' : NewStamp(i, t, d) /\ Log'[i].op.rid = r
  <2>1. PICK k \in 1..Len(more) : more[k].type = "OP" /\ more[k].op = HeapSetXmax(r, t)
    BY <1>3
  <2>2. Len(Log) + k \in Ops("heap_set_xmax")' /\ Log'[Len(Log) + k].op.rid = r
    BY SMTT(30), <1>1, <1>4, <2>1
  <2> QED
    BY SMTT(30), <1>1, <1>5, <2>2 DEF NewStamp
<1>10. ASSUME NEW i \in Ops("btree_insert")', i \notin Ops("btree_insert")
       PROVE  /\ n = 1 /\ new = {NewEntry} /\ NewEntryOp(i, t)
              /\ \E j \in Ops("heap_insert")' : j < i /\ NewInsert(j, t)
  <2>1. PICK k \in 1..Len(more) : i = Len(Log) + k /\ more[k].type = "OP" /\ more[k].op.kind = "btree_insert"
    BY SMTT(30), <1>1, <1>10
  <2>2. n = 1 /\ new = {NewEntry} /\ more[k].op = BtreeInsert(NewEntry.key, NewRid)
    BY SMTT(30), <1>3, <1>4, <2>1
  <2>3. PICK j \in 1..Len(more) : /\ j < k /\ more[j].type = "OP"
                                  /\ more[j].op = HeapInsert(heap'[NewRid], NewRid)
    BY <1>3, <1>4, <2>1
  <2>4. Len(Log) + j < i
    BY SMTT(30), <1>1, <2>1, <2>3
  <2>5. NewEntryOp(i, t)
    BY SMTT(30), <1>1, <1>4, <2>1, <2>2 DEF NewEntryOp
  <2> QED
    BY <1>6, <2>2, <2>3, <2>4, <2>5
<1>11. new # {} => \E i \in Ops("btree_insert")' : NewEntryOp(i, t)
  <2> SUFFICES ASSUME new # {} PROVE \E i \in Ops("btree_insert")' : NewEntryOp(i, t)
    OBVIOUS
  <2>1. PICK k \in 1..Len(more) : more[k].type = "OP" /\ more[k].op = BtreeInsert(NewEntry.key, NewRid)
    BY <1>3
  <2>2. Len(Log) + k \in Ops("btree_insert")' /\ NewEntryOp(Len(Log) + k, t)
    BY SMTT(30), <1>1, <1>4, <2>1 DEF NewEntryOp
  <2> QED
    BY <2>2
<1>12. n = 1 => \E i \in Ops("heap_insert")' : NewInsert(i, t)
  BY <1>3, <1>6
<1>13. \A kind : Ops(kind) \subseteq Ops(kind)' /\ \A i \in Ops(kind) : Log'[i] = Log[i] /\ i \in 1..Len(Log)
  BY <1>1
<1> QED
  BY <1>7, <1>8, <1>9, <1>10, <1>11, <1>12, <1>13 DEF WriteAddsOps

\* A transaction writes a row and goes on.
LEMMA WriteLogged ==
  ASSUME BaseInv, phase = "up", LoggedInv, AppliedInv, UNCHANGED <<replay, ckpt>>,
         NEW t \in Xids, NEW d, NEW n \in {0, 1}, NEW new, NEW more, WriteStep(t, d, n, new, more), ~abort(t)
  PROVE  LoggedInv' /\ CkptIds' /\ \A v : Survivors(v)' = Survivors(v)
<1> DEFINE C == CommittedTxns(wal)
           ins == Ops("heap_insert")
           stamps == Ops("heap_set_xmax")
           entries == Ops("btree_insert")
<1>1. /\ C' = C /\ t \in activeXids /\ t \notin C /\ Len(Log) \in Nat
      /\ Live' = Live /\ abortedXids' = abortedXids
      /\ \A kind : \A i \in Ops(kind) : Log'[i] = Log[i] /\ i \in 1..Len(Log) /\ Log[i].txn \in Live
      /\ \A k \in 1..Len(more) : Log'[Len(Log) + k] = more[k] /\ more[k].txn = t
      /\ \A kind, i : i \in Ops(kind)' <=>
           \/ i \in Ops(kind)
           \/ \E k \in 1..Len(more) : i = Len(Log) + k /\ more[k].type = "OP" /\ more[k].op.kind = kind
  BY SMTT(30), WriteOps
<1>2. /\ Writes(t, d, n) /\ failed \subseteq failed'
      /\ n = 1 /\ IndexKind # "none" /\ new = {} => IndexKind = "unique" /\ t \in failed'
  BY DEF WriteStep
<1>3. /\ heap \in Seq(Row) /\ ckpt.heap \in Seq(Row) /\ replay = {} /\ replay' = {} /\ ckpt' = ckpt
      /\ Len(heap) \in Nat /\ Len(ckpt.heap) \in Nat
  BY SMTT(30) DEF BaseInv, StoreTypeOK, TypeOK, PhaseInv
<1>4. /\ StampsLogged /\ EntriesLogged /\ CkptIndexed
      /\ CkptIds /\ RowsApplied /\ StampsApplied /\ EntriesApplied /\ HeapIds
  BY DEF LoggedInv, AppliedInv
<1>5. \A r \in d : /\ r \in 1..Len(heap) /\ heap[r].xmin \in C \cup {t} /\ heap[r].xmax \notin C
                   /\ heap[r].xmax \in Live => heap[r].xmax = t
  BY <1>1, <1>2, <1>4, StampTarget DEF Writes
<1>6. /\ ins \subseteq ins' /\ stamps \subseteq stamps' /\ entries \subseteq entries'
      /\ \A i \in ins' : i \in ins \/ (n = 1 /\ NewInsert(i, t))
      /\ \A i \in stamps' : i \in stamps \/ NewStamp(i, t, d)
      /\ \A i \in entries' : \/ i \in entries
                             \/ NewEntryOp(i, t) /\ \E j \in ins' : j < i /\ NewInsert(j, t)
      /\ new # {} => \E i \in entries' : NewEntryOp(i, t)
  <2>0. WriteAddsOps(t, d, n, new)
    BY WriteOpsByKind
  <2>1. /\ \A kind : Ops(kind) \subseteq Ops(kind)'
        /\ \A i \in Ops("heap_insert")' : i \in Ops("heap_insert") \/ (n = 1 /\ NewInsert(i, t))
        /\ \A i \in Ops("heap_set_xmax")' : i \in Ops("heap_set_xmax") \/ NewStamp(i, t, d)
    BY <2>0 DEF WriteAddsOps
  <2>2. /\ \A i \in Ops("btree_insert")' :
             \/ i \in Ops("btree_insert")
             \/ /\ n = 1 /\ new = {NewEntry} /\ NewEntryOp(i, t)
                /\ \E j \in Ops("heap_insert")' : j < i /\ NewInsert(j, t)
    BY <2>0 DEF WriteAddsOps
  <2>3. new # {} => \E i \in Ops("btree_insert")' : NewEntryOp(i, t)
    BY <2>0 DEF WriteAddsOps
  <2>4. \A i \in entries' : \/ i \in entries
                            \/ NewEntryOp(i, t) /\ \E j \in ins' : j < i /\ NewInsert(j, t)
    BY <2>2
  <2> QED
    BY <2>1, <2>3, <2>4
<1>7. /\ \A i \in ins \cup stamps \cup entries : Log'[i] = Log[i]
      /\ \A i \in ins : i \in 1..Len(Log)
      /\ \A i \in stamps : Log[i].txn \in Live
  <2>1. \A kind : \A i \in Ops(kind) : Log'[i] = Log[i] /\ i \in 1..Len(Log) /\ Log[i].txn \in Live
    BY <1>1
  <2> QED
    BY <2>1
<1>8. /\ \A i \in ins : Log[i].op.rid > Len(ckpt.heap)
      /\ \A i \in stamps :
           /\ \/ Log[i].op.rid \in 1..Len(ckpt.heap)
              \/ \E j \in ins : /\ j < i /\ Log[j].op.rid = Log[i].op.rid
                                /\ Log[j].txn \in C \/ Log[j].txn = Log[i].txn
           /\ \A j \in stamps : Log[j].op.rid = Log[i].op.rid => Log[j].txn = Log[i].txn
           /\ Log[i].op.rid \in 1..Len(ckpt.heap) => ckpt.heap[Log[i].op.rid].xmax \notin C
  BY <1>4 DEF StampsLogged
<1>9. /\ \A j \in entries : \E i \in ins : i < j /\ RowAndEntry(i, j)
      /\ \A i \in ins : Indexed(Log[i].txn) => \E j \in entries : RowAndEntry(i, j)
  BY <1>4 DEF EntriesLogged
<1>10. /\ Len(ckpt.heap) <= Len(heap)
       /\ \A r \in 1..Len(ckpt.heap) : ckpt.heap[r].xmax \in C => heap[r].xmax = ckpt.heap[r].xmax
       /\ \A i \in ins : heap[Log[i].op.rid].xmin = Log[i].txn
       /\ \A r \in 1..Len(heap) : r > Len(ckpt.heap) /\ heap[r].xmin \in Live => \E i \in ins : Log[i].op.rid = r
  BY <1>3, <1>4 DEF RowsApplied
<1>11. \A i \in stamps : heap[Log[i].op.rid].xmax = Log[i].txn
  BY <1>3, <1>4 DEF StampsApplied
<1>12. \A v : Survivors(v)' = Survivors(v)
  <2>1. \A kind, i : i \in Ops(kind)' /\ Log'[i].txn \in C <=> i \in Ops(kind) /\ Log[i].txn \in C
    BY SMTT(30), <1>1
  <2> QED
    BY <1>1, <1>3, <2>1, KeepSurvivors
<1>13. CkptIds'
  BY <1>1, <1>3, <1>4 DEF CkptIds
<1>14. C \cup {t} \subseteq Live
  BY <1>1 DEF Live
<1> HIDE DEF C, ins, stamps, entries
<1>15. StampsLogged'
  <2>1. \A i \in ins' : Log'[i].op.rid > Len(ckpt.heap)
    BY SMTT(30), <1>3, <1>6, <1>7, <1>8, <1>10 DEF NewInsert, NewRid
  <2>2. ASSUME NEW i \in stamps, NEW j \in stamps', Log'[j].op.rid = Log'[i].op.rid
        PROVE  Log'[j].txn = Log'[i].txn
    <3>1. CASE j \in stamps
      BY SMTT(30), <1>7, <1>8, <2>2, <3>1
    <3>2. CASE NewStamp(j, t, d)
      <4>1. Log[i].op.rid \in d /\ Log'[i] = Log[i] /\ Log'[j].txn = t
        BY <1>7, <2>2, <3>2 DEF NewStamp
      <4> QED
        BY <1>5, <1>7, <1>11, <4>1
    <3> QED
      BY <1>6, <3>1, <3>2
  <2>3. ASSUME NEW i \in stamps', NEW j \in stamps', Log'[j].op.rid = Log'[i].op.rid
        PROVE  Log'[j].txn = Log'[i].txn
    BY <1>6, <2>2, <2>3 DEF NewStamp
  <2>4. ASSUME NEW i \in stamps', Log'[i].op.rid \in 1..Len(ckpt.heap)
        PROVE  ckpt.heap[Log'[i].op.rid].xmax \notin C
    BY <1>5, <1>6, <1>7, <1>8, <1>10, <2>4 DEF NewStamp
  <2>5. ASSUME NEW i \in stamps', Log'[i].op.rid \notin 1..Len(ckpt.heap)
        PROVE  \E j \in ins' : /\ j < i /\ Log'[j].op.rid = Log'[i].op.rid
                               /\ Log'[j].txn \in C \/ Log'[j].txn = Log'[i].txn
    <3>1. CASE i \in stamps
      BY SMTT(30), <1>6, <1>7, <1>8, <2>5, <3>1
    <3>2. CASE NewStamp(i, t, d)
      <4>1. /\ Log'[i].txn = t /\ i \in Nat /\ i > Len(Log) /\ Log'[i].op.rid \in d
        BY <3>2 DEF NewStamp
      <4>2. Log'[i].op.rid \in 1..Len(heap) /\ heap[Log'[i].op.rid].xmin \in C \cup {t}
        BY <1>5, <4>1
      <4>3. PICK j \in ins : Log[j].op.rid = Log'[i].op.rid
        BY SMTT(30), <1>3, <1>10, <1>14, <2>5, <4>2
      <4>4. Log[j].txn \in C \cup {t} /\ Log'[j] = Log[j] /\ j \in ins' /\ j \in 1..Len(Log)
        BY <1>6, <1>7, <1>10, <4>2, <4>3
      <4>5. j < i
        BY SMTT(30), <1>1, <4>1, <4>4
      <4> QED
        BY <4>1, <4>3, <4>4, <4>5
    <3> QED
      BY <1>6, <3>1, <3>2
  <2> QED
    BY <1>1, <1>3, <2>1, <2>3, <2>4, <2>5 DEF StampsLogged, C, ins, stamps
<1>16. EntriesLogged'
  <2>1. ASSUME NEW j \in entries' PROVE \E i \in ins' : i < j /\ RowAndEntry(i, j)'
    <3>1. CASE j \in entries
      <4>1. PICK i \in ins : i < j /\ RowAndEntry(i, j)
        BY <1>9, <3>1
      <4>2. i \in ins' /\ Log'[i] = Log[i] /\ Log'[j] = Log[j]
        BY <1>6, <1>7, <3>1
      <4> QED
        BY <4>1, <4>2 DEF RowAndEntry
    <3>2. CASE NewEntryOp(j, t) /\ \E i \in ins' : i < j /\ NewInsert(i, t)
      BY <3>2 DEF NewEntryOp, NewInsert, RowAndEntry
    <3> QED
      BY <1>6, <3>1, <3>2
  <2>2. ASSUME NEW i \in ins', Indexed(Log[i].txn)' PROVE \E j \in entries' : RowAndEntry(i, j)'
    <3>1. CASE i \in ins
      <4>1. Log'[i] = Log[i]
        BY <1>7, <3>1
      <4>2. Indexed(Log[i].txn)
        BY <1>2, <2>2, <4>1 DEF Indexed, Indexable
      <4>3. PICK j \in entries : RowAndEntry(i, j)
        BY <1>9, <3>1, <4>2
      <4>4. j \in entries' /\ Log'[j] = Log[j]
        BY <1>6, <1>7
      <4> QED
        BY <4>1, <4>3, <4>4 DEF RowAndEntry
    <3>2. CASE n = 1 /\ NewInsert(i, t)
      <4>1. IndexKind # "none" /\ (IndexKind = "unique" => t \notin failed')
        BY <2>2, <3>2 DEF Indexed, Indexable, NewInsert
      <4>2. PICK j \in entries' : NewEntryOp(j, t)
        BY <1>2, <1>6, <3>2, <4>1
      <4> QED
        BY <3>2, <4>2 DEF NewEntryOp, NewInsert, RowAndEntry
    <3> QED
      BY <1>6, <3>1, <3>2
  <2> QED
    BY <2>1, <2>2 DEF EntriesLogged, ins, entries
<1>17. CkptIndexed'
  BY <1>1, <1>3, <1>4 DEF CkptIndexed, Indexable, EntryFor, C
<1> QED
  BY <1>12, <1>13, <1>15, <1>16, <1>17 DEF LoggedInv

\* And the heap and the index agree with what it logged.
LEMMA WriteApplied ==
  ASSUME BaseInv, phase = "up", LoggedInv, AppliedInv, UNCHANGED <<replay, ckpt>>,
         NEW t \in Xids, NEW d, NEW n \in {0, 1}, NEW new, NEW more, WriteStep(t, d, n, new, more), ~abort(t)
  PROVE  RowsApplied' /\ StampsApplied' /\ EntriesApplied' /\ HeapIds'
<1> DEFINE C == CommittedTxns(wal)
           ins == Ops("heap_insert")
           stamps == Ops("heap_set_xmax")
<1>1. /\ C' = C /\ t \in activeXids /\ Live' = Live /\ abortedXids' = abortedXids
      /\ \A kind : \A i \in Ops(kind) : Log'[i] = Log[i] /\ Log[i].txn \in Live
  BY WriteOps
<1>2. /\ Writes(t, d, n) /\ index' = index \cup new /\ failed \subseteq failed'
      /\ new # {} => n = 1 /\ new = {NewEntry}
      /\ n = 1 /\ IndexKind # "none" /\ new = {} => IndexKind = "unique" /\ t \in failed'
  BY DEF WriteStep
<1>3. /\ heap \in Seq(Row) /\ ckpt.heap \in Seq(Row) /\ replay = {} /\ replay' = {} /\ ckpt' = ckpt
      /\ Len(ckpt.heap) \in Nat
  BY SMTT(30) DEF BaseInv, StoreTypeOK, TypeOK, PhaseInv
<1>4. /\ Len(heap) \in Nat /\ Len(heap') \in Nat /\ Len(heap) <= Len(heap')
      /\ \A r \in 1..Len(heap) :
           /\ r \in 1..Len(heap') /\ heap'[r].xmin = heap[r].xmin /\ heap'[r].val = heap[r].val
           /\ heap'[r].xmax = IF r \in d THEN t ELSE heap[r].xmax
      /\ \A r \in 1..Len(heap') : \/ r \in 1..Len(heap)
                                  \/ n = 1 /\ r = NewRid /\ heap'[r].xmin = t /\ heap'[r].xmax = INFINITY_TXN
      /\ n = 1 => NewRid \in 1..Len(heap') /\ heap'[NewRid].xmin = t
  BY SMTT(30), <1>2, <1>3, HeapAfter
<1>5. CkptIds /\ RowsApplied /\ StampsApplied /\ EntriesApplied /\ HeapIds
  BY DEF AppliedInv
<1>6. \A r \in d : /\ r \in 1..Len(heap) /\ heap[r].xmax \notin C
                   /\ heap[r].xmax \in Live => heap[r].xmax = t
  BY <1>1, <1>2, <1>5, StampTarget DEF Writes
<1>7. /\ ins \subseteq ins' /\ stamps \subseteq stamps'
      /\ \A i \in ins' : i \in ins \/ (n = 1 /\ NewInsert(i, t))
      /\ n = 1 => \E i \in ins' : NewInsert(i, t)
      /\ \A i \in stamps' : i \in stamps \/ NewStamp(i, t, d)
      /\ \A r \in d : \E i \in stamps' : NewStamp(i, t, d) /\ Log'[i].op.rid = r
  <2>0. WriteAddsOps(t, d, n, new)
    BY WriteOpsByKind
  <2>1. /\ \A kind : Ops(kind) \subseteq Ops(kind)'
        /\ \A i \in Ops("heap_insert")' : i \in Ops("heap_insert") \/ (n = 1 /\ NewInsert(i, t))
        /\ n = 1 => \E i \in Ops("heap_insert")' : NewInsert(i, t)
    BY <2>0 DEF WriteAddsOps
  <2>2. /\ \A i \in Ops("heap_set_xmax")' : i \in Ops("heap_set_xmax") \/ NewStamp(i, t, d)
        /\ \A r \in d : \E i \in Ops("heap_set_xmax")' : NewStamp(i, t, d) /\ Log'[i].op.rid = r
    BY <2>0 DEF WriteAddsOps
  <2> QED
    BY <2>1, <2>2
<1>8. /\ \A i \in ins \cup stamps : Log'[i] = Log[i]
      /\ \A i \in stamps : Log[i].txn \in Live
  <2>1. \A kind : \A i \in Ops(kind) : Log'[i] = Log[i] /\ Log[i].txn \in Live
    BY <1>1
  <2> QED
    BY <2>1
<1>9. t \in Live /\ INFINITY_TXN \notin Live
  <2>1. INFINITY_TXN \notin Xids /\ activeXids \subseteq Xids
    BY SMTT(30), ConstantsAssumption DEF INFINITY_TXN, Xids, BaseInv, StoreTypeOK, TypeOK
  <2> QED
    BY <1>1, <2>1, CommittedAreXids DEF Live, BaseInv, StoreTypeOK
<1>10. /\ Len(ckpt.heap) <= Len(heap)
       /\ \A r \in 1..Len(ckpt.heap) :
            /\ heap[r].xmin = ckpt.heap[r].xmin /\ heap[r].val = ckpt.heap[r].val
            /\ ckpt.heap[r].xmax \in C => heap[r].xmax = ckpt.heap[r].xmax
       /\ \A i \in ins : /\ Log[i].op.rid \in 1..Len(heap)
                         /\ heap[Log[i].op.rid].xmin = Log[i].txn
                         /\ heap[Log[i].op.rid].val = Log[i].op.tuple.val
       /\ \A r \in 1..Len(heap) : r > Len(ckpt.heap) /\ heap[r].xmin \in Live => \E i \in ins : Log[i].op.rid = r
  BY <1>3, <1>5 DEF RowsApplied
<1>11. /\ \A i \in stamps : Log[i].op.rid \in 1..Len(heap) /\ heap[Log[i].op.rid].xmax = Log[i].txn
       /\ \A r \in 1..Len(heap) : heap[r].xmax \in Live =>
            (\E i \in stamps : Log[i].op.rid = r) \/ (r <= Len(ckpt.heap) /\ ckpt.heap[r].xmax = heap[r].xmax)
  BY <1>3, <1>5 DEF StampsApplied
<1> HIDE DEF C, ins, stamps
<1>12. RowsApplied'
  <2>1. Len(ckpt'.heap) <= Len(heap')
    BY SMTT(30), <1>3, <1>4, <1>10
  <2>2. ASSUME NEW r \in 1..Len(ckpt.heap)
        PROVE  /\ heap'[r].xmin = ckpt.heap[r].xmin /\ heap'[r].val = ckpt.heap[r].val
               /\ ckpt.heap[r].xmax \in C => heap'[r].xmax = ckpt.heap[r].xmax
    <3>1. r \in 1..Len(heap)
      BY SMTT(30), <1>3, <1>4, <1>10
    <3> QED
      BY <1>4, <1>6, <1>10, <3>1
  <2>3. ASSUME NEW i \in ins'
        PROVE  /\ Log'[i].op.rid \in 1..Len(heap')
               /\ heap'[Log'[i].op.rid].xmin = Log'[i].txn
               /\ heap'[Log'[i].op.rid].val = Log'[i].op.tuple.val
    <3>1. CASE i \in ins
      <4>1. /\ Log'[i] = Log[i] /\ Log[i].op.rid \in 1..Len(heap)
            /\ heap[Log[i].op.rid].xmin = Log[i].txn
            /\ heap[Log[i].op.rid].val = Log[i].op.tuple.val
        BY <1>8, <1>10, <3>1
      <4> QED
        BY <1>4, <4>1
    <3>2. CASE n = 1 /\ NewInsert(i, t)
      BY <1>4, <3>2 DEF NewInsert
    <3> QED
      BY <1>7, <3>1, <3>2
  <2>4. ASSUME NEW r \in 1..Len(heap'), r > Len(ckpt.heap), heap'[r].xmin \in Live
        PROVE  \E i \in ins' : Log'[i].op.rid = r
    <3>1. CASE r \in 1..Len(heap)
      <4>1. heap[r].xmin \in Live
        BY <1>4, <2>4, <3>1
      <4>2. PICK i \in ins : Log[i].op.rid = r
        BY <1>10, <2>4, <3>1, <4>1
      <4> QED
        BY <1>7, <1>8, <4>2
    <3>2. CASE n = 1 /\ r = NewRid
      BY <1>7, <3>2 DEF NewInsert
    <3> QED
      BY <1>4, <3>1, <3>2
  <2> QED
    BY <1>1, <1>3, <2>1, <2>2, <2>3, <2>4 DEF RowsApplied, C, ins
<1>13. StampsApplied'
  <2>1. ASSUME NEW i \in stamps'
        PROVE  Log'[i].op.rid \in 1..Len(heap') /\ heap'[Log'[i].op.rid].xmax = Log'[i].txn
    <3>1. CASE i \in stamps
      <4>1. Log[i].op.rid \in 1..Len(heap) /\ heap[Log[i].op.rid].xmax = Log[i].txn /\ Log[i].txn \in Live /\ Log'[i] = Log[i]
        BY <1>8, <1>11, <3>1
      <4>2. Log[i].op.rid \in d => Log[i].txn = t
        BY <1>6, <4>1
      <4> QED
        BY <1>4, <4>1, <4>2
    <3>2. CASE NewStamp(i, t, d)
      <4>1. Log'[i].txn = t /\ Log'[i].op.rid \in d
        BY <3>2 DEF NewStamp
      <4> QED
        BY <1>4, <1>6, <4>1
    <3> QED
      BY <1>7, <3>1, <3>2
  <2>2. ASSUME NEW r \in 1..Len(heap'), heap'[r].xmax \in Live
        PROVE  (\E i \in stamps' : Log'[i].op.rid = r) \/ (r <= Len(ckpt.heap) /\ ckpt.heap[r].xmax = heap'[r].xmax)
    <3>1. r \in 1..Len(heap)
      BY <1>4, <1>9, <2>2
    <3>2. CASE r \in d
      BY <1>7, <3>2
    <3>3. CASE r \notin d
      <4>1. heap'[r].xmax = heap[r].xmax
        BY <1>4, <3>1, <3>3
      <4> QED
        BY <1>7, <1>8, <1>11, <2>2, <3>1, <4>1
    <3> QED
      BY <3>2, <3>3
  <2> QED
    BY <1>1, <1>3, <2>1, <2>2 DEF StampsApplied, stamps
<1>14. EntriesApplied'
  <2>1. \A e \in index : e.rid \in 1..Len(heap) /\ heap[e.rid].val = e.key
    BY <1>5 DEF EntriesApplied
  <2>2. \A r \in 1..Len(heap) : heap[r].xmin \in Live /\ Indexed(heap[r].xmin) => EntryFor(heap[r], r) \in index
    BY <1>3, <1>5 DEF EntriesApplied
  <2>3. NewEntry.rid = NewRid /\ NewEntry.key = heap'[NewRid].val
    BY DEF NewEntry
  <2>4. \A e \in index' : e.rid \in 1..Len(heap') /\ heap'[e.rid].val = e.key
    BY <1>2, <1>4, <2>1, <2>3
  <2>5. ASSUME NEW r \in 1..Len(heap'), heap'[r].xmin \in Live, Indexed(heap[r].xmin)'
        PROVE  EntryFor(heap[r], r)' \in index'
    <3>1. CASE r \in 1..Len(heap)
      <4>1. heap'[r].xmin = heap[r].xmin /\ heap'[r].val = heap[r].val
        BY <1>4, <3>1
      <4>2. Indexed(heap[r].xmin)
        BY <1>2, <2>5, <4>1 DEF Indexed, Indexable
      <4>3. EntryFor(heap[r], r)' = EntryFor(heap[r], r)
        BY <4>1 DEF EntryFor
      <4> QED
        BY <1>2, <2>2, <2>5, <3>1, <4>1, <4>2, <4>3
    <3>2. CASE n = 1 /\ r = NewRid /\ heap'[r].xmin = t
      <4>1. IndexKind # "none" /\ (IndexKind = "unique" => t \notin failed')
        BY <2>5, <3>2 DEF Indexed, Indexable
      <4>2. new = {NewEntry}
        BY <1>2, <3>2, <4>1
      <4>3. EntryFor(heap[r], r)' = NewEntry
        BY <3>2 DEF EntryFor, NewEntry
      <4> QED
        BY <1>2, <4>2, <4>3
    <3> QED
      BY <1>4, <3>1, <3>2
  <2> QED
    BY <1>1, <2>4, <2>5 DEF EntriesApplied
<1>15. HeapIds'
  <2>1. \A r \in 1..Len(heap) : heap[r].xmin \in Live \cup abortedXids /\ heap[r].xmax \in Live \cup abortedXids \cup {INFINITY_TXN}
    BY <1>5 DEF HeapIds
  <2>2. \A r \in 1..Len(heap') : heap'[r].xmin \in Live \cup abortedXids /\ heap'[r].xmax \in Live \cup abortedXids \cup {INFINITY_TXN}
    BY <1>4, <1>9, <2>1
  <2> QED
    BY <1>1, <2>2 DEF HeapIds
<1> QED
  BY <1>12, <1>13, <1>14, <1>15

\* A step of a running database keeps the invariant, and a commit makes good its promise.
LEMMA RunningRecovery ==
  ASSUME BaseInv, BaseInv', RecoveryInv, Running, Forms, ContentsMeant'
  PROVE  RecoveryInv'
<1> SUFFICES ASSUME sound' PROVE RecoveryInv'
  BY DEF RecoveryInv
<1>1. /\ phase = "up" /\ phase' = "up" /\ sound /\ UNCHANGED <<replay, ckpt>>
      /\ promised' = IF \E t \in Xids : state[t] # "committed" /\ state'[t] = "committed"
                       THEN Contents' ELSE promised
  BY DEF Running
<1>2. LoggedInv /\ AppliedInv /\ promised = [v \in Values |-> Cardinality(Survivors(v))]
  BY <1>1 DEF RecoveryInv
<1>3. state \in [Xids -> {"unused", "active", "committed", "aborted"}]
  BY DEF BaseInv, StoreTypeOK, TypeOK
<1>4. ASSUME LoggedInv', AppliedInv', \A v : Survivors(v)' = Survivors(v),
             \A t \in Xids : state'[t] = "committed" => state[t] = "committed"
      PROVE  RecoveryInv'
  BY <1>1, <1>2, <1>4 DEF RecoveryInv
<1>5. ASSUME NEW t \in Xids, BeginStep(t)
      PROVE  RecoveryInv'
  <2>1. LoggedInv' /\ AppliedInv' /\ \A v : Survivors(v)' = Survivors(v)
    BY <1>1, <1>2, <1>5, BeginRecovery
  <2>2. state' = [state EXCEPT ![t] = "active"]
    BY <1>5 DEF BeginStep, begin
  <2> QED
    BY <1>3, <1>4, <2>1, <2>2
<1>6. ASSUME NEW t \in Xids, CommitStep(t)
      PROVE  RecoveryInv'
  <2>1. LoggedInv' /\ AppliedInv'
    BY <1>1, <1>2, <1>6, CommitRecovery
  <2>2. state[t] = "active" /\ state' = [state EXCEPT ![t] = "committed"]
    BY <1>6 DEF CommitStep, commit
  <2>3. promised' = Contents'
    BY <1>1, <1>3, <2>2
  <2>4. (phase = "up")' /\ StampsLogged' /\ RowsApplied' /\ StampsApplied' /\ HeapIds'
    BY <1>1, <2>1 DEF LoggedInv, AppliedInv
  <2>5. (Contents = [v \in Values |-> Cardinality(Survivors(v))])'
    BY <2>4 DEF ContentsMeant
  <2> QED
    BY <1>1, <2>1, <2>3, <2>5 DEF RecoveryInv
<1>7. ASSUME NEW t \in Xids, NEW d, NEW n \in {0, 1}, NEW new, NEW more, WriteStep(t, d, n, new, more)
      PROVE  RecoveryInv'
  <2>1. LoggedInv' /\ AppliedInv' /\ \A v : Survivors(v)' = Survivors(v)
    <3>1. CASE abort(t)
      BY <1>1, <1>2, <1>7, <3>1, AbortRecovery
    <3>2. CASE ~abort(t)
      <4>1. LoggedInv' /\ CkptIds' /\ \A v : Survivors(v)' = Survivors(v)
        BY <1>1, <1>2, <1>7, <3>2, WriteLogged
      <4>2. RowsApplied' /\ StampsApplied' /\ EntriesApplied' /\ HeapIds'
        BY <1>1, <1>2, <1>7, <3>2, WriteApplied
      <4> QED
        BY <4>1, <4>2 DEF AppliedInv
    <3> QED
      BY <3>1, <3>2
  <2>2. state' = [state EXCEPT ![t] = "aborted"] \/ state' = state
    BY <1>7 DEF WriteStep, abort, txnVars
  <2> QED
    BY <1>3, <1>4, <2>1, <2>2
<1>8. CASE QuietStep
  <2>1. UNCHANGED <<heap, index, failed, activeXids, abortedXids, wal, walBuf, replay, ckpt, state>>
    BY <1>1, <1>8 DEF QuietStep, txnVars
  <2>2. LoggedInv' /\ AppliedInv' /\ \A v : Survivors(v)' = Survivors(v)
    BY <1>2, <2>1, SameRecovery
  <2> QED
    BY <1>4, <2>1, <2>2
<1> QED
  BY <1>5, <1>6, <1>7, <1>8 DEF Forms

-----------------------------------------------------------------------------
(* Write-back, checkpoint, shutdown and process death *)

\* The invariant does not speak of the data file.
LEMMA WriteBackRecovery ==
  ASSUME BaseInv, RecoveryInv, WriteBack
  PROVE  RecoveryInv'
<1>1. /\ phase' = phase /\ UNCHANGED <<vars, wal, walBuf, replay, ckpt, sound, promised>>
  BY DEF WriteBack, logVars
<1>2. UNCHANGED <<heap, index, failed, activeXids, abortedXids, wal, walBuf, replay, ckpt>>
  BY <1>1 DEF vars, txnVars, dataVars
<1>3. /\ LoggedInv => LoggedInv'
      /\ AppliedInv => AppliedInv'
      /\ ReplayInv => ReplayInv'
      /\ \A v : Survivors(v)' = Survivors(v)
  BY <1>2, SameRecovery
<1> QED
  BY <1>1, <1>3 DEF RecoveryInv

\* A checkpoint takes over what the log said.
LEMMA CheckpointRecovery ==
  ASSUME BaseInv, RecoveryInv, Checkpoint
  PROVE  RecoveryInv'
<1> SUFFICES ASSUME sound' PROVE RecoveryInv'
  BY DEF RecoveryInv
<1> DEFINE C == CommittedTxns(wal)
<1>1. /\ phase = "up" /\ phase' = "up" /\ activeXids = {} /\ sound /\ promised' = promised
      /\ ckpt' = [heap |-> heap, index |-> index]
      /\ UNCHANGED <<vars, replay>>
  BY DEF Checkpoint
<1>2. UNCHANGED <<heap, index, failed, activeXids, abortedXids>>
  BY <1>1 DEF vars, txnVars, dataVars
<1>3. SinceLastCheckpoint(Log)' = {} /\ C' = C
  BY CheckpointLog
<1>4. \A kind : Ops(kind)' = {}
  BY <1>3 DEF Ops
<1>5. LoggedInv /\ AppliedInv /\ promised = [v \in Values |-> Cardinality(Survivors(v))]
  BY <1>1 DEF RecoveryInv
<1>6. /\ StampsLogged /\ RowsApplied /\ StampsApplied /\ EntriesApplied /\ HeapIds
  BY <1>5 DEF LoggedInv, AppliedInv
<1>7. Live = C /\ Live' = C
  BY <1>1, <1>2, <1>3 DEF Live
<1>8. replay = {} /\ replay' = {} /\ heap \in Seq(Row) /\ Len(heap) \in Nat /\ (CallerAborts => failed \cap C = {})
  BY SMTT(30), <1>1 DEF BaseInv, PhaseInv, StoreTypeOK, TypeOK, FailedInv
<1>9. ckpt'.heap = heap /\ ckpt'.index = index
  BY <1>1
<1>10. /\ \A e \in index : e.rid \in 1..Len(heap) /\ heap[e.rid].val = e.key
       /\ \A r \in 1..Len(heap) : heap[r].xmin \in C /\ Indexed(heap[r].xmin) => EntryFor(heap[r], r) \in index
  BY <1>6, <1>7, <1>8 DEF EntriesApplied
<1>11. \A r \in 1..Len(heap) : /\ heap[r].xmin \in C \cup abortedXids
                               /\ heap[r].xmax \in C \cup abortedXids \cup {INFINITY_TXN}
  BY <1>6, <1>7 DEF HeapIds
<1>12. \A v, x : x \in Survivors(v) <=>
         x \in 1..Len(heap) /\ heap[x].xmin \in C /\ heap[x].xmax \notin C /\ heap[x].val = v
  <2>1. \A v : Survivors(v) = ScanMatches(NextSnapshot, {v})
    BY <1>1, <1>6, SurvivorsVisible
  <2>2. Visible(NextSnapshot) = {r \in 1..Len(heap) : heap[r].xmin \in C /\ heap[r].xmax \notin C}
    BY <1>1, <1>6, VisibleNow
  <2> HIDE DEF C
  <2> QED
    BY <2>1, <2>2 DEF ScanMatches
<1>13. \A v, x : x \in Survivors(v)' <=>
         x \in 1..Len(heap) /\ heap[x].xmin \in C' /\ heap[x].xmax \notin C' /\ heap[x].val = v
  BY <1>4, <1>9 DEF Survivors, StampedIn
<1> HIDE DEF C
<1>14. promised' = [v \in Values |-> Cardinality(Survivors(v)')]
  <2>1. \A v, x : x \in Survivors(v)' <=> x \in Survivors(v)
    BY <1>3, <1>12, <1>13
  <2>2. \A v : Survivors(v)' = Survivors(v)
    BY SMTT(30), <2>1
  <2> QED
    BY <1>1, <1>5, <2>2
<1>15. StampsLogged' /\ EntriesLogged'
  BY <1>4 DEF StampsLogged, EntriesLogged
<1>16. CkptIndexed'
  <2>1. Indexable => \A r \in 1..Len(heap) : heap[r].xmin \in C => Indexed(heap[r].xmin)
    BY <1>8 DEF Indexable, Indexed
  <2>2. Indexable => \A r \in 1..Len(heap) : heap[r].xmin \in C => EntryFor(heap[r], r) \in index
    BY <1>10, <2>1
  <2>3. (Indexable' <=> Indexable) /\ \A r : EntryFor(ckpt.heap[r], r)' = EntryFor(heap[r], r)
    BY <1>9 DEF Indexable, EntryFor
  <2> QED
    BY <1>3, <1>9, <1>10, <2>2, <2>3 DEF CkptIndexed, C
<1>17. CkptIds'
  BY <1>2, <1>3, <1>9, <1>11 DEF CkptIds, C
<1>18. RowsApplied'
  BY SMTT(30), <1>2, <1>4, <1>8, <1>9 DEF RowsApplied
<1>19. StampsApplied'
  BY SMTT(30), <1>2, <1>4, <1>8, <1>9 DEF StampsApplied
<1>20. EntriesApplied'
  <2>1. \A r : /\ EntryFor(heap[r], r)' = EntryFor(heap[r], r)
               /\ Indexed(heap[r].xmin)' <=> Indexed(heap[r].xmin)
    BY <1>2 DEF EntryFor, Indexed, Indexable
  <2> QED
    BY <1>2, <1>7, <1>10, <2>1 DEF EntriesApplied
<1>21. HeapIds'
  BY <1>2, <1>7, <1>11 DEF HeapIds
<1> QED
  BY <1>1, <1>14, <1>15, <1>16, <1>17, <1>18, <1>19, <1>20, <1>21 DEF RecoveryInv, LoggedInv, AppliedInv

\* A stop loses the transactions that have not committed.
LEMMA StopRecovery ==
  ASSUME BaseInv, RecoveryInv, Close \/ Crash
  PROVE  RecoveryInv'
<1> SUFFICES ASSUME sound' PROVE RecoveryInv'
  BY DEF RecoveryInv
<1> DEFINE C == CommittedTxns(wal)
<1>1. /\ phase' = "down" /\ activeXids' = {} /\ failed' = {} /\ ckpt' = ckpt /\ promised' = promised /\ sound
  BY DEF Close, Crash, ProcessEnds
<1>2. wal \in Seq(LogRecord) /\ walBuf \in Seq(LogRecord) /\ BufferInv /\ SinceInv /\ FailedInv
  BY DEF BaseInv, StoreTypeOK
<1>3. /\ Log' = wal' /\ C' = C
      /\ SinceLastCheckpoint(wal) \subseteq SinceLastCheckpoint(wal)'
      /\ \A i \in 1..Len(wal) : wal'[i] = wal[i]
      /\ \A i \in SinceLastCheckpoint(wal)' : i \in SinceLastCheckpoint(wal) \/ wal'[i].txn \notin C
  BY <1>1, <1>2, LogStops
<1>4. /\ \A i \in 1..Len(wal) : Log[i] = wal[i]
      /\ \A i \in (Len(wal) + 1)..Len(Log) : Log[i].txn \notin C
      /\ \A i : i \in SinceLastCheckpoint(Log) <=>
                  i \in SinceLastCheckpoint(wal) \/ i \in (Len(wal) + 1)..Len(Log)
      /\ SinceLastCheckpoint(wal) \subseteq 1..Len(wal)
  BY <1>2, LogView
<1>5. LoggedInv /\ promised = [v \in Values |-> Cardinality(Survivors(v))]
  BY <1>1 DEF RecoveryInv
<1>6. Live' = C /\ C \subseteq Live
  BY <1>1, <1>3 DEF Live
<1>7. \A kind, i : i \in Ops(kind) <=>
        i \in SinceLastCheckpoint(Log) /\ Log[i].type = "OP" /\ Log[i].op.kind = kind /\ Log[i].txn \in Live
  BY DEF Ops
<1>8. \A kind, i : i \in Ops(kind)' <=>
        i \in SinceLastCheckpoint(wal)' /\ wal'[i].type = "OP" /\ wal'[i].op.kind = kind /\ wal'[i].txn \in C
  <2>1. SinceLastCheckpoint(Log)' = SinceLastCheckpoint(wal)'
    BY <1>3 DEF SinceLastCheckpoint
  <2> QED
    BY <1>3, <1>6, <2>1 DEF Ops
<1>9. \A x \in C : Indexed(x)' => Indexed(x)
  BY <1>2 DEF Indexed, Indexable, FailedInv
<1> HIDE DEF C
<1>10. /\ \A kind, i : i \in Ops(kind)' <=> i \in Ops(kind) /\ Log[i].txn \in C
       /\ \A kind : \A i \in Ops(kind) : Log[i].txn \in C => Log'[i] = Log[i]
  <2>1. \A i : i \in SinceLastCheckpoint(wal)' /\ wal'[i].txn \in C <=> i \in SinceLastCheckpoint(Log) /\ Log[i].txn \in C
    BY <1>3, <1>4
  <2>2. \A i \in SinceLastCheckpoint(Log) : Log[i].txn \in C => Log'[i] = Log[i]
    BY <1>3, <1>4
  <2> QED
    BY SMTT(30), <1>3, <1>6, <1>7, <1>8, <2>1, <2>2
<1>11. StampsLogged' /\ EntriesLogged' /\ CkptIndexed'
  <2>1. StampsLogged /\ EntriesLogged /\ CkptIndexed
    BY <1>5 DEF LoggedInv
  <2> QED
    BY <1>1, <1>3, <1>6, <1>9, <1>10, <2>1, KeepLogged DEF C
<1>12. \A v : Survivors(v)' = Survivors(v)
  <2>1. \A kind, i : i \in Ops(kind)' /\ Log'[i].txn \in C <=> i \in Ops(kind) /\ Log[i].txn \in C
    BY <1>10
  <2> QED
    BY <1>1, <1>3, <1>10, <2>1, KeepSurvivors DEF C
<1> QED
  BY <1>1, <1>5, <1>11, <1>12 DEF RecoveryInv, LoggedInv

-----------------------------------------------------------------------------
(* Recovery *)

\* What is needed of Cardinality: it counts the positions of a log one by one.
CardinalityFacts ==
  /\ Cardinality({}) = 0
  /\ \A n \in Nat : \A S \in SUBSET (1..n) :
       /\ Cardinality(S) \in Nat
       /\ \A i : i \notin S => Cardinality(S \cup {i}) = Cardinality(S) + 1

\* Outside of normal operation the operations that count are those that recovery replays.
LEMMA OpsReplayed ==
  ASSUME BaseInv, phase # "up"
  PROVE  /\ Log = wal /\ Live = CommittedTxns(wal) /\ failed = {}
         /\ \A kind : Ops(kind) = {i \in CommittedOperations(wal) : wal[i].op.kind = kind}
<1> DEFINE C == CommittedTxns(wal)
           since == SinceLastCheckpoint(wal)
<1>1. walBuf = <<>> /\ activeXids = {} /\ failed = {} /\ wal \in Seq(LogRecord) /\ SinceInv
  BY DEF BaseInv, PhaseInv, StoreTypeOK
<1>2. Log = wal
  BY SMTT(30), <1>1 DEF Log
<1>3. Live = C
  BY <1>1 DEF Live
<1>4. \A i \in since : wal[i].type = "OP" /\ wal[i].txn \in C => wal[i].txn \in TxnsWith(wal, since, "COMMIT")
  BY <1>1, <1>2 DEF SinceInv
<1>5. TxnsWith(wal, since, "COMMIT") \subseteq C
  BY DEF TxnsWith, CommittedTxns, SinceLastCheckpoint
<1>6. \A kind, i : i \in Ops(kind) <=>
        i \in since /\ wal[i].type = "OP" /\ wal[i].op.kind = kind /\ wal[i].txn \in C
  BY <1>2, <1>3 DEF Ops
<1>7. \A i : i \in CommittedOperations(wal) <=>
        i \in since /\ wal[i].type = "OP" /\ wal[i].txn \in TxnsWith(wal, since, "COMMIT")
  BY DEF CommittedOperations
<1> HIDE DEF C, since
<1>8. \A kind, i : i \in Ops(kind) <=> i \in CommittedOperations(wal) /\ wal[i].op.kind = kind
  BY <1>4, <1>5, <1>6, <1>7
<1> QED
  BY <1>1, <1>2, <1>3, <1>8 DEF C

\* Recovery starts from the checkpoint, with everything logged since still to be applied.
LEMMA OpenRecovery ==
  ASSUME CardinalityFacts, BaseInv, RecoveryInv, Open
  PROVE  RecoveryInv'
<1> SUFFICES ASSUME sound' PROVE RecoveryInv'
  BY DEF RecoveryInv
<1> DEFINE C == CommittedTxns(wal)
           ops == CommittedOperations(wal)
           inserts == {i \in ops : wal[i].op.kind = "heap_insert"}
<1>1. /\ phase = "down" /\ phase' = "replay" /\ replay' = ops
      /\ sound /\ RecoveryAssumptions /\ promised' = promised
      /\ UNCHANGED <<activeXids, heap, index, failed, wal, walBuf, ckpt>>
  BY DEF Open, dataVars, logVars
<1>2. /\ ckpt = [heap |-> diskHeap, index |-> diskIndex]
      /\ \A r \in DOMAIN diskHeap : {diskHeap[r].xmin, diskHeap[r].xmax} \subseteq C \cup {INFINITY_TXN}
      /\ \A i \in inserts : wal[i].op.rid = Len(diskHeap) + Cardinality({j \in inserts : j <= i})
  BY <1>1 DEF RecoveryAssumptions
<1>3. /\ heap = diskHeap /\ index = diskIndex /\ heap \in Seq(Row) /\ Len(heap) \in Nat /\ DOMAIN heap = 1..Len(heap)
  BY SMTT(30), <1>1 DEF BaseInv, PhaseInv, StoreTypeOK, TypeOK
<1>4. /\ Log = wal /\ Live = C /\ failed = {}
      /\ \A kind : Ops(kind) = {i \in ops : wal[i].op.kind = kind}
  BY <1>1, OpsReplayed
<1>5. /\ C' = C /\ Log' = Log /\ SinceLastCheckpoint(Log)' = SinceLastCheckpoint(Log) /\ ops' = ops
  BY <1>1 DEF CommittedTxns, TxnsWith, Log, SinceLastCheckpoint, CommittedOperations
<1>6. Live' = Live
  BY <1>1, <1>5 DEF Live
<1>7. \A kind : Ops(kind)' = Ops(kind) /\ \A i \in Ops(kind) : Log[i].txn \in Live
  BY <1>5, <1>6 DEF Ops
<1>8. LoggedInv /\ promised = [v \in Values |-> Cardinality(Survivors(v))]
  BY <1>1 DEF RecoveryInv
<1>9. \A x : Indexed(x)' <=> Indexed(x)
  BY <1>1 DEF Indexed, Indexable
<1>10. ckpt'.heap = heap' /\ ckpt'.index = index' /\ ckpt.heap = heap /\ ckpt.index = index /\ heap' = heap /\ index' = index
  BY <1>1, <1>2, <1>3
<1>11. /\ \A e \in index : e.rid \in 1..Len(heap) /\ heap[e.rid].val = e.key
       /\ Indexable => \A r \in 1..Len(heap) : heap[r].xmin \in C => EntryFor(heap[r], r) \in index
  BY <1>8, <1>10 DEF LoggedInv, CkptIndexed
<1>12. \A r \in 1..Len(heap) : heap[r].xmin \in C /\ heap[r].xmax \in C \cup {INFINITY_TXN}
  <2>1. \A r \in 1..Len(heap) : heap[r].xmin \in Xids
    <3>1. \A r \in 1..Len(heap) : heap[r] \in Row
      BY SMTT(30), <1>3
    <3> QED
      BY <3>1 DEF Row
  <2>2. INFINITY_TXN \notin Xids
    BY SMTT(30), ConstantsAssumption DEF INFINITY_TXN, Xids
  <2>3. \A r \in 1..Len(heap) : heap[r].xmin \in C \cup {INFINITY_TXN} /\ heap[r].xmax \in C \cup {INFINITY_TXN}
    BY <1>2, <1>3
  <2> QED
    BY <2>1, <2>2, <2>3
<1>13. \A v : Survivors(v)' = Survivors(v)
  BY <1>1, <1>5, <1>7, KeepSurvivors
<1>14. LoggedInv'
  BY <1>1, <1>4, <1>5, <1>6, <1>7, <1>8, <1>9, KeepLogged DEF LoggedInv
<1>15. \A kind : Ops(kind)' \ replay' = {}
  BY <1>1, <1>4, <1>7
<1> HIDE DEF C, ops
<1>16. CkptIds' /\ HeapIds'
  BY <1>4, <1>5, <1>6, <1>10, <1>12 DEF CkptIds, HeapIds, C
<1>17. RowsApplied'
  BY SMTT(30), <1>3, <1>10, <1>15 DEF RowsApplied
<1>18. StampsApplied'
  BY SMTT(30), <1>3, <1>10, <1>15 DEF StampsApplied
<1>19. EntriesApplied'
  <2>1. \A r : EntryFor(heap[r], r)' = EntryFor(heap[r], r)
    BY <1>10 DEF EntryFor
  <2>2. \A r : Indexed(heap[r].xmin)' => Indexable
    BY DEF Indexed, Indexable
  <2> QED
    BY <1>10, <1>11, <1>12, <2>1, <2>2 DEF EntriesApplied
<1>20. ReplayInv'
  <2>1. Len(heap') = Len(ckpt'.heap) + Cardinality(Ops("heap_insert")' \ replay')
    <3>1. Cardinality(Ops("heap_insert")' \ replay') = 0
      BY <1>15 DEF CardinalityFacts
    <3>2. Len(heap') \in Nat /\ ckpt'.heap = heap'
      BY <1>3, <1>10
    <3> QED
      BY SMTT(30), <3>1, <3>2
  <2>2. \A i \in Ops("heap_insert") :
          wal[i].op.rid = Len(diskHeap) + Cardinality({j \in Ops("heap_insert") : j <= i})
    <3>1. Ops("heap_insert") = inserts
      BY <1>4
    <3> HIDE DEF inserts
    <3> QED
      BY <1>2, <3>1
  <2>3. \A i \in Ops("heap_insert")' :
          Log'[i].op.rid = Len(ckpt'.heap) + Cardinality({j \in Ops("heap_insert")' : j <= i})
    BY <1>3, <1>4, <1>5, <1>7, <1>10, <2>2
  <2> QED
    BY <1>15, <2>1, <2>3 DEF ReplayInv
<1> QED
  BY <1>1, <1>8, <1>13, <1>14, <1>16, <1>17, <1>18, <1>19, <1>20 DEF RecoveryInv, AppliedInv

\* A step of recovery.
ReplayStep(i) ==
  /\ i \in replay /\ \A j \in replay : i <= j
  /\ replay' = replay \ {i}
  /\ ApplyRecoveryOp(Log[i].op)
  /\ UNCHANGED <<wal, walBuf, ckpt, activeXids, abortedXids, failed>>

\* It leaves the log alone, and the operation it applies is a logged one.
LEMMA ReplayFrame ==
  ASSUME BaseInv, phase = "replay", NEW i, ReplayStep(i)
  PROVE  /\ CommittedTxns(wal)' = CommittedTxns(wal) /\ Log' = Log
         /\ Live' = Live /\ Live = CommittedTxns(wal)
         /\ \A kind : Ops(kind)' = Ops(kind) /\ \A j \in Ops(kind) : Log[j].txn \in Live
         /\ \A x : Indexed(x)' <=> Indexed(x)
         /\ Log[i].op.kind \in Kinds /\ i \in Ops(Log[i].op.kind)
         /\ \A kind, j : j \in Ops(kind) => Log[j].op.kind = kind
         /\ INFINITY_TXN \notin Live
<1>1. i \in replay /\ UNCHANGED <<wal, walBuf, ckpt, activeXids, failed>>
  BY DEF ReplayStep
<1>2. /\ CommittedTxns(wal)' = CommittedTxns(wal) /\ Log' = Log
      /\ SinceLastCheckpoint(Log)' = SinceLastCheckpoint(Log)
  BY <1>1 DEF CommittedTxns, TxnsWith, Log, SinceLastCheckpoint
<1>3. Live' = Live
  BY <1>1, <1>2 DEF Live
<1>4. \A kind : Ops(kind)' = Ops(kind) /\ \A j \in Ops(kind) : Log[j].txn \in Live
  BY <1>2, <1>3 DEF Ops
<1>5. \A x : Indexed(x)' <=> Indexed(x)
  BY <1>1 DEF Indexed, Indexable
<1>6. /\ Log = wal /\ Live = CommittedTxns(wal)
      /\ \A kind : Ops(kind) = {j \in CommittedOperations(wal) : wal[j].op.kind = kind}
  BY OpsReplayed
<1>7. i \in Ops(Log[i].op.kind)
  BY <1>1, <1>6 DEF BaseInv, PhaseInv
<1>8. Log[i] \in LogRecord /\ Log[i].type = "OP"
  BY <1>7, OpFields
<1>9. Log[i].op.kind \in Kinds
  BY <1>8, RecordFields DEF Kinds
<1>10. INFINITY_TXN \notin Live
  BY <1>6, CommittedAreXids DEF BaseInv, StoreTypeOK
<1> QED
  BY <1>2, <1>3, <1>4, <1>5, <1>6, <1>7, <1>9, <1>10

\* The operations before the one that is applied have been applied.
LEMMA AppliedBefore ==
  ASSUME BaseInv, phase = "replay", NEW i, ReplayStep(i), NEW kind, NEW j \in Ops(kind), j < i
  PROVE  j \notin replay
<1>1. \A k \in replay : i <= k
  BY DEF ReplayStep
<1>2. i \in Nat /\ j \in Nat
  BY ReplayFrame, OpFields
<1> QED
  BY SMTT(30), <1>1, <1>2

\* An insert lands on its RID: as many rows were there as were logged before it.
LEMMA InsertLands ==
  ASSUME CardinalityFacts, BaseInv, phase = "replay", ReplayInv, NEW i \in Ops("heap_insert"), ReplayStep(i)
  PROVE  /\ Log[i].op.rid = Len(heap) + 1
         /\ Len(heap) + 1 = Len(ckpt.heap) + Cardinality(Ops("heap_insert") \ replay')
<1> DEFINE ins == Ops("heap_insert")
           done == ins \ replay
<1>1. /\ i \in replay /\ replay' = replay \ {i} /\ \A j \in replay : i <= j
  BY DEF ReplayStep
<1>2. /\ \A j \in done, k \in replay : j < k
      /\ Len(heap) = Len(ckpt.heap) + Cardinality(done)
      /\ \A j \in ins : Log[j].op.rid = Len(ckpt.heap) + Cardinality({k \in ins : k <= j})
  BY DEF ReplayInv, Kinds
<1>3. ins \subseteq 1..Len(Log) /\ Len(Log) \in Nat /\ Len(ckpt.heap) \in Nat
  <2>1. ins \subseteq 1..Len(Log)
    BY OpFields
  <2> QED
    BY SMTT(30), <2>1, LogView DEF BaseInv, StoreTypeOK
<1> HIDE DEF ins
<1>4. done \subseteq 1..Len(Log)
  BY <1>3
<1>5. i \in ins /\ i \notin done /\ i \in Nat
  BY SMTT(30), <1>1, <1>3 DEF ins
<1>6. {k \in ins : k <= i} = done \cup {i}
  <2>1. ASSUME NEW k \in ins, k <= i PROVE k \in done \cup {i}
    BY SMTT(30), <1>1, <1>3, <1>5, <2>1
  <2>2. ASSUME NEW k \in done PROVE k \in ins /\ k <= i
    BY SMTT(30), <1>1, <1>2, <1>3, <1>5
  <2>3. i <= i
    BY SMTT(30), <1>5
  <2> HIDE DEF done
  <2>4. \A k : (k \in ins /\ k <= i) <=> (k \in done \/ k = i)
    BY <1>5, <2>1, <2>2, <2>3
  <2> QED
    BY <2>4
<1>7. ins \ replay' = done \cup {i}
  BY <1>1, <1>5
<1>8. Cardinality(done \cup {i}) = Cardinality(done) + 1 /\ Cardinality(done) \in Nat
  BY <1>3, <1>4, <1>5 DEF CardinalityFacts
<1>9. Log[i].op.rid = Len(ckpt.heap) + Cardinality(done \cup {i})
  BY <1>2, <1>5, <1>6
<1> HIDE DEF done
<1>10. Len(heap) + 1 = Len(ckpt.heap) + Cardinality(done \cup {i})
  BY SMTT(30), <1>2, <1>3, <1>8
<1>11. Log[i].op.rid = Len(heap) + 1
  BY <1>9, <1>10
<1>12. Len(heap) + 1 = Len(ckpt.heap) + Cardinality(ins \ replay')
  BY <1>7, <1>10
<1> QED
  BY <1>11, <1>12 DEF ins

\* Replaying an insert.
LEMMA ReplayInsert ==
  ASSUME CardinalityFacts, BaseInv, phase = "replay", LoggedInv, AppliedInv, ReplayInv,
         NEW i \in Ops("heap_insert"), ReplayStep(i)
  PROVE  /\ RowsApplied' /\ StampsApplied' /\ EntriesApplied' /\ HeapIds'
         /\ Len(heap') = Len(heap) + 1
<1> DEFINE C == CommittedTxns(wal)
           ins == Ops("heap_insert")
           stamps == Ops("heap_set_xmax")
           entries == Ops("btree_insert")
           new == Len(heap) + 1
<1>1. /\ C' = C /\ Log' = Log /\ Live' = Live /\ C = Live
      /\ ins' = ins /\ stamps' = stamps /\ entries' = entries
      /\ \A x : Indexed(x)' <=> Indexed(x)
      /\ ckpt' = ckpt /\ abortedXids' = abortedXids
      /\ \A j \in ins : Log[j].txn \in Live
      /\ INFINITY_TXN \notin Live
  BY ReplayFrame DEF ReplayStep
<1>2. /\ i \in ins /\ i \in Nat /\ i \notin stamps /\ i \notin entries
      /\ Log[i].op.kind = "heap_insert" /\ Log[i] \in LogRecord /\ Log[i].type = "OP"
      /\ Log[i].op.tuple.xmin = Log[i].txn /\ Log[i].op.tuple.xmax = INFINITY_TXN
  BY OpFields DEF Ops
<1>3. i \in replay /\ replay' = replay \ {i} /\ ApplyRecoveryOp(Log[i].op)
  BY DEF ReplayStep
<1>4. heap \in Seq(Row) /\ index \in SUBSET Entry /\ Len(heap) \in Nat
  BY SMTT(30) DEF BaseInv, StoreTypeOK, TypeOK
<1>5. /\ Len(heap') = new /\ heap'[new] = Log[i].op.tuple
      /\ \A r \in 1..Len(heap) : heap'[r] = heap[r]
      /\ index' = index
  <2> DEFINE rec == Log[i]
  <2>1. rec \in LogRecord /\ rec.type = "OP" /\ ApplyRecoveryOp(rec.op) /\ rec.op.kind = "heap_insert"
    BY <1>2, <1>3
  <2> HIDE DEF rec
  <2>2. /\ Len(heap') = Len(heap) + 1 /\ heap'[Len(heap) + 1] = rec.op.tuple
        /\ \A r \in 1..Len(heap) : heap'[r] = heap[r]
        /\ index' = index
    BY <1>4, <2>1, ReplayShape
  <2> QED
    BY <2>2 DEF rec
<1>6. Log[i].op.rid = new
  BY InsertLands
<1>7. /\ ins \ replay' = (ins \ replay) \cup {i} /\ stamps \ replay' = stamps \ replay
      /\ entries \cap replay' = entries \cap replay
  BY <1>2, <1>3
<1>8. /\ RowsApplied /\ StampsApplied /\ EntriesApplied /\ HeapIds
      /\ StampsLogged /\ EntriesLogged
  BY DEF AppliedInv, LoggedInv
<1>9. Len(ckpt.heap) \in Nat /\ Len(ckpt.heap) <= Len(heap)
  BY SMTT(30), <1>8 DEF BaseInv, StoreTypeOK, RowsApplied
<1>10. /\ \A r \in 1..Len(heap') : r \in 1..Len(heap) \/ r = new
       /\ \A r \in 1..Len(heap) : r \in 1..Len(heap')
       /\ \A r \in 1..Len(ckpt.heap) : r \in 1..Len(heap)
       /\ new \in 1..Len(heap') /\ new > Len(ckpt.heap) /\ new \notin 1..Len(heap)
       /\ Len(ckpt.heap) <= Len(heap')
  BY SMTT(30), <1>4, <1>5, <1>9
<1>11. /\ heap'[new].xmin = Log[i].txn /\ heap'[new].xmax = INFINITY_TXN
       /\ heap'[new].val = Log[i].op.tuple.val
  BY <1>2, <1>5
<1> HIDE DEF C, ins, stamps, entries, new
<1>12. RowsApplied'
  <2>1. /\ \A r \in 1..Len(ckpt.heap) :
             /\ heap[r].xmin = ckpt.heap[r].xmin /\ heap[r].val = ckpt.heap[r].val
             /\ ckpt.heap[r].xmax \in C => heap[r].xmax = ckpt.heap[r].xmax
        /\ \A j \in ins \ replay :
             /\ Log[j].op.rid \in 1..Len(heap)
             /\ heap[Log[j].op.rid].xmin = Log[j].txn
             /\ heap[Log[j].op.rid].val = Log[j].op.tuple.val
        /\ \A r \in 1..Len(heap) : r > Len(ckpt.heap) /\ heap[r].xmin \in Live =>
             \E j \in ins \ replay : Log[j].op.rid = r
    BY <1>8 DEF RowsApplied, C, ins
  <2>2. \A r \in 1..Len(ckpt.heap) :
          /\ heap'[r].xmin = ckpt.heap[r].xmin /\ heap'[r].val = ckpt.heap[r].val
          /\ ckpt.heap[r].xmax \in C => heap'[r].xmax = ckpt.heap[r].xmax
    BY <1>5, <1>10, <2>1
  <2>3. ASSUME NEW j \in ins \ replay'
        PROVE  /\ Log[j].op.rid \in 1..Len(heap')
               /\ heap'[Log[j].op.rid].xmin = Log[j].txn
               /\ heap'[Log[j].op.rid].val = Log[j].op.tuple.val
    BY SMTT(30), <1>5, <1>6, <1>7, <1>10, <1>11, <2>1, <2>3
  <2>4. ASSUME NEW r \in 1..Len(heap'), r > Len(ckpt.heap), heap'[r].xmin \in Live
        PROVE  \E j \in ins \ replay' : Log[j].op.rid = r
    <3>1. CASE r = new
      BY <1>6, <1>7, <3>1
    <3>2. CASE r \in 1..Len(heap)
      BY <1>5, <1>7, <2>1, <2>4, <3>2
    <3> QED
      BY <1>10, <3>1, <3>2
  <2> QED
    BY <1>1, <1>10, <2>2, <2>3, <2>4 DEF RowsApplied, C, ins
<1>13. StampsApplied'
  <2>1. /\ \A j \in stamps \ replay : Log[j].op.rid \in 1..Len(heap) /\ heap[Log[j].op.rid].xmax = Log[j].txn
        /\ \A r \in 1..Len(heap) : heap[r].xmax \in Live =>
             \/ \E j \in stamps \ replay : Log[j].op.rid = r
             \/ r <= Len(ckpt.heap) /\ ckpt.heap[r].xmax = heap[r].xmax
    BY <1>8 DEF StampsApplied, stamps
  <2>2. \A j \in stamps \ replay' : Log[j].op.rid \in 1..Len(heap') /\ heap'[Log[j].op.rid].xmax = Log[j].txn
    BY <1>5, <1>7, <1>10, <2>1
  <2>3. ASSUME NEW r \in 1..Len(heap'), heap'[r].xmax \in Live
        PROVE  \/ \E j \in stamps \ replay' : Log[j].op.rid = r
               \/ r <= Len(ckpt.heap) /\ ckpt.heap[r].xmax = heap'[r].xmax
    <3>1. r \in 1..Len(heap) /\ heap'[r] = heap[r]
      BY <1>1, <1>5, <1>10, <1>11, <2>3
    <3> QED
      BY <1>7, <2>1, <2>3, <3>1
  <2> QED
    BY <1>1, <2>2, <2>3 DEF StampsApplied, stamps
<1>14. EntriesApplied'
  <2>1. /\ \A e \in index : e.rid \in 1..Len(heap) /\ heap[e.rid].val = e.key
        /\ \A r \in 1..Len(heap) : heap[r].xmin \in Live /\ Indexed(heap[r].xmin) =>
             \/ EntryFor(heap[r], r) \in index
             \/ \E j \in entries \cap replay : Log[j].op.rid = r /\ Log[j].op.key = heap[r].val
    BY <1>8 DEF EntriesApplied, entries
  <2>2. \A e \in index' : e.rid \in 1..Len(heap') /\ heap'[e.rid].val = e.key
    BY <1>5, <1>10, <2>1
  <2>3. ASSUME NEW r \in 1..Len(heap'), heap'[r].xmin \in Live, Indexed(heap'[r].xmin)
        PROVE  \/ EntryFor(heap'[r], r) \in index'
               \/ \E j \in entries \cap replay' : Log[j].op.rid = r /\ Log[j].op.key = heap'[r].val
    <3>1. CASE r \in 1..Len(heap)
      <4>1. heap'[r] = heap[r]
        BY <1>5, <3>1
      <4>2. \/ EntryFor(heap[r], r) \in index
            \/ \E j \in entries \cap replay : Log[j].op.rid = r /\ Log[j].op.key = heap[r].val
        BY <2>1, <2>3, <3>1, <4>1
      <4> QED
        BY <1>5, <1>7, <4>1, <4>2
    <3>2. CASE r = new
      <4>1. Indexed(Log[i].txn)
        BY <1>11, <2>3, <3>2
      <4>2. PICK j \in entries : RowAndEntry(i, j)
        BY <1>2, <1>8, <4>1 DEF EntriesLogged, ins, entries
      <4>3. Log[j].op.rid = new /\ Log[j].op.key = heap'[new].val
        BY <1>6, <1>11, <4>2 DEF RowAndEntry
      <4>4. j \in replay
        <5>1. SUFFICES ASSUME j \notin replay PROVE FALSE
          OBVIOUS
        <5>2. PICK k \in ins : k < j /\ RowAndEntry(k, j)
          BY <1>8 DEF EntriesLogged, ins, entries
        <5>3. j < i
          BY <1>3, <5>1 DEF ReplayInv, Kinds, entries
        <5>4. k \in Nat /\ j \in Nat
          BY OpFields DEF ins, entries
        <5>5. k < i
          BY SMTT(30), <1>2, <5>2, <5>3, <5>4
        <5>6. k \notin replay
          BY <5>5, AppliedBefore DEF ins
        <5>7. Log[k].op.rid \in 1..Len(heap)
          BY <1>8, <5>6 DEF RowsApplied, ins
        <5> QED
          BY <1>10, <4>3, <5>2, <5>7 DEF RowAndEntry
      <4> QED
        BY <1>7, <3>2, <4>3, <4>4
    <3> QED
      BY <1>10, <3>1, <3>2
  <2> QED
    BY <1>1, <2>2, <2>3 DEF EntriesApplied, EntryFor, entries
<1>15. HeapIds'
  <2>1. \A r \in 1..Len(heap) : heap[r].xmin \in Live \cup abortedXids
                                /\ heap[r].xmax \in Live \cup abortedXids \cup {INFINITY_TXN}
    BY <1>8 DEF HeapIds
  <2>2. Log[i].txn \in Live
    BY <1>1, <1>2
  <2>3. \A r \in 1..Len(heap') : heap'[r].xmin \in Live \cup abortedXids
                                 /\ heap'[r].xmax \in Live \cup abortedXids \cup {INFINITY_TXN}
    BY <1>5, <1>10, <1>11, <2>1, <2>2
  <2> QED
    BY <1>1, <2>3 DEF HeapIds
<1> QED
  BY <1>5, <1>12, <1>13, <1>14, <1>15 DEF new

\* Replaying a stamp.
LEMMA ReplayStamp ==
  ASSUME BaseInv, phase = "replay", LoggedInv, AppliedInv, ReplayInv,
         NEW i \in Ops("heap_set_xmax"), ReplayStep(i)
  PROVE  /\ RowsApplied' /\ StampsApplied' /\ EntriesApplied' /\ HeapIds'
         /\ Len(heap') = Len(heap)
<1> DEFINE C == CommittedTxns(wal)
           ins == Ops("heap_insert")
           stamps == Ops("heap_set_xmax")
           entries == Ops("btree_insert")
           at == Log[i].op.rid
           by == Log[i].txn
<1>1. /\ C' = C /\ Log' = Log /\ Live' = Live /\ C = Live
      /\ ins' = ins /\ stamps' = stamps /\ entries' = entries
      /\ \A x : Indexed(x)' <=> Indexed(x)
      /\ ckpt' = ckpt /\ abortedXids' = abortedXids
  BY ReplayFrame DEF ReplayStep
<1>2. /\ i \in stamps /\ i \in Nat /\ i \notin ins /\ i \notin entries
      /\ Log[i].op.kind = "heap_set_xmax" /\ Log[i] \in LogRecord /\ Log[i].type = "OP"
      /\ by \in Live
  BY OpFields DEF Ops
<1>3. i \in replay /\ replay' = replay \ {i} /\ ApplyRecoveryOp(Log[i].op)
  BY DEF ReplayStep
<1>4. heap \in Seq(Row) /\ index \in SUBSET Entry /\ Len(heap) \in Nat
  BY SMTT(30) DEF BaseInv, StoreTypeOK, TypeOK
<1>5. /\ Len(heap') = Len(heap) /\ index' = index
      /\ \A r \in 1..Len(heap) : heap'[r].xmin = heap[r].xmin /\ heap'[r].val = heap[r].val
      /\ \A r \in 1..Len(heap) : r # at => heap'[r] = heap[r]
      /\ at \in 1..Len(heap) => heap'[at].xmax = by
  <2> DEFINE rec == Log[i]
  <2>1. rec \in LogRecord /\ rec.type = "OP" /\ ApplyRecoveryOp(rec.op) /\ rec.op.kind = "heap_set_xmax"
    BY <1>2, <1>3
  <2> HIDE DEF rec
  <2>2. /\ Len(heap') = Len(heap) /\ index' = index
        /\ \A r \in 1..Len(heap) : heap'[r].xmin = heap[r].xmin /\ heap'[r].val = heap[r].val
        /\ \A r \in 1..Len(heap) :
             heap'[r] = IF r = rec.op.rid THEN WithXmax(heap[r], rec.txn) ELSE heap[r]
    BY <1>4, <2>1, ReplayShape
  <2>3. \A r \in 1..Len(heap) : r # rec.op.rid => heap'[r] = heap[r]
    BY <2>2
  <2>4. ASSUME rec.op.rid \in 1..Len(heap) PROVE heap'[rec.op.rid].xmax = rec.txn
    <3>1. heap'[rec.op.rid] = WithXmax(heap[rec.op.rid], rec.txn)
      BY <2>2, <2>4
    <3>2. heap[rec.op.rid] \in Row
      BY SMTT(30), <1>4, <2>4
    <3> QED
      BY SMTT(30), <3>1, <3>2 DEF WithXmax, Row
  <2> QED
    BY <2>2, <2>3, <2>4 DEF rec
<1>6. /\ ins \ replay' = ins \ replay /\ stamps \ replay' = (stamps \ replay) \cup {i}
      /\ entries \cap replay' = entries \cap replay
  BY <1>2, <1>3
<1>7. /\ RowsApplied /\ StampsApplied /\ EntriesApplied /\ HeapIds
      /\ StampsLogged
  BY DEF AppliedInv, LoggedInv
<1>8. Len(ckpt.heap) \in Nat /\ Len(ckpt.heap) <= Len(heap)
  BY SMTT(30), <1>7 DEF BaseInv, StoreTypeOK, RowsApplied
<1>9. \A r \in 1..Len(ckpt.heap) : r \in 1..Len(heap)
  BY SMTT(30), <1>4, <1>8
<1> HIDE DEF at, by
<1>10. /\ at \in 1..Len(ckpt.heap) \/ \E j \in ins : j < i /\ Log[j].op.rid = at
       /\ \A j \in stamps : Log[j].op.rid = at => Log[j].txn = by
       /\ at \in 1..Len(ckpt.heap) => ckpt.heap[at].xmax \notin C
  BY <1>2, <1>7 DEF StampsLogged, at, by
<1>11. at \in 1..Len(heap)
  <2>1. CASE at \in 1..Len(ckpt.heap)
    BY <1>9, <2>1
  <2>2. ASSUME NEW j \in ins, j < i, Log[j].op.rid = at PROVE at \in 1..Len(heap)
    <3>1. j \notin replay
      BY <2>2, AppliedBefore
    <3> QED
      BY <1>7, <2>2, <3>1 DEF RowsApplied
  <2> QED
    BY <1>10, <2>1, <2>2
<1> HIDE DEF C, ins, stamps, entries
<1>12. RowsApplied'
  <2>1. /\ \A r \in 1..Len(ckpt.heap) :
             /\ heap[r].xmin = ckpt.heap[r].xmin /\ heap[r].val = ckpt.heap[r].val
             /\ ckpt.heap[r].xmax \in C => heap[r].xmax = ckpt.heap[r].xmax
        /\ \A j \in ins \ replay :
             /\ Log[j].op.rid \in 1..Len(heap)
             /\ heap[Log[j].op.rid].xmin = Log[j].txn
             /\ heap[Log[j].op.rid].val = Log[j].op.tuple.val
        /\ \A r \in 1..Len(heap) : r > Len(ckpt.heap) /\ heap[r].xmin \in Live =>
             \E j \in ins \ replay : Log[j].op.rid = r
    BY <1>7 DEF RowsApplied, C, ins
  <2>2. \A r \in 1..Len(ckpt.heap) :
          /\ heap'[r].xmin = ckpt.heap[r].xmin /\ heap'[r].val = ckpt.heap[r].val
          /\ ckpt.heap[r].xmax \in C => heap'[r].xmax = ckpt.heap[r].xmax
    BY SMTT(30), <1>5, <1>9, <1>10, <2>1
  <2>3. \A j \in ins \ replay' :
          /\ Log[j].op.rid \in 1..Len(heap')
          /\ heap'[Log[j].op.rid].xmin = Log[j].txn
          /\ heap'[Log[j].op.rid].val = Log[j].op.tuple.val
    BY <1>5, <1>6, <2>1
  <2>4. \A r \in 1..Len(heap') : r > Len(ckpt.heap) /\ heap'[r].xmin \in Live =>
          \E j \in ins \ replay' : Log[j].op.rid = r
    BY <1>5, <1>6, <2>1
  <2>5. Len(ckpt.heap) <= Len(heap')
    BY <1>5, <1>8
  <2> QED
    BY <1>1, <2>2, <2>3, <2>4, <2>5 DEF RowsApplied, C, ins
<1>13. StampsApplied'
  <2>1. /\ \A j \in stamps \ replay : Log[j].op.rid \in 1..Len(heap) /\ heap[Log[j].op.rid].xmax = Log[j].txn
        /\ \A r \in 1..Len(heap) : heap[r].xmax \in Live =>
             \/ \E j \in stamps \ replay : Log[j].op.rid = r
             \/ r <= Len(ckpt.heap) /\ ckpt.heap[r].xmax = heap[r].xmax
    BY <1>7 DEF StampsApplied, stamps
  <2>2. ASSUME NEW j \in stamps \ replay'
        PROVE  Log[j].op.rid \in 1..Len(heap') /\ heap'[Log[j].op.rid].xmax = Log[j].txn
    <3>1. CASE Log[j].op.rid = at
      BY <1>5, <1>10, <1>11, <2>2, <3>1
    <3>2. CASE Log[j].op.rid # at
      <4>1. j \in stamps \ replay
        BY <1>6, <2>2, <3>2 DEF at
      <4> QED
        BY <1>5, <2>1, <3>2, <4>1
    <3> QED
      BY <3>1, <3>2
  <2>3. ASSUME NEW r \in 1..Len(heap'), heap'[r].xmax \in Live
        PROVE  \/ \E j \in stamps \ replay' : Log[j].op.rid = r
               \/ r <= Len(ckpt.heap) /\ ckpt.heap[r].xmax = heap'[r].xmax
    <3>1. CASE r = at
      BY <1>6, <3>1 DEF at
    <3>2. CASE r # at
      BY <1>5, <1>6, <2>1, <2>3, <3>2
    <3> QED
      BY <3>1, <3>2
  <2> QED
    BY <1>1, <2>2, <2>3 DEF StampsApplied, stamps
<1>14. EntriesApplied'
  <2>1. /\ \A e \in index : e.rid \in 1..Len(heap) /\ heap[e.rid].val = e.key
        /\ \A r \in 1..Len(heap) : heap[r].xmin \in Live /\ Indexed(heap[r].xmin) =>
             \/ EntryFor(heap[r], r) \in index
             \/ \E j \in entries \cap replay : Log[j].op.rid = r /\ Log[j].op.key = heap[r].val
    BY <1>7 DEF EntriesApplied, entries
  <2>2. \A e \in index' : e.rid \in 1..Len(heap') /\ heap'[e.rid].val = e.key
    BY <1>5, <2>1
  <2>3. ASSUME NEW r \in 1..Len(heap'), heap'[r].xmin \in Live, Indexed(heap'[r].xmin)
        PROVE  \/ EntryFor(heap'[r], r) \in index'
               \/ \E j \in entries \cap replay' : Log[j].op.rid = r /\ Log[j].op.key = heap'[r].val
    <3>1. heap'[r].xmin = heap[r].xmin /\ heap'[r].val = heap[r].val /\ r \in 1..Len(heap)
      BY <1>5, <2>3
    <3>2. EntryFor(heap'[r], r) = EntryFor(heap[r], r)
      BY <3>1 DEF EntryFor
    <3> QED
      BY SMTT(30), <1>5, <1>6, <2>1, <2>3, <3>1, <3>2
  <2> QED
    BY <1>1, <2>2, <2>3 DEF EntriesApplied, EntryFor, entries
<1>15. HeapIds'
  <2>1. \A r \in 1..Len(heap) : heap[r].xmin \in Live \cup abortedXids
                                /\ heap[r].xmax \in Live \cup abortedXids \cup {INFINITY_TXN}
    BY <1>7 DEF HeapIds
  <2>2. by \in Live
    BY <1>2 DEF by
  <2>3. \A r \in 1..Len(heap') : heap'[r].xmin \in Live \cup abortedXids
                                 /\ heap'[r].xmax \in Live \cup abortedXids \cup {INFINITY_TXN}
    BY <1>5, <1>11, <2>1, <2>2
  <2> QED
    BY <1>1, <2>3 DEF HeapIds
<1> QED
  BY <1>5, <1>12, <1>13, <1>14, <1>15

\* Replaying an index entry.
LEMMA ReplayEntry ==
  ASSUME BaseInv, phase = "replay", LoggedInv, AppliedInv, ReplayInv,
         NEW i \in Ops("btree_insert"), ReplayStep(i)
  PROVE  /\ RowsApplied' /\ StampsApplied' /\ EntriesApplied' /\ HeapIds'
         /\ Len(heap') = Len(heap)
<1> DEFINE ins == Ops("heap_insert")
           stamps == Ops("heap_set_xmax")
           entries == Ops("btree_insert")
           new == [key |-> Log[i].op.key, rid |-> Log[i].op.rid]
<1>1. /\ CommittedTxns(wal)' = CommittedTxns(wal) /\ Log' = Log /\ Live' = Live
      /\ ins' = ins /\ stamps' = stamps /\ entries' = entries
      /\ \A x : Indexed(x)' <=> Indexed(x)
      /\ ckpt' = ckpt /\ abortedXids' = abortedXids
  BY ReplayFrame DEF ReplayStep
<1>2. /\ i \in entries /\ i \in Nat /\ i \notin ins /\ i \notin stamps
      /\ Log[i].op.kind = "btree_insert" /\ Log[i] \in LogRecord /\ Log[i].type = "OP"
  BY OpFields DEF Ops
<1>3. i \in replay /\ replay' = replay \ {i} /\ ApplyRecoveryOp(Log[i].op)
  BY DEF ReplayStep
<1>4. heap \in Seq(Row) /\ index \in SUBSET Entry /\ Len(heap) \in Nat
  BY SMTT(30) DEF BaseInv, StoreTypeOK, TypeOK
<1>5. heap' = heap /\ index' = index \cup {new}
  <2> DEFINE rec == Log[i]
  <2>1. rec \in LogRecord /\ rec.type = "OP" /\ ApplyRecoveryOp(rec.op) /\ rec.op.kind = "btree_insert"
    BY <1>2, <1>3
  <2> HIDE DEF rec
  <2>2. heap' = heap /\ index' = index \cup {[key |-> rec.op.key, rid |-> rec.op.rid]}
    BY <1>4, <2>1, ReplayShape
  <2> QED
    BY <2>2 DEF rec
<1>6. /\ ins \ replay' = ins \ replay /\ stamps \ replay' = stamps \ replay
      /\ \A j \in entries \cap replay : j \in entries \cap replay' \/ j = i
  BY <1>2, <1>3
<1>7. RowsApplied /\ StampsApplied /\ EntriesApplied /\ HeapIds /\ EntriesLogged
  BY DEF AppliedInv, LoggedInv
<1>8. new.rid \in 1..Len(heap) /\ heap[new.rid].val = new.key
  <2>1. PICK j \in ins : j < i /\ RowAndEntry(j, i)
    BY <1>7 DEF EntriesLogged
  <2>2. j \notin replay
    BY <2>1, AppliedBefore
  <2>3. Log[j].op.rid \in 1..Len(heap) /\ heap[Log[j].op.rid].val = Log[j].op.tuple.val
    BY <1>7, <2>2 DEF RowsApplied
  <2> QED
    BY <2>1, <2>3 DEF RowAndEntry
<1>9. \A r : Log[i].op.rid = r /\ Log[i].op.key = heap[r].val => EntryFor(heap[r], r) = new
  BY DEF EntryFor
<1> HIDE DEF new, ins, stamps, entries
<1>10. RowsApplied'
  <2>1. /\ Len(ckpt.heap) <= Len(heap)
        /\ \A r \in 1..Len(ckpt.heap) :
             /\ heap[r].xmin = ckpt.heap[r].xmin /\ heap[r].val = ckpt.heap[r].val
             /\ ckpt.heap[r].xmax \in CommittedTxns(wal) => heap[r].xmax = ckpt.heap[r].xmax
        /\ \A j \in ins \ replay' :
             /\ Log[j].op.rid \in 1..Len(heap)
             /\ heap[Log[j].op.rid].xmin = Log[j].txn
             /\ heap[Log[j].op.rid].val = Log[j].op.tuple.val
        /\ \A r \in 1..Len(heap) : r > Len(ckpt.heap) /\ heap[r].xmin \in Live =>
             \E j \in ins \ replay' : Log[j].op.rid = r
    BY <1>6, <1>7 DEF RowsApplied, ins
  <2> QED
    BY <1>1, <1>5, <2>1 DEF RowsApplied, ins
<1>11. StampsApplied'
  <2>1. /\ \A j \in stamps \ replay' : Log[j].op.rid \in 1..Len(heap) /\ heap[Log[j].op.rid].xmax = Log[j].txn
        /\ \A r \in 1..Len(heap) : heap[r].xmax \in Live =>
             \/ \E j \in stamps \ replay' : Log[j].op.rid = r
             \/ r <= Len(ckpt.heap) /\ ckpt.heap[r].xmax = heap[r].xmax
    BY <1>6, <1>7 DEF StampsApplied, stamps
  <2> QED
    BY <1>1, <1>5, <2>1 DEF StampsApplied, stamps
<1>12. EntriesApplied'
  <2>1. /\ \A e \in index : e.rid \in 1..Len(heap) /\ heap[e.rid].val = e.key
        /\ \A r \in 1..Len(heap) : heap[r].xmin \in Live /\ Indexed(heap[r].xmin) =>
             \/ EntryFor(heap[r], r) \in index
             \/ \E j \in entries \cap replay : Log[j].op.rid = r /\ Log[j].op.key = heap[r].val
    BY <1>7 DEF EntriesApplied, entries
  <2>2. \A e \in index' : e.rid \in 1..Len(heap') /\ heap'[e.rid].val = e.key
    BY <1>5, <1>8, <2>1
  <2>3. ASSUME NEW r \in 1..Len(heap'), heap'[r].xmin \in Live, Indexed(heap'[r].xmin)
        PROVE  \/ EntryFor(heap'[r], r) \in index'
               \/ \E j \in entries \cap replay' : Log[j].op.rid = r /\ Log[j].op.key = heap'[r].val
    <3>1. \/ EntryFor(heap[r], r) \in index
          \/ \E j \in entries \cap replay : Log[j].op.rid = r /\ Log[j].op.key = heap[r].val
      BY <1>5, <2>1, <2>3
    <3>2. ASSUME NEW j \in entries \cap replay, Log[j].op.rid = r, Log[j].op.key = heap[r].val
          PROVE  EntryFor(heap[r], r) = new \/ j \in entries \cap replay'
      BY <1>6, <1>9, <3>2
    <3> QED
      BY <1>5, <3>1, <3>2
  <2> QED
    BY <1>1, <2>2, <2>3 DEF EntriesApplied, EntryFor, entries
<1>13. HeapIds'
  BY <1>1, <1>5, <1>7 DEF HeapIds
<1> QED
  BY <1>5, <1>10, <1>11, <1>12, <1>13

\* The invariants through a step of recovery.
LEMMA ReplayRecovery ==
  ASSUME CardinalityFacts, BaseInv, phase = "replay", LoggedInv, AppliedInv, ReplayInv, NEW i, ReplayStep(i)
  PROVE  LoggedInv' /\ AppliedInv' /\ ReplayInv' /\ \A v \in Values : Survivors(v)' = Survivors(v)
<1>1. /\ CommittedTxns(wal)' = CommittedTxns(wal) /\ Log' = Log /\ Live' = Live
      /\ \A kind : Ops(kind)' = Ops(kind) /\ \A j \in Ops(kind) : Log[j].txn \in Live
      /\ \A x : Indexed(x)' <=> Indexed(x)
      /\ Log[i].op.kind \in Kinds /\ i \in Ops(Log[i].op.kind)
      /\ \A kind, j : j \in Ops(kind) => Log[j].op.kind = kind
  BY ReplayFrame
<1>2. /\ ckpt' = ckpt /\ abortedXids' = abortedXids
      /\ i \in replay /\ replay' = replay \ {i} /\ \A j \in replay : i <= j
  BY DEF ReplayStep
<1>3. LoggedInv'
  <2>1. StampsLogged /\ EntriesLogged /\ CkptIndexed
    BY DEF LoggedInv
  <2>2. CommittedTxns(wal)' \subseteq Live'
    BY <1>1 DEF Live
  <2>3. StampsLogged' /\ EntriesLogged' /\ CkptIndexed'
    BY <1>1, <1>2, <2>1, <2>2, KeepLogged
  <2> QED
    BY <2>3 DEF LoggedInv
<1>4. \A v \in Values : Survivors(v)' = Survivors(v)
  BY SMTT(30), <1>1, <1>2 DEF Survivors, StampedIn
<1>5. CkptIds'
  BY <1>1, <1>2 DEF CkptIds, AppliedInv
<1>6. /\ RowsApplied' /\ StampsApplied' /\ EntriesApplied' /\ HeapIds'
      /\ Len(heap') = Len(ckpt.heap) + Cardinality(Ops("heap_insert") \ replay')
  <2>1. CASE Log[i].op.kind = "heap_insert"
    <3>1. i \in Ops("heap_insert")
      BY <1>1, <2>1
    <3>2. /\ RowsApplied' /\ StampsApplied' /\ EntriesApplied' /\ HeapIds'
          /\ Len(heap') = Len(heap) + 1
      BY <3>1, ReplayInsert
    <3> QED
      BY <3>1, <3>2, InsertLands
  <2>2. CASE Log[i].op.kind # "heap_insert"
    <3>1. Ops("heap_insert") \ replay' = Ops("heap_insert") \ replay
      BY <1>1, <1>2, <2>2
    <3>2. Len(heap) = Len(ckpt.heap) + Cardinality(Ops("heap_insert") \ replay)
      BY DEF ReplayInv
    <3>3. i \in Ops("heap_set_xmax") \/ i \in Ops("btree_insert")
      BY <1>1, <2>2 DEF Kinds
    <3>4. /\ RowsApplied' /\ StampsApplied' /\ EntriesApplied' /\ HeapIds'
          /\ Len(heap') = Len(heap)
      BY <3>3, ReplayStamp, ReplayEntry
    <3> QED
      BY <3>1, <3>2, <3>4
  <2> QED
    BY <2>1, <2>2
<1>7. ReplayInv'
  <2>1. ASSUME NEW kind \in Kinds, NEW k \in Ops(kind) \ replay', NEW j \in replay'
        PROVE  k < j
    <3>1. j \in replay /\ j # i /\ i <= j
      BY <1>2
    <3>2. k \in Ops(kind) \ replay \/ k = i
      BY <1>2
    <3>3. k \in Ops(kind) \ replay => k < j
      BY <3>1 DEF ReplayInv
    <3>4. i \in Nat /\ j \in Nat
      <4>1. replay \subseteq CommittedOperations(wal) /\ wal \in Seq(LogRecord)
        BY DEF BaseInv, PhaseInv, StoreTypeOK
      <4>2. CommittedOperations(wal) \subseteq DOMAIN wal
        BY DEF CommittedOperations, SinceLastCheckpoint
      <4>3. DOMAIN wal = 1..Len(wal) /\ Len(wal) \in Nat
        BY SMTT(30), <4>1
      <4> QED
        BY SMTT(30), <1>2, <3>1, <4>1, <4>2, <4>3
    <3> QED
      BY SMTT(30), <3>1, <3>2, <3>3, <3>4
  <2>2. \A j \in Ops("heap_insert") :
          Log[j].op.rid = Len(ckpt.heap) + Cardinality({k \in Ops("heap_insert") : k <= j})
    BY DEF ReplayInv
  <2> QED
    BY <1>1, <1>2, <1>6, <2>1, <2>2 DEF ReplayInv
<1> QED
  BY <1>3, <1>4, <1>5, <1>6, <1>7 DEF AppliedInv

\* _recover() keeps the invariant, one operation after the other and at its end.
LEMMA RecoveryRecovery ==
  ASSUME CardinalityFacts, BaseInv, RecoveryInv, ReplayOp \/ FinishRecovery
  PROVE  RecoveryInv'
<1> SUFFICES ASSUME sound' PROVE RecoveryInv'
  BY DEF RecoveryInv
<1>1. /\ phase = "replay" /\ sound /\ promised' = promised
      /\ UNCHANGED <<wal, walBuf, ckpt, activeXids, abortedXids, failed>>
  BY DEF ReplayOp, FinishRecovery, vars, txnVars, dataVars, logVars, historyVars
<1>2. /\ LoggedInv /\ AppliedInv /\ ReplayInv
      /\ promised = [v \in Values |-> Cardinality(Survivors(v))]
  BY <1>1 DEF RecoveryInv
<1>3. /\ LoggedInv' /\ AppliedInv' /\ (phase' = "replay" => ReplayInv')
      /\ \A v \in Values : Survivors(v)' = Survivors(v)
  <2>1. CASE ReplayOp
    <3>1. Log = wal
      BY <1>1, OpsReplayed
    <3>2. PICK i : ReplayStep(i)
      BY <1>1, <2>1, <3>1 DEF ReplayOp, ReplayStep
    <3> QED
      BY <1>1, <1>2, <3>2, ReplayRecovery
  <2>2. CASE FinishRecovery
    <3>1. UNCHANGED <<heap, index, replay>> /\ phase' = "up"
      BY <2>2 DEF FinishRecovery, vars, dataVars
    <3> QED
      BY <1>1, <1>2, <3>1, SameRecovery
  <2> QED
    BY <2>1, <2>2
<1>4. promised' = [v \in Values |-> Cardinality(Survivors(v)')]
  BY <1>1, <1>2, <1>3
<1> QED
  BY <1>3, <1>4 DEF RecoveryInv

\* A new database has an empty log.
LEMMA RecoveryInit ==
  ASSUME CardinalityFacts, DbInit
  PROVE  RecoveryInv
<1>1. /\ phase = "up" /\ wal = <<>> /\ walBuf = <<>> /\ ckpt = [heap |-> <<>>, index |-> {}]
      /\ heap = <<>> /\ index = {} /\ promised = [v \in Values |-> 0]
  BY DEF DbInit, Init
<1>2. Len(heap) = 0 /\ Len(ckpt.heap) = 0 /\ ckpt.index = {}
  BY <1>1
<1>3. \A kind : Ops(kind) = {}
  <2>1. DOMAIN Log = {}
    BY SMTT(30), <1>1 DEF Log
  <2> QED
    BY <2>1 DEF Ops, SinceLastCheckpoint
<1>4. LoggedInv
  BY SMTT(30), <1>2, <1>3 DEF LoggedInv, StampsLogged, EntriesLogged, CkptIndexed
<1>5. AppliedInv
  BY SMTT(30), <1>1, <1>2, <1>3 DEF AppliedInv, CkptIds, RowsApplied, StampsApplied, EntriesApplied, HeapIds
<1>6. \A v : Cardinality(Survivors(v)) = 0
  <2>1. \A v : Survivors(v) = {}
    BY SMTT(30), <1>2, <1>3 DEF Survivors
  <2> QED
    BY <2>1 DEF CardinalityFacts
<1> QED
  BY <1>1, <1>4, <1>5, <1>6 DEF RecoveryInv

\* Every step of the database keeps the invariant.
LEMMA RecoveryStep ==
  ASSUME CardinalityFacts, BaseInv, BaseInv', RecoveryInv, [DbNext]_dbVars, Running => Forms, ContentsMeant'
  PROVE  RecoveryInv'
<1>1. CASE UNCHANGED dbVars
  <2>1. /\ UNCHANGED <<heap, index, failed, activeXids, abortedXids, wal, walBuf, replay, ckpt>>
        /\ UNCHANGED <<phase, sound, promised>>
    BY <1>1 DEF dbVars, vars, txnVars, dataVars, logVars, historyVars
  <2>2. /\ LoggedInv => LoggedInv'
        /\ AppliedInv => AppliedInv'
        /\ ReplayInv => ReplayInv'
        /\ \A v : Survivors(v)' = Survivors(v)
    BY <2>1, SameRecovery
  <2> QED
    BY <2>1, <2>2 DEF RecoveryInv
<1>2. CASE DbNext
  BY <1>2, RunningRecovery, WriteBackRecovery, CheckpointRecovery, StopRecovery, OpenRecovery,
     RecoveryRecovery DEF DbNext
<1> QED
  BY <1>1, <1>2

=============================================================================
