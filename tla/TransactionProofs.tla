--------------------------- MODULE TransactionProofs ---------------------------
(***************************************************************************)
(* Proofs about Transaction.tla: its inductive invariant, that it          *)
(* implements SnapshotIsolation.tla, and that its index agrees with its    *)
(* heap.  The second argument is made on sets of RIDs, from the shapes a   *)
(* step can have, and lifted to the rows of the abstract specification     *)
(* afterwards: what is stored at a RID never changes, so a set of RIDs     *)
(* keeps its identities.                                                   *)
(***************************************************************************)
EXTENDS Transaction, FiniteSetTheorems, TLAPS

\* Most leaves need first-order and set reasoning only: they go to Zenon, the others
\* name their prover.
USE ZenonT(30)

\* What begin, commit and abort keep of the type invariant.
TxnTypeOK ==
  /\ nextTxnId \in 1..(MaxTxn + 1)
  /\ activeXids \in SUBSET Xids
  /\ abortedXids \in SUBSET Xids
  /\ state \in [Xids -> {"unused", "active", "committed", "aborted"}]
  /\ snapshot \in [Xids -> SUBSET Xids]

\* Beginning, committing and aborting keep the manager's fields well typed.
LEMMA TxnTypes ==
  ASSUME TxnTypeOK, NEW t \in Xids,
         begin(t) \/ commit(t) \/ abort(t) \/ UNCHANGED txnVars
  PROVE  TxnTypeOK'
  <1> USE ConstantsAssumption DEF TxnTypeOK, Xids
  <1>1. CASE begin(t)
    BY SMTT(30), <1>1 DEF begin
  <1>2. CASE commit(t)
    BY <1>2 DEF commit
  <1>3. CASE abort(t)
    BY <1>3 DEF abort
  <1>4. CASE UNCHANGED txnVars
    BY <1>4 DEF txnVars
  <1> QED
    BY <1>1, <1>2, <1>3, <1>4

\* Stamping a version's xmax gives a heap of as many versions.
LEMMA StampTypes ==
  ASSUME heap \in Seq(Row), NEW r \in Nat, stmt.txn \in Xids
  PROVE  /\ Stamped(r) \in Seq(Row)
         /\ Len(Stamped(r)) = Len(heap)
         /\ DOMAIN Stamped(r) = DOMAIN heap
  <1>1. heap \in [1..Len(heap) -> Row] /\ Len(heap) \in Nat
    BY SMTT(30)
  <1>2. r \in 1..Len(heap) => WithXmax(heap[r], stmt.txn) \in Row
    BY <1>1 DEF Row, WithXmax
  <1>3. Stamped(r) \in [1..Len(heap) -> Row]
    BY <1>1, <1>2 DEF Stamped
  <1> QED
    BY SMTT(30), <1>1, <1>3

\* Appending a version a transaction has just packed gives a heap.
LEMMA NewRowType ==
  ASSUME NEW rows \in Seq(Row), NEW t \in Xids, NEW v \in Values
  PROVE  Append(rows, [xmin |-> t, xmax |-> INFINITY_TXN, val |-> v]) \in Seq(Row)
  BY SMTT(30) DEF Row

\* Statement, one kind at a time.
LEMMA StatementTypes ==
  ASSUME stmt \in Statement, stmt.kind # "idle"
  PROVE  /\ stmt.txn \in Xids
         /\ stmt.owns \in BOOLEAN
         /\ stmt.kind = "update" => stmt.val \in Values
         /\ stmt.kind \in {"insert", "update", "delete"}
  BY SMTT(30) DEF Statement, Idle

-----------------------------------------------------------------------------
(* Type correctness *)

\* What a raised error or a processed row does besides its writes.
LEMMA RowEnds ==
  ASSUME TypeOK, stmt.kind # "idle", NEW rest,
         IF stmt.kind = "insert" THEN rest \in Seq(Values) ELSE rest \in SUBSET Nat,
         Raise \/ Proceed(rest)
  PROVE  /\ TxnTypeOK'
         /\ stmt' \in Statement
         /\ (IF stmt.kind = "insert" THEN todo \in Seq(Values) ELSE todo \in SUBSET Nat)'
         /\ failed' \in SUBSET Xids
         /\ abort(stmt.txn) \/ UNCHANGED txnVars
  <1>1. stmt.txn \in Xids
    BY StatementTypes DEF TypeOK
  <1>2. abort(stmt.txn) \/ UNCHANGED txnVars
    BY DEF Raise, Proceed
  <1>3. TxnTypeOK'
    BY <1>1, <1>2, TxnTypes DEF TypeOK, TxnTypeOK
  <1>4. /\ stmt' \in Statement
        /\ (IF stmt.kind = "insert" THEN todo \in Seq(Values) ELSE todo \in SUBSET Nat)'
        /\ failed' \in SUBSET Xids
    <2>1. CASE Raise
      BY <2>1, <1>1 DEF Raise, TypeOK, Statement, Idle
    <2>2. CASE Proceed(rest)
      BY <2>2 DEF Proceed, TypeOK
    <2> QED
      BY <2>1, <2>2
  <1> QED
    BY <1>2, <1>3, <1>4

\* heap.insert with _insert_into_indexes: types, and how the row can end.
LEMMA InsertVersionTypes ==
  ASSUME TypeOK, stmt.kind # "idle", NEW rows \in Seq(Row), NEW v \in Values,
         NEW exclude, NEW rest,
         IF stmt.kind = "insert" THEN rest \in Seq(Values) ELSE rest \in SUBSET Nat,
         InsertVersion(rows, stmt.txn, v, exclude, rest)
  PROVE  /\ TypeOK'
         /\ abort(stmt.txn) \/ UNCHANGED txnVars
         /\ heap' = Append(rows, [xmin |-> stmt.txn, xmax |-> INFINITY_TXN, val |-> v])
  <1>1. stmt.txn \in Xids
    BY StatementTypes DEF TypeOK
  <1>2. heap' = Append(rows, [xmin |-> stmt.txn, xmax |-> INFINITY_TXN, val |-> v])
    BY DEF InsertVersion, PackTuple
  <1>3. heap' \in Seq(Row)
    BY <1>1, <1>2, NewRowType
  <1>4. Raise \/ Proceed(rest)
    BY DEF InsertVersion
  <1>5. index' \in SUBSET Entry
    <2>1. [key |-> v, rid |-> Len(rows) + 1] \in Entry
      BY SMTT(30) DEF Entry
    <2> QED
      BY <2>1 DEF InsertVersion, TypeOK
  <1>6. /\ TxnTypeOK'
        /\ stmt' \in Statement
        /\ (IF stmt.kind = "insert" THEN todo \in Seq(Values) ELSE todo \in SUBSET Nat)'
        /\ failed' \in SUBSET Xids
        /\ abort(stmt.txn) \/ UNCHANGED txnVars
    BY <1>4, RowEnds
  <1> QED
    BY <1>2, <1>3, <1>5, <1>6 DEF TypeOK, TxnTypeOK

\* Entering a statement keeps the types, whoever owns the transaction.
LEMMA EnterTypes ==
  ASSUME TypeOK, NEW t \in Xids, NEW owns \in BOOLEAN, Enter(t, owns)
  PROVE  TxnTypeOK' /\ UNCHANGED <<heap, index, failed>>
  BY TxnTypes DEF Enter, TypeOK, TxnTypeOK, dataVars

\* A row source yields RIDs of versions the snapshot sees.
LEMMA RowSourceTypes ==
  ASSUME heap \in Seq(Row), NEW s, NEW where, NEW matches \in RowSource(s, where)
  PROVE  matches \subseteq Visible(s) /\ matches \in SUBSET Nat
  <1>1. matches \subseteq Visible(s)
    BY DEF RowSource, ScanMatches, IndexMatches
  <1>2. Visible(s) \in SUBSET Nat
    <2>1. DOMAIN heap = 1..Len(heap) /\ Len(heap) \in Nat
      BY SMTT(30)
    <2> QED
      BY SMTT(30), <2>1 DEF Visible
  <1> QED
    BY <1>1, <1>2

\* Every step keeps the type invariant, one action at a time.
LEMMA TypeStep ==
  ASSUME TypeOK, [Next]_vars
  PROVE  TypeOK'
  <1> USE ConstantsAssumption
  <1>1. CASE Begin
    BY <1>1, TxnTypes DEF Begin, TypeOK, TxnTypeOK, dataVars
  <1>2. ASSUME NEW t \in Xids, Commit(t)
        PROVE  TypeOK'
    BY <1>2, TxnTypes DEF Commit, TypeOK, TxnTypeOK, dataVars
  <1>3. ASSUME NEW t \in Xids, Abort(t)
        PROVE  TypeOK'
    BY <1>3, TxnTypes DEF Abort, TypeOK, TxnTypeOK, dataVars
  <1>4. ASSUME NEW t \in Xids, NEW owns \in BOOLEAN, NEW vals \in Batches,
               StartInsert(t, owns, vals)
        PROVE  TypeOK'
    <2>1. vals \in Seq(Values)
      BY SMTT(30) DEF Batches
    <2>2. stmt' \in Statement /\ stmt'.kind = "insert" /\ todo' = vals
      BY <1>4 DEF StartInsert, Statement
    <2>3. Enter(t, owns)
      BY <1>4 DEF StartInsert
    <2> QED
      BY <2>1, <2>2, <2>3, EnterTypes DEF TypeOK, TxnTypeOK
  <1>5. ASSUME NEW t \in Xids, NEW owns \in BOOLEAN, NEW where, StartDelete(t, owns, where)
        PROVE  TypeOK'
    <2>1. todo' \in SUBSET Nat
      BY <1>5, RowSourceTypes DEF StartDelete, TypeOK
    <2>2. stmt' \in Statement /\ stmt'.kind = "delete"
      BY <1>5 DEF StartDelete, Statement
    <2>3. Enter(t, owns)
      BY <1>5 DEF StartDelete
    <2> QED
      BY <2>1, <2>2, <2>3, EnterTypes DEF TypeOK, TxnTypeOK
  <1>6. ASSUME NEW t \in Xids, NEW owns \in BOOLEAN, NEW where, NEW v \in Values,
               StartUpdate(t, owns, where, v)
        PROVE  TypeOK'
    <2>1. todo' \in SUBSET Nat
      BY <1>6, RowSourceTypes DEF StartUpdate, TypeOK
    <2>2. stmt' \in Statement /\ stmt'.kind = "update"
      BY <1>6 DEF StartUpdate, Statement
    <2>3. Enter(t, owns)
      BY <1>6 DEF StartUpdate
    <2> QED
      BY <2>1, <2>2, <2>3, EnterTypes DEF TypeOK, TxnTypeOK
  <1>7. CASE InsertRow
    <2>1. todo \in Seq(Values) /\ todo # <<>> /\ stmt.kind = "insert"
      BY <1>7 DEF InsertRow, TypeOK
    <2>2. Head(todo) \in Values /\ Tail(todo) \in Seq(Values)
      BY SMTT(30), <2>1
    <2>3. InsertVersion(heap, stmt.txn, Head(todo), {}, Tail(todo))
      BY <1>7 DEF InsertRow
    <2> QED
      BY <2>1, <2>2, <2>3, InsertVersionTypes DEF TypeOK
  <1>8. CASE UpdateRow
    <2>1. PICK r \in todo : \/ Conflict(r)
                            \/ InsertVersion(Stamped(r), stmt.txn, stmt.val, {r}, todo \ {r})
      BY <1>8 DEF UpdateRow
    <2>2. stmt.kind = "update" /\ todo \in SUBSET Nat
      BY <1>8 DEF UpdateRow, TypeOK
    <2>3. CASE Conflict(r)
      <3>1. Raise /\ UNCHANGED dataVars
        BY <2>3 DEF Conflict
      <3> QED
        BY <3>1, <2>2, RowEnds DEF TypeOK, TxnTypeOK, dataVars
    <2>4. CASE InsertVersion(Stamped(r), stmt.txn, stmt.val, {r}, todo \ {r})
      <3>1. Stamped(r) \in Seq(Row)
        BY <2>2, StampTypes, StatementTypes DEF TypeOK
      <3>2. stmt.val \in Values
        BY <2>2, StatementTypes DEF TypeOK
      <3> QED
        BY <2>2, <2>4, <3>1, <3>2, InsertVersionTypes
    <2> QED
      BY <2>1, <2>3, <2>4
  <1>9. CASE DeleteRow
    <2>1. PICK r \in todo : \/ Conflict(r)
                            \/ heap' = Stamped(r) /\ UNCHANGED index /\ Proceed(todo \ {r})
      BY <1>9 DEF DeleteRow
    <2>2. stmt.kind = "delete" /\ todo \in SUBSET Nat
      BY <1>9 DEF DeleteRow, TypeOK
    <2>3. CASE Conflict(r)
      <3>1. Raise /\ UNCHANGED dataVars
        BY <2>3 DEF Conflict
      <3> QED
        BY <3>1, <2>2, RowEnds DEF TypeOK, TxnTypeOK, dataVars
    <2>4. CASE heap' = Stamped(r) /\ UNCHANGED index /\ Proceed(todo \ {r})
      <3>1. Stamped(r) \in Seq(Row)
        BY <2>2, StampTypes, StatementTypes DEF TypeOK
      <3> QED
        BY <2>2, <2>4, <3>1, RowEnds DEF TypeOK, TxnTypeOK
    <2> QED
      BY <2>1, <2>3, <2>4
  <1>10. CASE FinishStatement
    <2>1. stmt.kind # "idle" /\ stmt.txn \in Xids
      BY <1>10, StatementTypes DEF FinishStatement, TypeOK
    <2>2. commit(stmt.txn) \/ UNCHANGED txnVars
      BY <1>10 DEF FinishStatement
    <2>3. TxnTypeOK'
      BY <2>1, <2>2, TxnTypes DEF TypeOK, TxnTypeOK
    <2> QED
      BY <1>10, <2>3 DEF FinishStatement, TypeOK, TxnTypeOK, dataVars, Statement, Idle
  <1>11. CASE UNCHANGED vars
    BY <1>11 DEF vars, txnVars, dataVars, TypeOK
  <1> QED
    BY <1>1, <1>2, <1>3, <1>4, <1>5, <1>6, <1>7, <1>8, <1>9, <1>10, <1>11 DEF Next

\* The type invariant holds initially.
LEMMA TypeInit == Init => TypeOK
  BY SMTT(30), ConstantsAssumption DEF Init, TypeOK, Xids, Statement, Idle

\* The fields of the transaction manager, the row headers and the statement in
\* progress always hold values of their kinds.
THEOREM TypeCorrect == Spec => []TypeOK
  <1>1. TypeOK /\ [Next]_vars => TypeOK'
    BY TypeStep
  <1> QED
    BY <1>1, TypeInit, PTL DEF Spec

-----------------------------------------------------------------------------
(* The shapes a step can have, as far as transactions and headers go *)

WriteShape(t) ==
  /\ state[t] = "active"
  /\ abort(t) \/ UNCHANGED txnVars
  /\ \E n \in {0, 1} : Writes(t, {}, n) \/ \E r \in 1..Len(heap) : Writes(t, {r}, n)

Shapes ==
  \/ \E t \in Xids : begin(t) /\ UNCHANGED heap
  \/ \E t \in Xids : commit(t) /\ UNCHANGED heap
  \/ \E t \in Xids : WriteShape(t)
  \/ UNCHANGED <<txnVars, heap>>

\* InsertVersion writes: it appends one version, to a heap stamped or not.
LEMMA AppendShape ==
  ASSUME heap \in Seq(Row), NEW rows \in Seq(Row), NEW new, NEW t,
         heap' = Append(rows, new), heap' \in Seq(Row),
         new.xmin = t, new.xmax = INFINITY_TXN
  PROVE  /\ rows = heap => Writes(t, {}, 1)
         /\ \A r \in 1..Len(heap) :
              /\ rows = [heap EXCEPT ![r] = WithXmax(heap[r], t)]
              /\ r \in Visible(SnapshotOf(t))
              /\ MayStamp(t, heap[r].xmax)
              => Writes(t, {r}, 1)
  <1>1. ASSUME rows = heap
        PROVE  Writes(t, {}, 1)
    BY SMTT(30), <1>1 DEF Writes
  <1>2. ASSUME NEW r \in 1..Len(heap),
               rows = [heap EXCEPT ![r] = WithXmax(heap[r], t)],
               r \in Visible(SnapshotOf(t)),
               MayStamp(t, heap[r].xmax)
        PROVE  Writes(t, {r}, 1)
    <2>1. Len(rows) = Len(heap) /\ Len(heap) \in Nat
      BY SMTT(30), <1>2
    <2>2. \A q \in 1..Len(heap) : heap'[q] = rows[q]
      BY SMTT(30), <2>1
    <2>3. \A q \in 1..Len(heap) : rows[q] = IF q \in {r} THEN WithXmax(heap[q], t) ELSE heap[q]
      BY SMTT(30), <1>2
    <2>4. heap'[Len(heap) + 1] = new /\ Len(heap') = Len(heap) + 1
      BY SMTT(30), <2>1
    <2> QED
      BY <1>2, <2>2, <2>3, <2>4 DEF Writes
  <1> QED
    BY <1>1, <1>2

\* A DELETE's stamp writes: no version appended, one stamped.
LEMMA StampShape ==
  ASSUME heap \in Seq(Row), NEW r \in 1..Len(heap), stmt.txn \in Xids,
         heap' = Stamped(r),
         r \in Visible(SnapshotOf(stmt.txn)),
         MayStamp(stmt.txn, heap[r].xmax)
  PROVE  Writes(stmt.txn, {r}, 0)
  <1>1. heap' \in Seq(Row) /\ Len(heap') = Len(heap) /\ Len(heap) \in Nat
    BY SMTT(30), StampTypes
  <1>2. \A q \in 1..Len(heap) : heap'[q] = IF q \in {r} THEN WithXmax(heap[q], stmt.txn) ELSE heap[q]
    BY SMTT(30) DEF Stamped
  <1> QED
    BY SMTT(30), <1>1, <1>2 DEF Writes

\* A heap left alone is a write of nothing.
LEMMA NoWriteShape ==
  ASSUME heap \in Seq(Row), UNCHANGED heap, NEW t
  PROVE  Writes(t, {}, 0)
  BY SMTT(30) DEF Writes

\* A row of a statement writes for the statement's transaction.
LEMMA RowShapes ==
  ASSUME TypeOK, StatementInv, InsertRow \/ UpdateRow \/ DeleteRow
  PROVE  stmt.txn \in Xids /\ WriteShape(stmt.txn)
  <1>1. CASE InsertRow
    <2>1. /\ todo \in Seq(Values) /\ todo # <<>> /\ stmt.kind = "insert"
          /\ stmt.txn \in Xids /\ state[stmt.txn] = "active" /\ heap \in Seq(Row)
      BY <1>1, StatementTypes DEF InsertRow, TypeOK, StatementInv
    <2>2. Head(todo) \in Values /\ Tail(todo) \in Seq(Values)
      BY SMTT(30), <2>1
    <2>3. InsertVersion(heap, stmt.txn, Head(todo), {}, Tail(todo))
      BY <1>1 DEF InsertRow
    <2>4. /\ abort(stmt.txn) \/ UNCHANGED txnVars
          /\ heap' \in Seq(Row)
          /\ heap' = Append(heap, [xmin |-> stmt.txn, xmax |-> INFINITY_TXN, val |-> Head(todo)])
      BY <2>1, <2>2, <2>3, InsertVersionTypes DEF TypeOK
    <2>5. Writes(stmt.txn, {}, 1)
      BY <2>1, <2>4, AppendShape
    <2> QED
      BY <2>1, <2>4, <2>5 DEF WriteShape
  <1>2. CASE UpdateRow
    <2>1. PICK r \in todo :
            \/ Conflict(r)
            \/ /\ MayStamp(stmt.txn, heap[r].xmax)
               /\ InsertVersion(Stamped(r), stmt.txn, stmt.val, {r}, todo \ {r})
      BY <1>2 DEF UpdateRow
    <2>2. /\ stmt.kind = "update" /\ todo \in SUBSET Nat /\ heap \in Seq(Row)
          /\ stmt.txn \in Xids /\ state[stmt.txn] = "active" /\ stmt.val \in Values
          /\ r \in Visible(SnapshotOf(stmt.txn))
      BY <1>2, StatementTypes DEF UpdateRow, TypeOK, StatementInv
    <2>3. r \in 1..Len(heap)
      BY SMTT(30), <2>2 DEF Visible
    <2>4. CASE Conflict(r)
      <3>1. (abort(stmt.txn) \/ UNCHANGED txnVars) /\ UNCHANGED heap
        BY <2>4 DEF Conflict, Raise, dataVars
      <3>2. Writes(stmt.txn, {}, 0)
        BY <2>2, <3>1, NoWriteShape
      <3> QED
        BY <2>2, <3>1, <3>2 DEF WriteShape
    <2>5. CASE /\ MayStamp(stmt.txn, heap[r].xmax)
               /\ InsertVersion(Stamped(r), stmt.txn, stmt.val, {r}, todo \ {r})
      <3>1. Stamped(r) \in Seq(Row)
        BY <2>2, StampTypes
      <3>2. /\ abort(stmt.txn) \/ UNCHANGED txnVars
            /\ heap' \in Seq(Row)
            /\ heap' = Append(Stamped(r), [xmin |-> stmt.txn, xmax |-> INFINITY_TXN, val |-> stmt.val])
        BY <2>2, <2>5, <3>1, InsertVersionTypes DEF TypeOK
      <3>3. Writes(stmt.txn, {r}, 1)
        <4> DEFINE new == [xmin |-> stmt.txn, xmax |-> INFINITY_TXN, val |-> stmt.val]
        <4>1. Stamped(r) = [heap EXCEPT ![r] = WithXmax(heap[r], stmt.txn)]
          BY DEF Stamped
        <4>2. new.xmin = stmt.txn /\ new.xmax = INFINITY_TXN /\ heap' = Append(Stamped(r), new)
          BY <3>2
        <4> HIDE DEF new
        <4>3. \A q \in 1..Len(heap) :
                /\ Stamped(r) = [heap EXCEPT ![q] = WithXmax(heap[q], stmt.txn)]
                /\ q \in Visible(SnapshotOf(stmt.txn))
                /\ MayStamp(stmt.txn, heap[q].xmax)
                => Writes(stmt.txn, {q}, 1)
          BY <2>2, <3>1, <3>2, <4>2, AppendShape
        <4> QED
          BY <2>2, <2>3, <2>5, <4>1, <4>3
      <3> QED
        BY <2>2, <2>3, <3>2, <3>3 DEF WriteShape
    <2> QED
      BY <2>1, <2>4, <2>5
  <1>3. CASE DeleteRow
    <2>1. PICK r \in todo :
            \/ Conflict(r)
            \/ /\ MayStamp(stmt.txn, heap[r].xmax)
               /\ heap' = Stamped(r) /\ Proceed(todo \ {r})
      BY <1>3 DEF DeleteRow
    <2>2. /\ stmt.kind = "delete" /\ todo \in SUBSET Nat /\ heap \in Seq(Row)
          /\ stmt.txn \in Xids /\ state[stmt.txn] = "active"
          /\ r \in Visible(SnapshotOf(stmt.txn))
      BY <1>3, StatementTypes DEF DeleteRow, TypeOK, StatementInv
    <2>3. r \in 1..Len(heap)
      BY SMTT(30), <2>2 DEF Visible
    <2>4. CASE Conflict(r)
      <3>1. (abort(stmt.txn) \/ UNCHANGED txnVars) /\ UNCHANGED heap
        BY <2>4 DEF Conflict, Raise, dataVars
      <3>2. Writes(stmt.txn, {}, 0)
        BY <2>2, <3>1, NoWriteShape
      <3> QED
        BY <2>2, <3>1, <3>2 DEF WriteShape
    <2>5. CASE /\ MayStamp(stmt.txn, heap[r].xmax)
               /\ heap' = Stamped(r) /\ Proceed(todo \ {r})
      <3>1. Writes(stmt.txn, {r}, 0)
        BY <2>2, <2>3, <2>5, StampShape
      <3> QED
        BY <2>2, <2>3, <2>5, <3>1 DEF WriteShape, Proceed
    <2> QED
      BY <2>1, <2>4, <2>5
  <1> QED
    BY <1>1, <1>2, <1>3

\* Every step has one of the four shapes.
LEMMA StepShapes ==
  ASSUME TypeOK, StatementInv, [Next]_vars
  PROVE  Shapes
  <1>1. CASE Begin
    BY <1>1 DEF Begin, Shapes, dataVars
  <1>2. ASSUME NEW t \in Xids, Commit(t)
        PROVE  Shapes
    BY <1>2 DEF Commit, Shapes, dataVars
  <1>3. ASSUME NEW t \in Xids, Abort(t)
        PROVE  Shapes
    <2>1. abort(t) /\ UNCHANGED heap /\ state[t] = "active"
      BY <1>3 DEF Abort, abort, dataVars
    <2> QED
      BY <2>1, NoWriteShape DEF Shapes, WriteShape, TypeOK
  <1>4. ASSUME NEW t \in Xids, NEW owns \in BOOLEAN, Enter(t, owns)
        PROVE  Shapes
    BY <1>4 DEF Enter, Shapes, dataVars
  <1>5. CASE InsertRow \/ UpdateRow \/ DeleteRow
    BY <1>5, RowShapes DEF Shapes
  <1>6. CASE FinishStatement
    <2>1. stmt.txn \in Xids
      BY <1>6, StatementTypes DEF FinishStatement, TypeOK
    <2> QED
      BY <1>6, <2>1 DEF FinishStatement, Shapes, dataVars
  <1>7. CASE UNCHANGED vars
    BY <1>7 DEF vars, Shapes, dataVars
  <1> QED
    BY <1>1, <1>2, <1>3, <1>4, <1>5, <1>6, <1>7
    DEF Next, StartInsert, StartUpdate, StartDelete

-----------------------------------------------------------------------------
(* The inductive invariant, one conjunct at a time *)

\* The manager's sets go on agreeing with the transactions' states.
LEMMA IdsStep ==
  ASSUME TypeOK, IdsInv, NEW t \in Xids,
         begin(t) \/ commit(t) \/ abort(t) \/ UNCHANGED txnVars
  PROVE  IdsInv'
  <1> USE ConstantsAssumption DEF TypeOK, IdsInv, Xids
  <1>1. CASE begin(t)
    BY SMTT(30), <1>1 DEF begin
  <1>2. CASE commit(t)
    BY <1>2 DEF commit
  <1>3. CASE abort(t)
    BY <1>3 DEF abort
  <1>4. CASE UNCHANGED txnVars
    BY <1>4 DEF txnVars
  <1> QED
    BY <1>1, <1>2, <1>3, <1>4

\* What a snapshot counts as committed before it stays settled.
LEMMA SnapshotStep ==
  ASSUME TypeOK, IdsInv, SnapshotInv, NEW t \in Xids,
         begin(t) \/ commit(t) \/ abort(t) \/ UNCHANGED txnVars
  PROVE  SnapshotInv'
  <1> USE ConstantsAssumption DEF TypeOK, IdsInv, SnapshotInv, Xids, CommittedBefore, SnapshotOf
  <1>1. CASE begin(t)
    BY SMTT(30), <1>1 DEF begin
  <1>2. CASE commit(t)
    BY <1>2 DEF commit
  <1>3. CASE abort(t)
    BY <1>3 DEF abort
  <1>4. CASE UNCHANGED txnVars
    BY <1>4 DEF txnVars
  <1> QED
    BY <1>1, <1>2, <1>3, <1>4

\* A header that was in order stays in order when the manager moves on.
LEMMA HeaderKept ==
  ASSUME TypeOK, IdsInv, SnapshotInv, NEW row \in Row, Header(row), NEW t \in Xids,
         begin(t) \/ commit(t) \/ abort(t) \/ UNCHANGED txnVars
  PROVE  Header(row)'
  <1> USE ConstantsAssumption DEF TypeOK, Xids, Row, INFINITY_TXN, Header, CommittedBefore, SnapshotOf
  <1>1. CASE begin(t)
    BY SMTT(30), <1>1 DEF begin
  <1>2. CASE commit(t)
    BY <1>2 DEF commit
  <1>3. CASE abort(t)
    BY <1>3 DEF abort, SnapshotInv, IdsInv
  <1>4. CASE UNCHANGED txnVars
    BY <1>4 DEF txnVars
  <1> QED
    BY <1>1, <1>2, <1>3, <1>4

\* Every version's header stays in order, the stamped and the new one included.
LEMMA HeaderStep ==
  ASSUME TypeOK, IdsInv, SnapshotInv, HeaderInv, TypeOK', Shapes
  PROVE  HeaderInv'
  <1>1. /\ HeaderInv <=> \A r \in 1..Len(heap) : Header(heap[r])
        /\ HeaderInv' <=> \A r \in 1..Len(heap') : Header(heap[r])'
        /\ heap \in Seq(Row)
    <2>1. /\ heap \in Seq(Row) /\ DOMAIN heap = 1..Len(heap)
          /\ heap' \in Seq(Row) /\ DOMAIN heap' = 1..Len(heap')
      BY SMTT(30) DEF TypeOK
    <2> QED
      BY <2>1 DEF HeaderInv
  <1>2. ASSUME NEW t \in Xids, UNCHANGED heap, begin(t) \/ commit(t)
        PROVE  HeaderInv'
    <2>1. ASSUME NEW r \in 1..Len(heap)
          PROVE  Header(heap[r])'
      <3>1. heap[r] \in Row /\ Header(heap[r]) /\ heap'[r] = heap[r]
        BY SMTT(30), <1>1, <1>2
      <3>2. ASSUME NEW row \in Row, Header(row)
            PROVE  Header(row)'
        BY <1>2, <3>2, HeaderKept
      <3> QED
        BY <3>1, <3>2 DEF Header
    <2> QED
      BY <1>1, <1>2, <2>1
  <1>3. ASSUME NEW t \in Xids, WriteShape(t)
        PROVE  HeaderInv'
    <2>1. PICK n \in {0, 1}, d \in SUBSET (1..Len(heap)) : Writes(t, d, n)
      BY <1>3 DEF WriteShape
    <2>2. ASSUME NEW row \in Row, Header(row)
          PROVE  Header(row)'
      BY <1>3, <2>2, HeaderKept DEF WriteShape
    <2>3. t < nextTxnId /\ t # INFINITY_TXN
      BY SMTT(30), <1>3, ConstantsAssumption DEF WriteShape, IdsInv, TypeOK, INFINITY_TXN, Xids
    <2>4. nextTxnId' = nextTxnId
      BY <1>3 DEF WriteShape, abort, txnVars
    <2>5. ASSUME NEW r \in 1..Len(heap)
          PROVE  Header(heap[r])'
      <3>1. heap[r] \in Row /\ Header(heap[r])
        BY SMTT(30), <1>1
      <3>2. CASE r \notin d
        <4>1. heap'[r] = heap[r]
          BY <2>1, <3>2 DEF Writes
        <4> QED
          BY <2>2, <3>1, <4>1 DEF Header
      <3>3. CASE r \in d
        <4>1. heap'[r] = WithXmax(heap[r], t) /\ r \in Visible(SnapshotOf(t))
          BY <2>1, <3>3 DEF Writes
        <4>2. WithXmax(heap[r], t) \in Row
          BY <3>1 DEF WithXmax, Row
        <4>3. Header(WithXmax(heap[r], t))
          BY <3>1, <2>3, <4>1 DEF Header, WithXmax, Visible, IsVisible, SnapshotOf
        <4> QED
          BY <2>2, <4>1, <4>2, <4>3 DEF Header
      <3> QED
        BY <3>2, <3>3
    <2>6. ASSUME NEW r \in 1..Len(heap'), r \notin 1..Len(heap)
          PROVE  Header(heap[r])'
      <3>1. r = Len(heap) + 1 /\ n = 1
        <4>1. Len(heap') = Len(heap) + n
          BY <2>1 DEF Writes
        <4>2. Len(heap) \in Nat
          BY SMTT(30), <1>1
        <4> QED
          BY SMTT(30), <2>6, <4>1, <4>2
      <3>2. heap'[r].xmin = t /\ heap'[r].xmax = INFINITY_TXN
        BY <2>1, <3>1 DEF Writes
      <3> QED
        BY <2>3, <2>4, <3>2 DEF Header, INFINITY_TXN
    <2> QED
      BY <1>1, <2>5, <2>6
  <1>4. ASSUME UNCHANGED <<txnVars, heap>>
        PROVE  HeaderInv'
    BY <1>4 DEF HeaderInv, Header, txnVars, CommittedBefore, SnapshotOf
  <1> QED
    BY <1>2, <1>3, <1>4 DEF Shapes

\* A version whose header a step leaves alone stays visible to the transaction.
LEMMA VisibleKept ==
  ASSUME NEW t \in Xids, UNCHANGED txnVars, NEW q \in Visible(SnapshotOf(t)),
         q \in DOMAIN heap', heap'[q] = heap[q]
  PROVE  (q \in Visible(SnapshotOf(t)))'
  BY DEF Visible, IsVisible, CommittedBefore, SnapshotOf, txnVars

\* The matches not yet processed stay visible to their statement.
LEMMA StatementStep ==
  ASSUME TypeOK, StatementInv, TypeOK', [Next]_vars
  PROVE  StatementInv'
  <1>0. ASSUME stmt'.kind = "idle"
        PROVE  StatementInv'
    BY <1>0 DEF StatementInv
  <1>1. ASSUME stmt = Idle, UNCHANGED stmt
        PROVE  StatementInv'
    BY <1>1 DEF StatementInv, Idle
  <1>2. ASSUME NEW t \in Xids, NEW owns \in BOOLEAN, Enter(t, owns),
               stmt'.txn = t,
               stmt'.kind # "insert" => todo' \subseteq Visible(EntrySnapshot(t, owns))
        PROVE  StatementInv'
    <2>1. state'[t] = "active"
      BY <1>2 DEF Enter, begin, txnVars, TypeOK
    <2>2. Visible(SnapshotOf(t))' = Visible(EntrySnapshot(t, owns))
      <3>1. CASE owns
        <4>1. begin(t) /\ UNCHANGED heap
          BY <1>2, <3>1 DEF Enter, dataVars
        <4>2. (SnapshotOf(t))' = NextSnapshot
          BY <4>1 DEF begin, SnapshotOf, NextSnapshot, TypeOK
        <4>3. UNCHANGED abortedXids
          BY <4>1 DEF begin
        <4> QED
          BY <3>1, <4>1, <4>2, <4>3 DEF EntrySnapshot, Visible, IsVisible, CommittedBefore
      <3>2. CASE ~owns
        BY <1>2, <3>2 DEF Enter, dataVars, txnVars, EntrySnapshot, SnapshotOf,
                          Visible, IsVisible, CommittedBefore
      <3> QED
        BY <3>1, <3>2
    <2> QED
      BY <1>2, <2>1, <2>2 DEF StatementInv
  <1>3. CASE Begin \/ \E t \in Xids : Commit(t) \/ Abort(t)
    BY <1>1, <1>3 DEF Begin, Commit, Abort
  <1>4. ASSUME NEW t \in Xids, NEW owns \in BOOLEAN, NEW vals, StartInsert(t, owns, vals)
        PROVE  StatementInv'
    BY <1>2, <1>4 DEF StartInsert
  <1>5. ASSUME NEW t \in Xids, NEW owns \in BOOLEAN, NEW where, StartDelete(t, owns, where)
        PROVE  StatementInv'
    <2>1. todo' \subseteq Visible(EntrySnapshot(t, owns))
      BY <1>5, RowSourceTypes DEF StartDelete, TypeOK
    <2> QED
      BY <1>2, <1>5, <2>1 DEF StartDelete
  <1>6. ASSUME NEW t \in Xids, NEW owns \in BOOLEAN, NEW where, NEW v, StartUpdate(t, owns, where, v)
        PROVE  StatementInv'
    <2>1. todo' \subseteq Visible(EntrySnapshot(t, owns))
      BY <1>6, RowSourceTypes DEF StartUpdate, TypeOK
    <2> QED
      BY <1>2, <1>6, <2>1 DEF StartUpdate
  <1>7. ASSUME NEW rest, Raise \/ Proceed(rest), stmt.kind = "insert"
        PROVE  StatementInv'
    BY SMTT(30), <1>7 DEF Raise, Proceed, Idle, StatementInv, txnVars
  <1>8. ASSUME NEW r \in todo, stmt.kind \in {"update", "delete"},
               Raise \/ Proceed(todo \ {r}),
               \A q \in todo \ {r} : q \in DOMAIN heap' /\ heap'[q] = heap[q]
        PROVE  StatementInv'
    <2>1. CASE Raise
      BY <1>0, <2>1 DEF Raise, Idle
    <2>2. CASE Proceed(todo \ {r})
      <3>1. /\ stmt' = stmt /\ todo' = todo \ {r} /\ UNCHANGED txnVars
            /\ stmt.txn \in Xids /\ todo \subseteq Visible(SnapshotOf(stmt.txn))
            /\ state[stmt.txn] = "active"
        BY <1>8, <2>2, StatementTypes DEF Proceed, StatementInv, TypeOK
      <3>2. \A t \in Xids : todo \subseteq Visible(SnapshotOf(t)) =>
              (todo \subseteq Visible(SnapshotOf(t)))'
        BY <1>8, <3>1, VisibleKept
      <3>3. (todo \subseteq Visible(SnapshotOf(stmt.txn)))'
        BY <3>1, <3>2
      <3> QED
        BY <3>1, <3>3 DEF StatementInv, txnVars
    <2> QED
      BY <1>8, <2>1, <2>2
  <1>9. CASE InsertRow
    BY <1>7, <1>9 DEF InsertRow, InsertVersion
  <1>10. CASE UpdateRow
    <2>1. PICK r \in todo :
            \/ Conflict(r)
            \/ InsertVersion(Stamped(r), stmt.txn, stmt.val, {r}, todo \ {r})
      BY <1>10 DEF UpdateRow
    <2>2. /\ stmt.kind = "update" /\ todo \in SUBSET Nat /\ heap \in Seq(Row)
          /\ stmt.txn \in Xids /\ todo \subseteq 1..Len(heap)
      BY SMTT(30), <1>10, StatementTypes DEF UpdateRow, TypeOK, StatementInv, Visible
    <2>3. CASE Conflict(r)
      BY <1>0, <2>3 DEF Conflict, Raise, Idle
    <2>4. CASE InsertVersion(Stamped(r), stmt.txn, stmt.val, {r}, todo \ {r})
      <3>1. /\ Stamped(r) \in Seq(Row) /\ Len(Stamped(r)) = Len(heap)
            /\ \A q \in 1..Len(heap) : q # r => Stamped(r)[q] = heap[q]
        BY SMTT(30), <2>2, StampTypes DEF Stamped
      <3>2. PICK new : heap' = Append(Stamped(r), new)
        BY <2>4 DEF InsertVersion, PackTuple
      <3>3. \A q \in 1..Len(heap) : q # r => q \in DOMAIN heap' /\ heap'[q] = heap[q]
        BY SMTT(30), <2>2, <3>1, <3>2
      <3>4. Raise \/ Proceed(todo \ {r})
        BY <2>4 DEF InsertVersion, PackTuple
      <3> QED
        BY <1>8, <2>2, <3>3, <3>4
    <2> QED
      BY <2>1, <2>3, <2>4
  <1>11. CASE DeleteRow
    <2>1. PICK r \in todo :
            \/ Conflict(r)
            \/ heap' = Stamped(r) /\ Proceed(todo \ {r})
      BY <1>11 DEF DeleteRow
    <2>2. /\ stmt.kind = "delete" /\ todo \in SUBSET Nat /\ heap \in Seq(Row)
          /\ stmt.txn \in Xids /\ todo \subseteq 1..Len(heap)
      BY SMTT(30), <1>11, StatementTypes DEF DeleteRow, TypeOK, StatementInv, Visible
    <2>3. CASE Conflict(r)
      BY <1>0, <2>3 DEF Conflict, Raise, Idle
    <2>4. CASE heap' = Stamped(r) /\ Proceed(todo \ {r})
      <3>1. \A q \in 1..Len(heap) : q # r => q \in DOMAIN heap' /\ heap'[q] = heap[q]
        BY SMTT(30), <2>2, <2>4, StampTypes DEF Stamped
      <3> QED
        BY <1>8, <2>2, <2>4, <3>1
    <2> QED
      BY <2>1, <2>3, <2>4
  <1>12. CASE FinishStatement
    BY <1>0, <1>12 DEF FinishStatement, Idle
  <1>13. CASE UNCHANGED vars
    BY <1>13 DEF vars, txnVars, dataVars, StatementInv, Visible, IsVisible, CommittedBefore, SnapshotOf
  <1> QED
    BY <1>3, <1>4, <1>5, <1>6, <1>9, <1>10, <1>11, <1>12, <1>13 DEF Next

\* The room a statement was given at its start suffices to its end.
LEMMA SpaceStep ==
  ASSUME TypeOK, StatementInv, SpaceInv, TypeOK', [Next]_vars
  PROVE  SpaceInv'
  <1> USE ConstantsAssumption
  <1>0. heap \in Seq(Row) /\ Len(heap) \in Nat
    BY SMTT(30) DEF TypeOK
  <1>1. ASSUME UNCHANGED heap, stmt' = Idle
        PROVE  SpaceInv'
    BY <1>1 DEF SpaceInv, Idle
  <1>2. CASE Begin \/ \E t \in Xids : Commit(t) \/ Abort(t)
    BY <1>1, <1>2 DEF Begin, Commit, Abort, dataVars
  <1>3. ASSUME NEW t \in Xids, NEW owns \in BOOLEAN, NEW vals, StartInsert(t, owns, vals)
        PROVE  SpaceInv'
    BY <1>3 DEF StartInsert, Enter, dataVars, SpaceInv
  <1>4. ASSUME NEW t \in Xids, NEW owns \in BOOLEAN, NEW where, StartDelete(t, owns, where)
        PROVE  SpaceInv'
    BY <1>4 DEF StartDelete, Enter, dataVars, SpaceInv
  <1>5. ASSUME NEW t \in Xids, NEW owns \in BOOLEAN, NEW where, NEW v, StartUpdate(t, owns, where, v)
        PROVE  SpaceInv'
    BY <1>5 DEF StartUpdate, Enter, dataVars, SpaceInv
  <1>6. CASE InsertRow
    <2>1. /\ stmt.kind = "insert" /\ todo \in Seq(Values) /\ todo # <<>>
          /\ InsertVersion(heap, stmt.txn, Head(todo), {}, Tail(todo))
      BY <1>6 DEF InsertRow, TypeOK
    <2>2. Len(heap') = Len(heap) + 1 /\ (Raise \/ Proceed(Tail(todo)))
      BY SMTT(30), <1>0, <2>1 DEF InsertVersion, PackTuple
    <2>3. Len(Tail(todo)) = Len(todo) - 1 /\ Len(todo) \in Nat \ {0}
      BY SMTT(30), <2>1
    <2> QED
      BY SMTT(30), <1>0, <2>1, <2>2, <2>3 DEF SpaceInv, Raise, Proceed, Idle
  <1>7. CASE UpdateRow
    <2>1. PICK r \in todo :
            \/ Conflict(r)
            \/ InsertVersion(Stamped(r), stmt.txn, stmt.val, {r}, todo \ {r})
      BY <1>7 DEF UpdateRow
    <2>2. /\ stmt.kind = "update" /\ todo \in SUBSET Nat
          /\ stmt.txn \in Xids /\ todo \subseteq 1..Len(heap)
      BY SMTT(30), <1>0, <1>7, StatementTypes DEF UpdateRow, TypeOK, StatementInv, Visible
    <2>3. IsFiniteSet(todo)
      <3>1. IsFiniteSet(1..Len(heap))
        BY SMTT(30), <1>0, FS_Interval
      <3> QED
        BY <2>2, <3>1, FS_Subset
    <2>4. /\ Cardinality(todo) \in Nat /\ Cardinality(todo) # 0
          /\ Cardinality(todo \ {r}) = Cardinality(todo) - 1
      BY <2>1, <2>3, FS_CardinalityType, FS_EmptySet, FS_RemoveElement
    <2>5. CASE Conflict(r)
      BY <1>1, <2>5 DEF Conflict, Raise, dataVars
    <2>6. CASE InsertVersion(Stamped(r), stmt.txn, stmt.val, {r}, todo \ {r})
      <3>1. Stamped(r) \in Seq(Row) /\ Len(Stamped(r)) = Len(heap)
        BY <1>0, <2>2, StampTypes
      <3>2. Len(heap') = Len(heap) + 1 /\ (Raise \/ Proceed(todo \ {r}))
        BY SMTT(30), <2>6, <3>1 DEF InsertVersion, PackTuple
      <3>3. Len(heap) + Cardinality(todo) <= MaxRows
        BY <2>2 DEF SpaceInv
      <3>4. Len(heap') <= MaxRows
        BY SMTT(30), <1>0, <2>4, <3>2, <3>3
      <3>5. CASE Raise
        BY <3>4, <3>5 DEF SpaceInv, Raise, Idle
      <3>6. CASE Proceed(todo \ {r})
        <4>1. Cardinality(todo') = Cardinality(todo) - 1
          BY <2>4, <3>6 DEF Proceed
        <4>2. Len(heap') + Cardinality(todo') <= MaxRows
          BY SMTT(30), <1>0, <2>4, <3>2, <3>3, <4>1
        <4> QED
          BY <2>2, <3>4, <3>6, <4>2 DEF SpaceInv, Proceed
      <3> QED
        BY <3>2, <3>5, <3>6
    <2> QED
      BY <2>1, <2>5, <2>6
  <1>8. CASE DeleteRow
    <2>1. PICK r \in todo : Conflict(r) \/ (heap' = Stamped(r) /\ Proceed(todo \ {r}))
      BY <1>8 DEF DeleteRow
    <2>2. stmt.kind = "delete" /\ todo \in SUBSET Nat /\ stmt.txn \in Xids
      BY <1>8, StatementTypes DEF DeleteRow, TypeOK
    <2>3. CASE Conflict(r)
      BY <1>1, <2>3 DEF Conflict, Raise, dataVars
    <2>4. CASE heap' = Stamped(r) /\ Proceed(todo \ {r})
      <3>1. Len(heap') = Len(heap)
        BY <1>0, <2>2, <2>4, StampTypes
      <3> QED
        BY <2>2, <2>4, <3>1 DEF SpaceInv, Proceed
    <2> QED
      BY <2>1, <2>3, <2>4
  <1>9. CASE FinishStatement
    BY <1>1, <1>9 DEF FinishStatement, dataVars
  <1>10. CASE UNCHANGED vars
    BY <1>10 DEF vars, dataVars, SpaceInv
  <1> QED
    BY <1>2, <1>3, <1>4, <1>5, <1>6, <1>7, <1>8, <1>9, <1>10 DEF Next

\* The inductive invariant holds initially.
LEMMA IInvInit == Init => IInv
  <1> SUFFICES ASSUME Init PROVE IInv
    OBVIOUS
  <1>1. TypeOK
    BY TypeInit
  <1>2. IdsInv /\ SnapshotInv
    BY SMTT(30), ConstantsAssumption DEF Init, IdsInv, SnapshotInv, Xids
  <1>3. HeaderInv /\ StatementInv /\ SpaceInv
    BY SMTT(30), ConstantsAssumption DEF Init, HeaderInv, StatementInv, SpaceInv, Idle
  <1> QED
    BY <1>1, <1>2, <1>3 DEF IInv

\* The inductive invariant is kept by every step, and every step has a shape.
LEMMA IInvStep ==
  ASSUME IInv, [Next]_vars
  PROVE  IInv' /\ Shapes
  <1>1. TypeOK' /\ Shapes
    BY TypeStep, StepShapes DEF IInv
  <1>2. \/ \E t \in Xids : begin(t) \/ commit(t) \/ abort(t) \/ UNCHANGED txnVars
        \/ UNCHANGED txnVars
    BY <1>1 DEF Shapes, WriteShape
  <1>3. 1 \in Xids
    BY SMTT(30), ConstantsAssumption DEF Xids
  <1>4. IdsInv'
    BY <1>2, <1>3, IdsStep DEF IInv
  <1>5. SnapshotInv'
    BY <1>2, <1>3, SnapshotStep DEF IInv
  <1>6. HeaderInv'
    BY <1>1, HeaderStep DEF IInv
  <1>7. StatementInv' /\ SpaceInv'
    BY <1>1, StatementStep, SpaceStep DEF IInv
  <1> QED
    BY <1>1, <1>4, <1>5, <1>6, <1>7 DEF IInv

\* Snapshots only ever count settled transactions as committed, every header was
\* written by a transaction that saw the version, and the matches of a statement
\* never go stale.
THEOREM Invariance == Spec => []IInv
  <1>1. IInv /\ [Next]_vars => IInv'
    BY IInvStep
  <1> QED
    BY <1>1, IInvInit, PTL DEF Spec

-----------------------------------------------------------------------------
(* Snapshot isolation, and the index *)

\* What the header invariant says of a version, in terms of outcomes.
LEMMA HeaderOutcomes ==
  ASSUME IInv, NEW r \in DOMAIN heap
  PROVE  /\ heap[r] \in Row
         /\ state[heap[r].xmin] # "unused"
         /\ heap[r].xmax # INFINITY_TXN =>
              /\ heap[r].xmax \in Xids
              /\ state[heap[r].xmax] # "unused"
              /\ heap[r].xmin # heap[r].xmax => state[heap[r].xmin] = "committed"
  <1>1. heap[r] \in Row /\ Header(heap[r])
    BY SMTT(30) DEF IInv, TypeOK, HeaderInv
  <1> QED
    BY SMTT(30), <1>1, ConstantsAssumption
    DEF IInv, TypeOK, IdsInv, SnapshotInv, Header, Row, Xids, INFINITY_TXN

\* is_visible, on RIDs: what others had committed and what t inserted, less
\* what t deleted.
LEMMA ViewOfVisible ==
  ASSUME IInv, NEW t \in Xids, state[t] = "active"
  PROVE  Visible(SnapshotOf(t)) = (StartRows(t) \cup InsertedRows(t)) \ DeletedRows(t)
  <1>1. ASSUME NEW r \in DOMAIN heap
        PROVE  r \in Visible(SnapshotOf(t)) <=> r \in (StartRows(t) \cup InsertedRows(t)) \ DeletedRows(t)
    <2>1. /\ heap[r] \in Row
          /\ t \notin abortedXids
          /\ ~CommittedBefore(SnapshotOf(t), t)
          /\ t # INFINITY_TXN
          /\ SnapshotOf(t).xid = t
      BY SMTT(30), HeaderOutcomes, ConstantsAssumption
      DEF IInv, IdsInv, TypeOK, CommittedBefore, SnapshotOf, Xids, INFINITY_TXN
    <2>2. heap[r].xmin = t => heap[r].xmax \in {t, INFINITY_TXN}
      BY HeaderOutcomes
    <2> QED
      BY <2>1, <2>2 DEF Visible, IsVisible, StartRows, InsertedRows, DeletedRows
  <1> QED
    BY <1>1 DEF Visible, StartRows, InsertedRows, DeletedRows

-----------------------------------------------------------------------------
(* What each shape of step does to the sets of RIDs *)

\* The outcome of an active transaction is not part of any snapshot.
LEMMA ActiveNotBefore ==
  ASSUME IInv, NEW t \in Xids, state[t] = "active", NEW u \in Xids, state[u] = "active"
  PROVE  /\ ~CommittedBefore(SnapshotOf(u), t)
         /\ t \notin abortedXids
         /\ t # INFINITY_TXN
  <1>1. u < nextTxnId
    BY SMTT(30) DEF IInv, IdsInv, TypeOK, Xids
  <1> QED
    BY SMTT(30), <1>1, ConstantsAssumption DEF IInv, IdsInv, SnapshotInv, Xids, INFINITY_TXN

\* The rows a write or an abort leaves alone: one row, before and after.
LEMMA WriteRow ==
  ASSUME IInv, IInv', NEW t \in Xids, state[t] = "active",
         NEW n \in {0, 1}, NEW d, Writes(t, d, n),
         abort(t) \/ UNCHANGED txnVars,
         NEW r \in DOMAIN heap
  PROVE  /\ r \in DOMAIN heap'
         /\ r \in CommittedRows' <=> r \in CommittedRows
         /\ \A u \in Xids :
              /\ r \in StartRows(u)' <=> state'[u] = "active" /\ r \in StartRows(u)
              /\ r \in InsertedRows(u)' <=> state'[u] = "active" /\ r \in InsertedRows(u)
              /\ r \in DeletedRows(u)' <=>
                   state'[u] = "active" /\ (r \in DeletedRows(u) \/ (u = t /\ r \in d))
  <1>1. /\ r \in 1..Len(heap) /\ r \in DOMAIN heap'
        /\ heap'[r] = IF r \in d THEN WithXmax(heap[r], t) ELSE heap[r]
        /\ heap[r] \in Row
        /\ r \in d => MayStamp(t, heap[r].xmax) /\ r \in Visible(SnapshotOf(t))
    BY SMTT(30) DEF Writes, IInv, TypeOK
  <1>2. /\ heap'[r].xmin = heap[r].xmin
        /\ r \in d => heap'[r].xmax = t
        /\ r \notin d => heap'[r].xmax = heap[r].xmax
    BY SMTT(30), <1>1 DEF WithXmax
  <1>3. /\ snapshot' = snapshot
        /\ \A x \in Xids : x # t => state'[x] = state[x]
        /\ \/ abortedXids' = abortedXids /\ state'[t] = "active"
           \/ abortedXids' = abortedXids \cup {t} /\ state'[t] = "aborted"
    BY DEF abort, txnVars, IInv, TypeOK
  <1>4. \A u \in Xids : SnapshotOf(u)' = SnapshotOf(u)
    BY <1>3 DEF SnapshotOf
  <1>5. r \in CommittedRows' <=> r \in CommittedRows
    <2>1. \A x : Committed(x)' <=> Committed(x)
      BY <1>3 DEF Committed
    <2>2. ~Committed(t)
      BY DEF Committed
    <2>3. r \in d => ~Committed(heap[r].xmax)
      BY SMTT(30), <1>1, <2>2, ConstantsAssumption
      DEF MayStamp, Committed, IInv, IdsInv, INFINITY_TXN, Xids
    <2> QED
      BY <1>1, <1>2, <2>1, <2>2, <2>3 DEF CommittedRows
  <1>6. ASSUME NEW u \in Xids
        PROVE  r \in StartRows(u)' <=> state'[u] = "active" /\ r \in StartRows(u)
    <2>1. CASE state'[u] # "active"
      BY <2>1 DEF StartRows
    <2>2. CASE state'[u] = "active"
      <3>1. state[u] = "active" /\ ~CommittedBefore(SnapshotOf(u), t) /\ t \notin abortedXids
        BY <1>3, <2>2, ActiveNotBefore
      <3>2. \A x : CommittedBefore(SnapshotOf(u), x)' <=> CommittedBefore(SnapshotOf(u), x)
        BY <1>4 DEF CommittedBefore
      <3>3. \A x : x # t => (x \in abortedXids' <=> x \in abortedXids)
        BY SMTT(30), <1>3
      <3>4. INFINITY_TXN' = INFINITY_TXN
        BY DEF INFINITY_TXN
      <3> QED
        BY <1>1, <1>2, <2>2, <3>1, <3>2, <3>3, <3>4 DEF StartRows, MayStamp
    <2> QED
      BY <2>1, <2>2
  <1>7. ASSUME NEW u \in Xids
        PROVE  r \in InsertedRows(u)' <=> state'[u] = "active" /\ r \in InsertedRows(u)
    BY <1>1, <1>2, <1>3 DEF InsertedRows
  <1>8. ASSUME NEW u \in Xids
        PROVE  r \in DeletedRows(u)' <=>
                 state'[u] = "active" /\ (r \in DeletedRows(u) \/ (u = t /\ r \in d))
    <2>1. CASE r \in d
      <3>1. heap[r].xmax = INFINITY_TXN \/ heap[r].xmax = t \/ heap[r].xmax \in abortedXids
        BY <1>1, <2>1 DEF MayStamp
      <3>2. state[u] = "active" => u # INFINITY_TXN /\ u \notin abortedXids
        BY ActiveNotBefore
      <3> QED
        BY <1>1, <1>2, <1>3, <2>1, <3>1, <3>2 DEF DeletedRows
    <2>2. CASE r \notin d
      BY <1>1, <1>2, <1>3, <2>2 DEF DeletedRows
    <2> QED
      BY <2>1, <2>2
  <1> QED
    BY <1>1, <1>5, <1>6, <1>7, <1>8

\* The row a write appends is its transaction's own, and nobody else's.
LEMMA NewRow ==
  ASSUME IInv, IInv', NEW t \in Xids, state[t] = "active",
         NEW d, Writes(t, d, 1),
         abort(t) \/ UNCHANGED txnVars,
         NEW r, r = Len(heap) + 1
  PROVE  /\ r \in 1..MaxRows
         /\ heap'[r] \in Row
         /\ r \notin DOMAIN heap
         /\ DOMAIN heap' = DOMAIN heap \cup {r}
         /\ r \notin CommittedRows'
         /\ \A u \in Xids :
              /\ r \notin StartRows(u)'
              /\ r \in InsertedRows(u)' <=> state'[u] = "active" /\ u = t
              /\ r \notin DeletedRows(u)'
  <1>1. /\ heap' \in Seq(Row) /\ heap \in Seq(Row) /\ Len(heap') = r /\ Len(heap) \in Nat
        /\ heap'[r].xmin = t /\ heap'[r].xmax = INFINITY_TXN
    BY SMTT(30) DEF Writes, IInv, TypeOK
  <1>2. r \in 1..MaxRows
    BY SMTT(30), <1>1, ConstantsAssumption DEF IInv, SpaceInv
  <1>3. /\ heap'[r] \in Row
        /\ r \notin DOMAIN heap
        /\ DOMAIN heap' = DOMAIN heap \cup {r}
    BY SMTT(30), <1>1
  <1>4. state'[t] # "committed" /\ (state'[t] = "active" => UNCHANGED txnVars)
    BY DEF abort, txnVars, IInv, TypeOK
  <1>5. r \notin CommittedRows'
    BY <1>1, <1>4 DEF CommittedRows, Committed
  <1>6. ASSUME NEW u \in Xids
        PROVE  r \notin StartRows(u)'
    <2>1. SUFFICES ASSUME state'[u] = "active"
                   PROVE  ~CommittedBefore(SnapshotOf(u), t)'
      BY <1>1 DEF StartRows
    <2>2. state[u] = "active" /\ snapshot' = snapshot
      BY <2>1 DEF abort, txnVars, IInv, TypeOK
    <2> QED
      BY <2>2, ActiveNotBefore DEF CommittedBefore, SnapshotOf
  <1>7. ASSUME NEW u \in Xids
        PROVE  r \in InsertedRows(u)' <=> state'[u] = "active" /\ u = t
    BY <1>1, <1>3 DEF InsertedRows
  <1>8. ASSUME NEW u \in Xids
        PROVE  r \notin DeletedRows(u)'
    BY SMTT(30), <1>1, ConstantsAssumption DEF DeletedRows, INFINITY_TXN, Xids
  <1> QED
    BY <1>2, <1>3, <1>5, <1>6, <1>7, <1>8

\* A transaction that begins starts from the committed rows and has written
\* nothing; the other sets stay as they are.
LEMMA BeginRows ==
  ASSUME IInv, IInv', NEW t \in Xids, begin(t), UNCHANGED heap
  PROVE  /\ state[t] = "unused"
         /\ CommittedRows' = CommittedRows
         /\ StartRows(t)' = CommittedRows
         /\ \A u \in Xids : /\ u # t => StartRows(u)' = StartRows(u)
                            /\ InsertedRows(u)' = InsertedRows(u)
                            /\ DeletedRows(u)' = DeletedRows(u)
  <1>1. /\ t = nextTxnId /\ state[t] = "unused" /\ state'[t] = "active"
        /\ \A x \in Xids : x # t => state'[x] = state[x] /\ snapshot'[x] = snapshot[x]
        /\ snapshot'[t] = activeXids /\ abortedXids' = abortedXids
    BY SMTT(30) DEF begin, IInv, TypeOK, IdsInv
  <1>2. \A r \in DOMAIN heap : heap[r].xmin # t /\ heap[r].xmax # t
    BY SMTT(30), <1>1, HeaderOutcomes, ConstantsAssumption DEF INFINITY_TXN, Xids
  <1>3. \A x : Committed(x)' <=> Committed(x)
    BY <1>1 DEF Committed
  <1>4. CommittedRows' = CommittedRows
    BY <1>3 DEF CommittedRows
  <1>5. ASSUME NEW r \in DOMAIN heap
        PROVE  r \in StartRows(t)' <=> r \in CommittedRows
    <2>1. \A x \in Xids : state[x] # "unused" =>
            (CommittedBefore(SnapshotOf(t), x)' <=> state[x] \in {"committed", "aborted"})
      BY SMTT(30), <1>1 DEF IInv, IdsInv, TypeOK, CommittedBefore, SnapshotOf, Xids
    <2>2. /\ heap[r].xmin \in Xids /\ state[heap[r].xmin] # "unused"
          /\ heap[r].xmax # INFINITY_TXN =>
               heap[r].xmax \in Xids /\ state[heap[r].xmax] # "unused"
      BY HeaderOutcomes DEF Row
    <2>3. \A x \in Xids : x \in abortedXids <=> state[x] = "aborted"
      BY DEF IInv, IdsInv
    <2>4. INFINITY_TXN \notin Xids
      BY SMTT(30), ConstantsAssumption DEF INFINITY_TXN, Xids
    <2>5. r \in StartRows(t)' <=>
            /\ state'[t] = "active"
            /\ heap[r].xmin \notin abortedXids
            /\ CommittedBefore(SnapshotOf(t), heap[r].xmin)'
            /\ \/ heap[r].xmax = INFINITY_TXN
               \/ heap[r].xmax \in abortedXids
               \/ ~CommittedBefore(SnapshotOf(t), heap[r].xmax)'
      BY <1>1 DEF StartRows, CommittedBefore, SnapshotOf, INFINITY_TXN
    <2> QED
      BY <1>1, <2>1, <2>2, <2>3, <2>4, <2>5 DEF CommittedRows, Committed
  <1>6. ASSUME NEW u \in Xids, u # t
        PROVE  StartRows(u)' = StartRows(u)
    BY <1>1, <1>6 DEF StartRows, CommittedBefore, SnapshotOf, INFINITY_TXN
  <1>7. ASSUME NEW u \in Xids
        PROVE  InsertedRows(u)' = InsertedRows(u) /\ DeletedRows(u)' = DeletedRows(u)
    BY <1>1, <1>2, <1>7 DEF InsertedRows, DeletedRows
  <1>8. StartRows(t)' = CommittedRows
    BY <1>5 DEF StartRows, CommittedRows
  <1> QED
    BY <1>1, <1>4, <1>6, <1>7, <1>8

\* A commit adds the transaction's insertions to the committed rows and takes
\* its deletions out of them, all of which are there to be taken.
LEMMA CommitRows ==
  ASSUME IInv, IInv', NEW t \in Xids, commit(t), UNCHANGED heap
  PROVE  /\ CommittedRows' = (CommittedRows \cup InsertedRows(t)) \ DeletedRows(t)
         /\ DeletedRows(t) \subseteq CommittedRows \cup InsertedRows(t)
         /\ StartRows(t)' = {} /\ InsertedRows(t)' = {} /\ DeletedRows(t)' = {}
         /\ \A u \in Xids : u # t => /\ StartRows(u)' = StartRows(u)
                                     /\ InsertedRows(u)' = InsertedRows(u)
                                     /\ DeletedRows(u)' = DeletedRows(u)
  <1>1. /\ state[t] = "active" /\ state'[t] = "committed"
        /\ \A x \in Xids : x # t => state'[x] = state[x]
        /\ snapshot' = snapshot /\ abortedXids' = abortedXids
    BY DEF commit, IInv, TypeOK
  <1>2. \A x : Committed(x)' <=> Committed(x) \/ x = t
    BY <1>1 DEF Committed
  <1>3. ASSUME NEW r \in DOMAIN heap
        PROVE  /\ heap[r].xmax = t => Committed(heap[r].xmin) \/ heap[r].xmin = t
               /\ heap[r].xmin = t => ~Committed(heap[r].xmax)
               /\ ~Committed(t)
    <2>1. t # INFINITY_TXN /\ INFINITY_TXN \notin Xids
      BY SMTT(30), ConstantsAssumption DEF INFINITY_TXN, Xids
    <2>2. heap[r].xmin \in Xids
      BY HeaderOutcomes DEF Row
    <2> QED
      BY <1>1, <2>1, <2>2, HeaderOutcomes DEF Committed
  <1>4. CommittedRows' = (CommittedRows \cup InsertedRows(t)) \ DeletedRows(t)
    BY <1>1, <1>2, <1>3 DEF CommittedRows, InsertedRows, DeletedRows
  <1>5. DeletedRows(t) \subseteq CommittedRows \cup InsertedRows(t)
    BY <1>1, <1>3 DEF CommittedRows, InsertedRows, DeletedRows
  <1>6. StartRows(t)' = {} /\ InsertedRows(t)' = {} /\ DeletedRows(t)' = {}
    BY <1>1 DEF StartRows, InsertedRows, DeletedRows
  <1>7. ASSUME NEW u \in Xids, u # t
        PROVE  /\ StartRows(u)' = StartRows(u)
               /\ InsertedRows(u)' = InsertedRows(u)
               /\ DeletedRows(u)' = DeletedRows(u)
    BY <1>1, <1>7 DEF StartRows, InsertedRows, DeletedRows, CommittedBefore, SnapshotOf, INFINITY_TXN
  <1> QED
    BY <1>4, <1>5, <1>6, <1>7

-----------------------------------------------------------------------------
(* The steps of the abstract specification *)

\* No step changes the value stored at a RID.
LEMMA ValueKept ==
  ASSUME IInv, Shapes, NEW r \in DOMAIN heap
  PROVE  Identity(r)' = Identity(r) /\ r \in DOMAIN heap'
  <1>1. CASE UNCHANGED heap
    BY <1>1 DEF Identity
  <1>2. ASSUME NEW t, NEW d, NEW n \in {0, 1}, Writes(t, d, n)
        PROVE  Identity(r)' = Identity(r) /\ r \in DOMAIN heap'
    <2>1. /\ r \in 1..Len(heap) /\ r \in DOMAIN heap'
          /\ heap'[r] = IF r \in d THEN WithXmax(heap[r], t) ELSE heap[r]
      BY SMTT(30), <1>2 DEF Writes, IInv, TypeOK
    <2>2. heap'[r].val = heap[r].val
      BY SMTT(30), <2>1 DEF WithXmax
    <2> QED
      BY <2>1, <2>2 DEF Identity
  <1> QED
    BY <1>1, <1>2 DEF Shapes, WriteShape

\* So a set of RIDs that a step leaves alone keeps its identities.
LEMMA IdentitiesKept ==
  ASSUME IInv, Shapes, NEW S, S \subseteq DOMAIN heap
  PROVE  {Identity(r)' : r \in S} = Identities(S)
  BY ValueKept DEF Identities

\* All the sets of the mapping are sets of RIDs of the heap.
LEMMA RowSets ==
  ASSUME NEW t \in Xids
  PROVE  /\ CommittedRows \subseteq DOMAIN heap
         /\ StartRows(t) \subseteq DOMAIN heap
         /\ InsertedRows(t) \subseteq DOMAIN heap
         /\ DeletedRows(t) \subseteq DOMAIN heap
  BY DEF CommittedRows, StartRows, InsertedRows, DeletedRows

\* Identities distribute over the set operations, being injective.
LEMMA IdentitiesAlgebra ==
  ASSUME NEW S, NEW T
  PROVE  /\ Identities(S \cup T) = Identities(S) \cup Identities(T)
         /\ Identities(S \ T) = Identities(S) \ Identities(T)
         /\ S \subseteq T => Identities(S) \subseteq Identities(T)
         /\ Identities({}) = {}
  <1>1. \A r, q : Identity(r) = Identity(q) => r = q
    BY DEF Identity
  <1> QED
    BY <1>1 DEF Identities

\* is_visible is the view the abstract specification gives an active transaction.
LEMMA ViewIdentities ==
  ASSUME IInv, NEW t \in Xids, state[t] = "active"
  PROVE  Identities(Visible(SnapshotOf(t))) = SI!View(t)
  <1>1. SI!View(t) = (Identities(StartRows(t)) \cup Identities(InsertedRows(t)))
                       \ Identities(DeletedRows(t))
    BY DEF SI!View
  <1>2. Identities((StartRows(t) \cup InsertedRows(t)) \ DeletedRows(t))
          = Identities(StartRows(t) \cup InsertedRows(t)) \ Identities(DeletedRows(t))
    BY IdentitiesAlgebra
  <1>3. Identities(StartRows(t) \cup InsertedRows(t))
          = Identities(StartRows(t)) \cup Identities(InsertedRows(t))
    BY IdentitiesAlgebra
  <1> QED
    BY <1>1, <1>2, <1>3, ViewOfVisible

\* begin() is the abstract Begin.
LEMMA AbstractBegin ==
  ASSUME IInv, IInv', Shapes, NEW t \in Xids, begin(t), UNCHANGED heap
  PROVE  SI!Begin(t)
  <1>1. \A S : Identities(S)' = Identities(S)
    BY DEF Identities, Identity
  <1>2. state' = [state EXCEPT ![t] = "active"]
    BY DEF begin
  <1> QED
    BY <1>1, <1>2, BeginRows DEF SI!Begin

\* commit() is the abstract Commit: what it deletes is still there.
LEMMA AbstractCommit ==
  ASSUME IInv, IInv', NEW t \in Xids, commit(t), UNCHANGED heap
  PROVE  SI!Commit(t)
  <1>1. \A S : Identities(S)' = Identities(S)
    BY DEF Identities, Identity
  <1>2. state[t] = "active" /\ state' = [state EXCEPT ![t] = "committed"]
    BY DEF commit
  <1>3. Identities(CommittedRows)'
          = (Identities(CommittedRows) \cup Identities(InsertedRows(t))) \ Identities(DeletedRows(t))
    <2>1. Identities(CommittedRows)' = Identities((CommittedRows \cup InsertedRows(t)) \ DeletedRows(t))
      BY <1>1, CommitRows
    <2>2. Identities((CommittedRows \cup InsertedRows(t)) \ DeletedRows(t))
            = Identities(CommittedRows \cup InsertedRows(t)) \ Identities(DeletedRows(t))
      BY IdentitiesAlgebra
    <2>3. Identities(CommittedRows \cup InsertedRows(t))
            = Identities(CommittedRows) \cup Identities(InsertedRows(t))
      BY IdentitiesAlgebra
    <2> QED
      BY <2>1, <2>2, <2>3
  <1>4. Identities(DeletedRows(t)) \subseteq Identities(CommittedRows) \cup Identities(InsertedRows(t))
    <2>1. Identities(CommittedRows \cup InsertedRows(t))
            = Identities(CommittedRows) \cup Identities(InsertedRows(t))
      BY IdentitiesAlgebra
    <2>2. Identities(DeletedRows(t)) \subseteq Identities(CommittedRows \cup InsertedRows(t))
      BY CommitRows, IdentitiesAlgebra
    <2> QED
      BY <2>1, <2>2
  <1>5. SI!Forget(t)
    <2>1. Identities({}) = {}
      BY IdentitiesAlgebra
    <2> QED
      BY <1>1, <2>1, CommitRows DEF SI!Forget
  <1> QED
    BY <1>2, <1>3, <1>4, <1>5 DEF SI!Commit

\* The RIDs that a write of n versions appends.
NewRids(n) == IF n = 1 THEN {Len(heap) + 1} ELSE {}

\* What a write or an abort of t leaves of the sets of the mapping: `new' is the
\* RIDs appended, d those stamped.
LEMMA WriteSets ==
  ASSUME IInv, IInv', NEW t \in Xids, state[t] = "active",
         NEW n \in {0, 1}, NEW d, Writes(t, d, n),
         abort(t) \/ UNCHANGED txnVars
  PROVE  LET new == NewRids(n) IN
         /\ CommittedRows' = CommittedRows
         /\ \A u \in Xids : state'[u] = "active" =>
              /\ StartRows(u)' = StartRows(u)
              /\ InsertedRows(u)' = InsertedRows(u) \cup (IF u = t THEN new ELSE {})
              /\ DeletedRows(u)' = DeletedRows(u) \cup (IF u = t THEN d ELSE {})
         /\ \A u \in Xids : state'[u] # "active" =>
              /\ StartRows(u)' = {} /\ InsertedRows(u)' = {} /\ DeletedRows(u)' = {}
         /\ new \cap DOMAIN heap = {}
         /\ d \subseteq DOMAIN heap
         /\ \A r \in new : r \in 1..MaxRows /\ heap'[r] \in Row
  <1> DEFINE new == NewRids(n)
  <1>0. new = IF n = 1 THEN {Len(heap) + 1} ELSE {}
    BY DEF NewRids
  <1> HIDE DEF new
  <1>1. DOMAIN heap' = DOMAIN heap \cup new
    <2>1. CASE n = 1
      BY <1>0, <2>1, NewRow
    <2>2. CASE n = 0
      BY SMTT(30), <1>0, <2>2 DEF Writes, IInv, TypeOK
    <2> QED
      BY <2>1, <2>2
  <1>2. ASSUME NEW r \in new
        PROVE  /\ r \in 1..MaxRows
               /\ heap'[r] \in Row
               /\ r \notin DOMAIN heap
               /\ r \notin CommittedRows'
               /\ \A u \in Xids :
                    /\ r \notin StartRows(u)'
                    /\ r \in InsertedRows(u)' <=> state'[u] = "active" /\ u = t
                    /\ r \notin DeletedRows(u)'
    <2>1. n = 1 /\ r = Len(heap) + 1
      BY <1>0, <1>2
    <2> QED
      BY <2>1, NewRow
  <1>3. d \subseteq DOMAIN heap
    BY DEF Writes, Visible
  <1>4. CommittedRows' = CommittedRows
    BY <1>1, <1>2, WriteRow, SMTT(30) DEF CommittedRows
  <1>5. ASSUME NEW u \in Xids
        PROVE  /\ CommittedRows' \subseteq DOMAIN heap'
               /\ StartRows(u)' \subseteq DOMAIN heap'
               /\ InsertedRows(u)' \subseteq DOMAIN heap'
               /\ DeletedRows(u)' \subseteq DOMAIN heap'
    BY DEF CommittedRows, StartRows, InsertedRows, DeletedRows
  <1>6. ASSUME NEW u \in Xids, state'[u] = "active"
        PROVE  /\ StartRows(u)' = StartRows(u)
               /\ InsertedRows(u)' = InsertedRows(u) \cup (IF u = t THEN new ELSE {})
               /\ DeletedRows(u)' = DeletedRows(u) \cup (IF u = t THEN d ELSE {})
    <2>1. \A r \in DOMAIN heap :
            /\ r \in StartRows(u)' <=> r \in StartRows(u)
            /\ r \in InsertedRows(u)' <=> r \in InsertedRows(u)
            /\ r \in DeletedRows(u)' <=> r \in DeletedRows(u) \/ (u = t /\ r \in d)
      BY SMTT(30), <1>6, WriteRow
    <2>2. \A r \in new : /\ r \notin StartRows(u)'
                         /\ r \in InsertedRows(u)' <=> u = t
                         /\ r \notin DeletedRows(u)'
      BY <1>2, <1>6
    <2>3. StartRows(u)' = StartRows(u)
      BY <1>1, <1>5, <2>1, <2>2, RowSets
    <2>4. InsertedRows(u)' = InsertedRows(u) \cup (IF u = t THEN new ELSE {})
      BY <1>1, <1>5, <2>1, <2>2, RowSets
    <2>5. DeletedRows(u)' = DeletedRows(u) \cup (IF u = t THEN d ELSE {})
      BY <1>1, <1>3, <1>5, <2>1, <2>2, RowSets
    <2> QED
      BY <2>3, <2>4, <2>5
  <1>7. ASSUME NEW u \in Xids, state'[u] # "active"
        PROVE  StartRows(u)' = {} /\ InsertedRows(u)' = {} /\ DeletedRows(u)' = {}
    BY <1>7 DEF StartRows, InsertedRows, DeletedRows
  <1>8. new \cap DOMAIN heap = {}
    BY <1>2
  <1> QED
    BY <1>2, <1>3, <1>4, <1>6, <1>7, <1>8 DEF new

\* A write step: new rows with fresh identities, deleted rows out of the view.
LEMMA AbstractWrite ==
  ASSUME IInv, IInv', Shapes, NEW t \in Xids, state[t] = "active", UNCHANGED txnVars,
         NEW n \in {0, 1}, NEW d, Writes(t, d, n), d = {} \/ \E r : d = {r}
  PROVE  \E ins \in SI!AtMostOne((1..MaxRows) \X Values), del \in SI!AtMostOne(SI!View(t)) :
           SI!Write(t, ins, del)
  <1> DEFINE new == NewRids(n)
             ins == {Identity(r)' : r \in new}
             del == Identities(d)
  <1>1. /\ CommittedRows' = CommittedRows
        /\ \A u \in Xids :
             /\ StartRows(u)' = StartRows(u)
             /\ InsertedRows(u)' = InsertedRows(u) \cup (IF u = t THEN new ELSE {})
             /\ DeletedRows(u)' = DeletedRows(u) \cup (IF u = t THEN d ELSE {})
        /\ new \cap DOMAIN heap = {}
        /\ d \subseteq DOMAIN heap
        /\ \A r \in new : r \in 1..MaxRows /\ heap'[r] \in Row
    <2>1. state' = state
      BY DEF txnVars
    <2>2. \A u \in Xids : state[u] # "active" =>
            /\ StartRows(u) = {} /\ InsertedRows(u) = {} /\ DeletedRows(u) = {}
      BY DEF StartRows, InsertedRows, DeletedRows
    <2>4. /\ CommittedRows' = CommittedRows
          /\ \A u \in Xids : state'[u] = "active" =>
               /\ StartRows(u)' = StartRows(u)
               /\ InsertedRows(u)' = InsertedRows(u) \cup (IF u = t THEN new ELSE {})
               /\ DeletedRows(u)' = DeletedRows(u) \cup (IF u = t THEN d ELSE {})
          /\ \A u \in Xids : state'[u] # "active" =>
               /\ StartRows(u)' = {} /\ InsertedRows(u)' = {} /\ DeletedRows(u)' = {}
          /\ new \cap DOMAIN heap = {}
          /\ d \subseteq DOMAIN heap
          /\ \A r \in new : r \in 1..MaxRows /\ heap'[r] \in Row
      BY SMTT(30), WriteSets
    <2>5. ASSUME NEW u \in Xids
          PROVE  /\ StartRows(u)' = StartRows(u)
                 /\ InsertedRows(u)' = InsertedRows(u) \cup (IF u = t THEN new ELSE {})
                 /\ DeletedRows(u)' = DeletedRows(u) \cup (IF u = t THEN d ELSE {})
      <3>1. CASE state[u] = "active"
        BY <2>1, <2>4, <3>1
      <3>2. CASE state[u] # "active"
        <4>1. u # t /\ StartRows(u)' = {} /\ InsertedRows(u)' = {} /\ DeletedRows(u)' = {}
          BY <2>1, <2>4, <3>2
        <4> QED
          BY <2>2, <3>2, <4>1
      <3> QED
        BY <3>1, <3>2
    <2> QED
      BY <2>4, <2>5
  <1>2. \A S : S \subseteq DOMAIN heap => {Identity(r)' : r \in S} = Identities(S)
    BY IdentitiesKept
  <1>3. ins \in SI!AtMostOne((1..MaxRows) \X Values)
    <2>1. \A r \in new : Identity(r)' \in (1..MaxRows) \X Values
      BY <1>1 DEF Identity, Row
    <2> QED
      BY SMTT(30), <2>1 DEF SI!AtMostOne, NewRids
  <1>4. del \subseteq SI!View(t)
    <2>1. d \subseteq Visible(SnapshotOf(t))
      BY DEF Writes
    <2>2. Identities(d) \subseteq Identities(Visible(SnapshotOf(t)))
      BY <2>1, IdentitiesAlgebra
    <2> QED
      BY <2>2, ViewIdentities
  <1>5. del \in SI!AtMostOne(SI!View(t))
    BY SMTT(30), <1>4 DEF SI!AtMostOne, Identities
  <1> HIDE DEF new
  <1>6. /\ Identities(CommittedRows)' = Identities(CommittedRows)
        /\ \A u \in Xids : Identities(StartRows(u))' = Identities(StartRows(u))
    BY <1>1, <1>2, RowSets DEF Identities
  <1>7. \A u \in Xids : Identities(InsertedRows(u))' =
          Identities(InsertedRows(u)) \cup (IF u = t THEN ins ELSE {})
    <2> TAKE u \in Xids
    <2>1. Identities(InsertedRows(u))' =
            {Identity(r)' : r \in InsertedRows(u)} \cup (IF u = t THEN ins ELSE {})
      BY <1>1 DEF Identities
    <2> QED
      BY <1>2, <2>1, RowSets
  <1>8. \A u \in Xids : Identities(DeletedRows(u))' =
          Identities(DeletedRows(u)) \cup (IF u = t THEN del ELSE {})
    <2> TAKE u \in Xids
    <2>1. Identities(DeletedRows(u))' =
            {Identity(r)' : r \in DeletedRows(u)} \cup (IF u = t THEN {Identity(r)' : r \in d} ELSE {})
      BY <1>1 DEF Identities
    <2> QED
      BY <1>1, <1>2, <2>1, RowSets
  <1>9. \A x \in ins : SI!Fresh(x)
    <2>1. \A r \in new, q \in DOMAIN heap : Identity(r)' # Identity(q)
      BY <1>1 DEF Identity
    <2>2. \A x \in ins : x \notin Identities(CommittedRows)
      BY <2>1, RowSets DEF Identities
    <2>3. \A x \in ins, u \in Xids : /\ x \notin Identities(StartRows(u))
                                     /\ x \notin Identities(InsertedRows(u))
                                     /\ x \notin Identities(DeletedRows(u))
      BY <2>1, RowSets DEF Identities
    <2> QED
      BY <2>2, <2>3 DEF SI!Fresh
  <1> HIDE DEF ins, del
  <1>10. SI!Write(t, ins, del)
    BY <1>4, <1>6, <1>7, <1>8, <1>9 DEF SI!Write, txnVars
  <1> QED
    BY <1>3, <1>5, <1>10

\* An abort forgets the transaction, whatever it wrote in the same step.
LEMMA AbstractAbort ==
  ASSUME IInv, IInv', Shapes, NEW t \in Xids, abort(t),
         NEW n \in {0, 1}, NEW d, Writes(t, d, n)
  PROVE  SI!Abort(t)
  <1>1. /\ state[t] = "active" /\ state' = [state EXCEPT ![t] = "aborted"]
        /\ state'[t] = "aborted"
        /\ \A u \in Xids : u # t => state'[u] = state[u]
    BY DEF abort, IInv, TypeOK
  <1>2. /\ CommittedRows' = CommittedRows
        /\ \A u \in Xids : state'[u] = "active" =>
             /\ StartRows(u)' = StartRows(u)
             /\ InsertedRows(u)' = InsertedRows(u) \cup (IF u = t THEN NewRids(n) ELSE {})
             /\ DeletedRows(u)' = DeletedRows(u) \cup (IF u = t THEN d ELSE {})
        /\ \A u \in Xids : state'[u] # "active" =>
             /\ StartRows(u)' = {} /\ InsertedRows(u)' = {} /\ DeletedRows(u)' = {}
    BY SMTT(30), <1>1, WriteSets
  <1>3. ASSUME NEW u \in Xids, u # t
        PROVE  /\ StartRows(u)' = StartRows(u)
               /\ InsertedRows(u)' = InsertedRows(u)
               /\ DeletedRows(u)' = DeletedRows(u)
    <2>1. CASE state[u] = "active"
      BY <1>1, <1>2, <1>3, <2>1
    <2>2. CASE state[u] # "active"
      <3>1. StartRows(u) = {} /\ InsertedRows(u) = {} /\ DeletedRows(u) = {}
        BY <2>2 DEF StartRows, InsertedRows, DeletedRows
      <3> QED
        BY <1>1, <1>2, <1>3, <2>2, <3>1
    <2> QED
      BY <2>1, <2>2
  <1>4. \A S : S \subseteq DOMAIN heap => {Identity(r)' : r \in S} = Identities(S)
    BY IdentitiesKept
  <1>5. Identities(CommittedRows)' = Identities(CommittedRows)
    BY <1>2, <1>4, RowSets DEF Identities
  <1>6. ASSUME NEW u \in Xids, u # t
        PROVE  /\ Identities(StartRows(u))' = Identities(StartRows(u))
               /\ Identities(InsertedRows(u))' = Identities(InsertedRows(u))
               /\ Identities(DeletedRows(u))' = Identities(DeletedRows(u))
    BY <1>3, <1>4, <1>6, RowSets DEF Identities
  <1>7. /\ Identities(StartRows(t))' = {}
        /\ Identities(InsertedRows(t))' = {}
        /\ Identities(DeletedRows(t))' = {}
    BY <1>1, <1>2 DEF Identities
  <1>8. SI!Forget(t)
    BY <1>6, <1>7 DEF SI!Forget
  <1> QED
    BY <1>1, <1>5, <1>8 DEF SI!Abort

\* A step that changes neither the heap nor the transactions is a stutter.
LEMMA StutterStep ==
  ASSUME UNCHANGED <<txnVars, heap>>
  PROVE  UNCHANGED SI!siVars
  <1>1. \A S : Identities(S)' = Identities(S)
    BY DEF Identities, Identity
  <1>2. CommittedRows' = CommittedRows
    BY DEF CommittedRows, Committed, txnVars
  <1>3. \A u \in Xids : /\ StartRows(u)' = StartRows(u)
                        /\ InsertedRows(u)' = InsertedRows(u)
                        /\ DeletedRows(u)' = DeletedRows(u)
    BY SMTT(30) DEF StartRows, InsertedRows, DeletedRows, CommittedBefore, SnapshotOf, INFINITY_TXN, txnVars
  <1> QED
    BY <1>1, <1>2, <1>3 DEF SI!siVars, txnVars

\* Initial states map to initial states.
LEMMA RefinementInit ==
  ASSUME Init
  PROVE  SI!Init
  <1>1. DOMAIN heap = {}
    BY SMTT(30) DEF Init
  <1>2. CommittedRows = {} /\ \A u \in Xids : StartRows(u) = {} /\ InsertedRows(u) = {} /\ DeletedRows(u) = {}
    BY <1>1 DEF CommittedRows, StartRows, InsertedRows, DeletedRows
  <1>3. Identities({}) = {}
    BY DEF Identities
  <1> QED
    BY <1>2, <1>3 DEF SI!Init, Init

\* Every step maps to a step of the abstract specification or to a stutter.
LEMMA RefinementStep ==
  ASSUME IInv, IInv', Shapes
  PROVE  [SI!Next]_(SI!siVars)
  <1>1. ASSUME NEW t \in Xids, begin(t), UNCHANGED heap
        PROVE  SI!Next
    BY <1>1, AbstractBegin DEF SI!Next
  <1>2. ASSUME NEW t \in Xids, commit(t), UNCHANGED heap
        PROVE  SI!Next
    BY <1>2, AbstractCommit DEF SI!Next
  <1>3. ASSUME NEW t \in Xids, state[t] = "active",
               NEW n \in {0, 1}, NEW d, Writes(t, d, n), d = {} \/ \E r : d = {r},
               abort(t) \/ UNCHANGED txnVars
        PROVE  SI!Next
    <2>1. CASE abort(t)
      BY <1>3, <2>1, AbstractAbort DEF SI!Next
    <2>2. CASE UNCHANGED txnVars
      BY <1>3, <2>2, AbstractWrite DEF SI!Next
    <2> QED
      BY <1>3, <2>1, <2>2
  <1>4. CASE UNCHANGED <<txnVars, heap>>
    BY <1>4, StutterStep
  <1>5. ASSUME NEW t \in Xids, WriteShape(t)
        PROVE  SI!Next
    BY <1>3, <1>5 DEF WriteShape
  <1> QED
    BY <1>1, <1>2, <1>4, <1>5 DEF Shapes

\* minirel's version headers, snapshots, aborted set and conflict check implement
\* snapshot isolation, for any number of transactions, rows and values, any
\* kind of index, and callers that go on after an error or not.
THEOREM Refinement == Spec => ImplementsSI
  <1>1. Init => SI!Init
    BY RefinementInit
  <1>2. IInv /\ IInv' /\ [Next]_vars => [SI!Next]_(SI!siVars)
    BY IInvStep, RefinementStep
  <1> QED
    BY <1>1, <1>2, Invariance, PTL DEF Spec, ImplementsSI, SI!Spec

\* What the engine shows a transaction is what snapshot isolation promises it.
THEOREM ViewCorrect == Spec => []SeesItsView
  <1>1. IInv => SeesItsView
    BY ViewIdentities DEF SeesItsView, IInv, IdsInv
  <1> QED
    BY <1>1, Invariance, PTL

-----------------------------------------------------------------------------
(* What a step does to the heap, the index and the failed transactions *)

\* The versions keep their writer and value, whoever stamps them.
Keeps(rows) ==
  /\ rows \in Seq(Row)
  /\ Len(rows) = Len(heap)
  /\ \A r \in 1..Len(heap) : rows[r].xmin = heap[r].xmin /\ rows[r].val = heap[r].val

\* A step other than the insertion of a version.
Quiet == Keeps(heap') /\ index' = index /\ failed \subseteq failed'

\* The insertion of a version with its index entry, or with an error instead.
Inserts(v) ==
  /\ heap' \in Seq(Row)
  /\ Len(heap') = Len(heap) + 1
  /\ \A r \in 1..Len(heap) : heap'[r].xmin = heap[r].xmin /\ heap'[r].val = heap[r].val
  /\ heap'[Len(heap) + 1] = [xmin |-> stmt.txn, xmax |-> INFINITY_TXN, val |-> v]
  /\ \/ /\ index' = index
        /\ failed' = failed \cup {stmt.txn}
     \/ /\ IndexKind = "none"
        /\ index' = index
        /\ failed' = failed
     \/ /\ index' = index \cup {[key |-> v, rid |-> Len(heap) + 1]}
        /\ failed' = failed

\* A heap left alone keeps its versions.
LEMMA SameKeeps ==
  ASSUME heap \in Seq(Row)
  PROVE  Keeps(heap)
  BY DEF Keeps

\* Stamping an xmax keeps every version's writer and value.
LEMMA StampKeeps ==
  ASSUME heap \in Seq(Row), NEW r \in Nat, stmt.txn \in Xids
  PROVE  Keeps(Stamped(r))
  <1>1. Stamped(r) \in Seq(Row) /\ Len(Stamped(r)) = Len(heap)
    BY StampTypes
  <1>2. ASSUME NEW q \in 1..Len(heap)
        PROVE  Stamped(r)[q].xmin = heap[q].xmin /\ Stamped(r)[q].val = heap[q].val
    <2>1. Stamped(r)[q] = IF q = r THEN WithXmax(heap[r], stmt.txn) ELSE heap[q]
      BY SMTT(30) DEF Stamped
    <2> QED
      BY SMTT(30), <2>1 DEF WithXmax
  <1> QED
    BY <1>1, <1>2 DEF Keeps

\* heap.insert followed by _insert_into_indexes is an insertion.
LEMMA InsertVersionInserts ==
  ASSUME TypeOK, stmt.kind # "idle", NEW rows, Keeps(rows), NEW v \in Values,
         NEW exclude, NEW rest, InsertVersion(rows, stmt.txn, v, exclude, rest)
  PROVE  Inserts(v)
  <1> DEFINE new == [xmin |-> stmt.txn, xmax |-> INFINITY_TXN, val |-> v]
  <1>1. stmt.txn \in Xids /\ heap \in Seq(Row) /\ rows \in Seq(Row) /\ Len(rows) = Len(heap)
    BY StatementTypes DEF TypeOK, Keeps
  <1>2. heap' = Append(rows, new) /\ new \in Row
    BY <1>1 DEF InsertVersion, PackTuple, Row
  <1>3. /\ heap' \in Seq(Row) /\ Len(heap') = Len(heap) + 1
        /\ heap'[Len(heap) + 1] = new
        /\ \A r \in 1..Len(heap) : heap'[r] = rows[r]
    <2> HIDE DEF new
    <2> QED
      BY SMTT(30), <1>1, <1>2
  <1>4. \A r \in 1..Len(heap) : heap'[r].xmin = heap[r].xmin /\ heap'[r].val = heap[r].val
    BY <1>3 DEF Keeps
  <1>5. \/ index' = index /\ failed' = failed \cup {stmt.txn}
        \/ IndexKind = "none" /\ index' = index /\ failed' = failed
        \/ index' = index \cup {[key |-> v, rid |-> Len(heap) + 1]} /\ failed' = failed
    BY <1>1 DEF InsertVersion, Raise, Proceed
  <1> QED
    BY <1>3, <1>4, <1>5 DEF Inserts

\* Every step is an insertion, or leaves the index and the versions' values alone.
LEMMA IndexShapes ==
  ASSUME TypeOK, [Next]_vars
  PROVE  Quiet \/ \E v \in Values : stmt.kind # "idle" /\ Inserts(v)
  <1>0. heap \in Seq(Row)
    BY DEF TypeOK
  <1>1. ASSUME UNCHANGED dataVars, failed \subseteq failed'
        PROVE  Quiet
    BY <1>0, <1>1, SameKeeps DEF Quiet, dataVars
  <1>2. CASE Begin \/ \E t \in Xids : Commit(t) \/ Abort(t)
    BY <1>1, <1>2 DEF Begin, Commit, Abort
  <1>3. ASSUME NEW t \in Xids, NEW owns \in BOOLEAN, Enter(t, owns)
        PROVE  Quiet
    BY <1>1, <1>3 DEF Enter
  <1>4. ASSUME NEW r, Conflict(r)
        PROVE  Quiet
    BY <1>1, <1>4 DEF Conflict, Raise
  <1>5. CASE InsertRow
    <2>1. /\ todo \in Seq(Values) /\ todo # <<>> /\ stmt.kind = "insert"
          /\ InsertVersion(heap, stmt.txn, Head(todo), {}, Tail(todo))
      BY <1>5 DEF InsertRow, TypeOK
    <2>2. Head(todo) \in Values
      BY SMTT(30), <2>1
    <2> QED
      BY <1>0, <2>1, <2>2, SameKeeps, InsertVersionInserts
  <1>6. CASE UpdateRow
    <2>1. PICK r \in todo : \/ Conflict(r)
                            \/ InsertVersion(Stamped(r), stmt.txn, stmt.val, {r}, todo \ {r})
      BY <1>6 DEF UpdateRow
    <2>2. stmt.kind = "update" /\ r \in Nat /\ stmt.txn \in Xids /\ stmt.val \in Values
      BY <1>6, StatementTypes DEF UpdateRow, TypeOK
    <2>3. Keeps(Stamped(r))
      BY <1>0, <2>2, StampKeeps
    <2> QED
      BY <1>4, <2>1, <2>2, <2>3, InsertVersionInserts
  <1>7. CASE DeleteRow
    <2>1. PICK r \in todo : \/ Conflict(r)
                            \/ heap' = Stamped(r) /\ UNCHANGED index /\ Proceed(todo \ {r})
      BY <1>7 DEF DeleteRow
    <2>2. r \in Nat /\ stmt.txn \in Xids
      BY <1>7, StatementTypes DEF DeleteRow, TypeOK
    <2>3. Keeps(Stamped(r))
      BY <1>0, <2>2, StampKeeps
    <2> QED
      BY <1>4, <2>1, <2>3 DEF Quiet, Proceed, Keeps
  <1>8. CASE FinishStatement
    BY <1>1, <1>8 DEF FinishStatement
  <1>9. CASE UNCHANGED vars
    BY <1>1, <1>9 DEF vars
  <1> QED
    BY <1>2, <1>3, <1>5, <1>6, <1>7, <1>8, <1>9
    DEF Next, StartInsert, StartUpdate, StartDelete

-----------------------------------------------------------------------------
(* The invariant of the entries *)

\* Every step keeps the entries true and, but for failed transactions, complete.
LEMMA EntriesStep ==
  ASSUME TypeOK, EntriesInv, [Next]_vars
  PROVE  EntriesInv'
  <1>0. heap \in Seq(Row) /\ DOMAIN heap = 1..Len(heap) /\ Len(heap) \in Nat
    BY SMTT(30) DEF TypeOK
  <1>1. CASE Quiet
    <2>1. DOMAIN heap' = DOMAIN heap
      BY SMTT(30), <1>0, <1>1 DEF Quiet, Keeps
    <2> QED
      BY <1>0, <1>1, <2>1 DEF Quiet, Keeps, EntriesInv
  <1>2. ASSUME NEW v \in Values, Inserts(v)
        PROVE  EntriesInv'
    <2> DEFINE n == Len(heap) + 1
    <2>1. /\ DOMAIN heap' = 1..n /\ n \in Nat
          /\ \A r \in 1..n : r = n \/ r \in 1..Len(heap)
          /\ 1..Len(heap) \subseteq 1..n /\ n \in 1..n
      BY SMTT(30), <1>0, <1>2 DEF Inserts
    <2>2. heap'[n].xmin = stmt.txn /\ heap'[n].val = v
      BY SMTT(30), <1>2 DEF Inserts
    <2>3. \A r \in 1..Len(heap) : heap'[r].xmin = heap[r].xmin /\ heap'[r].val = heap[r].val
      BY <1>2 DEF Inserts
    <2>4. \/ index' = index /\ failed' = failed \cup {stmt.txn}
          \/ IndexKind = "none" /\ index' = index /\ failed' = failed
          \/ index' = index \cup {[key |-> v, rid |-> n]} /\ failed' = failed
      BY <1>2 DEF Inserts
    <2> HIDE DEF n
    <2>5. \A e \in index' : e.rid \in DOMAIN heap' /\ heap'[e.rid].val = e.key
      BY SMTT(30), <1>0, <2>1, <2>2, <2>3, <2>4 DEF EntriesInv
    <2>6. ASSUME IndexKind # "none", NEW r \in 1..n, heap'[r].xmin \notin failed'
          PROVE  [key |-> heap'[r].val, rid |-> r] \in index'
      <3>1. CASE r = n
        BY <2>2, <2>4, <2>6, <3>1
      <3>2. CASE r \in 1..Len(heap)
        <4>1. heap[r].xmin \notin failed
          BY SMTT(30), <2>3, <2>4, <2>6, <3>2
        <4>2. [key |-> heap[r].val, rid |-> r] \in index
          BY <1>0, <2>6, <3>2, <4>1 DEF EntriesInv
        <4> QED
          BY SMTT(30), <2>3, <2>4, <3>2, <4>2
      <3> QED
        BY <2>1, <3>1, <3>2
    <2> QED
      BY <2>1, <2>5, <2>6 DEF EntriesInv
  <1> QED
    BY <1>1, <1>2, IndexShapes

\* Every index entry names a version that holds its key, and a version without an
\* entry was written by a transaction of which a statement has raised.
THEOREM EntriesHold == Spec => []EntriesInv
  <1>1. Init => EntriesInv
    BY SMTT(30) DEF Init, EntriesInv
  <1>2. TypeOK /\ EntriesInv /\ [Next]_vars => EntriesInv'
    BY EntriesStep
  <1> QED
    BY <1>1, <1>2, TypeCorrect, PTL DEF Spec

-----------------------------------------------------------------------------
(* Lookups and uniqueness *)

\* A version that a transaction without errors sees was written by one without
\* errors, as long as those with errors are aborted.
LEMMA SeenHasEntry ==
  ASSUME IInv, EntriesInv, ErrorsAborted, IndexKind # "none",
         NEW t \in Xids, state[t] = "active", t \notin failed,
         NEW r \in Visible(SnapshotOf(t))
  PROVE  [key |-> heap[r].val, rid |-> r] \in index
  <1>1. /\ r \in DOMAIN heap
        /\ heap[r].xmin \in Xids
        /\ heap[r].xmin \notin abortedXids
        /\ heap[r].xmin = t \/ CommittedBefore(SnapshotOf(t), heap[r].xmin)
    <2>1. /\ r \in DOMAIN heap
          /\ heap[r].xmin \notin abortedXids
          /\ heap[r].xmin = t \/ CommittedBefore(SnapshotOf(t), heap[r].xmin)
      BY DEF Visible, IsVisible, SnapshotOf
    <2>2. heap[r] \in Row
      BY SMTT(30), <2>1 DEF IInv, TypeOK
    <2> QED
      BY <2>1, <2>2 DEF Row
  <1>2. t < nextTxnId
    BY SMTT(30), ConstantsAssumption DEF IInv, IdsInv, TypeOK, Xids
  <1>3. heap[r].xmin \notin failed
    BY <1>1, <1>2 DEF ErrorsAborted, IInv, SnapshotInv, IdsInv
  <1> QED
    BY <1>1, <1>3 DEF EntriesInv

\* The index scan and the heap scan return the same rows in every state in which
\* the invariants hold.
LEMMA Agrees ==
  ASSUME IInv, EntriesInv
  PROVE  IndexAgreesWithScan
  <1> SUFFICES ASSUME ErrorsAborted, NEW t \in activeXids, t \notin failed,
                      IndexKind # "none", NEW k \in Values
               PROVE  IndexMatches(SnapshotOf(t), k) = ScanMatches(SnapshotOf(t), {k})
    BY DEF IndexAgreesWithScan, IndexAgreesFor
  <1>1. t \in Xids /\ state[t] = "active"
    BY DEF IInv, IdsInv
  <1>2. ASSUME NEW r \in IndexMatches(SnapshotOf(t), k)
        PROVE  r \in ScanMatches(SnapshotOf(t), {k})
    BY DEF IndexMatches, ScanMatches, EntriesInv
  <1>3. ASSUME NEW r \in ScanMatches(SnapshotOf(t), {k})
        PROVE  r \in IndexMatches(SnapshotOf(t), k)
    BY <1>1, SeenHasEntry DEF IndexMatches, ScanMatches
  <1> QED
    BY <1>2, <1>3

\* Between statements, an index lookup by any transaction without errors returns
\* exactly the rows a scan would, for any number of transactions, rows and values.
THEOREM LookupsAgree == Spec => []IndexAgreesWithScan
  <1>1. IInv /\ EntriesInv => IndexAgreesWithScan
    BY Agrees
  <1> QED
    BY <1>1, Invariance, EntriesHold, PTL

\* A row loop's insertion that does not raise leaves the new version the only one
\* with its key in the view of its transaction.
LEMMA InsertionUnique ==
  ASSUME IInv, EntriesInv, ErrorsAborted, IndexKind = "unique", stmt.kind # "idle",
         NEW rows, Keeps(rows), NEW v \in Values, NEW exclude, NEW rest,
         InsertVersion(rows, stmt.txn, v, exclude, rest),
         \A q \in 1..Len(heap) : rows[q] = IF q \in exclude THEN WithXmax(heap[q], stmt.txn)
                                           ELSE heap[q],
         NEW t \in Xids, t = stmt.txn, t \notin failed',
         NEW n \in Nat, n = Len(heap) + 1
  PROVE  SoleHolder(t, n)'
  <1>1. t \in Xids /\ state[t] = "active" /\ heap \in Seq(Row)
    BY StatementTypes DEF IInv, TypeOK, StatementInv
  <1>2. Inserts(v)
    BY InsertVersionInserts DEF IInv
  <1>3. /\ ~Duplicate(heap', t, v, exclude)
        /\ Proceed(rest)
    BY DEF InsertVersion, Raise
  <1>4. t \notin failed /\ UNCHANGED txnVars /\ t \notin abortedXids /\ stmt' = stmt
    BY <1>1, <1>3 DEF Proceed, IInv, IdsInv
  <1>5. /\ heap' = Append(rows, [xmin |-> t, xmax |-> INFINITY_TXN, val |-> v])
        /\ rows \in Seq(Row) /\ Len(rows) = Len(heap) /\ Len(heap) \in Nat
    BY SMTT(30), <1>1 DEF InsertVersion, PackTuple, Keeps
  <1>6. /\ DOMAIN heap' = 1..n
        /\ \A q \in 1..n : q = n \/ q \in 1..Len(heap)
        /\ \A q \in 1..Len(heap) : heap'[q] = rows[q]
        /\ heap'[n] = [xmin |-> t, xmax |-> INFINITY_TXN, val |-> v]
    BY SMTT(30), <1>5
  <1>7. \A row, s : IsVisible(row, s)' <=> IsVisible(row, s)
    BY <1>4 DEF IsVisible, CommittedBefore, txnVars
  <1>8. (SnapshotOf(t))' = SnapshotOf(t)
    BY <1>4 DEF SnapshotOf, txnVars
  <1>9. ASSUME NEW q \in 1..Len(heap), IsVisible(heap'[q], SnapshotOf(t)), heap'[q].val = v
        PROVE  FALSE
    <2>1. q \notin exclude
      <3>1. ASSUME q \in exclude
            PROVE  heap'[q].xmax = t
        <4>1. heap'[q] = WithXmax(heap[q], t)
          BY <1>6, <3>1
        <4> QED
          BY SMTT(30), <4>1 DEF WithXmax
      <3>2. t # INFINITY_TXN
        BY SMTT(30), <1>1, ConstantsAssumption DEF Xids, INFINITY_TXN
      <3> QED
        BY <1>4, <1>9, <3>1, <3>2 DEF IsVisible, SnapshotOf
    <2>2. heap'[q] = heap[q]
      BY <1>6, <2>1
    <2>3. q \in Visible(SnapshotOf(t))
      BY SMTT(30), <1>1, <1>9, <2>2 DEF Visible
    <2>4. [key |-> v, rid |-> q] \in index
      BY <1>1, <1>4, <1>9, <2>2, <2>3, SeenHasEntry
    <2>5. q \in DOMAIN heap' \ exclude
      BY SMTT(30), <1>5, <1>6, <2>1
    <2> QED
      BY <1>3, <1>9, <2>4, <2>5 DEF Duplicate
  <1>10. IsVisible(heap'[n], SnapshotOf(t))
    BY SMTT(30), <1>4, <1>6 DEF IsVisible, SnapshotOf
  <1>11. n \in 1..n
    BY SMTT(30), <1>5
  <1>12. \A q \in 1..n : IsVisible(heap'[q], SnapshotOf(t)) /\ heap'[q].val = v => q = n
    BY <1>6, <1>9
  <1>13. {q \in 1..n : IsVisible(heap'[q], SnapshotOf(t)) /\ heap'[q].val = v} = {n}
    BY SMTT(30), <1>6, <1>10, <1>11, <1>12
  <1> QED
    BY <1>4, <1>6, <1>7, <1>8, <1>13 DEF SoleHolder, HoldersOf, Visible

\* Two sequences of different lengths differ by the appended version only.
LEMMA NewVersionRid ==
  ASSUME heap \in Seq(Row), heap' \in Seq(Row), Len(heap') = Len(heap) + 1,
         NEW r \in DOMAIN heap' \ DOMAIN heap
  PROVE  r = Len(heap) + 1
  BY SMTT(30)

\* An insertion that does not raise is unique for its transaction, in any step.
LEMMA UniqueStep ==
  ASSUME IInv, EntriesInv, [Next]_vars, ErrorsAborted, IndexKind = "unique",
         NEW r \in DOMAIN heap' \ DOMAIN heap,
         NEW t \in Xids, t = stmt.txn, t \notin failed'
  PROVE  SoleHolder(t, r)'
  <1>0. TypeOK /\ heap \in Seq(Row) /\ Len(heap) \in Nat
    BY SMTT(30) DEF IInv, TypeOK
  <1>1. ~Quiet
    BY SMTT(30), <1>0 DEF Quiet, Keeps
  <1>2. PICK v \in Values : stmt.kind # "idle" /\ Inserts(v)
    BY <1>0, <1>1, IndexShapes
  <1>3. r = Len(heap) + 1 /\ r \in Nat
    <2>1. heap' \in Seq(Row) /\ Len(heap') = Len(heap) + 1
      BY <1>2 DEF Inserts
    <2> QED
      BY SMTT(30), <1>0, <2>1, NewVersionRid
  <1>4. InsertRow \/ UpdateRow
    <2>1. heap' # heap /\ heap' # <<>>
      BY SMTT(30), <1>0, <1>2 DEF Inserts
    <2>2. ASSUME DeleteRow
          PROVE  FALSE
      <3>1. PICK q \in todo : Conflict(q) \/ heap' = Stamped(q)
        BY <2>2 DEF DeleteRow
      <3>2. q \in Nat /\ stmt.txn \in Xids
        BY <1>0, <2>2, StatementTypes DEF DeleteRow, TypeOK
      <3>3. heap' = Stamped(q)
        BY <2>1, <3>1 DEF Conflict, dataVars
      <3>4. Len(heap') = Len(heap)
        BY <1>0, <3>2, <3>3, StampTypes
      <3> QED
        BY SMTT(30), <1>0, <1>2, <3>4 DEF Inserts
    <2> QED
      BY <2>1, <2>2 DEF Next, vars, dataVars, Begin, Commit, Abort, Enter, StartInsert,
                        StartUpdate, StartDelete, FinishStatement
  <1>5. CASE InsertRow
    <2>1. /\ todo \in Seq(Values) /\ todo # <<>>
          /\ InsertVersion(heap, stmt.txn, Head(todo), {}, Tail(todo))
      BY <1>0, <1>5 DEF InsertRow, TypeOK
    <2>2. Head(todo) \in Values /\ Keeps(heap)
      BY SMTT(30), <1>0, <2>1, SameKeeps
    <2>3. \A q \in 1..Len(heap) : heap[q] = IF q \in {} THEN WithXmax(heap[q], stmt.txn)
                                            ELSE heap[q]
      OBVIOUS
    <2> QED
      BY SMTT(30), <1>2, <1>3, <2>1, <2>2, <2>3, InsertionUnique
  <1>6. CASE UpdateRow
    <2>1. PICK q \in todo : \/ Conflict(q)
                            \/ InsertVersion(Stamped(q), stmt.txn, stmt.val, {q}, todo \ {q})
      BY <1>6 DEF UpdateRow
    <2>2. stmt.kind = "update" /\ q \in Nat /\ stmt.txn \in Xids /\ stmt.val \in Values
      BY <1>0, <1>6, StatementTypes DEF UpdateRow, TypeOK
    <2>3. InsertVersion(Stamped(q), stmt.txn, stmt.val, {q}, todo \ {q})
      BY <1>0, <1>1, <2>1, SameKeeps DEF Conflict, Raise, dataVars, Quiet
    <2>4. Keeps(Stamped(q))
      BY <1>0, <2>2, StampKeeps
    <2>5. \A p \in 1..Len(heap) : Stamped(q)[p] = IF p \in {q} THEN WithXmax(heap[p], stmt.txn)
                                                  ELSE heap[p]
      BY SMTT(30), <1>0 DEF Stamped
    <2> QED
      BY <1>2, <1>3, <2>2, <2>3, <2>4, <2>5, InsertionUnique
  <1> QED
    BY <1>4, <1>5, <1>6

\* _check_unique_constraint does what it is for, for any number of transactions,
\* rows and values: the row it lets pass is the only one with its key in the view of
\* the transaction that wrote it.
THEOREM UniqueForWriter == Spec => UniqueWhenWritten
  <1>1. IInv /\ EntriesInv /\ [Next]_vars =>
          [\A r \in 1..MaxRows, t \in Xids :
             /\ IndexKind = "unique"
             /\ r \in DOMAIN heap' \ DOMAIN heap
             /\ t = stmt.txn
             /\ t \notin failed'
             /\ ErrorsAborted
             => SoleHolder(t, r)']_vars
    BY UniqueStep
  <1> QED
    BY <1>1, Invariance, EntriesHold, PTL DEF Spec, UniqueWhenWritten
=============================================================================
