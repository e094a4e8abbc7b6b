-------------------------- MODULE DatabaseTheorems --------------------------
(***************************************************************************)
(* The theorems about Database.tla, through any number of checkpoints,     *)
(* shutdowns, process deaths and recoveries: which ids are given out, what *)
(* stays invisible and what recovery restores.  They rest on the step      *)
(* lemmas of DatabaseProofs and RecoveryProofs, and on the types of        *)
(* TransactionProofs.                                                      *)
(***************************************************************************)
EXTENDS RecoveryProofs, TransactionProofs

\* Most leaves need first-order and set reasoning only: they go to Zenon, the others
\* name their prover.
USE ZenonT(30)

-----------------------------------------------------------------------------
(* Largest ids, and counting *)

\* A set of naturals that has a bound has a greatest element.
LEMMA BoundedMax ==
  ASSUME NEW S, S \subseteq Nat, S # {}, NEW n \in Nat, \A x \in S : x <= n
  PROVE  MaxId(S) \in S /\ \A x \in S : MaxId(S) >= x
<1> DEFINE T == {n - x : x \in S}
<1>1. T \subseteq Nat /\ T # {}
  <2>1. \A x \in S : n - x \in Nat
    BY SMTT(30)
  <2> QED
    BY <2>1
<1>2. PICK d \in T : \A y \in T : ~(<<y, d>> \in OpToRel(<, Nat))
  <2> HIDE DEF T
  <2> QED
    BY <1>1, NatLessThanWellFounded, WFMin
<1>3. \A y \in T : d <= y
  <2> SUFFICES ASSUME NEW y \in T, ~(d <= y) PROVE FALSE
    OBVIOUS
  <2>1. y \in Nat /\ d \in Nat /\ y < d
    BY SMTT(30), <1>1
  <2>2. <<y, d>> \in OpToRel(<, Nat)
    BY <2>1 DEF OpToRel
  <2> QED
    BY <1>2, <2>2
<1>4. PICK m \in S : d = n - m
  OBVIOUS
<1>5. \A x \in S : m >= x
  BY SMTT(30), <1>3, <1>4
<1> QED
  BY <1>5 DEF MaxId

\* And that is what NextTxnId needs.
LEMMA LargestId == MaxIdFacts
  BY BoundedMax DEF MaxIdFacts

\* The positions of a log can be counted.
LEMMA Counting == CardinalityFacts
<1>1. ASSUME NEW n \in Nat, NEW S, S \subseteq 1..n
      PROVE  /\ Cardinality(S) \in Nat
             /\ \A i : i \notin S => Cardinality(S \cup {i}) = Cardinality(S) + 1
  <2>1. IsFiniteSet(1..n)
    BY SMTT(30), FS_Interval
  <2>2. IsFiniteSet(S)
    BY <1>1, <2>1, FS_Subset
  <2> QED
    BY <2>2, FS_CardinalityType, FS_AddElement
<1>2. Cardinality({}) = 0
  BY FS_EmptySet
<1> QED
  BY <1>1, <1>2 DEF CardinalityFacts

-----------------------------------------------------------------------------
(* The steps of a running database *)

\* The index and the failed transactions after a row, by whether a version was appended.
LEMMA RowIndexed ==
  ASSUME TypeOK, InsertRow \/ UpdateRow \/ DeleteRow, stmt.txn \in Xids,
         NEW d, NEW n \in {0, 1}, Writes(stmt.txn, d, n),
         NEW new, new = IF n = 1 /\ IndexKind # "none" /\ stmt' = stmt THEN {NewEntry} ELSE {}
  PROVE  /\ index' = index \cup new
         /\ n = 1 /\ IndexKind # "none" /\ new = {} => IndexKind = "unique" /\ stmt.txn \in failed'
         /\ failed \subseteq failed' /\ failed' \subseteq failed \cup {stmt.txn}
<1>1. heap \in Seq(Row) /\ Len(heap) \in Nat /\ Len(heap') = Len(heap) + n /\ stmt.kind # "idle"
  BY SMTT(30) DEF TypeOK, Writes, InsertRow, UpdateRow, DeleteRow
<1>2. ASSUME NEW rows \in Seq(Row), Len(rows) = Len(heap), NEW v, NEW exclude, NEW rest,
             InsertVersion(rows, stmt.txn, v, exclude, rest)
      PROVE  /\ index' = index \cup new
             /\ n = 1 /\ IndexKind # "none" /\ new = {} => IndexKind = "unique" /\ stmt.txn \in failed'
             /\ failed \subseteq failed' /\ failed' \subseteq failed \cup {stmt.txn}
  <2>1. heap' = Append(rows, PackTuple(stmt.txn, v))
    BY <1>2 DEF InsertVersion
  <2>2. n = 1 /\ heap'[NewRid] = PackTuple(stmt.txn, v)
    <3>1. Len(heap') = Len(rows) + 1 /\ heap'[Len(rows) + 1] = PackTuple(stmt.txn, v)
      BY SMTT(30), <2>1
    <3> QED
      BY SMTT(30), <1>1, <1>2, <3>1 DEF NewRid
  <2>3. NewEntry = [key |-> v, rid |-> Len(rows) + 1]
    BY SMTT(30), <1>2, <2>2 DEF NewEntry, PackTuple, NewRid
  <2>4. CASE Duplicate(heap', stmt.txn, v, exclude)
    <3>1. Raise /\ index' = index /\ IndexKind = "unique"
      BY <1>2, <2>4 DEF InsertVersion, Duplicate
    <3>2. stmt' = Idle /\ failed' = failed \cup {stmt.txn}
      BY <3>1 DEF Raise
    <3>3. stmt' # stmt
      BY SMTT(30), <1>1, <3>2 DEF Idle
    <3> QED
      BY <3>1, <3>2, <3>3
  <2>5. CASE ~Duplicate(heap', stmt.txn, v, exclude)
    <3>1. /\ index' = IF IndexKind = "none" THEN index ELSE index \cup {[key |-> v, rid |-> Len(rows) + 1]}
          /\ stmt' = stmt /\ failed' = failed
      BY <1>2, <2>5 DEF InsertVersion, Proceed
    <3> QED
      BY <2>2, <2>3, <3>1
  <2> QED
    BY <2>4, <2>5
<1>3. ASSUME Len(heap') = Len(heap), index' = index, failed' = failed \/ failed' = failed \cup {stmt.txn}
      PROVE  /\ index' = index \cup new
             /\ n = 1 /\ IndexKind # "none" /\ new = {} => IndexKind = "unique" /\ stmt.txn \in failed'
             /\ failed \subseteq failed' /\ failed' \subseteq failed \cup {stmt.txn}
  <2>1. n = 0
    BY SMTT(30), <1>1, <1>3
  <2> QED
    BY SMTT(30), <1>3, <2>1
<1>4. \A r : Conflict(r) => Len(heap') = Len(heap) /\ index' = index /\ failed' = failed \cup {stmt.txn}
  BY DEF Conflict, Raise, dataVars
<1>5. CASE InsertRow
  BY <1>1, <1>2, <1>5 DEF InsertRow
<1>6. CASE UpdateRow
  <2>1. PICK r \in todo : \/ Conflict(r)
                          \/ InsertVersion(Stamped(r), stmt.txn, stmt.val, {r}, todo \ {r})
    BY <1>6 DEF UpdateRow
  <2>2. r \in Nat
    BY <1>6 DEF UpdateRow, TypeOK
  <2>3. Stamped(r) \in Seq(Row) /\ Len(Stamped(r)) = Len(heap)
    BY <1>1, <2>2, StampTypes
  <2> QED
    BY <1>2, <1>3, <1>4, <2>1, <2>3
<1>7. CASE DeleteRow
  <2>1. PICK r \in todo : \/ Conflict(r)
                          \/ heap' = Stamped(r) /\ UNCHANGED index /\ Proceed(todo \ {r})
    BY <1>7 DEF DeleteRow
  <2>2. r \in Nat
    BY <1>7 DEF DeleteRow, TypeOK
  <2>3. Stamped(r) \in Seq(Row) /\ Len(Stamped(r)) = Len(heap)
    BY <1>1, <2>2, StampTypes
  <2>4. CASE heap' = Stamped(r) /\ UNCHANGED index /\ Proceed(todo \ {r})
    BY <1>3, <2>3, <2>4 DEF Proceed
  <2> QED
    BY <1>3, <1>4, <2>1, <2>4
<1> QED
  BY <1>5, <1>6, <1>7

\* Every step of a running database has one of the forms, and is a step of Transaction.tla.
LEMMA OperateForms ==
  ASSUME TypeOK, StatementInv, OwnerInv, walBuf \in Seq(LogRecord), wal \in Seq(LogRecord),
         \A t \in abortedXids : state[t] # "active",
         Operate
  PROVE  Forms /\ Next
<1>1. CASE Begin /\ Buffer(<<Record("BEGIN", nextTxnId)>>)
  <2>1. PICK t \in Xids : begin(t)
    BY <1>1 DEF Begin
  <2>2. t = nextTxnId /\ UNCHANGED <<heap, index, failed>>
    BY <1>1, <2>1 DEF begin, Begin, dataVars
  <2> QED
    BY <1>1, <2>1, <2>2 DEF Forms, BeginStep, Next
<1>2. ASSUME NEW t \in Xids, Commit(t), ForceLog(<<Record("COMMIT", t)>>)
      PROVE  Forms /\ Next
  BY <1>2 DEF Forms, Next, CommitStep, Commit, dataVars
<1>3. ASSUME NEW t \in Xids, Abort(t), Buffer(<<Record("ABORT", t)>>)
      PROVE  Forms /\ Next
  <2>1. abort(t) /\ state[t] = "active" /\ UNCHANGED <<heap, index, failed>>
    BY <1>3 DEF Abort, abort, dataVars
  <2>2. Writes(t, {}, 0)
    BY <2>1, NoWriteShape DEF TypeOK
  <2>3. Logged(t, {}, 0, {}, <<Record("ABORT", t)>>)
    <3> DEFINE rec == Record("ABORT", t)
    <3>1. rec \in LogRecord /\ rec.txn = t /\ rec.type = "ABORT"
      BY RecordsAreTyped DEF Record
    <3> HIDE DEF rec
    <3>2. <<rec>> \in Seq(LogRecord) /\ DOMAIN <<rec>> = {1} /\ <<rec>>[1] = rec
      BY <3>1, AtMostOne
    <3>3. Logged(t, {}, 0, {}, <<rec>>)
      BY SMTT(30), <3>1, <3>2 DEF Logged
    <3> QED
      BY <3>3 DEF rec
  <2>4. WriteStep(t, {}, 0, {}, <<Record("ABORT", t)>>)
    BY SMTT(30), <1>3, <2>1, <2>2, <2>3 DEF WriteStep
  <2>5. {} \in SUBSET (1..Len(heap)) /\ 0 \in {0, 1}
    OBVIOUS
  <2>6. Forms
    BY <2>4, <2>5 DEF Forms
  <2> QED
    BY <1>3, <2>6 DEF Next
<1>4. ASSUME NEW t \in Xids, NEW owns \in BOOLEAN, Enter(t, owns), Buffer(OwnBegin(t, owns))
      PROVE  Forms
  <2>1. CASE owns
    BY <1>4, <2>1 DEF Enter, OwnBegin, Forms, BeginStep, dataVars
  <2>2. CASE ~owns
    <3>1. UNCHANGED <<txnVars, heap, index, failed, wal>> /\ walBuf' = walBuf \o <<>>
      BY <1>4, <2>2 DEF Enter, OwnBegin, Buffer, dataVars
    <3>2. walBuf \o <<>> = walBuf
      BY SMTT(30)
    <3> QED
      BY <3>1, <3>2 DEF Forms, QuietStep
  <2> QED
    BY <2>1, <2>2
<1>5. CASE (InsertRow \/ UpdateRow \/ DeleteRow) /\ Buffer(RowRecords)
  <2> DEFINE t == stmt.txn
  <2>1. t \in Xids /\ WriteShape(t)
    BY <1>5, RowShapes
  <2>2. PICK n \in {0, 1} : Writes(t, {}, n) \/ \E r \in 1..Len(heap) : Writes(t, {r}, n)
    BY <2>1 DEF WriteShape
  <2>3. PICK d \in SUBSET (1..Len(heap)) : Writes(t, d, n) /\ (d = {} \/ \E r : d = {r})
    BY <2>2
  <2>4. t \notin abortedXids /\ state[t] = "active" /\ (abort(t) \/ UNCHANGED txnVars)
    BY <2>1 DEF WriteShape
  <2>5. PICK new : new = IF n = 1 /\ IndexKind # "none" /\ stmt' = stmt THEN {NewEntry} ELSE {}
    OBVIOUS
  <2>6. /\ index' = index \cup new
        /\ n = 1 /\ IndexKind # "none" /\ new = {} => IndexKind = "unique" /\ t \in failed'
        /\ failed \subseteq failed' /\ failed' \subseteq failed \cup {t}
    BY <1>5, <2>1, <2>3, <2>5, RowIndexed
  <2>7. Logged(t, d, n, new, RowRecords)
    BY <2>1, <2>3, <2>4, <2>5, RowLogged DEF TypeOK
  <2>8. new # {} => n = 1 /\ new = {NewEntry} /\ IndexKind # "none"
    BY <2>5
  <2>9. WriteStep(t, d, n, new, RowRecords)
    BY <1>5, <2>3, <2>4, <2>6, <2>7, <2>8 DEF WriteStep
  <2> QED
    BY <1>5, <2>1, <2>9 DEF Forms, Next
<1>6. CASE FinishStatement /\ IF stmt.owns THEN ForceLog(<<Record("COMMIT", stmt.txn)>>)
                                           ELSE UNCHANGED logVars
  <2>1. stmt.kind # "idle" /\ UNCHANGED <<heap, index, failed>>
    BY <1>6 DEF FinishStatement, dataVars
  <2>2. stmt.txn \in Xids
    BY <2>1, StatementTypes DEF TypeOK
  <2>3. CASE stmt.owns
    BY <1>6, <2>1, <2>2, <2>3 DEF FinishStatement, Forms, CommitStep, OwnerInv, Next
  <2>4. CASE ~stmt.owns
    BY <1>6, <2>1, <2>4 DEF FinishStatement, Forms, QuietStep, logVars, Next
  <2> QED
    BY <2>3, <2>4
<1>7. ASSUME NEW t \in Xids, NEW owns \in BOOLEAN, Buffer(OwnBegin(t, owns)),
             \/ \E vals \in Batches : StartInsert(t, owns, vals)
             \/ \E where \in (SUBSET Values) \ {{}} :
                  \/ StartDelete(t, owns, where)
                  \/ \E v \in Values : StartUpdate(t, owns, where, v)
      PROVE  Forms /\ Next
  <2>1. Enter(t, owns)
    BY <1>7 DEF StartInsert, StartDelete, StartUpdate
  <2> QED
    BY <1>4, <1>7, <2>1 DEF Next
<1> QED
  BY <1>1, <1>2, <1>3, <1>5, <1>6, <1>7 DEF Operate

\* Under the base invariant.
LEMMA RunningForms ==
  ASSUME BaseInv, Running
  PROVE  Forms /\ Next
<1>1. phase = "up" /\ Operate
  BY DEF Running
<1>2. /\ TypeOK /\ StatementInv /\ OwnerInv /\ wal \in Seq(LogRecord) /\ walBuf \in Seq(LogRecord)
      /\ \A t \in abortedXids : state[t] # "active"
  BY <1>1 DEF BaseInv, StoreTypeOK, ManagerInv
<1> QED
  BY <1>1, <1>2, OperateForms

-----------------------------------------------------------------------------
(* The base invariant *)

\* A new database meets the base invariant.
LEMMA BaseHolds == DbInit => BaseInv
<1> SUFFICES ASSUME DbInit PROVE BaseInv
  OBVIOUS
<1>1. TypeOK
  BY TypeInit DEF DbInit
<1> QED
  BY <1>1, LogInvInit, BaseInit

\* Every step keeps the base invariant.
LEMMA BaseStep == BaseInv /\ [DbNext]_dbVars => BaseInv'
<1> SUFFICES ASSUME BaseInv, [DbNext]_dbVars PROVE BaseInv'
  OBVIOUS
<1>1. LogInv'
  BY LargestId, LogInvStep DEF BaseInv
<1>2. CASE Running
  <2>1. Forms /\ Next /\ TypeOK /\ StatementInv
    BY <1>2, RunningForms DEF BaseInv, StoreTypeOK
  <2>2. TypeOK'
    BY <2>1, TypeStep
  <2>3. StatementInv'
    BY <2>1, <2>2, StatementStep
  <2> QED
    BY <1>1, <1>2, <2>1, <2>2, <2>3, RunningBase
<1>3. CASE WriteBack \/ Checkpoint
  BY <1>1, <1>3, WriteBackBase, CheckpointBase
<1>4. CASE Close \/ Crash
  BY <1>1, <1>4, StopBase
<1>5. CASE Open \/ ReplayOp \/ FinishRecovery
  BY <1>1, <1>5, OpenBase, ReplayBase
<1>6. CASE UNCHANGED dbVars
  BY <1>1, <1>6, BaseStutter
<1> QED
  BY <1>2, <1>3, <1>4, <1>5, <1>6 DEF DbNext

-----------------------------------------------------------------------------
(* The theorems *)

\* Whatever was checkpointed, shut down, killed and recovered, and however often, the id
\* of a transaction whose COMMIT is in the log file is never given out again:
\* Database.__init__ takes the next id from the whole log, not from what is replayed.
THEOREM IdsNotReused == DbSpec => []CommittedIdsNotReused
<1>1. LogInv => CommittedIdsNotReused
  <2> SUFFICES ASSUME LogInv, phase = "up", NEW i \in DOMAIN wal
               PROVE  wal[i].txn < nextTxnId
    BY DEF CommittedIdsNotReused, CommittedTxns, TxnsWith
  <2>1. Below(wal, nextTxnId) /\ nextTxnId \in Nat
    BY SMTT(30), ConstantsAssumption DEF LogInv, IdTypeOK
  <2> QED
    BY <2>1, BelowLogs
<1>2. LogInv /\ [DbNext]_dbVars => LogInv'
  BY LargestId, LogInvStep
<1> QED
  BY <1>1, <1>2, LogInvInit, PTL DEF DbSpec

\* Whatever is checkpointed, closed, killed and recovered, and however often, no version
\* that an aborted or dead transaction wrote is seen by any transaction, as long as every
\* page written back had the BEGINs of its writers in the log file and every checkpoint
\* was taken with no dead version in the heap: then uncommitted_txns() finds each of them.
THEOREM DeadStayInvisible == DbSpec => []DeadInvisibleWhileCovered
<1>1. DbInit => BaseInv /\ DeadInv
  <2> SUFFICES ASSUME DbInit PROVE DeadInv
    BY BaseHolds
  <2> QED
    BY SMTT(30) DEF DbInit, Init, DeadInv
<1>2. BaseInv /\ DeadInv /\ [DbNext]_dbVars => (BaseInv /\ DeadInv)'
  BY BaseStep, RunningForms, DeadStep
<1>3. BaseInv /\ DeadInv => DeadInvisibleWhileCovered
  <2> SUFFICES ASSUME DeadInv, phase = "up", covered, NEW t \in activeXids, NEW r \in dead
               PROVE  r \notin Visible(SnapshotOf(t))
    BY DEF DeadInvisibleWhileCovered
  <2> QED
    BY DEF DeadInv, Visible, IsVisible
<1> QED
  BY <1>1, <1>2, <1>3, PTL DEF DbSpec

\* _recover() restores what was promised: while a database is opened with what its last
\* checkpoint left in the data file and after a log with no gap in its RIDs, what every
\* later transaction sees, by a scan and through the index, is the rows of the
\* commits that returned and nothing else, through any number of crashes, orderly closes,
\* checkpoints and recoveries, whatever the transactions between did.
THEOREM RecoveryIsExact == DbSpec => []RecoveryExact
<1>1. DbInit => BaseInv /\ RecoveryInv
  BY BaseHolds, Counting, RecoveryInit
<1>2. BaseInv /\ RecoveryInv /\ [DbNext]_dbVars => (BaseInv /\ RecoveryInv)'
  <2>1. BaseInv' => ContentsMeant'
    BY ContentsMean, PTL
  <2> QED
    BY <2>1, BaseStep, RunningForms, Counting, RecoveryStep
<1>3. BaseInv /\ RecoveryInv => RecoveryExact
  <2> SUFFICES ASSUME BaseInv, RecoveryInv, phase = "up", sound
               PROVE  /\ Contents = promised
                      /\ Indexable => \A k \in Values :
                           IndexMatches(NextSnapshot, k) = ScanMatches(NextSnapshot, {k})
    BY DEF RecoveryExact, Indexable
  <2>1. /\ StampsLogged /\ RowsApplied /\ StampsApplied /\ EntriesApplied /\ HeapIds
        /\ promised = [v \in Values |-> Cardinality(Survivors(v))]
    BY DEF RecoveryInv, LoggedInv, AppliedInv
  <2>2. Contents = promised
    BY <2>1, ContentsMean DEF ContentsMeant
  <2>3. ASSUME Indexable, NEW k \in Values
        PROVE  IndexMatches(NextSnapshot, k) = ScanMatches(NextSnapshot, {k})
    BY <2>1, <2>3, IndexMeans
  <2> QED
    BY <2>2, <2>3
<1> QED
  BY <1>1, <1>2, <1>3, PTL DEF DbSpec
=============================================================================
