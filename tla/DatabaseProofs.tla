--------------------------- MODULE DatabaseProofs ---------------------------
(***************************************************************************)
(* What holds of the manager, the heap, the index, the log and the data    *)
(* file of Database.tla in every state, through checkpoints, shutdowns,    *)
(* process deaths and recoveries: the inductive invariants behind          *)
(* DeadInvisibleWhileCovered and RecoveryExact, in three layers, and the   *)
(* forms a step of a running database can have.                            *)
(*                                                                         *)
(* The proofs here are those of the first two layers (the ids of           *)
(* transactions, the log, the manager and the data file; the versions of   *)
(* dead transactions), and what RecoveryProofs.tla, which has the third,   *)
(* needs of the log and of transactions that begin and commit.             *)
(***************************************************************************)
EXTENDS Database, TLAPS

\* Most leaves need first-order and set reasoning only: they go to Zenon, the others
\* name their prover.
USE ZenonT(30)

-----------------------------------------------------------------------------
(* Log records *)

LoggedOp ==
       [kind : {"heap_insert"}, tuple : Row, rid : Nat]
  \cup [kind : {"heap_set_xmax"}, rid : Nat, xmax : Xids]
  \cup [kind : {"btree_insert"}, key : Values, rid : Nat]

\* An operation is logged for the transaction it writes for.
LogRecord ==
       [type : {"BEGIN", "COMMIT", "ABORT"}, txn : Xids, op : {NoOp}]
  \cup [type : {"CHECKPOINT"}, txn : {0}, op : {NoOp}]
  \cup {rec \in [type : {"OP"}, txn : Xids, op : LoggedOp] :
          /\ rec.op.kind = "heap_insert" => rec.op.tuple.xmin = rec.txn /\ rec.op.tuple.xmax = INFINITY_TXN
          /\ rec.op.kind = "heap_set_xmax" => rec.op.xmax = rec.txn}

\* A log whose records are all of transactions with an id below n.
Below(log, n) == \E R : log \in Seq(R) /\ \A rec \in R : rec.txn \in Nat /\ rec.txn < n

\* The fields of the manager that ids are about.
IdTypeOK ==
  /\ nextTxnId \in 1..(MaxTxn + 1)
  /\ state \in [Xids -> {"unused", "active", "committed", "aborted"}]

\* The manager never lags behind the log: every record, in the file or buffered, is of
\* an id it has given out, and so is every transaction that can still append one.
\* While no process runs there is only the file, and the bound on ids.
LogInv ==
  /\ IdTypeOK
  /\ phase \in {"up", "down", "replay"}
  /\ phase # "up" => stmt = Idle /\ walBuf = <<>>
  /\ Below(wal, MaxTxn + 1)
  /\ phase # "down" => Below(wal, nextTxnId) /\ Below(walBuf, nextTxnId)
  /\ \A t \in Xids : state[t] = "active" => t < nextTxnId
  /\ stmt.kind # "idle" => stmt.txn \in Xids /\ stmt.txn < nextTxnId

-----------------------------------------------------------------------------
(* The steps of a running database, by what they do to the heap and the log *)

\* The version a row step appends, and its index entry.
NewRid == Len(heap) + 1
NewEntry == [key |-> heap'[NewRid].val, rid |-> NewRid]

\* The records of a row step of t that stamps the versions in d (none or one), appends
\* n (0 or 1) versions and adds the index entries in new.
Logged(t, d, n, new, more) ==
  /\ more \in Seq(LogRecord)
  /\ \A k \in DOMAIN more : more[k].txn = t /\ more[k].type \in {"OP", "ABORT"}
  /\ \A k \in DOMAIN more : more[k].type = "OP" =>
       \/ \E r \in d : more[k].op = HeapSetXmax(r, t)
       \/ n = 1 /\ more[k].op = HeapInsert(heap'[NewRid], NewRid)
       \/ /\ n = 1 /\ new = {NewEntry} /\ more[k].op = BtreeInsert(NewEntry.key, NewRid)
          /\ \E j \in DOMAIN more : /\ j < k /\ more[j].type = "OP"
                                    /\ more[j].op = HeapInsert(heap'[NewRid], NewRid)
  /\ \A r \in d : \E k \in DOMAIN more : more[k].type = "OP" /\ more[k].op = HeapSetXmax(r, t)
  /\ n = 1 => \E k \in DOMAIN more : more[k].type = "OP" /\ more[k].op = HeapInsert(heap'[NewRid], NewRid)
  /\ new # {} => \E k \in DOMAIN more : more[k].type = "OP" /\ more[k].op = BtreeInsert(NewEntry.key, NewRid)

\* What the steps of Operate come to: a transaction begins, a transaction commits, a
\* transaction writes a row or aborts or both, or nothing that outlives a statement.
BeginStep(t) ==
  begin(t) /\ UNCHANGED <<heap, index, failed>> /\ Buffer(<<Record("BEGIN", t)>>)

CommitStep(t) ==
  /\ commit(t) /\ UNCHANGED <<heap, index, failed>> /\ ForceLog(<<Record("COMMIT", t)>>)
  /\ CallerAborts => t \notin failed

WriteStep(t, d, n, new, more) ==
  /\ state[t] = "active"
  /\ abort(t) \/ UNCHANGED txnVars
  /\ Writes(t, d, n)
  /\ index' = index \cup new
  /\ new # {} => n = 1 /\ new = {NewEntry} /\ IndexKind # "none"
  /\ n = 1 /\ IndexKind # "none" /\ new = {} => IndexKind = "unique" /\ t \in failed'
  /\ failed \subseteq failed' /\ failed' \subseteq failed \cup {t}
  /\ Logged(t, d, n, new, more)
  /\ Buffer(more)

QuietStep == UNCHANGED <<txnVars, heap, index, failed, wal, walBuf>>

Forms ==
  \/ \E t \in Xids : BeginStep(t)
  \/ \E t \in Xids : CommitStep(t)
  \/ \E t \in Xids, d \in SUBSET (1..Len(heap)), n \in {0, 1} : \E new, more : WriteStep(t, d, n, new, more)
  \/ QuietStep

-----------------------------------------------------------------------------
(* The base invariant: the log, the manager and the data file *)

\* Everything appended since the database was created, in the file or buffered.
Log == wal \o walBuf
Begun(log) == TxnsWith(log, SinceLastCheckpoint(log), "BEGIN")

StoreTypeOK ==
  /\ TypeOK
  /\ wal \in Seq(LogRecord) /\ walBuf \in Seq(LogRecord)
  /\ diskHeap \in Seq(Row) /\ diskIndex \in SUBSET Entry
  /\ ckpt.heap \in Seq(Row) /\ ckpt.index \in SUBSET Entry

\* What there is outside of normal operation, and what is left to replay.
PhaseInv ==
  /\ phase # "up" => stmt = Idle /\ walBuf = <<>> /\ activeXids = {} /\ failed = {} /\ todo = {}
  /\ phase = "down" => heap = diskHeap /\ index = diskIndex
  /\ phase # "replay" => replay = {}
  /\ replay \subseteq CommittedOperations(wal)

\* The manager agrees with the log file on who has committed.  (It may have forgotten,
\* after a restart, that a transaction did not.)
ManagerInv ==
  phase # "down" =>
    /\ \A t \in Xids : state[t] = "unused" <=> t >= nextTxnId
    /\ \A t \in Xids : state[t] = "committed" <=> t \in CommittedTxns(wal)
    /\ activeXids = {t \in Xids : state[t] = "active"}
    /\ \A t \in abortedXids : state[t] = "aborted"
    /\ \A t \in failed : t < nextTxnId

\* A COMMIT and a CHECKPOINT are forced, and with them whatever is buffered.
BufferInv ==
  \A k \in DOMAIN walBuf :
    walBuf[k].type \notin {"COMMIT", "CHECKPOINT"} /\ walBuf[k].txn \notin CommittedTxns(wal)

\* A checkpoint waits for the active transactions, so they all began after it, and
\* the transactions with a BEGIN or an operation after it can only have committed after it.
SinceInv ==
  /\ activeXids \subseteq Begun(Log)
  /\ \A i \in SinceLastCheckpoint(Log) :
       Log[i].type \in {"BEGIN", "OP"} /\ Log[i].txn \in CommittedTxns(wal) =>
         Log[i].txn \in TxnsWith(wal, SinceLastCheckpoint(wal), "COMMIT")

\* No transaction sees what an older one, still active, has written.
OlderInv == \A t, u \in activeXids : u < t => u \in snapshot[t]
FailedInv == CallerAborts => failed \cap CommittedTxns(wal) = {}

\* A transaction that execute() owns has not failed yet: an error would have ended it.
OwnerInv == stmt.kind # "idle" /\ stmt.owns => stmt.txn \notin failed

\* The heap in the data file is an earlier state of the heap.
DiskInv ==
  Len(diskHeap) <= Len(heap) /\ \A r \in 1..Len(diskHeap) : diskHeap[r].xmin = heap[r].xmin

BaseInv ==
  /\ LogInv /\ StoreTypeOK /\ PhaseInv /\ ManagerInv /\ BufferInv /\ SinceInv
  /\ OlderInv /\ StatementInv /\ OwnerInv /\ FailedInv /\ DiskInv

-----------------------------------------------------------------------------
(* Dead versions *)

\* Every version is of a committed or an active transaction, or known to be dead.  While
\* covered, the writers of the versions that are not committed, in the heap and in the
\* data file, have their BEGIN in the log since the last checkpoint, where recovery
\* finds it, and the manager knows those of the dead ones as aborted.
DeadInv ==
  /\ \A r \in 1..Len(heap) : heap[r].xmin \in CommittedTxns(wal) \cup activeXids \/ r \in dead
  /\ covered =>
       /\ dead \subseteq 1..Len(heap)
       /\ \A r \in dead : heap[r].xmin \notin CommittedTxns(wal)
       /\ phase # "down" => \A r \in dead : heap[r].xmin \in abortedXids
       /\ \A r \in 1..Len(heap) : heap[r].xmin \in CommittedTxns(wal) \cup Begun(Log)
       /\ \A r \in 1..Len(diskHeap) : diskHeap[r].xmin \in CommittedTxns(wal) \cup Begun(wal)

-----------------------------------------------------------------------------
(* What the log and the last checkpoint say about the heap and the index *)

\* The transactions whose work counts or may come to count.
Live == CommittedTxns(wal) \cup activeXids
Kinds == {"heap_insert", "heap_set_xmax", "btree_insert"}

\* The operations of a kind that they have logged since the last checkpoint.
Ops(kind) ==
  {i \in SinceLastCheckpoint(Log) :
     Log[i].type = "OP" /\ Log[i].op.kind = kind /\ Log[i].txn \in Live}

\* Whether every row of a committed transaction has its index entry, and whether one of
\* transaction t does (see IndexAgreesWithScan).
Indexable == IndexKind # "none" /\ (IndexKind = "unique" => CallerAborts)
Indexed(t) == Indexable /\ (IndexKind = "unique" => t \notin failed)
EntryFor(row, r) == [key |-> row.val, rid |-> r]

\* Versions are inserted after those of the checkpoint.  A version is stamped after it was
\* inserted, by its writer or when that had committed; by one transaction only; and not
\* if it was deleted at the checkpoint.
StampsLogged ==
  /\ \A i \in Ops("heap_insert") : Log[i].op.rid > Len(ckpt.heap)
  /\ \A i \in Ops("heap_set_xmax") :
       /\ \/ Log[i].op.rid \in 1..Len(ckpt.heap)
          \/ \E j \in Ops("heap_insert") :
               /\ j < i /\ Log[j].op.rid = Log[i].op.rid
               /\ Log[j].txn \in CommittedTxns(wal) \/ Log[j].txn = Log[i].txn
       /\ \A j \in Ops("heap_set_xmax") : Log[j].op.rid = Log[i].op.rid => Log[j].txn = Log[i].txn
       /\ Log[i].op.rid \in 1..Len(ckpt.heap) => ckpt.heap[Log[i].op.rid].xmax \notin CommittedTxns(wal)

\* The two logged operations that make a row with an index entry.
RowAndEntry(i, j) ==
  Log[i].op.rid = Log[j].op.rid /\ Log[i].txn = Log[j].txn /\ Log[i].op.tuple.val = Log[j].op.key

\* An entry is logged after its row, and every row that should have one has one.
EntriesLogged ==
  /\ \A j \in Ops("btree_insert") : \E i \in Ops("heap_insert") : i < j /\ RowAndEntry(i, j)
  /\ \A i \in Ops("heap_insert") : Indexed(Log[i].txn) => \E j \in Ops("btree_insert") : RowAndEntry(i, j)

\* The same of the rows and entries of the checkpoint.
CkptIndexed ==
  /\ \A e \in ckpt.index : e.rid \in 1..Len(ckpt.heap) /\ ckpt.heap[e.rid].val = e.key
  /\ Indexable => \A r \in 1..Len(ckpt.heap) :
       ckpt.heap[r].xmin \in CommittedTxns(wal) => EntryFor(ckpt.heap[r], r) \in ckpt.index

\* A process knows how the transactions ended that are named in the checkpoint.
CkptIds ==
  \A r \in 1..Len(ckpt.heap) :
    /\ ckpt.heap[r].xmin \in CommittedTxns(wal) \cup abortedXids
    /\ ckpt.heap[r].xmax \in CommittedTxns(wal) \cup abortedXids \cup {INFINITY_TXN}

\* The versions in the heap are those of the checkpoint, which keep their value and are
\* not deleted twice, and the logged ones that have been applied.
RowsApplied ==
  /\ Len(ckpt.heap) <= Len(heap)
  /\ \A r \in 1..Len(ckpt.heap) :
       /\ heap[r].xmin = ckpt.heap[r].xmin /\ heap[r].val = ckpt.heap[r].val
       /\ ckpt.heap[r].xmax \in CommittedTxns(wal) => heap[r].xmax = ckpt.heap[r].xmax
  /\ \A i \in Ops("heap_insert") \ replay :
       /\ Log[i].op.rid \in 1..Len(heap)
       /\ heap[Log[i].op.rid].xmin = Log[i].txn
       /\ heap[Log[i].op.rid].val = Log[i].op.tuple.val
  /\ \A r \in 1..Len(heap) : r > Len(ckpt.heap) /\ heap[r].xmin \in Live =>
       \E i \in Ops("heap_insert") \ replay : Log[i].op.rid = r

\* The stamps are those of the checkpoint and the logged ones that have been applied.
StampsApplied ==
  /\ \A i \in Ops("heap_set_xmax") \ replay :
       Log[i].op.rid \in 1..Len(heap) /\ heap[Log[i].op.rid].xmax = Log[i].txn
  /\ \A r \in 1..Len(heap) : heap[r].xmax \in Live =>
       \/ \E i \in Ops("heap_set_xmax") \ replay : Log[i].op.rid = r
       \/ r <= Len(ckpt.heap) /\ ckpt.heap[r].xmax = heap[r].xmax

\* An entry names a version that holds its key, and every version that should have an
\* entry has it, or has it in what is left to replay.
EntriesApplied ==
  /\ \A e \in index : e.rid \in 1..Len(heap) /\ heap[e.rid].val = e.key
  /\ \A r \in 1..Len(heap) : heap[r].xmin \in Live /\ Indexed(heap[r].xmin) =>
       \/ EntryFor(heap[r], r) \in index
       \/ \E i \in Ops("btree_insert") \cap replay : Log[i].op.rid = r /\ Log[i].op.key = heap[r].val

\* A process knows how the transactions ended, if they did, that are named in the heap.
HeapIds ==
  \A r \in 1..Len(heap) :
    heap[r].xmin \in Live \cup abortedXids /\ heap[r].xmax \in Live \cup abortedXids \cup {INFINITY_TXN}

\* Replay goes through the log in order, and each insert lands on the RID it had.
ReplayInv ==
  /\ \A kind \in Kinds : \A i \in Ops(kind) \ replay, j \in replay : i < j
  /\ Len(heap) = Len(ckpt.heap) + Cardinality(Ops("heap_insert") \ replay)
  /\ \A i \in Ops("heap_insert") :
       Log[i].op.rid = Len(ckpt.heap) + Cardinality({j \in Ops("heap_insert") : j <= i})

\* What is visible with a value according to the checkpoint and the log alone.
StampedIn(r) ==
  \E i \in Ops("heap_set_xmax") : Log[i].txn \in CommittedTxns(wal) /\ Log[i].op.rid = r

Survivors(v) ==
  {r \in 1..Len(ckpt.heap) : /\ ckpt.heap[r].val = v
                             /\ ckpt.heap[r].xmin \in CommittedTxns(wal)
                             /\ ckpt.heap[r].xmax \notin CommittedTxns(wal)
                             /\ ~StampedIn(r)}
  \cup {Log[i].op.rid : i \in {j \in Ops("heap_insert") : /\ Log[j].txn \in CommittedTxns(wal)
                                                          /\ Log[j].op.tuple.val = v
                                                          /\ ~StampedIn(Log[j].op.rid)}}

LoggedInv == StampsLogged /\ EntriesLogged /\ CkptIndexed
AppliedInv == CkptIds /\ RowsApplied /\ StampsApplied /\ EntriesApplied /\ HeapIds

RecoveryInv ==
  sound =>
    /\ LoggedInv
    /\ phase # "down" => AppliedInv
    /\ phase = "replay" => ReplayInv
    /\ promised = [v \in Values |-> Cardinality(Survivors(v))]

-----------------------------------------------------------------------------
(* Log records *)

\* The fields of a record.
LEMMA RecordFields ==
  ASSUME NEW rec \in LogRecord
  PROVE  /\ rec.type \in {"BEGIN", "COMMIT", "ABORT", "CHECKPOINT", "OP"}
         /\ rec.type # "CHECKPOINT" => rec.txn \in Xids
         /\ rec.type = "OP" =>
              /\ rec.op.kind \in {"heap_insert", "heap_set_xmax", "btree_insert"}
              /\ rec.op.rid \in Nat
              /\ rec.op.kind = "heap_insert" =>
                   /\ rec.op.tuple \in Row
                   /\ rec.op.tuple.xmin = rec.txn
                   /\ rec.op.tuple.xmax = INFINITY_TXN
              /\ rec.op.kind = "heap_set_xmax" => rec.op.xmax = rec.txn
              /\ rec.op.kind = "btree_insert" => rec.op.key \in Values
<1>1. CASE rec \in [type : {"BEGIN", "COMMIT", "ABORT"}, txn : Xids, op : {NoOp}]
  BY <1>1
<1>2. CASE rec \in [type : {"CHECKPOINT"}, txn : {0}, op : {NoOp}]
  BY <1>2
<1>3. CASE rec \in [type : {"OP"}, txn : Xids, op : LoggedOp]
  <2>1. /\ rec.op.kind = "heap_insert" => rec.op.tuple.xmin = rec.txn /\ rec.op.tuple.xmax = INFINITY_TXN
        /\ rec.op.kind = "heap_set_xmax" => rec.op.xmax = rec.txn
    BY <1>3 DEF LogRecord
  <2>2. rec.op \in LoggedOp /\ rec.type = "OP" /\ rec.txn \in Xids
    BY <1>3
  <2>3. /\ rec.op.kind \in {"heap_insert", "heap_set_xmax", "btree_insert"}
        /\ rec.op.rid \in Nat
        /\ rec.op.kind = "heap_insert" => rec.op.tuple \in Row
        /\ rec.op.kind = "btree_insert" => rec.op.key \in Values
    BY <2>2 DEF LoggedOp
  <2> QED
    BY <2>1, <2>2, <2>3
<1> QED
  BY <1>1, <1>2, <1>3 DEF LogRecord

\* The records the handlers append.
LEMMA RecordsAreTyped ==
  /\ \A t \in Xids : /\ Record("BEGIN", t) \in LogRecord
                     /\ Record("COMMIT", t) \in LogRecord
                     /\ Record("ABORT", t) \in LogRecord
  /\ Record("CHECKPOINT", 0) \in LogRecord
  /\ \A t \in Xids, r \in Nat : Operation(t, HeapSetXmax(r, t)) \in LogRecord
  /\ \A t \in Xids, r \in Nat, row \in Row :
       row.xmin = t /\ row.xmax = INFINITY_TXN => Operation(t, HeapInsert(row, r)) \in LogRecord
  /\ \A t \in Xids, r \in Nat, k \in Values : Operation(t, BtreeInsert(k, r)) \in LogRecord
<1>1. \A t \in Xids : /\ Record("BEGIN", t) \in LogRecord
                      /\ Record("COMMIT", t) \in LogRecord
                      /\ Record("ABORT", t) \in LogRecord
  BY DEF Record, LogRecord
<1>2. Record("CHECKPOINT", 0) \in LogRecord
  BY DEF Record, LogRecord
<1>3. ASSUME NEW t \in Xids, NEW op \in LoggedOp,
             op.kind = "heap_insert" => op.tuple.xmin = t /\ op.tuple.xmax = INFINITY_TXN,
             op.kind = "heap_set_xmax" => op.xmax = t
      PROVE  Operation(t, op) \in LogRecord
  BY <1>3 DEF Operation, LogRecord
<1>4. \A t \in Xids, r \in Nat : HeapSetXmax(r, t) \in LoggedOp /\ HeapSetXmax(r, t).kind = "heap_set_xmax"
                                 /\ HeapSetXmax(r, t).xmax = t
  BY DEF HeapSetXmax, LoggedOp
<1>5. \A row \in Row, r \in Nat : HeapInsert(row, r) \in LoggedOp /\ HeapInsert(row, r).kind = "heap_insert"
                                  /\ HeapInsert(row, r).tuple = row
  BY DEF HeapInsert, LoggedOp
<1>6. \A k \in Values, r \in Nat : BtreeInsert(k, r) \in LoggedOp /\ BtreeInsert(k, r).kind = "btree_insert"
  BY DEF BtreeInsert, LoggedOp
<1> QED
  BY SMTT(30), <1>1, <1>2, <1>3, <1>4, <1>5, <1>6

\* One log after another: positions, and the transactions that have a record of some type.
LEMMA Appended ==
  ASSUME NEW log \in Seq(LogRecord), NEW more \in Seq(LogRecord)
  PROVE  /\ log \o more \in Seq(LogRecord)
         /\ DOMAIN log = 1..Len(log) /\ DOMAIN more = 1..Len(more)
         /\ Len(log) \in Nat /\ Len(more) \in Nat
         /\ DOMAIN (log \o more) = 1..(Len(log) + Len(more))
         /\ Len(log \o more) = Len(log) + Len(more)
         /\ \A i \in 1..Len(log) : (log \o more)[i] = log[i]
         /\ \A k \in 1..Len(more) : (log \o more)[Len(log) + k] = more[k]
         /\ \A i \in (Len(log) + 1)..(Len(log) + Len(more)) :
              i - Len(log) \in 1..Len(more) /\ (log \o more)[i] = more[i - Len(log)]
<1>1. /\ log \o more \in Seq(LogRecord)
      /\ Len(log \o more) = Len(log) + Len(more)
      /\ \A i \in 1..(Len(log) + Len(more)) :
           (log \o more)[i] = IF i <= Len(log) THEN log[i] ELSE more[i - Len(log)]
  BY SMTT(30)
<1>2. /\ DOMAIN log = 1..Len(log) /\ DOMAIN more = 1..Len(more) /\ Len(log) \in Nat /\ Len(more) \in Nat
      /\ DOMAIN (log \o more) = 1..Len(log \o more)
  BY SMTT(30), <1>1
<1> HIDE DEF LogRecord
<1>3. \A i \in 1..Len(log) : (log \o more)[i] = log[i]
  BY SMTT(30), <1>1, <1>2
<1>4. \A k \in 1..Len(more) : (log \o more)[Len(log) + k] = more[k]
  BY SMTT(30), <1>1, <1>2
<1>5. \A i \in (Len(log) + 1)..(Len(log) + Len(more)) :
         i - Len(log) \in 1..Len(more) /\ (log \o more)[i] = more[i - Len(log)]
  BY SMTT(30), <1>1, <1>2
<1> QED
  BY <1>1, <1>2, <1>3, <1>4, <1>5

\* Appending once or twice is the same.
LEMMA AppendedTwice ==
  ASSUME NEW a \in Seq(LogRecord), NEW b \in Seq(LogRecord), NEW c \in Seq(LogRecord)
  PROVE  a \o (b \o c) = (a \o b) \o c
<1> HIDE DEF LogRecord
<1>1. /\ b \o c \in Seq(LogRecord) /\ a \o b \in Seq(LogRecord)
      /\ a \o (b \o c) \in Seq(LogRecord) /\ (a \o b) \o c \in Seq(LogRecord)
  BY SMTT(30)
<1>2. Len(a \o (b \o c)) = Len((a \o b) \o c) /\ Len((a \o b) \o c) = Len(a) + Len(b) + Len(c)
  BY SMTT(30)
<1>3. ASSUME NEW i \in 1..(Len(a) + Len(b) + Len(c))
      PROVE  (a \o (b \o c))[i] = ((a \o b) \o c)[i]
  BY SMTT(30)
<1> QED
  BY SMTT(30), <1>1, <1>2, <1>3

\* Records other than a CHECKPOINT only add to what there is since the last one.
LEMMA AppendedSince ==
  ASSUME NEW log \in Seq(LogRecord), NEW more \in Seq(LogRecord),
         \A k \in DOMAIN more : more[k].type # "CHECKPOINT"
  PROVE  \A i : i \in SinceLastCheckpoint(log \o more) <=>
                \/ i \in SinceLastCheckpoint(log)
                \/ i \in (Len(log) + 1)..(Len(log) + Len(more))
<1> DEFINE all == log \o more
           n == Len(log)
           m == Len(more)
<1>1. /\ n \in Nat /\ m \in Nat /\ DOMAIN log = 1..n /\ DOMAIN more = 1..m /\ DOMAIN all = 1..(n + m)
      /\ \A i \in 1..n : all[i] = log[i]
      /\ \A i \in (n + 1)..(n + m) : i - n \in 1..m /\ all[i] = more[i - n]
  BY Appended
<1> HIDE DEF all, n, m
<1>2. \A j \in DOMAIN all : all[j].type = "CHECKPOINT" => j \in 1..n /\ log[j].type = "CHECKPOINT"
  <2> SUFFICES ASSUME NEW j \in DOMAIN all, all[j].type = "CHECKPOINT"
               PROVE  j \in 1..n /\ log[j].type = "CHECKPOINT"
    OBVIOUS
  <2>1. CASE j \in 1..n
    BY <1>1, <2>1
  <2>2. CASE j \in (n + 1)..(n + m)
    BY <1>1, <2>2
  <2> QED
    BY SMTT(30), <1>1, <2>1, <2>2
<1>3. \A j \in 1..n : j \in DOMAIN all /\ (log[j].type = "CHECKPOINT" => all[j].type = "CHECKPOINT")
  BY SMTT(30), <1>1
<1>4. \A i \in 1..n : i \in SinceLastCheckpoint(all) <=> i \in SinceLastCheckpoint(log)
  BY <1>1, <1>2, <1>3 DEF SinceLastCheckpoint
<1>5. \A i \in (n + 1)..(n + m) : i \in SinceLastCheckpoint(all)
  <2> SUFFICES ASSUME NEW i \in (n + 1)..(n + m)
               PROVE  i \in SinceLastCheckpoint(all)
    OBVIOUS
  <2>1. i \in DOMAIN all /\ \A j \in 1..n : j < i
    BY SMTT(30), <1>1
  <2>2. \A j \in DOMAIN all : all[j].type = "CHECKPOINT" => j < i
    BY <1>2, <2>1
  <2> QED
    BY <2>1, <2>2 DEF SinceLastCheckpoint
<1>6. \A i : i \in SinceLastCheckpoint(all) => i \in 1..n \/ i \in (n + 1)..(n + m)
  BY SMTT(30), <1>1 DEF SinceLastCheckpoint
<1>7. \A i : i \in SinceLastCheckpoint(log) => i \in 1..n
  BY <1>1 DEF SinceLastCheckpoint
<1> QED
  BY <1>4, <1>5, <1>6, <1>7 DEF all, n, m

\* The transactions with a record of some type, in the two parts of a log.
LEMMA AppendedTxns ==
  ASSUME NEW log \in Seq(LogRecord), NEW more \in Seq(LogRecord), NEW type
  PROVE  /\ TxnsWith(log \o more, DOMAIN (log \o more), type) =
              TxnsWith(log, DOMAIN log, type) \cup TxnsWith(more, DOMAIN more, type)
         /\ (\A k \in DOMAIN more : more[k].type # "CHECKPOINT") =>
              TxnsWith(log \o more, SinceLastCheckpoint(log \o more), type) =
                TxnsWith(log, SinceLastCheckpoint(log), type) \cup TxnsWith(more, DOMAIN more, type)
<1> DEFINE all == log \o more
           n == Len(log)
           m == Len(more)
<1>1. /\ n \in Nat /\ m \in Nat /\ DOMAIN log = 1..n /\ DOMAIN more = 1..m /\ DOMAIN all = 1..(n + m)
      /\ \A i \in 1..n : all[i] = log[i]
      /\ \A k \in 1..m : all[n + k] = more[k]
      /\ \A i \in (n + 1)..(n + m) : i - n \in 1..m /\ all[i] = more[i - n]
  BY Appended
<1>2. (\A k \in DOMAIN more : more[k].type # "CHECKPOINT") =>
         \A i : i \in SinceLastCheckpoint(all) <=>
                \/ i \in SinceLastCheckpoint(log)
                \/ i \in (n + 1)..(n + m)
  BY AppendedSince
<1>3. SinceLastCheckpoint(log) \subseteq 1..n
  BY <1>1 DEF SinceLastCheckpoint
<1> HIDE DEF all, n, m
<1>4. ASSUME NEW S, NEW T, S \subseteq 1..n,
             \A i : i \in T <=> i \in S \/ i \in (n + 1)..(n + m)
      PROVE  TxnsWith(all, T, type) = TxnsWith(log, S, type) \cup TxnsWith(more, DOMAIN more, type)
  <2>1. ASSUME NEW x \in TxnsWith(all, T, type)
        PROVE  x \in TxnsWith(log, S, type) \cup TxnsWith(more, DOMAIN more, type)
    <3>1. PICK i \in T : all[i].type = type /\ x = all[i].txn
      BY DEF TxnsWith
    <3>2. CASE i \in S
      BY <1>1, <1>4, <3>1, <3>2 DEF TxnsWith
    <3>3. CASE i \in (n + 1)..(n + m)
      <4>1. i - n \in DOMAIN more /\ all[i] = more[i - n]
        BY <1>1, <3>3
      <4> QED
        BY <3>1, <4>1 DEF TxnsWith
    <3> QED
      BY <1>4, <3>2, <3>3
  <2>2. ASSUME NEW x \in TxnsWith(log, S, type)
        PROVE  x \in TxnsWith(all, T, type)
    <3>1. PICK i \in S : log[i].type = type /\ x = log[i].txn
      BY DEF TxnsWith
    <3> QED
      BY <1>1, <1>4, <3>1 DEF TxnsWith
  <2>3. ASSUME NEW x \in TxnsWith(more, DOMAIN more, type)
        PROVE  x \in TxnsWith(all, T, type)
    <3>1. PICK k \in DOMAIN more : more[k].type = type /\ x = more[k].txn
      BY DEF TxnsWith
    <3>2. n + k \in T /\ all[n + k] = more[k]
      <4>1. k \in 1..m /\ n + k \in (n + 1)..(n + m)
        BY SMTT(30), <1>1
      <4> QED
        BY <1>1, <1>4, <4>1
    <3> QED
      BY <3>1, <3>2 DEF TxnsWith
  <2> QED
    BY <2>1, <2>2, <2>3
<1>5. TxnsWith(all, DOMAIN all, type) = TxnsWith(log, DOMAIN log, type) \cup TxnsWith(more, DOMAIN more, type)
  <2>1. \A i : i \in DOMAIN all <=> i \in 1..n \/ i \in (n + 1)..(n + m)
    BY SMTT(30), <1>1
  <2> QED
    BY <1>1, <1>4, <2>1
<1>6. ASSUME \A k \in DOMAIN more : more[k].type # "CHECKPOINT"
      PROVE  TxnsWith(all, SinceLastCheckpoint(all), type) =
               TxnsWith(log, SinceLastCheckpoint(log), type) \cup TxnsWith(more, DOMAIN more, type)
  BY <1>2, <1>3, <1>4, <1>6
<1> QED
  BY <1>5, <1>6 DEF all

\* After a CHECKPOINT there is nothing yet, and no more transactions have committed.
LEMMA AppendedCheckpoint ==
  ASSUME NEW log \in Seq(LogRecord), NEW rec \in LogRecord, rec.type = "CHECKPOINT"
  PROVE  /\ SinceLastCheckpoint(log \o <<rec>>) = {}
         /\ CommittedTxns(log \o <<rec>>) = CommittedTxns(log)
<1>1. <<rec>> \in Seq(LogRecord) /\ Len(<<rec>>) = 1 /\ DOMAIN <<rec>> = {1} /\ <<rec>>[1] = rec
  BY SMTT(30)
<1> DEFINE all == log \o <<rec>>
<1>2. DOMAIN all = 1..(Len(log) + 1) /\ Len(log) \in Nat /\ all[Len(log) + 1] = rec
  BY SMTT(30), <1>1, Appended
<1>3. SinceLastCheckpoint(all) = {}
  <2> HIDE DEF all
  <2>1. Len(log) + 1 \in DOMAIN all /\ all[Len(log) + 1].type = "CHECKPOINT"
    BY SMTT(30), <1>2
  <2>2. \A i \in DOMAIN all : ~(Len(log) + 1 < i)
    BY SMTT(30), <1>2
  <2> QED
    BY <2>1, <2>2 DEF SinceLastCheckpoint
<1>4. CommittedTxns(all) = CommittedTxns(log) \cup TxnsWith(<<rec>>, DOMAIN <<rec>>, "COMMIT")
  BY ZenonT(30), <1>1, AppendedTxns DEF CommittedTxns
<1>5. TxnsWith(<<rec>>, DOMAIN <<rec>>, "COMMIT") = {}
  BY <1>1 DEF TxnsWith
<1> QED
  BY <1>3, <1>4, <1>5

\* The records of two logs, one after the other.
LEMMA Joined ==
  ASSUME NEW a \in Seq(LogRecord), NEW b \in Seq(LogRecord)
  PROVE  /\ a \o b \in Seq(LogRecord)
         /\ \A k \in DOMAIN (a \o b) :
              \/ k \in DOMAIN a /\ (a \o b)[k] = a[k]
              \/ k > Len(a) /\ \E j \in DOMAIN b : (a \o b)[k] = b[j]
         /\ \A k \in DOMAIN a : k \in DOMAIN (a \o b) /\ (a \o b)[k] = a[k] /\ k <= Len(a)
         /\ \A j \in DOMAIN b : \E k \in DOMAIN (a \o b) : (a \o b)[k] = b[j]
<1>1. /\ a \o b \in Seq(LogRecord)
      /\ DOMAIN a = 1..Len(a) /\ DOMAIN b = 1..Len(b)
      /\ Len(a) \in Nat /\ Len(b) \in Nat
      /\ DOMAIN (a \o b) = 1..(Len(a) + Len(b))
      /\ \A i \in 1..Len(a) : (a \o b)[i] = a[i]
      /\ \A k \in 1..Len(b) : (a \o b)[Len(a) + k] = b[k]
      /\ \A i \in (Len(a) + 1)..(Len(a) + Len(b)) :
           i - Len(a) \in 1..Len(b) /\ (a \o b)[i] = b[i - Len(a)]
  BY Appended
<1> DEFINE all == a \o b
           la == Len(a)
           lb == Len(b)
<1> HIDE DEF all, la, lb
<1>2. /\ DOMAIN a = 1..la /\ DOMAIN b = 1..lb /\ la \in Nat /\ lb \in Nat /\ DOMAIN all = 1..(la + lb)
      /\ \A i \in 1..la : all[i] = a[i]
      /\ \A k \in 1..lb : all[la + k] = b[k]
      /\ \A i \in (la + 1)..(la + lb) : i - la \in 1..lb /\ all[i] = b[i - la]
  BY <1>1 DEF all, la, lb
<1>3. ASSUME NEW k \in DOMAIN all
      PROVE  \/ k \in DOMAIN a /\ all[k] = a[k]
             \/ k > la /\ \E j \in DOMAIN b : all[k] = b[j]
  <2>1. k \in 1..la \/ k \in (la + 1)..(la + lb)
    BY SMTT(30), <1>2
  <2>2. CASE k \in (la + 1)..(la + lb)
    BY SMTT(30), <1>2, <2>2
  <2> QED
    BY <1>2, <2>1, <2>2
<1>4. \A k \in DOMAIN a : k \in DOMAIN all /\ all[k] = a[k] /\ k <= la
  BY SMTT(30), <1>2
<1>5. ASSUME NEW j \in DOMAIN b
      PROVE  \E k \in DOMAIN all : all[k] = b[j]
  <2>1. la + j \in DOMAIN all /\ all[la + j] = b[j]
    BY SMTT(30), <1>2
  <2> QED
    BY <2>1
<1> QED
  BY <1>1, <1>3, <1>4, <1>5 DEF all, la, lb

-----------------------------------------------------------------------------
(* The log that a running database appends to *)

\* A log of at most one record.
LEMMA AtMostOne ==
  ASSUME NEW rec \in LogRecord
  PROVE  /\ <<>> \in Seq(LogRecord) /\ DOMAIN <<>> = {}
         /\ <<rec>> \in Seq(LogRecord) /\ DOMAIN <<rec>> = {1} /\ <<rec>>[1] = rec
  BY SMTT(30)

\* What is buffered is neither committed nor a checkpoint.
LEMMA LogView ==
  ASSUME wal \in Seq(LogRecord), walBuf \in Seq(LogRecord), BufferInv
  PROVE  /\ Log \in Seq(LogRecord)
         /\ Len(wal) \in Nat /\ Len(Log) \in Nat /\ Len(wal) <= Len(Log)
         /\ DOMAIN wal = 1..Len(wal) /\ DOMAIN Log = 1..Len(Log)
         /\ \A i \in 1..Len(wal) : Log[i] = wal[i]
         /\ \A i \in (Len(wal) + 1)..Len(Log) :
              Log[i].type \notin {"COMMIT", "CHECKPOINT"} /\ Log[i].txn \notin CommittedTxns(wal)
         /\ \A i : i \in SinceLastCheckpoint(Log) <=>
                     i \in SinceLastCheckpoint(wal) \/ i \in (Len(wal) + 1)..Len(Log)
         /\ SinceLastCheckpoint(wal) \subseteq 1..Len(wal)
         /\ CommittedTxns(Log) = CommittedTxns(wal)
         /\ TxnsWith(Log, SinceLastCheckpoint(Log), "COMMIT") = TxnsWith(wal, SinceLastCheckpoint(wal), "COMMIT")
         /\ Begun(Log) = Begun(wal) \cup TxnsWith(walBuf, DOMAIN walBuf, "BEGIN")
<1>1. \A k \in DOMAIN walBuf : walBuf[k].type # "CHECKPOINT"
  BY DEF BufferInv
<1>2. /\ Log \in Seq(LogRecord) /\ Len(Log) = Len(wal) + Len(walBuf)
      /\ DOMAIN wal = 1..Len(wal) /\ DOMAIN Log = 1..(Len(wal) + Len(walBuf))
      /\ DOMAIN walBuf = 1..Len(walBuf)
      /\ Len(wal) \in Nat /\ Len(walBuf) \in Nat
      /\ \A i \in 1..Len(wal) : Log[i] = wal[i]
      /\ \A i \in (Len(wal) + 1)..(Len(wal) + Len(walBuf)) :
           i - Len(wal) \in 1..Len(walBuf) /\ Log[i] = walBuf[i - Len(wal)]
  BY Appended DEF Log
<1>3. \A i : i \in SinceLastCheckpoint(Log) <=>
               i \in SinceLastCheckpoint(wal) \/ i \in (Len(wal) + 1)..(Len(wal) + Len(walBuf))
  BY <1>1, AppendedSince DEF Log
<1>4. /\ \A type : TxnsWith(Log, DOMAIN Log, type) = TxnsWith(wal, DOMAIN wal, type) \cup TxnsWith(walBuf, DOMAIN walBuf, type)
      /\ \A type : TxnsWith(Log, SinceLastCheckpoint(Log), type) =
                     TxnsWith(wal, SinceLastCheckpoint(wal), type) \cup TxnsWith(walBuf, DOMAIN walBuf, type)
  BY SMTT(30), <1>1, AppendedTxns DEF Log
<1>5. TxnsWith(walBuf, DOMAIN walBuf, "COMMIT") = {}
  BY DEF BufferInv, TxnsWith
<1>6. /\ CommittedTxns(Log) = CommittedTxns(wal)
      /\ TxnsWith(Log, SinceLastCheckpoint(Log), "COMMIT") = TxnsWith(wal, SinceLastCheckpoint(wal), "COMMIT")
  BY <1>4, <1>5 DEF CommittedTxns
<1>7. Begun(Log) = Begun(wal) \cup TxnsWith(walBuf, DOMAIN walBuf, "BEGIN")
  BY <1>4 DEF Begun
<1>8. \A i \in (Len(wal) + 1)..Len(Log) :
         Log[i].type \notin {"COMMIT", "CHECKPOINT"} /\ Log[i].txn \notin CommittedTxns(wal)
  BY <1>2 DEF BufferInv
<1>9. SinceLastCheckpoint(wal) \subseteq 1..Len(wal)
  BY <1>2 DEF SinceLastCheckpoint
<1>10. Len(wal) <= Len(Log) /\ Len(Log) \in Nat
  BY SMTT(30), <1>2
<1> QED
  BY <1>2, <1>3, <1>6, <1>7, <1>8, <1>9, <1>10

\* What the appended records add to the log, in general ...
LEMMA LogGrows ==
  ASSUME wal \in Seq(LogRecord), walBuf \in Seq(LogRecord), BufferInv,
         NEW more \in Seq(LogRecord), \A k \in DOMAIN more : more[k].type # "CHECKPOINT",
         Buffer(more) \/ ForceLog(more)
  PROVE  /\ wal' \in Seq(LogRecord) /\ walBuf' \in Seq(LogRecord) /\ Log' = Log \o more
         /\ ForceLog(more) => wal' = Log \o more
         /\ DOMAIN more = 1..Len(more) /\ Len(more) \in Nat
         /\ DOMAIN Log' = 1..(Len(Log) + Len(more)) /\ Len(Log') = Len(Log) + Len(more)
         /\ \A i \in 1..Len(Log) : Log'[i] = Log[i]
         /\ \A k \in 1..Len(more) : Log'[Len(Log) + k] = more[k]
         /\ \A i \in (Len(Log) + 1)..(Len(Log) + Len(more)) :
              i - Len(Log) \in 1..Len(more) /\ Log'[i] = more[i - Len(Log)]
         /\ \A i : i \in SinceLastCheckpoint(Log)' <=>
                     i \in SinceLastCheckpoint(Log) \/ i \in (Len(Log) + 1)..(Len(Log) + Len(more))
         /\ \A type : TxnsWith(Log, SinceLastCheckpoint(Log), type)' =
                        TxnsWith(Log, SinceLastCheckpoint(Log), type) \cup TxnsWith(more, DOMAIN more, type)
         /\ CommittedTxns(Log)' = CommittedTxns(Log) \cup TxnsWith(more, DOMAIN more, "COMMIT")
<1>1. Log \in Seq(LogRecord)
  BY LogView
<1>2. /\ wal' \in Seq(LogRecord) /\ walBuf' \in Seq(LogRecord) /\ Log' = Log \o more
      /\ ForceLog(more) => wal' = Log \o more
  <2>1. CASE Buffer(more)
    <3>1. wal' = wal /\ walBuf' = walBuf \o more
      BY <2>1 DEF Buffer
    <3>2. wal \o (walBuf \o more) = (wal \o walBuf) \o more /\ walBuf \o more \in Seq(LogRecord)
      BY SMTT(30), Appended, AppendedTwice
    <3>3. Log' = Log \o more
      BY <3>1, <3>2 DEF Log
    <3>4. wal' \in Seq(LogRecord) /\ walBuf' \in Seq(LogRecord)
      BY <3>1, <3>2
    <3>5. ForceLog(more) => wal' = Log \o more
      BY DEF ForceLog, Log
    <3> QED
      BY <3>3, <3>4, <3>5
  <2>2. CASE ForceLog(more)
    <3>1. wal' = Log \o more /\ walBuf' = <<>>
      BY <2>2 DEF ForceLog, Log
    <3>2. wal' \in Seq(LogRecord)
      BY <1>1, <3>1, Appended
    <3>3. wal' \o <<>> = wal' /\ <<>> \in Seq(LogRecord)
      BY SMTT(30), <3>2
    <3>4. Log' = Log \o more
      BY <3>1, <3>3 DEF Log
    <3> QED
      BY <3>1, <3>2, <3>3, <3>4
  <2> QED
    BY <2>1, <2>2
<1>3. /\ DOMAIN more = 1..Len(more) /\ Len(more) \in Nat
      /\ DOMAIN Log' = 1..(Len(Log) + Len(more)) /\ Len(Log') = Len(Log) + Len(more)
      /\ \A i \in 1..Len(Log) : Log'[i] = Log[i]
      /\ \A k \in 1..Len(more) : Log'[Len(Log) + k] = more[k]
      /\ \A i \in (Len(Log) + 1)..(Len(Log) + Len(more)) :
           i - Len(Log) \in 1..Len(more) /\ Log'[i] = more[i - Len(Log)]
  BY SMTT(30), <1>1, <1>2, Appended
<1>4. \A i : i \in SinceLastCheckpoint(Log)' <=>
               i \in SinceLastCheckpoint(Log) \/ i \in (Len(Log) + 1)..(Len(Log) + Len(more))
  <2>1. SinceLastCheckpoint(Log)' = SinceLastCheckpoint(Log \o more)
    BY <1>2 DEF SinceLastCheckpoint
  <2> QED
    BY <1>1, <2>1, AppendedSince
<1>5. \A type : TxnsWith(Log, SinceLastCheckpoint(Log), type)' =
                  TxnsWith(Log, SinceLastCheckpoint(Log), type) \cup TxnsWith(more, DOMAIN more, type)
  <2>1. \A type : TxnsWith(Log, SinceLastCheckpoint(Log), type)' =
                    TxnsWith(Log \o more, SinceLastCheckpoint(Log \o more), type)
    BY <1>2 DEF SinceLastCheckpoint, TxnsWith
  <2> QED
    BY SMTT(30), <1>1, <2>1, AppendedTxns
<1>6. CommittedTxns(Log)' = CommittedTxns(Log) \cup TxnsWith(more, DOMAIN more, "COMMIT")
  <2>1. CommittedTxns(Log)' = CommittedTxns(Log \o more)
    BY <1>2 DEF CommittedTxns, TxnsWith
  <2> QED
    BY SMTT(30), <1>1, <2>1, AppendedTxns DEF CommittedTxns
<1> QED
  BY <1>2, <1>3, <1>4, <1>5, <1>6

\* ... when they are buffered for a transaction that has not committed ...
LEMMA LogBuffers ==
  ASSUME wal \in Seq(LogRecord), walBuf \in Seq(LogRecord), BufferInv, SinceInv,
         NEW t, t \notin CommittedTxns(wal), NEW more \in Seq(LogRecord),
         \A k \in DOMAIN more : more[k].txn = t /\ more[k].type \notin {"COMMIT", "CHECKPOINT"},
         Buffer(more)
  PROVE  /\ wal' = wal /\ BufferInv'
         /\ CommittedTxns(wal)' = CommittedTxns(wal)
         /\ Begun(wal)' = Begun(wal)
         /\ TxnsWith(wal, SinceLastCheckpoint(wal), "COMMIT")' = TxnsWith(wal, SinceLastCheckpoint(wal), "COMMIT")
         /\ Begun(Log)' = Begun(Log) \cup TxnsWith(more, DOMAIN more, "BEGIN")
         /\ activeXids' \subseteq Begun(Log)' => SinceInv'
<1>1. wal' = wal /\ walBuf' = walBuf \o more
  BY DEF Buffer
<1>2. /\ CommittedTxns(wal)' = CommittedTxns(wal)
      /\ Begun(wal)' = Begun(wal)
      /\ TxnsWith(wal, SinceLastCheckpoint(wal), "COMMIT")' = TxnsWith(wal, SinceLastCheckpoint(wal), "COMMIT")
  BY <1>1 DEF CommittedTxns, Begun, TxnsWith, SinceLastCheckpoint
<1>3. BufferInv'
  <2> SUFFICES ASSUME NEW k \in DOMAIN walBuf'
               PROVE  walBuf'[k].type \notin {"COMMIT", "CHECKPOINT"} /\ walBuf'[k].txn \notin CommittedTxns(wal)
    BY <1>2 DEF BufferInv
  <2>1. (k \in DOMAIN walBuf /\ walBuf'[k] = walBuf[k]) \/ \E j \in DOMAIN more : walBuf'[k] = more[j]
    BY SMTT(30), <1>1, Joined
  <2> QED
    BY <2>1 DEF BufferInv
<1>4. /\ Log' = Log \o more
      /\ \A i \in 1..Len(Log) : Log'[i] = Log[i]
      /\ DOMAIN more = 1..Len(more)
      /\ \A i \in (Len(Log) + 1)..(Len(Log) + Len(more)) :
           i - Len(Log) \in 1..Len(more) /\ Log'[i] = more[i - Len(Log)]
      /\ \A i : i \in SinceLastCheckpoint(Log)' <=>
                  i \in SinceLastCheckpoint(Log) \/ i \in (Len(Log) + 1)..(Len(Log) + Len(more))
      /\ \A type : TxnsWith(Log, SinceLastCheckpoint(Log), type)' =
                     TxnsWith(Log, SinceLastCheckpoint(Log), type) \cup TxnsWith(more, DOMAIN more, type)
  BY LogGrows
<1>5. Begun(Log)' = Begun(Log) \cup TxnsWith(more, DOMAIN more, "BEGIN")
  BY <1>4 DEF Begun
<1>6. ASSUME NEW i \in SinceLastCheckpoint(Log)', (Log[i].type)' \in {"BEGIN", "OP"}, (Log[i].txn)' \in CommittedTxns(wal)
      PROVE  (Log[i].txn)' \in TxnsWith(wal, SinceLastCheckpoint(wal), "COMMIT")
  <2>1. CASE i \in SinceLastCheckpoint(Log)
    <3>1. i \in 1..Len(Log)
      BY <2>1, LogView DEF SinceLastCheckpoint
    <3> QED
      BY <1>4, <1>6, <2>1, <3>1 DEF SinceInv
  <2>2. CASE i \in (Len(Log) + 1)..(Len(Log) + Len(more))
    BY <1>4, <1>6, <2>2
  <2> QED
    BY <1>4, <2>1, <2>2
<1>7. activeXids' \subseteq Begun(Log)' => SinceInv'
  BY <1>2, <1>6 DEF SinceInv
<1> QED
  BY <1>1, <1>2, <1>3, <1>5, <1>7

\* ... and when a COMMIT is forced.
LEMMA LogCommits ==
  ASSUME wal \in Seq(LogRecord), walBuf \in Seq(LogRecord), BufferInv, SinceInv,
         NEW t \in Xids, ForceLog(<<Record("COMMIT", t)>>)
  PROVE  /\ wal' = Log' /\ walBuf' = <<>> /\ BufferInv'
         /\ CommittedTxns(wal)' = CommittedTxns(wal) \cup {t}
         /\ Begun(wal)' = Begun(Log) /\ Begun(Log)' = Begun(Log)
         /\ TxnsWith(wal, SinceLastCheckpoint(wal), "COMMIT")' =
              TxnsWith(wal, SinceLastCheckpoint(wal), "COMMIT") \cup {t}
         /\ activeXids' \subseteq Begun(Log) => SinceInv'
<1> DEFINE rec == Record("COMMIT", t)
           more == <<rec>>
<1>1. rec \in LogRecord /\ rec.txn = t /\ rec.type = "COMMIT"
  BY RecordsAreTyped DEF Record
<1> HIDE DEF rec
<1>2. more \in Seq(LogRecord) /\ DOMAIN more = {1} /\ more[1] = rec /\ Len(more) = 1
  BY <1>1, AtMostOne
<1>3. ForceLog(more)
  BY DEF rec
<1> HIDE DEF more
<1>4. /\ Log' = Log \o more /\ wal' = Log \o more /\ Len(Log) \in Nat
      /\ \A i \in 1..Len(Log) : Log'[i] = Log[i]
      /\ \A i \in (Len(Log) + 1)..(Len(Log) + Len(more)) :
           i - Len(Log) \in 1..Len(more) /\ Log'[i] = more[i - Len(Log)]
      /\ \A i : i \in SinceLastCheckpoint(Log)' <=>
                  i \in SinceLastCheckpoint(Log) \/ i \in (Len(Log) + 1)..(Len(Log) + Len(more))
      /\ \A type : TxnsWith(Log, SinceLastCheckpoint(Log), type)' =
                     TxnsWith(Log, SinceLastCheckpoint(Log), type) \cup TxnsWith(more, DOMAIN more, type)
      /\ CommittedTxns(Log)' = CommittedTxns(Log) \cup TxnsWith(more, DOMAIN more, "COMMIT")
  <2>1. \A k \in DOMAIN more : more[k].type # "CHECKPOINT"
    BY <1>1, <1>2
  <2> QED
    BY <1>2, <1>3, <2>1, LogGrows, LogView
<1>5. wal' = Log' /\ walBuf' = <<>>
  BY <1>3, <1>4 DEF ForceLog
<1>6. BufferInv'
  BY SMTT(30), <1>5 DEF BufferInv
<1>7. TxnsWith(more, DOMAIN more, "COMMIT") = {t} /\ TxnsWith(more, DOMAIN more, "BEGIN") = {}
  BY <1>1, <1>2 DEF TxnsWith
<1>8. /\ CommittedTxns(wal)' = CommittedTxns(Log)'
      /\ Begun(wal)' = Begun(Log)'
      /\ TxnsWith(wal, SinceLastCheckpoint(wal), "COMMIT")' = TxnsWith(Log, SinceLastCheckpoint(Log), "COMMIT")'
  BY <1>5 DEF CommittedTxns, Begun, TxnsWith, SinceLastCheckpoint
<1>9. /\ CommittedTxns(Log) = CommittedTxns(wal)
      /\ TxnsWith(Log, SinceLastCheckpoint(Log), "COMMIT") = TxnsWith(wal, SinceLastCheckpoint(wal), "COMMIT")
  BY LogView
<1>10. /\ CommittedTxns(wal)' = CommittedTxns(wal) \cup {t}
       /\ TxnsWith(wal, SinceLastCheckpoint(wal), "COMMIT")' =
            TxnsWith(wal, SinceLastCheckpoint(wal), "COMMIT") \cup {t}
  BY <1>4, <1>7, <1>8, <1>9
<1>11. Begun(Log)' = Begun(Log) /\ Begun(wal)' = Begun(Log)
  BY <1>4, <1>7, <1>8 DEF Begun
<1>12. ASSUME NEW i \in SinceLastCheckpoint(Log)', (Log[i].type)' \in {"BEGIN", "OP"}, (Log[i].txn)' \in CommittedTxns(wal)'
       PROVE  (Log[i].txn)' \in TxnsWith(wal, SinceLastCheckpoint(wal), "COMMIT")'
  <2>1. CASE i \in SinceLastCheckpoint(Log)
    <3>1. i \in 1..Len(Log)
      BY <2>1, LogView DEF SinceLastCheckpoint
    <3>2. Log'[i] = Log[i]
      BY <1>4, <3>1
    <3> QED
      BY <1>10, <1>12, <2>1, <3>2 DEF SinceInv
  <2>2. CASE i \in (Len(Log) + 1)..(Len(Log) + Len(more))
    <3>1. i - Len(Log) \in 1..Len(more) /\ Log'[i] = more[i - Len(Log)]
      BY <1>4, <2>2
    <3>2. Log'[i].type = "COMMIT"
      BY SMTT(30), <1>1, <1>2, <1>4, <2>2, <3>1
    <3> QED
      BY <1>12, <3>2
  <2> QED
    BY <1>4, <2>1, <2>2
<1>13. activeXids' \subseteq Begun(Log) => SinceInv'
  BY <1>11, <1>12 DEF SinceInv
<1> QED
  BY <1>5, <1>6, <1>10, <1>11, <1>13

\* The manager and the log, when a transaction begins ...
LEMMA BeginBase ==
  ASSUME BaseInv, phase = "up", NEW t \in Xids, BeginStep(t)
  PROVE  /\ wal' \in Seq(LogRecord) /\ walBuf' \in Seq(LogRecord)
         /\ ManagerInv' /\ BufferInv' /\ SinceInv' /\ OlderInv' /\ FailedInv'
         /\ CommittedTxns(wal)' = CommittedTxns(wal) /\ Begun(wal)' = Begun(wal)
         /\ Begun(Log)' = Begun(Log) \cup {t}
<1> DEFINE rec == Record("BEGIN", t)
           more == <<rec>>
           C == CommittedTxns(wal)
<1>1. rec \in LogRecord /\ rec.txn = t /\ rec.type = "BEGIN"
  BY RecordsAreTyped DEF Record
<1>2. begin(t) /\ failed' = failed /\ Buffer(more)
  BY DEF BeginStep
<1> HIDE DEF rec
<1>3. more \in Seq(LogRecord) /\ DOMAIN more = {1} /\ more[1] = rec
  BY <1>1, AtMostOne
<1>4. TxnsWith(more, DOMAIN more, "BEGIN") = {t}
  BY <1>1, <1>3 DEF TxnsWith
<1>5. \A k \in DOMAIN more : more[k].txn = t /\ more[k].type \notin {"COMMIT", "CHECKPOINT"}
  BY <1>1, <1>3
<1> HIDE DEF more
<1>6. /\ \A x \in Xids : state[x] = "unused" <=> x >= nextTxnId
      /\ \A x \in Xids : state[x] = "committed" <=> x \in C
      /\ activeXids = {x \in Xids : state[x] = "active"}
      /\ \A x \in abortedXids : state[x] = "aborted"
      /\ \A x \in failed : x < nextTxnId
  BY DEF BaseInv, ManagerInv
<1>7. /\ nextTxnId \in 1..(MaxTxn + 1) /\ state \in [Xids -> {"unused", "active", "committed", "aborted"}]
      /\ snapshot \in [Xids -> SUBSET Xids] /\ abortedXids \in SUBSET Xids /\ failed \in SUBSET Xids
      /\ wal \in Seq(LogRecord) /\ walBuf \in Seq(LogRecord)
  BY DEF BaseInv, StoreTypeOK, TypeOK
<1>8. /\ t = nextTxnId /\ nextTxnId' = nextTxnId + 1
      /\ snapshot' = [snapshot EXCEPT ![t] = activeXids]
      /\ activeXids' = activeXids \cup {t}
      /\ state' = [state EXCEPT ![t] = "active"]
      /\ abortedXids' = abortedXids
  BY <1>2 DEF begin
<1>9. state[t] = "unused" /\ t \notin C
  BY SMTT(30), <1>6, <1>7, <1>8, ConstantsAssumption DEF Xids
<1> HIDE DEF C
<1>10. /\ wal' = wal /\ BufferInv' /\ CommittedTxns(wal)' = C /\ Begun(wal)' = Begun(wal)
       /\ Begun(Log)' = Begun(Log) \cup {t}
       /\ activeXids' \subseteq Begun(Log)' => SinceInv'
  BY <1>2, <1>3, <1>4, <1>5, <1>7, <1>9, LogBuffers DEF C, BaseInv
<1>11. wal' \in Seq(LogRecord) /\ walBuf' \in Seq(LogRecord)
  BY <1>2, <1>3, <1>5, <1>7, LogGrows DEF BaseInv
<1>12. SinceInv'
  BY <1>8, <1>10 DEF BaseInv, SinceInv
<1>13. ManagerInv'
  <2>1. \A x \in Xids : state'[x] = "unused" <=> x >= nextTxnId'
    BY SMTT(30), <1>6, <1>7, <1>8, ConstantsAssumption DEF Xids
  <2>2. \A x \in Xids : state'[x] = "committed" <=> x \in C
    BY <1>6, <1>7, <1>8, <1>9
  <2>3. activeXids' = {x \in Xids : state'[x] = "active"}
    BY <1>6, <1>7, <1>8
  <2>4. \A x \in abortedXids' : state'[x] = "aborted"
    BY <1>6, <1>7, <1>8, <1>9
  <2>5. \A x \in failed' : x < nextTxnId'
    BY SMTT(30), <1>2, <1>6, <1>7, <1>8, ConstantsAssumption DEF Xids
  <2> QED
    BY <1>10, <2>1, <2>2, <2>3, <2>4, <2>5 DEF ManagerInv
<1>14. OlderInv'
  <2>1. \A x \in activeXids : x < t /\ x \in Xids
    BY SMTT(30), <1>6, <1>7, <1>8, ConstantsAssumption DEF Xids
  <2>2. \A x \in activeXids : snapshot'[x] = snapshot[x]
    BY SMTT(30), <1>7, <1>8, <2>1, ConstantsAssumption DEF Xids
  <2>3. snapshot'[t] = activeXids
    BY <1>7, <1>8
  <2> SUFFICES ASSUME NEW x \in activeXids', NEW u \in activeXids', u < x
               PROVE  u \in snapshot'[x]
    BY DEF OlderInv
  <2>4. u # t
    <3>1. x \in Nat /\ t \in Nat /\ (x = t \/ x < t)
      BY SMTT(30), <1>8, <2>1, ConstantsAssumption DEF Xids
    <3> QED
      BY SMTT(30), <3>1
  <2> QED
    BY <1>8, <2>1, <2>2, <2>3, <2>4 DEF BaseInv, OlderInv
<1>15. FailedInv'
  BY <1>2, <1>10 DEF BaseInv, FailedInv, C
<1> QED
  BY <1>10, <1>11, <1>12, <1>13, <1>14, <1>15 DEF C

\* ... when one commits ...
LEMMA CommitBase ==
  ASSUME BaseInv, phase = "up", NEW t \in Xids, CommitStep(t)
  PROVE  /\ wal' \in Seq(LogRecord) /\ walBuf' \in Seq(LogRecord)
         /\ ManagerInv' /\ BufferInv' /\ SinceInv' /\ OlderInv' /\ FailedInv'
         /\ CommittedTxns(wal)' = CommittedTxns(wal) \cup {t} /\ t \in activeXids
<1> DEFINE C == CommittedTxns(wal)
<1>1. commit(t) /\ failed' = failed /\ ForceLog(<<Record("COMMIT", t)>>) /\ (CallerAborts => t \notin failed)
  BY DEF CommitStep
<1>2. /\ \A x \in Xids : state[x] = "unused" <=> x >= nextTxnId
      /\ \A x \in Xids : state[x] = "committed" <=> x \in C
      /\ activeXids = {x \in Xids : state[x] = "active"}
      /\ \A x \in abortedXids : state[x] = "aborted"
      /\ \A x \in failed : x < nextTxnId
  BY DEF BaseInv, ManagerInv
<1>3. /\ state \in [Xids -> {"unused", "active", "committed", "aborted"}]
      /\ abortedXids \in SUBSET Xids
      /\ wal \in Seq(LogRecord) /\ walBuf \in Seq(LogRecord)
  BY DEF BaseInv, StoreTypeOK, TypeOK
<1>4. /\ state[t] = "active"
      /\ activeXids' = activeXids \ {t}
      /\ state' = [state EXCEPT ![t] = "committed"]
      /\ nextTxnId' = nextTxnId /\ abortedXids' = abortedXids /\ snapshot' = snapshot
  BY <1>1 DEF commit
<1> HIDE DEF C
<1>5. /\ BufferInv' /\ CommittedTxns(wal)' = C \cup {t}
      /\ activeXids' \subseteq Begun(Log) => SinceInv'
  BY <1>1, <1>3, LogCommits DEF C, BaseInv
<1>6. wal' \in Seq(LogRecord) /\ walBuf' \in Seq(LogRecord)
  <2> DEFINE rec == Record("COMMIT", t)
  <2>1. rec \in LogRecord /\ rec.type = "COMMIT"
    BY RecordsAreTyped DEF Record
  <2> HIDE DEF rec
  <2>2. <<rec>> \in Seq(LogRecord) /\ \A k \in DOMAIN <<rec>> : <<rec>>[k].type # "CHECKPOINT"
    BY <2>1, AtMostOne
  <2> QED
    BY <1>1, <1>3, <2>2, LogGrows DEF BaseInv, rec
<1>7. SinceInv'
  BY <1>4, <1>5 DEF BaseInv, SinceInv
<1>8. ManagerInv'
  <2>1. \A x \in Xids : state'[x] = "unused" <=> x >= nextTxnId'
    BY <1>2, <1>3, <1>4
  <2>2. \A x \in Xids : state'[x] = "committed" <=> x \in CommittedTxns(wal)'
    BY <1>2, <1>3, <1>4, <1>5
  <2>3. activeXids' = {x \in Xids : state'[x] = "active"}
    BY <1>2, <1>3, <1>4
  <2>4. \A x \in abortedXids' : state'[x] = "aborted"
    BY <1>2, <1>3, <1>4
  <2>5. \A x \in failed' : x < nextTxnId'
    BY <1>1, <1>2, <1>4
  <2> QED
    BY <2>1, <2>2, <2>3, <2>4, <2>5 DEF ManagerInv
<1>9. OlderInv'
  BY <1>4 DEF BaseInv, OlderInv
<1>10. FailedInv'
  BY <1>1, <1>5 DEF BaseInv, FailedInv, C
<1>11. t \in activeXids
  BY <1>2, <1>4
<1> QED
  BY <1>5, <1>6, <1>7, <1>8, <1>9, <1>10, <1>11 DEF C

\* ... and when one writes a row or aborts.
LEMMA WriteBase ==
  ASSUME BaseInv, phase = "up", NEW t \in Xids, NEW d, NEW n, NEW new, NEW more,
         WriteStep(t, d, n, new, more)
  PROVE  /\ wal' \in Seq(LogRecord) /\ walBuf' \in Seq(LogRecord)
         /\ ManagerInv' /\ BufferInv' /\ SinceInv' /\ OlderInv' /\ FailedInv'
         /\ wal' = wal /\ CommittedTxns(wal)' = CommittedTxns(wal) /\ Begun(wal)' = Begun(wal)
         /\ Begun(Log)' = Begun(Log)
         /\ t \in activeXids /\ t \notin CommittedTxns(wal)
<1> DEFINE C == CommittedTxns(wal)
<1>1. /\ state[t] = "active" /\ (abort(t) \/ UNCHANGED txnVars)
      /\ Logged(t, d, n, new, more) /\ Buffer(more)
      /\ failed \subseteq failed' /\ failed' \subseteq failed \cup {t}
  BY DEF WriteStep
<1>2. /\ \A x \in Xids : state[x] = "unused" <=> x >= nextTxnId
      /\ \A x \in Xids : state[x] = "committed" <=> x \in C
      /\ activeXids = {x \in Xids : state[x] = "active"}
      /\ \A x \in abortedXids : state[x] = "aborted"
      /\ \A x \in failed : x < nextTxnId
  BY DEF BaseInv, ManagerInv
<1>3. /\ nextTxnId \in 1..(MaxTxn + 1) /\ state \in [Xids -> {"unused", "active", "committed", "aborted"}]
      /\ abortedXids \in SUBSET Xids
      /\ wal \in Seq(LogRecord) /\ walBuf \in Seq(LogRecord)
  BY DEF BaseInv, StoreTypeOK, TypeOK
<1>4. /\ more \in Seq(LogRecord)
      /\ \A k \in DOMAIN more : more[k].txn = t /\ more[k].type \notin {"BEGIN", "COMMIT", "CHECKPOINT"}
  BY <1>1 DEF Logged
<1>5. t \notin C /\ t \in activeXids /\ t < nextTxnId
  BY SMTT(30), <1>1, <1>2, <1>3, ConstantsAssumption DEF Xids
<1>6. TxnsWith(more, DOMAIN more, "BEGIN") = {}
  BY <1>4 DEF TxnsWith
<1> HIDE DEF C
<1>7. /\ wal' = wal /\ BufferInv' /\ CommittedTxns(wal)' = C /\ Begun(wal)' = Begun(wal)
      /\ Begun(Log)' = Begun(Log)
      /\ activeXids' \subseteq Begun(Log)' => SinceInv'
  BY ZenonT(30), <1>1, <1>3, <1>4, <1>5, <1>6, LogBuffers DEF C, BaseInv
<1>8. wal' \in Seq(LogRecord) /\ walBuf' \in Seq(LogRecord)
  BY <1>1, <1>3, <1>4, LogGrows DEF BaseInv
<1>9. /\ activeXids' \subseteq activeXids /\ nextTxnId' = nextTxnId /\ snapshot' = snapshot
      /\ \A x \in Xids : state'[x] = state[x] \/ (x = t /\ state'[x] = "aborted")
      /\ activeXids' = {x \in Xids : state'[x] = "active"}
      /\ \A x \in abortedXids' : state'[x] = "aborted"
  <2>1. CASE abort(t)
    BY <1>1, <1>2, <1>3, <2>1 DEF abort
  <2>2. CASE UNCHANGED txnVars
    BY <1>2, <2>2 DEF txnVars
  <2> QED
    BY <1>1, <2>1, <2>2
<1>10. SinceInv'
  BY <1>7, <1>9 DEF BaseInv, SinceInv
<1>11. ManagerInv'
  <2>1. \A x \in Xids : state'[x] = "unused" <=> x >= nextTxnId'
    BY <1>1, <1>2, <1>9
  <2>2. \A x \in Xids : state'[x] = "committed" <=> x \in CommittedTxns(wal)'
    BY <1>2, <1>5, <1>7, <1>9
  <2>3. \A x \in failed' : x < nextTxnId'
    BY <1>1, <1>2, <1>5, <1>9
  <2> QED
    BY <1>9, <2>1, <2>2, <2>3 DEF ManagerInv
<1>12. OlderInv'
  BY <1>9 DEF BaseInv, OlderInv
<1>13. FailedInv'
  BY <1>1, <1>5, <1>7 DEF BaseInv, FailedInv, C
<1> QED
  BY <1>5, <1>7, <1>8, <1>10, <1>11, <1>12, <1>13 DEF C

-----------------------------------------------------------------------------
(* Checkpoints, stops and recovery *)

\* A checkpoint forces the log, with no transaction active, and writes every page.
LEMMA CheckpointLog ==
  ASSUME BaseInv, Checkpoint
  PROVE  /\ wal' \in Seq(LogRecord) /\ walBuf' = <<>>
         /\ SinceLastCheckpoint(Log)' = {} /\ SinceLastCheckpoint(wal)' = {}
         /\ CommittedTxns(wal)' = CommittedTxns(wal)
<1>1. ForceLog(<<Record("CHECKPOINT", 0)>>)
  BY DEF Checkpoint
<1> DEFINE rec == Record("CHECKPOINT", 0)
<1>2. rec \in LogRecord /\ rec.type = "CHECKPOINT"
  BY RecordsAreTyped DEF Record
<1>3. wal \in Seq(LogRecord) /\ walBuf \in Seq(LogRecord) /\ TypeOK /\ BufferInv
  BY DEF BaseInv, StoreTypeOK
<1>4. wal' = Log \o <<rec>> /\ walBuf' = <<>>
  BY <1>1 DEF ForceLog, Log
<1> HIDE DEF rec
<1>5. wal' \in Seq(LogRecord) /\ walBuf' \in Seq(LogRecord)
  <2>1. Log \in Seq(LogRecord) /\ <<rec>> \in Seq(LogRecord)
    BY <1>2, <1>3, LogView, AtMostOne
  <2> QED
    BY SMTT(30), <1>4, <2>1, Appended
<1>6. SinceLastCheckpoint(wal)' = {} /\ CommittedTxns(wal)' = CommittedTxns(wal)
  <2>1. Log \in Seq(LogRecord) /\ CommittedTxns(Log) = CommittedTxns(wal)
    BY <1>3, LogView
  <2>2. SinceLastCheckpoint(Log \o <<rec>>) = {} /\ CommittedTxns(Log \o <<rec>>) = CommittedTxns(Log)
    BY <1>2, <2>1, AppendedCheckpoint
  <2>3. SinceLastCheckpoint(wal)' = SinceLastCheckpoint(Log \o <<rec>>) /\ CommittedTxns(wal)' = CommittedTxns(Log \o <<rec>>)
    BY <1>4 DEF SinceLastCheckpoint, CommittedTxns, TxnsWith
  <2> QED
    BY <2>1, <2>2, <2>3
<1>7. Log' = wal'
  BY SMTT(30), <1>4, <1>5 DEF Log
<1>8. SinceLastCheckpoint(Log)' = {}
  BY <1>6, <1>7 DEF SinceLastCheckpoint
<1> QED
  BY <1>4, <1>5, <1>6, <1>8

\* A stop leaves the log file with some of what was buffered, none of it committed.
LEMMA LogStops ==
  ASSUME wal \in Seq(LogRecord), walBuf \in Seq(LogRecord), BufferInv, SinceInv, activeXids' = {},
         Close \/ Crash
  PROVE  /\ wal' \in Seq(LogRecord) /\ walBuf' = <<>> /\ Log' = wal' /\ BufferInv' /\ SinceInv'
         /\ CommittedTxns(wal)' = CommittedTxns(wal)
         /\ Begun(wal) \subseteq Begun(wal)' /\ (Close => wal' = Log)
         /\ TxnsWith(wal, SinceLastCheckpoint(wal), "COMMIT")' = TxnsWith(wal, SinceLastCheckpoint(wal), "COMMIT")
         /\ SinceLastCheckpoint(wal) \subseteq SinceLastCheckpoint(wal)'
         /\ \A i \in 1..Len(wal) : wal'[i] = wal[i]
         /\ \A i \in SinceLastCheckpoint(wal)' : i \in SinceLastCheckpoint(wal) \/ wal'[i].txn \notin CommittedTxns(wal)
<1> DEFINE C == CommittedTxns(wal)
<1>1. Close => wal' = Log
  <2>1. Log \in Seq(LogRecord) /\ Log = wal \o walBuf
    BY LogView DEF Log
  <2>2. Log \o <<>> = Log
    BY SMTT(30), <2>1
  <2> QED
    BY <2>1, <2>2 DEF Close, ForceLog
<1>2. PICK sub : /\ sub \in Seq(LogRecord) /\ wal' = wal \o sub
                 /\ \A k \in DOMAIN sub : \E j \in DOMAIN walBuf : sub[k] = walBuf[j]
  <2>1. CASE Close
    BY <1>1, <2>1 DEF Log
  <2>2. CASE Crash
    <3>1. PICK n \in 0..Len(walBuf) : wal' = wal \o SubSeq(walBuf, 1, n)
      BY <2>2 DEF Crash
    <3>2. /\ SubSeq(walBuf, 1, n) \in Seq(LogRecord)
          /\ DOMAIN SubSeq(walBuf, 1, n) = 1..n /\ Len(walBuf) \in Nat /\ DOMAIN walBuf = 1..Len(walBuf)
          /\ \A k \in 1..n : SubSeq(walBuf, 1, n)[k] = walBuf[k]
      BY SMTT(30)
    <3>3. 1..n \subseteq 1..Len(walBuf)
      BY SMTT(30), <3>2
    <3> QED
      BY <3>1, <3>2, <3>3
  <2> QED
    BY <2>1, <2>2
<1>3. walBuf' = <<>>
  BY DEF Close, Crash, ForceLog
<1>4. \A k \in DOMAIN sub : sub[k].type \notin {"COMMIT", "CHECKPOINT"} /\ sub[k].txn \notin C
  BY <1>2 DEF BufferInv
<1>5. /\ wal' \in Seq(LogRecord) /\ Len(wal) \in Nat /\ DOMAIN wal = 1..Len(wal)
      /\ DOMAIN sub = 1..Len(sub)
      /\ \A i \in 1..Len(wal) : wal'[i] = wal[i]
      /\ \A i \in (Len(wal) + 1)..(Len(wal) + Len(sub)) :
              i - Len(wal) \in 1..Len(sub) /\ wal'[i] = sub[i - Len(wal)]
  BY SMTT(30), <1>2, Appended
<1>6. \A i : i \in SinceLastCheckpoint(wal)' <=>
               i \in SinceLastCheckpoint(wal) \/ i \in (Len(wal) + 1)..(Len(wal) + Len(sub))
  <2>1. SinceLastCheckpoint(wal)' = SinceLastCheckpoint(wal \o sub)
    BY <1>2 DEF SinceLastCheckpoint
  <2> QED
    BY <1>2, <1>4, <2>1, AppendedSince
<1>7. \A i \in SinceLastCheckpoint(wal)' : i \in SinceLastCheckpoint(wal) \/ wal'[i].txn \notin C
  BY <1>4, <1>5, <1>6
<1>8. \A type : TxnsWith(wal, SinceLastCheckpoint(wal), type)' =
                  TxnsWith(wal, SinceLastCheckpoint(wal), type) \cup TxnsWith(sub, DOMAIN sub, type)
  <2>1. \A type : TxnsWith(wal, SinceLastCheckpoint(wal), type)' =
                    TxnsWith(wal \o sub, SinceLastCheckpoint(wal \o sub), type)
    BY <1>2 DEF SinceLastCheckpoint, TxnsWith
  <2>2. sub \in Seq(LogRecord) /\ \A k \in DOMAIN sub : sub[k].type # "CHECKPOINT"
    BY <1>2, <1>4
  <2>3. \A type : TxnsWith(wal \o sub, SinceLastCheckpoint(wal \o sub), type) =
                    TxnsWith(wal, SinceLastCheckpoint(wal), type) \cup TxnsWith(sub, DOMAIN sub, type)
    BY SMTT(30), <2>2, AppendedTxns
  <2> QED
    BY <2>1, <2>3
<1>9. TxnsWith(sub, DOMAIN sub, "COMMIT") = {}
  BY <1>4 DEF TxnsWith
<1>10. CommittedTxns(wal)' = C
  <2>1. CommittedTxns(wal)' = CommittedTxns(wal \o sub)
    BY <1>2 DEF CommittedTxns, TxnsWith
  <2>2. CommittedTxns(wal \o sub) = C \cup TxnsWith(sub, DOMAIN sub, "COMMIT")
    BY SMTT(30), <1>2, AppendedTxns DEF CommittedTxns
  <2> QED
    BY <1>9, <2>1, <2>2
<1>11. TxnsWith(wal, SinceLastCheckpoint(wal), "COMMIT")' = TxnsWith(wal, SinceLastCheckpoint(wal), "COMMIT")
  BY <1>8, <1>9
<1>12. Begun(wal) \subseteq Begun(wal)'
  BY <1>8 DEF Begun
<1>13. Log' = wal'
  BY SMTT(30), <1>3, <1>5 DEF Log
<1>14. BufferInv'
  BY SMTT(30), <1>3 DEF BufferInv
<1> HIDE DEF C
<1>15. SinceInv'
  <2> SUFFICES ASSUME NEW i \in SinceLastCheckpoint(wal)', wal'[i].type \in {"BEGIN", "OP"}, wal'[i].txn \in C
               PROVE  wal'[i].txn \in TxnsWith(wal, SinceLastCheckpoint(wal), "COMMIT")
    <3>1. SinceLastCheckpoint(Log)' = SinceLastCheckpoint(wal)'
      BY <1>13 DEF SinceLastCheckpoint
    <3> QED
      BY <1>10, <1>11, <1>13, <3>1 DEF SinceInv
  <2>1. i \in SinceLastCheckpoint(wal)
    BY <1>7
  <2>2. i \in 1..Len(wal) /\ i \in SinceLastCheckpoint(Log) /\ Log[i] = wal[i]
    BY <2>1, LogView
  <2> QED
    BY <1>5, <2>2 DEF SinceInv, C
<1> QED
  BY <1>1, <1>3, <1>5, <1>6, <1>7, <1>10, <1>11, <1>12, <1>13, <1>14, <1>15 DEF C

\* What replaying an operation does to the heap: a version more, or one stamped, or nothing.
LEMMA ReplayShape ==
  ASSUME heap \in Seq(Row), index \in SUBSET Entry, NEW rec \in LogRecord, rec.type = "OP",
         ApplyRecoveryOp(rec.op)
  PROVE  /\ heap' \in Seq(Row) /\ index' \in SUBSET Entry
         /\ Len(heap') \in Nat /\ Len(heap) <= Len(heap')
         /\ \A r \in 1..Len(heap) : heap'[r].xmin = heap[r].xmin /\ heap'[r].val = heap[r].val
         /\ rec.op.kind = "heap_insert" =>
              /\ Len(heap') = Len(heap) + 1 /\ heap'[Len(heap) + 1] = rec.op.tuple
              /\ \A r \in 1..Len(heap) : heap'[r] = heap[r]
              /\ index' = index
         /\ rec.op.kind = "heap_set_xmax" =>
              /\ Len(heap') = Len(heap) /\ index' = index
              /\ \A r \in 1..Len(heap) :
                   heap'[r] = IF r = rec.op.rid THEN WithXmax(heap[r], rec.txn) ELSE heap[r]
         /\ rec.op.kind = "btree_insert" =>
              /\ heap' = heap
              /\ index' = index \cup {[key |-> rec.op.key, rid |-> rec.op.rid]}
<1> DEFINE op == rec.op
<1>1. /\ op.kind \in {"heap_insert", "heap_set_xmax", "btree_insert"} /\ op.rid \in Nat /\ rec.txn \in Xids
      /\ op.kind = "heap_insert" => op.tuple \in Row
      /\ op.kind = "heap_set_xmax" => op.xmax = rec.txn
      /\ op.kind = "btree_insert" => op.key \in Values
  BY RecordFields
<1>2. Len(heap) \in Nat /\ DOMAIN heap = 1..Len(heap) /\ heap \in [1..Len(heap) -> Row]
  BY SMTT(30)
<1> HIDE DEF op
<1>3. ApplyRecoveryOp(op)
  BY DEF op
<1>4. CASE op.kind = "heap_insert"
  <2>1. heap' = Append(heap, op.tuple) /\ index' = index
    BY <1>3, <1>4 DEF ApplyRecoveryOp
  <2>2. heap' \in Seq(Row) /\ Len(heap') = Len(heap) + 1 /\ heap'[Len(heap) + 1] = op.tuple
    BY SMTT(30), <1>1, <1>4, <2>1
  <2>3. \A r \in 1..Len(heap) : heap'[r] = heap[r]
    BY SMTT(30), <1>2, <2>1
  <2>4. Len(heap') \in Nat /\ Len(heap) <= Len(heap')
    BY SMTT(30), <1>2, <2>2
  <2>5. rec.op.kind = "heap_insert" /\ rec.op.tuple = op.tuple
    BY <1>4 DEF op
  <2>6. \A r \in 1..Len(heap) : heap'[r].xmin = heap[r].xmin /\ heap'[r].val = heap[r].val
    BY <2>3
  <2> QED
    BY <2>1, <2>2, <2>3, <2>4, <2>5, <2>6
<1>5. CASE op.kind = "heap_set_xmax"
  <2>1. /\ heap' = IF op.rid \in DOMAIN heap
                     THEN [heap EXCEPT ![op.rid] = WithXmax(heap[op.rid], rec.txn)] ELSE heap
        /\ index' = index
    BY <1>1, <1>3, <1>5 DEF ApplyRecoveryOp
  <2>2. \A r \in 1..Len(heap) : WithXmax(heap[r], rec.txn) \in Row
    BY <1>1, <1>2 DEF WithXmax, Row
  <2>3. heap' \in [1..Len(heap) -> Row]
    BY <1>2, <2>1, <2>2
  <2>4. heap' \in Seq(Row) /\ Len(heap') = Len(heap)
    BY SMTT(30), <1>2, <2>3
  <2>5. \A r \in 1..Len(heap) : heap'[r] = IF r = op.rid THEN WithXmax(heap[r], rec.txn) ELSE heap[r]
    BY <1>2, <2>1
  <2>6. \A r \in 1..Len(heap) : heap'[r].xmin = heap[r].xmin /\ heap'[r].val = heap[r].val
    <3>1. ASSUME NEW r \in 1..Len(heap)
          PROVE  heap'[r].xmin = heap[r].xmin /\ heap'[r].val = heap[r].val
      <4>1. heap'[r] = IF r = op.rid THEN WithXmax(heap[r], rec.txn) ELSE heap[r]
        BY <2>5
      <4> QED
        BY SMTT(30), <4>1 DEF WithXmax
    <3> QED
      BY <3>1
  <2>7. Len(heap') \in Nat /\ Len(heap) <= Len(heap')
    BY SMTT(30), <1>2, <2>4
  <2>8. rec.op.kind = "heap_set_xmax" /\ rec.op.rid = op.rid
    BY <1>5 DEF op
  <2>9. index' = index /\ index' \in SUBSET Entry
    BY <2>1
  <2> QED
    BY <2>4, <2>5, <2>6, <2>7, <2>8, <2>9
<1>6. CASE op.kind = "btree_insert"
  <2>1. heap' = heap /\ index' = index \cup {[key |-> op.key, rid |-> op.rid]}
    BY <1>3, <1>6 DEF ApplyRecoveryOp
  <2>2. [key |-> op.key, rid |-> op.rid] \in Entry
    BY <1>1, <1>6 DEF Entry
  <2> QED
    BY SMTT(30), <1>2, <1>6, <2>1, <2>2 DEF op
<1> QED
  BY <1>1, <1>4, <1>5, <1>6

-----------------------------------------------------------------------------
(* Logs of ids that have been given out *)

\* What is needed of MaxId: a bounded set of ids that is not empty has a largest one.
MaxIdFacts ==
  \A S \in SUBSET Nat : \A n \in Nat : S # {} /\ (\A x \in S : x <= n) =>
    MaxId(S) \in S /\ \A x \in S : MaxId(S) >= x

\* What can be done to such a log: appending to it, cutting it, handing out more ids.
LEMMA BelowLogs ==
  ASSUME NEW log, NEW n \in Nat, Below(log, n)
  PROVE  /\ \A i \in DOMAIN log : log[i].txn \in Nat /\ log[i].txn < n
         /\ \A more : Below(more, n) => Below(log \o more, n)
         /\ \A k \in 0..Len(log) : Below(SubSeq(log, 1, k), n)
         /\ \A m \in Nat : n <= m => Below(log, m)
         /\ Len(log) \in Nat
<1>1. PICK R : log \in Seq(R) /\ \A rec \in R : rec.txn \in Nat /\ rec.txn < n
  BY DEF Below
<1>2. \A i \in DOMAIN log : log[i].txn \in Nat /\ log[i].txn < n
  BY SMTT(30), <1>1
<1>3. ASSUME NEW more, Below(more, n)
      PROVE  Below(log \o more, n)
  <2>1. PICK Q : more \in Seq(Q) /\ \A rec \in Q : rec.txn \in Nat /\ rec.txn < n
    BY <1>3 DEF Below
  <2>2. log \in Seq(R \cup Q) /\ more \in Seq(R \cup Q)
    BY SMTT(30), <1>1, <2>1
  <2>3. log \o more \in Seq(R \cup Q)
    BY SMTT(30), <2>2
  <2> QED
    BY SMTT(30), <1>1, <2>1, <2>3 DEF Below
<1>4. ASSUME NEW k \in 0..Len(log)
      PROVE  Below(SubSeq(log, 1, k), n)
  <2>1. SubSeq(log, 1, k) \in Seq(R)
    BY SMTT(30), <1>1
  <2> QED
    BY <1>1, <2>1 DEF Below
<1>5. ASSUME NEW m \in Nat, n <= m
      PROVE  Below(log, m)
  BY SMTT(30), <1>1, <1>5 DEF Below
<1> QED
  BY SMTT(30), <1>1, <1>2, <1>3, <1>4, <1>5

\* The logs of one record, and of none.
LEMMA ShortLogs ==
  ASSUME NEW n \in Nat
  PROVE  Below(<<>>, n) /\ \A rec : rec.txn \in Nat /\ rec.txn < n => Below(<<rec>>, n)
<1>1. Below(<<>>, n)
  <2>1. PICK R : R = {}
    OBVIOUS
  <2>2. <<>> \in Seq(R) /\ \A rec \in R : rec.txn \in Nat /\ rec.txn < n
    BY SMTT(30), <2>1
  <2> QED
    BY <2>2 DEF Below
<1>2. ASSUME NEW rec, rec.txn \in Nat, rec.txn < n
      PROVE  Below(<<rec>>, n)
  <2>1. PICK R : R = {rec}
    OBVIOUS
  <2>2. <<rec>> \in Seq(R) /\ \A x \in R : x.txn \in Nat /\ x.txn < n
    BY SMTT(30), <1>2, <2>1
  <2> QED
    BY <2>2 DEF Below
<1> QED
  BY <1>1, <1>2

\* next_txn_id of a log is above every id in it, and its bound needs no more than that.
LEMMA NextTxnIdAbove ==
  ASSUME MaxIdFacts, NEW log, NEW n \in Nat \ {0}, Below(log, n)
  PROVE  NextTxnId(log) \in 1..n /\ Below(log, NextTxnId(log))
<1> DEFINE T == {0} \cup {log[i].txn : i \in DOMAIN log}
           m == MaxId(T)
<1>1. T \subseteq Nat /\ T # {} /\ \A x \in T : x <= n - 1
  BY SMTT(30), BelowLogs
<1>2. m \in T /\ \A x \in T : m >= x
  <2> HIDE DEF T
  <2>1. n - 1 \in Nat
    BY SMTT(30)
  <2> QED
    BY <1>1, <2>1 DEF MaxIdFacts
<1>3. NextTxnId(log) = 1 + m
  BY DEF NextTxnId
<1>4. PICK R : R = {log[i] : i \in DOMAIN log}
  OBVIOUS
<1>5. log \in Seq(R)
  <2>1. PICK Q : log \in Seq(Q)
    BY DEF Below
  <2>2. DOMAIN log = 1..Len(log) /\ Len(log) \in Nat /\ log \in [1..Len(log) -> R]
    BY SMTT(30), <1>4, <2>1
  <2> QED
    BY SMTT(30), <2>2
<1>6. \A i \in DOMAIN log : log[i].txn \in Nat /\ log[i].txn < 1 + m
  <2>1. \A i \in DOMAIN log : log[i].txn \in T
    OBVIOUS
  <2>2. \A i \in DOMAIN log : log[i].txn \in Nat
    BY BelowLogs
  <2>3. m \in Nat
    BY <1>1, <1>2
  <2> HIDE DEF T, m
  <2>4. \A i \in DOMAIN log : m >= log[i].txn
    BY <1>2, <2>1
  <2> QED
    BY SMTT(30), <2>2, <2>3, <2>4
<1>7. Below(log, 1 + m)
  <2> HIDE DEF m
  <2>1. \A rec \in R : rec.txn \in Nat /\ rec.txn < 1 + m
    BY <1>4, <1>6
  <2> QED
    BY <1>5, <2>1 DEF Below
<1>8. 1 + m \in 1..n
  <2> HIDE DEF T, m
  <2> QED
    BY SMTT(30), <1>1, <1>2
<1> QED
  BY <1>3, <1>7, <1>8

-----------------------------------------------------------------------------
(* The ids of a running database *)

\* What a step of a running database may do to the ids.
IdsKept ==
  /\ IdTypeOK'
  /\ nextTxnId <= nextTxnId'
  /\ \A t \in Xids : state'[t] = "active" => t < nextTxnId'

\* Beginning, committing and aborting keep the ids of open transactions given out.
LEMMA IdsKeptStep ==
  ASSUME LogInv, NEW t \in Xids,
         begin(t) \/ commit(t) \/ abort(t) \/ UNCHANGED txnVars
  PROVE  IdsKept /\ (begin(t) => t = nextTxnId /\ t < nextTxnId') /\ (~begin(t) => nextTxnId' = nextTxnId)
<1> USE ConstantsAssumption DEF IdTypeOK, Xids, LogInv, IdsKept
<1>1. CASE begin(t)
  BY SMTT(30), <1>1 DEF begin
<1>2. CASE commit(t)
  BY SMTT(30), <1>2 DEF commit, begin
<1>3. CASE abort(t)
  BY SMTT(30), <1>3 DEF abort, begin
<1>4. CASE UNCHANGED txnVars
  BY SMTT(30), <1>4 DEF txnVars, begin
<1> QED
  BY <1>1, <1>2, <1>3, <1>4

\* Records of ids given out keep the logs below the next id, buffered or forced.
LEMMA LogsKept ==
  ASSUME LogInv, phase = "up", IdsKept, NEW records, Below(records, nextTxnId'),
         Buffer(records) \/ ForceLog(records) \/ UNCHANGED logVars
  PROVE  Below(wal', nextTxnId') /\ Below(walBuf', nextTxnId') /\ Below(wal', MaxTxn + 1)
<1>1. nextTxnId \in Nat /\ nextTxnId' \in Nat /\ nextTxnId' <= MaxTxn + 1 /\ MaxTxn + 1 \in Nat
  BY SMTT(30), ConstantsAssumption DEF LogInv, IdsKept, IdTypeOK
<1>2. Below(wal, nextTxnId') /\ Below(walBuf, nextTxnId')
  BY <1>1, BelowLogs DEF LogInv, IdsKept
<1>3. Below(wal', nextTxnId') /\ Below(walBuf', nextTxnId')
  <2>1. CASE Buffer(records)
    BY <1>1, <1>2, <2>1, BelowLogs DEF Buffer
  <2>2. CASE ForceLog(records)
    <3>1. Below(wal \o walBuf, nextTxnId')
      BY <1>1, <1>2, BelowLogs
    <3> QED
      BY <1>1, <2>2, <3>1, BelowLogs, ShortLogs DEF ForceLog
  <2>3. CASE UNCHANGED logVars
    BY <1>2, <2>3 DEF logVars
  <2> QED
    BY <2>1, <2>2, <2>3
<1> QED
  BY <1>1, <1>3, BelowLogs

\* The records of a row are all of the transaction of the statement.
LEMMA RowRecordsBelow ==
  ASSUME NEW n \in Nat, stmt.txn \in Nat, stmt.txn < n
  PROVE  Below(RowRecords, n)
<1> DEFINE t == stmt.txn
           stamped == {r \in DOMAIN heap : heap'[r] # heap[r]}
           new == Len(heap')
           a == IF stamped = {} THEN <<>>
                ELSE <<Operation(t, HeapSetXmax(CHOOSE r \in stamped : TRUE, t))>>
           b == IF new = Len(heap) THEN <<>> ELSE <<Operation(t, HeapInsert(heap'[new], new))>>
           c == IF new = Len(heap) \/ IndexKind = "none" \/ stmt' # stmt THEN <<>>
                ELSE <<Operation(t, BtreeInsert(heap'[new].val, new))>>
           d == IF state'[t] = "aborted" THEN <<Record("ABORT", t)>> ELSE <<>>
<1>1. RowRecords = a \o b \o c \o d
  BY DEF RowRecords
<1>2. \A op : Operation(t, op).txn = t /\ Record("ABORT", t).txn = t
  BY DEF Operation, Record
<1>3. \A op : Below(<<Operation(t, op)>>, n)
  BY <1>2, ShortLogs
<1>4. Below(<<Record("ABORT", t)>>, n) /\ Below(<<>>, n)
  BY <1>2, ShortLogs
<1>5. Below(a, n) /\ Below(b, n) /\ Below(c, n) /\ Below(d, n)
  BY <1>3, <1>4
<1> HIDE DEF a, b, c, d
<1>6. Below(a \o b, n)
  BY <1>5, BelowLogs
<1>7. Below(a \o b \o c, n)
  BY <1>5, <1>6, BelowLogs
<1> QED
  BY <1>1, <1>5, <1>7, BelowLogs

\* A running database keeps the invariant.
LEMMA RunningStep ==
  ASSUME LogInv, Running
  PROVE  LogInv'
<1>1. phase = "up" /\ phase' = "up" /\ Operate
  BY DEF Running
<1>2. ASSUME NEW t \in Xids, begin(t) \/ commit(t) \/ abort(t) \/ UNCHANGED txnVars,
             NEW records, Below(records, nextTxnId'),
             Buffer(records) \/ ForceLog(records) \/ UNCHANGED logVars,
             stmt' = Idle \/ stmt' = stmt \/ (stmt'.txn = t /\ t < nextTxnId')
      PROVE  LogInv'
  <2>1. IdsKept
    BY <1>2, IdsKeptStep
  <2>2. Below(wal', nextTxnId') /\ Below(walBuf', nextTxnId') /\ Below(wal', MaxTxn + 1)
    BY <1>1, <1>2, <2>1, LogsKept
  <2>3. stmt'.kind # "idle" => stmt'.txn \in Xids /\ stmt'.txn < nextTxnId'
    <3>1. CASE stmt' = Idle
      BY <3>1 DEF Idle
    <3>2. CASE stmt' = stmt
      <4>1. nextTxnId \in Nat /\ nextTxnId' \in Nat /\ nextTxnId <= nextTxnId'
        BY SMTT(30), <2>1, ConstantsAssumption DEF IdsKept, LogInv, IdTypeOK
      <4> QED
        BY SMTT(30), <3>2, <4>1 DEF LogInv, Xids
    <3>3. CASE stmt'.txn = t /\ t < nextTxnId'
      BY <3>3
    <3> QED
      BY <1>2, <3>1, <3>2, <3>3
  <2> QED
    BY <1>1, <2>1, <2>2, <2>3 DEF LogInv, IdsKept
<1>3. /\ nextTxnId \in Nat /\ 1 \in Xids
      /\ \A t \in Xids : t \in Nat
  BY SMTT(30), ConstantsAssumption DEF LogInv, IdTypeOK, Xids
<1>4. \A t, type : Record(type, t).txn = t
  BY DEF Record
<1>5. CASE Begin /\ Buffer(<<Record("BEGIN", nextTxnId)>>)
  <2>1. PICK t \in Xids : begin(t)
    BY <1>5 DEF Begin
  <2>2. t = nextTxnId /\ nextTxnId' = nextTxnId + 1 /\ stmt' = stmt
    BY <1>5, <2>1 DEF begin, Begin
  <2>3. Below(<<Record("BEGIN", nextTxnId)>>, nextTxnId')
    BY SMTT(30), <1>3, <1>4, <2>2, ShortLogs
  <2> QED
    BY <1>2, <1>5, <2>1, <2>2, <2>3
<1>6. ASSUME NEW t \in Xids, Commit(t), ForceLog(<<Record("COMMIT", t)>>)
      PROVE  LogInv'
  <2>1. commit(t) /\ t < nextTxnId /\ nextTxnId' = nextTxnId /\ stmt' = stmt
    BY <1>6 DEF Commit, commit, LogInv
  <2>2. Below(<<Record("COMMIT", t)>>, nextTxnId')
    BY <1>3, <1>4, <2>1, ShortLogs
  <2> QED
    BY <1>2, <1>6, <2>1, <2>2
<1>7. ASSUME NEW t \in Xids, Abort(t), Buffer(<<Record("ABORT", t)>>)
      PROVE  LogInv'
  <2>1. abort(t) /\ t < nextTxnId /\ nextTxnId' = nextTxnId /\ stmt' = stmt
    BY <1>7 DEF Abort, abort, LogInv
  <2>2. Below(<<Record("ABORT", t)>>, nextTxnId')
    BY <1>3, <1>4, <2>1, ShortLogs
  <2> QED
    BY <1>2, <1>7, <2>1, <2>2
<1>8. ASSUME NEW t \in Xids, NEW owns \in BOOLEAN, Enter(t, owns), stmt'.txn = t,
             Buffer(OwnBegin(t, owns))
      PROVE  LogInv'
  <2>1. CASE owns
    <3>1. begin(t) /\ OwnBegin(t, owns) = <<Record("BEGIN", t)>>
      BY <1>8, <2>1 DEF Enter, OwnBegin
    <3>2. t = nextTxnId /\ nextTxnId' = nextTxnId + 1
      BY <3>1 DEF begin
    <3>3. Below(<<Record("BEGIN", t)>>, nextTxnId')
      BY SMTT(30), <1>3, <1>4, <3>2, ShortLogs
    <3> QED
      BY SMTT(30), <1>2, <1>3, <1>8, <3>1, <3>2, <3>3
  <2>2. CASE ~owns
    <3>1. state[t] = "active" /\ UNCHANGED txnVars /\ OwnBegin(t, owns) = <<>>
      BY <1>8, <2>2 DEF Enter, OwnBegin
    <3>2. t < nextTxnId /\ nextTxnId' = nextTxnId
      BY <3>1 DEF LogInv, txnVars
    <3>3. Below(<<>>, nextTxnId')
      BY <1>3, <3>2, ShortLogs
    <3> QED
      BY <1>2, <1>8, <3>1, <3>2, <3>3
  <2> QED
    BY <2>1, <2>2
<1>9. CASE (InsertRow \/ UpdateRow \/ DeleteRow) /\ Buffer(RowRecords)
  <2>1. stmt.kind # "idle" /\ (Raise \/ \E rest : Proceed(rest))
    BY <1>9 DEF InsertRow, UpdateRow, DeleteRow, InsertVersion, Conflict
  <2>2. stmt.txn \in Xids /\ stmt.txn < nextTxnId
    BY <2>1 DEF LogInv
  <2>3. (abort(stmt.txn) \/ UNCHANGED txnVars) /\ (stmt' = Idle \/ stmt' = stmt)
    BY <2>1 DEF Raise, Proceed
  <2>4. nextTxnId' = nextTxnId
    BY <2>3 DEF abort, txnVars
  <2>5. Below(RowRecords, nextTxnId')
    BY <1>3, <2>2, <2>4, RowRecordsBelow
  <2> QED
    BY <1>2, <1>9, <2>2, <2>3, <2>5
<1>10. CASE FinishStatement /\ IF stmt.owns THEN ForceLog(<<Record("COMMIT", stmt.txn)>>)
                                            ELSE UNCHANGED logVars
  <2>1. stmt.kind # "idle" /\ stmt' = Idle
    BY <1>10 DEF FinishStatement
  <2>2. stmt.txn \in Xids /\ stmt.txn < nextTxnId
    BY <2>1 DEF LogInv
  <2>3. (commit(stmt.txn) \/ UNCHANGED txnVars) /\ nextTxnId' = nextTxnId
    BY <1>10 DEF FinishStatement, commit, txnVars
  <2>4. Below(<<Record("COMMIT", stmt.txn)>>, nextTxnId')
    BY <1>3, <1>4, <2>2, <2>3, ShortLogs
  <2> QED
    BY <1>2, <1>10, <2>1, <2>2, <2>3, <2>4
<1>11. ASSUME NEW t \in Xids, NEW owns \in BOOLEAN, NEW where, NEW v, NEW vals,
              StartInsert(t, owns, vals) \/ StartDelete(t, owns, where) \/ StartUpdate(t, owns, where, v)
       PROVE  Enter(t, owns) /\ stmt'.txn = t
  BY SMTT(30), <1>11 DEF StartInsert, StartDelete, StartUpdate
<1> QED
  BY <1>1, <1>5, <1>6, <1>7, <1>8, <1>9, <1>10, <1>11 DEF Operate

-----------------------------------------------------------------------------
(* Stops and recovery *)

\* A write-back or a checkpoint logs no id but that of the CHECKPOINT record, 0.
LEMMA StoreSteps ==
  ASSUME LogInv, WriteBack \/ Checkpoint
  PROVE  LogInv'
<1>1. CASE WriteBack
  BY <1>1 DEF WriteBack, vars, txnVars, logVars, LogInv, IdTypeOK
<1>2. CASE Checkpoint
  <2>1. /\ phase = "up" /\ phase' = phase /\ stmt' = stmt /\ UNCHANGED txnVars
        /\ ForceLog(<<Record("CHECKPOINT", 0)>>)
    BY <1>2 DEF Checkpoint, vars
  <2>2. 1 \in Xids /\ nextTxnId' \in Nat \ {0} /\ nextTxnId' = nextTxnId
    BY SMTT(30), <2>1, ConstantsAssumption DEF LogInv, IdTypeOK, Xids, txnVars
  <2>3. IdsKept
    BY <2>1, <2>2, IdsKeptStep
  <2>4. Below(<<Record("CHECKPOINT", 0)>>, nextTxnId')
    <3>1. Record("CHECKPOINT", 0).txn = 0
      BY DEF Record
    <3> QED
      BY SMTT(30), <2>2, <3>1, ShortLogs
  <2>5. Below(wal', nextTxnId') /\ Below(walBuf', nextTxnId') /\ Below(wal', MaxTxn + 1)
    BY <2>1, <2>3, <2>4, LogsKept
  <2> QED
    BY <2>1, <2>2, <2>3, <2>5 DEF LogInv, IdsKept
<1> QED
  BY <1>1, <1>2

\* A stopped process leaves a log file of ids that were given out.
LEMMA StopSteps ==
  ASSUME LogInv, Close \/ Crash
  PROVE  LogInv'
<1>1. nextTxnId \in Nat /\ nextTxnId <= MaxTxn + 1 /\ MaxTxn + 1 \in Nat
  BY SMTT(30), ConstantsAssumption DEF LogInv, IdTypeOK
<1>2. phase # "down" /\ ProcessEnds
  BY DEF Close, Crash
<1>3. Below(wal, nextTxnId) /\ Below(walBuf, nextTxnId)
  BY <1>2 DEF LogInv
<1>4. Below(wal', MaxTxn + 1) /\ walBuf' = <<>>
  <2>1. CASE Close
    <3>1. wal' = wal \o walBuf \o <<>> /\ walBuf' = <<>>
      BY <2>1 DEF Close, ForceLog
    <3>2. Below(wal \o walBuf, nextTxnId)
      BY <1>1, <1>3, BelowLogs
    <3>3. Below(wal \o walBuf \o <<>>, nextTxnId)
      BY <1>1, <3>2, BelowLogs, ShortLogs
    <3> QED
      BY <1>1, <3>1, <3>3, BelowLogs
  <2>2. CASE Crash
    <3>1. PICK n \in 0..Len(walBuf) : wal' = wal \o SubSeq(walBuf, 1, n)
      BY <2>2 DEF Crash
    <3>2. Below(SubSeq(walBuf, 1, n), nextTxnId)
      BY <1>1, <1>3, BelowLogs
    <3>3. Below(wal', nextTxnId)
      BY <1>1, <1>3, <3>1, <3>2, BelowLogs
    <3> QED
      BY <1>1, <2>2, <3>3, BelowLogs DEF Crash
  <2> QED
    BY <2>1, <2>2
<1>5. /\ phase' = "down" /\ nextTxnId' = 1 /\ stmt' = Idle
      /\ state' = [t \in Xids |-> "unused"]
  BY <1>2 DEF ProcessEnds
<1> QED
  BY SMTT(30), <1>4, <1>5, ConstantsAssumption DEF LogInv, IdTypeOK, Idle

\* Database.__init__ takes the next id from the whole log, and replay logs nothing.
LEMMA RecoverySteps ==
  ASSUME MaxIdFacts, LogInv, Open \/ ReplayOp \/ FinishRecovery
  PROVE  LogInv'
<1>1. CASE Open
  <2>1. /\ phase = "down" /\ phase' = "replay" /\ nextTxnId' = NextTxnId(wal)
        /\ stmt' = stmt /\ wal' = wal /\ walBuf' = walBuf
        /\ state' = [t \in Xids |-> IF t >= nextTxnId' THEN "unused"
                                    ELSE IF t \in CommittedTxns(wal) THEN "committed"
                                    ELSE "aborted"]
    BY <1>1 DEF Open, logVars
  <2>2. NextTxnId(wal) \in 1..(MaxTxn + 1) /\ Below(wal, NextTxnId(wal))
    <3>1. MaxTxn + 1 \in Nat \ {0}
      BY SMTT(30), ConstantsAssumption
    <3> QED
      BY <3>1, NextTxnIdAbove DEF LogInv
  <2>3. Below(<<>>, nextTxnId') /\ stmt = Idle /\ walBuf = <<>>
    <3>1. nextTxnId' \in Nat
      BY SMTT(30), <2>1, <2>2, ConstantsAssumption
    <3> QED
      BY <2>1, <3>1, ShortLogs DEF LogInv
  <2>4. /\ state' \in [Xids -> {"unused", "active", "committed", "aborted"}]
        /\ \A t \in Xids : state'[t] # "active"
    BY <2>1
  <2> QED
    BY <2>1, <2>2, <2>3, <2>4 DEF LogInv, IdTypeOK, Idle
<1>2. CASE ReplayOp
  BY <1>2 DEF ReplayOp, txnVars, logVars, LogInv, IdTypeOK
<1>3. CASE FinishRecovery
  BY <1>3 DEF FinishRecovery, vars, txnVars, logVars, LogInv, IdTypeOK
<1> QED
  BY <1>1, <1>2, <1>3

\* The invariant holds in a new database.
LEMMA LogInvInit == DbInit => LogInv
<1> SUFFICES ASSUME DbInit PROVE LogInv
  OBVIOUS
<1>1. Below(<<>>, MaxTxn + 1) /\ Below(<<>>, 1)
  <2>1. MaxTxn + 1 \in Nat /\ 1 \in Nat
    BY SMTT(30), ConstantsAssumption
  <2> QED
    BY <2>1, ShortLogs
<1> QED
  BY SMTT(30), <1>1, ConstantsAssumption DEF DbInit, Init, LogInv, IdTypeOK, Idle

\* Every step keeps it.
LEMMA LogInvStep ==
  ASSUME MaxIdFacts, LogInv, [DbNext]_dbVars
  PROVE  LogInv'
<1>1. CASE UNCHANGED dbVars
  BY <1>1 DEF dbVars, vars, txnVars, logVars, LogInv, IdTypeOK
<1>2. CASE DbNext
  BY <1>2, RunningStep, StoreSteps, StopSteps, RecoverySteps DEF DbNext
<1> QED
  BY <1>1, <1>2

-----------------------------------------------------------------------------
(* The records of a row *)

\* The handlers of a row append exactly these records.
LEMMA RowLogged ==
  ASSUME heap \in Seq(Row), NEW t \in Xids, t = stmt.txn, t \notin abortedXids,
         NEW d, d \subseteq 1..Len(heap), d = {} \/ (\E r : d = {r}),
         NEW n \in {0, 1}, Writes(t, d, n),
         NEW new, new = IF n = 1 /\ IndexKind # "none" /\ stmt' = stmt THEN {NewEntry} ELSE {}
  PROVE  Logged(t, d, n, new, RowRecords)
<1>1. /\ heap' \in Seq(Row) /\ Len(heap) \in Nat /\ DOMAIN heap = 1..Len(heap) /\ Len(heap') = Len(heap) + n
      /\ \A r \in 1..Len(heap) : heap'[r] = IF r \in d THEN WithXmax(heap[r], t) ELSE heap[r]
      /\ \A r \in d : IsVisible(heap[r], SnapshotOf(t))
      /\ n = 1 => heap'[NewRid].xmin = t /\ heap'[NewRid].xmax = INFINITY_TXN
  BY SMTT(30) DEF Writes, Visible, NewRid
<1> DEFINE stamped == {r \in DOMAIN heap : heap'[r] # heap[r]}
<1>2. stamped = d
  <2>1. ASSUME NEW r \in d PROVE heap'[r] # heap[r]
    <3>1. heap[r].xmax # t
      <4>1. IsVisible(heap[r], SnapshotOf(t)) /\ SnapshotOf(t).xid = t
        BY <1>1 DEF SnapshotOf
      <4>2. t # INFINITY_TXN
        BY SMTT(30), ConstantsAssumption DEF Xids, INFINITY_TXN
      <4> QED
        BY <4>1, <4>2 DEF IsVisible
    <3>2. heap'[r].xmax = t
      <4>1. heap'[r] = WithXmax(heap[r], t)
        BY <1>1
      <4> QED
        BY SMTT(30), <4>1 DEF WithXmax
    <3> QED
      BY <3>1, <3>2
  <2> QED
    BY <1>1, <2>1
<1>3. n = 1 => NewRid \in 1..Len(heap') /\ heap'[NewRid] \in Row /\ heap'[NewRid].val \in Values
  <2>1. n = 1 => NewRid \in 1..Len(heap')
    BY SMTT(30), <1>1 DEF NewRid
  <2>2. n = 1 => heap'[NewRid] \in Row
    BY SMTT(30), <1>1, <2>1
  <2> QED
    BY <2>1, <2>2 DEF Row
<1>4. NewRid \in Nat /\ (n = 1 => Len(heap') = NewRid) /\ (n = 0 => Len(heap') = Len(heap)) /\ (Len(heap') = Len(heap) <=> n = 0)
  <2>1. Len(heap) \in Nat /\ Len(heap') = Len(heap) + n
    BY <1>1
  <2> QED
    BY SMTT(30), <2>1 DEF NewRid
<1> DEFINE ins == Operation(t, HeapInsert(heap'[NewRid], NewRid))
           ent == Operation(t, BtreeInsert(NewEntry.key, NewRid))
           abt == Record("ABORT", t)
           stamp == Operation(t, HeapSetXmax(CHOOSE r \in stamped : TRUE, t))
           a == IF stamped = {} THEN <<>> ELSE <<stamp>>
           b == IF n = 0 THEN <<>> ELSE <<ins>>
           c == IF new = {} THEN <<>> ELSE <<ent>>
           e == IF state'[t] = "aborted" THEN <<abt>> ELSE <<>>
<1>5. RowRecords = a \o b \o c \o e
  <2>1. /\ Len(heap') = Len(heap) <=> n = 0
        /\ n = 1 => Len(heap') = NewRid
        /\ n = 0 \/ IndexKind = "none" \/ stmt' # stmt <=> new = {}
        /\ NewEntry.key = heap'[NewRid].val
    <3>1. NewEntry.key = heap'[NewRid].val
      BY DEF NewEntry
    <3>2. Len(heap') = Len(heap) <=> n = 0
      BY <1>4
    <3>3. n = 1 => Len(heap') = NewRid
      BY <1>4
    <3>4. n = 0 \/ IndexKind = "none" \/ stmt' # stmt <=> new = {}
      <4>1. n = 0 \/ n = 1
        OBVIOUS
      <4> QED
        BY SMTT(30), <4>1
    <3> QED
      BY <3>1, <3>2, <3>3, <3>4
  <2>2. /\ b = (IF Len(heap') = Len(heap) THEN <<>> ELSE <<Operation(t, HeapInsert(heap'[Len(heap')], Len(heap')))>>)
        /\ c = (IF Len(heap') = Len(heap) \/ IndexKind = "none" \/ stmt' # stmt THEN <<>>
                  ELSE <<Operation(t, BtreeInsert(heap'[Len(heap')].val, Len(heap')))>>)
    <3>2. b = (IF Len(heap') = Len(heap) THEN <<>> ELSE <<Operation(t, HeapInsert(heap'[Len(heap')], Len(heap')))>>)
      BY <2>1
    <3>3. c = (IF Len(heap') = Len(heap) \/ IndexKind = "none" \/ stmt' # stmt THEN <<>>
                 ELSE <<Operation(t, BtreeInsert(heap'[Len(heap')].val, Len(heap')))>>)
      BY <2>1
    <3> QED
      BY <3>2, <3>3
  <2> HIDE DEF b, c
  <2> QED
    BY SMTT(30), <2>2 DEF RowRecords
<1> HIDE DEF stamped
<1>6. /\ n = 1 => ins \in LogRecord
      /\ n = 1 => ent \in LogRecord
      /\ abt \in LogRecord
      /\ d # {} => stamp \in LogRecord /\ (CHOOSE r \in stamped : TRUE) \in d
  <2>1. d # {} => (CHOOSE r \in stamped : TRUE) \in d /\ (CHOOSE r \in stamped : TRUE) \in Nat
    <3>1. d # {} => (CHOOSE r \in stamped : TRUE) \in d
      BY <1>2
    <3>2. d \subseteq Nat
      BY SMTT(30), <1>1
    <3> QED
      BY <3>1, <3>2
  <2>2. NewEntry.key = heap'[NewRid].val
    BY DEF NewEntry
  <2>3. n = 1 => ins \in LogRecord
    BY <1>1, <1>3, <1>4, RecordsAreTyped
  <2>4. n = 1 => ent \in LogRecord
    BY <1>3, <1>4, <2>2, RecordsAreTyped
  <2>5. d # {} => stamp \in LogRecord
    BY <2>1, RecordsAreTyped
  <2>6. abt \in LogRecord
    BY RecordsAreTyped
  <2> QED
    BY <2>1, <2>3, <2>4, <2>5, <2>6
<1>7. /\ ins.txn = t /\ ins.type = "OP" /\ ins.op = HeapInsert(heap'[NewRid], NewRid)
      /\ ent.txn = t /\ ent.type = "OP" /\ ent.op = BtreeInsert(NewEntry.key, NewRid)
      /\ abt.txn = t /\ abt.type = "ABORT"
      /\ stamp.txn = t /\ stamp.type = "OP" /\ stamp.op = HeapSetXmax(CHOOSE r \in stamped : TRUE, t)
  BY DEF Operation, Record
<1>8. new # {} => n = 1 /\ new = {NewEntry}
  OBVIOUS
<1> HIDE DEF ins, ent, abt, stamp
<1>9. /\ a \in Seq(LogRecord) /\ (\A k \in DOMAIN a : d # {} /\ a[k] = stamp) /\ (d # {} => \E k \in DOMAIN a : a[k] = stamp)
      /\ b \in Seq(LogRecord) /\ (\A k \in DOMAIN b : n = 1 /\ b[k] = ins) /\ (n = 1 => \E k \in DOMAIN b : b[k] = ins)
      /\ c \in Seq(LogRecord) /\ (\A k \in DOMAIN c : new # {} /\ c[k] = ent) /\ (new # {} => \E k \in DOMAIN c : c[k] = ent)
      /\ e \in Seq(LogRecord) /\ (\A k \in DOMAIN e : e[k] = abt)
  <2>1. a \in Seq(LogRecord) /\ (\A k \in DOMAIN a : d # {} /\ a[k] = stamp) /\ (d # {} => \E k \in DOMAIN a : a[k] = stamp)
    BY <1>2, <1>6, AtMostOne
  <2>2. b \in Seq(LogRecord) /\ (\A k \in DOMAIN b : n = 1 /\ b[k] = ins) /\ (n = 1 => \E k \in DOMAIN b : b[k] = ins)
    BY SMTT(30), <1>6, AtMostOne
  <2>3. c \in Seq(LogRecord) /\ (\A k \in DOMAIN c : new # {} /\ c[k] = ent) /\ (new # {} => \E k \in DOMAIN c : c[k] = ent)
    BY <1>6, <1>8, AtMostOne
  <2>4. e \in Seq(LogRecord) /\ (\A k \in DOMAIN e : e[k] = abt)
    BY <1>6, AtMostOne
  <2> QED
    BY <2>1, <2>2, <2>3, <2>4
<1> HIDE DEF a, b, c, e
<1> DEFINE ab == a \o b
           abc == ab \o c
           all == abc \o e
<1>10. /\ ab \in Seq(LogRecord)
       /\ \A k \in DOMAIN ab : (d # {} /\ ab[k] = stamp) \/ (n = 1 /\ ab[k] = ins)
       /\ d # {} => \E k \in DOMAIN ab : ab[k] = stamp
       /\ n = 1 => \E k \in DOMAIN ab : ab[k] = ins
  <2>1. /\ ab \in Seq(LogRecord)
        /\ \A k \in DOMAIN ab : \/ k \in DOMAIN a /\ ab[k] = a[k]
                                \/ k > Len(a) /\ \E j \in DOMAIN b : ab[k] = b[j]
        /\ \A k \in DOMAIN a : k \in DOMAIN ab /\ ab[k] = a[k] /\ k <= Len(a)
        /\ \A j \in DOMAIN b : \E k \in DOMAIN ab : ab[k] = b[j]
    BY <1>9, Joined
  <2> HIDE DEF ab
  <2> QED
    BY <1>9, <2>1
<1> HIDE DEF ab
<1>11. /\ abc \in Seq(LogRecord)
       /\ \A k \in DOMAIN abc : \/ d # {} /\ abc[k] = stamp
                                \/ n = 1 /\ abc[k] = ins
                                \/ new # {} /\ abc[k] = ent /\ k > Len(ab)
       /\ d # {} => \E k \in DOMAIN abc : abc[k] = stamp
       /\ n = 1 => \E k \in DOMAIN abc : abc[k] = ins /\ k <= Len(ab) /\ k \in Nat
       /\ new # {} => \E k \in DOMAIN abc : abc[k] = ent
       /\ Len(ab) \in Nat /\ DOMAIN abc \subseteq Nat
  <2>1. /\ abc \in Seq(LogRecord)
        /\ \A k \in DOMAIN abc :
              \/ k \in DOMAIN ab /\ abc[k] = ab[k]
              \/ k > Len(ab) /\ \E j \in DOMAIN c : abc[k] = c[j]
        /\ \A k \in DOMAIN ab : k \in DOMAIN abc /\ abc[k] = ab[k] /\ k <= Len(ab)
        /\ \A j \in DOMAIN c : \E k \in DOMAIN abc : abc[k] = c[j]
    BY <1>9, <1>10, Joined
  <2>2. Len(ab) \in Nat /\ DOMAIN abc \subseteq Nat /\ DOMAIN ab \subseteq Nat
    BY SMTT(30), <1>10, <2>1
  <2> HIDE DEF abc
  <2> QED
    BY <1>9, <1>10, <2>1, <2>2
<1> HIDE DEF abc
<1>12. /\ all \in Seq(LogRecord)
       /\ \A k \in DOMAIN all :
             \/ k \in DOMAIN abc /\ all[k] = abc[k]
             \/ k > Len(abc) /\ \E j \in DOMAIN e : all[k] = e[j]
       /\ \A k \in DOMAIN abc : k \in DOMAIN all /\ all[k] = abc[k] /\ k <= Len(abc)
  BY <1>9, <1>11, Joined
<1>13. RowRecords = all
  BY <1>5 DEF ab, abc
<1> HIDE DEF all
<1>14. /\ all \in Seq(LogRecord) /\ DOMAIN all \subseteq Nat
       /\ \A k \in DOMAIN all : \/ d # {} /\ all[k] = stamp
                                \/ n = 1 /\ all[k] = ins
                                \/ new # {} /\ all[k] = ent /\ k > Len(ab)
                                \/ all[k] = abt
       /\ d # {} => \E k \in DOMAIN all : all[k] = stamp
       /\ n = 1 => \E k \in DOMAIN all : all[k] = ins /\ k <= Len(ab) /\ k \in Nat
       /\ new # {} => \E k \in DOMAIN all : all[k] = ent
  <2>1. DOMAIN all \subseteq Nat
    BY SMTT(30), <1>12
  <2> QED
    BY <1>9, <1>11, <1>12, <2>1
<1>15. \A k \in DOMAIN all : all[k].txn = t /\ all[k].type \in {"OP", "ABORT"}
  BY <1>7, <1>14
<1>16. d = {} \/ d = {CHOOSE r \in stamped : TRUE}
  BY <1>2
<1>17. ASSUME NEW k \in DOMAIN all, all[k].type = "OP"
       PROVE  \/ \E r \in d : all[k].op = HeapSetXmax(r, t)
              \/ n = 1 /\ all[k].op = HeapInsert(heap'[NewRid], NewRid)
              \/ /\ n = 1 /\ new = {NewEntry} /\ all[k].op = BtreeInsert(NewEntry.key, NewRid)
                 /\ \E j \in DOMAIN all : /\ j < k /\ all[j].type = "OP"
                                          /\ all[j].op = HeapInsert(heap'[NewRid], NewRid)
  <2>1. CASE d # {} /\ all[k] = stamp
    BY <1>7, <1>16, <2>1
  <2>2. CASE n = 1 /\ all[k] = ins
    BY <1>7, <2>2
  <2>3. CASE new # {} /\ all[k] = ent /\ k > Len(ab)
    <3>1. PICK j \in DOMAIN all : all[j] = ins /\ j <= Len(ab) /\ j \in Nat
      BY <1>8, <1>14, <2>3
    <3>2. j < k
      BY SMTT(30), <1>11, <1>14, <2>3, <3>1
    <3> QED
      BY <1>7, <1>8, <2>3, <3>1, <3>2
  <2>4. all[k] # abt
    BY <1>7, <1>17
  <2> QED
    BY <1>14, <2>1, <2>2, <2>3, <2>4
<1>18. \A r \in d : \E k \in DOMAIN all : all[k].type = "OP" /\ all[k].op = HeapSetXmax(r, t)
  BY <1>7, <1>14, <1>16
<1>19. n = 1 => \E k \in DOMAIN all : all[k].type = "OP" /\ all[k].op = HeapInsert(heap'[NewRid], NewRid)
  BY <1>7, <1>14
<1>20. new # {} => \E k \in DOMAIN all : all[k].type = "OP" /\ all[k].op = BtreeInsert(NewEntry.key, NewRid)
  BY <1>7, <1>14
<1> QED
  BY SMTT(30), <1>13, <1>14, <1>15, <1>17, <1>18, <1>19, <1>20 DEF Logged

-----------------------------------------------------------------------------
(* The base invariant: a running database *)

\* execute() begins the transaction it owns, and ends it with the first error.
LEMMA OwnerStep ==
  ASSUME TypeOK, OwnerInv, \A t \in failed : t < nextTxnId, Next
  PROVE  OwnerInv'
<1>1. ASSUME stmt' = Idle
      PROVE  OwnerInv'
  BY <1>1 DEF OwnerInv, Idle
<1>2. ASSUME stmt' = stmt, failed' = failed
      PROVE  OwnerInv'
  BY <1>2 DEF OwnerInv
<1>3. ASSUME NEW t \in Xids, NEW owns \in BOOLEAN, Enter(t, owns), stmt'.txn = t, stmt'.owns = owns
      PROVE  OwnerInv'
  <2>1. CASE owns
    <3>1. t = nextTxnId /\ failed' = failed
      BY <1>3, <2>1 DEF Enter, begin
    <3>2. t \notin failed
      BY SMTT(30), <3>1, ConstantsAssumption DEF TypeOK
    <3> QED
      BY <1>3, <3>1, <3>2 DEF OwnerInv
  <2>2. CASE ~owns
    BY <1>3, <2>2 DEF OwnerInv
  <2> QED
    BY <2>1, <2>2
<1>4. ASSUME NEW rest, Raise \/ Proceed(rest)
      PROVE  OwnerInv'
  BY <1>1, <1>2, <1>4 DEF Raise, Proceed
<1>5. CASE InsertRow \/ UpdateRow \/ DeleteRow
  BY <1>4, <1>5 DEF InsertRow, UpdateRow, DeleteRow, InsertVersion, Conflict
<1>6. CASE FinishStatement
  BY <1>1, <1>6 DEF FinishStatement
<1>7. CASE Begin \/ \E t \in Xids : Commit(t) \/ Abort(t)
  BY <1>2, <1>7 DEF Begin, Commit, Abort
<1>8. ASSUME NEW t \in Xids, NEW owns \in BOOLEAN, NEW where, NEW v, NEW vals,
             StartInsert(t, owns, vals) \/ StartDelete(t, owns, where) \/ StartUpdate(t, owns, where, v)
      PROVE  OwnerInv'
  BY SMTT(30), <1>3, <1>8 DEF StartInsert, StartDelete, StartUpdate
<1> QED
  BY <1>5, <1>6, <1>7, <1>8 DEF Next

\* A running database keeps the base invariant.
LEMMA RunningBase ==
  ASSUME BaseInv, Running, Forms, Next, TypeOK', StatementInv', LogInv'
  PROVE  BaseInv'
<1>1. /\ phase = "up" /\ phase' = "up" /\ Operate
      /\ UNCHANGED <<diskHeap, diskIndex, replay, ckpt>>
  BY DEF Running, diskVars
<1>2. /\ TypeOK /\ StatementInv /\ OwnerInv /\ wal \in Seq(LogRecord) /\ walBuf \in Seq(LogRecord)
      /\ \A t \in abortedXids : state[t] # "active"
      /\ \A t \in failed : t < nextTxnId
  BY <1>1 DEF BaseInv, StoreTypeOK, ManagerInv
<1>3. OwnerInv'
  BY <1>2, OwnerStep
<1>4. /\ wal' \in Seq(LogRecord) /\ walBuf' \in Seq(LogRecord)
      /\ ManagerInv' /\ BufferInv' /\ SinceInv' /\ OlderInv' /\ FailedInv'
  <2>1. CASE \E t \in Xids : BeginStep(t)
    BY <1>1, <2>1, BeginBase
  <2>2. CASE \E t \in Xids : CommitStep(t)
    BY <1>1, <2>2, CommitBase
  <2>3. CASE \E t \in Xids, d \in SUBSET (1..Len(heap)), n \in {0, 1} : \E new, more : WriteStep(t, d, n, new, more)
    BY <1>1, <2>3, WriteBase
  <2>4. CASE QuietStep
    <3>1. UNCHANGED <<nextTxnId, activeXids, abortedXids, state, snapshot, failed, wal, walBuf>>
      BY <2>4 DEF QuietStep, txnVars
    <3>2. wal' \in Seq(LogRecord) /\ walBuf' \in Seq(LogRecord)
      BY <1>2, <3>1
    <3>3. CommittedTxns(wal)' = CommittedTxns(wal)
      BY <3>1 DEF CommittedTxns, TxnsWith
    <3>4. ManagerInv'
      BY <1>1, <3>1, <3>3 DEF BaseInv, ManagerInv
    <3>5. BufferInv'
      BY <3>1, <3>3 DEF BaseInv, BufferInv
    <3>6. SinceInv'
      BY SMTT(30), <3>1, <3>3 DEF BaseInv, SinceInv, Begun, Log, TxnsWith, SinceLastCheckpoint
    <3>7. OlderInv' /\ FailedInv'
      BY <3>1, <3>3 DEF BaseInv, OlderInv, FailedInv
    <3> QED
      BY <3>2, <3>4, <3>5, <3>6, <3>7
  <2> QED
    BY <2>1, <2>2, <2>3, <2>4 DEF Forms
<1>5. StoreTypeOK'
  BY <1>1, <1>4 DEF BaseInv, StoreTypeOK
<1>6. PhaseInv'
  BY <1>1 DEF BaseInv, PhaseInv
<1>7. DiskInv'
  <2>1. CASE heap' = heap
    BY <1>1, <2>1 DEF BaseInv, DiskInv
  <2>2. ASSUME NEW t, NEW d, NEW n \in {0, 1}, Writes(t, d, n)
        PROVE  DiskInv'
    <3>1. /\ Len(heap) \in Nat /\ Len(heap') = Len(heap) + n /\ Len(diskHeap) \in Nat
          /\ \A r \in 1..Len(heap) : heap'[r] = IF r \in d THEN WithXmax(heap[r], t) ELSE heap[r]
      <4>1. heap \in Seq(Row) /\ diskHeap \in Seq(Row)
        BY DEF BaseInv, StoreTypeOK, TypeOK
      <4>2. Len(heap) \in Nat /\ Len(diskHeap) \in Nat
        BY SMTT(30), <4>1
      <4> QED
        BY <2>2, <4>2 DEF Writes
    <3>2. ASSUME NEW r \in 1..Len(heap) PROVE heap'[r].xmin = heap[r].xmin
      <4>1. heap'[r] = IF r \in d THEN WithXmax(heap[r], t) ELSE heap[r]
        BY <3>1
      <4> QED
        BY SMTT(30), <4>1 DEF WithXmax
    <3>3. Len(diskHeap) <= Len(heap) /\ \A r \in 1..Len(diskHeap) : diskHeap[r].xmin = heap[r].xmin
      BY DEF BaseInv, DiskInv
    <3>4. Len(diskHeap) <= Len(heap') /\ 1..Len(diskHeap) \subseteq 1..Len(heap)
      BY SMTT(30), <3>1, <3>3
    <3>5. \A r \in 1..Len(diskHeap) : diskHeap[r].xmin = heap'[r].xmin
      BY <3>2, <3>3, <3>4
    <3> QED
      BY <1>1, <3>4, <3>5 DEF DiskInv
  <2> QED
    BY <2>1, <2>2 DEF Forms, BeginStep, CommitStep, WriteStep, QuietStep
<1> QED
  BY <1>3, <1>4, <1>5, <1>6, <1>7 DEF BaseInv

-----------------------------------------------------------------------------
(* The base invariant: write-backs, checkpoints, stops and recovery *)

\* A write-back changes nothing but the data file.
LEMMA WriteBackBase ==
  ASSUME BaseInv, WriteBack, LogInv'
  PROVE  BaseInv'
<1>1. /\ phase # "down" /\ phase' = phase
      /\ (diskHeap' = heap /\ diskIndex' = diskIndex) \/ (diskIndex' = index /\ diskHeap' = diskHeap)
      /\ UNCHANGED <<vars, wal, walBuf, replay, ckpt>>
  BY DEF WriteBack, logVars
<1>2. UNCHANGED <<nextTxnId, activeXids, abortedXids, state, snapshot, heap, index, stmt, todo, failed>>
  BY <1>1 DEF vars, txnVars, dataVars
<1>3. TypeOK' /\ StatementInv'
  BY <1>2 DEF BaseInv, StoreTypeOK, TypeOK, StatementInv, Visible, IsVisible, CommittedBefore, SnapshotOf
<1>4. StoreTypeOK'
  BY <1>1, <1>2, <1>3 DEF BaseInv, StoreTypeOK, TypeOK
<1>5. CommittedTxns(wal)' = CommittedTxns(wal) /\ CommittedOperations(wal)' = CommittedOperations(wal)
  BY <1>1 DEF CommittedTxns, TxnsWith, CommittedOperations, SinceLastCheckpoint
<1>6. PhaseInv'
  BY <1>1, <1>2, <1>5 DEF BaseInv, PhaseInv
<1>7. ManagerInv'
  BY <1>1, <1>2, <1>5 DEF BaseInv, ManagerInv
<1>8. BufferInv'
  BY <1>1, <1>5 DEF BaseInv, BufferInv
<1>9. SinceInv'
  BY SMTT(30), <1>1, <1>2, <1>5 DEF BaseInv, SinceInv, Begun, Log, TxnsWith, SinceLastCheckpoint
<1>10. OlderInv' /\ FailedInv' /\ OwnerInv'
  BY <1>1, <1>2, <1>5 DEF BaseInv, OlderInv, FailedInv, OwnerInv
<1>11. DiskInv'
  <2>1. Len(heap) \in Nat
    BY SMTT(30) DEF BaseInv, StoreTypeOK, TypeOK
  <2> QED
    BY SMTT(30), <1>1, <1>2, <2>1 DEF BaseInv, DiskInv
<1> QED
  BY <1>3, <1>4, <1>6, <1>7, <1>8, <1>9, <1>10, <1>11 DEF BaseInv

\* With no transaction active it writes every page.
LEMMA CheckpointBase ==
  ASSUME BaseInv, Checkpoint, LogInv'
  PROVE  BaseInv'
<1>1. /\ phase = "up" /\ phase' = "up" /\ stmt = Idle /\ activeXids = {}
      /\ diskHeap' = heap /\ diskIndex' = index /\ ckpt' = [heap |-> heap, index |-> index]
      /\ UNCHANGED <<vars, replay>>
  BY DEF Checkpoint, FlushAll
<1>2. UNCHANGED <<nextTxnId, activeXids, abortedXids, state, snapshot, heap, index, stmt, todo, failed>>
  BY <1>1 DEF vars, txnVars, dataVars
<1>3. TypeOK /\ BufferInv
  BY DEF BaseInv, StoreTypeOK
<1>4. /\ wal' \in Seq(LogRecord) /\ walBuf' = <<>> /\ walBuf' \in Seq(LogRecord)
      /\ SinceLastCheckpoint(Log)' = {} /\ SinceLastCheckpoint(wal)' = {}
      /\ CommittedTxns(wal)' = CommittedTxns(wal)
  BY SMTT(30), CheckpointLog
<1>5. TypeOK' /\ StatementInv'
  BY <1>1, <1>2, <1>3 DEF TypeOK, StatementInv, Idle
<1>6. StoreTypeOK'
  BY <1>1, <1>3, <1>4, <1>5 DEF StoreTypeOK, TypeOK
<1>7. PhaseInv'
  BY <1>1, <1>2 DEF BaseInv, PhaseInv
<1>8. ManagerInv'
  BY <1>1, <1>2, <1>4 DEF BaseInv, ManagerInv
<1>9. BufferInv'
  BY SMTT(30), <1>4 DEF BufferInv
<1>10. SinceInv'
  BY <1>1, <1>2, <1>4 DEF SinceInv
<1>11. OlderInv' /\ FailedInv' /\ OwnerInv'
  BY <1>1, <1>2, <1>4 DEF BaseInv, OlderInv, FailedInv, OwnerInv
<1>12. DiskInv'
  <2>1. Len(heap) \in Nat
    BY SMTT(30), <1>3 DEF TypeOK
  <2> QED
    BY SMTT(30), <1>1, <1>2, <2>1 DEF DiskInv
<1> QED
  BY <1>5, <1>6, <1>7, <1>8, <1>9, <1>10, <1>11, <1>12 DEF BaseInv

\* A stop leaves what the two files hold.
LEMMA StopBase ==
  ASSUME BaseInv, Close \/ Crash, LogInv'
  PROVE  BaseInv'
<1>1. ProcessEnds /\ phase # "down"
  BY DEF Close, Crash
<1>2. /\ phase' = "down" /\ nextTxnId' = 1 /\ activeXids' = {} /\ abortedXids' = {}
      /\ state' = [t \in Xids |-> "unused"] /\ snapshot' = [t \in Xids |-> {}]
      /\ heap' = diskHeap' /\ index' = diskIndex' /\ stmt' = Idle /\ todo' = {} /\ failed' = {}
      /\ replay' = {} /\ ckpt' = ckpt
  BY <1>1 DEF ProcessEnds
<1>3. /\ wal \in Seq(LogRecord) /\ walBuf \in Seq(LogRecord) /\ TypeOK
      /\ diskHeap \in Seq(Row) /\ diskIndex \in SUBSET Entry
      /\ ckpt.heap \in Seq(Row) /\ ckpt.index \in SUBSET Entry
      /\ BufferInv /\ SinceInv
  BY DEF BaseInv, StoreTypeOK
<1>4. /\ wal' \in Seq(LogRecord) /\ walBuf' = <<>> /\ BufferInv' /\ SinceInv'
  BY <1>2, <1>3, LogStops
<1>5. diskHeap' \in Seq(Row) /\ diskIndex' \in SUBSET Entry
  BY <1>3 DEF Close, Crash, FlushAll, TypeOK, diskVars
<1>6. TypeOK'
  BY SMTT(30), <1>2, <1>5, ConstantsAssumption DEF TypeOK, Statement, Idle
<1>7. StoreTypeOK'
  BY SMTT(30), <1>2, <1>3, <1>4, <1>5, <1>6 DEF StoreTypeOK
<1>8. PhaseInv' /\ ManagerInv'
  BY <1>2, <1>4 DEF PhaseInv, ManagerInv
<1>9. OlderInv' /\ FailedInv'
  BY <1>2 DEF OlderInv, FailedInv
<1>10. OwnerInv' /\ StatementInv'
  BY <1>2 DEF OwnerInv, StatementInv, Idle
<1>11. DiskInv'
  <2>1. Len(heap') \in Nat
    BY SMTT(30), <1>2, <1>5
  <2> QED
    BY SMTT(30), <1>2, <2>1 DEF DiskInv
<1> QED
  BY <1>4, <1>7, <1>8, <1>9, <1>10, <1>11 DEF BaseInv

\* Database.__init__ takes from the log file who has committed.
LEMMA OpenBase ==
  ASSUME BaseInv, Open, LogInv'
  PROVE  BaseInv' /\ CommittedTxns(wal)' = CommittedTxns(wal) /\ CommittedOperations(wal)' = CommittedOperations(wal)
<1>1. /\ phase = "down" /\ phase' = "replay" /\ nextTxnId' = NextTxnId(wal)
      /\ abortedXids' = UncommittedTxns(wal)
      /\ state' = [t \in Xids |-> IF t >= nextTxnId' THEN "unused"
                                  ELSE IF t \in CommittedTxns(wal) THEN "committed" ELSE "aborted"]
      /\ replay' = CommittedOperations(wal)
      /\ UNCHANGED <<activeXids, snapshot, heap, index, stmt, todo, failed, wal, walBuf, diskHeap, diskIndex, ckpt>>
  BY DEF Open, dataVars, logVars, diskVars
<1>2. /\ stmt = Idle /\ walBuf = <<>> /\ activeXids = {} /\ failed = {} /\ todo = {}
      /\ heap = diskHeap /\ index = diskIndex
  BY <1>1 DEF BaseInv, PhaseInv
<1>3. TypeOK /\ wal \in Seq(LogRecord)
  BY DEF BaseInv, StoreTypeOK
<1>4. /\ nextTxnId' \in 1..(MaxTxn + 1) /\ Below(wal, nextTxnId')
  BY <1>1 DEF LogInv, IdTypeOK
<1>5. \A i \in DOMAIN wal : wal[i].txn < nextTxnId'
  BY SMTT(30), <1>4 DEF Below
<1>6. \A i \in DOMAIN wal : wal[i].type # "CHECKPOINT" => wal[i].txn \in Xids
  <2>1. \A i \in DOMAIN wal : wal[i] \in LogRecord
    BY SMTT(30), <1>3
  <2> QED
    BY <2>1, RecordFields
<1>7. /\ CommittedTxns(wal)' = CommittedTxns(wal) /\ CommittedOperations(wal)' = CommittedOperations(wal)
  BY <1>1 DEF CommittedTxns, TxnsWith, CommittedOperations, SinceLastCheckpoint
<1>8. \A t \in CommittedTxns(wal) : t < nextTxnId'
  BY <1>5 DEF CommittedTxns, TxnsWith
<1>9. \A t \in UncommittedTxns(wal) : t \in Xids /\ t < nextTxnId' /\ t \notin CommittedTxns(wal)
  <2> SUFFICES ASSUME NEW t \in UncommittedTxns(wal)
               PROVE  t \in Xids /\ t < nextTxnId' /\ t \notin CommittedTxns(wal)
    OBVIOUS
  <2>1. PICK i \in SinceLastCheckpoint(wal) : wal[i].type = "BEGIN" /\ t = wal[i].txn
    BY DEF UncommittedTxns, TxnsWith
  <2>2. i \in DOMAIN wal
    BY <2>1 DEF SinceLastCheckpoint
  <2>3. t \in Xids /\ t < nextTxnId'
    BY <1>5, <1>6, <2>1, <2>2
  <2>4. t \notin TxnsWith(wal, SinceLastCheckpoint(wal), "COMMIT")
    BY DEF UncommittedTxns
  <2>5. i \in SinceLastCheckpoint(Log) /\ Log[i] = wal[i]
    BY <1>3, <2>1, <2>2, LogView DEF BaseInv, StoreTypeOK
  <2> QED
    BY <2>1, <2>3, <2>4, <2>5 DEF BaseInv, SinceInv
<1>10. ManagerInv'
  <2>1. \A t \in Xids : state'[t] = "unused" <=> t >= nextTxnId'
    BY <1>1
  <2>2. \A t \in Xids : state'[t] = "committed" <=> t \in CommittedTxns(wal)
    <3>1. \A t \in Xids : t < nextTxnId' <=> ~(t >= nextTxnId')
      BY SMTT(30), <1>4, ConstantsAssumption DEF Xids
    <3> QED
      BY <1>1, <1>8, <3>1
  <2>3. activeXids' = {t \in Xids : state'[t] = "active"}
    BY <1>1, <1>2
  <2>4. \A t \in abortedXids' : state'[t] = "aborted"
    <3>1. \A t \in Xids : t < nextTxnId' => ~(t >= nextTxnId')
      BY SMTT(30), <1>4, ConstantsAssumption DEF Xids
    <3> QED
      BY <1>1, <1>9, <3>1
  <2> QED
    BY <1>1, <1>2, <1>7, <2>1, <2>2, <2>3, <2>4 DEF ManagerInv
<1>11. TypeOK'
  <2>1. abortedXids' \in SUBSET Xids
    BY <1>1, <1>9
  <2>2. state' \in [Xids -> {"unused", "active", "committed", "aborted"}]
    BY <1>1
  <2> QED
    BY <1>1, <1>3, <1>4, <2>1, <2>2 DEF TypeOK
<1>12. StoreTypeOK'
  BY <1>1, <1>11 DEF BaseInv, StoreTypeOK
<1>13. PhaseInv'
  BY <1>1, <1>2, <1>7 DEF PhaseInv
<1>14. BufferInv'
  BY SMTT(30), <1>1, <1>2 DEF BufferInv
<1>15. SinceInv'
  BY SMTT(30), <1>1, <1>7 DEF BaseInv, SinceInv, Begun, Log, TxnsWith, SinceLastCheckpoint
<1>16. OlderInv' /\ FailedInv'
  BY <1>1, <1>2 DEF OlderInv, FailedInv
<1>17. OwnerInv' /\ StatementInv'
  BY <1>1, <1>2 DEF OwnerInv, StatementInv, Idle
<1>18. DiskInv'
  BY <1>1 DEF BaseInv, DiskInv
<1> QED
  BY <1>7, <1>10, <1>12, <1>13, <1>14, <1>15, <1>16, <1>17, <1>18 DEF BaseInv

\* Replay and its end change neither the log nor the manager.
LEMMA ReplayBase ==
  ASSUME BaseInv, ReplayOp \/ FinishRecovery, LogInv'
  PROVE  BaseInv'
<1>1. /\ phase = "replay" /\ phase' \in {"replay", "up"}
      /\ UNCHANGED <<txnVars, stmt, todo, failed, wal, walBuf, ckpt>>
      /\ phase' = "up" => replay' = {}
      /\ replay' \subseteq replay
  BY DEF ReplayOp, FinishRecovery, vars, logVars, historyVars
<1>2. UNCHANGED <<nextTxnId, activeXids, abortedXids, state, snapshot, stmt, todo, failed, wal, walBuf, ckpt>>
  BY <1>1 DEF txnVars
<1>3. /\ TypeOK /\ wal \in Seq(LogRecord) /\ diskHeap \in Seq(Row) /\ diskIndex \in SUBSET Entry
      /\ stmt = Idle /\ walBuf = <<>> /\ activeXids = {} /\ failed = {} /\ todo = {}
      /\ replay \subseteq CommittedOperations(wal) /\ DiskInv
  BY <1>1 DEF BaseInv, StoreTypeOK, PhaseInv
<1>4. /\ CommittedTxns(wal)' = CommittedTxns(wal) /\ CommittedOperations(wal)' = CommittedOperations(wal)
  BY <1>2 DEF CommittedTxns, TxnsWith, CommittedOperations, SinceLastCheckpoint
<1>5. heap' \in Seq(Row) /\ index' \in SUBSET Entry /\ diskHeap' \in Seq(Row) /\ diskIndex' \in SUBSET Entry /\ DiskInv'
  <2>1. CASE ReplayOp
    <3>1. PICK i \in replay : ApplyRecoveryOp(wal[i].op)
      BY <2>1 DEF ReplayOp
    <3>2. wal[i].type = "OP" /\ wal[i] \in LogRecord
      <4>1. i \in CommittedOperations(wal) /\ wal \in Seq(LogRecord)
        BY <1>3, <3>1
      <4>2. i \in DOMAIN wal /\ wal[i].type = "OP"
        BY <4>1 DEF CommittedOperations, SinceLastCheckpoint
      <4> QED
        BY SMTT(30), <4>1, <4>2
    <3>3. heap \in Seq(Row) /\ index \in SUBSET Entry /\ diskHeap' = diskHeap /\ diskIndex' = diskIndex
      BY <1>3, <2>1 DEF TypeOK, ReplayOp, diskVars
    <3>4. /\ heap' \in Seq(Row) /\ index' \in SUBSET Entry
          /\ Len(heap') \in Nat /\ Len(heap) <= Len(heap')
          /\ \A r \in 1..Len(heap) : heap'[r].xmin = heap[r].xmin
      BY <3>1, <3>2, <3>3, ReplayShape
    <3>5. /\ Len(diskHeap) <= Len(heap) /\ \A r \in 1..Len(diskHeap) : diskHeap[r].xmin = heap[r].xmin
      BY <1>3 DEF DiskInv
    <3>6. Len(diskHeap) <= Len(heap') /\ 1..Len(diskHeap) \subseteq 1..Len(heap)
      <4>1. Len(diskHeap) \in Nat /\ Len(heap) \in Nat
        BY SMTT(30), <1>3, <3>3
      <4> QED
        BY SMTT(30), <3>4, <3>5, <4>1
    <3>7. \A r \in 1..Len(diskHeap) : diskHeap[r].xmin = heap'[r].xmin
      BY <3>4, <3>5, <3>6
    <3> QED
      BY <1>3, <3>3, <3>4, <3>6, <3>7 DEF DiskInv
  <2>2. CASE FinishRecovery
    <3>1. diskHeap' = heap /\ diskIndex' = index /\ heap' = heap /\ index' = index
      BY <2>2 DEF FinishRecovery, FlushAll, vars, dataVars
    <3>2. heap \in Seq(Row) /\ index \in SUBSET Entry /\ Len(heap) \in Nat
      BY SMTT(30), <1>3 DEF TypeOK
    <3> QED
      BY SMTT(30), <3>1, <3>2 DEF DiskInv
  <2> QED
    BY <2>1, <2>2
<1>6. TypeOK'
  BY <1>2, <1>3, <1>5 DEF TypeOK
<1>7. StoreTypeOK'
  BY <1>2, <1>5, <1>6 DEF BaseInv, StoreTypeOK
<1>8. PhaseInv'
  BY <1>1, <1>2, <1>3, <1>4 DEF PhaseInv
<1>9. ManagerInv'
  BY <1>1, <1>2, <1>4 DEF BaseInv, ManagerInv
<1>10. BufferInv'
  BY SMTT(30), <1>2, <1>3 DEF BufferInv
<1>11. SinceInv'
  BY SMTT(30), <1>2, <1>4 DEF BaseInv, SinceInv, Begun, Log, TxnsWith, SinceLastCheckpoint
<1>12. OlderInv' /\ FailedInv'
  BY <1>2, <1>3 DEF OlderInv, FailedInv
<1>13. OwnerInv' /\ StatementInv'
  BY <1>2, <1>3 DEF OwnerInv, StatementInv, Idle
<1> QED
  BY <1>5, <1>7, <1>8, <1>9, <1>10, <1>11, <1>12, <1>13 DEF BaseInv

\* A new database meets the base invariant.
LEMMA BaseInit ==
  ASSUME DbInit, TypeOK, LogInv
  PROVE  BaseInv
<1>1. /\ Init /\ phase = "up" /\ wal = <<>> /\ walBuf = <<>> /\ diskHeap = <<>> /\ diskIndex = {}
      /\ replay = {} /\ ckpt = [heap |-> <<>>, index |-> {}]
  BY DEF DbInit
<1>2. StoreTypeOK
  BY SMTT(30), <1>1 DEF StoreTypeOK
<1>3. /\ nextTxnId = 1 /\ activeXids = {} /\ abortedXids = {} /\ state = [t \in Xids |-> "unused"]
      /\ heap = <<>> /\ index = {} /\ stmt = Idle /\ todo = {} /\ failed = {}
  BY <1>1 DEF Init
<1>4. CommittedTxns(wal) = {}
  BY SMTT(30), <1>1 DEF CommittedTxns, TxnsWith
<1>5. PhaseInv
  BY <1>1, <1>3 DEF PhaseInv
<1>6. ManagerInv
  BY SMTT(30), <1>3, <1>4, ConstantsAssumption DEF ManagerInv, Xids
<1>7. BufferInv
  BY SMTT(30), <1>1 DEF BufferInv
<1>8. SinceInv
  <2>1. SinceLastCheckpoint(Log) = {}
    BY SMTT(30), <1>1 DEF Log, SinceLastCheckpoint
  <2> QED
    BY <1>3, <2>1 DEF SinceInv
<1>9. OlderInv /\ FailedInv
  BY <1>3 DEF OlderInv, FailedInv
<1>10. OwnerInv /\ StatementInv
  BY <1>3 DEF OwnerInv, StatementInv, Idle
<1>11. DiskInv
  BY SMTT(30), <1>1, <1>3 DEF DiskInv
<1> QED
  BY <1>2, <1>5, <1>6, <1>7, <1>8, <1>9, <1>10, <1>11 DEF BaseInv

\* A step that changes nothing keeps it.
LEMMA BaseStutter ==
  ASSUME BaseInv, UNCHANGED dbVars, LogInv'
  PROVE  BaseInv'
<1>1. UNCHANGED <<nextTxnId, activeXids, abortedXids, state, snapshot, heap, index, stmt, todo, failed,
                  phase, wal, walBuf, diskHeap, diskIndex, replay, ckpt>>
  BY DEF dbVars, vars, txnVars, dataVars, logVars, diskVars, historyVars
<1>2. StoreTypeOK' /\ StatementInv'
  BY <1>1 DEF BaseInv, StoreTypeOK, TypeOK, StatementInv, Visible, IsVisible, CommittedBefore, SnapshotOf
<1>3. CommittedTxns(wal)' = CommittedTxns(wal) /\ CommittedOperations(wal)' = CommittedOperations(wal)
  BY <1>1 DEF CommittedTxns, TxnsWith, CommittedOperations, SinceLastCheckpoint
<1>4. PhaseInv'
  BY <1>1, <1>3 DEF BaseInv, PhaseInv
<1>5. ManagerInv'
  BY <1>1, <1>3 DEF BaseInv, ManagerInv
<1>6. BufferInv'
  BY <1>1, <1>3 DEF BaseInv, BufferInv
<1>7. SinceInv'
  BY SMTT(30), <1>1, <1>3 DEF BaseInv, SinceInv, Begun, Log, TxnsWith, SinceLastCheckpoint
<1>8. OlderInv' /\ FailedInv' /\ OwnerInv'
  BY <1>1, <1>3 DEF BaseInv, OlderInv, FailedInv, OwnerInv
<1>9. DiskInv'
  BY <1>1 DEF BaseInv, DiskInv
<1> QED
  BY <1>2, <1>4, <1>5, <1>6, <1>7, <1>8, <1>9 DEF BaseInv

-----------------------------------------------------------------------------
(* Dead versions *)

\* A running database.
LEMMA RunningDead ==
  ASSUME BaseInv, BaseInv', DeadInv, Running, Forms
  PROVE  DeadInv'
<1> DEFINE C == CommittedTxns(wal)
<1>1. /\ phase = "up" /\ phase' = "up" /\ diskHeap' = diskHeap /\ covered' = covered
      /\ dead' = dead \cup {r \in DOMAIN heap' : heap'[r].xmin \in abortedXids' \ abortedXids}
  BY DEF Running, diskVars
<1>2. /\ heap \in Seq(Row) /\ heap' \in Seq(Row) /\ DOMAIN heap' = 1..Len(heap') /\ Len(heap) \in Nat
      /\ state \in [Xids -> {"unused", "active", "committed", "aborted"}]
      /\ abortedXids \subseteq Xids /\ abortedXids' \subseteq Xids
  BY SMTT(30) DEF BaseInv, StoreTypeOK, TypeOK
<1>3. /\ \A r \in 1..Len(heap) : heap[r].xmin \in C \cup activeXids \/ r \in dead
      /\ covered => /\ dead \subseteq 1..Len(heap)
                    /\ \A r \in dead : heap[r].xmin \notin C
                    /\ \A r \in dead : heap[r].xmin \in abortedXids
                    /\ \A r \in 1..Len(heap) : heap[r].xmin \in C \cup Begun(Log)
                    /\ \A r \in 1..Len(diskHeap) : diskHeap[r].xmin \in C \cup Begun(wal)
  BY <1>1 DEF DeadInv
<1>4. /\ \A x \in abortedXids : state[x] = "aborted"
      /\ \A x \in activeXids : state[x] = "active"
      /\ activeXids \subseteq Begun(Log) /\ Begun(wal) \subseteq Begun(Log)
  <2>1. Begun(Log) = Begun(wal) \cup TxnsWith(walBuf, DOMAIN walBuf, "BEGIN")
    BY LogView DEF BaseInv, StoreTypeOK
  <2> QED
    BY <1>1, <2>1 DEF BaseInv, ManagerInv, SinceInv
<1>5. ASSUME NEW t \in Xids, BeginStep(t)
      PROVE  DeadInv'
  <2>1. CommittedTxns(wal)' = C /\ Begun(wal)' = Begun(wal) /\ Begun(Log)' = Begun(Log) \cup {t}
    BY <1>1, <1>5, BeginBase
  <2>2. heap' = heap /\ activeXids \subseteq activeXids' /\ abortedXids' = abortedXids
    BY <1>5 DEF BeginStep, begin
  <2>3. dead' = dead
    BY <1>1, <2>2
  <2> HIDE DEF C
  <2> QED
    BY <1>1, <1>3, <2>1, <2>2, <2>3 DEF DeadInv
<1>6. ASSUME NEW t \in Xids, CommitStep(t)
      PROVE  DeadInv'
  <2>1. CommittedTxns(wal)' = C \cup {t} /\ t \in activeXids
    BY <1>1, <1>6, CommitBase
  <2>2. Begun(wal)' = Begun(Log) /\ Begun(Log)' = Begun(Log)
    BY <1>6, LogCommits DEF CommitStep, BaseInv, StoreTypeOK
  <2>3. heap' = heap /\ activeXids' = activeXids \ {t} /\ abortedXids' = abortedXids
    BY <1>6 DEF CommitStep, commit
  <2>4. dead' = dead
    BY <1>1, <2>3
  <2>5. t \notin abortedXids
    BY <1>4, <2>1
  <2> HIDE DEF C
  <2>6. \A r \in 1..Len(heap') : heap'[r].xmin \in CommittedTxns(wal)' \cup activeXids' \/ r \in dead'
    BY <1>3, <2>1, <2>3, <2>4
  <2>7. ASSUME covered
        PROVE  /\ dead' \subseteq 1..Len(heap')
               /\ \A r \in dead' : heap'[r].xmin \notin CommittedTxns(wal)'
               /\ \A r \in dead' : heap'[r].xmin \in abortedXids'
               /\ \A r \in 1..Len(heap') : heap'[r].xmin \in CommittedTxns(wal)' \cup Begun(Log)'
               /\ \A r \in 1..Len(diskHeap) : diskHeap[r].xmin \in CommittedTxns(wal)' \cup Begun(wal)'
    BY <1>3, <1>4, <2>1, <2>2, <2>3, <2>4, <2>5, <2>7
  <2> QED
    BY <1>1, <2>6, <2>7 DEF DeadInv
<1>7. ASSUME NEW t \in Xids, NEW d, NEW n \in {0, 1}, NEW new, NEW more, WriteStep(t, d, n, new, more)
      PROVE  DeadInv'
  <2>1. /\ CommittedTxns(wal)' = C /\ Begun(wal)' = Begun(wal) /\ Begun(Log)' = Begun(Log)
        /\ t \in activeXids /\ t \notin C
    BY <1>1, <1>7, WriteBase
  <2>2. Writes(t, d, n) /\ (abort(t) \/ UNCHANGED txnVars)
    BY <1>7 DEF WriteStep
  <2>3. /\ Len(heap') = Len(heap) + n
        /\ \A r \in 1..Len(heap) : heap'[r].xmin = heap[r].xmin
        /\ n = 1 => heap'[Len(heap) + 1].xmin = t
    <3>1. /\ Len(heap') = Len(heap) + n /\ (n = 1 => heap'[Len(heap) + 1].xmin = t)
          /\ \A r \in 1..Len(heap) : heap'[r] = IF r \in d THEN WithXmax(heap[r], t) ELSE heap[r]
      BY <2>2 DEF Writes
    <3>2. ASSUME NEW r \in 1..Len(heap) PROVE heap'[r].xmin = heap[r].xmin
      <4>1. heap'[r] = IF r \in d THEN WithXmax(heap[r], t) ELSE heap[r]
        BY <3>1
      <4> QED
        BY SMTT(30), <4>1 DEF WithXmax
    <3> QED
      BY <3>1, <3>2
  <2>4. \A r \in 1..Len(heap') : r \in 1..Len(heap) \/ (r = Len(heap) + 1 /\ heap'[r].xmin = t)
    BY SMTT(30), <1>2, <2>3
  <2>5. 1..Len(heap) \subseteq 1..Len(heap')
    BY SMTT(30), <1>2, <2>3
  <2> HIDE DEF C
  <2>6. ASSUME covered
        PROVE  /\ \A r \in 1..Len(heap') : heap'[r].xmin \in C \cup Begun(Log)
               /\ dead' \subseteq 1..Len(heap')
    <3>1. \A r \in 1..Len(heap) : heap'[r].xmin \in C \cup Begun(Log)
      BY <1>3, <2>3, <2>6
    <3>2. t \in Begun(Log)
      BY <1>4, <2>1
    <3>3. dead' \subseteq dead \cup 1..Len(heap') /\ dead \subseteq 1..Len(heap)
      BY <1>1, <1>2, <1>3, <2>6
    <3> QED
      BY <2>4, <2>5, <3>1, <3>2, <3>3
  <2>7. CASE abort(t)
    <3>1. activeXids' = activeXids \ {t} /\ abortedXids' = abortedXids \cup {t} /\ t \notin abortedXids
      BY <1>4, <2>1, <2>7 DEF abort
    <3>2. dead' = dead \cup {r \in 1..Len(heap') : heap'[r].xmin = t}
      BY <1>1, <1>2, <3>1
    <3>3. \A r \in 1..Len(heap') : heap'[r].xmin \in C \cup activeXids' \/ r \in dead'
      BY <1>3, <2>3, <2>4, <3>1, <3>2
    <3>4. covered => \A r \in dead' : heap'[r].xmin \notin C /\ heap'[r].xmin \in abortedXids'
      BY <1>3, <2>1, <2>3, <3>1, <3>2
    <3> QED
      BY <1>1, <1>3, <2>1, <2>6, <3>3, <3>4 DEF DeadInv
  <2>8. CASE UNCHANGED txnVars
    <3>1. activeXids' = activeXids /\ abortedXids' = abortedXids
      BY <2>8 DEF txnVars
    <3>2. dead' = dead
      BY <1>1, <3>1
    <3>3. \A r \in 1..Len(heap') : heap'[r].xmin \in C \cup activeXids' \/ r \in dead'
      BY <1>3, <2>1, <2>3, <2>4, <3>1, <3>2
    <3>4. covered => \A r \in dead' : heap'[r].xmin \notin C /\ heap'[r].xmin \in abortedXids'
      BY <1>3, <2>3, <3>1, <3>2
    <3> QED
      BY <1>1, <1>3, <2>1, <2>6, <3>3, <3>4 DEF DeadInv
  <2> QED
    BY <2>2, <2>7, <2>8
<1>8. CASE QuietStep
  <2>1. UNCHANGED <<heap, wal, walBuf, activeXids, abortedXids>>
    BY <1>8 DEF QuietStep, txnVars
  <2>2. CommittedTxns(wal)' = C /\ Begun(wal)' = Begun(wal) /\ Begun(Log)' = Begun(Log)
    BY <2>1 DEF CommittedTxns, Begun, Log, TxnsWith, SinceLastCheckpoint
  <2>3. dead' = dead
    BY <1>1, <2>1
  <2> HIDE DEF C
  <2> QED
    BY <1>1, <1>3, <2>1, <2>2, <2>3 DEF DeadInv
<1> QED
  BY <1>5, <1>6, <1>7, <1>8 DEF Forms

\* A write-back is covered when the BEGINs are in the file, a checkpoint when nothing is dead.
LEMMA StoreDead ==
  ASSUME BaseInv, DeadInv, WriteBack \/ Checkpoint
  PROVE  DeadInv'
<1> DEFINE C == CommittedTxns(wal)
<1>1. /\ phase # "down" /\ phase' = phase /\ heap' = heap /\ dead' = dead
      /\ activeXids' = activeXids /\ abortedXids' = abortedXids
  BY DEF WriteBack, Checkpoint, vars, txnVars, dataVars
<1>2. /\ \A r \in 1..Len(heap) : heap[r].xmin \in C \cup activeXids \/ r \in dead
      /\ covered => /\ dead \subseteq 1..Len(heap)
                    /\ \A r \in dead : heap[r].xmin \notin C
                    /\ \A r \in dead : heap[r].xmin \in abortedXids
                    /\ \A r \in 1..Len(heap) : heap[r].xmin \in C \cup Begun(Log)
                    /\ \A r \in 1..Len(diskHeap) : diskHeap[r].xmin \in C \cup Begun(wal)
  BY <1>1 DEF DeadInv
<1>3. CASE WriteBack
  <2>1. /\ wal' = wal /\ walBuf' = walBuf /\ (diskHeap' = heap \/ diskHeap' = diskHeap)
        /\ covered' = (covered /\ TxnsWith(walBuf, DOMAIN walBuf, "BEGIN") = {})
    BY <1>3 DEF WriteBack, logVars
  <2>2. CommittedTxns(wal)' = C /\ Begun(wal)' = Begun(wal) /\ Begun(Log)' = Begun(Log)
    BY <2>1 DEF CommittedTxns, Begun, Log, TxnsWith, SinceLastCheckpoint
  <2>3. Begun(Log) = Begun(wal) \cup TxnsWith(walBuf, DOMAIN walBuf, "BEGIN")
    BY LogView DEF BaseInv, StoreTypeOK
  <2>4. covered' => covered /\ Begun(Log) = Begun(wal)
    BY <2>1, <2>3
  <2> HIDE DEF C
  <2>5. covered' => \A r \in 1..Len(diskHeap') : diskHeap'[r].xmin \in C \cup Begun(wal)
    BY <1>2, <2>1, <2>4
  <2> QED
    BY <1>1, <1>2, <2>2, <2>4, <2>5 DEF DeadInv
<1>4. CASE Checkpoint
  <2>1. diskHeap' = heap /\ covered' = (covered /\ dead = {}) /\ activeXids = {}
    BY <1>4 DEF Checkpoint, FlushAll
  <2>2. CommittedTxns(wal)' = C
    BY <1>4, CheckpointLog
  <2> HIDE DEF C
  <2>3. covered' => covered /\ \A r \in 1..Len(heap) : heap[r].xmin \in C
    BY <1>2, <2>1
  <2> QED
    BY <1>1, <1>2, <2>1, <2>2, <2>3 DEF DeadInv
<1> QED
  BY <1>3, <1>4

\* A stop makes the versions of the active transactions dead.
LEMMA StopDead ==
  ASSUME BaseInv, DeadInv, Close \/ Crash
  PROVE  DeadInv'
<1> DEFINE C == CommittedTxns(wal)
<1>1. /\ phase # "down" /\ phase' = "down" /\ heap' = diskHeap' /\ activeXids' = {} /\ covered' = covered
      /\ dead' = {r \in DOMAIN diskHeap' : r \in dead \/ state[diskHeap'[r].xmin] # "committed"}
  BY DEF Close, Crash, ProcessEnds
<1>2. /\ CommittedTxns(wal)' = C /\ Log' = wal' /\ Begun(wal) \subseteq Begun(wal)' /\ (Close => wal' = Log)
  BY <1>1, LogStops DEF BaseInv, StoreTypeOK
<1>3. /\ heap \in Seq(Row) /\ diskHeap \in Seq(Row) /\ Len(heap) \in Nat /\ Len(diskHeap) \in Nat
  BY SMTT(30) DEF BaseInv, StoreTypeOK, TypeOK
<1>4. (diskHeap' = heap /\ Close) \/ diskHeap' = diskHeap
  BY DEF Close, Crash, FlushAll, diskVars
<1>5. /\ diskHeap' \in Seq(Row) /\ DOMAIN diskHeap' = 1..Len(diskHeap')
      /\ 1..Len(diskHeap') \subseteq 1..Len(heap)
      /\ \A r \in 1..Len(diskHeap') : diskHeap'[r].xmin = heap[r].xmin /\ diskHeap'[r].xmin \in Xids
  <2>1. diskHeap' \in Seq(Row)
    BY <1>3, <1>4
  <2>2. DOMAIN diskHeap' = 1..Len(diskHeap') /\ \A r \in 1..Len(diskHeap') : diskHeap'[r] \in Row
    BY SMTT(30), <2>1
  <2>3. \A r \in 1..Len(diskHeap') : diskHeap'[r].xmin \in Xids
    BY <2>2 DEF Row
  <2>4. 1..Len(diskHeap') \subseteq 1..Len(heap) /\ \A r \in 1..Len(diskHeap') : diskHeap'[r].xmin = heap[r].xmin
    BY SMTT(30), <1>3, <1>4 DEF BaseInv, DiskInv
  <2> QED
    BY <2>1, <2>2, <2>3, <2>4
<1>6. \A x \in Xids : state[x] = "committed" <=> x \in C
  BY <1>1 DEF BaseInv, ManagerInv
<1>7. covered => /\ \A r \in dead : heap[r].xmin \notin C
                 /\ \A r \in 1..Len(heap) : heap[r].xmin \in C \cup Begun(Log)
                 /\ \A r \in 1..Len(diskHeap) : diskHeap[r].xmin \in C \cup Begun(wal)
  BY DEF DeadInv
<1>8. Begun(Log)' = Begun(wal)' /\ (Close => Begun(wal)' = Begun(Log))
  BY <1>2 DEF Begun, TxnsWith, SinceLastCheckpoint
<1> HIDE DEF C
<1>9. \A r \in 1..Len(heap') : heap'[r].xmin \in C \/ r \in dead'
  BY <1>1, <1>5, <1>6
<1>10. covered => \A r \in dead' : heap'[r].xmin \notin C
  BY <1>1, <1>5, <1>6, <1>7
<1>11. covered => \A r \in 1..Len(diskHeap') : diskHeap'[r].xmin \in C \cup Begun(wal)'
  BY <1>2, <1>4, <1>7, <1>8
<1>12. dead' \subseteq 1..Len(heap')
  BY <1>1, <1>5
<1> QED
  BY <1>1, <1>2, <1>8, <1>9, <1>10, <1>11, <1>12 DEF DeadInv

\* Recovery takes for aborted what began since the checkpoint and did not commit, and
\* replays for committed transactions only.
LEMMA RecoveryDead ==
  ASSUME BaseInv, DeadInv, Open \/ ReplayOp \/ FinishRecovery
  PROVE  DeadInv'
<1> DEFINE C == CommittedTxns(wal)
<1>1. /\ wal' = wal /\ walBuf' = walBuf /\ dead' = dead /\ covered' = covered /\ activeXids' = activeXids
      /\ phase' # "down"
  BY DEF Open, ReplayOp, FinishRecovery, logVars, historyVars, vars, txnVars
<1>2. walBuf = <<>> /\ wal \in Seq(LogRecord)
  BY DEF BaseInv, PhaseInv, StoreTypeOK, Open, ReplayOp, FinishRecovery
<1>3. CommittedTxns(wal)' = C /\ Begun(wal)' = Begun(wal) /\ Begun(Log)' = Begun(wal) /\ Begun(Log) = Begun(wal)
  <2>1. Log = wal /\ Log' = wal
    BY SMTT(30), <1>1, <1>2 DEF Log
  <2> QED
    BY <1>1, <2>1 DEF CommittedTxns, Begun, TxnsWith, SinceLastCheckpoint
<1>4. /\ \A r \in 1..Len(heap) : heap[r].xmin \in C \cup activeXids \/ r \in dead
      /\ covered => /\ dead \subseteq 1..Len(heap)
                    /\ \A r \in dead : heap[r].xmin \notin C
                    /\ phase # "down" => \A r \in dead : heap[r].xmin \in abortedXids
                    /\ \A r \in 1..Len(heap) : heap[r].xmin \in C \cup Begun(wal)
                    /\ \A r \in 1..Len(diskHeap) : diskHeap[r].xmin \in C \cup Begun(wal)
  BY <1>3 DEF DeadInv
<1>5. CASE Open
  <2>1. heap' = heap /\ diskHeap' = diskHeap /\ abortedXids' = UncommittedTxns(wal)
    BY <1>5 DEF Open, dataVars, diskVars
  <2>2. TxnsWith(wal, SinceLastCheckpoint(wal), "COMMIT") \subseteq C
    BY DEF TxnsWith, CommittedTxns, SinceLastCheckpoint
  <2>3. Begun(wal) \subseteq C \cup UncommittedTxns(wal)
    BY <2>2 DEF Begun, UncommittedTxns
  <2> HIDE DEF C
  <2>4. covered => \A r \in dead : heap[r].xmin \in abortedXids'
    BY <1>4, <2>1, <2>3
  <2> QED
    BY <1>1, <1>3, <1>4, <2>1, <2>4 DEF DeadInv
<1>6. CASE ReplayOp
  <2>1. PICK i \in replay : ApplyRecoveryOp(wal[i].op)
    BY <1>6 DEF ReplayOp
  <2>2. i \in CommittedOperations(wal)
    BY <2>1 DEF BaseInv, PhaseInv
  <2>3. i \in DOMAIN wal /\ wal[i].type = "OP" /\ wal[i].txn \in C
    BY <2>2 DEF CommittedOperations, SinceLastCheckpoint, CommittedTxns, TxnsWith
  <2>4. wal[i] \in LogRecord
    BY SMTT(30), <1>2, <2>3
  <2>5. /\ phase # "down" /\ diskHeap' = diskHeap /\ abortedXids' = abortedXids
        /\ heap \in Seq(Row) /\ index \in SUBSET Entry
    BY <1>6 DEF ReplayOp, diskVars, txnVars, BaseInv, StoreTypeOK, TypeOK
  <2>6. /\ Len(heap) <= Len(heap') /\ Len(heap') \in Nat
        /\ \A r \in 1..Len(heap) : heap'[r].xmin = heap[r].xmin
        /\ wal[i].op.kind = "heap_insert" => Len(heap') = Len(heap) + 1 /\ heap'[Len(heap) + 1] = wal[i].op.tuple
        /\ wal[i].op.kind # "heap_insert" => Len(heap') = Len(heap)
    BY <2>1, <2>3, <2>4, <2>5, ReplayShape, RecordFields
  <2>7. wal[i].op.kind = "heap_insert" => wal[i].op.tuple.xmin \in C
    BY <2>3, <2>4, RecordFields
  <2>8. Len(heap) \in Nat
    BY SMTT(30), <2>5
  <2>9. \A r \in 1..Len(heap') : r \in 1..Len(heap) \/ heap'[r].xmin \in C
    BY SMTT(30), <2>6, <2>7, <2>8
  <2>10. 1..Len(heap) \subseteq 1..Len(heap')
    BY SMTT(30), <2>6, <2>8
  <2> HIDE DEF C
  <2>11. \A r \in 1..Len(heap') : heap'[r].xmin \in C \cup activeXids \/ r \in dead
    BY <1>4, <2>6, <2>9
  <2>12. covered => /\ dead \subseteq 1..Len(heap')
                    /\ \A r \in dead : heap'[r].xmin \notin C /\ heap'[r].xmin \in abortedXids
                    /\ \A r \in 1..Len(heap') : heap'[r].xmin \in C \cup Begun(wal)
    BY <1>4, <2>5, <2>6, <2>9, <2>10
  <2> QED
    BY <1>1, <1>3, <1>4, <2>5, <2>11, <2>12 DEF DeadInv
<1>7. CASE FinishRecovery
  <2>1. diskHeap' = heap /\ heap' = heap /\ abortedXids' = abortedXids /\ phase # "down"
    BY <1>7 DEF FinishRecovery, FlushAll, vars, dataVars, txnVars
  <2> HIDE DEF C
  <2> QED
    BY <1>1, <1>3, <1>4, <2>1 DEF DeadInv
<1> QED
  BY <1>5, <1>6, <1>7

\* Every step keeps the invariant on dead versions.
LEMMA DeadStep ==
  ASSUME BaseInv, BaseInv', DeadInv, [DbNext]_dbVars, Running => Forms
  PROVE  DeadInv'
<1>1. CASE UNCHANGED dbVars
  <2>1. UNCHANGED <<heap, activeXids, abortedXids, phase, wal, walBuf, diskHeap, dead, covered>>
    BY <1>1 DEF dbVars, vars, txnVars, dataVars, logVars, diskVars, historyVars
  <2>2. /\ CommittedTxns(wal)' = CommittedTxns(wal)
        /\ Begun(wal)' = Begun(wal) /\ Begun(Log)' = Begun(Log)
    BY <2>1 DEF CommittedTxns, Begun, Log, TxnsWith, SinceLastCheckpoint
  <2> QED
    BY <2>1, <2>2 DEF DeadInv
<1>2. CASE DbNext
  BY <1>2, RunningDead, StoreDead, StopDead, RecoveryDead DEF DbNext
<1> QED
  BY <1>1, <1>2

-----------------------------------------------------------------------------
(* Steps that leave the heap and the index alone *)

\* The facts about the log survive when some transactions, none of them committed, stop
\* counting, and when one commits.
LEMMA KeepLogged ==
  ASSUME StampsLogged, EntriesLogged, CkptIndexed, ckpt' = ckpt,
         CommittedTxns(wal) \subseteq CommittedTxns(wal)', CommittedTxns(wal)' \subseteq Live',
         \A kind \in Kinds : \A i : i \in Ops(kind)' <=> i \in Ops(kind) /\ Log[i].txn \in Live',
         \A kind \in Kinds : \A i \in Ops(kind)' : Log'[i] = Log[i],
         \A r \in 1..Len(ckpt.heap) :
           /\ ckpt.heap[r].xmin \in CommittedTxns(wal)' => ckpt.heap[r].xmin \in CommittedTxns(wal)
           /\ ckpt.heap[r].xmax \in CommittedTxns(wal)' => ckpt.heap[r].xmax \in CommittedTxns(wal),
         \A t \in Live' : Indexed(t)' => Indexed(t)
  PROVE  StampsLogged' /\ EntriesLogged' /\ CkptIndexed'
<1> DEFINE C == CommittedTxns(wal)
           ins == Ops("heap_insert")
           stamps == Ops("heap_set_xmax")
           entries == Ops("btree_insert")
<1>1. /\ \A i : i \in ins' <=> i \in ins /\ Log[i].txn \in Live'
      /\ \A i : i \in stamps' <=> i \in stamps /\ Log[i].txn \in Live'
      /\ \A i : i \in entries' <=> i \in entries /\ Log[i].txn \in Live'
      /\ \A i \in ins' : Log'[i] = Log[i]
      /\ \A i \in stamps' : Log'[i] = Log[i]
      /\ \A i \in entries' : Log'[i] = Log[i]
  BY DEF Kinds
<1>2. /\ \A i \in ins : Log[i].op.rid > Len(ckpt.heap)
      /\ \A i \in stamps :
           /\ \/ Log[i].op.rid \in 1..Len(ckpt.heap)
              \/ \E j \in ins : /\ j < i /\ Log[j].op.rid = Log[i].op.rid
                                /\ Log[j].txn \in C \/ Log[j].txn = Log[i].txn
           /\ \A j \in stamps : Log[j].op.rid = Log[i].op.rid => Log[j].txn = Log[i].txn
           /\ Log[i].op.rid \in 1..Len(ckpt.heap) => ckpt.heap[Log[i].op.rid].xmax \notin C
  BY DEF StampsLogged
<1>3. /\ \A j \in entries : \E i \in ins : i < j /\ RowAndEntry(i, j)
      /\ \A i \in ins : Indexed(Log[i].txn) => \E j \in entries : RowAndEntry(i, j)
  BY DEF EntriesLogged
<1>4. /\ \A e \in ckpt.index : e.rid \in 1..Len(ckpt.heap) /\ ckpt.heap[e.rid].val = e.key
      /\ Indexable => \A r \in 1..Len(ckpt.heap) :
           ckpt.heap[r].xmin \in C => EntryFor(ckpt.heap[r], r) \in ckpt.index
  BY DEF CkptIndexed
<1> HIDE DEF C, ins, stamps, entries
<1>5. C \subseteq C' /\ C' \subseteq Live'
  BY DEF C
<1>6. \A r \in 1..Len(ckpt.heap) : /\ ckpt.heap[r].xmin \in C' => ckpt.heap[r].xmin \in C
                                   /\ ckpt.heap[r].xmax \in C' => ckpt.heap[r].xmax \in C
  BY DEF C
<1>7. StampsLogged'
  <2>1. \A i \in ins' : Log'[i].op.rid > Len(ckpt.heap)
    BY <1>1, <1>2
  <2>2. ASSUME NEW i \in stamps'
        PROVE  /\ \/ Log'[i].op.rid \in 1..Len(ckpt.heap)
                  \/ \E j \in ins' : /\ j < i /\ Log'[j].op.rid = Log'[i].op.rid
                                     /\ Log'[j].txn \in C' \/ Log'[j].txn = Log'[i].txn
               /\ \A j \in stamps' : Log'[j].op.rid = Log'[i].op.rid => Log'[j].txn = Log'[i].txn
               /\ Log'[i].op.rid \in 1..Len(ckpt.heap) => ckpt.heap[Log'[i].op.rid].xmax \notin C'
    <3>1. i \in stamps /\ Log'[i] = Log[i] /\ Log[i].txn \in Live'
      BY <1>1, <2>2
    <3>2. ASSUME Log[i].op.rid \notin 1..Len(ckpt.heap)
          PROVE  \E j \in ins' : /\ j < i /\ Log'[j].op.rid = Log'[i].op.rid
                                 /\ Log'[j].txn \in C' \/ Log'[j].txn = Log'[i].txn
      <4>1. PICK j \in ins : /\ j < i /\ Log[j].op.rid = Log[i].op.rid
                             /\ Log[j].txn \in C \/ Log[j].txn = Log[i].txn
        BY <1>2, <3>1, <3>2
      <4>2. j \in ins' /\ Log'[j] = Log[j]
        BY <1>1, <1>5, <3>1, <4>1
      <4> QED
        BY <1>5, <3>1, <4>1, <4>2
    <3>3. \A j \in stamps' : Log'[j].op.rid = Log'[i].op.rid => Log'[j].txn = Log'[i].txn
      BY SMTT(30), <1>1, <1>2, <3>1
    <3>4. Log'[i].op.rid \in 1..Len(ckpt.heap) => ckpt.heap[Log'[i].op.rid].xmax \notin C'
      BY <1>2, <1>6, <3>1
    <3> QED
      BY <3>1, <3>2, <3>3, <3>4
  <2> QED
    BY <2>1, <2>2 DEF StampsLogged, C, ins, stamps
<1>8. EntriesLogged'
  <2>1. ASSUME NEW j \in entries' PROVE \E i \in ins' : i < j /\ RowAndEntry(i, j)'
    <3>1. j \in entries /\ Log'[j] = Log[j] /\ Log[j].txn \in Live'
      BY <1>1, <2>1
    <3>2. PICK i \in ins : i < j /\ RowAndEntry(i, j)
      BY <1>3, <3>1
    <3>3. i \in ins' /\ Log'[i] = Log[i]
      BY <1>1, <3>1, <3>2 DEF RowAndEntry
    <3> QED
      BY <3>1, <3>2, <3>3 DEF RowAndEntry
  <2>2. ASSUME NEW i \in ins', Indexed(Log[i].txn)' PROVE \E j \in entries' : RowAndEntry(i, j)'
    <3>1. i \in ins /\ Log'[i] = Log[i] /\ Log[i].txn \in Live'
      BY <1>1, <2>2
    <3>2. Indexed(Log[i].txn)
      BY <2>2, <3>1 DEF Indexed, Indexable
    <3>3. PICK j \in entries : RowAndEntry(i, j)
      BY <1>3, <3>1, <3>2
    <3>4. j \in entries' /\ Log'[j] = Log[j]
      BY <1>1, <3>1, <3>3 DEF RowAndEntry
    <3> QED
      BY <3>1, <3>3, <3>4 DEF RowAndEntry
  <2> QED
    BY <2>1, <2>2 DEF EntriesLogged, ins, entries
<1>9. CkptIndexed'
  <2>1. Indexable' <=> Indexable
    BY DEF Indexable
  <2>2. \A r \in 1..Len(ckpt.heap) : EntryFor(ckpt.heap[r], r)' = EntryFor(ckpt.heap[r], r)
    BY DEF EntryFor
  <2> QED
    BY <1>4, <1>6, <2>1, <2>2 DEF CkptIndexed, C
<1> QED
  BY <1>7, <1>8, <1>9

\* The facts about the heap and the index survive when the same operations count.
LEMMA KeepApplied ==
  ASSUME RowsApplied, StampsApplied, EntriesApplied, HeapIds, UNCHANGED <<heap, index, replay, ckpt>>,
         \A kind \in Kinds : Ops(kind)' = Ops(kind),
         \A kind \in Kinds : \A i \in Ops(kind) : Log'[i] = Log[i],
         \A r \in 1..Len(ckpt.heap) :
           ckpt.heap[r].xmax \in CommittedTxns(wal)' => ckpt.heap[r].xmax \in CommittedTxns(wal),
         \A r \in 1..Len(heap) : heap[r].xmin \in Live' => heap[r].xmin \in Live,
         \A r \in 1..Len(heap) : heap[r].xmax \in Live' => heap[r].xmax \in Live,
         Live \cup abortedXids \subseteq Live' \cup abortedXids',
         \A t \in Live' : Indexed(t)' => Indexed(t)
  PROVE  RowsApplied' /\ StampsApplied' /\ EntriesApplied' /\ HeapIds'
<1>1. /\ Ops("heap_insert")' = Ops("heap_insert") /\ \A i \in Ops("heap_insert") : Log'[i] = Log[i]
      /\ Ops("heap_set_xmax")' = Ops("heap_set_xmax") /\ \A i \in Ops("heap_set_xmax") : Log'[i] = Log[i]
      /\ Ops("btree_insert")' = Ops("btree_insert") /\ \A i \in Ops("btree_insert") : Log'[i] = Log[i]
  BY DEF Kinds
<1>2. heap' = heap /\ index' = index /\ replay' = replay /\ ckpt' = ckpt
  OBVIOUS
<1>3. RowsApplied'
  <2>1. /\ Len(ckpt.heap) <= Len(heap)
        /\ \A r \in 1..Len(ckpt.heap) :
             /\ heap[r].xmin = ckpt.heap[r].xmin /\ heap[r].val = ckpt.heap[r].val
             /\ ckpt.heap[r].xmax \in CommittedTxns(wal)' => heap[r].xmax = ckpt.heap[r].xmax
    BY DEF RowsApplied
  <2>2. \A i \in Ops("heap_insert")' \ replay :
          /\ Log'[i].op.rid \in 1..Len(heap)
          /\ heap[Log'[i].op.rid].xmin = Log'[i].txn
          /\ heap[Log'[i].op.rid].val = Log'[i].op.tuple.val
    <3>1. ASSUME NEW i \in Ops("heap_insert")' \ replay
          PROVE  i \in Ops("heap_insert") \ replay /\ Log'[i] = Log[i]
      BY <1>1
    <3>2. ASSUME NEW i \in Ops("heap_insert")' \ replay
          PROVE  /\ Log[i].op.rid \in 1..Len(heap)
                 /\ heap[Log[i].op.rid].xmin = Log[i].txn
                 /\ heap[Log[i].op.rid].val = Log[i].op.tuple.val
      BY <3>1 DEF RowsApplied
    <3> QED
      BY <3>1, <3>2
  <2>3. ASSUME NEW r \in 1..Len(heap), r > Len(ckpt.heap), heap[r].xmin \in Live'
        PROVE  \E i \in Ops("heap_insert")' \ replay : Log'[i].op.rid = r
    <3>1. PICK i \in Ops("heap_insert") \ replay : Log[i].op.rid = r
      BY <2>3 DEF RowsApplied
    <3> QED
      BY <3>1, <1>1
  <2> QED
    BY <1>2, <2>1, <2>2, <2>3 DEF RowsApplied
<1>4. StampsApplied'
  <2>1. ASSUME NEW i \in Ops("heap_set_xmax")' \ replay
        PROVE  Log'[i].op.rid \in 1..Len(heap) /\ heap[Log'[i].op.rid].xmax = Log'[i].txn
    <3>1. i \in Ops("heap_set_xmax") \ replay /\ Log'[i] = Log[i]
      BY <1>1
    <3>2. Log[i].op.rid \in 1..Len(heap) /\ heap[Log[i].op.rid].xmax = Log[i].txn
      BY <3>1 DEF StampsApplied
    <3> QED
      BY <3>1, <3>2
  <2>2. ASSUME NEW r \in 1..Len(heap), heap[r].xmax \in Live'
        PROVE  \/ \E i \in Ops("heap_set_xmax")' \ replay : Log'[i].op.rid = r
               \/ r <= Len(ckpt.heap) /\ ckpt.heap[r].xmax = heap[r].xmax
    <3>1. CASE \E i \in Ops("heap_set_xmax") \ replay : Log[i].op.rid = r
      BY <3>1, <1>1
    <3> QED
      BY <3>1, <2>2 DEF StampsApplied
  <2> QED
    BY <1>2, <2>1, <2>2 DEF StampsApplied
<1>5. EntriesApplied'
  <2>1. ASSUME NEW r \in 1..Len(heap), heap[r].xmin \in Live', Indexed(heap[r].xmin)'
        PROVE  \/ EntryFor(heap[r], r) \in index
               \/ \E i \in Ops("btree_insert") \cap replay : Log[i].op.rid = r /\ Log[i].op.key = heap[r].val
    <3>1. Indexed(heap[r].xmin)
      BY <1>2, <2>1 DEF Indexed, Indexable
    <3> QED
      BY <2>1, <3>1 DEF EntriesApplied
  <2>2. \A r \in 1..Len(heap) : EntryFor(heap[r], r)' = EntryFor(heap[r], r)
    BY <1>2 DEF EntryFor
  <2>3. ASSUME NEW r \in 1..Len(heap),
               \E i \in Ops("btree_insert") \cap replay : Log[i].op.rid = r /\ Log[i].op.key = heap[r].val
        PROVE  \E i \in Ops("btree_insert")' \cap replay : Log'[i].op.rid = r /\ Log'[i].op.key = heap[r].val
    BY <1>1, <2>3
  <2>4. \A e \in index' : e.rid \in 1..Len(heap') /\ heap'[e.rid].val = e.key
    BY <1>2 DEF EntriesApplied
  <2>5. \A r \in 1..Len(heap) : heap[r].xmin \in Live' /\ Indexed(heap[r].xmin)' =>
          \/ EntryFor(heap[r], r)' \in index
          \/ \E i \in Ops("btree_insert")' \cap replay : Log'[i].op.rid = r /\ Log'[i].op.key = heap[r].val
    BY <2>1, <2>2, <2>3
  <2>6. \A r \in 1..Len(heap') : heap'[r].xmin \in Live' /\ Indexed(heap[r].xmin)' =>
          \/ EntryFor(heap[r], r)' \in index'
          \/ \E i \in Ops("btree_insert")' \cap replay' : Log'[i].op.rid = r /\ Log'[i].op.key = heap'[r].val
    BY <1>2, <2>5
  <2> QED
    BY <2>4, <2>6 DEF EntriesApplied
<1>6. HeapIds'
  BY <1>2 DEF HeapIds
<1> QED
  BY <1>3, <1>4, <1>5, <1>6

\* What is visible according to the checkpoint and the log depends on what is committed.
LEMMA KeepSurvivors ==
  ASSUME ckpt' = ckpt, CommittedTxns(wal)' = CommittedTxns(wal),
         \A kind \in Kinds : \A i :
           i \in Ops(kind)' /\ Log'[i].txn \in CommittedTxns(wal) <=>
             i \in Ops(kind) /\ Log[i].txn \in CommittedTxns(wal),
         \A kind \in Kinds : \A i \in Ops(kind) : Log[i].txn \in CommittedTxns(wal) => Log'[i] = Log[i]
  PROVE  \A v : Survivors(v)' = Survivors(v)
<1> DEFINE C == CommittedTxns(wal)
           ins == {i \in Ops("heap_insert") : Log[i].txn \in C}
           stamps == {i \in Ops("heap_set_xmax") : Log[i].txn \in C}
           Kept(v, x) == /\ x \in 1..Len(ckpt.heap) /\ ckpt.heap[x].val = v
                         /\ ckpt.heap[x].xmin \in C /\ ckpt.heap[x].xmax \notin C
           Added(v, x) == \E j \in ins : x = Log[j].op.rid /\ Log[j].op.tuple.val = v
<1>1. /\ C' = C /\ ins' = ins /\ stamps' = stamps
      /\ \A i \in ins : Log'[i] = Log[i]
      /\ \A i \in stamps : Log'[i] = Log[i]
  BY DEF Kinds
<1>2. \A r : StampedIn(r)' <=> StampedIn(r)
  <2>1. \A r : StampedIn(r) <=> \E i \in stamps : Log[i].op.rid = r
    BY DEF StampedIn
  <2>2. \A r : StampedIn(r)' <=> \E i \in stamps' : Log'[i].op.rid = r
    BY DEF StampedIn
  <2> HIDE DEF stamps, ins, C
  <2> QED
    BY <1>1, <2>1, <2>2
<1>3. ASSUME NEW v, NEW x
      PROVE  x \in Survivors(v) <=> (Kept(v, x) \/ Added(v, x)) /\ ~StampedIn(x)
  <2>1. x \in Survivors(v) <=>
          \/ Kept(v, x) /\ ~StampedIn(x)
          \/ \E j \in ins : x = Log[j].op.rid /\ Log[j].op.tuple.val = v /\ ~StampedIn(Log[j].op.rid)
    BY DEF Survivors
  <2> HIDE DEF stamps, ins, C, Kept
  <2> QED
    BY <2>1
<1>4. ASSUME NEW v, NEW x
      PROVE  x \in Survivors(v)' <=> (Kept(v, x)' \/ Added(v, x)') /\ ~StampedIn(x)'
  <2>1. x \in Survivors(v)' <=>
          \/ Kept(v, x)' /\ ~StampedIn(x)'
          \/ \E j \in ins' : x = Log'[j].op.rid /\ Log'[j].op.tuple.val = v /\ ~StampedIn(Log[j].op.rid)'
    BY DEF Survivors
  <2> HIDE DEF stamps, ins, C, Kept
  <2> QED
    BY <2>1
<1> HIDE DEF C, ins, stamps
<1>5. \A v, x : (Kept(v, x)' <=> Kept(v, x)) /\ (Added(v, x)' <=> Added(v, x))
  BY <1>1
<1> HIDE DEF Kept, Added
<1>6. ASSUME NEW v, NEW x
      PROVE  x \in Survivors(v)' <=> x \in Survivors(v)
  BY <1>2, <1>3, <1>4, <1>5
<1>7. ASSUME NEW v
      PROVE  Survivors(v)' = Survivors(v)
  <2>1. \A x : x \in Survivors(v)' <=> x \in Survivors(v)
    BY <1>6
  <2> QED
    BY SMTT(30), <2>1
<1> QED
  BY <1>7

-----------------------------------------------------------------------------
(* What a transaction that begins now sees *)

\* A committed transaction has an id.
LEMMA CommittedAreXids ==
  ASSUME wal \in Seq(LogRecord)
  PROVE  CommittedTxns(wal) \subseteq Xids /\ INFINITY_TXN \notin CommittedTxns(wal)
<1>1. \A i \in DOMAIN wal : wal[i] \in LogRecord
  BY SMTT(30)
<1>2. \A i \in DOMAIN wal : wal[i].type = "COMMIT" => wal[i].txn \in Xids
  BY <1>1, RecordFields
<1>3. INFINITY_TXN \notin Xids
  BY SMTT(30), ConstantsAssumption DEF INFINITY_TXN, Xids
<1> QED
  BY <1>2, <1>3 DEF CommittedTxns, TxnsWith

\* The fields of a logged operation.
LEMMA OpFields ==
  ASSUME BaseInv, NEW kind, NEW i \in Ops(kind)
  PROVE  /\ Log[i] \in LogRecord /\ i \in 1..Len(Log) /\ i \in Nat
         /\ Log[i].type = "OP" /\ Log[i].op.kind = kind /\ Log[i].txn \in Live /\ Log[i].txn \in Xids
         /\ Log[i].op.rid \in Nat
         /\ kind = "heap_insert" => /\ Log[i].op.tuple \in Row
                                    /\ Log[i].op.tuple.xmin = Log[i].txn
                                    /\ Log[i].op.tuple.xmax = INFINITY_TXN
<1>1. i \in SinceLastCheckpoint(Log) /\ Log[i].type = "OP" /\ Log[i].op.kind = kind /\ Log[i].txn \in Live
  BY DEF Ops
<1>2. i \in DOMAIN Log
  BY <1>1 DEF SinceLastCheckpoint
<1>3. Log \in Seq(LogRecord) /\ DOMAIN Log = 1..Len(Log) /\ Len(Log) \in Nat
  BY LogView DEF BaseInv, StoreTypeOK
<1>4. Log[i] \in LogRecord /\ i \in 1..Len(Log) /\ i \in Nat
  BY SMTT(30), <1>2, <1>3
<1> QED
  BY <1>1, <1>4, RecordFields

\* It sees the versions that committed transactions wrote and none deleted.
LEMMA VisibleNow ==
  BaseInv /\ phase = "up" /\ HeapIds =>
    Visible(NextSnapshot) =
      {r \in 1..Len(heap) : heap[r].xmin \in CommittedTxns(wal) /\ heap[r].xmax \notin CommittedTxns(wal)}
<1> SUFFICES ASSUME BaseInv, phase = "up", HeapIds
             PROVE  Visible(NextSnapshot) =
                      {r \in 1..Len(heap) : /\ heap[r].xmin \in CommittedTxns(wal)
                                            /\ heap[r].xmax \notin CommittedTxns(wal)}
  OBVIOUS
<1> DEFINE C == CommittedTxns(wal)
<1>1. /\ heap \in Seq(Row) /\ DOMAIN heap = 1..Len(heap)
      /\ nextTxnId \in Nat /\ activeXids \subseteq Xids /\ abortedXids \subseteq Xids
  BY SMTT(30) DEF BaseInv, StoreTypeOK, TypeOK
<1>2. /\ \A t \in Xids : state[t] = "unused" <=> t >= nextTxnId
      /\ \A t \in Xids : state[t] = "committed" <=> t \in C
      /\ activeXids = {t \in Xids : state[t] = "active"}
      /\ \A t \in abortedXids : state[t] = "aborted"
  BY DEF BaseInv, ManagerInv
<1>3. \A r \in 1..Len(heap) : /\ heap[r].xmin \in C \cup activeXids \cup abortedXids
                              /\ heap[r].xmax \in C \cup activeXids \cup abortedXids \cup {INFINITY_TXN}
  BY DEF HeapIds, Live
<1>4. C \subseteq Xids /\ INFINITY_TXN \notin C
  BY CommittedAreXids DEF BaseInv, StoreTypeOK
<1> HIDE DEF C
<1>5. \A t \in Xids : t \in Nat
  BY SMTT(30) DEF Xids
<1>6. \A t \in C : t < nextTxnId /\ t \notin activeXids /\ t \notin abortedXids
  BY SMTT(30), <1>1, <1>2, <1>4, <1>5
<1>7. \A t \in activeXids \cup abortedXids : t < nextTxnId /\ t # nextTxnId /\ t \notin C
  BY SMTT(30), <1>1, <1>2, <1>5
<1>8. \A t : CommittedBefore(NextSnapshot, t) <=> t < nextTxnId /\ t \notin activeXids
  BY DEF CommittedBefore, NextSnapshot
<1>9. ASSUME NEW t \in C \cup activeXids \cup abortedXids
      PROVE  t \notin abortedXids /\ (t = nextTxnId \/ CommittedBefore(NextSnapshot, t)) <=> t \in C
  <2>1. CASE t \in C
    BY <1>6, <1>8, <2>1
  <2>2. CASE t \in activeXids \cup abortedXids
    BY <1>7, <1>8, <2>2
  <2> QED
    BY <2>1, <2>2
<1>10. ASSUME NEW r \in 1..Len(heap)
      PROVE  IsVisible(heap[r], NextSnapshot) <=> heap[r].xmin \in C /\ heap[r].xmax \notin C
  <2>1. NextSnapshot.xid = nextTxnId
    BY DEF NextSnapshot
  <2> QED
    BY <1>3, <1>4, <1>9, <2>1 DEF IsVisible
<1> QED
  BY <1>1, <1>10 DEF Visible, C

\* Once everything is applied, that is what the checkpoint and the log say.
LEMMA SurvivorsVisible ==
  BaseInv /\ phase = "up" /\ StampsLogged /\ RowsApplied /\ StampsApplied /\ HeapIds =>
    \A v : ScanMatches(NextSnapshot, {v}) = Survivors(v)
<1> SUFFICES ASSUME BaseInv, phase = "up", StampsLogged, RowsApplied, StampsApplied, HeapIds,
                    NEW v, NEW x
             PROVE  x \in ScanMatches(NextSnapshot, {v}) <=> x \in Survivors(v)
  BY SMTT(30)
<1> DEFINE C == CommittedTxns(wal)
           ins == Ops("heap_insert")
           stamps == Ops("heap_set_xmax")
<1>1. x \in ScanMatches(NextSnapshot, {v}) <=>
        x \in 1..Len(heap) /\ heap[x].xmin \in C /\ heap[x].xmax \notin C /\ heap[x].val = v
  BY VisibleNow DEF ScanMatches
<1>2. x \in Survivors(v) <=>
        \/ /\ x \in 1..Len(ckpt.heap) /\ ckpt.heap[x].val = v /\ ckpt.heap[x].xmin \in C
           /\ ckpt.heap[x].xmax \notin C /\ ~\E i \in stamps : Log[i].txn \in C /\ Log[i].op.rid = x
        \/ \E j \in ins : /\ x = Log[j].op.rid /\ Log[j].txn \in C /\ Log[j].op.tuple.val = v
                          /\ ~\E i \in stamps : Log[i].txn \in C /\ Log[i].op.rid = x
  BY DEF Survivors, StampedIn
<1>3. replay = {}
  BY DEF BaseInv, PhaseInv
<1>4. Len(heap) \in Nat /\ Len(ckpt.heap) \in Nat /\ C \subseteq Live
  BY SMTT(30) DEF BaseInv, StoreTypeOK, TypeOK, Live
<1>5. /\ Len(ckpt.heap) <= Len(heap)
      /\ \A r \in 1..Len(ckpt.heap) :
           /\ heap[r].xmin = ckpt.heap[r].xmin /\ heap[r].val = ckpt.heap[r].val
           /\ ckpt.heap[r].xmax \in C => heap[r].xmax = ckpt.heap[r].xmax
      /\ \A i \in ins : /\ Log[i].op.rid \in 1..Len(heap)
                        /\ heap[Log[i].op.rid].xmin = Log[i].txn
                        /\ heap[Log[i].op.rid].val = Log[i].op.tuple.val
      /\ \A r \in 1..Len(heap) : r > Len(ckpt.heap) /\ heap[r].xmin \in Live => \E i \in ins : Log[i].op.rid = r
  BY <1>3 DEF RowsApplied
<1>6. /\ \A i \in stamps : Log[i].op.rid \in 1..Len(heap) /\ heap[Log[i].op.rid].xmax = Log[i].txn
      /\ \A r \in 1..Len(heap) : heap[r].xmax \in Live =>
           (\E i \in stamps : Log[i].op.rid = r) \/ (r <= Len(ckpt.heap) /\ ckpt.heap[r].xmax = heap[r].xmax)
  BY <1>3 DEF StampsApplied
<1>7. \A i \in ins : Log[i].op.rid > Len(ckpt.heap)
  BY DEF StampsLogged
<1> HIDE DEF C, ins, stamps
<1>8. ASSUME x \in 1..Len(heap), heap[x].xmin \in C, heap[x].xmax \notin C, heap[x].val = v
      PROVE  x \in Survivors(v)
  <2>1. ~\E i \in stamps : Log[i].txn \in C /\ Log[i].op.rid = x
    BY <1>6, <1>8
  <2>2. CASE x \in 1..Len(ckpt.heap)
    BY <1>2, <1>5, <1>8, <2>1, <2>2
  <2>3. CASE x > Len(ckpt.heap)
    <3>1. PICK j \in ins : Log[j].op.rid = x
      BY <1>4, <1>5, <1>8, <2>3
    <3>2. Log[j].txn \in C /\ Log[j].op.tuple.val = v
      BY <1>5, <1>8, <3>1
    <3> QED
      BY <1>2, <2>1, <3>1, <3>2
  <2> QED
    BY SMTT(30), <1>4, <1>8, <2>2, <2>3
<1>9. ASSUME x \in 1..Len(ckpt.heap), ckpt.heap[x].val = v, ckpt.heap[x].xmin \in C, ckpt.heap[x].xmax \notin C,
             ~\E i \in stamps : Log[i].txn \in C /\ Log[i].op.rid = x
      PROVE  x \in 1..Len(heap) /\ heap[x].xmin \in C /\ heap[x].xmax \notin C /\ heap[x].val = v
  <2>1. x \in 1..Len(heap) /\ heap[x].xmin \in C /\ heap[x].val = v
    BY SMTT(30), <1>4, <1>5, <1>9
  <2>2. heap[x].xmax \notin C
    BY <1>4, <1>6, <1>9, <2>1
  <2> QED
    BY <2>1, <2>2
<1>10. ASSUME NEW j \in ins, x = Log[j].op.rid, Log[j].txn \in C, Log[j].op.tuple.val = v,
              ~\E i \in stamps : Log[i].txn \in C /\ Log[i].op.rid = x
       PROVE  x \in 1..Len(heap) /\ heap[x].xmin \in C /\ heap[x].xmax \notin C /\ heap[x].val = v
  <2>1. x \in 1..Len(heap) /\ heap[x].xmin \in C /\ heap[x].val = v /\ x > Len(ckpt.heap)
    BY <1>5, <1>7, <1>10
  <2>2. heap[x].xmax \notin C
    BY SMTT(30), <1>4, <1>6, <1>10, <2>1
  <2> QED
    BY <2>1, <2>2
<1> QED
  BY <1>1, <1>2, <1>8, <1>9, <1>10

\* So the contents of the database are what the checkpoint and the log say ...
ContentsMeant ==
  phase = "up" /\ StampsLogged /\ RowsApplied /\ StampsApplied /\ HeapIds =>
    Contents = [v \in Values |-> Cardinality(Survivors(v))]

\* ... in every state.
LEMMA ContentsMean == BaseInv => ContentsMeant
  BY SurvivorsVisible DEF Contents, ContentsMeant

\* And the index finds them all.
LEMMA IndexMeans ==
  ASSUME BaseInv, phase = "up", EntriesApplied, HeapIds, Indexable, NEW k
  PROVE  IndexMatches(NextSnapshot, k) = ScanMatches(NextSnapshot, {k})
<1> DEFINE C == CommittedTxns(wal)
<1>1. \A r \in Visible(NextSnapshot) : r \in 1..Len(heap) /\ heap[r].xmin \in C
  BY VisibleNow
<1>2. replay = {} /\ C \subseteq Live /\ (CallerAborts => failed \cap C = {})
  BY DEF BaseInv, PhaseInv, FailedInv, Live
<1>3. \A r \in 1..Len(heap) : heap[r].xmin \in C => Indexed(heap[r].xmin)
  BY <1>2 DEF Indexed, Indexable
<1>4. /\ \A e \in index : e.rid \in 1..Len(heap) /\ heap[e.rid].val = e.key
      /\ \A r \in 1..Len(heap) : heap[r].xmin \in Live /\ Indexed(heap[r].xmin) => EntryFor(heap[r], r) \in index
  BY <1>2 DEF EntriesApplied
<1> HIDE DEF C
<1>5. \A r \in Visible(NextSnapshot) : [key |-> heap[r].val, rid |-> r] \in index
  BY <1>1, <1>2, <1>3, <1>4 DEF EntryFor
<1>6. \A r : [key |-> k, rid |-> r] \in index => heap[r].val = k
  <2> SUFFICES ASSUME NEW r, [key |-> k, rid |-> r] \in index PROVE heap[r].val = k
    OBVIOUS
  <2> DEFINE e == [key |-> k, rid |-> r]
  <2>1. e.rid = r /\ e.key = k /\ e \in index
    OBVIOUS
  <2> HIDE DEF e
  <2> QED
    BY <1>4, <2>1
<1>7. \A r \in Visible(NextSnapshot) : [key |-> k, rid |-> r] \in index <=> heap[r].val \in {k}
  BY <1>5, <1>6
<1> QED
  BY <1>7 DEF IndexMatches, ScanMatches

-----------------------------------------------------------------------------
(* A running database: transactions begin and commit *)

\* The records of a log whose transactions are below an id.
LEMMA BelowAt ==
  ASSUME NEW log, NEW n, Below(log, n), NEW i \in 1..Len(log)
  PROVE  log[i].txn < n
BY SMTT(30) DEF Below

\* Nothing in the log is of a transaction that has not begun.
LEMMA LogBelow ==
  ASSUME BaseInv, phase # "down"
  PROVE  \A i \in 1..Len(Log) : Log[i].txn < nextTxnId
<1>1. wal \in Seq(LogRecord) /\ walBuf \in Seq(LogRecord) /\ Below(wal, nextTxnId) /\ Below(walBuf, nextTxnId)
  BY DEF BaseInv, StoreTypeOK, LogInv
<1>2. /\ Len(Log) = Len(wal) + Len(walBuf) /\ Len(wal) \in Nat /\ Len(walBuf) \in Nat
      /\ DOMAIN wal = 1..Len(wal) /\ DOMAIN walBuf = 1..Len(walBuf)
      /\ \A i \in 1..Len(wal) : Log[i] = wal[i]
      /\ \A i \in (Len(wal) + 1)..(Len(wal) + Len(walBuf)) :
           i - Len(wal) \in 1..Len(walBuf) /\ Log[i] = walBuf[i - Len(wal)]
  BY <1>1, Appended DEF Log
<1>3. \A i \in 1..Len(Log) : i \in 1..Len(wal) \/ i \in (Len(wal) + 1)..(Len(wal) + Len(walBuf))
  BY SMTT(30), <1>2
<1>4. ASSUME NEW i \in 1..Len(wal)
      PROVE  Log[i].txn < nextTxnId
  <2>1. wal[i].txn < nextTxnId
    BY <1>1, BelowAt
  <2> QED
    BY <1>2, <2>1
<1>5. ASSUME NEW i \in (Len(wal) + 1)..(Len(wal) + Len(walBuf))
      PROVE  Log[i].txn < nextTxnId
  <2>1. i - Len(wal) \in 1..Len(walBuf) /\ Log[i] = walBuf[i - Len(wal)]
    BY <1>2
  <2>2. walBuf[i - Len(wal)].txn < nextTxnId
    BY <1>1, <2>1, BelowAt
  <2> QED
    BY <2>1, <2>2
<1> QED
  BY <1>3, <1>4, <1>5

\* The logged operations when records are appended and who counts changes.
LEMMA OpsGrow ==
  ASSUME BaseInv, NEW more \in Seq(LogRecord), \A k \in DOMAIN more : more[k].type # "CHECKPOINT",
         Buffer(more) \/ ForceLog(more)
  PROVE  /\ Len(Log) \in Nat /\ Len(more) \in Nat /\ DOMAIN more = 1..Len(more)
         /\ \A kind, i : i \in Ops(kind)' <=>
              \/ /\ i \in SinceLastCheckpoint(Log) /\ Log[i].type = "OP" /\ Log[i].op.kind = kind
                 /\ Log[i].txn \in Live'
              \/ \E k \in 1..Len(more) : /\ i = Len(Log) + k /\ more[k].type = "OP" /\ more[k].op.kind = kind
                                         /\ more[k].txn \in Live'
         /\ \A i \in SinceLastCheckpoint(Log) : Log'[i] = Log[i] /\ i \in 1..Len(Log)
         /\ \A k \in 1..Len(more) : Log'[Len(Log) + k] = more[k]
<1>1. wal \in Seq(LogRecord) /\ walBuf \in Seq(LogRecord) /\ BufferInv
  BY DEF BaseInv, StoreTypeOK
<1>2. Len(Log) \in Nat /\ DOMAIN Log = 1..Len(Log)
  BY <1>1, LogView
<1>3. /\ DOMAIN more = 1..Len(more) /\ Len(more) \in Nat
      /\ \A i \in 1..Len(Log) : Log'[i] = Log[i]
      /\ \A k \in 1..Len(more) : Log'[Len(Log) + k] = more[k]
      /\ \A i : i \in SinceLastCheckpoint(Log)' <=>
                  i \in SinceLastCheckpoint(Log) \/ i \in (Len(Log) + 1)..(Len(Log) + Len(more))
  BY <1>1, LogGrows
<1>4. \A i \in SinceLastCheckpoint(Log) : i \in 1..Len(Log)
  BY <1>2 DEF SinceLastCheckpoint
<1>5. \A i : i \in (Len(Log) + 1)..(Len(Log) + Len(more)) <=> \E k \in 1..Len(more) : i = Len(Log) + k
  <2>1. \A i \in (Len(Log) + 1)..(Len(Log) + Len(more)) : i - Len(Log) \in 1..Len(more) /\ i = Len(Log) + (i - Len(Log))
    BY SMTT(30), <1>2, <1>3
  <2>2. \A k \in 1..Len(more) : Len(Log) + k \in (Len(Log) + 1)..(Len(Log) + Len(more))
    BY SMTT(30), <1>2, <1>3
  <2> QED
    BY <2>1, <2>2
<1>6. \A kind, i : i \in Ops(kind)' <=>
         /\ i \in SinceLastCheckpoint(Log)' /\ Log'[i].type = "OP" /\ Log'[i].op.kind = kind /\ Log'[i].txn \in Live'
  BY DEF Ops
<1>7. \A i \in SinceLastCheckpoint(Log) : Log'[i] = Log[i]
  BY <1>3, <1>4
<1>8. \A kind, i : i \in Ops(kind)' <=>
        \/ /\ i \in SinceLastCheckpoint(Log) /\ Log[i].type = "OP" /\ Log[i].op.kind = kind
           /\ Log[i].txn \in Live'
        \/ \E k \in 1..Len(more) : /\ i = Len(Log) + k /\ more[k].type = "OP" /\ more[k].op.kind = kind
                                   /\ more[k].txn \in Live'
  <2> SUFFICES ASSUME NEW kind, NEW i
               PROVE  i \in Ops(kind)' <=>
                        \/ /\ i \in SinceLastCheckpoint(Log) /\ Log[i].type = "OP" /\ Log[i].op.kind = kind
                           /\ Log[i].txn \in Live'
                        \/ \E k \in 1..Len(more) : /\ i = Len(Log) + k /\ more[k].type = "OP" /\ more[k].op.kind = kind
                                                   /\ more[k].txn \in Live'
    OBVIOUS
  <2>1. i \in SinceLastCheckpoint(Log)' <=> i \in SinceLastCheckpoint(Log) \/ \E k \in 1..Len(more) : i = Len(Log) + k
    BY <1>3, <1>5
  <2>2. i \in SinceLastCheckpoint(Log) => Log'[i] = Log[i]
    BY <1>7
  <2>3. \A k \in 1..Len(more) : i = Len(Log) + k => Log'[i] = more[k]
    BY <1>3
  <2>4. i \in Ops(kind)' <=>
          /\ i \in SinceLastCheckpoint(Log)' /\ Log'[i].type = "OP" /\ Log'[i].op.kind = kind /\ Log'[i].txn \in Live'
    BY <1>6
  <2> QED
    BY <2>1, <2>2, <2>3, <2>4
<1> QED
  BY <1>2, <1>3, <1>4, <1>7, <1>8

\* A transaction begins.
LEMMA BeginRecovery ==
  ASSUME BaseInv, phase = "up", LoggedInv, AppliedInv, NEW t \in Xids, BeginStep(t), UNCHANGED <<replay, ckpt>>
  PROVE  LoggedInv' /\ AppliedInv' /\ \A v : Survivors(v)' = Survivors(v)
<1> DEFINE C == CommittedTxns(wal)
           rec == Record("BEGIN", t)
           more == <<rec>>
<1>1. rec \in LogRecord /\ rec.type = "BEGIN"
  BY RecordsAreTyped DEF Record
<1>2. begin(t) /\ UNCHANGED <<heap, index, failed>> /\ Buffer(more)
  BY DEF BeginStep
<1> HIDE DEF rec
<1>3. more \in Seq(LogRecord) /\ DOMAIN more = {1} /\ more[1] = rec
  BY <1>1, AtMostOne
<1> HIDE DEF more
<1>4. CommittedTxns(wal)' = C
  BY BeginBase
<1>5. t = nextTxnId /\ activeXids' = activeXids \cup {t} /\ abortedXids' = abortedXids
  BY <1>2 DEF begin
<1>6. Live' = Live \cup {t}
  BY <1>4, <1>5 DEF Live
<1>7. /\ \A x \in Live \cup abortedXids : x # t
      /\ INFINITY_TXN # t
  <2>1. /\ \A x \in Xids : state[x] = "unused" <=> x >= nextTxnId
        /\ \A x \in Xids : state[x] = "committed" <=> x \in C
        /\ activeXids = {x \in Xids : state[x] = "active"}
        /\ \A x \in abortedXids : state[x] = "aborted"
    BY DEF BaseInv, ManagerInv
  <2>2. state[t] = "unused"
    BY SMTT(30), <1>5, <2>1 DEF Xids
  <2>3. INFINITY_TXN # t
    BY SMTT(30), ConstantsAssumption DEF INFINITY_TXN, Xids
  <2> QED
    BY <2>1, <2>2, <2>3 DEF Live
<1>8. /\ \A kind, i : i \in Ops(kind)' <=>
           \/ /\ i \in SinceLastCheckpoint(Log) /\ Log[i].type = "OP" /\ Log[i].op.kind = kind
              /\ Log[i].txn \in Live'
           \/ \E k \in 1..Len(more) : /\ i = Len(Log) + k /\ more[k].type = "OP" /\ more[k].op.kind = kind
                                      /\ more[k].txn \in Live'
      /\ \A i \in SinceLastCheckpoint(Log) : Log'[i] = Log[i] /\ i \in 1..Len(Log)
      /\ DOMAIN more = 1..Len(more)
  BY <1>1, <1>2, <1>3, OpsGrow
<1>9. \A i \in SinceLastCheckpoint(Log) : Log[i].txn # t
  <2>1. \A i \in 1..Len(Log) : Log[i].txn < nextTxnId
    BY LogBelow
  <2>2. ~(nextTxnId < nextTxnId)
    BY SMTT(30), <1>5 DEF Xids
  <2> QED
    BY <1>5, <1>8, <2>1, <2>2
<1>10. /\ \A kind : Ops(kind)' = Ops(kind)
       /\ \A kind : \A i \in Ops(kind) : Log'[i] = Log[i] /\ Log[i].txn \in Live
  <2>1. \A kind, i : i \in Ops(kind)' <=>
          i \in SinceLastCheckpoint(Log) /\ Log[i].type = "OP" /\ Log[i].op.kind = kind /\ Log[i].txn \in Live
    BY SMTT(30), <1>1, <1>3, <1>6, <1>8, <1>9
  <2>2. \A kind, i : i \in Ops(kind) <=>
          i \in SinceLastCheckpoint(Log) /\ Log[i].type = "OP" /\ Log[i].op.kind = kind /\ Log[i].txn \in Live
    BY DEF Ops
  <2>3. \A kind, i : i \in Ops(kind)' <=> i \in Ops(kind)
    BY <2>1, <2>2
  <2>4. \A kind : Ops(kind)' = Ops(kind)
    BY SMTT(30), <2>3
  <2> QED
    BY <1>8, <2>2, <2>4
<1>11. \A x : Indexed(x)' <=> Indexed(x)
  BY <1>2 DEF Indexed, Indexable
<1>12. C \subseteq Live
  BY DEF Live
<1>13. /\ StampsLogged /\ EntriesLogged /\ CkptIndexed
       /\ CkptIds /\ RowsApplied /\ StampsApplied /\ EntriesApplied /\ HeapIds
  BY DEF LoggedInv, AppliedInv
<1> HIDE DEF C
<1>14. LoggedInv'
  <2>1. StampsLogged' /\ EntriesLogged' /\ CkptIndexed'
    BY <1>4, <1>6, <1>10, <1>11, <1>12, <1>13, KeepLogged DEF C
  <2> QED
    BY <2>1 DEF LoggedInv
<1>15. \A r \in 1..Len(heap) : (heap[r].xmin \in Live' => heap[r].xmin \in Live) /\ (heap[r].xmax \in Live' => heap[r].xmax \in Live)
  BY <1>6, <1>7, <1>13 DEF HeapIds
<1>16. RowsApplied' /\ StampsApplied' /\ EntriesApplied' /\ HeapIds'
  BY <1>2, <1>4, <1>5, <1>6, <1>10, <1>11, <1>13, <1>15, KeepApplied DEF C
<1>17. CkptIds'
  BY <1>4, <1>5, <1>13 DEF CkptIds, C
<1>18. \A v : Survivors(v)' = Survivors(v)
  BY <1>4, <1>10, KeepSurvivors DEF C
<1> QED
  BY <1>14, <1>16, <1>17, <1>18 DEF AppliedInv

\* A transaction commits: what it wrote goes on counting, and now it is visible.
LEMMA CommitRecovery ==
  ASSUME BaseInv, phase = "up", LoggedInv, AppliedInv, NEW t \in Xids, CommitStep(t), UNCHANGED <<replay, ckpt>>
  PROVE  LoggedInv' /\ AppliedInv'
<1> DEFINE C == CommittedTxns(wal)
           rec == Record("COMMIT", t)
           more == <<rec>>
<1>1. rec \in LogRecord /\ rec.type = "COMMIT"
  BY RecordsAreTyped DEF Record
<1>2. commit(t) /\ UNCHANGED <<heap, index, failed>> /\ ForceLog(more)
  BY DEF CommitStep
<1> HIDE DEF rec
<1>3. more \in Seq(LogRecord) /\ DOMAIN more = {1} /\ more[1] = rec
  BY <1>1, AtMostOne
<1> HIDE DEF more
<1>4. CommittedTxns(wal)' = C \cup {t} /\ t \in activeXids
  BY CommitBase
<1>5. activeXids' = activeXids \ {t} /\ abortedXids' = abortedXids
  BY <1>2 DEF commit
<1>6. Live' = Live
  BY <1>4, <1>5 DEF Live
<1>7. /\ \A kind, i : i \in Ops(kind)' <=>
           \/ /\ i \in SinceLastCheckpoint(Log) /\ Log[i].type = "OP" /\ Log[i].op.kind = kind
              /\ Log[i].txn \in Live'
           \/ \E k \in 1..Len(more) : /\ i = Len(Log) + k /\ more[k].type = "OP" /\ more[k].op.kind = kind
                                      /\ more[k].txn \in Live'
      /\ \A i \in SinceLastCheckpoint(Log) : Log'[i] = Log[i] /\ i \in 1..Len(Log)
      /\ DOMAIN more = 1..Len(more)
  BY <1>1, <1>2, <1>3, OpsGrow
<1>8. /\ \A kind : Ops(kind)' = Ops(kind)
      /\ \A kind : \A i \in Ops(kind) : Log'[i] = Log[i] /\ Log[i].txn \in Live
  <2>1. \A kind, i : i \in Ops(kind)' <=>
          i \in SinceLastCheckpoint(Log) /\ Log[i].type = "OP" /\ Log[i].op.kind = kind /\ Log[i].txn \in Live
    BY SMTT(30), <1>1, <1>3, <1>6, <1>7
  <2>2. \A kind, i : i \in Ops(kind) <=>
          i \in SinceLastCheckpoint(Log) /\ Log[i].type = "OP" /\ Log[i].op.kind = kind /\ Log[i].txn \in Live
    BY DEF Ops
  <2>3. \A kind, i : i \in Ops(kind)' <=> i \in Ops(kind)
    BY <2>1, <2>2
  <2>4. \A kind : Ops(kind)' = Ops(kind)
    BY SMTT(30), <2>3
  <2> QED
    BY <1>7, <2>2, <2>4
<1>9. \A x : Indexed(x)' <=> Indexed(x)
  BY <1>2 DEF Indexed, Indexable
<1>10. C \cup {t} \subseteq Live
  BY <1>4 DEF Live
<1>11. /\ StampsLogged /\ EntriesLogged /\ CkptIndexed
       /\ CkptIds /\ RowsApplied /\ StampsApplied /\ EntriesApplied /\ HeapIds
  BY DEF LoggedInv, AppliedInv
<1>12. t \notin C /\ t \notin abortedXids /\ t # INFINITY_TXN
  <2>1. /\ \A x \in Xids : state[x] = "committed" <=> x \in C
        /\ activeXids = {x \in Xids : state[x] = "active"}
        /\ \A x \in abortedXids : state[x] = "aborted"
    BY DEF BaseInv, ManagerInv
  <2>2. INFINITY_TXN # t
    BY SMTT(30), ConstantsAssumption DEF INFINITY_TXN, Xids
  <2> QED
    BY <1>4, <2>1, <2>2
<1> HIDE DEF C
<1>13. \A r \in 1..Len(ckpt.heap) : ckpt.heap[r].xmin # t /\ ckpt.heap[r].xmax # t
  BY <1>11, <1>12 DEF CkptIds, C
<1>14. LoggedInv'
  <2>1. StampsLogged' /\ EntriesLogged' /\ CkptIndexed'
    BY <1>4, <1>6, <1>8, <1>9, <1>10, <1>11, <1>13, KeepLogged DEF C
  <2> QED
    BY <2>1 DEF LoggedInv
<1>15. RowsApplied' /\ StampsApplied' /\ EntriesApplied' /\ HeapIds'
  BY <1>2, <1>4, <1>5, <1>6, <1>8, <1>9, <1>11, <1>13, KeepApplied DEF C
<1>16. CkptIds'
  BY <1>4, <1>5, <1>11 DEF CkptIds, C
<1> QED
  BY <1>14, <1>15, <1>16 DEF AppliedInv

\* A step that changes none of what the invariant speaks of.
LEMMA SameRecovery ==
  ASSUME UNCHANGED <<heap, index, failed, activeXids, abortedXids, wal, walBuf, replay, ckpt>>
  PROVE  /\ LoggedInv => LoggedInv'
         /\ AppliedInv => AppliedInv'
         /\ ReplayInv => ReplayInv'
         /\ \A v : Survivors(v)' = Survivors(v)
<1> DEFINE C == CommittedTxns(wal)
<1>1. C' = C /\ Log' = Log /\ SinceLastCheckpoint(Log)' = SinceLastCheckpoint(Log)
  BY DEF CommittedTxns, TxnsWith, Log, SinceLastCheckpoint
<1>2. Live' = Live /\ C \subseteq Live
  BY <1>1 DEF Live
<1>3. \A kind : Ops(kind)' = Ops(kind) /\ \A i \in Ops(kind) : Log[i].txn \in Live
  BY <1>1, <1>2 DEF Ops
<1>4. \A x : Indexed(x)' <=> Indexed(x)
  BY DEF Indexed, Indexable
<1> HIDE DEF C
<1>5. LoggedInv => LoggedInv'
  BY <1>1, <1>2, <1>3, <1>4, KeepLogged DEF LoggedInv, C
<1>6. CkptIds => CkptIds'
  BY <1>1 DEF CkptIds, C
<1>7. AppliedInv => AppliedInv'
  BY <1>1, <1>2, <1>3, <1>4, <1>6, KeepApplied DEF AppliedInv, C
<1>8. \A v : Survivors(v)' = Survivors(v)
  BY <1>1, <1>3, KeepSurvivors DEF C
<1>9. ReplayInv => ReplayInv'
  BY <1>1, <1>3 DEF ReplayInv
<1> QED
  BY <1>5, <1>7, <1>8, <1>9

=============================================================================
