------------------------------- MODULE Database -------------------------------
(***************************************************************************)
(* The database of database.py over the write-ahead log of wal.py and the  *)
(* data file: Transaction.tla with every state change logged as the code   *)
(* logs it, with write-backs of pages, checkpoints, orderly shutdowns,     *)
(* process deaths and recovery.                                            *)
(*                                                                         *)
(* The heap is one page and the index one leaf, each written to the data   *)
(* file as a whole.  The log is a sequence of records; what was appended   *)
(* since the last flush is in a buffer, of which a process death keeps     *)
(* some prefix (the buffer spills to the file whenever it is full).        *)
(* Records cut in two are left to Wal.tla.                                 *)
(***************************************************************************)
EXTENDS Transaction

CONSTANTS
  Events,         \* which of the events below happen
  MaxWriteBacks,  \* bound: write-backs of pages in a behaviour
  MaxStops        \* bound: shutdowns and process deaths

ASSUME EventsAssumption ==
  /\ Events \subseteq {"checkpoint", "close", "crash"}
  /\ MaxWriteBacks \in Nat
  /\ MaxStops \in Nat

VARIABLES
  phase,       \* "up", "down" (no process) or "replay" (in Database.__init__)
  wal,         \* the records in the log file
  walBuf,      \* the records in the buffer of the append handle
  diskHeap,    \* the heap page in the data file
  diskIndex,   \* the index page in the data file
  replay,      \* the operations recovery has still to apply, as positions in wal
  writeBacks,  \* write-backs of pages so far
  stops,       \* shutdowns and process deaths so far
  promised,    \* history: the contents as of the last commit that returned
  dead,        \* history: RIDs of versions whose writer aborted or died
  ckpt,        \* history: heap and index at the last checkpoint
  sound,       \* history: every recovery so far met RecoveryAssumptions
  covered      \* history: no dead version has lost the BEGIN that hides it

logVars == <<wal, walBuf>>
diskVars == <<diskHeap, diskIndex>>
countVars == <<writeBacks, stops>>
historyVars == <<promised, dead, ckpt, sound, covered>>
dbVars == <<vars, phase, logVars, diskVars, replay, countVars, historyVars>>

-----------------------------------------------------------------------------
(* The log *)

NoOp == [kind |-> "none"]

Record(type, t) == [type |-> type, txn |-> t, op |-> NoOp]
Operation(t, op) == [type |-> "OP", txn |-> t, op |-> op]

HeapInsert(row, r) == [kind |-> "heap_insert", tuple |-> row, rid |-> r]
HeapSetXmax(r, x) == [kind |-> "heap_set_xmax", rid |-> r, xmax |-> x]
BtreeInsert(k, r) == [kind |-> "btree_insert", key |-> k, rid |-> r]

\* _append, and _append followed by flush().
Buffer(records) == walBuf' = walBuf \o records /\ UNCHANGED wal

ForceLog(records) == wal' = wal \o walBuf \o records /\ walBuf' = <<>>

\* Positions in a log stand for the records there, in the order of the log.
SinceLastCheckpoint(log) ==
  {i \in DOMAIN log : \A j \in DOMAIN log : log[j].type = "CHECKPOINT" => j < i}

TxnsWith(log, at, type) == {log[i].txn : i \in {j \in at : log[j].type = type}}

CommittedTxns(log) == TxnsWith(log, DOMAIN log, "COMMIT")

CommittedOperations(log) ==
  LET since == SinceLastCheckpoint(log)
  IN  {i \in since : log[i].type = "OP" /\ log[i].txn \in TxnsWith(log, since, "COMMIT")}

\* (Fault: an explicit ABORT record is needed for a transaction to count.)
UncommittedTxnsExplicit(log) == TxnsWith(log, SinceLastCheckpoint(log), "ABORT")

UncommittedTxns(log) ==
  LET since == SinceLastCheckpoint(log)
  IN  TxnsWith(log, since, "BEGIN") \ TxnsWith(log, since, "COMMIT")

\* The largest id of a finite set that is not empty.
MaxId(ids) == CHOOSE x \in ids : \A y \in ids : x >= y

\* (Fault: only the records since the last checkpoint are looked at.)
NextTxnIdSinceCheckpoint(log) ==
  1 + MaxId({0} \cup {log[i].txn : i \in SinceLastCheckpoint(log)})

NextTxnId(log) == 1 + MaxId({0} \cup {log[i].txn : i \in DOMAIN log})

-----------------------------------------------------------------------------
(* The contents a client sees *)

\* How many rows a transaction that began now would see with each value.
Contents == [v \in Values |-> Cardinality(ScanMatches(NextSnapshot, {v}))]

DbInit ==
  /\ Init
  /\ phase = "up"
  /\ wal = <<>> /\ walBuf = <<>>
  /\ diskHeap = <<>> /\ diskIndex = {}
  /\ replay = {}
  /\ writeBacks = 0 /\ stops = 0
  /\ promised = [v \in Values |-> 0]
  /\ dead = {}
  /\ ckpt = [heap |-> <<>>, index |-> {}]
  /\ sound = TRUE
  /\ covered = TRUE

-----------------------------------------------------------------------------
(* Operation: the steps of Transaction.tla and what they log *)

\* The records of one row of a statement, in the order the handlers append them.
RowRecords ==
  LET t == stmt.txn
      stamped == {r \in DOMAIN heap : heap'[r] # heap[r]}
      new == Len(heap')
  IN  (IF stamped = {} THEN <<>>
         ELSE <<Operation(t, HeapSetXmax(CHOOSE r \in stamped : TRUE, t))>>)
      \o (IF new = Len(heap) THEN <<>> ELSE <<Operation(t, HeapInsert(heap'[new], new))>>)
      \o (IF new = Len(heap) \/ IndexKind = "none" \/ stmt' # stmt THEN <<>>
            ELSE <<Operation(t, BtreeInsert(heap'[new].val, new))>>)
      \o (IF state'[t] = "aborted" THEN <<Record("ABORT", t)>> ELSE <<>>)

OwnBegin(t, owns) == IF owns THEN <<Record("BEGIN", t)>> ELSE <<>>

Operate ==
  \/ Begin /\ Buffer(<<Record("BEGIN", nextTxnId)>>)
  \/ \E t \in Xids :
       \/ Commit(t) /\ ForceLog(<<Record("COMMIT", t)>>)
       \/ Abort(t) /\ Buffer(<<Record("ABORT", t)>>)
       \/ \E owns \in BOOLEAN :
            /\ \/ \E vals \in Batches : StartInsert(t, owns, vals)
               \/ \E where \in (SUBSET Values) \ {{}} :
                    \/ StartDelete(t, owns, where)
                    \/ \E v \in Values : StartUpdate(t, owns, where, v)
            /\ Buffer(OwnBegin(t, owns))
  \/ (InsertRow \/ UpdateRow \/ DeleteRow) /\ Buffer(RowRecords)
  \/ FinishStatement /\ IF stmt.owns THEN ForceLog(<<Record("COMMIT", stmt.txn)>>)
                                     ELSE UNCHANGED logVars

Running ==
  /\ phase = "up"
  /\ Operate
  /\ promised' = IF \E t \in Xids : state[t] # "committed" /\ state'[t] = "committed"
                   THEN Contents' ELSE promised
  /\ dead' = dead \cup {r \in DOMAIN heap' : heap'[r].xmin \in abortedXids' \ abortedXids}
  /\ UNCHANGED <<phase, diskVars, replay, countVars, ckpt, sound, covered>>

-----------------------------------------------------------------------------
(* Write-back, checkpoint, shutdown and process death *)

\* An eviction writes a dirty page back, whoever has written to it.
WriteBack ==
  /\ phase # "down"
  /\ writeBacks < MaxWriteBacks
  /\ writeBacks' = writeBacks + 1
  /\ \/ diskHeap # heap /\ diskHeap' = heap /\ UNCHANGED diskIndex
     \/ diskIndex # index /\ diskIndex' = index /\ UNCHANGED diskHeap
  /\ covered' = (covered /\ TxnsWith(walBuf, DOMAIN walBuf, "BEGIN") = {})
  /\ UNCHANGED <<vars, phase, logVars, replay, stops, promised, dead, ckpt, sound>>

FlushAll == diskHeap' = heap /\ diskIndex' = index

\* (Bound: a checkpoint right after a checkpoint, which changes nothing, is left out.)
Checkpoint ==
  /\ "checkpoint" \in Events
  /\ phase = "up" /\ stmt = Idle
  /\ activeXids = {}
  /\ LET log == wal \o walBuf IN log # <<>> /\ log[Len(log)].type # "CHECKPOINT"
  /\ FlushAll
  /\ ForceLog(<<Record("CHECKPOINT", 0)>>)
  /\ ckpt' = [heap |-> heap, index |-> index]
  /\ covered' = (covered /\ dead = {})
  /\ UNCHANGED <<vars, phase, replay, countVars, promised, dead, sound>>

\* The process is gone: what a later one will find is the two files.
ProcessEnds ==
  /\ stops < MaxStops
  /\ stops' = stops + 1
  /\ phase' = "down"
  /\ nextTxnId' = 1 /\ activeXids' = {} /\ abortedXids' = {}
  /\ state' = [t \in Xids |-> "unused"] /\ snapshot' = [t \in Xids |-> {}]
  /\ heap' = diskHeap' /\ index' = diskIndex'
  /\ stmt' = Idle /\ todo' = {} /\ failed' = {}
  /\ replay' = {}
  /\ dead' = {r \in DOMAIN diskHeap' : r \in dead \/ state[diskHeap'[r].xmin] # "committed"}
  /\ UNCHANGED <<writeBacks, promised, ckpt, sound, covered>>

Close ==
  /\ "close" \in Events
  /\ phase = "up" /\ stmt = Idle
  /\ FlushAll
  /\ ForceLog(<<>>)
  /\ ProcessEnds

Crash ==
  /\ "crash" \in Events
  /\ phase # "down"
  /\ \E n \in 0..Len(walBuf) : wal' = wal \o SubSeq(walBuf, 1, n)
  /\ walBuf' = <<>>
  /\ UNCHANGED diskVars
  /\ ProcessEnds

-----------------------------------------------------------------------------
(* Recovery *)

\* What recovery takes for granted about the files it finds:
\*  - no page has been written to the data file since the last checkpoint;
\*  - every id stamped on a page of that checkpoint is of a committed transaction;
\*  - appended again in log order, the committed inserts land on the RIDs they had.
RecoveryAssumptions ==
  LET inserts == {i \in CommittedOperations(wal) : wal[i].op.kind = "heap_insert"}
  IN  /\ ckpt = [heap |-> diskHeap, index |-> diskIndex]
      /\ \A r \in DOMAIN diskHeap :
           {diskHeap[r].xmin, diskHeap[r].xmax} \subseteq CommittedTxns(wal) \cup {INFINITY_TXN}
      /\ \A i \in inserts : wal[i].op.rid = Len(diskHeap) + Cardinality({j \in inserts : j <= i})

\* Database.__init__ up to _recover().
Open ==
  /\ phase = "down"
  /\ phase' = "replay"
  /\ nextTxnId' = NextTxnId(wal)
  /\ abortedXids' = UncommittedTxns(wal)
  /\ state' = [t \in Xids |-> IF t >= nextTxnId' THEN "unused"
                              ELSE IF t \in CommittedTxns(wal) THEN "committed"
                              ELSE "aborted"]
  /\ replay' = CommittedOperations(wal)
  /\ sound' = (sound /\ RecoveryAssumptions)
  /\ UNCHANGED <<activeXids, snapshot, dataVars, stmt, todo, failed>>
  /\ UNCHANGED <<logVars, diskVars, countVars, promised, dead, ckpt, covered>>

\* (Fault: the stamp of a replayed DELETE or UPDATE is lost.)
ApplyRecoveryOpUnstamped(op) ==
  \/ /\ op.kind = "heap_insert"
     /\ Len(heap) < MaxRows
     /\ heap' = Append(heap, op.tuple)
     /\ UNCHANGED index
  \/ /\ op.kind = "heap_set_xmax"
     /\ UNCHANGED dataVars
  \/ /\ op.kind = "btree_insert"
     /\ index' = index \cup {[key |-> op.key, rid |-> op.rid]}
     /\ UNCHANGED heap

ApplyRecoveryOp(op) ==
  \/ /\ op.kind = "heap_insert"
     /\ Len(heap) < MaxRows
     /\ heap' = Append(heap, op.tuple)
     /\ UNCHANGED index
  \/ /\ op.kind = "heap_set_xmax"
     /\ heap' = IF op.rid \in DOMAIN heap
                  THEN [heap EXCEPT ![op.rid] = WithXmax(heap[op.rid], op.xmax)]
                  ELSE heap
     /\ UNCHANGED index
  \/ /\ op.kind = "btree_insert"
     /\ index' = index \cup {[key |-> op.key, rid |-> op.rid]}
     /\ UNCHANGED heap

ReplayOp ==
  /\ phase = "replay"
  /\ \E i \in replay : /\ \A j \in replay : i <= j
                       /\ ApplyRecoveryOp(wal[i].op)
                       /\ replay' = replay \ {i}
  /\ UNCHANGED <<txnVars, stmt, todo, failed, phase, logVars, diskVars, countVars, historyVars>>

\* flush_all() at the end of _recover(); no CHECKPOINT record is written.
FinishRecovery ==
  /\ phase = "replay" /\ replay = {}
  /\ phase' = "up"
  /\ FlushAll
  /\ UNCHANGED <<vars, logVars, replay, countVars, historyVars>>

DbNext ==
  \/ Running
  \/ WriteBack
  \/ Checkpoint
  \/ Close
  \/ Crash
  \/ Open
  \/ ReplayOp
  \/ FinishRecovery

DbSpec == DbInit /\ [][DbNext]_dbVars

-----------------------------------------------------------------------------
(* Properties *)

\* Recovery is exact when its assumptions are met: a transaction that begins
\* after it sees the rows of every commit that returned and no others, by a
\* scan and through the index, and so it stays until the next recovery.  (A caller
\* who commits what a unique index refused leaves a row with no entry: see
\* IndexAgreesWithScan.)
RecoveryExact ==
  phase = "up" /\ sound =>
    /\ Contents = promised
    /\ IndexKind # "none" /\ (IndexKind = "unique" => CallerAborts) =>
         \A k \in Values : IndexMatches(NextSnapshot, k) = ScanMatches(NextSnapshot, {k})

\* The id of a transaction whose COMMIT is in the log is never given out again,
\* whatever checkpoints and restarts lie between.
CommittedIdsNotReused ==
  phase = "up" => \A t \in CommittedTxns(wal) : t < nextTxnId

\* close()'s docstring: `an orderly close is durable because everything reached disk'.
CloseIsDurable == phase = "up" => Contents = promised

\* transaction.py's docstring: what an aborted (or dead) transaction wrote is
\* treated `as if it never happened, at every snapshot, forever'.  It is, while every
\* page written back had the BEGINs of its writers in the log file, and every
\* checkpoint was taken with no dead version in the heap.
DeadInvisibleWhileCovered ==
  phase = "up" /\ covered => \A t \in activeXids : Visible(SnapshotOf(t)) \cap dead = {}
=============================================================================
