------------------------------ MODULE Transaction ------------------------------
(***************************************************************************)
(* The transaction manager of transaction.py together with the INSERT,     *)
(* UPDATE and DELETE handlers of database.py that run under it, for one    *)
(* table with one column.  There is no crash here: Database.tla adds the   *)
(* log, the data file and restarts to this module.                         *)
(*                                                                         *)
(* The engine is single-threaded.  What interleaves is the statements of   *)
(* several open Transaction objects, so while a statement is in progress   *)
(* (stmt # Idle) no other operation starts.  A statement is executed one   *)
(* row at a time, as the loops of the handlers do, because a row can raise *)
(* and leave the rows before it done.                                      *)
(*                                                                         *)
(* A row version is a record of the tuple header and the column's value.   *)
(* A RID is the position of the version in the heap: the handlers never    *)
(* free a slot, so versions are only ever appended.                        *)
(***************************************************************************)
EXTENDS Naturals, Sequences, FiniteSets

CONSTANTS
  MaxTxn,        \* bound: transactions begun in a behaviour
  MaxRows,       \* bound: row versions in the heap
  MaxBatch,      \* bound: rows of one INSERT statement
  Values,        \* values of the column
  IndexKind,     \* the index on the column: "none", "plain" or "unique"
  CallerAborts   \* the caller never commits a transaction that saw an error

ASSUME ConstantsAssumption ==
  /\ MaxTxn \in Nat \ {0}
  /\ MaxRows \in Nat
  /\ MaxBatch \in Nat \ {0}
  /\ IndexKind \in {"none", "plain", "unique"}
  /\ CallerAborts \in BOOLEAN

VARIABLES
  nextTxnId,     \* TransactionManager._next_txn_id
  activeXids,    \* TransactionManager._active_xids
  abortedXids,   \* TransactionManager._aborted_xids
  state,         \* Transaction.state, "unused" before begin()
  snapshot,      \* Transaction.snapshot.active_xids (snapshot.xid is the id)
  heap,          \* row versions, by RID
  index,         \* entries of the index, dead ones included
  stmt,          \* the statement in progress
  todo,          \* the rows it still has to process
  failed         \* transactions of which a statement has raised

txnVars == <<nextTxnId, activeXids, abortedXids, state, snapshot>>
dataVars == <<heap, index>>
vars == <<txnVars, dataVars, stmt, todo, failed>>

Xids == 1..MaxTxn

\* The reserved transaction id that marks a version as not deleted.
INFINITY_TXN == MaxTxn + 1

Row == [xmin : Xids, xmax : Xids \cup {INFINITY_TXN}, val : Values]

\* pack_tuple: a new version, not deleted.  (Fault: the sentinel is forgotten.)
PackTupleZero(t, v) == [xmin |-> t, xmax |-> 0, val |-> v]

PackTuple(t, v) == [xmin |-> t, xmax |-> INFINITY_TXN, val |-> v]

WithXmax(row, x) == [xmin |-> row.xmin, xmax |-> x, val |-> row.val]

Entry == [key : Values, rid : Nat]

\* A statement in progress: the transaction, and whether execute() began it for
\* this statement only.  Its todo is the rows of an INSERT still to be inserted,
\* or the matches of an UPDATE or DELETE still to be gone through.
Idle == [kind |-> "idle"]

Statement ==
       {Idle}
  \cup [kind : {"insert", "delete"}, txn : Xids, owns : BOOLEAN]
  \cup [kind : {"update"}, txn : Xids, owns : BOOLEAN, val : Values]

-----------------------------------------------------------------------------
(* Visibility *)

Snapshot == [xid : Xids, active_xids : SUBSET Xids]

\* The snapshot of transaction t, and the one begin() would take now.
SnapshotOf(t) == [xid |-> t, active_xids |-> snapshot[t]]

NextSnapshot == [xid |-> nextTxnId, active_xids |-> activeXids]

CommittedBefore(s, other) == other < s.xid /\ other \notin s.active_xids

\* (Fault: a transaction goes on seeing what it has deleted itself.)
IsVisibleOwnDeletes(row, s) ==
  /\ row.xmin \notin abortedXids
  /\ row.xmin = s.xid \/ CommittedBefore(s, row.xmin)
  /\ \/ row.xmax = INFINITY_TXN
     \/ row.xmax \in abortedXids
     \/ ~CommittedBefore(s, row.xmax)

IsVisible(row, s) ==
  /\ row.xmin \notin abortedXids
  /\ row.xmin = s.xid \/ CommittedBefore(s, row.xmin)
  /\ \/ row.xmax = INFINITY_TXN
     \/ row.xmax \in abortedXids
     \/ ~(row.xmax = s.xid \/ CommittedBefore(s, row.xmax))

\* (Fault: only a deleter still running is a conflict.)
MayStampCommitted(t, xmax) == xmax = t \/ xmax \notin activeXids

\* check_write_conflict returns; otherwise it raises WriteConflictError.
MayStamp(t, xmax) == xmax = INFINITY_TXN \/ xmax = t \/ xmax \in abortedXids

Visible(s) == {r \in DOMAIN heap : IsVisible(heap[r], s)}

\* The RIDs a statement's row source yields: a scan of the heap, or the
\* entries of the index for the one key asked for, each checked for visibility.
ScanMatches(s, where) == {r \in Visible(s) : heap[r].val \in where}

IndexMatches(s, key) == {r \in Visible(s) : [key |-> key, rid |-> r] \in index}

\* The row source of a WHERE clause that holds for the values in `where': an
\* equality on the indexed column is looked up in the index, anything else scans.
RowSource(s, where) ==
  {ScanMatches(s, where)}
    \cup {IndexMatches(s, k) : k \in {v \in where : IndexKind # "none" /\ where = {v}}}

-----------------------------------------------------------------------------
(* Begin, commit and abort *)

Init ==
  /\ nextTxnId = 1
  /\ activeXids = {}
  /\ abortedXids = {}
  /\ state = [t \in Xids |-> "unused"]
  /\ snapshot = [t \in Xids |-> {}]
  /\ heap = <<>>
  /\ index = {}
  /\ stmt = Idle
  /\ todo = {}
  /\ failed = {}

begin(t) ==
  /\ nextTxnId <= MaxTxn
  /\ t = nextTxnId
  /\ nextTxnId' = nextTxnId + 1
  /\ snapshot' = [snapshot EXCEPT ![t] = activeXids]
  /\ activeXids' = activeXids \cup {t}
  /\ state' = [state EXCEPT ![t] = "active"]
  /\ UNCHANGED abortedXids

commit(t) ==
  /\ state[t] = "active"
  /\ activeXids' = activeXids \ {t}
  /\ state' = [state EXCEPT ![t] = "committed"]
  /\ UNCHANGED <<nextTxnId, abortedXids, snapshot>>

abort(t) ==
  /\ state[t] = "active"
  /\ activeXids' = activeXids \ {t}
  /\ abortedXids' = abortedXids \cup {t}
  /\ state' = [state EXCEPT ![t] = "aborted"]
  /\ UNCHANGED <<nextTxnId, snapshot>>

Begin ==
  /\ stmt = Idle
  /\ \E t \in Xids : begin(t)
  /\ UNCHANGED <<dataVars, stmt, todo, failed>>

Commit(t) ==
  /\ stmt = Idle
  /\ CallerAborts => t \notin failed
  /\ commit(t)
  /\ UNCHANGED <<dataVars, stmt, todo, failed>>

Abort(t) ==
  /\ stmt = Idle
  /\ abort(t)
  /\ UNCHANGED <<dataVars, stmt, todo, failed>>

-----------------------------------------------------------------------------
(* Statements *)

\* execute(sql, txn) enters a statement with the caller's open transaction, or
\* with one that it begins, and owns, for this statement only.
Enter(t, owns) ==
  /\ stmt = Idle
  /\ IF owns THEN begin(t)
             ELSE state[t] = "active" /\ UNCHANGED txnVars
  /\ UNCHANGED <<dataVars, failed>>

EntrySnapshot(t, owns) == IF owns THEN NextSnapshot ELSE SnapshotOf(t)

StartInsert(t, owns, vals) ==
  /\ Enter(t, owns)
  /\ Len(heap) + Len(vals) <= MaxRows
  /\ stmt' = [kind |-> "insert", txn |-> t, owns |-> owns]
  /\ todo' = vals

StartUpdate(t, owns, where, v) ==
  /\ Enter(t, owns)
  /\ todo' \in RowSource(EntrySnapshot(t, owns), where)
  /\ Len(heap) + Cardinality(todo') <= MaxRows
  /\ stmt' = [kind |-> "update", txn |-> t, owns |-> owns, val |-> v]

StartDelete(t, owns, where) ==
  /\ Enter(t, owns)
  /\ todo' \in RowSource(EntrySnapshot(t, owns), where)
  /\ stmt' = [kind |-> "delete", txn |-> t, owns |-> owns]

\* The `else' branch of execute(): an owned transaction commits.
FinishStatement ==
  /\ \/ stmt.kind = "insert" /\ todo = <<>>
     \/ stmt.kind \in {"update", "delete"} /\ todo = {}
  /\ IF stmt.owns THEN commit(stmt.txn) ELSE UNCHANGED txnVars
  /\ stmt' = Idle
  /\ todo' = {}
  /\ UNCHANGED <<dataVars, failed>>

\* The `except' branch: an owned transaction aborts, the caller's stays open.
Raise ==
  /\ IF stmt.owns THEN abort(stmt.txn) ELSE UNCHANGED txnVars
  /\ stmt' = Idle
  /\ todo' = {}
  /\ failed' = failed \cup {stmt.txn}

Proceed(rest) ==
  /\ todo' = rest
  /\ UNCHANGED <<txnVars, stmt, failed>>

\* (Fault: the check sees only what other transactions have committed.)
DuplicateOfOthers(rows, t, key, exclude) ==
  /\ IndexKind = "unique"
  /\ \E e \in index : /\ e.key = key
                      /\ e.rid \in DOMAIN rows \ exclude
                      /\ IsVisible(rows[e.rid], SnapshotOf(t))
                      /\ rows[e.rid].xmin # t

\* _check_unique_constraint raises: some entry for the key, other than the one
\* of the version being replaced, leads to a version the transaction sees.
Duplicate(rows, t, key, exclude) ==
  /\ IndexKind = "unique"
  /\ \E e \in index : /\ e.key = key
                      /\ e.rid \in DOMAIN rows \ exclude
                      /\ IsVisible(rows[e.rid], SnapshotOf(t))

\* (Fault: an UPDATE leaves the index to the entry of the version it replaces.)
InsertVersionUnindexed(rows, t, v, exclude, rest) ==
  /\ heap' = Append(rows, PackTuple(t, v))
  /\ IF Duplicate(heap', t, v, exclude)
       THEN Raise /\ UNCHANGED index
       ELSE /\ index' = IF IndexKind = "none" \/ exclude # {} THEN index
                         ELSE index \cup {[key |-> v, rid |-> Len(rows) + 1]}
            /\ Proceed(rest)

\* heap.insert and then _insert_into_indexes: the version is in the heap before
\* the constraint is checked, and stays there when the check raises.
InsertVersion(rows, t, v, exclude, rest) ==
  /\ heap' = Append(rows, PackTuple(t, v))
  /\ IF Duplicate(heap', t, v, exclude)
       THEN Raise /\ UNCHANGED index
       ELSE /\ index' = IF IndexKind = "none" THEN index
                         ELSE index \cup {[key |-> v, rid |-> Len(rows) + 1]}
            /\ Proceed(rest)

InsertRow ==
  /\ stmt.kind = "insert"
  /\ todo # <<>>
  /\ InsertVersion(heap, stmt.txn, Head(todo), {}, Tail(todo))

\* The row loops of UPDATE and DELETE go through the matches in RID order.
NextMatch(r) == r \in todo /\ \A q \in todo : r <= q

Conflict(r) ==
  /\ ~MayStamp(stmt.txn, heap[r].xmax)
  /\ Raise
  /\ UNCHANGED dataVars

Stamped(r) == [heap EXCEPT ![r] = WithXmax(heap[r], stmt.txn)]

UpdateRow ==
  /\ stmt.kind = "update"
  /\ \E r \in todo :
       /\ NextMatch(r)
       /\ \/ Conflict(r)
          \/ /\ MayStamp(stmt.txn, heap[r].xmax)
             /\ InsertVersion(Stamped(r), stmt.txn, stmt.val, {r}, todo \ {r})

DeleteRow ==
  /\ stmt.kind = "delete"
  /\ \E r \in todo :
       /\ NextMatch(r)
       /\ \/ Conflict(r)
          \/ /\ MayStamp(stmt.txn, heap[r].xmax)
             /\ heap' = Stamped(r)
             /\ UNCHANGED index
             /\ Proceed(todo \ {r})

Batches == UNION {[1..n -> Values] : n \in 1..MaxBatch}

Next ==
  \/ Begin
  \/ \E t \in Xids :
       \/ Commit(t)
       \/ Abort(t)
       \/ \E owns \in BOOLEAN :
            \/ \E vals \in Batches : StartInsert(t, owns, vals)
            \/ \E where \in (SUBSET Values) \ {{}} :
                 \/ StartDelete(t, owns, where)
                 \/ \E v \in Values : StartUpdate(t, owns, where, v)
  \/ InsertRow
  \/ UpdateRow
  \/ DeleteRow
  \/ FinishStatement

Spec == Init /\ [][Next]_vars

-----------------------------------------------------------------------------
(* The mapping to SnapshotIsolation *)

Committed(x) == x \in Xids /\ state[x] = "committed"

CommittedRows == {r \in DOMAIN heap : Committed(heap[r].xmin) /\ ~Committed(heap[r].xmax)}

\* What an active transaction sees of the work of others, what it has inserted
\* and what it has deleted, as sets of RIDs.
StartRows(t) ==
  {r \in DOMAIN heap :
     /\ state[t] = "active"
     /\ heap[r].xmin \notin abortedXids
     /\ CommittedBefore(SnapshotOf(t), heap[r].xmin)
     /\ \/ heap[r].xmax = INFINITY_TXN
        \/ heap[r].xmax \in abortedXids
        \/ ~CommittedBefore(SnapshotOf(t), heap[r].xmax)}

InsertedRows(t) == {r \in DOMAIN heap : state[t] = "active" /\ heap[r].xmin = t}

DeletedRows(t) == {r \in DOMAIN heap : state[t] = "active" /\ heap[r].xmax = t}

\* The rows of the abstract specification: a RID with the value stored there.
Identity(r) == <<r, heap[r].val>>

Identities(S) == {Identity(r) : r \in S}

SI == INSTANCE SnapshotIsolation WITH
  Txns <- Xids,
  Rows <- (1..MaxRows) \X Values,
  db <- Identities(CommittedRows),
  status <- state,
  start <- [t \in Xids |-> Identities(StartRows(t))],
  inserted <- [t \in Xids |-> Identities(InsertedRows(t))],
  deleted <- [t \in Xids |-> Identities(DeletedRows(t))]

-----------------------------------------------------------------------------
(* Properties *)

\* The variables hold values of the kinds their fields have in the code.
TypeOK ==
  /\ nextTxnId \in 1..(MaxTxn + 1)
  /\ activeXids \in SUBSET Xids
  /\ abortedXids \in SUBSET Xids
  /\ state \in [Xids -> {"unused", "active", "committed", "aborted"}]
  /\ snapshot \in [Xids -> SUBSET Xids]
  /\ heap \in Seq(Row)
  /\ index \in SUBSET Entry
  /\ stmt \in Statement
  /\ IF stmt.kind = "insert" THEN todo \in Seq(Values) ELSE todo \in SUBSET Nat
  /\ failed \in SUBSET Xids

\* is_visible implements the promised view: what a query of an active
\* transaction returns is the rows committed when it began, with its own
\* insertions and without its own deletions, whatever the other transactions
\* have written, committed or aborted since.
SeesItsView ==
  \A t \in activeXids : Identities(Visible(SnapshotOf(t))) = SI!View(t)

\* The version headers, the active and aborted sets and the conflict check
\* implement snapshot isolation: no step changes another transaction's view,
\* commits are atomic, aborted work never reaches the committed rows, and of two
\* concurrent transactions that delete the same row at most one commits.
ImplementsSI == SI!Spec

\* Between statements, the index scan and the heap scan that the planner chooses
\* from for `col = key' return the same rows, dead index entries notwithstanding.
IndexAgreesFor(t) ==
  stmt = Idle /\ IndexKind # "none" =>
    \A k \in Values : IndexMatches(SnapshotOf(t), k) = ScanMatches(SnapshotOf(t), {k})

\* No transaction was committed after one of its statements had raised.
ErrorsAborted == \A t \in failed : state[t] # "committed"

\* ... for a transaction none of whose statements has raised, as long as callers abort
\* the others (the row an error left behind in the heap has no index entry).
IndexAgreesWithScan == ErrorsAborted => \A t \in activeXids \ failed : IndexAgreesFor(t)

HoldersOf(t, k) == {r \in Visible(SnapshotOf(t)) : heap[r].val = k}

SoleHolder(t, r) == HoldersOf(t, heap[r].val) = {r}

\* A row that passes _check_unique_constraint is, in the view of the transaction
\* that wrote it, the only one with its key (with the same exception).  Two concurrent
\* transactions can each write such a row.
UniqueWhenWritten ==
  [][\A r \in 1..MaxRows, t \in Xids :
       /\ IndexKind = "unique"
       /\ r \in DOMAIN heap' \ DOMAIN heap
       /\ t = stmt.txn
       /\ t \notin failed'
       /\ ErrorsAborted
       => SoleHolder(t, r)']_vars

-----------------------------------------------------------------------------
(* The inductive invariant behind ImplementsSI *)

\* Ids are handed out in order, and the manager's sets agree with the states of
\* the Transaction objects.
IdsInv ==
  /\ \A t \in Xids : state[t] = "unused" <=> t >= nextTxnId
  /\ activeXids = {t \in Xids : state[t] = "active"}
  /\ abortedXids = {t \in Xids : state[t] = "aborted"}

\* What a snapshot counts as committed before it has an outcome that can no
\* longer change.
SnapshotInv ==
  \A t, x \in Xids :
    t < nextTxnId /\ CommittedBefore(SnapshotOf(t), x) => state[x] \in {"committed", "aborted"}

\* A version is stamped by a begun transaction that saw it.
Header(row) ==
  /\ row.xmin < nextTxnId
  /\ row.xmax # INFINITY_TXN =>
       /\ row.xmax < nextTxnId
       /\ \/ row.xmin = row.xmax
          \/ row.xmin \notin abortedXids /\ CommittedBefore(SnapshotOf(row.xmax), row.xmin)

HeaderInv == \A r \in DOMAIN heap : Header(heap[r])

\* The matches a statement has still to process are visible to it: materialised
\* before the first row was stamped, they have not gone stale.
StatementInv ==
  stmt.kind # "idle" =>
    /\ state[stmt.txn] = "active"
    /\ stmt.kind \in {"update", "delete"} => todo \subseteq Visible(SnapshotOf(stmt.txn))

\* The bound on row versions leaves room for the statement in progress.
SpaceInv ==
  /\ Len(heap) <= MaxRows
  /\ stmt.kind = "insert" => Len(heap) + Len(todo) <= MaxRows
  /\ stmt.kind = "update" => Len(heap) + Cardinality(todo) <= MaxRows

\* A row of a statement of t: the versions in d (none or one) are stamped and
\* n (0 or 1) versions are appended.
Writes(t, d, n) ==
  /\ heap' \in Seq(Row)
  /\ Len(heap') = Len(heap) + n
  /\ \A r \in 1..Len(heap) : heap'[r] = IF r \in d THEN WithXmax(heap[r], t) ELSE heap[r]
  /\ n = 1 => /\ heap'[Len(heap) + 1].xmin = t
              /\ heap'[Len(heap) + 1].xmax = INFINITY_TXN
  /\ d \subseteq Visible(SnapshotOf(t))
  /\ \A r \in d : MayStamp(t, heap[r].xmax)

\* The inductive invariant: snapshots are settled, headers are those of
\* transactions that saw what they stamped, matches are fresh.
IInv == TypeOK /\ IdsInv /\ SnapshotInv /\ HeaderInv /\ StatementInv /\ SpaceInv

\* What IndexAgreesWithScan and UniqueWhenWritten rest on: an entry names a version
\* that holds its key, and every version has its entry, except those of a
\* transaction of which a statement has raised.
EntriesInv ==
  /\ \A e \in index : e.rid \in DOMAIN heap /\ heap[e.rid].val = e.key
  /\ IndexKind # "none" =>
       \A r \in DOMAIN heap :
         heap[r].xmin \notin failed => [key |-> heap[r].val, rid |-> r] \in index
=============================================================================
