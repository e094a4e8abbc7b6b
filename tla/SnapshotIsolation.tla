--------------------------- MODULE SnapshotIsolation ---------------------------
(***************************************************************************)
(* What minirel's transactions promise, with no version headers, no        *)
(* aborted-id set and no visibility rule: a transaction works on a private *)
(* copy of the rows committed when it began, and its insertions and        *)
(* deletions reach the database together, when it commits, provided that   *)
(* every row it deletes is still there (first committer wins).             *)
(***************************************************************************)

CONSTANTS
  Txns,      \* transaction identities, each used once
  Rows       \* row identities, with their contents

VARIABLES
  db,        \* the committed rows
  status,    \* "unused", "active", "committed" or "aborted"
  start,     \* the rows committed when the transaction began
  inserted,  \* the rows an active transaction has inserted
  deleted    \* the rows an active transaction has deleted

siVars == <<db, status, start, inserted, deleted>>

\* What a query of transaction t returns.
View(t) == (start[t] \cup inserted[t]) \ deleted[t]

\* A row identity that no transaction has used or can see.
Fresh(r) ==
  /\ r \notin db
  /\ \A t \in Txns : r \notin start[t] \cup inserted[t] \cup deleted[t]

TypeOK ==
  /\ db \in SUBSET Rows
  /\ status \in [Txns -> {"unused", "active", "committed", "aborted"}]
  /\ start \in [Txns -> SUBSET Rows]
  /\ inserted \in [Txns -> SUBSET Rows]
  /\ deleted \in [Txns -> SUBSET Rows]

Init ==
  /\ db = {}
  /\ status = [t \in Txns |-> "unused"]
  /\ start = [t \in Txns |-> {}]
  /\ inserted = [t \in Txns |-> {}]
  /\ deleted = [t \in Txns |-> {}]

Begin(t) ==
  /\ status[t] = "unused"
  /\ status' = [status EXCEPT ![t] = "active"]
  /\ start' = [start EXCEPT ![t] = db]
  /\ UNCHANGED <<db, inserted, deleted>>

\* One row of a statement: an insertion, a deletion, or both for an update.
Write(t, ins, del) ==
  /\ status[t] = "active"
  /\ del \subseteq View(t)
  /\ inserted' = [inserted EXCEPT ![t] = @ \cup ins]
  /\ deleted' = [deleted EXCEPT ![t] = @ \cup del]
  /\ \A r \in ins : Fresh(r)
  /\ UNCHANGED <<db, status, start>>

Forget(t) ==
  /\ start' = [start EXCEPT ![t] = {}]
  /\ inserted' = [inserted EXCEPT ![t] = {}]
  /\ deleted' = [deleted EXCEPT ![t] = {}]

Commit(t) ==
  /\ status[t] = "active"
  /\ deleted[t] \subseteq db \cup inserted[t]
  /\ db' = (db \cup inserted[t]) \ deleted[t]
  /\ status' = [status EXCEPT ![t] = "committed"]
  /\ Forget(t)

Abort(t) ==
  /\ status[t] = "active"
  /\ status' = [status EXCEPT ![t] = "aborted"]
  /\ Forget(t)
  /\ UNCHANGED db

\* A statement writes at most one new row and deletes at most one at a time.
AtMostOne(S) == {{}} \cup {{r} : r \in S}

Next ==
  \E t \in Txns :
    \/ Begin(t)
    \/ Commit(t)
    \/ Abort(t)
    \/ \E ins \in AtMostOne(Rows), del \in AtMostOne(View(t)) : Write(t, ins, del)

Spec == Init /\ [][Next]_siVars
=============================================================================
