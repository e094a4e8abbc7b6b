--------------------------------- MODULE Wal ---------------------------------
(***************************************************************************)
(* The file format of wal.py across crashes.  The log is a file of bytes,  *)
(* of which a record takes a header and, if it is an operation, a payload. *)
(* Appended bytes wait in a buffer, which empties into the file at its own *)
(* pace; a crash loses what is still in it, and can so cut a record short. *)
(*                                                                         *)
(* A record is cut at one of a few places: it is a sequence of cells, two  *)
(* of the header and those of the payload.  Records are numbered in the    *)
(* order they were appended.  What the records say is in Database.tla.     *)
(***************************************************************************)
EXTENDS Integers, Sequences, SequencesExt

CONSTANTS
  PayloadCells,  \* of an operation
  MaxRecords,    \* bound: records appended
  MaxCrashes     \* bound: crashes and closes

ASSUME WalAssumption ==
  PayloadCells \in Nat \ {0} /\ MaxRecords \in Nat /\ MaxCrashes \in Nat

VARIABLES
  file,          \* the bytes of the log file
  buffer,        \* the bytes written to _append_file and not yet in the file
  appended,      \* history: the types of the records appended
  flushed,       \* history: the records that a flush() came after
  flushing,      \* log_commit or log_checkpoint has written its record and not yet flushed
  behindTorn,    \* history: a record was appended behind one that was cut short
  crashes

walVars == <<file, buffer, appended, flushed, flushing, behindTorn, crashes>>

HeaderCells == 2

RecordCells(type) == IF type = "OP" THEN HeaderCells + PayloadCells ELSE HeaderCells

Cells(n, type) == [k \in 1..RecordCells(type) |-> <<n, k>>]

Init ==
  /\ file = <<>>
  /\ buffer = <<>>
  /\ appended = <<>>
  /\ flushed = {}
  /\ flushing = FALSE
  /\ behindTorn = FALSE
  /\ crashes = 0

-----------------------------------------------------------------------------
(* Reading *)

\* Cells i.. of the file are those of one record, from its first to its last.
WholeRecordAt(log, i) ==
  /\ i <= Len(log)
  /\ log[i][2] = 1
  /\ LET n == log[i][1]
         size == RecordCells(appended[n])
     IN  i + size - 1 <= Len(log) /\ SubSeq(log, i, i + size - 1) = Cells(n, appended[n])

\* _iter_records: the records one after the other, up to the end of the file or to a record
\* that is cut short.  Where other bytes follow one that is cut short they are taken for the
\* rest of it.  That reads as an error, as a payload longer than the file or as a record of
\* parts of both; none of the records that were appended there is returned.
RECURSIVE RecordsFrom(_, _)
RecordsFrom(log, i) ==
  IF WholeRecordAt(log, i)
    THEN <<log[i][1]>> \o RecordsFrom(log, i + RecordCells(appended[log[i][1]]))
    ELSE <<>>

ReadAll(log) == RecordsFrom(log, 1)

TornTail(log) == Len(log) # FoldSeq(LAMBDA n, sum : sum + RecordCells(appended[n]), 0, ReadAll(log))

-----------------------------------------------------------------------------
(* Writing *)

Types == {"BEGIN", "OP", "COMMIT", "ABORT", "CHECKPOINT"}

\* (Fault: a commit is not flushed before another record is written.)
LogUnforced(type) ==
  /\ ~flushing
  /\ Len(appended) < MaxRecords
  /\ appended' = Append(appended, type)
  /\ buffer' = buffer \o Cells(Len(appended) + 1, type)
  /\ flushing' = FALSE
  /\ flushed' = IF type = "COMMIT" THEN flushed \cup {Len(appended) + 1} ELSE flushed
  /\ behindTorn' = (behindTorn \/ (buffer = <<>> /\ TornTail(file)))
  /\ UNCHANGED <<file, crashes>>

\* log_begin, log_operation, log_commit, log_abort, log_checkpoint: a record is appended,
\* and the log of a COMMIT or CHECKPOINT is flushed before anything else is done.
Log(type) ==
  /\ ~flushing
  /\ Len(appended) < MaxRecords
  /\ appended' = Append(appended, type)
  /\ buffer' = buffer \o Cells(Len(appended) + 1, type)
  /\ flushing' = (type \in {"COMMIT", "CHECKPOINT"})
  /\ behindTorn' = (behindTorn \/ (buffer = <<>> /\ TornTail(file)))
  /\ UNCHANGED <<file, flushed, crashes>>

\* The records that flush() makes durable, of those not lost in an earlier crash.
Written == {n \in DOMAIN appended : <<n, RecordCells(appended[n])>> \in Range(file \o buffer)}

Flush ==
  /\ flushing
  /\ file' = file \o buffer
  /\ buffer' = <<>>
  /\ flushed' = Written
  /\ flushing' = FALSE
  /\ UNCHANGED <<appended, behindTorn, crashes>>

\* The buffer is full, and some of it is written out.
Drain ==
  /\ \E n \in 1..Len(buffer) :
       /\ file' = file \o SubSeq(buffer, 1, n)
       /\ buffer' = SubSeq(buffer, n + 1, Len(buffer))
  /\ UNCHANGED <<appended, flushed, flushing, behindTorn, crashes>>

\* close(), and the log is opened again.
Close ==
  /\ ~flushing
  /\ crashes < MaxCrashes
  /\ file' = file \o buffer
  /\ buffer' = <<>>
  /\ flushed' = Written
  /\ crashes' = crashes + 1
  /\ UNCHANGED <<appended, flushing, behindTorn>>

\* (Fault: the file is opened for writing and not for appending.)
CrashTruncating ==
  /\ crashes < MaxCrashes
  /\ file' = <<>>
  /\ buffer' = <<>>
  /\ flushing' = FALSE
  /\ crashes' = crashes + 1
  /\ UNCHANGED <<appended, flushed, behindTorn>>

\* The process dies, and the log is opened again for appending to what is there.
Crash ==
  /\ crashes < MaxCrashes
  /\ buffer' = <<>>
  /\ flushing' = FALSE
  /\ crashes' = crashes + 1
  /\ UNCHANGED <<file, appended, flushed, behindTorn>>

Next == (\E type \in Types : Log(type)) \/ Flush \/ Drain \/ Close \/ Crash

Spec == Init /\ [][Next]_walVars

-----------------------------------------------------------------------------
(* Properties *)

\* As long as nothing was appended behind a record that was cut short, recovery reads every
\* record that was flushed, and every other record that is whole, in order.
WholeRecordsRead ==
  ~behindTorn => /\ flushed \subseteq Range(ReadAll(file))
                 /\ ReadAll(file) = SelectSeq([n \in DOMAIN appended |-> n],
                                      LAMBDA n : <<n, RecordCells(appended[n])>> \in Range(file))

\* A record that one recovery reads is read by every later one, in the same place, as long
\* as nothing was appended behind a record that was cut short.
ReadsOnlyGrow == [][~behindTorn' => IsPrefix(ReadAll(file), ReadAll(file)')]_walVars
=============================================================================
