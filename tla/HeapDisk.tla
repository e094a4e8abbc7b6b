------------------------------- MODULE HeapDisk -------------------------------
(***************************************************************************)
(* Heap files across a crash: the pages of HeapFile.tla are those in the   *)
(* buffer pool, and reach the file when the pool evicts or flushes them,   *)
(* in any order.  The file grows at once when a page is allocated, by a    *)
(* page of zeros.  CREATE TABLE (Catalog.create_table) formats the first   *)
(* page, flushes it and saves the catalog, one after the other; no other   *)
(* statement runs in between, but the process can die.                     *)
(*                                                                         *)
(* flush_page hands the page to write_page, which leaves it in the buffer  *)
(* of the file object.  It leaves that buffer at the latest with the next  *)
(* allocate_page, which flushes the file object; if the process is killed  *)
(* before, it is lost.                                                     *)
(*                                                                         *)
(* What the rows of a table are after a crash is in Database.tla; this     *)
(* module is about the chain of pages that leads to them.                  *)
(***************************************************************************)
EXTENDS HeapFile

VARIABLES
  disk,         \* the pages in the file
  fileBuf,      \* what a flush_page has left in the buffer of the file object
  saved,        \* heap_first_page_id of each table, in the catalog file
  ddl,          \* how far create_table has come
  lost          \* history: tables whose page was in that buffer at a crash

diskVars == <<heapVars, disk, fileBuf, saved, ddl, lost>>

Idle == \A t \in Tables : ddl[t] = "idle"

NoWrite == [id |-> NoPage, data |-> ZeroPage]

DiskInit ==
  /\ Init
  /\ disk = [p \in PageIds |-> ZeroPage]
  /\ fileBuf = NoWrite
  /\ saved = [t \in Tables |-> NoPage]
  /\ ddl = [t \in Tables |-> "idle"]
  /\ lost = {}

\* The file once the buffer of the file object has been written out.
Flushed == [p \in PageIds |-> IF p = fileBuf.id THEN fileBuf.data ELSE disk[p]]

FileFlush == disk' = Flushed /\ fileBuf' = NoWrite

CreateTable(t) ==
  /\ Idle
  /\ Create(t)
  /\ FileFlush
  /\ ddl' = [ddl EXCEPT ![t] = "flush"]
  /\ UNCHANGED <<saved, lost>>

\* (Fault: the page is left to the next eviction or checkpoint.)
FlushFirstPageLater(t) ==
  /\ ddl[t] = "flush"
  /\ ddl' = [ddl EXCEPT ![t] = "save"]
  /\ UNCHANGED <<heapVars, disk, fileBuf, saved, lost>>

\* flush_page; the page is still dirty.
FlushFirstPage(t) ==
  /\ ddl[t] = "flush"
  /\ fileBuf' = [id |-> first[t], data |-> page[first[t]]]
  /\ ddl' = [ddl EXCEPT ![t] = "save"]
  /\ UNCHANGED <<heapVars, disk, saved, lost>>

SaveCatalog(t) ==
  /\ ddl[t] = "save"
  /\ saved' = [saved EXCEPT ![t] = first[t]]
  /\ ddl' = [ddl EXCEPT ![t] = "idle"]
  /\ UNCHANGED <<heapVars, disk, fileBuf, lost>>

\* A statement opens the table, and stores rows.
OpenTable(t) == Idle /\ Construct(t) /\ UNCHANGED <<disk, fileBuf, saved, ddl, lost>>

InsertRow(t, r) == Idle /\ Insert(t, r) /\ UNCHANGED <<disk, fileBuf, saved, ddl, lost>>

InsertRowGrows(t, r) == Idle /\ InsertGrows(t, r) /\ FileFlush /\ UNCHANGED <<saved, ddl, lost>>

\* The pool writes a page back, in the file after what was handed to it before.  (While it
\* is still in the buffer of the file object it is as if it had not been written back.)
WriteBack(p) ==
  /\ Idle
  /\ p < numPages
  /\ Flushed[p] # page[p]
  /\ disk' = [Flushed EXCEPT ![p] = page[p]]
  /\ fileBuf' = NoWrite
  /\ UNCHANGED <<heapVars, saved, ddl, lost>>

\* The buffer of the file object is written out for another reason.
Drain == fileBuf # NoWrite /\ FileFlush /\ UNCHANGED <<heapVars, saved, ddl, lost>>

\* The process dies and the database is opened again.
Crash ==
  /\ page' = disk
  /\ first' = saved
  /\ last' = [t \in Tables |-> NoPage]
  /\ stored' = [t \in Tables |-> {}]
  /\ ddl' = [t \in Tables |-> "idle"]
  /\ fileBuf' = NoWrite
  /\ lost' = lost \cup {t \in Tables : saved[t] # NoPage /\ saved[t] = fileBuf.id}
  /\ UNCHANGED <<numPages, disk, saved>>

DiskNext ==
  \/ \E t \in Tables : CreateTable(t) \/ FlushFirstPage(t) \/ SaveCatalog(t) \/ OpenTable(t)
  \/ \E t \in Tables, r \in Rows : InsertRow(t, r) \/ InsertRowGrows(t, r)
  \/ \E p \in PageIds : WriteBack(p)
  \/ Drain
  \/ Crash

DiskSpec == DiskInit /\ [][DiskNext]_diskVars

-----------------------------------------------------------------------------
(* Properties *)

Formatted(pg) == pg.free # 0

\* CREATE TABLE flushes before it saves: the first page of a table in the catalog is
\* formatted on disk wherever the process died, but for the page that is still, or was at a
\* crash, in the buffer of the file object.
CatalogPagesWritten ==
  \A t \in Tables : saved[t] # NoPage /\ saved[t] # fileBuf.id /\ t \notin lost => Formatted(disk[saved[t]])

\* What it rests on.  The pages everywhere are laid out; a buffered page is formatted;
\* create_table runs alone, with nothing buffered before its flush and its page buffered
\* or in the file after it; and the first page of a table that is not lost is formatted in
\* the pool, which a later write-back of it relies on.
DiskInv ==
  /\ numPages \in 0..MaxPages
  /\ page \in [PageIds -> Page] /\ disk \in [PageIds -> Page]
  /\ \A p \in PageIds : Layout(page[p]) /\ Layout(disk[p])
  /\ first \in [Tables -> PageIds \cup {NoPage}] /\ last \in [Tables -> PageIds \cup {NoPage}]
  /\ saved \in [Tables -> PageIds \cup {NoPage}]
  /\ ddl \in [Tables -> {"idle", "flush", "save"}]
  /\ fileBuf.id \in PageIds \cup {NoPage}
  /\ fileBuf.id # NoPage =>
       fileBuf.data \in Page /\ Layout(fileBuf.data) /\ Formatted(fileBuf.data)
  /\ \A t \in Tables :
       /\ saved[t] # NoPage => first[t] = saved[t]
       /\ first[t] # NoPage /\ t \notin lost => Formatted(page[first[t]])
       /\ ddl[t] # "idle" => /\ first[t] # NoPage
                             /\ Formatted(page[first[t]])
                             /\ \A u \in Tables : u # t => ddl[u] = "idle"
       /\ ddl[t] = "flush" => fileBuf.id = NoPage
       /\ ddl[t] = "save" => fileBuf.id = first[t] \/ Formatted(disk[first[t]])
  /\ CatalogPagesWritten
=============================================================================
