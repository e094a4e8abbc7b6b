------------------------------- MODULE Query -------------------------------
(***************************************************************************)
(* SQL statements from text to answer: Database.execute with the planner   *)
(* (planner.py), the operator tree (executor.py), expressions (expr.py)    *)
(* and the values that a column stores (types.py).                         *)
(*                                                                         *)
(* One client runs one statement after the other, each in a transaction of *)
(* its own, so a table is the sequence of its visible rows in heap order,  *)
(* and a statement that raises changes nothing (Transaction shows both).   *)
(* A row's RID is its position.  Columns are INT or BOOL.                  *)
(***************************************************************************)
EXTENDS Sql, FiniteSets, TLC
LOCAL INSTANCE SequencesExt
LOCAL INSTANCE FiniteSetsExt
LOCAL INSTANCE Functions

CONSTANTS
    Raised,   \* an exception, where a value or an answer is expected
    Texts,    \* what the client may send: pairs of tokens and their meaning
    MaxRows   \* bound: rows in all tables together

VARIABLES
    tables,   \* the catalog and the visible rows
    asked,    \* what the client meant by the statement it has sent, or None
    stmt,     \* what the parser made of it
    answer    \* its rows, or Raised

vars == <<tables, asked, stmt, answer>>

-----------------------------------------------------------------------------
(* Rows and expressions (expr.py) *)

\* A row maps pairs of a table's alias and a column to values; the bare name
\* of a column is the pair with None.
Bare(c) == <<None, c>>
Rid == Bare("__rid__")

Bool(b) == IF b THEN 1 ELSE 0

Truthy(v) == v \notin {None, 0}

\* An unqualified name that is not in the row may stand for one qualified key.
ResolveColumn(row, col) ==
    LET key     == <<col.table, col.name>>
        matches == {k \in DOMAIN row : k[2] = col.name}
    IN  CASE key \in DOMAIN row -> row[key]
          [] col.table = None /\ Cardinality(matches) = 1 -> row[CHOOSE k \in matches : TRUE]
          [] OTHER -> Raised

\* Text and numbers are different, and in no order.
Compare(op, l, r) ==
    CASE op = "=" -> Bool(l = r)
      [] op = "<>" -> Bool(l # r)
      [] (l = Text) # (r = Text) -> Raised
      [] l = r -> Bool(op \in {"<=", ">="})
      [] OTHER -> Bool(IF op \in {"<", "<="} THEN l < r ELSE l > r)

RECURSIVE Evaluate(_, _)
Evaluate(e, row) ==
    CASE e.node = "Literal" -> e.value
      [] e.node = "ColumnRef" -> ResolveColumn(row, e)
      [] e.node \in {"Star", "FunctionCall"} -> Raised
      [] e.node = "UnaryOp" ->
             LET x == Evaluate(e.operand, row)
             IN  IF x = Raised THEN Raised ELSE Bool(~Truthy(x))
      [] e.node = "BinaryOp" ->
             LET l == Evaluate(e.left, row)
                 r == Evaluate(e.right, row)
                 decided == IF e.op = "AND" THEN ~Truthy(l) ELSE Truthy(l)
             IN  CASE l = Raised -> Raised
                   [] e.op \in {"AND", "OR"} /\ decided -> Bool(e.op = "OR")
                   [] r = Raised -> Raised
                   [] e.op \in {"AND", "OR"} -> Bool(Truthy(r))
                   [] None \in {l, r} -> 0
                   [] OTHER -> Compare(e.op, l, r)

-----------------------------------------------------------------------------
(* Operators (executor.py) *)

\* What an operator does when it is pulled: open() returns or raises, then
\* next() returns the rows in turn, and after the last one None or an exception.
Stream(rows) == [opens |-> TRUE, rows |-> rows, fails |-> FALSE]
Broken == [opens |-> FALSE, rows |-> <<>>, fails |-> TRUE]

\* Each row becomes what out has for it, up to the first that is an exception.
Pull(child, out) ==
    LET bad == {i \in DOMAIN out : out[i] = Raised}
    IN  IF bad = {} THEN [child EXCEPT !.rows = out]
        ELSE [child EXCEPT !.rows = SubSeq(out, 1, Min(bad) - 1), !.fails = TRUE]

Columns(table) == {table.columns[i].name : i \in DOMAIN table.columns}

RowFromTuple(alias, table, i) ==
    [k \in {alias, None} \X Columns(table) |-> table.rows[i][k[2]]] @@ (Rid :> i)

SeqScan(table, alias) ==
    Stream([i \in DOMAIN table.rows |-> RowFromTuple(alias, table, i)])

\* (Fault: a row gets the number of its entry for a RID.)
IndexScanNumbered(table, alias, c, v) ==
    LET rids == {i \in DOMAIN table.rows : v \in {None, table.rows[i][c]}}
        Before(i, j) == \/ table.rows[i][c] < table.rows[j][c]
                        \/ table.rows[i][c] = table.rows[j][c] /\ i < j
        hits == SetToSortSeq(rids, Before)
    IN  [Stream([n \in DOMAIN hits |-> (Rid :> n) @@ RowFromTuple(alias, table, hits[n])])
            EXCEPT !.fails = v = Text /\ table.used]

\* The entries with start <= key <= end for start = end = v, where None is no
\* bound; entries of one key are in the order of their insertion.  The search
\* compares v with the keys in the tree, those of dead rows included.
IndexScan(table, alias, c, v) ==
    LET rids == {i \in DOMAIN table.rows : v \in {None, table.rows[i][c]}}
        Before(i, j) == \/ table.rows[i][c] < table.rows[j][c]
                        \/ table.rows[i][c] = table.rows[j][c] /\ i < j
        hits == SetToSortSeq(rids, Before)
    IN  [Stream([n \in DOMAIN hits |-> RowFromTuple(alias, table, hits[n])])
            EXCEPT !.fails = v = Text /\ table.used]

Filter(child, predicate) ==
    LET Test(row) == LET v == Evaluate(predicate, row)
                     IN  IF v = Raised THEN Raised ELSE <<Truthy(v), row>>
        tested == Pull(child, [i \in DOMAIN child.rows |-> Test(child.rows[i])])
        kept   == SelectSeq(tested.rows, LAMBDA x : x[1])
    IN  [tested EXCEPT !.rows = [i \in DOMAIN kept |-> kept[i][2]]]

\* For every left row all right rows, whose keys win; open() already asks for
\* the first left row, and for the right table if there is one.
NestedLoopJoin(left, right, on) ==
    LET n      == Len(right.rows)
        merged == [k \in 1 .. Len(left.rows) * n |->
                      right.rows[((k - 1) % n) + 1] @@ left.rows[((k - 1) \div n) + 1]]
    IN  IF ~left.opens \/ (left.rows = <<>> /\ left.fails)
           \/ (left.rows # <<>> /\ ~right.opens)
        THEN Broken
        ELSE Filter([left EXCEPT !.rows = merged], on)

Lower == [COUNT |-> "count", SUM |-> "sum", AVG |-> "avg", MIN |-> "min", MAX |-> "max"]

DefaultColumnName(item) ==
    CASE item.alias # None -> item.alias
      [] item.expr.node = "ColumnRef" -> item.expr.name
      [] item.expr.node = "FunctionCall" -> Lower[item.expr.name]
      [] OTHER -> "expr"

\* Items of one name overwrite each other.
OutputRow(items, values) ==
    [k \in {Bare(DefaultColumnName(items[i])) : i \in DOMAIN items} |->
        values[Max({i \in DOMAIN items : Bare(DefaultColumnName(items[i])) = k})]]

Project(child, items) ==
    LET star == Len(items) = 1 /\ items[1].expr = Star
        Out(row) ==
            IF star THEN Restrict(row, {k \in DOMAIN row : k[1] = None /\ k # Rid})
            ELSE LET values == [i \in DOMAIN items |-> Evaluate(items[i].expr, row)]
                 IN  IF Raised \in Range(values) THEN Raised ELSE OutputRow(items, values)
    IN  Pull(child, [i \in DOMAIN child.rows |-> Out(child.rows[i])])

\* list.sort by one key: stable, also when it is reversed.
StableSort(rows, keys, descending) ==
    LET Before(i, j) == IF keys[i] = keys[j] THEN i < j
                        ELSE IF descending THEN keys[i] > keys[j] ELSE keys[i] < keys[j]
        order == SetToSortSeq(DOMAIN rows, Before)
    IN  [n \in DOMAIN rows |-> rows[order[n]]]

\* The keys from the last to the first; None cannot be compared.
RECURSIVE SortBy(_, _)
SortBy(rows, orderBy) ==
    IF orderBy = <<>> \/ rows = Raised THEN rows ELSE
    LET item == Last(orderBy)
        keys == [i \in DOMAIN rows |-> Evaluate(item.expr, rows[i])]
        bad  == \E i \in DOMAIN rows : keys[i] = Raised \/ (keys[i] = None /\ Len(rows) > 1)
    IN  IF bad THEN Raised
        ELSE SortBy(StableSort(rows, keys, item.descending), Front(orderBy))

\* (Fault: the first key is sorted by first.)
SortForward(child, orderBy) ==
    LET rows == SortBy(child.rows, Reverse(orderBy))
    IN  IF ~child.opens \/ child.fails \/ rows = Raised THEN Broken ELSE Stream(rows)

Sort(child, orderBy) ==
    LET rows == SortBy(child.rows, orderBy)
    IN  IF ~child.opens \/ child.fails \/ rows = Raised THEN Broken ELSE Stream(rows)

Limit(child, n) ==
    [child EXCEPT !.rows = SubSeq(child.rows, 1, Min({n, Len(child.rows)})),
                  !.fails = child.fails /\ Len(child.rows) < n]

\* One aggregate over one group (_AggState).
AggState(kind) == [kind |-> kind, count |-> 0, total |-> 0, best |-> None]

Better(kind, v, w) == IF Compare(IF kind = "MIN" THEN "<" ELSE ">", v, w) = 1 THEN v ELSE w

AggAdd(s, v) ==
    CASE s = Raised \/ v = Raised -> Raised
      [] v = None -> s
      [] s.kind = "COUNT" -> [s EXCEPT !.count = @ + 1]
      [] s.kind \in {"SUM", "AVG"} ->
             IF v = Text THEN Raised ELSE [s EXCEPT !.total = @ + v, !.count = @ + 1]
      [] s.kind \in {"MIN", "MAX"} ->
             [s EXCEPT !.best = IF @ = None THEN v ELSE Better(s.kind, v, @)]
      [] OTHER -> s

\* A mean is kept as the pair of its total and its count.
AggResult(s) ==
    CASE s = Raised -> Raised
      [] s.kind = "COUNT" -> s.count
      [] s.kind = "SUM" -> s.total
      [] s.kind = "AVG" -> IF s.count = 0 THEN None ELSE <<s.total, s.count>>
      [] OTHER -> s.best

\* COUNT(*) counts rows, not values.
AggValue(call, row) == IF call.arg = Star THEN 1 ELSE Evaluate(call.arg, row)

HashAggregate(child, groupBy, items) ==
    LET rows     == child.rows
        Get(i, c) == IF Bare(c) \in DOMAIN rows[i] THEN rows[i][Bare(c)] ELSE None
        Key(i)   == [g \in DOMAIN groupBy |-> Get(i, groupBy[g])]
        firsts   == SetToSortSeq({i \in DOMAIN rows : \A j \in 1 .. i - 1 : Key(j) # Key(i)}, <)
        Call(item) == item.expr.node = "FunctionCall"
        Total(item, group) ==
            AggResult(FoldLeft(AggAdd, AggState(item.expr.name),
                               [n \in DOMAIN group |-> AggValue(item.expr, rows[group[n]])]))
        Out(first) ==
            LET group == SelectSeq([i \in DOMAIN rows |-> i], LAMBDA i : Key(i) = Key(first))
                Value(n) ==
                    LET source == IF items[n].expr.node = "ColumnRef" THEN items[n].expr.name
                                  ELSE DefaultColumnName(items[n])
                    IN  IF Call(items[n]) THEN Total(items[n], group)
                        ELSE IF source \in Range(groupBy) THEN Get(first, source) ELSE None
            IN  OutputRow(items, [n \in DOMAIN items |-> Value(n)])
        calls == SelectSeq(items, Call)
        outs  == IF rows = <<>> /\ groupBy = <<>>
                 THEN <<OutputRow(calls, [n \in DOMAIN calls |-> Total(calls[n], <<>>)])>>
                 ELSE [n \in DOMAIN firsts |-> Out(firsts[n])]
        bad   == \E i \in DOMAIN rows : \E n \in DOMAIN calls :
                     AggAdd(AggState(calls[n].expr.name), AggValue(calls[n].expr, rows[i])) = Raised
    IN  IF ~child.opens \/ child.fails \/ bad THEN Broken ELSE Stream(outs)

-----------------------------------------------------------------------------
(* Plans (planner.py) *)

RECURSIVE FlattenAnd(_)
FlattenAnd(e) ==
    CASE e = None -> <<>>
      [] e.node = "BinaryOp" /\ e.op = "AND" -> FlattenAnd(e.left) \o FlattenAnd(e.right)
      [] OTHER -> <<e>>

RebuildAnd(conjuncts) ==
    IF conjuncts = <<>> THEN None
    ELSE FoldLeft(LAMBDA l, r : BinaryOp("AND", l, r), Head(conjuncts), Tail(conjuncts))

\* The column and the literal of "col = literal", in either order, where the
\* column is indexed; None for any other conjunct.
MatchingEquality(conjunct, alias, indexed) ==
    LET Fits(col, lit) == /\ col.node = "ColumnRef" /\ lit.node = "Literal"
                          /\ col.table \in {None, alias}
                          /\ col.name \in indexed
    IN  CASE conjunct.node # "BinaryOp" -> None
          [] conjunct.op # "=" -> None
          [] Fits(conjunct.left, conjunct.right) -> <<conjunct.left.name, conjunct.right.value>>
          [] Fits(conjunct.right, conjunct.left) -> <<conjunct.right.name, conjunct.left.value>>
          [] OTHER -> None

\* The first conjunct that an index can answer is taken out of the predicate.
BuildBaseScan(table, alias, where) ==
    LET conjuncts == FlattenAnd(where)
        indexed   == {ix.column : ix \in table.indexes}
        Match(i)  == MatchingEquality(conjuncts[i], alias, indexed)
        usable    == {i \in DOMAIN conjuncts : Match(i) # None}
        i         == Min(usable)
    IN  IF usable = {} THEN [scan |-> SeqScan(table, alias), residual |-> where]
        ELSE [scan |-> IndexScan(table, alias, Match(i)[1], Match(i)[2]),
              residual |-> RebuildAnd(RemoveAt(conjuncts, i))]

BuildRowSourcePlan(table, alias, where) ==
    LET Filtered(base) == IF base.residual = None THEN base.scan ELSE Filter(base.scan, base.residual)
    IN  Filtered(BuildBaseScan(table, alias, where))

\* WHERE belongs to the row source of the left table; the join comes after it.
BuildSelectPlan(q, db) ==
    LET Alias(x) == IF x.alias = None THEN x.table ELSE x.alias
        left     == IF q.table \notin DOMAIN db THEN Broken
                    ELSE BuildRowSourcePlan(db[q.table], Alias(q), q.where)
        right    == IF q.join.table \notin DOMAIN db THEN Broken
                    ELSE SeqScan(db[q.join.table], Alias(q.join))
        groups   == \/ q.groupBy # <<>>
                    \/ \E i \in DOMAIN q.items : q.items[i].expr.node = "FunctionCall"
        Joined(child)    == IF q.join = None THEN child ELSE NestedLoopJoin(child, right, q.join.on)
        Grouped(child)   == IF groups THEN HashAggregate(child, q.groupBy, q.items) ELSE child
        Sorted(child)    == IF q.orderBy = <<>> THEN child ELSE Sort(child, q.orderBy)
        Limited(child)   == IF q.limit = None THEN child ELSE Limit(child, q.limit)
        Projected(child) == IF groups THEN child ELSE Project(child, q.items)
    IN  Projected(Limited(Sorted(Grouped(Joined(left)))))

-----------------------------------------------------------------------------
(* Statements (database.py, types.py) *)

\* The exception and the unchanged database, or the new database.
Refused(db) == [answer |-> Raised, tables |-> db]
Done(db, rows) == [answer |-> rows, tables |-> db]

ExecuteCreateTable(s, db) ==
    IF s.table \in DOMAIN db THEN Refused(db)
    ELSE Done((s.table :> [columns |-> s.columns, rows |-> <<>>, indexes |-> {},
                           used |-> FALSE]) @@ db, <<>>)

ColumnType(table, c) ==
    table.columns[CHOOSE i \in DOMAIN table.columns : table.columns[i].name = c].type

ExecuteCreateIndex(s, db) ==
    IF \/ s.table \notin DOMAIN db
       \/ s.index \in {ix.name : ix \in db[s.table].indexes}
       \/ s.column \notin Columns(db[s.table])
       \/ ColumnType(db[s.table], s.column) \notin {"INT", "TEXT"}
    THEN Refused(db)
    ELSE Done([db EXCEPT ![s.table].indexes =
                  @ \cup {[name |-> s.index, column |-> s.column, unique |-> s.unique]}], <<>>)

\* What encode_value stores and decode_value reads back.
Encode(v, type) ==
    CASE type = "BOOL" -> Bool(Truthy(v))
      [] v \in {None, Text} -> Raised
      [] OTHER -> v

EncodeRow(values, table) == [c \in Columns(table) |-> Encode(values[c], ColumnType(table, c))]

\* The last value named for a column counts; a name the table does not have is
\* ignored, a column without a value is not.
ResolveInsertValues(exprs, names, table) ==
    LET values  == [i \in DOMAIN exprs |-> Evaluate(exprs[i], <<>>)]
        At(c)   == {i \in DOMAIN names : names[i] = c}
    IN  IF \/ Len(exprs) # Len(names)
           \/ Raised \in Range(values)
           \/ \E c \in Columns(table) : At(c) = {}
        THEN Raised
        ELSE [c \in Columns(table) |-> values[Max(At(c))]]

\* (Fault: a key is not looked up before it is added.)
AddRowUnchecked(table, values) ==
    LET stored == EncodeRow(values, table)
    IN  IF Raised \in Range(stored) THEN Raised
        ELSE [table EXCEPT !.rows = Append(@, stored), !.used = TRUE]

\* encode_row, heap insert, then the unique check of every index.
AddRow(table, values) ==
    LET stored == EncodeRow(values, table)
        Clash(ix) == /\ ix.unique
                     /\ \E i \in DOMAIN table.rows :
                            table.rows[i] # None /\ table.rows[i][ix.column] = values[ix.column]
    IN  IF Raised \in Range(stored) \/ \E ix \in table.indexes : Clash(ix) THEN Raised
        ELSE [table EXCEPT !.rows = Append(@, stored), !.used = TRUE]

ExecuteInsert(s, db) ==
    LET table == db[s.table]
        names == IF s.columns # None THEN s.columns
                 ELSE [i \in DOMAIN table.columns |-> table.columns[i].name]
        rows  == [n \in DOMAIN s.rows |-> ResolveInsertValues(s.rows[n], names, table)]
        Add(t, values) == IF t = Raised THEN Raised ELSE AddRow(t, values)
        after == FoldLeft(Add, table, rows)
        wrote == Raised \notin Range(EncodeRow(rows[1], table))
    IN  CASE s.table \notin DOMAIN db -> Refused(db)
          [] Raised \in Range(rows) -> Refused(db)
          [] after = Raised -> Refused([db EXCEPT ![s.table].used = @ \/ wrote])
          [] OTHER -> Done([db EXCEPT ![s.table] = after], <<>>)

ExecuteSelect(s, db) ==
    LET Collect(plan) == IF ~plan.opens \/ plan.fails THEN Refused(db) ELSE Done(db, plan.rows)
    IN  Collect(BuildSelectPlan(s, db))

\* UPDATE and DELETE first collect the rows they match; a row that is gone is
\* None until the statement ends.
Matches(s, db) == BuildRowSourcePlan(db[s.table], s.table, s.where)

Live(table) == [table EXCEPT !.rows = SelectSeq(@, LAMBDA row : row # None)]

\* (Fault: the old version is not stamped.)
ExecuteUpdateKeeping(s, db) ==
    LET matches == Matches(s, db)
        values  == [n \in DOMAIN s.assignments |-> Evaluate(s.assignments[n][2], <<>>)]
        Sets(c) == {n \in DOMAIN s.assignments : s.assignments[n][1] = c}
        NewRow(row) == [c \in DOMAIN row |-> IF Sets(c) = {} THEN row[c] ELSE values[Max(Sets(c))]]
        Replace(t, match) ==
            IF t = Raised \/ Raised \in Range(values) THEN Raised
            ELSE AddRow(t, NewRow(t.rows[match[Rid]]))
        after == FoldLeft(Replace, db[s.table], matches.rows)
    IN  IF s.table \notin DOMAIN db THEN Refused(db)
        ELSE IF matches.fails \/ after = Raised THEN Refused(db)
        ELSE Done([db EXCEPT ![s.table] = after], <<>>)

ExecuteUpdate(s, db) ==
    LET matches == Matches(s, db)
        values  == [n \in DOMAIN s.assignments |-> Evaluate(s.assignments[n][2], <<>>)]
        Sets(c) == {n \in DOMAIN s.assignments : s.assignments[n][1] = c}
        NewRow(row) == [c \in DOMAIN row |-> IF Sets(c) = {} THEN row[c] ELSE values[Max(Sets(c))]]
        Replace(t, match) ==
            IF t = Raised \/ Raised \in Range(values) THEN Raised
            ELSE AddRow([t EXCEPT !.rows[match[Rid]] = None], NewRow(t.rows[match[Rid]]))
        after == FoldLeft(Replace, db[s.table], matches.rows)
    IN  IF s.table \notin DOMAIN db THEN Refused(db)
        ELSE IF matches.fails \/ after = Raised THEN Refused(db)
        ELSE Done([db EXCEPT ![s.table] = Live(after)], <<>>)

ExecuteDelete(s, db) ==
    LET matches == Matches(s, db)
        gone    == {matches.rows[n][Rid] : n \in DOMAIN matches.rows}
        Drop(t) == Live([t EXCEPT !.rows = [i \in DOMAIN @ |-> IF i \in gone THEN None ELSE @[i]]])
    IN  IF s.table \notin DOMAIN db THEN Refused(db)
        ELSE IF matches.fails THEN Refused(db)
        ELSE Done([db EXCEPT ![s.table] = Drop(@)], <<>>)

Dispatch(s, db) ==
    CASE s = None -> Refused(db)
      [] s.node = "CreateTable" -> ExecuteCreateTable(s, db)
      [] s.node = "CreateIndex" -> ExecuteCreateIndex(s, db)
      [] s.node = "Insert" -> ExecuteInsert(s, db)
      [] s.node = "Select" -> ExecuteSelect(s, db)
      [] s.node = "Update" -> ExecuteUpdate(s, db)
      [] s.node = "Delete" -> ExecuteDelete(s, db)

-----------------------------------------------------------------------------
(* The session *)

Init ==
    /\ tables = <<>>
    /\ asked = None
    /\ stmt = None
    /\ answer = None

RowCount(db) == MapThenSumSet(LAMBDA t : Len(db[t].rows), DOMAIN db)

\* Database.execute without a transaction of the caller's.
Execute(text) ==
    /\ asked = None
    /\ asked' = text[2]
    /\ stmt' = ParseStatement(text[1])
    /\ \E done \in {Dispatch(stmt', tables)} :
           /\ RowCount(done.tables) <= MaxRows
           /\ tables' = done.tables
           /\ answer' = done.answer

\* The client takes the answer.
Fetch ==
    /\ asked # None
    /\ asked' = None
    /\ stmt' = None
    /\ answer' = None
    /\ UNCHANGED tables

Next == Fetch \/ \E text \in Texts : Execute(text)

Spec == Init /\ [][Next]_vars

=============================================================================
