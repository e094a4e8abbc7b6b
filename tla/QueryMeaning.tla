---------------------------- MODULE QueryMeaning ----------------------------
(***************************************************************************)
(* What statements mean, without operators, indexes or an order of         *)
(* evaluation, and the properties that hold the engine of module Query to  *)
(* it.  The meaning is given to legal statements only: the tables and      *)
(* columns exist, a name means one column, output names differ.            *)
(***************************************************************************)
EXTENDS Query
LOCAL INSTANCE SequencesExt
LOCAL INSTANCE FiniteSetsExt
LOCAL INSTANCE Functions

AliasOf(x) == IF x.alias = None THEN x.table ELSE x.alias

\* The combinations of rows a query is about, and one of them as a function of
\* qualified names.
Combinations(q, db) ==
    (DOMAIN db[q.table].rows) \X (IF q.join = None THEN {1} ELSE DOMAIN db[q.join.table].rows)

Names(x, db) == {AliasOf(x)} \X Columns(db[x.table])

AllNames(q, db) == Names(q, db) \cup (IF q.join = None THEN {} ELSE Names(q.join, db))

Combined(q, db, p) ==
    [k \in AllNames(q, db) |->
        IF k \in Names(q, db) THEN db[q.table].rows[p[1]][k[2]]
        ELSE db[q.join.table].rows[p[2]][k[2]]]

Meant(col, names) == {k \in names : k[2] = col.name /\ col.table \in {None, k[1]}}

Related(op, l, r) ==
    CASE None \in {l, r} -> FALSE
      [] op = "=" -> l = r
      [] op = "<>" -> l # r
      [] op = "<" -> l < r
      [] op = "<=" -> l <= r
      [] op = ">" -> l > r
      [] op = ">=" -> l >= r

RECURSIVE Value(_, _), Holds(_, _)
Value(e, env) ==
    CASE e.node = "Literal" -> e.value
      [] e.node = "ColumnRef" -> env[CHOOSE k \in Meant(e, DOMAIN env) : TRUE]
      [] OTHER -> IF Holds(e, env) THEN 1 ELSE 0

Holds(e, env) ==
    CASE e = None -> TRUE
      [] e.node = "UnaryOp" -> ~Holds(e.operand, env)
      [] e.node = "BinaryOp" ->
             (CASE e.op = "AND" -> Holds(e.left, env) /\ Holds(e.right, env)
                [] e.op = "OR" -> Holds(e.left, env) \/ Holds(e.right, env)
                [] OTHER -> Related(e.op, Value(e.left, env), Value(e.right, env)))
      [] OTHER -> Value(e, env) \notin {0, None}

\* The rows of a query before grouping: the join first, then WHERE.
Selected(q, db) ==
    {p \in Combinations(q, db) :
        /\ q.join # None => Holds(q.join.on, Combined(q, db, p))
        /\ Holds(q.where, Combined(q, db, p))}

\* ks comes before ls: the first key that differs decides, then the tie does.
Precedes(orders, ks, ls, tie) ==
    LET differ == {n \in DOMAIN orders : ks[n] # ls[n]}
        n      == Min(differ)
    IN  IF differ = {} THEN tie
        ELSE IF orders[n].descending THEN ks[n] > ls[n] ELSE ks[n] < ls[n]

Earlier(p, r) == p[1] < r[1] \/ (p[1] = r[1] /\ p[2] < r[2])

OutputName(item) == CASE item.alias # None -> item.alias
                      [] item.expr.node = "ColumnRef" -> item.expr.name
                      [] item.expr.node = "FunctionCall" -> Lower[item.expr.name]
                      [] OTHER -> "expr"

PlainAnswer(q, db) ==
    LET Keys(p) == [n \in DOMAIN q.orderBy |-> Value(q.orderBy[n].expr, Combined(q, db, p))]
        order   == SetToSortSeq(Selected(q, db),
                       LAMBDA p, r : Precedes(q.orderBy, Keys(p), Keys(r), Earlier(p, r)))
        Named(x) == CHOOSE i \in DOMAIN q.items : OutputName(q.items[i]) = x
        Row(p)  ==
            IF q.items[1].expr = Star
            THEN [k \in {Bare(n[2]) : n \in AllNames(q, db)} |->
                     Value(ColumnRef(None, k[2]), Combined(q, db, p))]
            ELSE [k \in {Bare(OutputName(q.items[i])) : i \in DOMAIN q.items} |->
                     Value(q.items[Named(k[2])].expr, Combined(q, db, p))]
    IN  [n \in DOMAIN order |-> Row(order[n])]

\* An aggregate over a set of rows, as SQL defines it.
Aggregate(call, ps, q, db) ==
    LET Arg(p)  == IF call.arg = Star THEN 1 ELSE Value(call.arg, Combined(q, db, p))
        known   == {p \in ps : Arg(p) # None}
        total   == MapThenSumSet(Arg, known)
    IN  CASE call.name = "COUNT" -> Cardinality(known)
          [] call.name = "SUM" -> total
          [] known = {} -> None
          [] call.name = "AVG" -> <<total, Cardinality(known)>>
          [] call.name = "MIN" -> Min({Arg(p) : p \in known})
          [] call.name = "MAX" -> Max({Arg(p) : p \in known})

GroupedAnswer(q, db) ==
    LET rows   == Selected(q, db)
        Key(p) == [g \in DOMAIN q.groupBy |-> Value(ColumnRef(None, q.groupBy[g]), Combined(q, db, p))]
        groups == IF q.groupBy = <<>> THEN {rows}
                  ELSE {{r \in rows : Key(r) = Key(p)} : p \in rows}
        Out(ps) == [k \in {Bare(OutputName(q.items[i])) : i \in DOMAIN q.items} |->
            LET x == q.items[CHOOSE i \in DOMAIN q.items : OutputName(q.items[i]) = k[2]].expr
            IN  IF x.node = "FunctionCall" THEN Aggregate(x, ps, q, db)
                ELSE Value(x, Combined(q, db, CHOOSE p \in ps : TRUE))]
        Keys(ps) == [n \in DOMAIN q.orderBy |-> Out(ps)[Bare(q.orderBy[n].expr.name)]]
        order  == SetToSortSeq(groups, LAMBDA ps, rs :
                      Precedes(q.orderBy, Keys(ps), Keys(rs),
                               \E p \in ps : \A r \in rs : Earlier(p, r)))
    IN  [n \in DOMAIN order |-> Out(order[n])]

IsGrouped(q) ==
    q.groupBy # <<>> \/ \E i \in DOMAIN q.items : q.items[i].expr.node = "FunctionCall"

Meaning(q, db) ==
    LET all == IF IsGrouped(q) THEN GroupedAnswer(q, db) ELSE PlainAnswer(q, db)
    IN  IF q.limit = None THEN all ELSE SubSeq(all, 1, Min({q.limit, Len(all)}))

-----------------------------------------------------------------------------
(* Legal statements *)

RECURSIVE Nodes(_)
Nodes(e) ==
    CASE e = None -> {}
      [] e.node = "UnaryOp" -> {e} \cup Nodes(e.operand)
      [] e.node = "BinaryOp" -> {e} \cup Nodes(e.left) \cup Nodes(e.right)
      [] OTHER -> {e}

\* Every name in e means one column, and e has no aggregate inside.
WellNamed(e, names) ==
    \A x \in Nodes(e) : /\ x.node \notin {"Star", "FunctionCall"}
                        /\ x.node = "ColumnRef" => Cardinality(Meant(x, names)) = 1

Distinct(s) == \A i, j \in DOMAIN s : s[i] = s[j] => i = j

LegalPlain(q, names) ==
    /\ \A n \in DOMAIN q.orderBy : WellNamed(q.orderBy[n].expr, names)
    /\ IF \E i \in DOMAIN q.items : q.items[i].expr = Star
       THEN Len(q.items) = 1 /\ \A k, l \in names : k[2] = l[2] => k = l
       ELSE \A i \in DOMAIN q.items : WellNamed(q.items[i].expr, names)

LegalGrouped(q, names) ==
    /\ \A g \in DOMAIN q.groupBy : WellNamed(ColumnRef(None, q.groupBy[g]), names)
    /\ \A i \in DOMAIN q.items :
          LET x == q.items[i].expr
          IN  IF x.node = "FunctionCall" THEN x.arg = Star \/ WellNamed(x.arg, names)
              ELSE x.node = "ColumnRef" /\ WellNamed(x, names) /\ x.name \in Range(q.groupBy)
    /\ \A n \in DOMAIN q.orderBy : \E i \in DOMAIN q.items :
          /\ q.orderBy[n].expr = ColumnRef(None, OutputName(q.items[i]))
          /\ q.items[i].expr.node = "FunctionCall" => q.items[i].expr.name # "AVG"

Legal(q, db) ==
    /\ q.table \in DOMAIN db
    /\ q.join # None => q.join.table \in DOMAIN db /\ AliasOf(q.join) # AliasOf(q)
    /\ WellNamed(q.where, AllNames(q, db))
    /\ q.join # None => WellNamed(q.join.on, AllNames(q, db))
    /\ Distinct([i \in DOMAIN q.items |-> OutputName(q.items[i])])
    /\ IF IsGrouped(q) THEN LegalGrouped(q, AllNames(q, db)) ELSE LegalPlain(q, AllNames(q, db))

\* WHERE speaks of the left table only.
WhereOnLeft(q, db) ==
    \A x \in Nodes(q.where) : x.node = "ColumnRef" => Meant(x, AllNames(q, db)) \subseteq Names(q, db)

\* No NULL and no text where an index might be asked for it.
Typed(where, table) ==
    \/ table.indexes = {}
    \/ \A x \in Nodes(where) : x.node = "Literal" => x.value \notin {None, Text}

-----------------------------------------------------------------------------
(* Properties *)

\* The parser (parser.py) gives a statement the structure its text has by the
\* precedences OR < AND < NOT < comparison, with operators grouping to the left,
\* clauses in their places and signs folded into numbers, and refuses texts that
\* are cut short or go on.
ParsedAsMeant == stmt = IF asked = Raised THEN None ELSE asked

\* A legal SELECT whose WHERE is about the left table answers with exactly the
\* rows, groups and order of its meaning: joins, residual filters, index lookups,
\* the sort by one key after the other, grouping and LIMIT (planner.py,
\* executor.py) come to the same as join, filter, group, order and cut.
SelectMeans ==
    (asked \notin {None, Raised} /\ asked.node = "Select") =>
        (Legal(asked, tables) /\ WhereOnLeft(asked, tables)
                              /\ Typed(asked.where, tables[asked.table])
            => answer = Meaning(asked, tables))

\* The same for a WHERE on any column of the join (planner.py says that FROM and
\* JOIN come before WHERE).
JoinBeforeWhere ==
    (asked \notin {None, Raised} /\ asked.node = "Select") =>
        (Legal(asked, tables) /\ Typed(asked.where, tables[asked.table])
            => answer = Meaning(asked, tables))

Unindexed(db) == [t \in DOMAIN db |-> [db[t] EXCEPT !.indexes = {}]]

\* An index changes nothing but the speed (build_base_scan): what a statement that
\* does not raise answers and changes without the index, it answers and changes
\* with it, although the index takes a conjunct out of its place in the predicate.
IndexTransparent ==
    [][ (/\ asked' \notin {None, Raised}
         /\ asked'.node \in {"Select", "Update", "Delete"}
         /\ asked'.table \in DOMAIN tables
         /\ Typed(asked'.where, tables[asked'.table])
         /\ asked'.node = "Update" => \A ix \in tables[asked'.table].indexes : ~ix.unique)
        => LET bare == Dispatch(asked', Unindexed(tables))
           IN  bare.answer # Raised => /\ answer' = bare.answer
                                       /\ Unindexed(tables') = bare.tables ]_vars

\* UPDATE and DELETE (database.py) work on the rows their WHERE means, all of
\* them and no others: the other rows stay as they were, in their order, and each
\* updated row is there once, behind them, with its new values.
ChangesAsMeant ==
    [][ LET s == asked'
            q == Select(<<SelectItem(Star, None)>>, s.table, None, None, s.where, <<>>, <<>>, None)
            Hit(row) == Holds(s.where, [k \in {s.table} \X (DOMAIN row) |-> row[k[2]]])
            old == tables[s.table].rows
            hits == SelectSeq(old, Hit)
            Set(row) == [c \in DOMAIN row |->
                LET ns == {n \in DOMAIN s.assignments : s.assignments[n][1] = c}
                    v  == s.assignments[Max(ns)][2].value
                IN  CASE ns = {} -> row[c]
                      [] ColumnType(tables[s.table], c) = "BOOL" -> IF v \in {0, None} THEN 0 ELSE 1
                      [] OTHER -> v]
        IN  (/\ asked' \notin {None, Raised} /\ s.node \in {"Update", "Delete"}
             /\ answer' # Raised
             /\ Legal(q, tables) /\ Typed(s.where, tables[s.table]))
            => tables'[s.table].rows =
                 SelectSeq(old, LAMBDA row : ~Hit(row)) \o
                 (IF s.node = "Delete" THEN <<>> ELSE [n \in DOMAIN hits |-> Set(hits[n])]) ]_vars

\* A unique index whose column has no duplicates keeps it so, through INSERTs of
\* several rows and UPDATEs that give several rows one key
\* (_check_unique_constraint).
UniqueKept ==
    [][ \A t \in DOMAIN tables : \A ix \in tables[t].indexes :
            LET Column(table) == [i \in DOMAIN table.rows |-> table.rows[i][ix.column]]
            IN  ix.unique /\ Distinct(Column(tables[t])) => Distinct(Column(tables'[t])) ]_vars
=============================================================================
