------------------------------ MODULE MCQuery ------------------------------
(***************************************************************************)
(* The statements of a session on two tables that share a column name, and *)
(* their texts, written with no more parentheses than the grammar needs.   *)
(***************************************************************************)
EXTENDS QueryMeaning
LOCAL INSTANCE SequencesExt

-----------------------------------------------------------------------------
(* Texts: "!=" for "<>", a semicolon, AS for one table and none for the other *)

Level(e) == CASE e.node = "UnaryOp" -> 3
              [] e.node = "BinaryOp" -> (CASE e.op = "OR" -> 1 [] e.op = "AND" -> 2 [] OTHER -> 4)
              [] OTHER -> 5

\* e as an operand that must bind at least as tightly as level.
RECURSIVE Write(_, _)
Write(e, level) ==
    LET words ==
          CASE e = Literal(None) -> <<Kw("NULL")>>
            [] e = Literal(Text) -> <<Str(Text)>>
            [] e.node = "Literal" -> IF e.value < 0 THEN <<Op("-"), Num(-e.value)>> ELSE <<Num(e.value)>>
            [] e.node = "ColumnRef" -> IF e.table = None THEN <<Ident(e.name)>>
                                       ELSE <<Ident(e.table), Op("."), Ident(e.name)>>
            [] e.node = "Star" -> <<Op("*")>>
            [] e.node = "FunctionCall" -> <<Ident(e.name), Op("(")>> \o Write(e.arg, 1) \o <<Op(")")>>
            [] e.node = "UnaryOp" -> <<Kw("NOT")>> \o Write(e.operand, 3)
            [] e.node = "BinaryOp" ->
                   LET l == Level(e)
                       op == CASE l < 3 -> Kw(e.op) [] e.op = "<>" -> Op("!=") [] OTHER -> Op(e.op)
                   IN  Write(e.left, IF l = 4 THEN 5 ELSE l) \o <<op>> \o Write(e.right, l + 1)
    IN  IF Level(e) < level THEN <<Op("(")>> \o words \o <<Op(")")>> ELSE words

Comma(parts) ==
    FlattenSeq([i \in DOMAIN parts |-> IF i = 1 THEN parts[i] ELSE <<Op(",")>> \o parts[i]])

In(parts) == <<Op("(")>> \o Comma(parts) \o <<Op(")")>>
Idents(names) == [i \in DOMAIN names |-> <<Ident(names[i])>>]
Exprs(es) == [i \in DOMAIN es |-> Write(es[i], 1)]
Clause(words, e) == IF e = None THEN <<>> ELSE words \o Write(e, 1)
Aliased(words, a) == IF a = None THEN <<>> ELSE words \o <<Ident(a)>>

SelectText(q) ==
    LET item(x) == Write(x.expr, 1) \o Aliased(<<Kw("AS")>>, x.alias)
        order(x) == Write(x.expr, 1) \o (IF x.descending THEN <<Kw("DESC")>>
                                        ELSE IF x.expr.node = "ColumnRef" THEN <<Kw("ASC")>> ELSE <<>>)
    IN  <<Kw("SELECT")>> \o Comma([i \in DOMAIN q.items |-> item(q.items[i])])
        \o <<Kw("FROM"), Ident(q.table)>> \o Aliased(<<>>, q.alias)
        \o (IF q.join = None THEN <<>>
            ELSE <<Kw("JOIN"), Ident(q.join.table)>> \o Aliased(<<Kw("AS")>>, q.join.alias)
                 \o Clause(<<Kw("ON")>>, q.join.on))
        \o Clause(<<Kw("WHERE")>>, q.where)
        \o (IF q.groupBy = <<>> THEN <<>> ELSE <<Kw("GROUP"), Kw("BY")>> \o Comma(Idents(q.groupBy)))
        \o (IF q.orderBy = <<>> THEN <<>>
            ELSE <<Kw("ORDER"), Kw("BY")>> \o Comma([i \in DOMAIN q.orderBy |-> order(q.orderBy[i])]))
        \o (IF q.limit = None THEN <<>> ELSE <<Kw("LIMIT"), Num(q.limit)>>)

StatementText(s) ==
    CASE s.node = "Select" -> SelectText(s)
      [] s.node = "CreateTable" ->
             <<Kw("CREATE"), Kw("TABLE"), Ident(s.table)>>
             \o In([i \in DOMAIN s.columns |-> <<Ident(s.columns[i].name), Kw(s.columns[i].type)>>])
      [] s.node = "CreateIndex" ->
             <<Kw("CREATE")>> \o (IF s.unique THEN <<Kw("UNIQUE")>> ELSE <<>>)
             \o <<Kw("INDEX"), Ident(s.index), Kw("ON"), Ident(s.table)>> \o In(Idents(<<s.column>>))
      [] s.node = "Insert" ->
             <<Kw("INSERT"), Kw("INTO"), Ident(s.table)>>
             \o (IF s.columns = None THEN <<>> ELSE In(Idents(s.columns)))
             \o <<Kw("VALUES")>> \o Comma([i \in DOMAIN s.rows |-> In(Exprs(s.rows[i]))])
      [] s.node = "Update" ->
             <<Kw("UPDATE"), Ident(s.table), Kw("SET")>>
             \o Comma([i \in DOMAIN s.assignments |->
                          <<Ident(s.assignments[i][1]), Op("=")>> \o Write(s.assignments[i][2], 1)])
             \o Clause(<<Kw("WHERE")>>, s.where)
      [] s.node = "Delete" ->
             <<Kw("DELETE"), Kw("FROM"), Ident(s.table)>> \o Clause(<<Kw("WHERE")>>, s.where)

-----------------------------------------------------------------------------
(* Statements *)

L(v) == Literal(v)
C(c) == ColumnRef(None, c)
TC(t, c) == ColumnRef(t, c)
Cmp(op, l, r) == BinaryOp(op, l, r)
And(l, r) == BinaryOp("AND", l, r)
Or(l, r) == BinaryOp("OR", l, r)
Not(e) == UnaryOp(e)

A1 == Cmp("=", C("a"), L(1))
A0 == Cmp("=", L(0), TC("t", "a"))
B1 == Cmp("=", C("b"), L(1))
BLow == Cmp("<", C("b"), L(1))
Nosuch == Cmp("=", C("nosuch"), L(1))

Wheres == {
    None, A1, A0, BLow, Cmp("<=", C("a"), C("b")), Cmp(">", L(1), C("a")), Cmp(">=", C("b"), L(-1)),
    And(A1, BLow), And(BLow, A1), And(And(A0, B1), Cmp("<>", C("a"), C("b"))), And(A0, And(BLow, B1)),
    Or(A1, And(A0, B1)), And(Or(A1, A0), B1), And(B1, Or(BLow, A1)), Or(Or(A1, B1), A0), Or(A1, Or(B1, A0)),
    Not(A1), Not(And(A1, B1)), And(Not(B1), A0), Not(Not(A0)), Not(Or(A1, BLow)),
    And(Nosuch, A1), And(A1, Nosuch), Or(A1, Nosuch),
    Cmp("=", C("a"), L(None)), Cmp("=", C("a"), L(Text)), And(Cmp("=", C("a"), L(None)), B1),
    Cmp("=", Cmp("=", C("a"), L(1)), C("b")), TC("x", "a") }

StarItem == <<SelectItem(Star, None)>>
Item(e) == SelectItem(e, None)
Asc(e) == OrderByItem(e, FALSE)
Desc(e) == OrderByItem(e, TRUE)
Call(f, e) == SelectItem(FunctionCall(f, e), None)

Filters == {Select(StarItem, "t", None, None, w, <<>>, <<>>, None) : w \in Wheres}

Orders == {
    Select(StarItem, "t", None, None, w[1], <<>>, w[2], w[3]) :
        w \in {<<None, <<Asc(C("a")), Desc(C("b"))>>, None>>, <<None, <<Desc(C("b")), Asc(C("a"))>>, 2>>,
               <<BLow, <<Desc(C("a"))>>, None>>, <<A1, <<Desc(C("b"))>>, 1>>, <<None, <<Desc(C("a"))>>, 2>>,
               <<None, <<Asc(Cmp("=", C("a"), C("b"))), Desc(C("a"))>>, None>>}}
    \cup {Select(<<SelectItem(C("b"), "x"), Item(L(7)), Item(TC("t", "a"))>>, "t", None, None, w[1],
                 <<>>, <<>>, w[2]) :
              w \in {<<None, None>>, <<B1, 1>>, <<Or(B1, Nosuch), 0>>, <<Or(B1, Nosuch), 1>>}}

Groups == {
    Select(<<Item(C("a")), Call("COUNT", Star), Call("SUM", C("b")), Call("MIN", C("b")),
             Call("MAX", C("b")), Call("AVG", C("b"))>>, "t", None, None, w[1], <<"a">>, w[2], w[3]) :
        w \in {<<None, <<>>, None>>, <<BLow, <<Desc(C("a"))>>, 1>>, <<A1, <<>>, None>>,
               <<None, <<Asc(C("sum")), Desc(C("count"))>>, None>>, <<None, <<Desc(C("sum"))>>, 1>>}}
    \cup {Select(<<Call("COUNT", C("a")), SelectItem(FunctionCall("COUNT", L(None)), "n"),
                   Call("MAX", C("a")), Call("AVG", C("b"))>>, "t", None, None, w[1], <<>>, <<>>, w[2]) :
              w \in {<<None, None>>, <<A1, None>>, <<Nosuch, 0>>}}
    \cup {Select(<<Item(C("b")), Item(C("a"))>>, "t", None, None, None, <<"b", "a">>, <<>>, None)}

On == Cmp("=", TC("t", "a"), TC("u", "a"))
TA1 == Cmp("=", TC("t", "a"), L(1))
Joins == {
    Select(<<SelectItem(TC("t", "a"), "x"), Item(C("b")), Item(C("c"))>>, "t", None,
           JoinClause("u", None, w[1]), w[2], <<>>, w[3], w[4]) :
        w \in {<<On, None, <<>>, None>>, <<On, TA1, <<Desc(C("c")), Asc(C("b"))>>, None>>,
               <<Or(On, Cmp("=", C("c"), L(1))), B1, <<>>, 2>>,
               <<Or(On, Nosuch), None, <<>>, 1>>, <<On, And(TA1, BLow), <<Desc(C("c"))>>, 1>>}}
    \cup {Select(<<Item(C("a")), Item(C("c"))>>, "t", None, JoinClause("u", None, On), None, <<>>, <<>>, None),
          Select(<<Item(C("c"))>>, "t", None, JoinClause("u", None, On), Cmp("=", TC("u", "c"), L(1)), <<>>, <<>>, None),
          Select(<<Item(C("c"))>>, "t", None, JoinClause("u", None, On), And(A1, B1), <<>>, <<>>, 0),
          Select(<<Item(TC("y", "b")), Item(TC("x", "b"))>>, "t", "x",
                 JoinClause("t", "y", Cmp("<", TC("x", "a"), TC("y", "a"))),
                 Cmp("=", TC("x", "b"), L(1)), <<>>, <<>>, None),
          Select(<<SelectItem(TC("x", "b"), "l"), SelectItem(TC("y", "b"), "r")>>, "t", "x",
                 JoinClause("t", "y", Cmp("<", TC("x", "a"), TC("y", "a"))),
                 Cmp("=", TC("x", "b"), L(1)), <<>>, <<Asc(TC("y", "b"))>>, None),
          Select(<<Item(C("c")), Call("COUNT", Star), Call("SUM", C("b"))>>, "t", None,
                 JoinClause("u", None, On), None, <<"c">>, <<Desc(C("c"))>>, None)}

Definitions == {
    CreateTable("t", <<ColumnDef("a", "INT"), ColumnDef("b", "INT")>>),
    CreateTable("u", <<ColumnDef("a", "INT"), ColumnDef("c", "BOOL")>>),
    CreateIndex("ia", "t", "a", FALSE), CreateIndex("ub", "t", "b", TRUE),
    CreateIndex("uc", "u", "c", FALSE) }

Changes ==
    {Insert("t", None, <<<<L(x), L(y)>>>>) : x, y \in {0, 1}}
    \cup {Insert("u", None, <<<<L(0), L(5)>>>>), Insert("u", None, <<<<L(1), L(None)>>>>)}
    \cup {Insert("t", <<"b", "zz", "a">>, <<<<L(0), L(None), Cmp("=", L(1), L(1))>>>>),
          Insert("u", <<"a", "c", "a">>, <<<<L(0), L(0), L(1)>>, <<L(1), L(Text), L(1)>>>>),
          Insert("t", None, <<<<L(0), L(1)>>, <<L(1), L(None)>>>>),
          Insert("t", <<"a">>, <<<<L(1)>>>>), Insert("t", None, <<<<L(1), C("a")>>>>),
          Update("t", <<<<"a", L(1)>>>>, BLow), Update("t", <<<<"a", L(1)>>>>, A0),
          Update("t", <<<<"b", L(0)>>, <<"a", L(0)>>, <<"b", L(1)>>>>, None),
          Update("t", <<<<"a", C("b")>>>>, A1), Update("t", <<<<"zz", L(1)>>>>, And(B1, A1)),
          Update("t", <<<<"a", L(None)>>>>, A1), Update("u", <<<<"a", L(1)>>, <<"c", L(None)>>>>, None),
          Delete("t", And(A1, BLow)), Delete("t", Or(Nosuch, A1)), Delete("u", None)}

Statements == Filters \cup Orders \cup Groups \cup Joins \cup Definitions \cup Changes

\* Texts that are cut short, go on, or have a sign before a name.
WrongTexts == {
    <<Kw("SELECT"), Op("*"), Kw("FROM"), Eof>>,
    <<Kw("DELETE"), Kw("FROM"), Ident("t"), Kw("WHERE"), Ident("a"), Op("="), Num(1), Op("="), Num(1), Eof>>,
    <<Kw("UPDATE"), Ident("t"), Kw("SET"), Ident("a"), Op("="), Op("-"), Ident("a"), Eof>>,
    <<Kw("SELECT"), Ident("COUNT"), Op("("), Op("*"), Kw("FROM"), Ident("t"), Eof>> }

MCTexts ==
    {<<StatementText(s) \o <<Op(";"), Eof>>, s>> : s \in Statements}
    \cup {<<text, Raised>> : text \in WrongTexts}
=============================================================================
