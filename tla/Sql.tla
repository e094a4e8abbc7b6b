-------------------------------- MODULE Sql --------------------------------
(***************************************************************************)
(* Statements of minirel's SQL and the parser (sql/ast.py, sql/parser.py). *)
(*                                                                         *)
(* A token is a pair of its kind and its value, as tokenize() leaves it:   *)
(* NUMBER tokens carry their number, STRING tokens the one text the model  *)
(* knows.  The productions of the recursive-descent parser map a position  *)
(* in the token list to a node and the position behind it; a ParseError is *)
(* position 0.  True and False are the numbers 1 and 0, to which they are  *)
(* equal in Python.                                                        *)
(***************************************************************************)
EXTENDS Integers, Sequences

CONSTANTS
    None,   \* Python's None: the SQL NULL, and "not there" in a statement
    Text    \* the text literal

-----------------------------------------------------------------------------
(* Expressions and statements *)

Literal(v) == [node |-> "Literal", value |-> v]

ColumnRef(t, c) == [node |-> "ColumnRef", table |-> t, name |-> c]

Star == [node |-> "Star"]

UnaryOp(x) == [node |-> "UnaryOp", operand |-> x]

BinaryOp(op, l, r) == [node |-> "BinaryOp", op |-> op, left |-> l, right |-> r]

FunctionCall(f, x) == [node |-> "FunctionCall", name |-> f, arg |-> x]

ColumnDef(c, type) == [name |-> c, type |-> type]

CreateTable(t, cols) == [node |-> "CreateTable", table |-> t, columns |-> cols]

CreateIndex(i, t, c, u) ==
    [node |-> "CreateIndex", index |-> i, table |-> t, column |-> c, unique |-> u]

Insert(t, cols, rows) ==
    [node |-> "Insert", table |-> t, columns |-> cols, rows |-> rows]

SelectItem(x, a) == [expr |-> x, alias |-> a]

JoinClause(t, a, on) == [table |-> t, alias |-> a, on |-> on]

OrderByItem(x, desc) == [expr |-> x, descending |-> desc]

Select(items, t, a, join, where, groups, orders, limit) ==
    [node |-> "Select", items |-> items, table |-> t, alias |-> a, join |-> join,
     where |-> where, groupBy |-> groups, orderBy |-> orders, limit |-> limit]

Update(t, sets, where) ==
    [node |-> "Update", table |-> t, assignments |-> sets, where |-> where]

Delete(t, where) == [node |-> "Delete", table |-> t, where |-> where]

-----------------------------------------------------------------------------
(* Tokens and parse results *)

Kw(w) == <<"KEYWORD", w>>
Op(o) == <<"OP", o>>
Ident(n) == <<"IDENT", n>>
Num(n) == <<"NUMBER", n>>
Str(s) == <<"STRING", s>>
Eof == <<"EOF", None>>

ComparisonOps == {"=", "<>", "!=", "<", "<=", ">", ">="}

ParseError == [pos |-> 0]
Found(node, p) == [pos |-> p, node |-> node]

\* The parser goes on with a node that was found and the position behind it, or
\* builds another node of it.
Then(r, F(_, _)) == IF r.pos = 0 THEN r ELSE F(r.node, r.pos)
Build(r, F(_)) == IF r.pos = 0 THEN r ELSE Found(F(r.node), r.pos)

\* The productions that can be an element of a series or of a list.
Rule(name) == <<"RULE", name>>
ListOf(name) == <<"LIST", name>>

\* _expect: the token itself, or any name or number.
Expect(want, ts, p) ==
    IF \/ ts[p] = want
       \/ want = Rule("name") /\ ts[p][1] = "IDENT"
       \/ want = Rule("number") /\ ts[p][1] = "NUMBER"
    THEN Found(ts[p][2], p + 1)
    ELSE ParseError

RECURSIVE Parse(_, _, _), ParseSeries(_, _, _), ParseList(_, _, _)
RECURSIVE ParseChain(_, _, _), ParseExpr(_, _), ParseAnd(_, _), ParseNot(_, _), ParsePrimary(_, _)

\* One production after the other: the sequence of their nodes.
ParseSeries(rules, ts, p) ==
    IF rules = <<>> THEN Found(<<>>, p) ELSE
    Then(Parse(Head(rules), ts, p), LAMBDA node, q :
        Build(ParseSeries(Tail(rules), ts, q), LAMBDA nodes : <<node>> \o nodes))

\* "item, item, ...": an item, and another for as long as a comma matches.
ParseList(name, ts, p) ==
    Then(Parse(Rule(name), ts, p), LAMBDA node, q :
        IF ts[q] # Op(",") THEN Found(<<node>>, q)
        ELSE Build(ParseList(name, ts, q + 1), LAMBDA nodes : <<node>> \o nodes))

\* A clause that starts with its own token and may be missing; its node is the
\* one of its i-th part.
Optional(start, rules, i, missing, ts, p) ==
    IF ts[p] = start
    THEN Build(ParseSeries(rules, ts, p + 1), LAMBDA nodes : nodes[i])
    ELSE Found(missing, p)

-----------------------------------------------------------------------------
(* Expressions: OR < AND < NOT < comparison < primary *)

\* The loops of _parse_or and _parse_and: operators group to the left.
ParseChain(op, left, ts) ==
    Then(left, LAMBDA l, q :
        IF ts[q] # Kw(op) THEN left
        ELSE ParseChain(op, Build(IF op = "AND" THEN ParseNot(ts, q + 1) ELSE ParseAnd(ts, q + 1),
                                  LAMBDA r : BinaryOp(op, l, r)), ts))

ParseAnd(ts, p) == ParseChain("AND", ParseNot(ts, p), ts)

ParseExpr(ts, p) == ParseChain("OR", ParseAnd(ts, p), ts)

ParseComparison(ts, p) ==
    Then(ParsePrimary(ts, p), LAMBDA left, q :
        IF ts[q][1] # "OP" \/ ts[q][2] \notin ComparisonOps THEN Found(left, q)
        ELSE Build(ParsePrimary(ts, q + 1), LAMBDA right :
                 BinaryOp(IF ts[q] = Op("!=") THEN "<>" ELSE ts[q][2], left, right)))

\* (Fault: NOT takes all that follows.)
ParseNotLoosely(ts, p) ==
    IF ts[p] = Kw("NOT")
    THEN Build(ParseExpr(ts, p + 1), LAMBDA x : UnaryOp(x))
    ELSE ParseComparison(ts, p)

ParseNot(ts, p) ==
    IF ts[p] = Kw("NOT")
    THEN Build(ParseNot(ts, p + 1), LAMBDA x : UnaryOp(x))
    ELSE ParseComparison(ts, p)

\* A sign is folded into a number and refused before anything else.
ParseMinus(ts, p) ==
    Then(ParsePrimary(ts, p + 1), LAMBDA x, q :
        IF x.node = "Literal" /\ x.value \notin {None, Text} THEN Found(Literal(-x.value), q)
        ELSE ParseError)

\* A name alone, with a column behind a dot, or called on an argument.
ParseName(ts, p) ==
    CASE ts[p + 1] = Op("(") ->
             Then(IF ts[p + 2] = Op("*") THEN Found(Star, p + 2) ELSE ParseExpr(ts, p + 2),
                  LAMBDA arg, q :
                      Build(Expect(Op(")"), ts, IF arg = Star /\ ts[q] = Op("*") THEN q + 1 ELSE q),
                            LAMBDA x : FunctionCall(ts[p][2], arg)))
      [] ts[p + 1] = Op(".") ->
             Build(Expect(Rule("name"), ts, p + 2), LAMBDA c : ColumnRef(ts[p][2], c))
      [] OTHER -> Found(ColumnRef(None, ts[p][2]), p + 1)

ParsePrimary(ts, p) ==
    CASE ts[p] = Op("-") -> ParseMinus(ts, p)
      [] ts[p][1] \in {"NUMBER", "STRING"} -> Found(Literal(ts[p][2]), p + 1)
      [] ts[p] = Kw("TRUE") -> Found(Literal(1), p + 1)
      [] ts[p] = Kw("FALSE") -> Found(Literal(0), p + 1)
      [] ts[p] = Kw("NULL") -> Found(Literal(None), p + 1)
      [] ts[p] = Op("(") ->
             Build(ParseSeries(<<Rule("expr"), Op(")")>>, ts, p + 1), LAMBDA n : n[1])
      [] ts[p] = Op("*") -> Found(Star, p + 1)
      [] ts[p][1] = "IDENT" -> ParseName(ts, p)
      [] OTHER -> ParseError

-----------------------------------------------------------------------------
(* Clauses and statements *)

ParseOptionalAlias(ts, p) ==
    CASE ts[p] = Kw("AS") -> Expect(Rule("name"), ts, p + 1)
      [] ts[p][1] = "IDENT" -> Found(ts[p][2], p + 1)
      [] OTHER -> Found(None, p)

ParseSelectItem(ts, p) ==
    Then(ParseExpr(ts, p), LAMBDA x, q :
        Build(Optional(Kw("AS"), <<Rule("name")>>, 1, None, ts, q),
              LAMBDA alias : SelectItem(x, alias)))

ParseSelectItems(ts, p) ==
    IF ts[p] = Op("*") THEN Found(<<SelectItem(Star, None)>>, p + 1)
    ELSE ParseList("select item", ts, p)

ParseOrderItem(ts, p) ==
    Then(ParseExpr(ts, p), LAMBDA x, q :
        Found(OrderByItem(x, ts[q] = Kw("DESC")),
              IF ts[q] \in {Kw("DESC"), Kw("ASC")} THEN q + 1 ELSE q))

ParseAssignment(ts, p) ==
    Build(ParseSeries(<<Rule("name"), Op("="), Rule("expr")>>, ts, p),
          LAMBDA n : <<n[1], n[3]>>)

ParseValueRow(ts, p) ==
    Build(ParseSeries(<<Op("("), ListOf("expr"), Op(")")>>, ts, p), LAMBDA n : n[2])

ParseColumnDef(ts, p) ==
    IF ts[p][1] = "IDENT" /\ ts[p + 1][2] \in {"INT", "FLOAT", "TEXT", "BOOL"}
    THEN Found(ColumnDef(ts[p][2], ts[p + 1][2]), p + 2)
    ELSE ParseError

ParseJoin(ts, p) ==
    Build(ParseSeries(<<Rule("name"), Rule("alias"), Kw("ON"), Rule("expr")>>, ts, p),
          LAMBDA n : JoinClause(n[1], n[2], n[4]))

ParseSelect(ts, p) ==
    Build(ParseSeries(<<Kw("SELECT"), Rule("select items"), Kw("FROM"), Rule("name"),
                        Rule("alias"), Rule("join"), Rule("where"), Rule("group by"),
                        Rule("order by"), Rule("limit")>>, ts, p),
          LAMBDA n : Select(n[2], n[4], n[5], n[6], n[7], n[8], n[9], n[10]))

ParseCreate(ts, p) ==
    LET unique == ts[p + 1] = Kw("UNIQUE")
        q      == IF unique THEN p + 2 ELSE p + 1
    IN  IF ts[q] = Kw("TABLE")
        THEN Build(ParseSeries(<<Rule("name"), Op("("), ListOf("column def"), Op(")")>>, ts, q + 1),
                   LAMBDA n : CreateTable(n[1], n[3]))
        ELSE Build(ParseSeries(<<Kw("INDEX"), Rule("name"), Kw("ON"), Rule("name"),
                                 Op("("), Rule("name"), Op(")")>>, ts, q),
                   LAMBDA n : CreateIndex(n[2], n[4], n[6], unique))

ParseInsert(ts, p) ==
    Build(ParseSeries(<<Kw("INSERT"), Kw("INTO"), Rule("name"), Rule("columns"),
                        Kw("VALUES"), ListOf("value row")>>, ts, p),
          LAMBDA n : Insert(n[3], n[4], n[6]))

ParseUpdate(ts, p) ==
    Build(ParseSeries(<<Kw("UPDATE"), Rule("name"), Kw("SET"), ListOf("assignment"),
                        Rule("where")>>, ts, p),
          LAMBDA n : Update(n[2], n[4], n[5]))

ParseDelete(ts, p) ==
    Build(ParseSeries(<<Kw("DELETE"), Kw("FROM"), Rule("name"), Rule("where")>>, ts, p),
          LAMBDA n : Delete(n[3], n[4]))

Parse(rule, ts, p) ==
    CASE rule[1] = "LIST" -> ParseList(rule[2], ts, p)
      [] rule = Rule("expr") -> ParseExpr(ts, p)
      [] rule = Rule("alias") -> ParseOptionalAlias(ts, p)
      [] rule = Rule("select item") -> ParseSelectItem(ts, p)
      [] rule = Rule("select items") -> ParseSelectItems(ts, p)
      [] rule = Rule("order item") -> ParseOrderItem(ts, p)
      [] rule = Rule("assignment") -> ParseAssignment(ts, p)
      [] rule = Rule("value row") -> ParseValueRow(ts, p)
      [] rule = Rule("column def") -> ParseColumnDef(ts, p)
      [] rule = Rule("columns") ->
             Optional(Op("("), <<ListOf("name"), Op(")")>>, 1, None, ts, p)
      [] rule = Rule("join") ->
             IF ts[p] = Kw("JOIN") THEN ParseJoin(ts, p + 1) ELSE Found(None, p)
      [] rule = Rule("where") -> Optional(Kw("WHERE"), <<Rule("expr")>>, 1, None, ts, p)
      [] rule = Rule("group by") ->
             Optional(Kw("GROUP"), <<Kw("BY"), ListOf("name")>>, 2, <<>>, ts, p)
      [] rule = Rule("order by") ->
             Optional(Kw("ORDER"), <<Kw("BY"), ListOf("order item")>>, 2, <<>>, ts, p)
      [] rule = Rule("limit") -> Optional(Kw("LIMIT"), <<Rule("number")>>, 1, None, ts, p)
      [] OTHER -> Expect(rule, ts, p)

\* An optional semicolon, and nothing behind it.
Complete(r, ts) ==
    LET end == IF r.pos # 0 /\ ts[r.pos] = Op(";") THEN r.pos + 1 ELSE r.pos
    IN  IF end # 0 /\ ts[end] = Eof THEN r.node ELSE None

ParseStatement(ts) ==
    Complete(CASE ts[1] = Kw("CREATE") -> ParseCreate(ts, 1)
               [] ts[1] = Kw("INSERT") -> ParseInsert(ts, 1)
               [] ts[1] = Kw("SELECT") -> ParseSelect(ts, 1)
               [] ts[1] = Kw("UPDATE") -> ParseUpdate(ts, 1)
               [] ts[1] = Kw("DELETE") -> ParseDelete(ts, 1)
               [] OTHER -> ParseError, ts)
=============================================================================
