------------------------------- MODULE Statements -------------------------------
(***************************************************************************)
(* The other direction: the statements the parser's trees can stand for,   *)
(* with an expression that grows one operator at a time, printed by        *)
(* AstDebugPrinter and parsed again.                                       *)
(***************************************************************************)
EXTENDS Formatter

CONSTANTS Names,     \* the identifiers of the trees
          Mixed,     \* the binary operators put around larger expressions
          MaxLength  \* bound on the tokens of an expression

Logical == {"AND", "OR"}

Arithmetic == {"+", "-", "*", "/", "%"}

ASSUME StatementsAssumption ==
  /\ Names \subseteq Identifiers
  /\ Mixed \subseteq Logical \cup Comparators \cup Arithmetic

VARIABLES expression, \* an expression tree
          statement,  \* the statement the expression is part of
          result      \* what parse() makes of the printed statement

vars == <<expression, statement, result>>

Column(name) == <<"column", <<name>>>>

Leaves ==
  {<<"column", parts>> : parts \in BoundedSeq(Names, 3) \ {<<>>}}
    \cup {<<"literal", v>> : v \in Int64Literals \cup DoubleLiterals \cup StringLiterals
                                     \cup {"TRUE", "FALSE", "NULL"}}

\* The operand a growing expression is combined with.
Operands == {Column(name) : name \in Names}

\* Printed without parentheses, hence not an operand of every operator.
Bare(e) == e[1] \in {"IN", "NOT IN", "LIKE", "NOT LIKE"}

\* One operator around an expression; BETWEEN, which never parses, is left
\* out, and so are the operands the printer would have to bracket.
Larger(e) ==
  LET operators == IF e \in Operands THEN Logical \cup Comparators \cup Arithmetic
                   ELSE IF Bare(e) THEN Mixed \cap Logical ELSE Mixed
      asPattern == e[1] \in {"LIKE", "NOT LIKE"}
  IN  {<<op, x, e>> : op \in operators, x \in Operands}
        \cup {<<op, e, x>> : op \in operators, x \in IF asPattern THEN {} ELSE Operands}
        \cup {<<"call", name, args>> : name \in Names, args \in {<<>>, <<e>>, <<e, e>>}}
        \cup {<<"vector", items>> : items \in {<<e>>, <<e, e>>}}
        \cup {<<tag, x, <<x, e>>>> : tag \in {"IN", "NOT IN"}, x \in Operands}
        \cup {<<tag, x, e>> : tag \in {"LIKE", "NOT LIKE"}, x \in Operands}
        \cup (IF Bare(e) THEN {}
              ELSE {<<op, e>> : op \in {"NOT", "-", "+"}}
                     \cup {<<tag, e, <<x>>>> : tag \in {"IN", "NOT IN"}, x \in Operands}
                     \cup {<<tag, e, x>> : tag \in {"LIKE", "NOT LIKE"}, x \in Operands})

Optionals(S) == {<<>>} \cup {<<x>> : x \in S}

Flags == {TRUE, FALSE}

Modifiers == {<<>>, <<"NOT NULL">>, <<"UNIQUE", "PRIMARY KEY">>, <<"AUTO_INCREMENT", "NOT NULL">>}

\* Column definitions and the statements that hold them; DEFAULT comes last,
\* for it does not parse before NOT NULL.
Definitions(e) ==
  {<<"definition", name, name, args, pair, comment>> :
     name \in Names, args \in {<<>>, <<e>>},
     pair \in {<<m, <<>>>> : m \in Modifiers}
                \cup {<<Append(m, "DEFAULT"), <<e>>>> : m \in Modifiers},
     comment \in Optionals(StringLiterals)}

DefiningStatements(e) ==
  {<<"CREATE COLLECTION", f, n, <<d>>>> : f \in Flags, n \in Names, d \in Definitions(e)}
    \cup {<<"CREATE COLLECTION", FALSE, n, <<d, d>>>> : n \in Names, d \in Definitions(e)}
    \cup {<<tag, n, d>> : tag \in {"ADD COLUMN", "MODIFY COLUMN"}, n \in Names,
                          d \in Definitions(e)}

\* SELECT with every choice of clauses.
Selections(e) ==
  LET O     == Optionals({e})
      items == {<< <<"*">> >>} \cup {<< <<"item", e, alias>>, <<"*">> >> : alias \in Optionals(Names)}
      order == {<<>>} \cup {<< <<"order", e, d>> >> : d \in {"ASC", "DESC"}}
      count == Optionals(UInt64Literals)
  IN  {<<"SELECT", i, n, where, group, having, by, limit, offset>> :
         i \in items, n \in Names, where \in O, group \in O, having \in O,
         by \in order, limit \in count, offset \in count}

\* The statements about databases, collections and indexes.
PlainStatements ==
  LET N == Names
      O == Optionals(Names)
  IN  {<<"USE", n>> : n \in N} \cup {<<"DESCRIBE", n>> : n \in N}
        \cup {<<"SHOW DATABASES">>} \cup {<<"SHOW COLLECTIONS", o>> : o \in O}
        \cup {<<tag, n, o>> : tag \in {"SHOW INDEXES", "SHOW VINDEXES"}, n \in N, o \in O}
        \cup {<<tag, f, n>> : tag \in {"CREATE DATABASE", "DROP DATABASE", "DROP COLLECTION"},
                              f \in Flags, n \in N}
        \cup {<<tag, f, n, m>> : tag \in {"DROP INDEX", "DROP VINDEX"},
                                 f \in Flags, n \in N, m \in N}
        \cup {<<"CREATE INDEX", f, n, m, columns, o>> :
                f \in Flags, n \in N, m \in N, columns \in BoundedSeq(N, 2) \ {<<>>}, o \in O}
        \cup {<<"DROP COLUMN", n, m>> : n \in N, m \in N}
        \cup {<<"RENAME COLUMN", n, m, k>> : n \in N, m \in N, k \in N}

DeleteWhere(name, e) == <<"DELETE", name, <<e>>>>

\* The statements with the expression in one of its places.
StatementsWith(e) ==
  LET N == Names
      O == Optionals({e})
  IN  {<<"DELETE", n, where>> : n \in N, where \in O}
        \cup {<<"UPDATE", n, << <<"assignment", n, e>> >>, where>> : n \in N, where \in O}
        \cup {<<"INSERT", n, columns, values>> :
                n \in N, columns \in BoundedSeq(N, 1), values \in {<<e>>, <<e, e>>}}
        \cup {<<"SELECT", << <<"item", e, o>> >>, n, where, <<e, e>>, <<e>>,
                 << <<"order", e, "ASC">>, <<"order", e, "DESC">> >>, <<>>, <<>>>> :
                n \in N, o \in Optionals(N), where \in O}
        \cup {<<tag, n, <<"definition", n, n, <<e, e>>, << <<"UNIQUE", "DEFAULT">>, <<e>> >>, <<>>>> >> :
                tag \in {"ADD COLUMN", "MODIFY COLUMN"}, n \in N}

-------------------------------------------------------------------------------
State(s) == /\ statement' = s
            /\ result' = Parse(StatementText(s))

Init ==
  /\ \/ /\ expression \in Leaves
        /\ statement \in {DeleteWhere(name, expression) : name \in Names}
     \/ /\ expression \in Operands
        /\ statement \in PlainStatements \cup Selections(expression)
                         \cup DefiningStatements(expression)
  /\ result = Parse(StatementText(statement))

\* The condition of a DELETE gets one operator more.
Grow ==
  \E name \in Names, e \in Larger(expression) :
     /\ statement = DeleteWhere(name, expression)
     /\ Len(ExpressionText(e)) <= MaxLength
     /\ expression' = e
     /\ State(DeleteWhere(name, e))

\* The expression is put in another place.
Place ==
  \E name \in Names, s \in StatementsWith(expression) :
     /\ statement = DeleteWhere(name, expression)
     /\ State(s)
     /\ UNCHANGED expression

Next == Grow \/ Place

Spec == Init /\ [][Next]_vars

-------------------------------------------------------------------------------
\* The expressions an expression is made of.
PartsOf(e) ==
  CASE e[1] \in {"literal", "column"} -> <<>>
    [] e[1] = "call"                  -> e[3]
    [] e[1] = "vector"                -> e[2]
    [] e[1] \in {"IN", "NOT IN"}      -> <<e[2]>> \o e[3]
    [] OTHER                          -> Tail(e)

\* Every double in the expression is printed as itself.
RECURSIVE PrintedExactly(_)
PrintedExactly(e) ==
  /\ e[1] = "literal" /\ e[2] \in DoubleLiterals => PrintedAs[e[2]] = e[2]
  /\ \A i \in DOMAIN PartsOf(e) : PrintedExactly(PartsOf(e)[i])

\* The printed form of every statement is accepted, and what it is parsed to
\* prints the same again: no form of a statement is lost to the parser, and
\* parentheses undo every default grouping, however deep.  It means the
\* statement it was printed from, unless that has a double which the printer
\* changes: 1.0 comes back as an integer, and all digits after the sixth go.
ParsesBack ==
  /\ result.outcome = "accepted"
  /\ StatementText(result.tree) = StatementText(statement)
  /\ PrintedExactly(expression) => result.tree = statement

===============================================================================
