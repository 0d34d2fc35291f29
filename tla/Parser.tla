-------------------------------- MODULE Parser --------------------------------
(***************************************************************************)
(* The recursive-descent SQL parser of src/parser/parser.cpp, as operators *)
(* on a cursor.  The lexer is abstract: a statement is a sequence of       *)
(* tokens, a keyword or symbol is its own type, and the other lexemes are  *)
(* classified by the constants.  Every parse function takes the cursor and *)
(* returns it past the text it read, its result pushed last; a result is   *)
(* a tuple whose first element names the AST node.                         *)
(***************************************************************************)
EXTENDS Naturals, SequencesExt

CONSTANTS Identifiers,      \* lexemes the lexer reads as an Identifier
          StringLiterals,   \* ... as a StringLiteral
          FloatLiterals,    \* ... as a FloatLiteral
          IntegerLiterals,  \* ... as an IntegerLiteral
          Int64Literals,    \* the integer literals std::stoll accepts
          UInt64Literals,   \* the integer literals std::stoull accepts
          DoubleLiterals    \* the float literals std::stod accepts

ASSUME LiteralsAssumption ==
  /\ Int64Literals \subseteq UInt64Literals
  /\ UInt64Literals \subseteq IntegerLiterals
  /\ DoubleLiterals \subseteq FloatLiterals

TypeOf(token) ==
  CASE token \in Identifiers     -> "identifier"
    [] token \in StringLiterals  -> "string"
    [] token \in FloatLiterals   -> "float"
    [] token \in IntegerLiterals -> "integer"
    [] token = "<>"              -> "!="
    [] OTHER                     -> token

(***************************************************************************)
(* The cursor: what is left to read, the results of the enclosing calls    *)
(* and how the call to parse() stands.  A ParseException leaves rest at    *)
(* the token it was raised at; "abort" is a failed assert of the AST.      *)
(***************************************************************************)
Start(tokens) == [rest |-> tokens, got |-> <<>>, outcome |-> "parsing"]

Parsing(p) == p.outcome = "parsing"

Type(p) == CASE ~Parsing(p)   -> "none"
             [] p.rest = <<>> -> "EoF"
             [] OTHER         -> TypeOf(Head(p.rest))

Stop(p, outcome) == IF Parsing(p) THEN [p EXCEPT !.outcome = outcome] ELSE p

Error(p) == Stop(p, "error")

Advance(p) == IF Parsing(p) /\ p.rest # <<>> THEN [p EXCEPT !.rest = Tail(@)]
              ELSE p

Consume(p, type) == IF Type(p) = type THEN Advance(p) ELSE Error(p)

ConsumeAll(p, types) ==
  LET after[n \in 0..Len(types)] ==
        IF n = 0 THEN p ELSE Consume(after[n - 1], types[n])
  IN  after[Len(types)]

Push(p, result) == IF Parsing(p) THEN [p EXCEPT !.got = Append(@, result)] ELSE p

\* Replaces the last n results by Combine of the tuple of them.
Reduce(p, n, Combine(_)) ==
  IF ~Parsing(p) THEN p
  ELSE LET k == Len(p.got) - n
       IN  [p EXCEPT !.got = Append(SubSeq(@, 1, k), Combine(SubSeq(@, k + 1, k + n)))]

Node(p, tag, n) == Reduce(p, n, LAMBDA children : <<tag>> \o children)

Take(p, type) == Consume(IF Type(p) = type THEN Push(p, Head(p.rest)) ELSE p, type)

Identifier(p) == Take(p, "identifier")

Apply(Then(_), p) == Then(p)

\* The body repeats while the current token has one of the types.
While(p, types, Body(_)) ==
  LET RECURSIVE Loop(_)
      Loop(q) == IF Type(q) \in types THEN Loop(Body(q)) ELSE q
  IN  Loop(p)

\* do { Item } while (match(Comma)), pushed as one sequence.
ListOf(p, Item(_)) ==
  LET RECURSIVE Items(_)
      Items(q) == Apply(LAMBDA r : IF Type(r) = "," THEN Items(Advance(r)) ELSE r,
                        Reduce(Item(q), 2, LAMBDA x : Append(x[1], x[2])))
  IN  Items(Push(p, <<>>))

\* if (match(type)) Then, pushed as a sequence of at most one element.
Optional(p, type, Then(_)) ==
  IF Type(p) = type THEN Reduce(Then(Advance(p)), 1, LAMBDA found : found)
  ELSE Push(p, <<>>)

-------------------------------------------------------------------------------
(***************************************************************************)
(* Expressions, one operator per level of precedence.                      *)
(***************************************************************************)
ExpressionStarts ==
  {"integer", "float", "string", "TRUE", "FALSE", "NULL", "identifier",
   "+", "-", "NOT", "(", "["}

Comparators == {"=", "!=", "<", ">", "<=", ">="}

RECURSIVE OrExpression(_)

Expression(p) == IF Type(p) \in ExpressionStarts THEN OrExpression(p) ELSE Error(p)

\* A list up to the closing token, which may follow at once.
Enclosed(p, close) ==
  Consume(IF Type(p) = close THEN Push(p, <<>>) ELSE ListOf(p, Expression), close)

\* The assertion of the AST node that the list just read is not empty.
AssertNotEmpty(p) ==
  IF Parsing(p) /\ Last(p.got) = <<>> THEN Stop(p, "abort") ELSE p

\* Two or three parts joined by dots; the current token is the first part.
ColumnReference(p) ==
  LET first   == Reduce(Identifier(p), 1, LAMBDA name : name)
      part(q) == IF Type(q) = "."
                 THEN Reduce(Identifier(Advance(q)), 2, LAMBDA x : Append(x[1], x[2]))
                 ELSE q
  IN  Node(part(part(first)), "column", 1)

\* Bug: a call must have an argument, like IN and a vector.
FunctionCallAsserting(p) ==
  Node(AssertNotEmpty(Enclosed(Consume(Identifier(p), "("), ")")), "call", 2)

FunctionCall(p) ==
  Node(Enclosed(Consume(Identifier(p), "("), ")"), "call", 2)

Literal(p, representable) ==
  IF Head(p.rest) \in representable THEN Node(Push(Advance(p), Head(p.rest)), "literal", 1)
  ELSE Error(Advance(p))

PrimaryExpression(p) ==
  CASE Type(p) = "integer" -> Literal(p, Int64Literals)
    [] Type(p) = "float"   -> Literal(p, DoubleLiterals)
    [] Type(p) = "string"  -> Literal(p, StringLiterals)
    [] Type(p) \in {"TRUE", "FALSE", "NULL"} -> Literal(p, {Type(p)})
    [] Type(p) = "identifier" ->
         IF Type(Advance(p)) = "(" THEN FunctionCall(p) ELSE ColumnReference(p)
    [] Type(p) = "(" -> Consume(Expression(Advance(p)), ")")
    [] Type(p) = "[" -> Node(AssertNotEmpty(Enclosed(Advance(p), "]")), "vector", 1)
    [] OTHER -> Error(p)

RECURSIVE UnaryExpression(_)
UnaryExpression(p) ==
  IF Type(p) \in {"+", "-", "NOT"} THEN Node(UnaryExpression(Advance(p)), Type(p), 1)
  ELSE PrimaryExpression(p)

\* Operands joined by the operators, each pair grouped as soon as it is read.
LeftAssociative(p, Operand(_), operators) ==
  LET RECURSIVE Operands(_, _)
      Operands(q, op) ==
        Apply(LAMBDA r : IF Type(r) \in operators THEN Operands(Advance(r), Type(r)) ELSE r,
              Apply(LAMBDA r : IF op = "first" THEN r ELSE Node(r, op, 2), Operand(q)))
  IN  Operands(p, "first")

\* Bug: the loop does not know the modulo operator.
MultiplicativeExpressionTwo(p) == LeftAssociative(p, UnaryExpression, {"*", "/"})

MultiplicativeExpression(p) == LeftAssociative(p, UnaryExpression, {"*", "/", "%"})

AdditiveExpression(p) == LeftAssociative(p, MultiplicativeExpression, {"+", "-"})

\* The left operand is the last result; the current token is the keyword.
InExpression(p, tag) ==
  Node(AssertNotEmpty(Enclosed(Consume(Advance(p), "("), ")")), tag, 2)

BetweenExpression(p, tag) ==
  Node(Expression(Consume(Expression(Advance(p)), "AND")), tag, 3)

LikeExpression(p, tag) == Node(Expression(Advance(p)), tag, 2)

\* What follows the left operand, the last result.
ComparisonRest(left) ==
  LET negated == Advance(left)
  IN  CASE Type(left) \in Comparators ->
             Node(AdditiveExpression(Advance(left)), Type(left), 2)
        [] Type(left) = "IN"      -> InExpression(left, "IN")
        [] Type(left) = "BETWEEN" -> BetweenExpression(left, "BETWEEN")
        [] Type(left) = "LIKE"    -> LikeExpression(left, "LIKE")
        [] Type(left) = "NOT" ->
             CASE Type(negated) = "IN"      -> InExpression(negated, "NOT IN")
               [] Type(negated) = "BETWEEN" -> BetweenExpression(negated, "NOT BETWEEN")
               [] Type(negated) = "LIKE"    -> LikeExpression(negated, "NOT LIKE")
               [] OTHER -> Error(negated)
        [] OTHER -> left

ComparisonExpression(p) == ComparisonRest(AdditiveExpression(p))

\* Bug: AND and OR are read in one loop.
AndExpressionLoose(p) == LeftAssociative(p, ComparisonExpression, {"AND", "OR"})

AndExpression(p) == LeftAssociative(p, ComparisonExpression, {"AND"})

OrExpression(p) == LeftAssociative(p, AndExpression, {"OR"})

-------------------------------------------------------------------------------
(***************************************************************************)
(* Clauses and statements.  On entry of a statement the current token is   *)
(* its first keyword.                                                      *)
(***************************************************************************)
ColumnModifiers == {"NOT", "PRIMARY", "AUTO_INCREMENT", "UNIQUE", "DEFAULT"}

\* The last result is the pair of the modifiers read and the default value.
ColumnModifier(p) ==
  LET next == Advance(p)
      With(q, modifier) ==
        Reduce(q, 1, LAMBDA x : <<Append(x[1][1], modifier), x[1][2]>>)
  IN  CASE Type(p) = "NOT"     -> With(Consume(next, "NULL"), "NOT NULL")
        [] Type(p) = "PRIMARY" -> With(Consume(next, "KEY"), "PRIMARY KEY")
        [] Type(p) = "DEFAULT" ->
             Reduce(Expression(next), 2,
                    LAMBDA x : <<Append(x[1][1], "DEFAULT"), <<x[2]>>>>)
        [] OTHER -> With(next, Type(p))

TypeArguments(p) == IF Type(p) = "(" THEN Enclosed(Advance(p), ")") ELSE Push(p, <<>>)

Modified(p) == While(Push(p, << <<>>, <<>> >>), ColumnModifiers, ColumnModifier)

Comment(p) == Take(p, "string")

ColumnDefinition(p) ==
  Node(Optional(Modified(TypeArguments(Identifier(Identifier(p)))), "COMMENT", Comment),
       "definition", 5)

\* IF NOT EXISTS and IF EXISTS.
Existence(p, words) ==
  IF Type(p) = "IF" THEN Push(ConsumeAll(Advance(p), words), TRUE) ELSE Push(p, FALSE)

SelectItem(p) ==
  IF Type(p) = "*" THEN Push(Advance(p), <<"*">>)
  ELSE Node(Optional(Expression(p), "AS", Identifier), "item", 2)

\* Bug: DESC is read and forgotten.
DirectionAscending(p) == Push(IF Type(p) \in {"DESC", "ASC"} THEN Advance(p) ELSE p, "ASC")

Direction(p) ==
  IF Type(p) \in {"DESC", "ASC"} THEN Push(Advance(p), Type(p)) ELSE Push(p, "ASC")

OrderByItem(p) == Node(Direction(Expression(p)), "order", 2)

RowCount(p) ==
  IF Type(p) = "integer" /\ Head(p.rest) \in UInt64Literals THEN Take(p, "integer")
  ELSE Error(p)

\* GROUP BY and ORDER BY.
ByClause(p, keyword, Item(_)) ==
  IF Type(p) = keyword THEN ListOf(Consume(Advance(p), "BY"), Item) ELSE Push(p, <<>>)

SelectFrom(p) == Identifier(Consume(ListOf(Advance(p), SelectItem), "FROM"))

Grouped(p) ==
  Optional(ByClause(Optional(p, "WHERE", Expression), "GROUP", Expression),
           "HAVING", Expression)

Ordered(p) ==
  Optional(Optional(ByClause(p, "ORDER", OrderByItem), "LIMIT", RowCount),
           "OFFSET", RowCount)

SelectStatement(p) == Node(Ordered(Grouped(SelectFrom(p))), "SELECT", 8)

ColumnNames(p) ==
  IF Type(p) = "(" THEN Consume(ListOf(Advance(p), Identifier), ")") ELSE Push(p, <<>>)

RowValues(p) == Consume(ListOf(ConsumeAll(p, <<"VALUES", "(">>), Expression), ")")

InsertStatement(p) ==
  Node(RowValues(ColumnNames(Identifier(Consume(Advance(p), "INTO")))), "INSERT", 3)

\* <name> = <expression>, in UPDATE ... SET and in CREATE VINDEX ... WITH.
Assignment(p) == Node(Expression(Consume(Identifier(p), "=")), "assignment", 2)

UpdateStatement(p) ==
  LET set == ListOf(Consume(Identifier(Advance(p)), "SET"), Assignment)
  IN  Node(Optional(set, "WHERE", Expression), "UPDATE", 3)

DeleteStatement(p) ==
  Node(Optional(Identifier(Consume(Advance(p), "FROM")), "WHERE", Expression), "DELETE", 2)

CreateCollection(p) ==
  Node(Consume(ListOf(Consume(Identifier(p), "("), ColumnDefinition), ")"),
       "CREATE COLLECTION", 3)

\* <index> ON <collection> (
IndexOn(p) == Consume(Identifier(Consume(Identifier(p), "ON")), "(")

CreateIndex(p) ==
  Node(Optional(Consume(ListOf(IndexOn(p), Identifier), ")"), "USING", Identifier),
       "CREATE INDEX", 5)

Options(p) ==
  IF Type(p) = "WITH"
  THEN Consume(ListOf(Consume(Advance(p), "("), Assignment), ")")
  ELSE Push(p, <<>>)

\* WITH is looked for only after USING.
UsingWith(p) ==
  IF Type(p) = "USING"
  THEN Options(Reduce(Identifier(Advance(p)), 1, LAMBDA type : type))
  ELSE Push(Push(p, <<>>), <<>>)

CreateVIndex(p) ==
  Node(UsingWith(Consume(Identifier(IndexOn(p)), ")")), "CREATE VINDEX", 6)

CreateStatement(p) ==
  LET object == Advance(p)
      body   == Existence(Advance(object), <<"NOT", "EXISTS">>)
  IN  CASE Type(object) = "DATABASE"   -> Node(Identifier(body), "CREATE DATABASE", 2)
        [] Type(object) = "COLLECTION" -> CreateCollection(body)
        [] Type(object) = "INDEX"      -> CreateIndex(body)
        [] Type(object) = "VINDEX"     -> CreateVIndex(body)
        [] OTHER -> Error(object)

DropStatement(p) ==
  LET object == Advance(p)
      named  == Identifier(Existence(Advance(object), <<"EXISTS">>))
  IN  CASE Type(object) = "DATABASE"   -> Node(named, "DROP DATABASE", 2)
        [] Type(object) = "COLLECTION" -> Node(named, "DROP COLLECTION", 2)
        [] Type(object) \in {"INDEX", "VINDEX"} ->
             Node(Identifier(Consume(named, "ON")),
                  IF Type(object) = "INDEX" THEN "DROP INDEX" ELSE "DROP VINDEX", 3)
        [] OTHER -> Error(object)

UseStatement(p) == Node(Identifier(Advance(p)), "USE", 1)

AddColumn(p) == Node(ColumnDefinition(p), "ADD COLUMN", 2)

DropColumn(p) == Node(Identifier(p), "DROP COLUMN", 2)

ModifyColumn(p) == Node(ColumnDefinition(p), "MODIFY COLUMN", 2)

RenameColumn(p) == Node(Identifier(Consume(Identifier(p), "TO")), "RENAME COLUMN", 3)

\* The current token says what is done to the column.
ColumnChange(p) ==
  LET column == Consume(Advance(p), "COLUMN")
  IN  CASE Type(p) = "ADD"    -> AddColumn(column)
        [] Type(p) = "DROP"   -> DropColumn(column)
        [] Type(p) = "MODIFY" -> ModifyColumn(column)
        [] Type(p) = "RENAME" -> RenameColumn(column)
        [] OTHER -> Error(p)

AlterStatement(p) == ColumnChange(Identifier(Consume(Advance(p), "COLLECTION")))

ShowStatement(p) ==
  LET object == Advance(p)
      named  == Identifier(Consume(Advance(object), "FROM"))
  IN  CASE Type(object) = "DATABASES" -> Node(Advance(object), "SHOW DATABASES", 0)
        [] Type(object) = "COLLECTIONS" ->
             Node(Optional(Advance(object), "FROM", Identifier), "SHOW COLLECTIONS", 1)
        [] Type(object) = "INDEXES" ->
             Node(Optional(named, "FROM", Identifier), "SHOW INDEXES", 2)
        [] Type(object) = "VINDEXES" ->
             Node(Optional(named, "FROM", Identifier), "SHOW VINDEXES", 2)
        [] OTHER -> Error(object)

DescribeStatement(p) == Node(Identifier(Advance(p)), "DESCRIBE", 1)

Statement(p) ==
  CASE Type(p) = "SELECT" -> SelectStatement(p)
    [] Type(p) = "INSERT" -> InsertStatement(p)
    [] Type(p) = "UPDATE" -> UpdateStatement(p)
    [] Type(p) = "DELETE" -> DeleteStatement(p)
    [] Type(p) = "CREATE" -> CreateStatement(p)
    [] Type(p) = "DROP"   -> DropStatement(p)
    [] Type(p) = "USE"    -> UseStatement(p)
    [] Type(p) = "ALTER"  -> AlterStatement(p)
    [] Type(p) = "SHOW"   -> ShowStatement(p)
    [] Type(p) \in {"DESCRIBE", "DESC"} -> DescribeStatement(p)
    [] OTHER -> Error(p)

\* One semicolon may follow the statement, and nothing else.
Finished(p) ==
  LET last == IF Type(p) = ";" THEN Advance(p) ELSE p
  IN  Stop(IF Type(last) = "EoF" THEN last ELSE Error(last), "accepted")

Answer(p) ==
  [outcome |-> p.outcome,
   unread  |-> p.rest,
   tree    |-> IF p.outcome = "accepted" THEN p.got[1] ELSE <<>>]

\* A call of parse(): the statement, or no statement for the empty input.
Parse(tokens) ==
  Answer(Finished(IF tokens = <<>> THEN Push(Start(tokens), <<>>)
                  ELSE Statement(Start(tokens))))

===============================================================================
