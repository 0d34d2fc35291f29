------------------------------- MODULE Formatter -------------------------------
(***************************************************************************)
(* AstDebugPrinter (src/parser/ast/debug), the printer the unit tests read *)
(* the parser's trees with: the text of a tree as a sequence of tokens.    *)
(* It puts parentheses around every binary expression and nowhere else.    *)
(* Spacing is left out, and the string literals of the model hold no       *)
(* quote, so that escaping does not show.                                  *)
(***************************************************************************)
EXTENDS Parser

CONSTANT PrintedAs  \* the number operator<< makes of a double: it keeps six
                    \* digits, and writes no point if the double is whole

ASSUME PrintedAsAssumption ==
  PrintedAs \in [DoubleLiterals -> DoubleLiterals \cup Int64Literals]

\* The texts of the items, separated by commas.
Listed(items, Show(_)) ==
  LET upto[n \in 0..Len(items)] ==
        IF n = 0 THEN <<>>
        ELSE upto[n - 1] \o (IF n = 1 THEN <<>> ELSE <<",">>) \o Show(items[n])
  IN  upto[Len(items)]

InParentheses(text) == <<"(">> \o text \o <<")">>

Word(name) == <<name>>

\* The keywords of a node's tag, where they are more than one.
KeywordsOf(tag) ==
  CASE tag = "NOT IN"      -> <<"NOT", "IN">>
    [] tag = "NOT LIKE"    -> <<"NOT", "LIKE">>
    [] tag = "NOT BETWEEN" -> <<"NOT", "BETWEEN">>
    [] tag = "NOT NULL"    -> <<"NOT", "NULL">>
    [] tag = "PRIMARY KEY" -> <<"PRIMARY", "KEY">>
    [] OTHER               -> <<tag>>

RECURSIVE ExpressionText(_)

ColumnReferenceText(names) ==
  [i \in 1..(2 * Len(names) - 1) |-> IF i % 2 = 0 THEN "." ELSE names[(i + 1) \div 2]]

LiteralText(v) == <<IF v \in DoubleLiterals THEN PrintedAs[v] ELSE v>>

FunctionCallText(e) == <<e[2]>> \o InParentheses(Listed(e[3], ExpressionText))

VectorText(e) == <<"[">> \o Listed(e[2], ExpressionText) \o <<"]">>

InText(e) ==
  ExpressionText(e[2]) \o KeywordsOf(e[1]) \o InParentheses(Listed(e[3], ExpressionText))

LikeText(e) == ExpressionText(e[2]) \o KeywordsOf(e[1]) \o ExpressionText(e[3])

BetweenText(e) ==
  ExpressionText(e[2]) \o KeywordsOf(e[1]) \o ExpressionText(e[3])
    \o <<"AND">> \o ExpressionText(e[4])

UnaryText(e) == <<e[1]>> \o ExpressionText(e[2])

BinaryText(e) ==
  InParentheses(ExpressionText(e[2]) \o <<e[1]>> \o ExpressionText(e[3]))

ExpressionText(e) ==
  CASE e[1] = "literal"                    -> LiteralText(e[2])
    [] e[1] = "column"                     -> ColumnReferenceText(e[2])
    [] e[1] = "call"                       -> FunctionCallText(e)
    [] e[1] = "vector"                     -> VectorText(e)
    [] e[1] \in {"IN", "NOT IN"}           -> InText(e)
    [] e[1] \in {"LIKE", "NOT LIKE"}       -> LikeText(e)
    [] e[1] \in {"BETWEEN", "NOT BETWEEN"} -> BetweenText(e)
    [] Len(e) = 2                          -> UnaryText(e)
    [] OTHER                               -> BinaryText(e)

-------------------------------------------------------------------------------
\* An optional part, a sequence of at most one element, after its keyword.
Clause(keywords, part, Show(_)) == IF part = <<>> THEN <<>> ELSE keywords \o Show(part[1])

ColumnDefinitionText(d) ==
  LET arguments == IF d[4] = <<>> THEN <<>>
                   ELSE InParentheses(Listed(d[4], ExpressionText))
      modifiers == [i \in DOMAIN d[5][1] |->
                      IF d[5][1][i] = "DEFAULT"
                      THEN Clause(<<"DEFAULT">>, d[5][2], ExpressionText)
                      ELSE KeywordsOf(d[5][1][i])]
  IN  <<d[2], d[3]>> \o arguments \o FlattenSeq(modifiers) \o Clause(<<"COMMENT">>, d[6], Word)

AssignmentText(a) == <<a[2], "=">> \o ExpressionText(a[3])

SelectItemText(item) ==
  IF item = <<"*">> THEN item ELSE ExpressionText(item[2]) \o Clause(<<"AS">>, item[3], Word)

OrderByText(item) == ExpressionText(item[2]) \o <<item[3]>>

SelectText(s) ==
  LET ByText(keyword, items, Show(_)) ==
        IF items = <<>> THEN <<>> ELSE <<keyword, "BY">> \o Listed(items, Show)
  IN  <<"SELECT">> \o Listed(s[2], SelectItemText) \o <<"FROM", s[3]>>
        \o Clause(<<"WHERE">>, s[4], ExpressionText)
        \o ByText("GROUP", s[5], ExpressionText)
        \o Clause(<<"HAVING">>, s[6], ExpressionText)
        \o ByText("ORDER", s[7], OrderByText)
        \o Clause(<<"LIMIT">>, s[8], Word) \o Clause(<<"OFFSET">>, s[9], Word)

InsertText(s) ==
  <<"INSERT", "INTO", s[2]>>
    \o (IF s[3] = <<>> THEN <<>> ELSE InParentheses(Listed(s[3], Word)))
    \o <<"VALUES">> \o InParentheses(Listed(s[4], ExpressionText))

UpdateText(s) ==
  <<"UPDATE", s[2], "SET">> \o Listed(s[3], AssignmentText)
    \o Clause(<<"WHERE">>, s[4], ExpressionText)

DeleteText(s) == <<"DELETE", "FROM", s[2]>> \o Clause(<<"WHERE">>, s[3], ExpressionText)

IfNotExists(flag) == IF flag THEN <<"IF", "NOT", "EXISTS">> ELSE <<>>

CreateText(s) ==
  LET named(object) == <<"CREATE", object>> \o IfNotExists(s[2]) \o <<s[3]>>
  IN  CASE s[1] = "CREATE DATABASE"   -> named("DATABASE")
        [] s[1] = "CREATE COLLECTION" ->
             named("COLLECTION") \o InParentheses(Listed(s[4], ColumnDefinitionText))
        [] s[1] = "CREATE INDEX" ->
             named("INDEX") \o <<"ON", s[4]>> \o InParentheses(Listed(s[5], Word))
               \o Clause(<<"USING">>, s[6], Word)
        [] s[1] = "CREATE VINDEX" ->
             named("VINDEX") \o <<"ON", s[4], ".", s[5]>> \o Clause(<<"USING">>, s[6], Word)
               \o (IF s[6] = <<>> \/ s[7] = <<>> THEN <<>>
                   ELSE <<"WITH">> \o InParentheses(Listed(s[7], AssignmentText)))

DropText(s) ==
  LET named(object) ==
        <<"DROP", object>> \o (IF s[2] THEN <<"IF", "EXISTS">> ELSE <<>>) \o <<s[3]>>
  IN  CASE s[1] = "DROP DATABASE"   -> named("DATABASE")
        [] s[1] = "DROP COLLECTION" -> named("COLLECTION")
        [] s[1] = "DROP INDEX"      -> named("INDEX") \o <<"ON", s[4]>>
        [] s[1] = "DROP VINDEX"     -> named("VINDEX") \o <<"ON", s[4]>>

AlterText(s) ==
  LET column(change) == <<"ALTER", "COLLECTION", s[2], change, "COLUMN">>
  IN  CASE s[1] = "ADD COLUMN"    -> column("ADD") \o ColumnDefinitionText(s[3])
        [] s[1] = "DROP COLUMN"   -> column("DROP") \o <<s[3]>>
        [] s[1] = "MODIFY COLUMN" -> column("MODIFY") \o ColumnDefinitionText(s[3])
        [] s[1] = "RENAME COLUMN" -> column("RENAME") \o <<s[3], "TO", s[4]>>

ShowText(s) ==
  CASE s[1] = "SHOW DATABASES"   -> <<"SHOW", "DATABASES">>
    [] s[1] = "SHOW COLLECTIONS" -> <<"SHOW", "COLLECTIONS">> \o Clause(<<"FROM">>, s[2], Word)
    [] s[1] = "SHOW INDEXES" ->
         <<"SHOW", "INDEXES", "FROM", s[2]>> \o Clause(<<"FROM">>, s[3], Word)
    [] s[1] = "SHOW VINDEXES" ->
         <<"SHOW", "VINDEXES", "FROM", s[2]>> \o Clause(<<"FROM">>, s[3], Word)

StatementText(s) ==
  CASE s[1] = "SELECT"   -> SelectText(s)
    [] s[1] = "INSERT"   -> InsertText(s)
    [] s[1] = "UPDATE"   -> UpdateText(s)
    [] s[1] = "DELETE"   -> DeleteText(s)
    [] s[1] = "USE"      -> <<"USE", s[2]>>
    [] s[1] = "DESCRIBE" -> <<"DESCRIBE", s[2]>>
    [] s[1] \in {"CREATE DATABASE", "CREATE COLLECTION", "CREATE INDEX",
                 "CREATE VINDEX"} -> CreateText(s)
    [] s[1] \in {"DROP DATABASE", "DROP COLLECTION", "DROP INDEX", "DROP VINDEX"} ->
         DropText(s)
    [] s[1] \in {"ADD COLUMN", "DROP COLUMN", "MODIFY COLUMN", "RENAME COLUMN"} ->
         AlterText(s)
    [] OTHER -> ShowText(s)

===============================================================================
