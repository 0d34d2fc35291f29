------------------------------- MODULE Sentences -------------------------------
(***************************************************************************)
(* Statements written one token at a time, each prefix handed to a new     *)
(* Parser.  A text goes on only while it is the beginning of a statement:  *)
(* parse() accepted it or complained about its end.  What the parser made  *)
(* of every accepted text is compared with the text itself.                *)
(***************************************************************************)
EXTENDS Formatter

CONSTANT Topics   \* records: the tokens a text opens with, those it may go
                  \* on with, and how many of them

VARIABLES topic,  \* the topic of the text
          tokens, \* the text
          result  \* what Parser(tokens).parse() answers

vars == <<topic, tokens, result>>

TopicsAssumption == \A t \in Topics : t.length \in Nat
ASSUME TopicsAssumption

Init == /\ topic \in Topics
        /\ tokens = topic.opening
        /\ result = Parse(tokens)

\* The user goes on with one more token and has the text parsed again.
Write(token) ==
  /\ Len(tokens) < Len(topic.opening) + topic.length
  /\ result.outcome # "abort"
  /\ result.unread = <<>>
  /\ tokens' = Append(tokens, token)
  /\ result' = Parse(tokens')
  /\ UNCHANGED topic

Next == \E token \in topic.alphabet : Write(token)

Spec == Init /\ [][Next]_vars

-------------------------------------------------------------------------------
(***************************************************************************)
(* Properties.                                                             *)
(***************************************************************************)
Accepted == result.outcome = "accepted" /\ tokens # <<>>

Occurrences(token, text) == Cardinality({i \in DOMAIN text : text[i] = token})

\* A text without what has no meaning of its own: parentheses, dots, the
\* semicolon, the default direction and the spelling of two keywords.
Content(text) ==
  LET spelled == [i \in DOMAIN text |-> CASE text[i] = "<>"       -> "!="
                                          [] text[i] = "DESCRIBE" -> "DESC"
                                          [] OTHER                -> text[i]]
  IN  SelectSeq(spelled, LAMBDA t : t \notin {"(", ")", ".", ";", "ASC"})

\* Every clause, operand, name and modifier of an accepted statement is in
\* its tree, in the order it was written in and nothing else is: the printer
\* shows the text again.  The one thing the parser drops without a word is
\* the first of two DEFAULT values of a column.
NothingLost ==
  Accepted /\ Occurrences("DEFAULT", tokens) < 2 =>
    Content(StatementText(result.tree)) = Content(tokens)

\* How tightly an expression binds, in the order of parse_expression's table.
Level(e) ==
  CASE e[1] = "OR"                                 -> 1
    [] e[1] = "AND"                                -> 2
    [] e[1] \in Comparators \cup {"IN", "NOT IN", "LIKE", "NOT LIKE"} -> 3
    [] e[1] \in {"+", "-"} /\ Len(e) = 3           -> 4
    [] e[1] \in {"*", "/", "%"}                    -> 5
    [] e[1] \in {"+", "-", "NOT"}                  -> 6
    [] OTHER                                       -> 7

\* Each operator groups to the left, a comparison does not chain, and no
\* operand binds looser than its operator.  The pattern of LIKE is exempt.
RECURSIVE GroupedByLevel(_)
GroupedByLevel(e) ==
  LET n == Level(e)
  IN  CASE n = 7 -> TRUE
        [] n = 6 -> Level(e[2]) >= 6 /\ GroupedByLevel(e[2])
        [] OTHER ->
             /\ Level(e[2]) >= n
             /\ n = 3 => Level(e[2]) > 3
             /\ GroupedByLevel(e[2])
             /\ e[1] \notin {"IN", "NOT IN", "LIKE", "NOT LIKE"} =>
                  Level(e[3]) > n /\ GroupedByLevel(e[3])

\* A parenthesis that opens neither a list nor the arguments of a name.
HasGroup(text) ==
  \E i \in DOMAIN text :
     /\ text[i] = "("
     /\ i = 1 \/ TypeOf(text[i - 1]) \notin {"identifier", "IN", "VALUES", "WITH"}

ConditionsOf(s) ==
  CASE s[1] = "DELETE" -> ToSet(s[3])
    [] s[1] = "UPDATE" -> ToSet(s[4])
    [] s[1] = "SELECT" -> ToSet(s[4] \o s[6])
    [] OTHER           -> {}

\* A condition written without grouping parentheses means what the levels of
\* precedence say, however its operators are mixed.
BindsByPrecedence ==
  Accepted /\ ~HasGroup(tokens) =>
    \A e \in ConditionsOf(result.tree) : GroupedByLevel(e)

\* An assertion of the AST fails for nothing but an empty list of IN or an
\* empty vector, at the token that closes it; no other text, finished or not,
\* stops the process.
OnlyEmptyListsAbort ==
  result.outcome = "abort" =>
    LET n == Len(tokens)
    IN  \/ n >= 2 /\ SubSeq(tokens, n - 1, n) = <<"[", "]">>
        \/ n >= 3 /\ SubSeq(tokens, n - 2, n) = <<"IN", "(", ")">>

-------------------------------------------------------------------------------
(***************************************************************************)
(* What the manual says of the syntax, and the parser does not do.         *)
(***************************************************************************)
\* Written one token at a time, the statement is never refused before its end
\* and accepted there.
Understood(text) ==
  IsPrefix(tokens, text) => result.unread = <<>> /\ (tokens = text => Accepted)

\* The manual's "WHERE price BETWEEN 100 AND 500" is a statement; the parser
\* takes the AND into the first bound.
BetweenParses ==
  \A x \in Identifiers, low, high \in Int64Literals :
     Understood(<<"DELETE", "FROM", x, "WHERE", x, "BETWEEN", low, "AND", high>>)

===============================================================================
