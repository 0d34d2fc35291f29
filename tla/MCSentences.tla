------------------------------ MODULE MCSentences ------------------------------
(***************************************************************************)
(* The texts of the runs: an expression as the condition of DELETE, the    *)
(* items and the clauses of SELECT, a column definition, the statements    *)
(* that write, those about databases, collections and indexes, and the     *)
(* options of a vector index.                                              *)
(***************************************************************************)
EXTENDS Sentences

Topic(opening, alphabet, length) ==
  [opening |-> opening, alphabet |-> alphabet, length |-> length]

Condition == <<"DELETE", "FROM", "a", "WHERE">>

Definition == <<"CREATE", "COLLECTION", "a", "(", "a", "a">>

MCTopics ==
  {Topic(Condition,
         {"a", "(", ")", "-", "*", "=", "AND", "OR", "NOT", "IN", "LIKE"}, 7),
   Topic(Condition, {"a", "(", ")", "[", "]", ",", "NOT", "IN"}, 7),
   Topic(<<"SELECT">>, {"a", "*", ",", "FROM", "AS", "1", "+"}, 7),
   Topic(<<"SELECT", "*", "FROM", "a">>,
         {"WHERE", "GROUP", "BY", "HAVING", "ORDER", "ASC", "DESC", "LIMIT", "OFFSET",
          "a", "1", "u", "huge", ",", ";"}, 9),
   Topic(Definition,
         {"(", ")", ",", "1", "a", "NOT", "NULL", "PRIMARY", "KEY", "AUTO_INCREMENT",
          "UNIQUE", "DEFAULT", "COMMENT", "s"}, 6),
   Topic(<<>>,
         {"INSERT", "INTO", "VALUES", "UPDATE", "SET", "WHERE", "(", ")", ",", "a", "=",
          "[", "]", ".", "f", "inf", "huge"}, 9),
   Topic(<<>>,
         {"CREATE", "DROP", "ALTER", "SHOW", "USE", "DESCRIBE", "DESC", "DATABASE",
          "COLLECTION", "INDEX", "VINDEX", "DATABASES", "COLLECTIONS", "INDEXES",
          "VINDEXES", "IF", "NOT", "EXISTS", "FROM", "ON", "USING", "WITH", "ADD",
          "MODIFY", "RENAME", "COLUMN", "TO", "(", ")", "a", ";"}, 11),
   Topic(<<"CREATE", "VINDEX", "a", "ON", "a", "(", "a", ")">>,
         {"USING", "WITH", "(", ")", "a", "=", ",", ";"}, 9)}

(* The one double, as 0.5, is printed as it is written.                    *)
MCPrintedAs == [v \in DoubleLiterals |-> v]

BetweenTopics == {Topic(Condition, {"a", "BETWEEN", "1", "AND"}, 5)}

===============================================================================
