----------------------------- MODULE Expressions -----------------------------
(***************************************************************************)
(* Expressions as planners and evaluators see them: trees whose nodes have *)
(* a kind, the parts that are expressions, and a payload: the column of a  *)
(* column reference, the value of a constant, the operator of a binary     *)
(* expression, whether a function is an aggregate, whether IN, BETWEEN,    *)
(* LIKE or IS NULL is negated.  The parts stand in the order of the        *)
(* source: left, start and end of a BETWEEN, left and values of an IN.     *)
(* Result types, names of functions and aliases are left out.              *)
(*                                                                         *)
(* The program has such trees three times: bound expressions, which the    *)
(* logical planner reads, the expressions of the physical plan, and the    *)
(* syntax tree that the evaluator walks.                                   *)
(***************************************************************************)
EXTENDS Comparisons, Sequences

CONSTANTS
  Trees,    \* the expressions there are, with all parts of each
  Height    \* how high each of them is: its parts are lower

NullValue == [type |-> "null", n |-> 0]
Boolean(b) == [type |-> "bool", n |-> IF b THEN Whole ELSE 0]

Node(kind, parts) ==
  [kind |-> kind, parts |-> parts, column |-> 0, value |-> NullValue, op |-> "",
   aggregate |-> FALSE, negated |-> FALSE]

Column(c) == [Node("column", <<>>) EXCEPT !.column = c]
Constant(v) == [Node("constant", <<>>) EXCEPT !.value = v]
Binary(op, left, right) == [Node("binary", <<left, right>>) EXCEPT !.op = op]
Call(arguments, aggregate) == [Node("function", arguments) EXCEPT !.aggregate = aggregate]

Comparing == {"=", "<>", "<", ">", "<=", ">="}

(* The kinds that copy_expression and collect_column_references know: all  *)
(* kinds of bound expressions, and IS NULL.                                *)
PhysicalKinds ==
  {"column", "constant", "binary", "unary", "function", "in", "like", "between", "null"}

(* Trees are finite.  A column or constant has its payload and no parts, a *)
(* binary expression two.                                                  *)
ASSUME ExpressionsAssumption ==
  /\ Trees \subseteq [kind : PhysicalKinds, parts : Seq(Trees), column : Nat,
                     value : Values, op : STRING, aggregate : BOOLEAN, negated : BOOLEAN]
  /\ \A e \in Trees : e.kind = "column" => e = Column(e.column)
  /\ \A e \in Trees : e.kind = "constant" => e = Constant(e.value)
  /\ \A e \in Trees : e.kind = "binary" => Len(e.parts) = 2
  /\ Height \in [Trees -> Nat]
  /\ \A e \in Trees : \A i \in DOMAIN e.parts : Height[e.parts[i]] < Height[e]

-----------------------------------------------------------------------------
(* clone, of every class of bound expressions.                             *)
Clone(e) ==
  LET clone[x \in Trees] == [x EXCEPT !.parts = [i \in DOMAIN @ |-> clone[@[i]]]]
  IN  clone[e]

(* Bug: the last part of an expression is not visited.                     *)
CollectedButLast(e) ==
  LET columns[x \in Trees] ==
        IF x.kind = "column" THEN {x.column}
        ELSE UNION {columns[x.parts[i]] : i \in 1 .. Len(x.parts) - 1}
  IN  columns[e]

(* BoundColumnCollector and collect_column_ids: every part is visited.     *)
Collected(e) ==
  LET columns[x \in Trees] ==
        IF x.kind = "column" THEN {x.column}
        ELSE UNION {columns[x.parts[i]] : i \in DOMAIN x.parts}
  IN  columns[e]

(* Bug: the copy of an expression is not negated.                          *)
CopyPositive(e) ==
  LET copy[x \in Trees] ==
        [x EXCEPT !.parts = [i \in DOMAIN @ |-> copy[@[i]]], !.negated = FALSE]
  IN  copy[e]

(* copy_expression of the physical planner; another kind is an exception.  *)
Copy(e) ==
  LET copy[x \in Trees] == [x EXCEPT !.parts = [i \in DOMAIN @ |-> copy[@[i]]]]
  IN  copy[e]

(* collect_column_references; other kinds are ignored.                     *)
References(e) ==
  LET columns[x \in Trees] ==
        IF x.kind = "column" THEN {x.column}
        ELSE IF x.kind \in PhysicalKinds \ {"constant"}
             THEN UNION {columns[x.parts[i]] : i \in DOMAIN x.parts}
             ELSE {}
  IN  columns[e]

-----------------------------------------------------------------------------
(* The evaluator.  A result is a sequence of one value, or of none for an  *)
(* error.                                                                  *)

Error == <<>>

(* What a comparison or a connective makes of two values.                  *)
Ordered(a, b, holds) == IF Comparable(a, b) THEN <<Boolean(holds)>> ELSE Error

Apply(op, a, b) ==
  CASE op = "=" -> <<Boolean(Equal(a, b))>>
    [] op = "<>" -> <<Boolean(~Equal(a, b))>>
    [] op = "<" -> Ordered(a, b, Compare(a, b) < 0)
    [] op = ">" -> Ordered(a, b, Compare(a, b) > 0)
    [] op = "<=" -> Ordered(a, b, Compare(a, b) <= 0)
    [] op = ">=" -> Ordered(a, b, Compare(a, b) >= 0)
    [] op = "AND" -> <<Boolean(Truth(a) /\ Truth(b))>>
    [] op = "OR" -> <<Boolean(Truth(a) \/ Truth(b))>>
    [] OTHER -> Error

(* evaluate: both operands of a binary expression are evaluated, also when *)
(* the first decides.  A column that the entity has no field for is an     *)
(* error, and so is every other kind of expression.                        *)
Evaluate(e, entity) ==
  LET result[x \in Trees] ==
        CASE x.kind = "constant" -> <<x.value>>
          [] x.kind = "column" ->
               IF x.column < Len(entity) THEN <<entity[x.column + 1]>> ELSE Error
          [] x.kind = "binary" ->
               LET left == result[x.parts[1]]
                   right == result[x.parts[2]]
               IN  IF left = Error \/ right = Error THEN Error
                   ELSE Apply(x.op, left[1], right[1])
          [] OTHER -> Error
  IN  result[e]

(* evaluate_condition, with a condition or without: every row matches.     *)
Condition(where, entity) ==
  IF where = <<>> THEN <<TRUE>>
  ELSE LET result == Evaluate(where[1], entity) IN
       IF result = Error THEN <<>> ELSE <<Truth(result[1])>>
=============================================================================
