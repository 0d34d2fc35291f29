------------------------------- MODULE Queries -------------------------------
(***************************************************************************)
(* From a bound SELECT, UPDATE or DELETE to its answer, through the        *)
(* logical planner, the physical planner and the executor, as the          *)
(* dispatcher (src/src/dispatcher/dispatcher.cpp) leads it; and from a     *)
(* condition to what the evaluator says of it.  The filter of the executor *)
(* does not call the evaluator (it has no collection to give to it), so a  *)
(* condition is a request of its own.                                      *)
(***************************************************************************)
EXTENDS Plans

CONSTANTS
  Statements,    \* bound statements
  Conditions,    \* conditions for the evaluator, each an optional expression
  Collections    \* what the executor finds: no collection, or its entities

(* A clause that may be missing.                                           *)
Optional(S) == {s \in Seq(S) : Len(s) <= 1}

Selects ==
  [kind : {"select"}, items : Seq(Trees), where : Optional(Trees), group : Seq(Trees),
   having : Optional(Trees), order : Seq(Trees), limit : Optional(Nat), offset : Optional(Nat)]
Deletes == [kind : {"delete"}, where : Optional(Trees)]
Updates ==
  [kind : {"update"}, where : Optional(Trees),
   targets : Seq({e \in Trees : e.kind = "column"}), items : Seq(Trees)]

ASSUME QueriesAssumption ==
  /\ Statements \subseteq Selects \cup Deletes \cup Updates
  /\ Conditions \subseteq Optional(Trees)
  /\ Collections \subseteq Optional(Seq(Seq(Values)))

VARIABLES
  request,      \* the statement or condition
  collection,   \* what the lookups for the request find
  logical,      \* the plan of the logical planner
  physical,     \* the plan of the physical planner
  answer        \* the answer, when there is one

vars == <<request, collection, logical, physical, answer>>

Init ==
  /\ request \in Statements \cup {[kind |-> "condition", where |-> c] : c \in Conditions}
  /\ collection \in Collections
  /\ logical = <<>> /\ physical = <<>> /\ answer = <<>>

(* Only these three kinds need the planner; Executor has the others.       *)
NeedsPlanner(kind) == kind \in {"select", "update", "delete"}

Plan ==
  /\ NeedsPlanner(request.kind) /\ logical = <<>>
  /\ logical' = LogicalPlan(request)
  /\ UNCHANGED <<request, collection, physical, answer>>

PlanPhysically ==
  /\ logical # <<>> /\ physical = <<>>
  /\ physical' = PhysicalPlan(logical)
  /\ UNCHANGED <<request, collection, logical, answer>>

(* No entry in the catalog, an entry of another database than the current  *)
(* one, and no collection in the database: a scan then has no rows.        *)
Entities == IF collection = <<>> THEN <<>> ELSE collection[1]

ExecuteSelect ==
  /\ physical # <<>> /\ answer = <<>> /\ Root(physical).type \notin {"update", "delete"}
  /\ answer' = <<[success |-> TRUE, rows |-> RowsOf(physical, Entities)]>>
  /\ UNCHANGED <<request, collection, logical, physical>>

(* The rows are looked for, then the collection, and then nothing is done: *)
(* both end in a failure.                                                  *)
ExecuteMutation ==
  /\ physical # <<>> /\ answer = <<>> /\ Root(physical).type \in {"update", "delete"}
  /\ answer' = <<[success |-> FALSE, rows |-> <<>>]>>
  /\ UNCHANGED <<request, collection, logical, physical>>

EvaluateCondition ==
  /\ request.kind = "condition" /\ answer = <<>>
  /\ collection # <<>> /\ collection[1] # <<>>
  /\ answer' = <<Condition(request.where, Head(collection[1]))>>
  /\ UNCHANGED <<request, collection, logical, physical>>

Next == Plan \/ PlanPhysically \/ ExecuteSelect \/ ExecuteMutation \/ EvaluateCondition

Spec == Init /\ [][Next]_vars

-----------------------------------------------------------------------------
(* The columns in an expression, in whatever part of it they stand.        *)
Nodes(e) ==
  LET nodes[x \in Trees] == {x} \cup UNION {nodes[x.parts[i]] : i \in DOMAIN x.parts}
  IN  nodes[e]
ColumnsIn(expressions) ==
  {n.column : n \in {m \in UNION {Nodes(expressions[i]) : i \in DOMAIN expressions} :
                     m.kind = "column"}}

(* Whatever the clauses of a statement, its scan reads each column that an *)
(* operator above it works with, no other, and each once, in ascending     *)
(* order.                                                                  *)
ScansWhatItUses ==
  logical # <<>> =>
    LET scan == logical[1].columns
        above == 2 .. Len(logical)
    IN
    /\ Range(scan) =
         UNION {ColumnsIn(logical[i].items) \cup ColumnsIn(logical[i].groups)
                  \cup Range(logical[i].columns) : i \in above}
    /\ \A i \in 1 .. Len(scan) - 1 : scan[i] < scan[i + 1]

(* The physical plan has the operators of the logical one, over the same   *)
(* scan and with the same expressions, also for UPDATE and DELETE, whose   *)
(* columns are collected a second time by other code.                      *)
PhysicalMirrors == physical # <<>> => physical = logical

(* A SELECT of columns alone, with no clause but LIMIT and OFFSET and no   *)
(* aggregate, answers with as many rows as OFFSET and then LIMIT leave of  *)
(* the entities.  If its columns are the first ones of the collection, the *)
(* rows hold the values of its items, entity by entity, NULL where an      *)
(* entity is too short; of other columns, values are taken from wrong      *)
(* places.  Of the other clauses the executor does not do what the manual  *)
(* says (src/include/dreamdb/parser/README.md:864-891): its filter returns *)
(* all rows, its sort none in another order, its aggregation none.         *)
FirstColumns(columns) == \A i \in DOMAIN columns : columns[i] = i - 1
ItemValue(e, entity) ==
  CASE e.kind = "constant" -> e.value
    [] e.kind = "column" /\ e.column < Len(entity) -> entity[e.column + 1]
    [] OTHER -> NullValue
FirstOf(s) == IF s.offset = <<>> THEN 1 ELSE s.offset[1] + 1
CountOf(s) ==
  Cardinality({i \in FirstOf(s) .. Len(Entities) :
                 s.limit # <<>> => i < FirstOf(s) + s.limit[1]})

OfColumnsAlone(s) ==
  /\ s.where = <<>> /\ s.group = <<>> /\ s.having = <<>> /\ s.order = <<>>
  /\ \A j \in DOMAIN s.items : s.items[j].kind \in {"column", "constant"}

RowsAreTheColumns ==
  request.kind = "select" /\ answer # <<>> /\ OfColumnsAlone(request) =>
    LET s == request
        rows == answer[1].rows
    IN
    /\ answer[1].success
    /\ Len(rows) = CountOf(s)
    /\ FirstColumns(logical[1].columns) =>
         \A i \in 1..CountOf(s), j \in DOMAIN s.items :
           rows[i][j] = ItemValue(s.items[j], Entities[FirstOf(s) + i - 1])

(* Of two values that can be compared, exactly one of <, = and > is true,  *)
(* the other operators follow from these three, and the operands may be    *)
(* exchanged; of two that cannot, = and <> have an answer all the same.    *)
(* Values of any three types are ordered in a chain, unless a 64-bit       *)
(* integer is rounded for a floating point number.                         *)
Holds(op, a, b) == Apply(op, a, b) = <<Boolean(TRUE)>>
Answered(op, a, b) == Apply(op, a, b) # Error

ThreeWays(a, b) ==
  /\ Holds("<", a, b) \/ Holds("=", a, b) \/ Holds(">", a, b)
  /\ ~(Holds("<", a, b) /\ Holds("=", a, b)) /\ ~(Holds(">", a, b) /\ Holds("=", a, b))
  /\ ~(Holds("<", a, b) /\ Holds(">", a, b))
  /\ Holds("<", a, b) = Holds(">", b, a)
  /\ Holds("<=", a, b) = ~Holds(">", a, b) /\ Holds(">=", a, b) = ~Holds("<", a, b)

Compared == request.where[1].parts
IsComparison ==
  /\ request.kind = "condition" /\ request.where # <<>>
  /\ request.where[1].kind = "binary" /\ request.where[1].op \in Comparing
  /\ Compared[1].kind = "constant" /\ Compared[2].kind = "constant"

ComparesCoherently ==
  IsComparison =>
    LET a == Compared[1].value
        b == Compared[2].value
    IN
    /\ Answered("=", a, b) /\ Holds("=", a, b) = Holds("=", b, a)
    /\ Holds("<>", a, b) = ~Holds("=", a, b)
    /\ \A op \in Comparing \ {"=", "<>"} : Answered(op, a, b) = Answered("<", b, a)
    /\ Answered("<", a, b) => ThreeWays(a, b)
    /\ \A c \in Values : OrderChains(a, b, c)
=============================================================================
