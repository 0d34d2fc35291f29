-------------------------------- MODULE Plans --------------------------------
(***************************************************************************)
(* The plans of SELECT, UPDATE and DELETE (src/src/planner/) and how the   *)
(* executor runs them.                                                     *)
(*                                                                         *)
(* Every operator has one child at most, so that a plan is the sequence of *)
(* its operators from the scan up to the root.  An operator has a type,    *)
(* the columns that it scans or writes, and its expressions: a predicate,  *)
(* the items, for an aggregation the groups besides.                       *)
(*                                                                         *)
(* The dispatcher gives the plan of the logical planner to the physical    *)
(* one.  The two were written against different node classes, and those    *)
(* that the physical planner reads are not in the repository; they are     *)
(* taken to hold what it reads from them, which is what the operators of   *)
(* the logical planner hold, with the id of a column for its field index.  *)
(***************************************************************************)
EXTENDS Expressions, FiniteSets, Functions

Operator(type, columns, items) ==
  [type |-> type, columns |-> columns, items |-> items, groups |-> <<>>,
   limit |-> <<>>, offset |-> <<>>]

(* The ids of a std::set, in ascending order.                              *)
Sorted(columns) ==
  CHOOSE s \in [1 .. Cardinality(columns) -> columns] :
    \A i, j \in DOMAIN s : i < j => s[i] < s[j]

Scan(columns) == Operator("scan", Sorted(columns), <<>>)
Filters(where) == [i \in DOMAIN where |-> Operator("filter", <<>>, <<Clone(where[i])>>)]

CollectedFrom(expressions) ==
  UNION {Collected(expressions[i]) : i \in DOMAIN expressions}
ReferencesFrom(expressions) ==
  UNION {References(expressions[i]) : i \in DOMAIN expressions}
Clones(expressions) == [i \in DOMAIN expressions |-> Clone(expressions[i])]
Copies(expressions) == [i \in DOMAIN expressions |-> Copy(expressions[i])]

Maybe(condition, operator) == IF condition THEN <<operator>> ELSE <<>>

-----------------------------------------------------------------------------
(* The logical planner.  A statement without one of its clauses has the    *)
(* empty sequence for it.                                                  *)

(* Only an item that is itself an aggregate call counts.                   *)
HasAggregate(s) ==
  \E i \in DOMAIN s.items : s.items[i].kind = "function" /\ s.items[i].aggregate

PlanSelect(s) ==
  LET aggregates == s.group # <<>> \/ HasAggregate(s)
      columns == CollectedFrom(s.items) \cup CollectedFrom(s.where)
                   \cup CollectedFrom(s.group) \cup CollectedFrom(s.having)
                   \cup CollectedFrom(s.order)
  IN
  <<Scan(columns)>>
    \o Filters(s.where)
    \o Maybe(aggregates,
             [Operator("aggregate", <<>>, Clones(s.items)) EXCEPT !.groups = Clones(s.group)])
    \o Filters(s.having)
    \o Maybe(~aggregates, Operator("project", <<>>, Clones(s.items)))
    \o Maybe(s.order # <<>>, Operator("sort", <<>>, Clones(s.order)))
    \o Maybe(s.limit # <<>> \/ s.offset # <<>>,
             [Operator("limit_offset", <<>>, <<>>) EXCEPT
                !.limit = s.limit, !.offset = s.offset])

PlanDelete(s) ==
  <<Scan(CollectedFrom(s.where))>> \o Filters(s.where) \o <<Operator("delete", <<>>, <<>>)>>

(* An UPDATE whose target is no column throws.                             *)
PlanUpdate(s) ==
  LET targets == [i \in DOMAIN s.targets |-> s.targets[i].column] IN
  <<Scan(CollectedFrom(s.where) \cup CollectedFrom(s.targets) \cup CollectedFrom(s.items))>>
    \o Filters(s.where)
    \o <<Operator("update", targets, Clones(s.items))>>

LogicalPlan(s) ==
  CASE s.kind = "select" -> PlanSelect(s)
    [] s.kind = "delete" -> PlanDelete(s)
    [] s.kind = "update" -> PlanUpdate(s)

-----------------------------------------------------------------------------
(* The physical planner.                                                   *)

Root(plan) == plan[Len(plan)]

(* Node for node; a scan is always sequential.                             *)
PhysicalSelect(plan) ==
  [i \in DOMAIN plan |->
     [plan[i] EXCEPT !.items = Copies(@), !.groups = Copies(@)]]

(* What the older nodes of UPDATE and DELETE hold: the condition, and what *)
(* an UPDATE writes.  The plan below is built anew, columns included.      *)
WhereOf(plan) == IF plan[2].type = "filter" THEN plan[2].items ELSE <<>>
TargetsOf(plan) == [i \in DOMAIN Root(plan).columns |-> Column(Root(plan).columns[i])]

(* Bug: the columns that are written are not scanned.                      *)
PhysicalUpdateOfValues(plan) ==
  LET columns == ReferencesFrom(WhereOf(plan)) \cup ReferencesFrom(Root(plan).items) IN
  <<Scan(columns)>>
    \o [i \in DOMAIN WhereOf(plan) |-> Operator("filter", <<>>, <<Copy(WhereOf(plan)[i])>>)]
    \o <<[Root(plan) EXCEPT !.items = Copies(@)]>>

PhysicalUpdate(plan) ==
  LET columns == ReferencesFrom(WhereOf(plan)) \cup ReferencesFrom(TargetsOf(plan))
                   \cup ReferencesFrom(Root(plan).items)
  IN
  <<Scan(columns)>>
    \o [i \in DOMAIN WhereOf(plan) |-> Operator("filter", <<>>, <<Copy(WhereOf(plan)[i])>>)]
    \o <<[Root(plan) EXCEPT !.items = Copies(@)]>>

PhysicalDelete(plan) ==
  <<Scan(ReferencesFrom(WhereOf(plan)))>>
    \o [i \in DOMAIN WhereOf(plan) |-> Operator("filter", <<>>, <<Copy(WhereOf(plan)[i])>>)]
    \o <<Root(plan)>>

PhysicalPlan(plan) ==
  CASE Root(plan).type = "update" -> PhysicalUpdate(plan)
    [] Root(plan).type = "delete" -> PhysicalDelete(plan)
    [] OTHER -> PhysicalSelect(plan)

-----------------------------------------------------------------------------
(* The executor on a plan.  A row is a sequence of values.                 *)

(* No columns stand for all of them; a field that the entity does not have *)
(* is left out. The columns of a scan ascend: the others come first.       *)
ScannedRow(columns, entity) ==
  LET present == Cardinality({i \in DOMAIN columns : columns[i] < Len(entity)}) IN
  IF columns = <<>> THEN entity ELSE [i \in 1..present |-> entity[columns[i] + 1]]

(* evaluate_expression_for_row: the field index of a column is taken for   *)
(* its place in the row.  What cannot be evaluated is NULL.                *)
RowValue(e, row) ==
  CASE e.kind = "constant" -> e.value
    [] e.kind = "column" /\ e.column < Len(row) -> row[e.column + 1]
    [] OTHER -> NullValue

(* Bug: the limit is applied before the offset.                            *)
WindowLimitFirst(rows, limit, offset) ==
  LET skipped == IF offset = <<>> THEN 0 ELSE offset[1]
      last == IF limit = <<>> \/ limit[1] > Len(rows) THEN Len(rows) ELSE limit[1]
  IN  SubSeq(rows, skipped + 1, last)

Window(rows, limit, offset) ==
  LET skipped == IF offset = <<>> THEN 0 ELSE offset[1]
      rest == IF skipped >= Len(rows) THEN <<>> ELSE SubSeq(rows, skipped + 1, Len(rows))
  IN  IF limit # <<>> /\ limit[1] < Len(rest) THEN SubSeq(rest, 1, limit[1]) ELSE rest

(* The rows that an operator makes of those of its child: filters let all  *)
(* rows pass, sorts leave them in order, and an aggregation has no result. *)
Executed(operator, rows, entities) ==
  CASE operator.type = "scan" ->
         [i \in DOMAIN entities |-> ScannedRow(operator.columns, entities[i])]
    [] operator.type = "project" ->
         [i \in DOMAIN rows |->
            [j \in DOMAIN operator.items |-> RowValue(operator.items[j], rows[i])]]
    [] operator.type = "aggregate" -> <<>>
    [] operator.type = "limit_offset" -> Window(rows, operator.limit, operator.offset)
    [] operator.type \in {"filter", "sort"} -> rows
    [] OTHER -> rows

RowsOf(plan, entities) ==
  LET after[n \in 0..Len(plan)] ==
        IF n = 0 THEN <<>> ELSE Executed(plan[n], after[n - 1], entities)
  IN  after[Len(plan)]
=============================================================================
