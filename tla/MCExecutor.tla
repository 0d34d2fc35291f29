----------------------------- MODULE MCExecutor -----------------------------
(***************************************************************************)
(* Two databases or one with two collections, of two columns, the first of *)
(* which must be given and is a vector, or of a column that comes twice.   *)
(***************************************************************************)
EXTENDS Executor, TLC

CONSTANTS a, b, d, e, p, q

MCSchemas ==
  LET x == [name |-> "x", type |-> "VECTOR", nullable |-> FALSE]
      y == [name |-> "y", type |-> "VECTOR", nullable |-> TRUE]
  IN  {<<x, y>>, <<x, x>>}

MCIndexedColumns == {<<"y">>}

(* The answers tell the steps apart, not the states.                       *)
MCView == <<catalog, databases, current, drops, answer.status = "crash">>

MCSymmetry ==
  Permutations(DatabaseNames) \cup Permutations(CollectionNames) \cup Permutations(CollectionIds)
=============================================================================
