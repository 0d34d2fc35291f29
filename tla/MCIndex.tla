------------------------------ MODULE MCIndex -------------------------------
(***************************************************************************)
(* An index on two integer fields: the first difference decides.  NULL is  *)
(* of a type of its own, with the hash of 0.                               *)
(***************************************************************************)
EXTENDS Index

IntValue(n) == [type |-> "int", rank |-> n, hash |-> n]
Null == [type |-> "null", rank |-> 0, hash |-> 0]

(* NULL in the last field only: the keys are sortable.                     *)
MCLastNull ==
  {<<IntValue(0), IntValue(1)>>, <<IntValue(1), IntValue(0)>>, <<IntValue(1), IntValue(1)>>,
   <<IntValue(1), Null>>}

=============================================================================
