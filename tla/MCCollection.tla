---------------------------- MODULE MCCollection ----------------------------
(***************************************************************************)
(* A collection with one nullable integer field.  The indexes: a unique    *)
(* BTREE on the field, a HASH that names the field twice, and a BTREE on   *)
(* a second field that the rows do not have.                               *)
(***************************************************************************)
EXTENDS Collection

MCNull == [type |-> "null", rank |-> 0, hash |-> 0]
IntValue(n) == [type |-> "int", rank |-> n, hash |-> n]
MCValues == {IntValue(0), IntValue(1), MCNull}

Meta(name, kind, unique, fields) ==
  [name |-> name, kind |-> kind, unique |-> unique, fields |-> fields]
MCIndexMetas ==
  {Meta("i", "BTREE", TRUE, <<1>>), Meta("j", "HASH", FALSE, <<1, 1>>),
   Meta("j", "BTREE", TRUE, <<2>>)}

(* The answer does not decide what can happen next, and the properties     *)
(* about it are about steps.                                               *)
MCView == <<next_id, entity_map, index_meta_map, field_to_index_map, indexes>>

=============================================================================
