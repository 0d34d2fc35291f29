------------------------------ MODULE MCBinder ------------------------------
(***************************************************************************)
(* The binder on a small catalog: database A (id 1) with a collection t    *)
(* (id 11: x NOT NULL, y), database B (id 2) with another t (id 21: y NOT  *)
(* NULL).  Each comes and goes once.                                       *)
(***************************************************************************)
EXTENDS Binder, TLC

MCDatabaseName == 1 :> "A" @@ 2 :> "B"
MCHome == 11 :> 1 @@ 21 :> 2
MCCollectionName == 11 :> "t" @@ 21 :> "t"

Column(name, nullable) == [name |-> name, nullable |-> nullable]
MCColumns ==
  11 :> <<Column("x", FALSE), Column("y", TRUE)>>
  @@ 21 :> <<Column("y", FALSE)>>

MCIndexes == 11 :> {"i"} @@ 21 :> {}
MCVIndexes == 11 :> {} @@ 21 :> {"i"}

Expr(refs) == [refs |-> refs, malformed |-> FALSE]
Ref(database, collection, column) ==
  [database |-> database, collection |-> collection, column |-> column]

(* A literal, y, t.x with B.t.y, and a malformed vector.                   *)
Literal == Expr({})
MCExprs ==
  {Literal, Expr({Ref(NONE, NONE, "y")}),
   Expr({Ref(NONE, "t", "x"), Ref("B", "t", "y")}),
   [refs |-> {}, malformed |-> TRUE]}

Def(name, default) == [name |-> name, malformed |-> FALSE, default |-> default]
MCColumnDefs ==
  {Def("x", NONE), Def("x", Expr({Ref(NONE, NONE, "y")})),
   Def("y", Expr({Ref(NONE, "t", "x"), Ref("B", "t", "y")})),
   [name |-> "x", malformed |-> TRUE, default |-> NONE]}

MCWithOptions ==
  {[key |-> "m", valid |-> TRUE], [key |-> "metric", valid |-> TRUE],
   [key |-> "nlist", valid |-> FALSE]}

=============================================================================
