------------------------------ MODULE MCCatalog -----------------------------
(***************************************************************************)
(* A catalog of up to four entries: three databases, two columns of one    *)
(* collection, or a collection with two indexes.  Field lists may name a   *)
(* field twice.  No name is special, so names may be exchanged.            *)
(***************************************************************************)
EXTENDS CatalogEntries, TLC

CONSTANTS a, b, c, i, j

MCFieldLists == {<<1, 0>>, <<1, 1>>}
MCSymmetry == Permutations(Names) \cup Permutations(IndexNames)
=============================================================================
