----------------------------- MODULE CatalogOps -----------------------------
(***************************************************************************)
(* The entries of the catalog (src/src/catalog/), as operators on values.  *)
(*                                                                         *)
(* A database entry holds collection entries, a collection entry holds     *)
(* column entries, and the catalog holds database entries, all three in    *)
(* the same way: a vector of entries, and a map from names to positions in *)
(* it.  Such a pair is called a directory here; positions count from 1.    *)
(* The three classes have the same code three times, so a definition       *)
(* below stands for its copy in each.  A collection entry also holds       *)
(* the entries of its indexes and vector indexes, each with a map from     *)
(* columns back to the indexes.                                            *)
(***************************************************************************)
EXTENDS Naturals, Sequences, FiniteSets

(* Maps whose domain changes: m with k mapped to v, and without k.         *)
Put(m, k, v) == [x \in DOMAIN m \cup {k} |-> IF x = k THEN v ELSE m[x]]
Drop(m, k) == [x \in DOMAIN m \ {k} |-> m[x]]

EmptyMap == [x \in {} |-> x]
SeqRange(s) == {s[i] : i \in DOMAIN s}

-----------------------------------------------------------------------------
(* Directories.                                                            *)

EmptyDirectory == [entries |-> <<>>, positions |-> EmptyMap]

Has(dir, name) == name \in DOMAIN dir.positions

(* A lookup by name goes through the map, and then by position: a position *)
(* past the end of the vector finds nothing.                               *)
Found(dir, name) ==
  /\ Has(dir, name)
  /\ dir.positions[name] \in DOMAIN dir.entries

Get(dir, name) == dir.entries[dir.positions[name]]

(* The names are those of the entries, not those of the map.               *)
NamesOf(dir) == {dir.entries[i].name : i \in DOMAIN dir.entries}

(* Bug: the position is that of the entry before.                          *)
AddedBefore(dir, entry) ==
  [entries |-> Append(dir.entries, entry),
   positions |-> Put(dir.positions, entry.name, Len(dir.entries))]

(* Throws when the map has the name: callers check Has.                    *)
Added(dir, entry) ==
  [entries |-> Append(dir.entries, entry),
   positions |-> Put(dir.positions, entry.name, Len(dir.entries) + 1)]

(* vector::erase.  At a position past the end, which is undefined, the     *)
(* library's loop has nothing to move and the last entry is destroyed.     *)
Erased(s, p) == [i \in 1 .. Len(s) - 1 |-> IF i < p THEN s[i] ELSE s[i + 1]]

(* The map forgets the name; the positions of the later entries stay.      *)
Removed(dir, name) ==
  [entries |-> Erased(dir.entries, dir.positions[name]),
   positions |-> Drop(dir.positions, name)]

(* The entry is replaced, the map is not changed.  A position past the end *)
(* writes to a slot that is no longer part of the vector.                  *)
Modified(dir, name, entry) ==
  IF Found(dir, name)
  THEN [dir EXCEPT !.entries[dir.positions[name]] = entry]
  ELSE dir

(* The map changes, the name in the entry does not.                        *)
Renamed(dir, name, new_name) ==
  [dir EXCEPT !.positions = Drop(Put(@, new_name, @[name]), name)]

(* What a name is looked up under is what the entry there is called, and   *)
(* no entry is listed that has no name in the map.                         *)
Placed(dir) ==
  /\ DOMAIN dir.positions = NamesOf(dir)
  /\ \A i \in DOMAIN dir.entries : dir.positions[dir.entries[i].name] = i

-----------------------------------------------------------------------------
(* Entries.  id and own stand for the public fields database_id_ and       *)
(* database_name_, collection_id_ and collection_name_, which other code   *)
(* reads; the constructors do not set them.                                *)

DatabaseEntry(name, id, own) ==
  [name |-> name, id |-> id, own |-> own, collections |-> EmptyDirectory]

CollectionEntry(name, id, own) ==
  [name |-> name, id |-> id, own |-> own, columns |-> EmptyDirectory,
   index_entries |-> EmptyMap, field_to_indexes |-> EmptyMap,
   vindex_entries |-> EmptyMap, column_to_vindex |-> EmptyMap]

ColumnEntry(name, type, index) == [name |-> name, type |-> type, index |-> index]

(* Of an index entry only its fields matter here, of a vector index entry  *)
(* its column.                                                             *)
HasIndex(coll, name) == name \in DOMAIN coll.index_entries

(* field_to_indexes maps a field to the names of the indexes on it, with   *)
(* how often each is listed; the order of the list is left out.            *)
Listed(coll, field) ==
  IF field \in DOMAIN coll.field_to_indexes THEN coll.field_to_indexes[field] ELSE EmptyMap

Times(fields, field) == Cardinality({i \in DOMAIN fields : fields[i] = field})

WithIndex(coll, name, fields) ==
  [coll EXCEPT
     !.index_entries = Put(@, name, fields),
     !.field_to_indexes =
       [f \in DOMAIN @ \cup SeqRange(fields) |->
          IF f \in SeqRange(fields) THEN Put(Listed(coll, f), name, Times(fields, f))
          ELSE @[f]]]

(* Bug: a field keeps its list when the list is empty.                     *)
WithoutIndexEmptied(coll, name) ==
  LET fields == SeqRange(coll.index_entries[name]) IN
  [coll EXCEPT
     !.index_entries = Drop(@, name),
     !.field_to_indexes =
       [f \in DOMAIN @ |-> IF f \in fields THEN Drop(@[f], name) ELSE @[f]]]

(* A field that lists no index any more is dropped.                        *)
WithoutIndex(coll, name) ==
  LET fields == SeqRange(coll.index_entries[name])
      left(f) == IF f \in fields THEN Drop(Listed(coll, f), name) ELSE Listed(coll, f)
  IN [coll EXCEPT
        !.index_entries = Drop(@, name),
        !.field_to_indexes =
          [f \in {g \in DOMAIN @ : g \in fields => left(g) # EmptyMap} |-> left(f)]]

HasVIndex(coll, name) == name \in DOMAIN coll.vindex_entries
ColumnHasVIndex(coll, column) == column \in DOMAIN coll.column_to_vindex

(* Bug: the two maps are exchanged.                                        *)
WithVIndexSwapped(coll, name, column) ==
  [coll EXCEPT
     !.vindex_entries = Put(@, column, name),
     !.column_to_vindex = Put(@, name, column)]

WithVIndex(coll, name, column) ==
  [coll EXCEPT
     !.vindex_entries = Put(@, name, column),
     !.column_to_vindex = Put(@, column, name)]

WithoutVIndex(coll, name) ==
  [coll EXCEPT
     !.vindex_entries = Drop(@, name),
     !.column_to_vindex = Drop(@, coll.vindex_entries[name])]
=============================================================================
