--------------------------- MODULE CatalogEntries ---------------------------
(***************************************************************************)
(* The catalog under any sequence of calls of its classes' interfaces      *)
(* (Catalog, CatalogDatabaseEntry and CatalogCollectionEntry).  A caller   *)
(* holds a pointer to an entry, which it got by name or by position, so a  *)
(* call on an entry is possible at every position.                         *)
(***************************************************************************)
EXTENDS CatalogOps

CONSTANTS
  Names,        \* names of databases, collections and columns
  Types,        \* the types of columns
  IndexNames,   \* names of indexes and vector indexes
  FieldLists,   \* the lists of fields CREATE INDEX is called with
  MaxSize       \* bound on the number of entries in the whole catalog

ASSUME CatalogAssumption ==
  /\ FieldLists \subseteq Seq(Nat)
  /\ MaxSize \in Nat

Fields == UNION {SeqRange(l) : l \in FieldLists}

VARIABLES
  catalog,   \* the directory of the database entries
  status     \* "running", or "crashed" by undefined behaviour

vars == <<catalog, status>>

(* Nothing here reads the fields that the constructors leave unset.        *)
UnsetId == 0
UnsetName == ""

Collections(d) == catalog.entries[d].collections
Coll(d, c) == Collections(d).entries[c]
Columns(d, c) == Coll(d, c).columns

(* Where a call can be made: on each database, on each collection.         *)
DatabasesAt == DOMAIN catalog.entries
CollectionsAt == UNION {{<<d, c>> : c \in DOMAIN Collections(d).entries} : d \in DatabasesAt}

Size ==
  Cardinality(DatabasesAt) + Cardinality(CollectionsAt)
    + Cardinality(UNION {{<<p, i>> : i \in DOMAIN Columns(p[1], p[2]).entries} :
                         p \in CollectionsAt})
    + Cardinality(UNION {{<<p, n>> : n \in DOMAIN Coll(p[1], p[2]).index_entries} :
                         p \in CollectionsAt})
    + Cardinality(UNION {{<<p, n>> : n \in DOMAIN Coll(p[1], p[2]).vindex_entries} :
                         p \in CollectionsAt})

-----------------------------------------------------------------------------
(* The calls.  A call that throws or returns false changes nothing.        *)

Becomes(c) == catalog' = c /\ UNCHANGED status

HasRoom == Size < MaxSize

(* A position past the end of the vector: the process may not survive the  *)
(* call, and when the vector is empty it does not.                         *)
Dangling(dir, name) == Has(dir, name) /\ ~Found(dir, name)

Crash(dir, name) ==
  /\ Dangling(dir, name)
  /\ status' = "crashed" /\ UNCHANGED catalog

Erasable(dir, name) == Has(dir, name) /\ dir.entries # <<>>

AddDatabase(name) ==
  /\ HasRoom /\ ~Has(catalog, name)
  /\ Becomes(Added(catalog, DatabaseEntry(name, UnsetId, UnsetName)))

RemoveDatabase(name) ==
  \/ Erasable(catalog, name) /\ Becomes(Removed(catalog, name))
  \/ Crash(catalog, name)

RenameDatabase(name, new_name) ==
  /\ Has(catalog, name)
  /\ Becomes(Renamed(catalog, name, new_name))

AddCollection(d, name) ==
  /\ HasRoom /\ ~Has(Collections(d), name)
  /\ Becomes([catalog EXCEPT
       !.entries[d].collections = Added(@, CollectionEntry(name, UnsetId, UnsetName))])

RemoveCollection(d, name) ==
  \/ /\ Erasable(Collections(d), name)
     /\ Becomes([catalog EXCEPT !.entries[d].collections = Removed(@, name)])
  \/ Crash(Collections(d), name)

RenameCollection(d, name, new_name) ==
  /\ Has(Collections(d), name)
  /\ Becomes([catalog EXCEPT !.entries[d].collections = Renamed(@, name, new_name)])

WithColumns(d, c, columns) ==
  [catalog EXCEPT !.entries[d].collections.entries[c].columns = columns]

(* Columns are numbered by the caller; the executor counts them from 0.    *)
AddColumn(d, c, name, type) ==
  /\ HasRoom /\ ~Has(Columns(d, c), name)
  /\ Becomes(WithColumns(d, c,
       Added(Columns(d, c), ColumnEntry(name, type, Len(Columns(d, c).entries)))))

RemoveColumn(d, c, name) ==
  \/ /\ Erasable(Columns(d, c), name)
     /\ Becomes(WithColumns(d, c, Removed(Columns(d, c), name)))
  \/ Crash(Columns(d, c), name)

(* The new entry may have another name.                                    *)
ModifyColumn(d, c, name, new_name, type) ==
  \/ /\ Has(Columns(d, c), name)
     /\ Becomes(WithColumns(d, c, Modified(Columns(d, c), name,
          ColumnEntry(new_name, type, Columns(d, c).positions[name] - 1))))
  \/ Crash(Columns(d, c), name)

WithCollection(d, c, coll) == [catalog EXCEPT !.entries[d].collections.entries[c] = coll]

AddIndex(d, c, name, fields) ==
  /\ HasRoom /\ ~HasIndex(Coll(d, c), name)
  /\ Becomes(WithCollection(d, c, WithIndex(Coll(d, c), name, fields)))

RemoveIndex(d, c, name) ==
  /\ HasIndex(Coll(d, c), name)
  /\ Becomes(WithCollection(d, c, WithoutIndex(Coll(d, c), name)))

(* A column has one vector index.                                          *)
AddVIndex(d, c, name, column) ==
  /\ HasRoom /\ ~HasVIndex(Coll(d, c), name) /\ ~ColumnHasVIndex(Coll(d, c), column)
  /\ Becomes(WithCollection(d, c, WithVIndex(Coll(d, c), name, column)))

RemoveVIndex(d, c, name) ==
  /\ HasVIndex(Coll(d, c), name)
  /\ Becomes(WithCollection(d, c, WithoutVIndex(Coll(d, c), name)))

Init ==
  /\ catalog = EmptyDirectory
  /\ status = "running"

OnCatalog ==
  \E name \in Names :
    \/ AddDatabase(name)
    \/ RemoveDatabase(name)
    \/ \E new_name \in Names : RenameDatabase(name, new_name)

OnDatabase(d) ==
  \E name \in Names :
    \/ AddCollection(d, name)
    \/ RemoveCollection(d, name)
    \/ \E new_name \in Names : RenameCollection(d, name, new_name)

OnColumns(d, c) ==
  \E name \in Names :
    \/ RemoveColumn(d, c, name)
    \/ \E type \in Types :
         \/ AddColumn(d, c, name, type)
         \/ \E new_name \in Names : ModifyColumn(d, c, name, new_name, type)

OnIndexes(d, c) ==
  \E name \in IndexNames :
    \/ \E fields \in FieldLists : AddIndex(d, c, name, fields)
    \/ RemoveIndex(d, c, name)
    \/ \E column \in Fields : AddVIndex(d, c, name, column)
    \/ RemoveVIndex(d, c, name)

Next ==
  /\ status = "running"
  /\ \/ OnCatalog
     \/ \E d \in DatabasesAt : OnDatabase(d)
     \/ \E p \in CollectionsAt : OnColumns(p[1], p[2]) \/ OnIndexes(p[1], p[2])

Spec == Init /\ [][Next]_vars

-----------------------------------------------------------------------------
IsMap(m, K, V) == DOMAIN m \subseteq K /\ m \in [DOMAIN m -> V]

ColumnEntries == [name : Names, type : Types, index : Nat]

IsColumns(dir) ==
  /\ dir = [entries |-> dir.entries, positions |-> dir.positions]
  /\ dir.entries \in Seq(ColumnEntries)
  /\ IsMap(dir.positions, Names, Nat)

IsCollection(coll) ==
  /\ coll \in [name : Names, id : {UnsetId}, own : {UnsetName},
               columns : {coll.columns},
               index_entries : {coll.index_entries},
               field_to_indexes : {coll.field_to_indexes},
               vindex_entries : {coll.vindex_entries},
               column_to_vindex : {coll.column_to_vindex}]
  /\ IsColumns(coll.columns)
  /\ IsMap(coll.index_entries, IndexNames, FieldLists)
  /\ DOMAIN coll.field_to_indexes \subseteq Fields
  /\ \A f \in DOMAIN coll.field_to_indexes :
       IsMap(coll.field_to_indexes[f], IndexNames, Nat)
  /\ IsMap(coll.vindex_entries, IndexNames, Fields)
  /\ IsMap(coll.column_to_vindex, Fields, IndexNames)

IsCollections(dir) ==
  /\ dir = [entries |-> dir.entries, positions |-> dir.positions]
  /\ dir.entries = [c \in 1..Len(dir.entries) |-> dir.entries[c]]
  /\ \A c \in DOMAIN dir.entries : IsCollection(dir.entries[c])
  /\ IsMap(dir.positions, Names, Nat)

IsDatabase(db) ==
  /\ db = [DatabaseEntry(db.name, UnsetId, UnsetName) EXCEPT !.collections = db.collections]
  /\ db.name \in Names
  /\ IsCollections(db.collections)

(* Type invariant: three levels of directories.                            *)
TypeOK ==
  /\ catalog = [entries |-> catalog.entries, positions |-> catalog.positions]
  /\ catalog.entries = [d \in 1..Len(catalog.entries) |-> catalog.entries[d]]
  /\ \A d \in DatabasesAt : IsDatabase(catalog.entries[d])
  /\ IsMap(catalog.positions, Names, Nat)
  /\ status \in {"running", "crashed"}

(* field_to_indexes lists exactly the indexes whose field list has the     *)
(* field, as often as it has it, and no field is left with an empty list.  *)
FieldsAgree(coll) ==
  /\ \A f \in DOMAIN coll.field_to_indexes :
       /\ coll.field_to_indexes[f] # EmptyMap
       /\ \A n \in DOMAIN coll.field_to_indexes[f] :
            HasIndex(coll, n) /\ f \in SeqRange(coll.index_entries[n])
  /\ \A n \in DOMAIN coll.index_entries : \A f \in SeqRange(coll.index_entries[n]) :
       /\ n \in DOMAIN Listed(coll, f)
       /\ Listed(coll, f)[n] = Times(coll.index_entries[n], f)

(* A column has at most one vector index, and the maps of the vector       *)
(* indexes are each other's inverse.                                       *)
VIndexesAgree(coll) ==
  /\ \A n \in DOMAIN coll.vindex_entries :
       /\ ColumnHasVIndex(coll, coll.vindex_entries[n])
       /\ coll.column_to_vindex[coll.vindex_entries[n]] = n
  /\ \A k \in DOMAIN coll.column_to_vindex :
       /\ HasVIndex(coll, coll.column_to_vindex[k])
       /\ coll.vindex_entries[coll.column_to_vindex[k]] = k

(* However indexes came and went, the ways from a column to its indexes    *)
(* (find_indexes_by_field, find_vindex_by_column) agree with what the      *)
(* indexes themselves say.                                                 *)
IndexMapsAgree ==
  \A p \in CollectionsAt : FieldsAgree(Coll(p[1], p[2])) /\ VIndexesAgree(Coll(p[1], p[2]))

(* What get_*_names lists and what the lookups by name find is the same,   *)
(* in the catalog and in everything it holds.                              *)
AllPlaced ==
  /\ Placed(catalog)
  /\ \A d \in DatabasesAt : Placed(Collections(d))
  /\ \A p \in CollectionsAt : Placed(Columns(p[1], p[2]))

(* A removal in front of other entries, which keep the positions they had, *)
(* and a change of a name on one side only.                                *)
Shifts(dir, name) == Has(dir, name) /\ dir.positions[name] < Len(dir.entries)

Misplaces ==
  \/ \E name \in Names : RemoveDatabase(name) /\ Shifts(catalog, name)
  \/ \E name, new_name \in Names : RenameDatabase(name, new_name)
  \/ \E d \in DatabasesAt, name \in Names :
       \/ RemoveCollection(d, name) /\ Shifts(Collections(d), name)
       \/ \E new_name \in Names : RenameCollection(d, name, new_name)
  \/ \E p \in CollectionsAt, name \in Names :
       \/ RemoveColumn(p[1], p[2], name) /\ Shifts(Columns(p[1], p[2]), name)
       \/ \E new_name \in Names \ {name}, type \in Types :
            ModifyColumn(p[1], p[2], name, new_name, type)

(* As long as the lookups agree with the listings, nothing but a removal   *)
(* that is not of the last entry, a rename, or a modify_column that gives  *)
(* another name, makes them disagree; and no call is undefined.            *)
OnlyShiftsMisplace ==
  [][AllPlaced /\ ~Misplaces => AllPlaced' /\ status' = "running"]_vars
=============================================================================
