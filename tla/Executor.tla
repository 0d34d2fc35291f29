------------------------------ MODULE Executor ------------------------------
(***************************************************************************)
(* The statements that the executor carries out itself                     *)
(* (src/src/executor/executor.cpp), on the catalog and on the databases    *)
(* that hold the rows (DatabaseManager, Database, CollectionManager).      *)
(*                                                                         *)
(* The catalog entries of databases and collections have public fields for *)
(* an id and for their own name; the executor finds a collection by the id *)
(* and goes from the catalog to the database by the own names.  No code    *)
(* under src/ sets them, so at its creation an entry gets some id and      *)
(* either no own name or the right one, which a caller may have stored.    *)
(*                                                                         *)
(* Statements are bound just before they are executed: a column is named   *)
(* here, and resolved in the catalog to the index stored in its entry.     *)
(***************************************************************************)
EXTENDS CatalogOps

CONSTANTS
  DatabaseNames, DatabaseIds,
  CollectionNames, CollectionIds,
  ColumnNames, Types,
  Schemas,         \* the column definitions CREATE COLLECTION is called with
  IndexNames,
  IndexedColumns,  \* the lists of columns CREATE INDEX is called with
  MaxSize,         \* bound on what is in the catalog and the databases
  MaxRowId,        \* bound on the ids of the rows of a collection
  MaxDrops         \* bound on the databases, collections and columns dropped

NoDatabase == 0
UnsetName == ""

ASSUME ExecutorAssumption ==
  /\ DatabaseIds \subseteq Nat
  /\ UnsetName \notin DatabaseNames \cup CollectionNames
  /\ Schemas \subseteq Seq([name : ColumnNames, type : Types, nullable : BOOLEAN])
  /\ IndexedColumns \subseteq Seq(ColumnNames)
  /\ MaxSize \in Nat /\ MaxRowId \in Nat /\ MaxDrops \in Nat

VARIABLES
  catalog,     \* the directory of the database entries
  databases,   \* DatabaseManager::databases_, by id
  current,     \* current_database_id_
  answer,      \* the last statement and how it ended
  drops        \* how many drops there were, for the bound

vars == <<catalog, databases, current, answer, drops>>
state == <<catalog, databases, current>>

Dropping(op, status) ==
  op \in {"drop_database", "drop_collection", "alter_drop"} /\ status = "ok"

Ended(op, status) ==
  /\ answer' = [op |-> op, status |-> status]
  /\ drops' = drops + IF Dropping(op, status) THEN 1 ELSE 0

(* An answer without any change of the state.                              *)
Only(op, status) == Ended(op, status) /\ UNCHANGED state

(* IF [NOT] EXISTS, when the statement has it, makes this a success.       *)
Skip(op) == \E lenient \in BOOLEAN : Only(op, IF lenient THEN "ok" ELSE "failure")

-----------------------------------------------------------------------------
(* Databases.                                                              *)

Database(name) == [name |-> name, collections |-> EmptyMap]

NewCollection(schema) ==
  [schema |-> schema, rows |-> {}, next_id |-> 1, indexes |-> EmptyMap]

(* get_current_database.                                                   *)
HasCurrent == current # NoDatabase /\ current \in DOMAIN databases
Current == databases[current]

Use(id) ==
  /\ current' = id
  /\ Ended("use", "ok")
  /\ UNCHANGED <<catalog, databases>>

(* Entries of databases, collections, columns and vector indexes, and the  *)
(* databases and collections; a column that was renamed counts twice.      *)
RenamedIn(columns) ==
  {i \in DOMAIN columns.entries : ~Has(columns, columns.entries[i].name)}
CatalogEntries ==
  UNION {{<<d>>} \cup UNION {
           {<<d, c>>} \cup LET entry == catalog.entries[d].collections.entries[c] IN
             {<<d, c, 0, x>> : x \in DOMAIN entry.columns.entries}
               \cup {<<d, c, 1, x>> : x \in DOMAIN entry.vindex_entries}
               \cup {<<d, c, 2, x>> : x \in RenamedIn(entry.columns)} :
           c \in DOMAIN catalog.entries[d].collections.entries} :
         d \in DOMAIN catalog.entries}
Objects ==
  UNION {{<<d>>} \cup {<<d, n>> : n \in DOMAIN databases[d].collections} :
         d \in DOMAIN databases}
HasRoom == Cardinality(CatalogEntries) + Cardinality(Objects) < MaxSize

(* DatabaseManager::create_database keeps a database that has the id.  An  *)
(* id of 0 is taken for a failure, after everything has been done.         *)
CreateDatabase(name) ==
  \/ Has(catalog, name) /\ Skip("create_database")
  \/ /\ ~Has(catalog, name) /\ HasRoom
     /\ \E id \in DatabaseIds, own \in {UnsetName, name} :
          /\ catalog' = Added(catalog, DatabaseEntry(name, id, own))
          /\ databases' = IF id \in DOMAIN databases THEN databases
                          ELSE Put(databases, id, Database(name))
          /\ current' = IF current = NoDatabase THEN id ELSE current
          /\ Ended("create_database", IF id = NoDatabase THEN "failure" ELSE "ok")

(* DatabaseManager::drop_database takes the id for a position, from 0, in  *)
(* the catalog, and removes what that entry says is its own name.          *)
Unlisted(id) ==
  IF id + 1 \in DOMAIN catalog.entries /\ Has(catalog, catalog.entries[id + 1].own)
  THEN Removed(catalog, catalog.entries[id + 1].own)
  ELSE catalog

(* Undefined where the name leads past the end of the entries.             *)
MayCrash(dir, name) == Has(dir, name) /\ ~Found(dir, name)

Crash(op) == Only(op, "crash")

DropDatabase(id) ==
  \/ id \notin DOMAIN databases /\ Skip("drop_database")
  \/ /\ id \in DOMAIN databases
     /\ catalog' = Unlisted(id)
     /\ databases' = Drop(databases, id)
     /\ current' = IF current = id THEN NoDatabase ELSE current
     /\ Ended("drop_database", "ok")
  \/ /\ id \in DOMAIN databases
     /\ id + 1 \in DOMAIN catalog.entries
     /\ MayCrash(catalog, catalog.entries[id + 1].own)
     /\ Crash("drop_database")

-----------------------------------------------------------------------------
(* Finding a collection.                                                   *)

EntryAt(p) == catalog.entries[p[1]].collections.entries[p[2]]

(* Each listed database is looked up by its name, and in it each listed    *)
(* collection by its name: the places <<i, j>> in the two listings from    *)
(* which the lookups reach an entry with the id.                           *)
Place(i) == catalog.positions[catalog.entries[i].name]
CollectionsIn(i) == catalog.entries[Place(i)].collections

HitsIn(i, id) ==
  {j \in DOMAIN CollectionsIn(i).entries :
     LET name == CollectionsIn(i).entries[j].name IN
     Found(CollectionsIn(i), name) /\ Get(CollectionsIn(i), name).id = id}

HitDatabases(id) ==
  {i \in DOMAIN catalog.entries :
     Found(catalog, catalog.entries[i].name) /\ HitsIn(i, id) # {}}

Least(S) == CHOOSE x \in S : \A y \in S : x <= y

(* The positions of the database and of the collection that the first of   *)
(* these lookups reaches: no pair, or one.                                 *)
Located(id) ==
  IF HitDatabases(id) = {} THEN {}
  ELSE LET i == Least(HitDatabases(id))
           dir == CollectionsIn(i)
       IN  {<<Place(i), dir.positions[dir.entries[Least(HitsIn(i, id))].name]>>}

(* The collection itself is looked for in the current database only.       *)
Own(p) == EntryAt(p).own

InDatabase(p) ==
  /\ HasCurrent
  /\ Current.name = catalog.entries[p[1]].own
  /\ Own(p) \in DOMAIN Current.collections

CollectionAt(p) == Current.collections[Own(p)]

WithEntry(p, entry) ==
  [catalog EXCEPT !.entries[p[1]].collections.entries[p[2]] = entry]
WithObject(p, collection) ==
  [databases EXCEPT ![current].collections[Own(p)] = collection]

NotFound(op, id) == Located(id) = {} /\ Only(op, "failure")
NotFoundSkip(op, id) == Located(id) = {} /\ Skip(op)

(* "Collection not in current database", "Collection not found in database".*)
Absent(op, p) == ~InDatabase(p) /\ Only(op, "failure")

-----------------------------------------------------------------------------
(* CREATE and DROP COLLECTION.                                             *)

Columns(schema) ==
  [entries |-> [i \in DOMAIN schema |-> ColumnEntry(schema[i].name, schema[i].type, i - 1)],
   positions |-> [n \in {schema[i].name : i \in DOMAIN schema} |->
                    CHOOSE i \in DOMAIN schema : schema[i].name = n]]

NoDuplicates(schema) == \A i, j \in DOMAIN schema : schema[i].name = schema[j].name => i = j

(* add_column throws at a name it has, add_collection too.                 *)
EntryThrows(dir, name, schema) == ~NoDuplicates(schema) \/ Has(dir, name)

(* The collection is made first; what goes wrong with its entry after that *)
(* does not undo it.                                                       *)
CreateCollection(name, schema) ==
  \/ ~HasCurrent /\ Only("create_collection", "failure")
  \/ /\ HasCurrent /\ name \in DOMAIN Current.collections
     /\ Skip("create_collection")
  \/ /\ HasCurrent /\ name \notin DOMAIN Current.collections /\ HasRoom
     /\ databases' = [databases EXCEPT
                        ![current].collections = Put(@, name, NewCollection(schema))]
     /\ UNCHANGED current
     /\ \/ /\ ~Found(catalog, Current.name)
           /\ UNCHANGED catalog /\ Ended("create_collection", "failure")
        \/ /\ Found(catalog, Current.name)
           /\ EntryThrows(Get(catalog, Current.name).collections, name, schema)
           /\ UNCHANGED catalog /\ Ended("create_collection", "throw")
        \/ /\ Found(catalog, Current.name)
           /\ ~EntryThrows(Get(catalog, Current.name).collections, name, schema)
           /\ \E id \in CollectionIds, own \in {UnsetName, name} :
                catalog' = [catalog EXCEPT
                  !.entries[catalog.positions[Current.name]].collections =
                    Added(@, [CollectionEntry(name, id, own) EXCEPT !.columns = Columns(schema)])]
           /\ Ended("create_collection", "ok")

Siblings(p) == catalog.entries[p[1]].collections

(* Bug: the entry goes before the collection is known to exist.            *)
DropCollectionEntryFirst(id) ==
  \/ NotFoundSkip("drop_collection", id)
  \/ \E p \in Located(id) :
       /\ Found(Siblings(p), Own(p))
       /\ catalog' = [catalog EXCEPT !.entries[p[1]].collections = Removed(@, Own(p))]
       /\ databases' = IF InDatabase(p)
                       THEN [databases EXCEPT ![current].collections = Drop(@, Own(p))]
                       ELSE databases
       /\ UNCHANGED current
       /\ Ended("drop_collection", IF InDatabase(p) THEN "ok" ELSE "failure")

(* The result of remove_collection is not looked at.                       *)
DropCollection(id) ==
  \/ NotFoundSkip("drop_collection", id)
  \/ \E p \in Located(id) : Absent("drop_collection", p)
  \/ \E p \in Located(id) :
       /\ InDatabase(p)
       /\ databases' = [databases EXCEPT ![current].collections = Drop(@, Own(p))]
       /\ catalog' = IF Has(Siblings(p), Own(p))
                     THEN [catalog EXCEPT !.entries[p[1]].collections = Removed(@, Own(p))]
                     ELSE catalog
       /\ UNCHANGED current
       /\ Ended("drop_collection", "ok")
  \/ \E p \in Located(id) :
       InDatabase(p) /\ MayCrash(Siblings(p), Own(p)) /\ Crash("drop_collection")

-----------------------------------------------------------------------------
(* Columns by name: resolve_column looks the name up and returns the index *)
(* stored in the entry; the executor takes it for a position.              *)

Resolves(p, names) == \A n \in names : Found(EntryAt(p).columns, n)
Resolved(p, name) == Get(EntryAt(p).columns, name).index

At(p, column_id) == EntryAt(p).columns.entries[column_id + 1]
HasColumnAt(p, column_id) == column_id + 1 \in DOMAIN EntryAt(p).columns.entries

WithColumns(p, columns) == WithEntry(p, [EntryAt(p) EXCEPT !.columns = columns])

AlterAddColumn(id, name, type) ==
  \/ NotFound("alter_add", id)
  \/ \E p \in Located(id) :
       \/ Absent("alter_add", p)
       \/ Has(EntryAt(p).columns, name) /\ Only("alter_add", "failure")
       \/ LET columns == EntryAt(p).columns
              count == Len(columns.entries)
          IN
          /\ InDatabase(p) /\ ~Has(columns, name) /\ HasRoom
          /\ catalog' = WithColumns(p, Added(columns, ColumnEntry(name, type, count)))
          /\ UNCHANGED <<databases, current>>
          /\ Ended("alter_add", "ok")

(* The three others: the column at the position, changed under the name    *)
(* that its entry has.                                                     *)
AlterAt(op, p, column_id, columns) ==
  \/ ~HasColumnAt(p, column_id) /\ Only(op, "failure")
  \/ HasColumnAt(p, column_id) /\ Absent(op, p)
  \/ /\ HasColumnAt(p, column_id) /\ InDatabase(p)
     /\ ~Has(EntryAt(p).columns, At(p, column_id).name)
     /\ Only(op, "failure")
  \/ /\ HasColumnAt(p, column_id) /\ InDatabase(p)
     /\ MayCrash(EntryAt(p).columns, At(p, column_id).name)
     /\ Crash(op)
  \/ /\ HasColumnAt(p, column_id) /\ InDatabase(p)
     /\ Has(EntryAt(p).columns, At(p, column_id).name)
     /\ catalog' = WithColumns(p, columns)
     /\ UNCHANGED <<databases, current>>
     /\ Ended(op, "ok")

AlterDropColumn(id, name) ==
  \/ NotFound("alter_drop", id)
  \/ \E p \in Located(id) :
       /\ Resolves(p, {name})
       /\ LET column_id == Resolved(p, name)
          IN  AlterAt("alter_drop", p, column_id,
                      Removed(EntryAt(p).columns, At(p, column_id).name))

(* Bug: positions are counted from 1.                                      *)
RedefinedNext(p, column_id, name, type) ==
  Modified(EntryAt(p).columns, At(p, column_id).name, ColumnEntry(name, type, column_id + 1))

Redefined(p, column_id, name, type) ==
  Modified(EntryAt(p).columns, At(p, column_id).name, ColumnEntry(name, type, column_id))

(* The new definition names the column that it is for.                     *)
AlterModifyColumn(id, name, type) ==
  \/ NotFound("alter_modify", id)
  \/ \E p \in Located(id) :
       /\ Resolves(p, {name})
       /\ LET column_id == Resolved(p, name)
          IN  AlterAt("alter_modify", p, column_id, Redefined(p, column_id, name, type))

AlterRenameColumn(id, name, new_name) ==
  \/ NotFound("alter_rename", id)
  \/ \E p \in Located(id) :
       /\ Resolves(p, {name})
       /\ LET column_id == Resolved(p, name)
          IN  \/ /\ ~HasColumnAt(p, column_id) \/ Has(EntryAt(p).columns, new_name)
                 /\ Only("alter_rename", "failure")
              \/ /\ ~Has(EntryAt(p).columns, new_name)
                 /\ AlterAt("alter_rename", p, column_id,
                      Redefined(p, column_id, new_name, At(p, column_id).type))

-----------------------------------------------------------------------------
(* Indexes.  The indexes that the executor makes are not unique, so that   *)
(* they take every row: what they list is a set of ids.                    *)

Bound(p, names) == [i \in DOMAIN names |-> Resolved(p, names[i])]

(* Bug: the first row is left out.                                         *)
IndexedButFirst(collection, name, fields, ids) ==
  [collection EXCEPT !.indexes = Put(@, name, [fields |-> fields, ids |-> ids \ {1}])]

(* Collection::create_index, see Collection: it scans the stored rows and  *)
(* throws, with the index registered, at a column that they do not have.   *)
Indexed(collection, name, fields, ids) ==
  [collection EXCEPT !.indexes = Put(@, name, [fields |-> fields, ids |-> ids])]

InSchema(collection, fields) == \A f \in SeqRange(fields) : f < Len(collection.schema)

CreateIndex(id, name, names) ==
  \/ NotFound("create_index", id)
  \/ \E p \in Located(id) :
       LET fields == Bound(p, names)
           collection == CollectionAt(p)
           scans == InSchema(collection, fields) \/ collection.rows = {}
       IN
       /\ Resolves(p, SeqRange(names))
       /\ \/ HasIndex(EntryAt(p), name) /\ Skip("create_index")
          \/ ~HasIndex(EntryAt(p), name) /\ Absent("create_index", p)
          \/ /\ ~HasIndex(EntryAt(p), name) /\ InDatabase(p)
             /\ name \in DOMAIN collection.indexes
             /\ Only("create_index", "failure")
          \/ /\ ~HasIndex(EntryAt(p), name) /\ InDatabase(p)
             /\ name \notin DOMAIN collection.indexes /\ scans
             /\ databases' = WithObject(p, Indexed(collection, name, fields, collection.rows))
             /\ catalog' = WithEntry(p, WithIndex(EntryAt(p), name, fields))
             /\ UNCHANGED current
             /\ Ended("create_index", "ok")
          \/ /\ ~HasIndex(EntryAt(p), name) /\ InDatabase(p)
             /\ name \notin DOMAIN collection.indexes /\ ~scans
             /\ databases' = WithObject(p, Indexed(collection, name, fields, {}))
             /\ UNCHANGED <<catalog, current>>
             /\ Ended("create_index", "throw")

(* Bug: the entry of the index stays.                                      *)
DroppedFromCollection(p, name) ==
  /\ databases' = WithObject(p, [CollectionAt(p) EXCEPT !.indexes = Drop(@, name)])
  /\ UNCHANGED catalog

Dropped(p, name) ==
  /\ databases' = WithObject(p, [CollectionAt(p) EXCEPT !.indexes = Drop(@, name)])
  /\ catalog' = WithEntry(p, WithoutIndex(EntryAt(p), name))

DropIndex(id, name) ==
  \/ NotFoundSkip("drop_index", id)
  \/ \E p \in Located(id) :
       \/ ~HasIndex(EntryAt(p), name) /\ Skip("drop_index")
       \/ HasIndex(EntryAt(p), name) /\ Absent("drop_index", p)
       \/ /\ HasIndex(EntryAt(p), name) /\ InDatabase(p)
          /\ name \notin DOMAIN CollectionAt(p).indexes
          /\ Only("drop_index", "failure")
       \/ /\ HasIndex(EntryAt(p), name) /\ InDatabase(p)
          /\ name \in DOMAIN CollectionAt(p).indexes
          /\ Dropped(p, name)
          /\ UNCHANGED current
          /\ Ended("drop_index", "ok")

(* Vector indexes exist in the catalog only; the databases are not asked.  *)
CreateVIndex(id, name, column) ==
  \/ NotFound("create_vindex", id)
  \/ \E p \in Located(id) :
       LET column_id == Resolved(p, column) IN
       /\ Resolves(p, {column})
       /\ \/ HasVIndex(EntryAt(p), name) /\ Skip("create_vindex")
          \/ /\ ~HasVIndex(EntryAt(p), name)
             /\ HasColumnAt(p, column_id) => At(p, column_id).type # "VECTOR"
             /\ Only("create_vindex", "failure")
          \/ /\ ~HasVIndex(EntryAt(p), name)
             /\ HasColumnAt(p, column_id) /\ At(p, column_id).type = "VECTOR"
             /\ \/ /\ ColumnHasVIndex(EntryAt(p), column_id)
                   /\ Only("create_vindex", "throw")
                \/ /\ ~ColumnHasVIndex(EntryAt(p), column_id)
                   /\ catalog' = WithEntry(p, WithVIndex(EntryAt(p), name, column_id))
                   /\ UNCHANGED <<databases, current>>
                   /\ Ended("create_vindex", "ok")

DropVIndex(id, name) ==
  \/ NotFoundSkip("drop_vindex", id)
  \/ \E p \in Located(id) :
       \/ ~HasVIndex(EntryAt(p), name) /\ Skip("drop_vindex")
       \/ /\ HasVIndex(EntryAt(p), name)
          /\ catalog' = WithEntry(p, WithoutVIndex(EntryAt(p), name))
          /\ UNCHANGED <<databases, current>>
          /\ Ended("drop_vindex", "ok")

-----------------------------------------------------------------------------
(* Rows.                                                                   *)

(* A column without a value must be nullable, whether or not it has a      *)
(* default; a value that is no constant cannot be computed.                *)
Accepts(collection, fields) ==
  /\ \A f \in fields : f < Len(collection.schema)
  /\ \A i \in DOMAIN collection.schema : collection.schema[i].nullable \/ i - 1 \in fields

(* Bug: the id is not counted up.                                          *)
StoredUncounted(collection, accepted) ==
  [collection EXCEPT !.rows = IF accepted THEN @ \cup {collection.next_id} ELSE @]

Stored(collection, accepted) ==
  [collection EXCEPT
     !.next_id = @ + 1,
     !.rows = IF accepted THEN @ \cup {collection.next_id} ELSE @]

(* create_entity takes an id before the values are looked at.              *)
Insert(id, names) ==
  \/ NotFound("insert", id)
  \/ \E p \in Located(id) :
       /\ Resolves(p, names)
       /\ \/ Absent("insert", p)
          \/ LET collection == CollectionAt(p)
                 fields == {Resolved(p, n) : n \in names}
             IN
             /\ InDatabase(p) /\ collection.next_id <= MaxRowId
             /\ \E constants \in BOOLEAN :
                  LET accepted == constants /\ Accepts(collection, fields) IN
                  /\ databases' = WithObject(p, Stored(collection, accepted))
                  /\ UNCHANGED <<catalog, current>>
                  /\ Ended("insert", IF accepted THEN "ok" ELSE "failure")

(* UPDATE and DELETE run their scan and give up: not implemented.          *)
UpdateOrDelete == Only("update_or_delete", "failure")

-----------------------------------------------------------------------------
(* DESCRIBE and SHOW.                                                      *)

Describe(id) == Only("describe", IF Located(id) = {} THEN "failure" ELSE "ok")

ShowDatabases == Only("show_databases", "ok")

(* An id is a position again; without one, the current database is shown,  *)
(* as the catalog lists it under its name.                                 *)
ShowCollections(id) ==
  Only("show_collections", IF id + 1 \in DOMAIN catalog.entries THEN "ok" ELSE "failure")

ShowCurrentCollections ==
  Only("show_collections",
       IF HasCurrent /\ Found(catalog, Current.name) THEN "ok" ELSE "failure")

ShowIndexes == Only("show_indexes", "failure")

-----------------------------------------------------------------------------
Init ==
  /\ catalog = EmptyDirectory
  /\ databases = EmptyMap
  /\ current = NoDatabase
  /\ answer = [op |-> "none", status |-> "ok"]
  /\ drops = 0

OnDatabases ==
  \/ \E id \in DatabaseIds : Use(id) \/ ShowCollections(id)
  \/ \E name \in DatabaseNames : CreateDatabase(name)
  \/ drops < MaxDrops /\ \E id \in DatabaseIds : DropDatabase(id)
  \/ \E name \in CollectionNames, schema \in Schemas : CreateCollection(name, schema)
  \/ ShowDatabases
  \/ ShowCurrentCollections

OnColumns(id) ==
  \E name \in ColumnNames :
    \/ drops < MaxDrops /\ AlterDropColumn(id, name)
    \/ HasRoom /\ \E new_name \in ColumnNames : AlterRenameColumn(id, name, new_name)
    \/ \E type \in Types :
         \/ AlterAddColumn(id, name, type)
         \/ AlterModifyColumn(id, name, type)

OnIndexes(id) ==
  \E name \in IndexNames :
    \/ \E names \in IndexedColumns : CreateIndex(id, name, names)
    \/ DropIndex(id, name)
    \/ HasRoom /\ \E column \in ColumnNames : CreateVIndex(id, name, column)
    \/ DropVIndex(id, name)

OnCollection(id) ==
  \/ drops < MaxDrops /\ DropCollection(id)
  \/ OnColumns(id)
  \/ OnIndexes(id)
  \/ \E names \in SUBSET ColumnNames : Insert(id, names)
  \/ Describe(id)

Next ==
  /\ answer.status # "crash"
  /\ \/ OnDatabases
     \/ \E id \in CollectionIds : OnCollection(id)
     \/ UpdateOrDelete
     \/ ShowIndexes

Spec == Init /\ [][Next]_vars

-----------------------------------------------------------------------------
IsMap(m, K, V) == DOMAIN m \subseteq K /\ m \in [DOMAIN m -> V]

IsDirectory(dir, names) ==
  /\ dir = [entries |-> dir.entries, positions |-> dir.positions]
  /\ dir.entries = [i \in 1..Len(dir.entries) |-> dir.entries[i]]
  /\ IsMap(dir.positions, names, Nat)

IsCollectionEntry(c) ==
  /\ DOMAIN c = DOMAIN CollectionEntry(UnsetName, 0, UnsetName)
  /\ c.name \in CollectionNames /\ c.id \in CollectionIds /\ c.own \in {UnsetName, c.name}
  /\ IsDirectory(c.columns, ColumnNames)
  /\ \A i \in DOMAIN c.columns.entries :
       c.columns.entries[i] \in [name : ColumnNames, type : Types, index : Nat]
  /\ IsMap(c.index_entries, IndexNames, Seq(Nat))
  /\ IsMap(c.vindex_entries, IndexNames, Nat)

IsDatabaseEntry(d) ==
  /\ DOMAIN d = DOMAIN DatabaseEntry(UnsetName, 0, UnsetName)
  /\ d.name \in DatabaseNames /\ d.id \in DatabaseIds /\ d.own \in {UnsetName, d.name}
  /\ IsDirectory(d.collections, CollectionNames)
  /\ \A c \in DOMAIN d.collections.entries : IsCollectionEntry(d.collections.entries[c])

IsCollection(c) ==
  /\ DOMAIN c = DOMAIN NewCollection(<<>>)
  /\ c.schema \in Schemas
  /\ c.next_id \in 1..MaxRowId + 1
  /\ c.rows \subseteq 1 .. c.next_id - 1
  /\ DOMAIN c.indexes \subseteq IndexNames
  /\ \A n \in DOMAIN c.indexes :
       /\ c.indexes[n] = [fields |-> c.indexes[n].fields, ids |-> c.indexes[n].ids]
       /\ c.indexes[n].fields \in Seq(Nat)

(* Type invariant: the catalog, the databases and the rows they hold.      *)
TypeOK ==
  /\ IsDirectory(catalog, DatabaseNames)
  /\ \A d \in DOMAIN catalog.entries : IsDatabaseEntry(catalog.entries[d])
  /\ DOMAIN databases \subseteq DatabaseIds
  /\ \A id \in DOMAIN databases :
       /\ databases[id] = [name |-> databases[id].name, collections |-> databases[id].collections]
       /\ databases[id].name \in DatabaseNames
       /\ DOMAIN databases[id].collections \subseteq CollectionNames
       /\ \A n \in DOMAIN databases[id].collections : IsCollection(databases[id].collections[n])
  /\ current \in DatabaseIds \cup {NoDatabase}
  /\ answer.status \in {"ok", "failure", "throw", "crash"}
  /\ drops \in 0..MaxDrops

(* An index knows the rows of its creation: INSERT does not tell it of     *)
(* later ones.  What it lists are stored rows, and they are the oldest:    *)
(* no row that it misses, once it lists one, is older than one it lists.   *)
IndexesListOldest ==
  \A id \in DOMAIN databases : \A n \in DOMAIN databases[id].collections :
    LET collection == databases[id].collections[n] IN
    \A i \in DOMAIN collection.indexes :
      LET ids == collection.indexes[i].ids IN
      /\ ids \subseteq collection.rows
      /\ \A listed \in ids, row \in collection.rows \ ids : listed < row

(* A statement that fails takes nothing away: it leaves the catalog as it  *)
(* was, unless a new database got the id 0, and every database with its    *)
(* collections, rows and indexes.  What it may leave behind is a           *)
(* collection that has no entry, an index that has none, or a used id.     *)
Keeps(old, new) ==
  /\ old.schema = new.schema /\ old.rows = new.rows
  /\ DOMAIN old.indexes \subseteq DOMAIN new.indexes
  /\ \A i \in DOMAIN old.indexes : old.indexes[i] = new.indexes[i]

FailuresTakeNothing ==
  [][ answer'.status \in {"failure", "throw"} =>
        /\ current' = current
        /\ catalog' = catalog \/ (answer'.op = "create_database" /\ NoDatabase \in DOMAIN databases')
        /\ DOMAIN databases \subseteq DOMAIN databases'
        /\ \A id \in DOMAIN databases : \A n \in DOMAIN databases[id].collections :
             /\ n \in DOMAIN databases'[id].collections
             /\ Keeps(databases[id].collections[n], databases'[id].collections[n]) ]_vars

(* The fields of the entries are as the executor needs them, and the names *)
(* of databases and collections lead to the entries that have them.        *)
Filled ==
  /\ {catalog.entries[d].id : d \in DOMAIN catalog.entries} = DOMAIN databases
  /\ Cardinality(DOMAIN databases) = Len(catalog.entries)
  /\ Placed(catalog)
  /\ \A d \in DOMAIN catalog.entries :
       LET entry == catalog.entries[d] IN
       /\ entry.own = entry.name /\ databases[entry.id].name = entry.name
       /\ Placed(entry.collections)
       /\ \A c \in DOMAIN entry.collections.entries :
            entry.collections.entries[c].own = entry.collections.entries[c].name

ColumnsPlaced ==
  \A d \in DOMAIN catalog.entries :
    \A c \in DOMAIN catalog.entries[d].collections.entries :
      Placed(catalog.entries[d].collections.entries[c].columns)

Sound == Filled /\ ColumnsPlaced

(* The catalog says of the collections what they are.                      *)
SaysWhatIs(entry, collection) ==
  /\ entry.columns.entries = Columns(collection.schema).entries
  /\ entry.index_entries = [i \in DOMAIN collection.indexes |-> collection.indexes[i].fields]

Agree ==
  \A d \in DOMAIN catalog.entries :
    LET listed == catalog.entries[d].collections
        held == databases[catalog.entries[d].id].collections
    IN
    /\ NamesOf(listed) = DOMAIN held
    /\ \A c \in DOMAIN listed.entries : SaysWhatIs(listed.entries[c], held[listed.entries[c].name])

(* The catalog and the collections are changed by separate calls.  As long *)
(* as the fields are filled and names lead to their entries, no statement  *)
(* makes the two disagree but ALTER, which changes the catalog only, and a *)
(* CREATE that an exception ends.                                          *)
Alters == {"alter_add", "alter_drop", "alter_modify", "alter_rename"}

OnlyAlterDiverges ==
  [][ answer'.op \notin Alters /\ answer'.status # "throw" /\ Sound /\ Agree /\ Sound'
        => Agree' ]_vars

(* A name that a statement uses for a column leads to the field of that    *)
(* name in the rows, or to one that they do not have.                      *)
KeepsField(entry, collection) ==
  \A n \in DOMAIN entry.columns.positions :
    Found(entry.columns, n) =>
      LET f == Get(entry.columns, n).index + 1 IN
      f \in DOMAIN collection.schema => collection.schema[f].name = n

FieldsKept ==
  \A d \in DOMAIN catalog.entries :
    LET listed == catalog.entries[d].collections.entries
        held == databases[catalog.entries[d].id].collections
    IN
    \A c \in DOMAIN listed : listed[c].name \in DOMAIN held =>
      KeepsField(listed[c], held[listed[c].name])

(* After a rename, which leaves the map as it is, ADD COLUMN may give the  *)
(* new name once more; then it leads to the added column.                  *)
Shadowed(columns) ==
  \E i \in DOMAIN columns.entries :
    LET name == columns.entries[i].name IN
    Has(columns, name) /\ columns.positions[name] # i

NoneShadowed ==
  \A d \in DOMAIN catalog.entries :
    \A c \in DOMAIN catalog.entries[d].collections.entries :
      ~Shadowed(catalog.entries[d].collections.entries[c].columns)

(* The index that an entry stores is its own place.                        *)
ColumnsAt(d, c) == catalog.entries[d].collections.entries[c].columns.entries

IndexesPlaced ==
  \A d \in DOMAIN catalog.entries :
    \A c \in DOMAIN catalog.entries[d].collections.entries :
      \A i \in DOMAIN ColumnsAt(d, c) : ColumnsAt(d, c)[i].index = i - 1

(* DROP COLUMN moves the later columns away from where their names lead,   *)
(* and ADD COLUMN after it gives the index of a field that is still there. *)
HeldAt(d, c) ==
  databases[catalog.entries[d].id].collections[catalog.entries[d].collections.entries[c].name]

SomeCollection(P(_, _)) ==
  \E d \in DOMAIN catalog.entries :
    \E c \in DOMAIN catalog.entries[d].collections.entries : P(d, c)

DropsEarly ==
  /\ answer'.op = "alter_drop"
  /\ SomeCollection(LAMBDA d, c :
       \E i \in DOMAIN ColumnsAt(d, c)' : ColumnsAt(d, c)'[i] # ColumnsAt(d, c)[i])
AddsAfterDrop ==
  /\ answer'.op = "alter_add"
  /\ SomeCollection(LAMBDA d, c :
       /\ ColumnsAt(d, c)' # ColumnsAt(d, c)
       /\ Len(ColumnsAt(d, c)) < Len(HeldAt(d, c).schema))

(* ALTER leaves the rows alone, and still every column that can be named   *)
(* is read from and written to its own field, whatever was renamed or      *)
(* modified, until a column in front of others is dropped, or one is added *)
(* where one was dropped.  Nothing else moves an entry from its index.     *)
OnlyDropsMoveFields ==
  [][ answer'.status = "ok" /\ Filled /\ Filled' /\ ~DropsEarly /\ ~AddsAfterDrop
        /\ FieldsKept /\ IndexesPlaced /\ NoneShadowed
        => FieldsKept' /\ IndexesPlaced' ]_vars
=============================================================================
