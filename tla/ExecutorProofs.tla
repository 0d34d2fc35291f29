--------------------------- MODULE ExecutorProofs ---------------------------
(***************************************************************************)
(* What Executor says of the databases, for all catalogs, whatever their   *)
(* entries say and wherever their positions lead, and without bounds.      *)
(*                                                                         *)
(* For what is said of the databases, nothing is assumed of the catalog:   *)
(* each statement is sorted by its effect on the databases (Effect), and   *)
(* the invariant and the action property are proved of the effects.        *)
(*                                                                         *)
(* The types come after that.  The lookups by name and by id must be shown *)
(* to lead to entries that are there (LocatedPlaces), also where the       *)
(* positions are stale, and each statement to write values of the types.   *)
(*                                                                         *)
(* With the types, and where the entries are filled in and names lead to   *)
(* them, it is shown last which statements can make the catalog and the    *)
(* collections disagree (AgreesOn, of one database at a time), and which   *)
(* make the name of a column lead to the field of another (Fits, of one    *)
(* collection at a time).                                                  *)
(***************************************************************************)
EXTENDS Executor, FiniteSetTheorems, TLAPS

(* The ids of rows grow, and what an index lists are the oldest rows.      *)
Oldest(ids, rows) ==
  ids \subseteq rows /\ \A listed \in ids, row \in rows \ ids : listed < row

IsStored(c) ==
  /\ c = [schema |-> c.schema, rows |-> c.rows, next_id |-> c.next_id, indexes |-> c.indexes]
  /\ c.next_id \in Nat
  /\ \A row \in c.rows : row \in Nat /\ row < c.next_id
  /\ \A i \in DOMAIN c.indexes : Oldest(c.indexes[i].ids, c.rows)

IsHeld(db) ==
  /\ db = [name |-> db.name, collections |-> db.collections]
  /\ \A n \in DOMAIN db.collections : IsStored(db.collections[n])

(* The inductive invariant.                                                *)
IInv == \A id \in DOMAIN databases : IsHeld(databases[id])

-----------------------------------------------------------------------------
(* The effects of statements on the databases.                             *)

Failed == answer'.status \in {"failure", "throw"}

NewDatabase ==
  \E id, name : id \notin DOMAIN databases /\ databases' = Put(databases, id, Database(name))
LostDatabase == \E id : databases' = Drop(databases, id)

NewObject ==
  \E name, schema :
    /\ HasCurrent /\ name \notin DOMAIN Current.collections
    /\ databases' = [databases EXCEPT
                       ![current].collections = Put(@, name, NewCollection(schema))]
LostObject ==
  \E name : HasCurrent /\ databases' = [databases EXCEPT ![current].collections = Drop(@, name)]

(* A collection of the current database turns into another.                *)
Object(name) == Current.collections[name]
Turned(name, c) ==
  /\ HasCurrent /\ name \in DOMAIN Current.collections
  /\ databases' = [databases EXCEPT ![current].collections[name] = c]

IndexAdded ==
  \E name, i, fields, ids :
    /\ i \notin DOMAIN Object(name).indexes /\ ids \in {Object(name).rows, {}}
    /\ Turned(name, Indexed(Object(name), i, fields, ids))
IndexLost ==
  \E name, i : Turned(name, [Object(name) EXCEPT !.indexes = Drop(@, i)])
RowCounted(accepted) == \E name : Turned(name, Stored(Object(name), accepted))

Effect ==
  \/ UNCHANGED databases
  \/ NewDatabase
  \/ NewObject
  \/ IndexAdded
  \/ RowCounted(FALSE)
  \/ ~Failed /\ (LostDatabase \/ LostObject \/ IndexLost \/ RowCounted(TRUE))

(* What a failure leaves of the catalog and of the current database.       *)
Quiet ==
  Failed =>
    /\ current' = current
    /\ catalog' = catalog \/ (answer'.op = "create_database" /\ NoDatabase \in DOMAIN databases')

LEMMA EndedStatus ==
  ASSUME NEW op, NEW status, Ended(op, status)
  PROVE  answer'.op = op /\ answer'.status = status
BY DEF Ended

LEMMA OkSucceeds == ASSUME NEW op, Ended(op, "ok") PROVE ~Failed /\ Quiet
BY DEF Ended, Failed, Quiet

LEMMA OnlySorted == ASSUME NEW op, NEW status, Only(op, status) PROVE Effect /\ Quiet
BY DEF Only, state, Effect, Quiet

LEMMA SkipSorted == ASSUME NEW op, Skip(op) PROVE Effect /\ Quiet
BY OnlySorted DEF Skip

LEMMA SearchSorted ==
  ASSUME NEW op, NEW id, NotFound(op, id) \/ NotFoundSkip(op, id)
  PROVE  Effect /\ Quiet
BY OnlySorted, SkipSorted DEF NotFound, NotFoundSkip

LEMMA AbsentSorted == ASSUME NEW op, NEW p, Absent(op, p) PROVE Effect /\ Quiet
BY OnlySorted DEF Absent

LEMMA CrashSorted == ASSUME NEW op, Crash(op) PROVE Effect /\ Quiet
BY OnlySorted DEF Crash

LEMMA WithObjectTurns ==
  ASSUME NEW p, NEW c, InDatabase(p), databases' = WithObject(p, c)
  PROVE  Turned(Own(p), c) /\ CollectionAt(p) = Object(Own(p))
BY DEF InDatabase, WithObject, Turned, CollectionAt, Object

LEMMA UseSorted == ASSUME NEW id, Use(id) PROVE Effect /\ Quiet
BY OkSucceeds DEF Use, Effect

LEMMA CreateDatabaseSorted ==
  ASSUME NEW name, CreateDatabase(name)
  PROVE  Effect /\ Quiet
<1>1. CASE Has(catalog, name)
  BY <1>1, SkipSorted DEF CreateDatabase
<1>2. CASE ~Has(catalog, name)
  <2>1. PICK id \in DatabaseIds, own \in {UnsetName, name} :
          /\ databases' = IF id \in DOMAIN databases THEN databases
                          ELSE Put(databases, id, Database(name))
          /\ current' = IF current = NoDatabase THEN id ELSE current
          /\ Ended("create_database", IF id = NoDatabase THEN "failure" ELSE "ok")
    BY <1>2 DEF CreateDatabase
  <2>2. Effect
    BY <2>1 DEF Effect, NewDatabase
  <2>3. id \in DOMAIN databases'
    BY <2>1 DEF Put
  <2>4. CASE id = NoDatabase
    <3>1. answer'.op = "create_database"
      BY <2>1, EndedStatus
    <3> QED
      BY <2>1, <2>2, <2>3, <2>4, <3>1 DEF Quiet
  <2>5. CASE id # NoDatabase
    BY <2>1, <2>2, <2>5, OkSucceeds
  <2> QED
    BY <2>4, <2>5
<1> QED
  BY <1>1, <1>2

LEMMA DropDatabaseSorted ==
  ASSUME NEW id, DropDatabase(id)
  PROVE  Effect /\ Quiet
<1>1. CASE databases' = Drop(databases, id) /\ Ended("drop_database", "ok")
  BY <1>1, OkSucceeds DEF Effect, LostDatabase
<1>2. CASE Skip("drop_database")
  BY <1>2, SkipSorted
<1>3. CASE Crash("drop_database")
  BY <1>3, CrashSorted
<1> QED
  BY <1>1, <1>2, <1>3 DEF DropDatabase

LEMMA CreateCollectionSorted ==
  ASSUME NEW name, NEW schema, CreateCollection(name, schema)
  PROVE  Effect /\ Quiet
<1>1. CASE Only("create_collection", "failure")
  BY <1>1, OnlySorted
<1>2. CASE Skip("create_collection")
  BY <1>2, SkipSorted
<1>3. CASE /\ HasCurrent /\ name \notin DOMAIN Current.collections
           /\ databases' = [databases EXCEPT
                              ![current].collections = Put(@, name, NewCollection(schema))]
           /\ UNCHANGED current
           /\ UNCHANGED catalog \/ Ended("create_collection", "ok")
  <2>1. Effect
    BY <1>3 DEF Effect, NewObject
  <2>2. Quiet
    BY <1>3, OkSucceeds DEF Quiet
  <2> QED
    BY <2>1, <2>2
<1> QED
  BY <1>1, <1>2, <1>3 DEF CreateCollection

LEMMA DropCollectionSorted ==
  ASSUME NEW id, DropCollection(id)
  PROVE  Effect /\ Quiet
<1>1. CASE NotFoundSkip("drop_collection", id)
  BY <1>1, SearchSorted
<1>2. ASSUME NEW p, Absent("drop_collection", p) PROVE Effect /\ Quiet
  BY <1>2, AbsentSorted
<1>3. CASE Crash("drop_collection")
  BY <1>3, CrashSorted
<1>4. ASSUME NEW p, InDatabase(p), Ended("drop_collection", "ok"),
             databases' = [databases EXCEPT ![current].collections = Drop(@, Own(p))]
      PROVE  Effect /\ Quiet
  <2>1. LostObject
    BY <1>4 DEF LostObject, InDatabase
  <2> QED
    BY <1>4, <2>1, OkSucceeds DEF Effect
<1> QED
  BY <1>1, <1>2, <1>3, <1>4 DEF DropCollection

LEMMA AlterSorted ==
  ASSUME NEW op, NEW p, NEW column_id, NEW columns, AlterAt(op, p, column_id, columns)
  PROVE  Effect /\ Quiet
<1>1. CASE Only(op, "failure")
  BY <1>1, OnlySorted
<1>2. CASE Absent(op, p)
  BY <1>2, AbsentSorted
<1>3. CASE Crash(op)
  BY <1>3, CrashSorted
<1>4. CASE UNCHANGED <<databases, current>> /\ Ended(op, "ok")
  BY <1>4, OkSucceeds DEF Effect
<1> QED
  BY <1>1, <1>2, <1>3, <1>4 DEF AlterAt

LEMMA OnColumnsSorted ==
  ASSUME NEW id, OnColumns(id)
  PROVE  Effect /\ Quiet
<1>1. ASSUME NEW name, AlterDropColumn(id, name) PROVE Effect /\ Quiet
  BY <1>1, SearchSorted, AlterSorted DEF AlterDropColumn
<1>2. ASSUME NEW name, NEW type, AlterModifyColumn(id, name, type) PROVE Effect /\ Quiet
  BY <1>2, SearchSorted, AlterSorted DEF AlterModifyColumn
<1>3. ASSUME NEW name, NEW new_name, AlterRenameColumn(id, name, new_name) PROVE Effect /\ Quiet
  BY <1>3, SearchSorted, AlterSorted, OnlySorted DEF AlterRenameColumn
<1>4. ASSUME NEW name, NEW type, AlterAddColumn(id, name, type) PROVE Effect /\ Quiet
  <2>1. ASSUME NEW p, Absent("alter_add", p) PROVE Effect /\ Quiet
    BY <2>1, AbsentSorted
  <2>2. CASE Only("alter_add", "failure")
    BY <2>2, OnlySorted
  <2>3. CASE UNCHANGED <<databases, current>> /\ Ended("alter_add", "ok")
    BY <2>3, OkSucceeds DEF Effect
  <2>4. CASE NotFound("alter_add", id)
    BY <2>4, SearchSorted
  <2> QED
    BY <1>4, <2>1, <2>2, <2>3, <2>4 DEF AlterAddColumn
<1> QED
  BY <1>1, <1>2, <1>3, <1>4 DEF OnColumns

LEMMA CreateIndexSorted ==
  ASSUME NEW id, NEW name, NEW names, CreateIndex(id, name, names)
  PROVE  Effect /\ Quiet
<1>1. CASE NotFound("create_index", id)
  BY <1>1, SearchSorted
<1>2. CASE Skip("create_index")
  BY <1>2, SkipSorted
<1>3. CASE Only("create_index", "failure")
  BY <1>3, OnlySorted
<1>4. ASSUME NEW p, Absent("create_index", p) PROVE Effect /\ Quiet
  BY <1>4, AbsentSorted
<1>5. ASSUME NEW p, NEW fields, NEW ids \in {CollectionAt(p).rows, {}}, InDatabase(p),
             name \notin DOMAIN CollectionAt(p).indexes,
             databases' = WithObject(p, Indexed(CollectionAt(p), name, fields, ids)),
             UNCHANGED current,
             UNCHANGED catalog \/ Ended("create_index", "ok")
      PROVE  Effect /\ Quiet
  <2>1. /\ Turned(Own(p), Indexed(CollectionAt(p), name, fields, ids))
        /\ CollectionAt(p) = Object(Own(p))
    BY <1>5, WithObjectTurns
  <2>2. IndexAdded
    BY <1>5, <2>1 DEF IndexAdded
  <2>3. Quiet
    BY <1>5, OkSucceeds DEF Quiet
  <2> QED
    BY <2>2, <2>3 DEF Effect
<1> QED
  <2>1. CASE NotFound("create_index", id)
    BY <1>1, <2>1
  <2>2. CASE ~NotFound("create_index", id)
    <3>1. PICK p \in Located(id) :
            LET fields == Bound(p, names) IN
            \/ Skip("create_index")
            \/ Absent("create_index", p)
            \/ Only("create_index", "failure")
            \/ /\ InDatabase(p) /\ name \notin DOMAIN CollectionAt(p).indexes
               /\ databases' = WithObject(p,
                    Indexed(CollectionAt(p), name, fields, CollectionAt(p).rows))
               /\ UNCHANGED current /\ Ended("create_index", "ok")
            \/ /\ InDatabase(p) /\ name \notin DOMAIN CollectionAt(p).indexes
               /\ databases' = WithObject(p, Indexed(CollectionAt(p), name, fields, {}))
               /\ UNCHANGED <<catalog, current>>
      BY <2>2 DEF CreateIndex
    <3> QED
      BY <1>2, <1>3, <1>4, <1>5, <3>1
  <2> QED
    BY <2>1, <2>2

LEMMA DropIndexSorted ==
  ASSUME NEW id, NEW name, DropIndex(id, name)
  PROVE  Effect /\ Quiet
<1>1. CASE NotFoundSkip("drop_index", id)
  BY <1>1, SearchSorted
<1>2. CASE Skip("drop_index")
  BY <1>2, SkipSorted
<1>3. CASE Only("drop_index", "failure")
  BY <1>3, OnlySorted
<1>4. ASSUME NEW p, Absent("drop_index", p) PROVE Effect /\ Quiet
  BY <1>4, AbsentSorted
<1>5. ASSUME NEW p, InDatabase(p), Dropped(p, name), Ended("drop_index", "ok")
      PROVE  Effect /\ Quiet
  <2>1. databases' = WithObject(p, [CollectionAt(p) EXCEPT !.indexes = Drop(@, name)])
    BY <1>5 DEF Dropped
  <2>2. /\ Turned(Own(p), [CollectionAt(p) EXCEPT !.indexes = Drop(@, name)])
        /\ CollectionAt(p) = Object(Own(p))
    BY <1>5, <2>1, WithObjectTurns
  <2>3. IndexLost
    BY <2>2 DEF IndexLost
  <2> QED
    BY <1>5, <2>3, OkSucceeds DEF Effect
<1> QED
  BY <1>1, <1>2, <1>3, <1>4, <1>5 DEF DropIndex

LEMMA VIndexesSorted ==
  ASSUME NEW id, NEW name, NEW column,
         CreateVIndex(id, name, column) \/ DropVIndex(id, name)
  PROVE  Effect /\ Quiet
<1>1. ASSUME NEW op, UNCHANGED <<databases, current>>, Ended(op, "ok") PROVE Effect /\ Quiet
  BY <1>1, OkSucceeds DEF Effect
<1>2. CASE CreateVIndex(id, name, column)
  BY <1>1, <1>2, SearchSorted, SkipSorted, OnlySorted DEF CreateVIndex
<1>3. CASE DropVIndex(id, name)
  BY <1>1, <1>3, SearchSorted, SkipSorted DEF DropVIndex
<1> QED
  BY <1>2, <1>3

LEMMA InsertSorted ==
  ASSUME NEW id, NEW names, Insert(id, names)
  PROVE  Effect /\ Quiet
<1>1. CASE NotFound("insert", id)
  BY <1>1, SearchSorted
<1>2. CASE ~NotFound("insert", id)
  <2>1. PICK p \in Located(id) :
          \/ Absent("insert", p)
          \/ \E accepted \in BOOLEAN :
               /\ InDatabase(p)
               /\ databases' = WithObject(p, Stored(CollectionAt(p), accepted))
               /\ UNCHANGED <<catalog, current>>
               /\ Ended("insert", IF accepted THEN "ok" ELSE "failure")
    BY <1>2 DEF Insert, Accepts
  <2>2. CASE Absent("insert", p)
    BY <2>2, AbsentSorted
  <2>3. ASSUME NEW accepted \in BOOLEAN, InDatabase(p),
               databases' = WithObject(p, Stored(CollectionAt(p), accepted)),
               UNCHANGED <<catalog, current>>,
               Ended("insert", IF accepted THEN "ok" ELSE "failure")
        PROVE  Effect /\ Quiet
    <3>1. Turned(Own(p), Stored(Object(Own(p)), accepted))
      BY <2>3, WithObjectTurns
    <3>2. RowCounted(accepted)
      BY <3>1 DEF RowCounted
    <3>3. CASE accepted = TRUE
      BY <2>3, <3>2, <3>3, OkSucceeds DEF Effect
    <3>4. CASE accepted = FALSE
      BY <2>3, <3>2, <3>4 DEF Effect, Quiet
    <3> QED
      BY <3>3, <3>4
  <2> QED
    BY <2>1, <2>2, <2>3
<1> QED
  BY <1>1, <1>2

LEMMA NextSorted == ASSUME Next PROVE Effect /\ Quiet
<1>1. CASE OnDatabases
  <2>1. ASSUME NEW id, ShowCollections(id) PROVE Effect /\ Quiet
    BY <2>1, OnlySorted DEF ShowCollections
  <2>2. CASE ShowDatabases \/ ShowCurrentCollections
    BY <2>2, OnlySorted DEF ShowDatabases, ShowCurrentCollections
  <2> QED
    BY <1>1, <2>1, <2>2, UseSorted, CreateDatabaseSorted, DropDatabaseSorted,
       CreateCollectionSorted DEF OnDatabases
<1>2. ASSUME NEW id, OnCollection(id) PROVE Effect /\ Quiet
  <2>1. CASE OnIndexes(id)
    BY <2>1, CreateIndexSorted, DropIndexSorted, VIndexesSorted DEF OnIndexes
  <2>2. CASE Describe(id)
    BY <2>2, OnlySorted DEF Describe
  <2> QED
    BY <1>2, <2>1, <2>2, DropCollectionSorted, OnColumnsSorted, InsertSorted DEF OnCollection
<1>3. CASE UpdateOrDelete \/ ShowIndexes
  BY <1>3, OnlySorted DEF UpdateOrDelete, ShowIndexes
<1> QED
  BY <1>1, <1>2, <1>3 DEF Next

-----------------------------------------------------------------------------
(* The invariant.                                                          *)

LEMMA NewCollectionStored == ASSUME NEW schema PROVE IsStored(NewCollection(schema))
<1>1. DOMAIN EmptyMap = {}
  BY DEF EmptyMap
<1> QED
  BY <1>1 DEF NewCollection, IsStored

(* A new index lists all rows or none.                                     *)
LEMMA IndexedStored ==
  ASSUME NEW c, IsStored(c), NEW i, NEW fields, NEW ids \in {c.rows, {}}
  PROVE  IsStored(Indexed(c, i, fields, ids))
<1> DEFINE indexes == Put(c.indexes, i, [fields |-> fields, ids |-> ids])
<1>1. Indexed(c, i, fields, ids) =
        [schema |-> c.schema, rows |-> c.rows, next_id |-> c.next_id, indexes |-> indexes]
  BY DEF IsStored, Indexed
<1>2. ASSUME NEW j \in DOMAIN indexes PROVE Oldest(indexes[j].ids, c.rows)
  <2>1. CASE j = i
    BY <2>1 DEF Put, Oldest
  <2>2. CASE j # i
    <3>1. j \in DOMAIN c.indexes /\ indexes[j] = c.indexes[j]
      BY <2>2 DEF Put
    <3> QED
      BY <3>1 DEF IsStored
  <2> QED
    BY <2>1, <2>2
<1> HIDE DEF indexes
<1> QED
  BY <1>1, <1>2 DEF IsStored

LEMMA UnindexedStored ==
  ASSUME NEW c, IsStored(c), NEW i
  PROVE  IsStored([c EXCEPT !.indexes = Drop(@, i)])
<1> DEFINE indexes == Drop(c.indexes, i)
<1>1. [c EXCEPT !.indexes = Drop(@, i)] =
        [schema |-> c.schema, rows |-> c.rows, next_id |-> c.next_id, indexes |-> indexes]
  BY DEF IsStored
<1>2. \A j \in DOMAIN indexes : j \in DOMAIN c.indexes /\ indexes[j] = c.indexes[j]
  BY DEF Drop
<1> HIDE DEF indexes
<1> QED
  BY <1>1, <1>2 DEF IsStored

(* A new row is younger than all that an index may list.                   *)
LEMMA StoredStored ==
  ASSUME NEW c, IsStored(c), NEW accepted \in BOOLEAN
  PROVE  IsStored(Stored(c, accepted))
<1> DEFINE rows == IF accepted THEN c.rows \cup {c.next_id} ELSE c.rows
<1>1. Stored(c, accepted) =
        [schema |-> c.schema, rows |-> rows, next_id |-> c.next_id + 1, indexes |-> c.indexes]
  <2> DEFINE counted == [c EXCEPT !.next_id = @ + 1]
  <2>1. counted = [schema |-> c.schema, rows |-> c.rows, next_id |-> c.next_id + 1,
                   indexes |-> c.indexes]
    BY DEF IsStored
  <2>2. Stored(c, accepted) = [counted EXCEPT !.rows = rows]
    BY DEF Stored
  <2> HIDE DEF counted, rows
  <2> QED
    BY <2>1, <2>2
<1>2. c.next_id \in Nat /\ \A row \in c.rows : row \in Nat /\ row < c.next_id
  BY DEF IsStored
<1>3. c.next_id + 1 \in Nat /\ \A row \in rows : row \in Nat /\ row < c.next_id + 1
  BY <1>2
<1>4. ASSUME NEW i \in DOMAIN c.indexes PROVE Oldest(c.indexes[i].ids, rows)
  <2>1. Oldest(c.indexes[i].ids, c.rows)
    BY DEF IsStored
  <2> QED
    BY <1>2, <2>1 DEF Oldest
<1> HIDE DEF rows
<1> QED
  BY <1>1, <1>3, <1>4 DEF IsStored

(* What a statement writes to the current database.                        *)
LEMMA CollectionsHeld ==
  ASSUME IInv, HasCurrent, NEW held,
         \A n \in DOMAIN held : IsStored(held[n]),
         databases' = [databases EXCEPT ![current].collections = held]
  PROVE  IInv'
<1>1. IsHeld(databases[current])
  BY DEF IInv, HasCurrent
<1>2. IsHeld([databases[current] EXCEPT !.collections = held])
  BY <1>1 DEF IsHeld
<1>3. databases' = [databases EXCEPT ![current] = [databases[current] EXCEPT !.collections = held]]
  OBVIOUS
<1> QED
  BY <1>2, <1>3 DEF IInv

LEMMA TurnedHeld ==
  ASSUME IInv, NEW name, NEW c, IsStored(c), Turned(name, c)
  PROVE  IInv'
<1> DEFINE held == [Current.collections EXCEPT ![name] = c]
<1>1. databases' = [databases EXCEPT ![current].collections = held] /\ HasCurrent
  BY DEF Turned, Current
<1>2. \A n \in DOMAIN Current.collections : IsStored(Current.collections[n])
  BY <1>1 DEF IInv, IsHeld, HasCurrent, Current
<1>3. \A n \in DOMAIN held : IsStored(held[n])
  BY <1>2
<1> HIDE DEF held
<1> QED
  BY <1>1, <1>3, CollectionsHeld

LEMMA ObjectStored ==
  ASSUME IInv, NEW name, NEW c, Turned(name, c)
  PROVE  IsStored(Object(name))
BY DEF IInv, IsHeld, HasCurrent, Current, Turned, Object

LEMMA EffectHolds == IInv /\ Effect => IInv'
<1> SUFFICES ASSUME IInv, Effect PROVE IInv'
  OBVIOUS
<1>1. CASE UNCHANGED databases
  BY <1>1 DEF IInv
<1>2. CASE NewDatabase
  <2>1. PICK id, name :
          id \notin DOMAIN databases /\ databases' = Put(databases, id, Database(name))
    BY <1>2 DEF NewDatabase
  <2>2. IsHeld(Database(name))
    BY DEF Database, IsHeld, EmptyMap
  <2> QED
    BY <2>1, <2>2 DEF IInv, Put
<1>3. CASE LostDatabase
  BY <1>3 DEF LostDatabase, IInv, Drop
<1>4. CASE NewObject
  <2>1. PICK name, schema :
          /\ HasCurrent
          /\ databases' = [databases EXCEPT
                             ![current].collections = Put(@, name, NewCollection(schema))]
    BY <1>4 DEF NewObject
  <2> DEFINE held == Put(Current.collections, name, NewCollection(schema))
  <2>2. databases' = [databases EXCEPT ![current].collections = held]
    BY <2>1 DEF Current
  <2>3. \A n \in DOMAIN Current.collections : IsStored(Current.collections[n])
    BY <2>1 DEF IInv, IsHeld, HasCurrent, Current
  <2>4. \A n \in DOMAIN held : IsStored(held[n])
    BY <2>3, NewCollectionStored DEF Put
  <2> HIDE DEF held
  <2> QED
    BY <2>1, <2>2, <2>4, CollectionsHeld
<1>5. CASE LostObject
  <2>1. PICK name :
          HasCurrent /\ databases' = [databases EXCEPT ![current].collections = Drop(@, name)]
    BY <1>5 DEF LostObject
  <2> DEFINE held == Drop(Current.collections, name)
  <2>2. databases' = [databases EXCEPT ![current].collections = held]
    BY <2>1 DEF Current
  <2>3. \A n \in DOMAIN Current.collections : IsStored(Current.collections[n])
    BY <2>1 DEF IInv, IsHeld, HasCurrent, Current
  <2>4. \A n \in DOMAIN held : IsStored(held[n])
    BY <2>3 DEF Drop
  <2> HIDE DEF held
  <2> QED
    BY <2>1, <2>2, <2>4, CollectionsHeld
<1>6. CASE IndexAdded
  <2>1. PICK name, i, fields, ids :
          /\ ids \in {Object(name).rows, {}}
          /\ Turned(name, Indexed(Object(name), i, fields, ids))
    BY <1>6 DEF IndexAdded
  <2>2. IsStored(Object(name))
    BY <2>1, ObjectStored
  <2>3. IsStored(Indexed(Object(name), i, fields, ids))
    BY <2>1, <2>2, IndexedStored
  <2> QED
    BY <2>1, <2>3, TurnedHeld
<1>7. CASE IndexLost
  <2>1. PICK name, i : Turned(name, [Object(name) EXCEPT !.indexes = Drop(@, i)])
    BY <1>7 DEF IndexLost
  <2>2. IsStored(Object(name))
    BY <2>1, ObjectStored
  <2>3. IsStored([Object(name) EXCEPT !.indexes = Drop(@, i)])
    BY <2>2, UnindexedStored
  <2> QED
    BY <2>1, <2>3, TurnedHeld
<1>8. ASSUME NEW accepted \in BOOLEAN, RowCounted(accepted) PROVE IInv'
  <2>1. PICK name : Turned(name, Stored(Object(name), accepted))
    BY <1>8 DEF RowCounted
  <2>2. IsStored(Object(name))
    BY <2>1, ObjectStored
  <2>3. IsStored(Stored(Object(name), accepted))
    BY <2>2, StoredStored
  <2> QED
    BY <2>1, <2>3, TurnedHeld
<1> QED
  BY <1>1, <1>2, <1>3, <1>4, <1>5, <1>6, <1>7, <1>8 DEF Effect

LEMMA InvariantHolds == Spec => []IInv
<1>1. Init => IInv
  BY DEF Init, IInv, EmptyMap
<1>2. IInv /\ [Next]_vars => IInv'
  <2>1. CASE Next
    BY <2>1, NextSorted, EffectHolds
  <2>2. CASE UNCHANGED vars
    BY <2>2 DEF vars, IInv
  <2> QED
    BY <2>1, <2>2
<1> QED
  BY <1>1, <1>2, PTL DEF Spec

(* For any number of databases, collections, indexes and rows, whatever    *)
(* the entries of the catalog say: an index lists stored rows only, and    *)
(* none that is younger than a row it misses.  INSERT tells no index of    *)
(* its rows, so an index stays as CREATE INDEX made it.                    *)
THEOREM IndexesAlwaysListOldest == Spec => []IndexesListOldest
<1>1. IInv => IndexesListOldest
  BY DEF IInv, IsHeld, IsStored, Oldest, IndexesListOldest
<1> QED
  BY <1>1, InvariantHolds, PTL

-----------------------------------------------------------------------------
(* Failures.                                                               *)

(* Nothing of what a database held is gone or changed.                     *)
KeptIn(old, new) ==
  \A n \in DOMAIN old : n \in DOMAIN new /\ Keeps(old[n], new[n])

LEMMA KeepsItself == ASSUME NEW c PROVE Keeps(c, c)
BY DEF Keeps

LEMMA CollectionsKept ==
  ASSUME IInv, HasCurrent, NEW held, KeptIn(Current.collections, held),
         databases' = [databases EXCEPT ![current].collections = held]
  PROVE  /\ DOMAIN databases' = DOMAIN databases
         /\ \A id \in DOMAIN databases :
              KeptIn(databases[id].collections, databases'[id].collections)
<1>1. DOMAIN databases' = DOMAIN databases
  OBVIOUS
<1>2. ASSUME NEW id \in DOMAIN databases
      PROVE  KeptIn(databases[id].collections, databases'[id].collections)
  <2>1. CASE id = current
    <3>1. databases'[current] = [databases[current] EXCEPT !.collections = held]
      BY <2>1
    <3>2. databases'[current].collections = held
      BY <2>1, <3>1 DEF IInv, IsHeld
    <3> QED
      BY <2>1, <3>2 DEF Current
  <2>2. CASE id # current
    <3>1. databases'[id] = databases[id]
      BY <2>2
    <3> QED
      BY <3>1, KeepsItself DEF KeptIn
  <2> QED
    BY <2>1, <2>2
<1> QED
  BY <1>1, <1>2

LEMMA TurnedKept ==
  ASSUME IInv, NEW name, NEW c, Turned(name, c), Keeps(Object(name), c)
  PROVE  /\ DOMAIN databases' = DOMAIN databases
         /\ \A id \in DOMAIN databases :
              KeptIn(databases[id].collections, databases'[id].collections)
<1> DEFINE held == [Current.collections EXCEPT ![name] = c]
<1>1. databases' = [databases EXCEPT ![current].collections = held] /\ HasCurrent
  BY DEF Turned, Current
<1>2. KeptIn(Current.collections, held)
  BY KeepsItself DEF KeptIn, Object
<1> HIDE DEF held
<1> QED
  BY <1>1, <1>2, CollectionsKept

LEMMA EffectKeeps ==
  ASSUME IInv, Effect, Failed
  PROVE  /\ DOMAIN databases \subseteq DOMAIN databases'
         /\ \A id \in DOMAIN databases :
              KeptIn(databases[id].collections, databases'[id].collections)
<1>1. CASE UNCHANGED databases
  BY <1>1, KeepsItself DEF KeptIn
<1>2. CASE NewDatabase
  BY <1>2, KeepsItself DEF NewDatabase, Put, KeptIn
<1>3. CASE NewObject
  <2>1. PICK name, schema :
          /\ HasCurrent /\ name \notin DOMAIN Current.collections
          /\ databases' = [databases EXCEPT
                             ![current].collections = Put(@, name, NewCollection(schema))]
    BY <1>3 DEF NewObject
  <2> DEFINE held == Put(Current.collections, name, NewCollection(schema))
  <2>2. databases' = [databases EXCEPT ![current].collections = held]
    BY <2>1 DEF Current
  <2>3. KeptIn(Current.collections, held)
    BY <2>1, KeepsItself DEF KeptIn, Put
  <2> HIDE DEF held
  <2> QED
    BY <2>1, <2>2, <2>3, CollectionsKept
<1>4. CASE IndexAdded
  <2>1. PICK name, i, fields, ids :
          /\ i \notin DOMAIN Object(name).indexes
          /\ Turned(name, Indexed(Object(name), i, fields, ids))
    BY <1>4 DEF IndexAdded
  <2>2. IsStored(Object(name))
    BY <2>1, ObjectStored
  <2>3. Keeps(Object(name), Indexed(Object(name), i, fields, ids))
    <3> DEFINE c == Object(name)
               indexes == Put(c.indexes, i, [fields |-> fields, ids |-> ids])
    <3>1. Indexed(c, i, fields, ids) =
            [schema |-> c.schema, rows |-> c.rows, next_id |-> c.next_id, indexes |-> indexes]
      BY <2>2 DEF IsStored, Indexed
    <3>2. \A j \in DOMAIN c.indexes : j \in DOMAIN indexes /\ indexes[j] = c.indexes[j]
      BY <2>1 DEF Put
    <3> HIDE DEF c, indexes
    <3> QED
      BY <3>1, <3>2 DEF Keeps, c
  <2> QED
    BY <2>1, <2>3, TurnedKept
<1>5. CASE RowCounted(FALSE)
  <2>1. PICK name : Turned(name, Stored(Object(name), FALSE))
    BY <1>5 DEF RowCounted
  <2>2. IsStored(Object(name))
    BY <2>1, ObjectStored
  <2>3. Keeps(Object(name), Stored(Object(name), FALSE))
    BY <2>2 DEF IsStored, Stored, Keeps
  <2> QED
    BY <2>1, <2>3, TurnedKept
<1> QED
  BY <1>1, <1>2, <1>3, <1>4, <1>5 DEF Effect

(* In any state a sequence of statements can reach: one that ends with a   *)
(* failure or an exception leaves the current database and everything that *)
(* the databases held, and but for a database with the id 0 the catalog.   *)
THEOREM FailuresNeverTake == Spec => FailuresTakeNothing
<1>1. ASSUME IInv, [Next]_vars
      PROVE  [ answer'.status \in {"failure", "throw"} =>
                 /\ current' = current
                 /\ \/ catalog' = catalog
                    \/ answer'.op = "create_database" /\ NoDatabase \in DOMAIN databases'
                 /\ DOMAIN databases \subseteq DOMAIN databases'
                 /\ \A id \in DOMAIN databases : \A n \in DOMAIN databases[id].collections :
                      /\ n \in DOMAIN databases'[id].collections
                      /\ Keeps(databases[id].collections[n],
                               databases'[id].collections[n]) ]_vars
  <2>1. CASE UNCHANGED vars
    BY <2>1
  <2>2. CASE Next
    <3>1. Effect /\ Quiet
      BY <2>2, NextSorted
    <3>2. Failed => /\ DOMAIN databases \subseteq DOMAIN databases'
                    /\ \A id \in DOMAIN databases :
                         KeptIn(databases[id].collections, databases'[id].collections)
      BY <1>1, <3>1, EffectKeeps
    <3> QED
      BY <3>1, <3>2 DEF Failed, Quiet, KeptIn
  <2> QED
    BY <1>1, <2>1, <2>2
<1> QED
  BY <1>1, InvariantHolds, PTL DEF Spec, FailuresTakeNothing

-----------------------------------------------------------------------------
(* Types.                                                                  *)

(* Directories and entries of the types that TypeOK says, as lists.        *)
IsList(s) == \E n \in Nat : DOMAIN s = 1..n /\ s = [i \in 1..n |-> s[i]]
Members(s) == {s[i] : i \in DOMAIN s}

IsDir(dir, names) ==
  /\ dir = [entries |-> dir.entries, positions |-> dir.positions]
  /\ IsList(dir.entries) /\ IsMap(dir.positions, names, Nat)

ColumnsOK(columns) ==
  /\ IsDir(columns, ColumnNames)
  /\ Members(columns.entries) \subseteq [name : ColumnNames, type : Types, index : Nat]

EntryFields == {"name", "id", "own", "columns", "index_entries", "field_to_indexes",
                "vindex_entries", "column_to_vindex"}

EntryOK(c) ==
  /\ DOMAIN c = EntryFields
  /\ c.name \in CollectionNames /\ c.id \in CollectionIds /\ c.own \in {UnsetName, c.name}
  /\ ColumnsOK(c.columns)
  /\ IsMap(c.index_entries, IndexNames, Seq(Nat))
  /\ IsMap(c.vindex_entries, IndexNames, Nat)

ListingOK(dir) ==
  /\ IsDir(dir, CollectionNames)
  /\ \A c \in Members(dir.entries) : EntryOK(c)

DatabaseFields == {"name", "id", "own", "collections"}

DatabaseOK(d) ==
  /\ DOMAIN d = DatabaseFields
  /\ d.name \in DatabaseNames /\ d.id \in DatabaseIds /\ d.own \in {UnsetName, d.name}
  /\ ListingOK(d.collections)

CatalogOK(cat) ==
  /\ IsDir(cat, DatabaseNames)
  /\ \A d \in Members(cat.entries) : DatabaseOK(d)

(* A list by its length, and what lists are made into.                     *)
LEMMA ListFacts ==
  ASSUME NEW s, IsList(s)
  PROVE  /\ Len(s) \in Nat /\ DOMAIN s = 1..Len(s) /\ s \in Seq(Members(s))
         /\ s = [i \in 1..Len(s) |-> s[i]]
<1>1. PICK n \in Nat : DOMAIN s = 1..n /\ s = [i \in 1..n |-> s[i]]
  BY DEF IsList
<1>2. s \in [1..n -> Members(s)]
  BY <1>1 DEF Members
<1>3. s \in Seq(Members(s))
  BY <1>2
<1>4. Len(s) \in Nat /\ DOMAIN s = 1..Len(s)
  BY <1>3
<1>5. s = [i \in 1..Len(s) |-> s[i]]
  BY <1>1, <1>4
<1> QED
  BY <1>3, <1>4, <1>5

LEMMA ListIs ==
  ASSUME NEW n \in Nat, NEW s, s = [i \in 1..n |-> s[i]] PROVE IsList(s)
BY DEF IsList

LEMMA EmptyMapIs == ASSUME NEW K, NEW V PROVE IsMap(EmptyMap, K, V)
<1>1. DOMAIN EmptyMap = {} /\ EmptyMap \in [{} -> V]
  BY DEF EmptyMap
<1> QED
  BY <1>1 DEF IsMap

LEMMA PutIs ==
  ASSUME NEW K, NEW V, NEW m, IsMap(m, K, V), NEW k \in K, NEW v \in V
  PROVE  IsMap(Put(m, k, v), K, V)
<1>1. Put(m, k, v) \in [DOMAIN m \cup {k} -> V]
  BY DEF Put, IsMap
<1>2. DOMAIN Put(m, k, v) = DOMAIN m \cup {k}
  BY DEF Put
<1> QED
  BY <1>1, <1>2 DEF IsMap

LEMMA DropIs ==
  ASSUME NEW K, NEW V, NEW m, IsMap(m, K, V), NEW k
  PROVE  IsMap(Drop(m, k), K, V)
<1>1. Drop(m, k) \in [DOMAIN m \ {k} -> V]
  BY DEF Drop, IsMap
<1>2. DOMAIN Drop(m, k) = DOMAIN m \ {k}
  BY DEF Drop
<1> QED
  BY <1>1, <1>2 DEF IsMap

(* What becomes of a directory: it stays one, and lists no entry but those *)
(* it listed and the one it was given.                                     *)
LEMMA EmptyIs == ASSUME NEW names
  PROVE IsDir(EmptyDirectory, names) /\ Members(EmptyDirectory.entries) = {}
<1>1. IsList(<<>>) /\ Members(<<>>) = {}
  <2>1. 0 \in Nat /\ DOMAIN <<>> = 1..0 /\ <<>> = [i \in 1..0 |-> <<>>[i]]
    OBVIOUS
  <2> QED
    BY <2>1 DEF IsList, Members
<1> QED
  BY <1>1, EmptyMapIs DEF EmptyDirectory, IsDir

LEMMA AddedIs ==
  ASSUME NEW names, NEW dir, IsDir(dir, names), NEW entry, entry.name \in names
  PROVE  /\ IsDir(Added(dir, entry), names)
         /\ Members(Added(dir, entry).entries) \subseteq Members(dir.entries) \cup {entry}
<1> DEFINE s == dir.entries
           t == Append(s, entry)
           M == Members(s) \cup {entry}
<1>1. Len(s) \in Nat /\ DOMAIN s = 1..Len(s) /\ s \in Seq(Members(s))
  BY ListFacts DEF IsDir
<1>2. s \in Seq(M) /\ entry \in M
  BY <1>1
<1>3. t \in Seq(M) /\ Len(t) = Len(s) + 1
  <2> HIDE DEF M
  <2> QED
    BY <1>2
<1>4. Len(t) \in Nat /\ t = [i \in 1..Len(t) |-> t[i]] /\ \A i \in DOMAIN t : t[i] \in M
  <2> HIDE DEF M, t
  <2> QED
    BY <1>3
<1>5. IsList(t)
  BY <1>4, ListIs
<1>6. Members(t) \subseteq M
  BY <1>4 DEF Members
<1>7. Len(s) + 1 \in Nat /\ IsMap(dir.positions, names, Nat)
  BY <1>1 DEF IsDir
<1>8. IsMap(Put(dir.positions, entry.name, Len(s) + 1), names, Nat)
  BY <1>7, PutIs
<1> HIDE DEF t, M
<1>9. Added(dir, entry) = [entries |-> t, positions |-> Put(dir.positions, entry.name, Len(s) + 1)]
  BY DEF Added, t
<1> QED
  BY <1>5, <1>6, <1>8, <1>9 DEF IsDir, M

LEMMA RemovedIs ==
  ASSUME NEW names, NEW dir, IsDir(dir, names), NEW name
  PROVE  /\ IsDir(Removed(dir, name), names)
         /\ Members(Removed(dir, name).entries) \subseteq Members(dir.entries)
<1> DEFINE s == dir.entries
           p == dir.positions[name]
           t == Erased(s, p)
<1>1. Len(s) \in Nat /\ DOMAIN s = 1..Len(s)
  BY ListFacts DEF IsDir
<1>2. t = [i \in 1 .. Len(s) - 1 |-> t[i]] /\ DOMAIN t = 1 .. Len(s) - 1
  BY DEF Erased
<1>3. \A i \in 1 .. Len(s) - 1 : t[i] \in Members(s)
  <2>1. \A i \in 1 .. Len(s) - 1 : i \in DOMAIN s /\ i + 1 \in DOMAIN s
    BY <1>1
  <2> QED
    BY <2>1 DEF Erased, Members
<1> HIDE DEF t
<1>4. IsList(t)
  <2>1. CASE Len(s) = 0
    <3>1. 1 .. Len(s) - 1 = 1..0
      BY <2>1
    <3> QED
      BY <1>2, <3>1, ListIs
  <2>2. CASE Len(s) # 0
    <3>1. Len(s) - 1 \in Nat
      BY <1>1, <2>2
    <3> QED
      BY <1>2, <3>1, ListIs
  <2> QED
    BY <2>1, <2>2
<1>5. Members(t) \subseteq Members(s)
  BY <1>2, <1>3 DEF Members
<1>6. Removed(dir, name) = [entries |-> t, positions |-> Drop(dir.positions, name)]
  BY DEF Removed, t
<1>7. IsMap(Drop(dir.positions, name), names, Nat)
  BY DropIs DEF IsDir
<1> QED
  BY <1>4, <1>5, <1>6, <1>7 DEF IsDir

LEMMA ReplacedIs ==
  ASSUME NEW names, NEW dir, IsDir(dir, names), NEW i \in DOMAIN dir.entries, NEW entry
  PROVE  /\ IsDir([dir EXCEPT !.entries[i] = entry], names)
         /\ Members([dir EXCEPT !.entries[i] = entry].entries) \subseteq Members(dir.entries) \cup {entry}
<1> DEFINE s == dir.entries
           t == [s EXCEPT ![i] = entry]
<1>1. Len(s) \in Nat /\ DOMAIN s = 1..Len(s)
  BY ListFacts DEF IsDir
<1>2. DOMAIN t = 1..Len(s) /\ t = [j \in 1..Len(s) |-> t[j]]
  BY <1>1
<1>3. IsList(t)
  BY <1>1, <1>2, ListIs
<1>4. Members(t) \subseteq Members(s) \cup {entry}
  BY <1>2 DEF Members
<1>5. [dir EXCEPT !.entries[i] = entry] = [entries |-> t, positions |-> dir.positions]
  BY DEF IsDir
<1> HIDE DEF t
<1> QED
  BY <1>3, <1>4, <1>5 DEF IsDir

LEMMA ModifiedIs ==
  ASSUME NEW names, NEW dir, IsDir(dir, names), NEW name, NEW entry
  PROVE  /\ IsDir(Modified(dir, name, entry), names)
         /\ Members(Modified(dir, name, entry).entries) \subseteq Members(dir.entries) \cup {entry}
BY ReplacedIs DEF Modified, Found

-----------------------------------------------------------------------------
CollectionFields == {"schema", "rows", "next_id", "indexes"}

IndexOK(x) == x = [fields |-> x.fields, ids |-> x.ids] /\ x.fields \in Seq(Nat)

CollectionOK(c) ==
  /\ DOMAIN c = CollectionFields
  /\ c.schema \in Schemas
  /\ c.next_id \in 1..MaxRowId + 1
  /\ c.rows \subseteq 1 .. c.next_id - 1
  /\ DOMAIN c.indexes \subseteq IndexNames
  /\ \A n \in DOMAIN c.indexes : IndexOK(c.indexes[n])

HeldOK(held) ==
  /\ DOMAIN held \subseteq CollectionNames
  /\ \A n \in DOMAIN held : CollectionOK(held[n])

DatabasesOK(dbs) ==
  /\ DOMAIN dbs \subseteq DatabaseIds
  /\ \A id \in DOMAIN dbs :
       /\ dbs[id] = [name |-> dbs[id].name, collections |-> dbs[id].collections]
       /\ dbs[id].name \in DatabaseNames
       /\ HeldOK(dbs[id].collections)

Statuses == {"ok", "failure", "throw", "crash"}

(* The inductive invariant.                                                *)
TInv ==
  /\ CatalogOK(catalog)
  /\ DatabasesOK(databases)
  /\ current \in DatabaseIds \cup {NoDatabase}
  /\ answer.status \in Statuses
  /\ drops \in 0..MaxDrops

LEMMA TInvTypes == TInv => TypeOK
<1> SUFFICES ASSUME TInv PROVE TypeOK
  OBVIOUS
<1>1. ASSUME NEW names, NEW dir, IsDir(dir, names) PROVE IsDirectory(dir, names)
  <2>1. dir.entries = [i \in 1..Len(dir.entries) |-> dir.entries[i]]
    BY <1>1, ListFacts DEF IsDir
  <2> QED
    BY <1>1, <2>1 DEF IsDir, IsDirectory
<1>2. DOMAIN CollectionEntry(UnsetName, 0, UnsetName) = EntryFields
  BY DEF CollectionEntry, EntryFields
<1>3. DOMAIN DatabaseEntry(UnsetName, 0, UnsetName) = DatabaseFields
  BY DEF DatabaseEntry, DatabaseFields
<1>4. DOMAIN NewCollection(<<>>) = CollectionFields
  BY DEF NewCollection, CollectionFields
<1>5. ASSUME NEW c, EntryOK(c) PROVE IsCollectionEntry(c)
  <2>1. /\ IsDirectory(c.columns, ColumnNames)
        /\ \A i \in DOMAIN c.columns.entries :
             c.columns.entries[i] \in [name : ColumnNames, type : Types, index : Nat]
    BY <1>1, <1>5 DEF EntryOK, ColumnsOK, Members
  <2> QED
    BY <1>2, <1>5, <2>1 DEF EntryOK, IsCollectionEntry
<1>6. ASSUME NEW d, DatabaseOK(d) PROVE IsDatabaseEntry(d)
  <2>1. IsDirectory(d.collections, CollectionNames)
    BY <1>1, <1>6 DEF DatabaseOK, ListingOK
  <2>2. \A c \in DOMAIN d.collections.entries : EntryOK(d.collections.entries[c])
    BY <1>6 DEF DatabaseOK, ListingOK, Members
  <2> QED
    BY <1>3, <1>5, <1>6, <2>1, <2>2 DEF DatabaseOK, IsDatabaseEntry
<1>7. ASSUME NEW c, CollectionOK(c) PROVE IsCollection(c)
  BY <1>4, <1>7 DEF CollectionOK, IsCollection, IndexOK
<1>8. IsDirectory(catalog, DatabaseNames)
  BY <1>1 DEF TInv, CatalogOK
<1>9. \A d \in DOMAIN catalog.entries : IsDatabaseEntry(catalog.entries[d])
  BY <1>6 DEF TInv, CatalogOK, Members
<1>10. /\ DOMAIN databases \subseteq DatabaseIds
       /\ \A id \in DOMAIN databases :
            /\ databases[id] = [name |-> databases[id].name, collections |-> databases[id].collections]
            /\ databases[id].name \in DatabaseNames
            /\ DOMAIN databases[id].collections \subseteq CollectionNames
            /\ \A n \in DOMAIN databases[id].collections : IsCollection(databases[id].collections[n])
  BY <1>7 DEF TInv, DatabasesOK, HeldOK
<1> QED
  BY <1>8, <1>9, <1>10 DEF TInv, TypeOK, Statuses

-----------------------------------------------------------------------------
(* The ways in which the catalog and the databases change.                 *)

Places == {p \in (DOMAIN catalog.entries) \X Nat :
             p[2] \in DOMAIN catalog.entries[p[1]].collections.entries}

LEMMA EntriesOK ==
  ASSUME TInv
  PROVE  /\ IsDir(catalog, DatabaseNames)
         /\ \A d \in DOMAIN catalog.entries :
              /\ DatabaseOK(catalog.entries[d])
              /\ ListingOK(catalog.entries[d].collections)
              /\ \A c \in DOMAIN catalog.entries[d].collections.entries :
                   EntryOK(catalog.entries[d].collections.entries[c])
<1>1. \A d \in DOMAIN catalog.entries : DatabaseOK(catalog.entries[d])
  BY DEF TInv, CatalogOK, Members
<1> QED
  BY <1>1 DEF TInv, CatalogOK, DatabaseOK, ListingOK, Members

LEMMA PlaceEntry ==
  ASSUME TInv, NEW p \in Places
  PROVE  /\ p[1] \in DOMAIN catalog.entries
         /\ ListingOK(Siblings(p)) /\ p[2] \in DOMAIN Siblings(p).entries
         /\ EntryAt(p) = Siblings(p).entries[p[2]] /\ EntryOK(EntryAt(p))
BY EntriesOK DEF Places, Siblings, EntryAt

LEMMA ListedOK ==
  ASSUME TInv, NEW d \in DOMAIN catalog.entries, NEW dir, ListingOK(dir)
  PROVE  CatalogOK([catalog EXCEPT !.entries[d].collections = dir])
<1> DEFINE old == catalog.entries[d]
           new == [old EXCEPT !.collections = dir]
<1>1. IsDir(catalog, DatabaseNames) /\ DatabaseOK(old)
  BY EntriesOK
<1>2. DatabaseOK(new)
  BY <1>1 DEF DatabaseOK, DatabaseFields
<1>3. [catalog EXCEPT !.entries[d].collections = dir] = [catalog EXCEPT !.entries[d] = new]
  OBVIOUS
<1> HIDE DEF new
<1>4. /\ IsDir([catalog EXCEPT !.entries[d] = new], DatabaseNames)
      /\ Members([catalog EXCEPT !.entries[d] = new].entries) \subseteq Members(catalog.entries) \cup {new}
  BY <1>1, ReplacedIs
<1>5. \A e \in Members(catalog.entries) : DatabaseOK(e)
  BY DEF TInv, CatalogOK
<1> QED
  BY <1>2, <1>3, <1>4, <1>5 DEF CatalogOK

LEMMA WithEntryOK ==
  ASSUME TInv, NEW p \in Places, NEW entry, EntryOK(entry)
  PROVE  CatalogOK(WithEntry(p, entry))
<1> DEFINE d == p[1]
           c == p[2]
           old == catalog.entries[d].collections
           dir == [old EXCEPT !.entries[c] = entry]
<1>1. d \in DOMAIN catalog.entries /\ ListingOK(old) /\ c \in DOMAIN old.entries
  BY PlaceEntry DEF Siblings
<1>2. /\ IsDir(dir, CollectionNames)
      /\ Members(dir.entries) \subseteq Members(old.entries) \cup {entry}
  <2>1. IsDir(old, CollectionNames)
    BY <1>1 DEF ListingOK
  <2> HIDE DEF old, c
  <2> QED
    BY <1>1, <2>1, ReplacedIs
<1>3. ListingOK(dir)
  <2> HIDE DEF dir, old
  <2> QED
    BY <1>1, <1>2 DEF ListingOK
<1>4. WithEntry(p, entry) = [catalog EXCEPT !.entries[d].collections = dir]
  BY DEF WithEntry
<1> HIDE DEF dir, d
<1> QED
  BY <1>1, <1>3, <1>4, ListedOK

LEMMA HeldIs ==
  ASSUME TInv, HasCurrent
  PROVE  /\ current \in DOMAIN databases /\ HeldOK(Current.collections)
         /\ Current = [name |-> Current.name, collections |-> Current.collections]
         /\ Current.name \in DatabaseNames
BY DEF TInv, DatabasesOK, HasCurrent, Current

LEMMA DatabasesWith ==
  ASSUME TInv, HasCurrent, NEW held, HeldOK(held)
  PROVE  DatabasesOK([databases EXCEPT ![current].collections = held])
<1> DEFINE new == [Current EXCEPT !.collections = held]
           dbs == [databases EXCEPT ![current].collections = held]
<1>1. /\ current \in DOMAIN databases
      /\ Current = [name |-> Current.name, collections |-> Current.collections]
      /\ Current.name \in DatabaseNames
  BY HeldIs
<1>2. new = [name |-> Current.name, collections |-> held]
  BY <1>1
<1>3. dbs = [databases EXCEPT ![current] = new]
  BY DEF Current
<1> HIDE DEF new
<1>4. dbs = [databases EXCEPT ![current] = new] /\ DOMAIN dbs = DOMAIN databases
  BY <1>3
<1> HIDE DEF dbs
<1>5. DatabasesOK(databases)
  BY DEF TInv
<1>6. \A id \in DOMAIN dbs : dbs[id] = IF id = current THEN new ELSE databases[id]
  BY <1>1, <1>4
<1>7. DatabasesOK(dbs)
  BY <1>1, <1>2, <1>4, <1>5, <1>6 DEF DatabasesOK
<1> QED
  BY <1>7 DEF dbs

LEMMA WithObjectOK ==
  ASSUME TInv, NEW p, InDatabase(p), NEW c, CollectionOK(c)
  PROVE  DatabasesOK(WithObject(p, c)) /\ CollectionOK(CollectionAt(p)) 
<1> DEFINE held == [Current.collections EXCEPT ![Own(p)] = c]
<1>1. HasCurrent /\ HeldOK(Current.collections) /\ Own(p) \in DOMAIN Current.collections
  BY HeldIs DEF InDatabase
<1>2. HeldOK(held)
  BY <1>1 DEF HeldOK
<1>3. WithObject(p, c) = [databases EXCEPT ![current].collections = held]
  BY DEF WithObject, Current
<1> HIDE DEF held
<1>4. CollectionOK(CollectionAt(p))
  BY <1>1 DEF HeldOK, CollectionAt
<1> QED
  BY <1>1, <1>2, <1>3, <1>4, DatabasesWith

-----------------------------------------------------------------------------
(* A nonempty set of naturals has a least element, which Least chooses.    *)
LEMMA LeastIs ==
  ASSUME NEW T \in SUBSET Nat, T # {} PROVE Least(T) \in T
<1> DEFINE Below(x) == T \cap (0..x)
           U == {Below(x) : x \in T}
<1>1. ASSUME NEW x \in T PROVE Below(x) \in FiniteSubsetsOf(T)
  <2>1. IsFiniteSet(0..x)
    BY FS_Interval
  <2>2. IsFiniteSet(Below(x))
    BY <2>1, FS_Intersection
  <2> QED
    BY <2>2 DEF FiniteSubsetsOf
<1>2. U \subseteq FiniteSubsetsOf(T) /\ U # {}
  BY <1>1
<1>3. PICK u \in U : \A v \in U : <<v, u>> \notin StrictSubsetOrdering(T)
  <2> HIDE DEF U
  <2> QED
    BY <1>2, FS_StrictSubsetOrderingWellFounded, WFMin
<1>4. PICK x \in T : u = Below(x)
  OBVIOUS
<1>5. ASSUME NEW y \in T, y < x PROVE FALSE
  <2>1. Below(y) \subseteq u /\ x \in u /\ x \notin Below(y)
    BY <1>4, <1>5
  <2>2. Below(y) \in U
    OBVIOUS
  <2>3. <<Below(y), u>> \in StrictSubsetOrdering(T)
    BY <2>1, <1>4 DEF StrictSubsetOrdering
  <2> QED
    BY <2>2, <2>3, <1>3
<1>6. \A y \in T : x <= y
  BY <1>5
<1> QED
  BY <1>6 DEF Least

(* The lookups by id lead to entries that are there.                       *)
LEMMA LocatedPlaces == ASSUME TInv, NEW id PROVE Located(id) \subseteq Places
<1> SUFFICES ASSUME Located(id) # {} PROVE Located(id) \subseteq Places
  OBVIOUS
<1> DEFINE H == HitDatabases(id)
           i == Least(H)
           J == HitsIn(i, id)
           j == Least(J)
           dir == CollectionsIn(i)
<1>1. H # {} /\ Located(id) = {<<Place(i), dir.positions[dir.entries[j].name]>>}
  BY DEF Located
<1>2. H \in SUBSET Nat
  <2>1. Len(catalog.entries) \in Nat /\ DOMAIN catalog.entries = 1..Len(catalog.entries)
    BY EntriesOK, ListFacts DEF IsDir
  <2> QED
    BY <2>1 DEF HitDatabases
<1>3. i \in H
  <2> HIDE DEF H
  <2> QED
    BY <1>1, <1>2, LeastIs
<1>4. i \in DOMAIN catalog.entries /\ Found(catalog, catalog.entries[i].name) /\ J # {}
  BY <1>3 DEF HitDatabases
<1>5. Place(i) \in DOMAIN catalog.entries
  BY <1>4 DEF Found, Place
<1>6. IsDir(dir, CollectionNames)
  BY <1>5, EntriesOK DEF CollectionsIn, ListingOK
<1>7. Len(dir.entries) \in Nat /\ DOMAIN dir.entries = 1..Len(dir.entries)
  BY <1>6, ListFacts DEF IsDir
<1>8. J \in SUBSET Nat
  BY <1>7 DEF HitsIn
<1>9. j \in J
  <2> HIDE DEF J
  <2> QED
    BY <1>4, <1>8, LeastIs
<1>10. dir.positions[dir.entries[j].name] \in DOMAIN dir.entries
  BY <1>9 DEF HitsIn, Found
<1>11. dir.positions[dir.entries[j].name] \in Nat
  BY <1>7, <1>10
<1>12. dir = catalog.entries[Place(i)].collections
  BY DEF CollectionsIn
<1> HIDE DEF i, j, dir
<1>13. <<Place(i), dir.positions[dir.entries[j].name]>> \in Places
  BY <1>5, <1>10, <1>11, <1>12 DEF Places
<1> QED
  BY <1>1, <1>13

-----------------------------------------------------------------------------
(* The columns and indexes of an entry.                                    *)

ColumnTypes == [name : ColumnNames, type : Types, index : Nat]

LEMMA ColumnIs ==
  ASSUME NEW name \in ColumnNames, NEW type \in Types, NEW index \in Nat
  PROVE  ColumnEntry(name, type, index) \in ColumnTypes
BY DEF ColumnEntry, ColumnTypes

LEMMA ColumnsAre ==
  ASSUME NEW columns
  PROVE  ColumnsOK(columns) <=>
           IsDir(columns, ColumnNames) /\ Members(columns.entries) \subseteq ColumnTypes
BY DEF ColumnsOK, ColumnTypes

LEMMA AddedColumn ==
  ASSUME NEW columns, ColumnsOK(columns), NEW entry \in ColumnTypes
  PROVE  ColumnsOK(Added(columns, entry))
<1>1. entry.name \in ColumnNames
  BY DEF ColumnTypes
<1> QED
  BY <1>1, AddedIs, ColumnsAre, ZenonT(30)

LEMMA RemovedColumn ==
  ASSUME NEW columns, ColumnsOK(columns), NEW name
  PROVE  ColumnsOK(Removed(columns, name))
BY RemovedIs, ColumnsAre

LEMMA ModifiedColumn ==
  ASSUME NEW columns, ColumnsOK(columns), NEW name, NEW entry \in ColumnTypes
  PROVE  ColumnsOK(Modified(columns, name, entry))
BY ModifiedIs, ColumnsAre

LEMMA SchemaColumns == ASSUME NEW schema \in Schemas PROVE ColumnsOK(Columns(schema))
<1> DEFINE entries == [i \in DOMAIN schema |-> ColumnEntry(schema[i].name, schema[i].type, i - 1)]
           N == {schema[i].name : i \in DOMAIN schema}
           positions == [n \in N |-> CHOOSE i \in DOMAIN schema : schema[i].name = n]
<1>1. schema \in Seq([name : ColumnNames, type : Types, nullable : BOOLEAN])
  BY ExecutorAssumption
<1>2. Len(schema) \in Nat /\ DOMAIN schema = 1..Len(schema)
  BY <1>1
<1>3. \A i \in DOMAIN schema : schema[i] \in [name : ColumnNames, type : Types, nullable : BOOLEAN]
  <2> DEFINE T == [name : ColumnNames, type : Types, nullable : BOOLEAN]
  <2>1. schema \in Seq(T)
    BY <1>1
  <2> HIDE DEF T
  <2>2. \A i \in DOMAIN schema : schema[i] \in T
    BY <1>2, <2>1
  <2> QED
    BY <2>2 DEF T
<1>4. \A i \in DOMAIN schema : schema[i].name \in ColumnNames /\ schema[i].type \in Types
  BY <1>3
<1>5. \A i \in DOMAIN schema : i - 1 \in Nat
  BY <1>2
<1>6. \A i \in DOMAIN schema : ColumnEntry(schema[i].name, schema[i].type, i - 1) \in ColumnTypes
  BY <1>4, <1>5, ColumnIs
<1>7. IsList(entries)
  <2>1. entries = [i \in 1..Len(schema) |-> entries[i]]
    BY <1>2
  <2> HIDE DEF entries
  <2> QED
    BY <1>2, <2>1, ListIs
<1>8. Members(entries) \subseteq ColumnTypes
  BY <1>6 DEF Members
<1>9. \A n \in N : positions[n] \in DOMAIN schema
  OBVIOUS
<1>10. IsMap(positions, ColumnNames, Nat)
  <2>1. DOMAIN positions = N /\ N \subseteq ColumnNames
    BY <1>4
  <2>2. \A n \in N : positions[n] \in Nat
    BY <1>2, <1>9
  <2>3. positions = [n \in N |-> positions[n]]
    OBVIOUS
  <2> HIDE DEF positions, N
  <2>4. positions \in [DOMAIN positions -> Nat]
    BY <2>1, <2>2, <2>3
  <2> QED
    BY <2>1, <2>4 DEF IsMap
<1>11. Columns(schema) = [entries |-> entries, positions |-> positions]
  BY DEF Columns
<1> HIDE DEF entries, positions
<1> QED
  BY <1>7, <1>8, <1>10, <1>11, ColumnsAre DEF IsDir

LEMMA NewEntryOK ==
  ASSUME NEW name \in CollectionNames, NEW id \in CollectionIds, NEW own \in {UnsetName, name},
         NEW schema \in Schemas
  PROVE  EntryOK([CollectionEntry(name, id, own) EXCEPT !.columns = Columns(schema)])
<1> DEFINE c == [CollectionEntry(name, id, own) EXCEPT !.columns = Columns(schema)]
<1>1. /\ DOMAIN c = EntryFields
      /\ c.name = name /\ c.id = id /\ c.own = own /\ c.columns = Columns(schema)
      /\ c.index_entries = EmptyMap /\ c.vindex_entries = EmptyMap
  BY DEF CollectionEntry, EntryFields
<1> HIDE DEF c
<1>2. EntryOK(c)
  BY <1>1, SchemaColumns, EmptyMapIs DEF EntryOK
<1> QED
  BY <1>2 DEF c

LEMMA WithColumnsOK ==
  ASSUME NEW c, EntryOK(c), NEW columns, ColumnsOK(columns)
  PROVE  EntryOK([c EXCEPT !.columns = columns])
BY DEF EntryOK, EntryFields

LEMMA WithIndexOK ==
  ASSUME NEW c, EntryOK(c), NEW name \in IndexNames, NEW fields \in Seq(Nat)
  PROVE  EntryOK(WithIndex(c, name, fields))
<1> DEFINE w == WithIndex(c, name, fields)
<1>1. /\ DOMAIN w = DOMAIN c
      /\ w.name = c.name /\ w.id = c.id /\ w.own = c.own /\ w.columns = c.columns
      /\ w.index_entries = Put(c.index_entries, name, fields)
      /\ w.vindex_entries = c.vindex_entries
  BY DEF WithIndex, EntryOK, EntryFields
<1> HIDE DEF w
<1>2. EntryOK(w)
  BY <1>1, PutIs DEF EntryOK
<1> QED
  BY <1>2 DEF w

LEMMA WithoutIndexOK ==
  ASSUME NEW c, EntryOK(c), NEW name
  PROVE  EntryOK(WithoutIndex(c, name))
<1> DEFINE w == WithoutIndex(c, name)
<1>1. /\ DOMAIN w = DOMAIN c
      /\ w.name = c.name /\ w.id = c.id /\ w.own = c.own /\ w.columns = c.columns
      /\ w.index_entries = Drop(c.index_entries, name)
      /\ w.vindex_entries = c.vindex_entries
  BY DEF WithoutIndex, EntryOK, EntryFields
<1> HIDE DEF w
<1>2. EntryOK(w)
  BY <1>1, DropIs DEF EntryOK
<1> QED
  BY <1>2 DEF w

LEMMA WithVIndexOK ==
  ASSUME NEW c, EntryOK(c), NEW name \in IndexNames, NEW column \in Nat
  PROVE  EntryOK(WithVIndex(c, name, column))
<1> DEFINE w == WithVIndex(c, name, column)
<1>1. /\ DOMAIN w = DOMAIN c
      /\ w.name = c.name /\ w.id = c.id /\ w.own = c.own /\ w.columns = c.columns
      /\ w.vindex_entries = Put(c.vindex_entries, name, column)
      /\ w.index_entries = c.index_entries
  BY DEF WithVIndex, EntryOK, EntryFields
<1> HIDE DEF w
<1>2. EntryOK(w)
  BY <1>1, PutIs DEF EntryOK
<1> QED
  BY <1>2 DEF w

LEMMA WithoutVIndexOK ==
  ASSUME NEW c, EntryOK(c), NEW name
  PROVE  EntryOK(WithoutVIndex(c, name))
<1> DEFINE w == WithoutVIndex(c, name)
<1>1. /\ DOMAIN w = DOMAIN c
      /\ w.name = c.name /\ w.id = c.id /\ w.own = c.own /\ w.columns = c.columns
      /\ w.vindex_entries = Drop(c.vindex_entries, name)
      /\ w.index_entries = c.index_entries
  BY DEF WithoutVIndex, EntryOK, EntryFields
<1> HIDE DEF w
<1>2. EntryOK(w)
  BY <1>1, DropIs DEF EntryOK
<1> QED
  BY <1>2 DEF w

(* The index that a name is resolved to is that of an entry.               *)
LEMMA ResolvedIs ==
  ASSUME TInv, NEW p \in Places, NEW name, Found(EntryAt(p).columns, name)
  PROVE  Resolved(p, name) \in Nat
<1>1. ColumnsOK(EntryAt(p).columns)
  BY PlaceEntry DEF EntryOK
<1>2. Get(EntryAt(p).columns, name) \in Members(EntryAt(p).columns.entries)
  BY DEF Found, Get, Members
<1> QED
  BY <1>1, <1>2, ColumnsAre DEF Resolved, ColumnTypes

LEMMA AtIs ==
  ASSUME TInv, NEW p \in Places, NEW i, HasColumnAt(p, i)
  PROVE  At(p, i).type \in Types /\ ColumnsOK(EntryAt(p).columns)
<1>1. ColumnsOK(EntryAt(p).columns)
  BY PlaceEntry DEF EntryOK
<1>2. At(p, i) \in Members(EntryAt(p).columns.entries)
  BY DEF HasColumnAt, At, Members
<1> QED
  BY <1>1, <1>2, ColumnsAre DEF ColumnTypes

LEMMA BoundIs ==
  ASSUME TInv, NEW p \in Places, NEW names \in IndexedColumns, Resolves(p, SeqRange(names))
  PROVE  Bound(p, names) \in Seq(Nat)
<1>1. Len(names) \in Nat /\ DOMAIN names = 1..Len(names)
  BY ExecutorAssumption
<1>2. \A i \in DOMAIN names : Found(EntryAt(p).columns, names[i])
  BY DEF Resolves, SeqRange
<1>3. \A i \in DOMAIN names : Resolved(p, names[i]) \in Nat
  BY <1>2, ResolvedIs
<1>4. Bound(p, names) \in [1..Len(names) -> Nat]
  BY <1>1, <1>3 DEF Bound
<1> QED
  BY <1>1, <1>4

-----------------------------------------------------------------------------
(* Collections.                                                            *)

LEMMA NewCollectionOK == ASSUME NEW schema \in Schemas PROVE CollectionOK(NewCollection(schema))
<1>1. DOMAIN EmptyMap = {}
  BY DEF EmptyMap
<1>2. 1 \in 1..MaxRowId + 1 /\ {} \subseteq 1 .. 1 - 1
  BY ExecutorAssumption
<1> QED
  BY <1>1, <1>2 DEF NewCollection, CollectionOK, CollectionFields

LEMMA WithIndexesOK ==
  ASSUME NEW c, CollectionOK(c), NEW indexes, DOMAIN indexes \subseteq IndexNames,
         \A n \in DOMAIN indexes : IndexOK(indexes[n])
  PROVE  CollectionOK([c EXCEPT !.indexes = indexes])
<1> DEFINE w == [c EXCEPT !.indexes = indexes]
<1>1. /\ DOMAIN w = DOMAIN c
      /\ w.schema = c.schema /\ w.rows = c.rows /\ w.next_id = c.next_id /\ w.indexes = indexes
  BY DEF CollectionOK, CollectionFields
<1> HIDE DEF w
<1>2. CollectionOK(w)
  BY <1>1 DEF CollectionOK
<1> QED
  BY <1>2 DEF w

LEMMA IndexedOK ==
  ASSUME NEW c, CollectionOK(c), NEW name \in IndexNames, NEW fields \in Seq(Nat), NEW ids
  PROVE  CollectionOK(Indexed(c, name, fields, ids))
<1> DEFINE new == [fields |-> fields, ids |-> ids]
           indexes == Put(c.indexes, name, new)
<1>1. IndexOK(new)
  BY DEF IndexOK
<1> HIDE DEF new
<1>2. DOMAIN indexes = DOMAIN c.indexes \cup {name}
  BY DEF Put
<1>3. \A n \in DOMAIN indexes : indexes[n] = IF n = name THEN new ELSE c.indexes[n]
  BY DEF Put
<1>4. Indexed(c, name, fields, ids) = [c EXCEPT !.indexes = indexes]
  BY DEF Indexed, new
<1> HIDE DEF indexes
<1> QED
  BY <1>1, <1>2, <1>3, <1>4, WithIndexesOK DEF CollectionOK

LEMMA UnindexedOK ==
  ASSUME NEW c, CollectionOK(c), NEW name
  PROVE  CollectionOK([c EXCEPT !.indexes = Drop(@, name)])
<1> DEFINE indexes == Drop(c.indexes, name)
<1>1. \A n \in DOMAIN indexes : n \in DOMAIN c.indexes /\ indexes[n] = c.indexes[n]
  BY DEF Drop
<1>2. [c EXCEPT !.indexes = Drop(@, name)] = [c EXCEPT !.indexes = indexes]
  OBVIOUS
<1> HIDE DEF indexes
<1> QED
  BY <1>1, <1>2, WithIndexesOK DEF CollectionOK

LEMMA StoredOK ==
  ASSUME NEW c, CollectionOK(c), c.next_id <= MaxRowId, NEW accepted \in BOOLEAN
  PROVE  CollectionOK(Stored(c, accepted))
<1> DEFINE w == Stored(c, accepted)
           rows == IF accepted THEN c.rows \cup {c.next_id} ELSE c.rows
<1>1. /\ DOMAIN w = DOMAIN c
      /\ w.schema = c.schema /\ w.rows = rows
      /\ w.next_id = c.next_id + 1 /\ w.indexes = c.indexes
  BY DEF CollectionOK, CollectionFields, Stored
<1>2. c.next_id \in Nat /\ c.next_id >= 1 /\ MaxRowId \in Nat
  BY ExecutorAssumption DEF CollectionOK
<1>3. c.next_id + 1 \in 1..MaxRowId + 1
  BY <1>2
<1>4. rows \subseteq 1 .. (c.next_id + 1) - 1
  <2>1. c.rows \subseteq 1 .. c.next_id - 1
    BY DEF CollectionOK
  <2> QED
    BY <1>2, <2>1
<1> HIDE DEF w, rows
<1>5. CollectionOK(w)
  BY <1>1, <1>3, <1>4 DEF CollectionOK
<1> QED
  BY <1>5 DEF w

-----------------------------------------------------------------------------
(* Statements that end.                                                    *)
LEMMA EndsOK ==
  ASSUME TInv, NEW op, NEW status \in Statuses, Ended(op, status),
         Dropping(op, status) => drops < MaxDrops,
         CatalogOK(catalog'), DatabasesOK(databases'), current' \in DatabaseIds \cup {NoDatabase}
  PROVE  TInv'
<1>1. answer'.status \in Statuses
  BY DEF Ended
<1>2. drops' \in 0..MaxDrops
  BY ExecutorAssumption DEF Ended, TInv
<1> QED
  BY <1>1, <1>2 DEF TInv

LEMMA OnlyOK ==
  ASSUME TInv, NEW op, NEW status \in Statuses, Only(op, status), ~Dropping(op, status)
  PROVE  TInv'
<1>1. CatalogOK(catalog') /\ DatabasesOK(databases') /\ current' \in DatabaseIds \cup {NoDatabase}
  BY DEF Only, state, TInv
<1> QED
  BY <1>1, EndsOK DEF Only

LEMMA FailureOK == ASSUME TInv, NEW op, Only(op, "failure") PROVE TInv'
BY OnlyOK DEF Statuses, Dropping

(* IF EXISTS makes a drop of nothing count as one, within the bound.       *)
LEMMA SkipOK ==
  ASSUME TInv, NEW op, Skip(op), Dropping(op, "ok") => drops < MaxDrops PROVE TInv'
<1>1. PICK lenient \in BOOLEAN : Only(op, IF lenient THEN "ok" ELSE "failure")
  BY DEF Skip
<1>2. CASE Only(op, "failure")
  BY <1>2, FailureOK
<1>3. CASE Only(op, "ok")
  <2>1. CatalogOK(catalog') /\ DatabasesOK(databases') /\ current' \in DatabaseIds \cup {NoDatabase}
    BY <1>3 DEF Only, state, TInv
  <2> QED
    BY <1>3, <2>1, EndsOK DEF Only, Statuses
<1> QED
  BY <1>1, <1>2, <1>3

LEMMA SearchOK ==
  ASSUME TInv, NEW op, NEW id, NotFound(op, id) \/ NotFoundSkip(op, id),
         Dropping(op, "ok") => drops < MaxDrops
  PROVE  TInv'
BY FailureOK, SkipOK DEF NotFound, NotFoundSkip

LEMMA AbsentOK == ASSUME TInv, NEW op, NEW p, Absent(op, p) PROVE TInv'
BY FailureOK DEF Absent

LEMMA CrashOK == ASSUME TInv, NEW op, Crash(op) PROVE TInv'
BY OnlyOK DEF Crash, Statuses, Dropping

(* What succeeds and changes the catalog only.                             *)
LEMMA CatalogOnlyOK ==
  ASSUME TInv, NEW op, Dropping(op, "ok") => drops < MaxDrops, Ended(op, "ok"),
         UNCHANGED <<databases, current>>, CatalogOK(catalog')
  PROVE  TInv'
<1>1. DatabasesOK(databases') /\ current' \in DatabaseIds \cup {NoDatabase}
  BY DEF TInv
<1> QED
  BY <1>1, EndsOK DEF Statuses

-----------------------------------------------------------------------------
(* One lemma per statement.                                                *)

LEMMA UseOK == ASSUME TInv, NEW id \in DatabaseIds, Use(id) PROVE TInv'
<1>1. CatalogOK(catalog') /\ DatabasesOK(databases') /\ current' \in DatabaseIds \cup {NoDatabase}
  BY DEF Use, TInv
<1>2. Ended("use", "ok") /\ ~Dropping("use", "ok")
  BY DEF Use, Dropping
<1> QED
  BY <1>1, <1>2, EndsOK DEF Statuses

LEMMA NewDatabaseOK ==
  ASSUME NEW name \in DatabaseNames, NEW id \in DatabaseIds, NEW own \in {UnsetName, name}
  PROVE  DatabaseOK(DatabaseEntry(name, id, own))
<1>1. ListingOK(EmptyDirectory)
  BY EmptyIs DEF ListingOK
<1> QED
  BY <1>1 DEF DatabaseOK, DatabaseEntry, DatabaseFields

LEMMA CreateDatabaseOK ==
  ASSUME TInv, NEW name \in DatabaseNames, CreateDatabase(name)
  PROVE  TInv'
<1>1. CASE Skip("create_database")
  BY <1>1, SkipOK DEF Dropping
<1>2. CASE ~Skip("create_database")
  <2>1. PICK id \in DatabaseIds, own \in {UnsetName, name} :
          /\ catalog' = Added(catalog, DatabaseEntry(name, id, own))
          /\ databases' = IF id \in DOMAIN databases THEN databases
                          ELSE Put(databases, id, Database(name))
          /\ current' = IF current = NoDatabase THEN id ELSE current
          /\ Ended("create_database", IF id = NoDatabase THEN "failure" ELSE "ok")
    BY <1>2 DEF CreateDatabase
  <2> DEFINE entry == DatabaseEntry(name, id, own)
  <2>2. entry.name = name /\ DatabaseOK(entry)
    BY NewDatabaseOK DEF DatabaseEntry
  <2> HIDE DEF entry
  <2>3. /\ IsDir(Added(catalog, entry), DatabaseNames)
        /\ Members(Added(catalog, entry).entries) \subseteq Members(catalog.entries) \cup {entry}
    BY <2>2, AddedIs DEF TInv, CatalogOK
  <2>4. CatalogOK(Added(catalog, entry))
    BY <2>2, <2>3 DEF TInv, CatalogOK
  <2>5. CatalogOK(catalog')
    BY <2>1, <2>4 DEF entry
  <2>6. DatabasesOK(databases')
    <3>1. DatabasesOK(databases)
      BY DEF TInv
    <3>2. CASE id \in DOMAIN databases
      BY <2>1, <3>1, <3>2
    <3>3. CASE id \notin DOMAIN databases
      <4> DEFINE new == Database(name)
      <4>1. /\ new = [name |-> new.name, collections |-> new.collections]
            /\ new.name \in DatabaseNames
        BY DEF Database
      <4>2. HeldOK(new.collections)
        <5>1. DOMAIN EmptyMap = {}
          BY DEF EmptyMap
        <5> QED
          BY <5>1 DEF HeldOK, Database
      <4> HIDE DEF new
      <4>3. databases' = Put(databases, id, new)
        BY <2>1, <3>3 DEF new
      <4>4. DOMAIN databases' = DOMAIN databases \cup {id}
        BY <4>3 DEF Put
      <4>5. \A x \in DOMAIN databases' : databases'[x] = IF x = id THEN new ELSE databases[x]
        BY <4>3 DEF Put
      <4> QED
        BY <3>1, <4>1, <4>2, <4>4, <4>5 DEF DatabasesOK
    <3> QED
      BY <3>2, <3>3
  <2>7. current' \in DatabaseIds \cup {NoDatabase}
    BY <2>1 DEF TInv
  <2>8. PICK status \in {"failure", "ok"} : Ended("create_database", status)
    BY <2>1
  <2> QED
    BY <2>5, <2>6, <2>7, <2>8, EndsOK DEF Statuses, Dropping
<1> QED
  BY <1>1, <1>2

LEMMA UnlistedOK == ASSUME TInv, NEW id PROVE CatalogOK(Unlisted(id))
<1> DEFINE own == catalog.entries[id + 1].own
<1>1. CatalogOK(catalog)
  BY DEF TInv
<1>2. CatalogOK(Removed(catalog, own))
  <2> HIDE DEF own
  <2>1. IsDir(catalog, DatabaseNames)
    BY <1>1 DEF CatalogOK
  <2>2. /\ IsDir(Removed(catalog, own), DatabaseNames)
        /\ Members(Removed(catalog, own).entries) \subseteq Members(catalog.entries)
    BY <2>1, RemovedIs
  <2> QED
    BY <1>1, <2>2 DEF CatalogOK
<1>3. Unlisted(id) \in {catalog, Removed(catalog, own)}
  BY DEF Unlisted
<1> QED
  BY <1>1, <1>2, <1>3

LEMMA DropDatabaseOK ==
  ASSUME TInv, drops < MaxDrops, NEW id, DropDatabase(id)
  PROVE  TInv'
<1>1. CASE Skip("drop_database")
  BY <1>1, SkipOK
<1>2. CASE /\ catalog' = Unlisted(id)
           /\ databases' = Drop(databases, id)
           /\ current' = IF current = id THEN NoDatabase ELSE current
           /\ Ended("drop_database", "ok")
  <2>1. DatabasesOK(databases')
    <3>1. \A x \in DOMAIN databases' : x \in DOMAIN databases /\ databases'[x] = databases[x]
      BY <1>2 DEF Drop
    <3> QED
      BY <3>1 DEF TInv, DatabasesOK
  <2>2. CatalogOK(catalog') /\ current' \in DatabaseIds \cup {NoDatabase}
    BY <1>2, UnlistedOK DEF TInv
  <2> QED
    BY <1>2, <2>1, <2>2, EndsOK DEF Statuses
<1>3. CASE Crash("drop_database")
  BY <1>3, CrashOK
<1> QED
  BY <1>1, <1>2, <1>3 DEF DropDatabase

LEMMA CreateCollectionOK ==
  ASSUME TInv, NEW name \in CollectionNames, NEW schema \in Schemas, CreateCollection(name, schema)
  PROVE  TInv'
<1>1. CASE Only("create_collection", "failure")
  BY <1>1, FailureOK
<1>2. CASE Skip("create_collection")
  BY <1>2, SkipOK DEF Dropping
<1>3. ASSUME HasCurrent,
             databases' = [databases EXCEPT
                              ![current].collections = Put(@, name, NewCollection(schema))],
             UNCHANGED current,
             CatalogOK(catalog'),
             NEW status \in Statuses, Ended("create_collection", status)
      PROVE  TInv'
  <2> DEFINE new == NewCollection(schema)
             held == Put(Current.collections, name, new)
  <2>1. databases' = [databases EXCEPT ![current].collections = held]
    BY <1>3 DEF Current
  <2>2. CollectionOK(new) /\ HeldOK(Current.collections)
    BY <1>3, HeldIs, NewCollectionOK
  <2> HIDE DEF new
  <2>3. /\ DOMAIN held = DOMAIN Current.collections \cup {name}
        /\ \A n \in DOMAIN held : held[n] = IF n = name THEN new ELSE Current.collections[n]
    BY DEF Put
  <2> HIDE DEF held
  <2>4. HeldOK(held)
    BY <2>2, <2>3 DEF HeldOK
  <2>5. DatabasesOK(databases')
    BY <1>3, <2>1, <2>4, DatabasesWith
  <2>6. current' \in DatabaseIds \cup {NoDatabase} /\ ~Dropping("create_collection", status)
    BY <1>3 DEF TInv, Dropping
  <2> QED
    BY <1>3, <2>5, <2>6, EndsOK
<1>4. CASE /\ HasCurrent
           /\ databases' = [databases EXCEPT
                              ![current].collections = Put(@, name, NewCollection(schema))]
           /\ UNCHANGED current
           /\ UNCHANGED catalog
           /\ \E status \in Statuses : Ended("create_collection", status)
  BY <1>3, <1>4 DEF TInv
<1>5. CASE /\ HasCurrent
           /\ databases' = [databases EXCEPT
                              ![current].collections = Put(@, name, NewCollection(schema))]
           /\ UNCHANGED current
           /\ Found(catalog, Current.name)
           /\ \E id \in CollectionIds, own \in {UnsetName, name} :
                catalog' = [catalog EXCEPT
                  !.entries[catalog.positions[Current.name]].collections =
                    Added(@, [CollectionEntry(name, id, own) EXCEPT !.columns = Columns(schema)])]
           /\ Ended("create_collection", "ok")
  <2> DEFINE d == catalog.positions[Current.name]
  <2>1. PICK id \in CollectionIds, own \in {UnsetName, name} :
          catalog' = [catalog EXCEPT
            !.entries[d].collections =
              Added(@, [CollectionEntry(name, id, own) EXCEPT !.columns = Columns(schema)])]
    BY <1>5
  <2> DEFINE entry == [CollectionEntry(name, id, own) EXCEPT !.columns = Columns(schema)]
             old == catalog.entries[d].collections
             dir == Added(old, entry)
  <2>2. d \in DOMAIN catalog.entries
    BY <1>5 DEF Found
  <2>3. ListingOK(old)
    BY <2>2, EntriesOK
  <2>4. EntryOK(entry) /\ entry.name \in CollectionNames
    BY NewEntryOK DEF CollectionEntry
  <2>5. catalog' = [catalog EXCEPT !.entries[d].collections = dir]
    BY <2>1
  <2> HIDE DEF entry, old
  <2>6. /\ IsDir(dir, CollectionNames)
        /\ Members(dir.entries) \subseteq Members(old.entries) \cup {entry}
    BY <2>3, <2>4, AddedIs DEF ListingOK
  <2> HIDE DEF dir
  <2>7. ListingOK(dir)
    BY <2>3, <2>4, <2>6 DEF ListingOK
  <2> HIDE DEF d
  <2>8. CatalogOK(catalog')
    BY <2>2, <2>5, <2>7, ListedOK
  <2> QED
    BY <1>3, <1>5, <2>8 DEF Statuses
<1> QED
  BY <1>1, <1>2, <1>4, <1>5 DEF CreateCollection, Statuses

LEMMA DropCollectionOK ==
  ASSUME TInv, drops < MaxDrops, NEW id, DropCollection(id)
  PROVE  TInv'
<1>1. CASE NotFoundSkip("drop_collection", id)
  BY <1>1, SearchOK
<1>2. ASSUME NEW p, Absent("drop_collection", p) PROVE TInv'
  BY <1>2, AbsentOK
<1>3. CASE Crash("drop_collection")
  BY <1>3, CrashOK
<1>4. ASSUME NEW p \in Located(id), InDatabase(p),
             databases' = [databases EXCEPT ![current].collections = Drop(@, Own(p))],
             catalog' = IF Has(Siblings(p), Own(p))
                        THEN [catalog EXCEPT !.entries[p[1]].collections = Removed(@, Own(p))]
                        ELSE catalog,
             UNCHANGED current, Ended("drop_collection", "ok")
      PROVE  TInv'
  <2> DEFINE held == Drop(Current.collections, Own(p))
             old == Siblings(p)
             dir == Removed(old, Own(p))
             d == p[1]
  <2>1. p \in Places
    BY <1>4, LocatedPlaces
  <2>2. HasCurrent /\ HeldOK(Current.collections)
    BY <1>4, HeldIs DEF InDatabase
  <2>3. \A n \in DOMAIN held : n \in DOMAIN Current.collections /\ held[n] = Current.collections[n]
    BY DEF Drop
  <2>4. databases' = [databases EXCEPT ![current].collections = held]
    BY <1>4 DEF Current
  <2> HIDE DEF held
  <2>5. HeldOK(held)
    BY <2>2, <2>3 DEF HeldOK
  <2>6. DatabasesOK(databases')
    BY <2>2, <2>4, <2>5, DatabasesWith
  <2>7. d \in DOMAIN catalog.entries /\ ListingOK(old)
    BY <2>1, PlaceEntry
  <2>8. catalog' = catalog \/ catalog' = [catalog EXCEPT !.entries[d].collections = dir]
    BY <1>4 DEF Siblings
  <2> HIDE DEF old
  <2>9. /\ IsDir(dir, CollectionNames)
        /\ Members(dir.entries) \subseteq Members(old.entries)
    BY <2>7, RemovedIs DEF ListingOK
  <2> HIDE DEF dir, d
  <2>10. ListingOK(dir)
    BY <2>7, <2>9 DEF ListingOK
  <2>11. CatalogOK(catalog')
    <3>1. CASE catalog' = catalog
      BY <3>1 DEF TInv
    <3>2. CASE catalog' = [catalog EXCEPT !.entries[d].collections = dir]
      BY <2>7, <2>10, <3>2, ListedOK
    <3> QED
      BY <2>8, <3>1, <3>2
  <2>12. current' \in DatabaseIds \cup {NoDatabase}
    BY <1>4 DEF TInv
  <2> QED
    BY <1>4, <2>6, <2>11, <2>12, EndsOK DEF Statuses
<1> QED
  BY <1>1, <1>2, <1>3, <1>4 DEF DropCollection

LEMMA ObjectOK == ASSUME TInv, NEW p, InDatabase(p) PROVE CollectionOK(CollectionAt(p))
BY HeldIs DEF InDatabase, HeldOK, CollectionAt

LEMMA WithColumnsStep ==
  ASSUME TInv, NEW p \in Places, NEW columns, ColumnsOK(columns)
  PROVE  CatalogOK(WithColumns(p, columns))
<1> DEFINE entry == [EntryAt(p) EXCEPT !.columns = columns]
<1>1. EntryOK(entry)
  BY PlaceEntry, WithColumnsOK
<1> HIDE DEF entry
<1>2. CatalogOK(WithEntry(p, entry))
  BY <1>1, WithEntryOK
<1> QED
  BY <1>2 DEF WithColumns, entry

LEMMA AlterAddColumnOK ==
  ASSUME TInv, NEW id, NEW name \in ColumnNames, NEW type \in Types, AlterAddColumn(id, name, type)
  PROVE  TInv'
<1>1. CASE NotFound("alter_add", id)
  BY <1>1, SearchOK DEF Dropping
<1>2. ASSUME NEW p, Absent("alter_add", p) PROVE TInv'
  BY <1>2, AbsentOK
<1>3. CASE Only("alter_add", "failure")
  BY <1>3, FailureOK
<1>4. ASSUME NEW p \in Located(id),
             LET columns == EntryAt(p).columns IN
             catalog' = WithColumns(p, Added(columns, ColumnEntry(name, type, Len(columns.entries)))),
             UNCHANGED <<databases, current>>, Ended("alter_add", "ok")
      PROVE  TInv'
  <2> DEFINE columns == EntryAt(p).columns
             count == Len(columns.entries)
  <2>1. p \in Places
    BY LocatedPlaces
  <2>2. ColumnsOK(columns)
    BY <2>1, PlaceEntry DEF EntryOK
  <2>3. count \in Nat
    <3> HIDE DEF columns
    <3> QED
      BY <2>2, ListFacts DEF ColumnsOK, IsDir
  <2>4. catalog' = WithColumns(p, Added(columns, ColumnEntry(name, type, count)))
    BY <1>4
  <2> HIDE DEF columns, count
  <2>5. ColumnsOK(Added(columns, ColumnEntry(name, type, count)))
    BY <2>2, <2>3, ColumnIs, AddedColumn
  <2>6. CatalogOK(catalog')
    BY <2>1, <2>4, <2>5, WithColumnsStep
  <2> QED
    BY <1>4, <2>6, CatalogOnlyOK DEF Dropping
<1> QED
  BY <1>1, <1>2, <1>3, <1>4 DEF AlterAddColumn

LEMMA AlterAtOK ==
  ASSUME TInv, NEW op, NEW p \in Places, NEW column_id, NEW columns,
         HasColumnAt(p, column_id) => ColumnsOK(columns),
         Dropping(op, "ok") => drops < MaxDrops,
         AlterAt(op, p, column_id, columns)
  PROVE  TInv'
<1>1. CASE Only(op, "failure")
  BY <1>1, FailureOK
<1>2. CASE Absent(op, p)
  BY <1>2, AbsentOK
<1>3. CASE Crash(op)
  BY <1>3, CrashOK
<1>4. CASE /\ HasColumnAt(p, column_id)
           /\ catalog' = WithColumns(p, columns)
           /\ UNCHANGED <<databases, current>>
           /\ Ended(op, "ok")
  <2>1. CatalogOK(catalog')
    BY <1>4, WithColumnsStep
  <2> QED
    BY <1>4, <2>1, CatalogOnlyOK
<1> QED
  BY <1>1, <1>2, <1>3, <1>4 DEF AlterAt

LEMMA AlterDropColumnOK ==
  ASSUME TInv, drops < MaxDrops, NEW id, NEW name, AlterDropColumn(id, name)
  PROVE  TInv'
<1>1. CASE NotFound("alter_drop", id)
  BY <1>1, SearchOK
<1>2. ASSUME NEW p \in Located(id), NEW column_id,
             AlterAt("alter_drop", p, column_id,
                     Removed(EntryAt(p).columns, At(p, column_id).name))
      PROVE  TInv'
  <2>1. p \in Places
    BY LocatedPlaces
  <2>2. ColumnsOK(EntryAt(p).columns)
    BY <2>1, PlaceEntry DEF EntryOK
  <2>3. ColumnsOK(Removed(EntryAt(p).columns, At(p, column_id).name))
    BY <2>2, RemovedColumn
  <2> QED
    BY <1>2, <2>1, <2>3, AlterAtOK
<1> QED
  BY <1>1, <1>2 DEF AlterDropColumn

LEMMA RedefinedOK ==
  ASSUME TInv, NEW p \in Places, NEW column_id \in Nat, NEW name \in ColumnNames, NEW type \in Types
  PROVE  ColumnsOK(Redefined(p, column_id, name, type))
<1>1. ColumnsOK(EntryAt(p).columns)
  BY PlaceEntry DEF EntryOK
<1> QED
  BY <1>1, ColumnIs, ModifiedColumn DEF Redefined

LEMMA AlterModifyColumnOK ==
  ASSUME TInv, NEW id, NEW name \in ColumnNames, NEW type \in Types,
         AlterModifyColumn(id, name, type)
  PROVE  TInv'
<1>1. CASE NotFound("alter_modify", id)
  BY <1>1, SearchOK DEF Dropping
<1>2. ASSUME NEW p \in Located(id), Resolves(p, {name}),
             AlterAt("alter_modify", p, Resolved(p, name),
                     Redefined(p, Resolved(p, name), name, type))
      PROVE  TInv'
  <2>1. p \in Places
    BY LocatedPlaces
  <2>2. Resolved(p, name) \in Nat
    BY <1>2, <2>1, ResolvedIs DEF Resolves
  <2>3. ColumnsOK(Redefined(p, Resolved(p, name), name, type))
    BY <2>1, <2>2, RedefinedOK
  <2> QED
    BY <1>2, <2>1, <2>3, AlterAtOK DEF Dropping
<1> QED
  BY <1>1, <1>2 DEF AlterModifyColumn

LEMMA AlterRenameColumnOK ==
  ASSUME TInv, NEW id, NEW name \in ColumnNames, NEW new_name \in ColumnNames,
         AlterRenameColumn(id, name, new_name)
  PROVE  TInv'
<1>1. CASE NotFound("alter_rename", id)
  BY <1>1, SearchOK DEF Dropping
<1>2. CASE Only("alter_rename", "failure")
  BY <1>2, FailureOK
<1>3. ASSUME NEW p \in Located(id), Resolves(p, {name}),
             AlterAt("alter_rename", p, Resolved(p, name),
                     Redefined(p, Resolved(p, name), new_name, At(p, Resolved(p, name)).type))
      PROVE  TInv'
  <2>1. p \in Places
    BY LocatedPlaces
  <2>2. Resolved(p, name) \in Nat
    BY <1>3, <2>1, ResolvedIs DEF Resolves
  <2>3. HasColumnAt(p, Resolved(p, name)) =>
          ColumnsOK(Redefined(p, Resolved(p, name), new_name, At(p, Resolved(p, name)).type))
    BY <2>1, <2>2, AtIs, RedefinedOK
  <2> QED
    BY <1>3, <2>1, <2>3, AlterAtOK DEF Dropping
<1> QED
  BY <1>1, <1>2, <1>3 DEF AlterRenameColumn

-----------------------------------------------------------------------------

LEMMA CreateIndexOK ==
  ASSUME TInv, NEW id, NEW name \in IndexNames, NEW names \in IndexedColumns,
         CreateIndex(id, name, names)
  PROVE  TInv'
<1>1. CASE NotFound("create_index", id)
  BY <1>1, SearchOK DEF Dropping
<1>2. CASE Skip("create_index")
  BY <1>2, SkipOK DEF Dropping
<1>3. CASE Only("create_index", "failure")
  BY <1>3, FailureOK
<1>4. ASSUME NEW p, Absent("create_index", p) PROVE TInv'
  BY <1>4, AbsentOK
<1>5. ASSUME NEW p \in Located(id), Resolves(p, SeqRange(names)), InDatabase(p), NEW ids,
             databases' = WithObject(p, Indexed(CollectionAt(p), name, Bound(p, names), ids)),
             UNCHANGED current,
             \/ UNCHANGED catalog
             \/ catalog' = WithEntry(p, WithIndex(EntryAt(p), name, Bound(p, names))),
             NEW status \in Statuses, Ended("create_index", status)
      PROVE  TInv'
  <2>1. p \in Places
    BY LocatedPlaces
  <2>2. Bound(p, names) \in Seq(Nat)
    BY <1>5, <2>1, BoundIs
  <2>3. CollectionOK(CollectionAt(p))
    BY <1>5, ObjectOK
  <2>4. CollectionOK(Indexed(CollectionAt(p), name, Bound(p, names), ids))
    BY <2>2, <2>3, IndexedOK
  <2>5. DatabasesOK(databases')
    BY <1>5, <2>4, WithObjectOK
  <2>6. EntryOK(WithIndex(EntryAt(p), name, Bound(p, names)))
    BY <2>1, <2>2, PlaceEntry, WithIndexOK
  <2>7. CatalogOK(catalog')
    BY <1>5, <2>1, <2>6, WithEntryOK DEF TInv
  <2>8. current' \in DatabaseIds \cup {NoDatabase} /\ ~Dropping("create_index", status)
    BY <1>5 DEF TInv, Dropping
  <2> QED
    BY <1>5, <2>5, <2>7, <2>8, EndsOK
<1>6. CASE NotFound("create_index", id) \/ Skip("create_index") \/ Only("create_index", "failure")
  BY <1>1, <1>2, <1>3, <1>6
<1>7. ASSUME NEW p \in Located(id),
             LET fields == Bound(p, names)
                 collection == CollectionAt(p)
             IN
             /\ Resolves(p, SeqRange(names))
             /\ \/ Skip("create_index")
                \/ Absent("create_index", p)
                \/ Only("create_index", "failure")
                \/ /\ InDatabase(p)
                   /\ databases' = WithObject(p, Indexed(collection, name, fields, collection.rows))
                   /\ catalog' = WithEntry(p, WithIndex(EntryAt(p), name, fields))
                   /\ UNCHANGED current
                   /\ Ended("create_index", "ok")
                \/ /\ InDatabase(p)
                   /\ databases' = WithObject(p, Indexed(collection, name, fields, {}))
                   /\ UNCHANGED <<catalog, current>>
                   /\ Ended("create_index", "throw")
      PROVE  TInv'
  <2>1. "ok" \in Statuses /\ "throw" \in Statuses
    BY DEF Statuses
  <2>2. CASE Skip("create_index") \/ Absent("create_index", p) \/ Only("create_index", "failure")
    BY <1>2, <1>3, <1>4, <2>2
  <2>3. CASE /\ InDatabase(p)
             /\ databases' = WithObject(p,
                  Indexed(CollectionAt(p), name, Bound(p, names), CollectionAt(p).rows))
             /\ catalog' = WithEntry(p, WithIndex(EntryAt(p), name, Bound(p, names)))
             /\ UNCHANGED current
             /\ Ended("create_index", "ok")
    BY <1>5, <1>7, <2>1, <2>3
  <2>4. CASE /\ InDatabase(p)
             /\ databases' = WithObject(p, Indexed(CollectionAt(p), name, Bound(p, names), {}))
             /\ UNCHANGED <<catalog, current>>
             /\ Ended("create_index", "throw")
    BY <1>5, <1>7, <2>1, <2>4
  <2> QED
    BY <1>7, <2>2, <2>3, <2>4
<1> QED
  BY <1>6, <1>7 DEF CreateIndex

LEMMA DropIndexOK ==
  ASSUME TInv, NEW id, NEW name, DropIndex(id, name)
  PROVE  TInv'
<1>1. CASE NotFoundSkip("drop_index", id)
  BY <1>1, SearchOK DEF Dropping
<1>2. CASE Skip("drop_index")
  BY <1>2, SkipOK DEF Dropping
<1>3. CASE Only("drop_index", "failure")
  BY <1>3, FailureOK
<1>4. ASSUME NEW p, Absent("drop_index", p) PROVE TInv'
  BY <1>4, AbsentOK
<1>5. ASSUME NEW p \in Located(id), InDatabase(p), Dropped(p, name), UNCHANGED current,
             Ended("drop_index", "ok")
      PROVE  TInv'
  <2>1. p \in Places
    BY LocatedPlaces
  <2>2. CollectionOK(CollectionAt(p))
    BY <1>5, ObjectOK
  <2>3. CollectionOK([CollectionAt(p) EXCEPT !.indexes = Drop(@, name)])
    BY <2>2, UnindexedOK
  <2>4. databases' = WithObject(p, [CollectionAt(p) EXCEPT !.indexes = Drop(@, name)])
    BY <1>5 DEF Dropped
  <2>5. DatabasesOK(databases')
    <3> DEFINE c == [CollectionAt(p) EXCEPT !.indexes = Drop(@, name)]
    <3>1. CollectionOK(c) /\ databases' = WithObject(p, c)
      BY <2>3, <2>4
    <3> HIDE DEF c
    <3> QED
      BY <1>5, <3>1, WithObjectOK
  <2>6. EntryOK(WithoutIndex(EntryAt(p), name))
    BY <2>1, PlaceEntry, WithoutIndexOK
  <2>7. CatalogOK(catalog')
    BY <1>5, <2>1, <2>6, WithEntryOK DEF Dropped
  <2>8. current' \in DatabaseIds \cup {NoDatabase}
    BY <1>5 DEF TInv
  <2> QED
    BY <1>5, <2>5, <2>7, <2>8, EndsOK DEF Statuses, Dropping
<1> QED
  BY <1>1, <1>2, <1>3, <1>4, <1>5 DEF DropIndex

LEMMA CreateVIndexOK ==
  ASSUME TInv, NEW id, NEW name \in IndexNames, NEW column, CreateVIndex(id, name, column)
  PROVE  TInv'
<1>1. CASE NotFound("create_vindex", id)
  BY <1>1, SearchOK DEF Dropping
<1>2. CASE Skip("create_vindex")
  BY <1>2, SkipOK DEF Dropping
<1>3. CASE Only("create_vindex", "failure")
  BY <1>3, FailureOK
<1>4. CASE Only("create_vindex", "throw")
  BY <1>4, OnlyOK DEF Statuses, Dropping
<1>5. ASSUME NEW p \in Located(id), Resolves(p, {column}),
             catalog' = WithEntry(p, WithVIndex(EntryAt(p), name, Resolved(p, column))),
             UNCHANGED <<databases, current>>, Ended("create_vindex", "ok")
      PROVE  TInv'
  <2>1. p \in Places
    BY LocatedPlaces
  <2>2. Resolved(p, column) \in Nat
    BY <1>5, <2>1, ResolvedIs DEF Resolves
  <2>3. EntryOK(WithVIndex(EntryAt(p), name, Resolved(p, column)))
    BY <2>1, <2>2, PlaceEntry, WithVIndexOK
  <2>4. CatalogOK(catalog')
    BY <1>5, <2>1, <2>3, WithEntryOK
  <2> QED
    BY <1>5, <2>4, CatalogOnlyOK DEF Dropping
<1> QED
  BY <1>1, <1>2, <1>3, <1>4, <1>5 DEF CreateVIndex

LEMMA DropVIndexOK ==
  ASSUME TInv, NEW id, NEW name, DropVIndex(id, name)
  PROVE  TInv'
<1>1. CASE NotFoundSkip("drop_vindex", id)
  BY <1>1, SearchOK DEF Dropping
<1>2. CASE Skip("drop_vindex")
  BY <1>2, SkipOK DEF Dropping
<1>3. ASSUME NEW p \in Located(id),
             catalog' = WithEntry(p, WithoutVIndex(EntryAt(p), name)),
             UNCHANGED <<databases, current>>, Ended("drop_vindex", "ok")
      PROVE  TInv'
  <2>1. p \in Places
    BY LocatedPlaces
  <2>2. EntryOK(WithoutVIndex(EntryAt(p), name))
    BY <2>1, PlaceEntry, WithoutVIndexOK
  <2>3. CatalogOK(catalog')
    BY <1>3, <2>1, <2>2, WithEntryOK
  <2> QED
    BY <1>3, <2>3, CatalogOnlyOK DEF Dropping
<1> QED
  BY <1>1, <1>2, <1>3 DEF DropVIndex

LEMMA InsertOK ==
  ASSUME TInv, NEW id, NEW names, Insert(id, names)
  PROVE  TInv'
<1>1. CASE NotFound("insert", id)
  BY <1>1, SearchOK DEF Dropping
<1>2. ASSUME NEW p, Absent("insert", p) PROVE TInv'
  BY <1>2, AbsentOK
<1>3. ASSUME NEW p, InDatabase(p), CollectionAt(p).next_id <= MaxRowId,
             NEW accepted \in BOOLEAN,
             databases' = WithObject(p, Stored(CollectionAt(p), accepted)),
             UNCHANGED <<catalog, current>>,
             NEW status \in {"ok", "failure"}, Ended("insert", status)
      PROVE  TInv'
  <2>1. CollectionOK(CollectionAt(p))
    BY <1>3, ObjectOK
  <2>2. CollectionOK(Stored(CollectionAt(p), accepted))
    BY <1>3, <2>1, StoredOK
  <2>3. DatabasesOK(databases')
    BY <1>3, <2>2, WithObjectOK
  <2>4. CatalogOK(catalog') /\ current' \in DatabaseIds \cup {NoDatabase}
    BY <1>3 DEF TInv
  <2> QED
    BY <1>3, <2>3, <2>4, EndsOK DEF Statuses, Dropping
<1>4. CASE ~NotFound("insert", id)
  <2>1. PICK p \in Located(id) :
          \/ Absent("insert", p)
          \/ \E accepted \in BOOLEAN :
               /\ InDatabase(p) /\ CollectionAt(p).next_id <= MaxRowId
               /\ databases' = WithObject(p, Stored(CollectionAt(p), accepted))
               /\ UNCHANGED <<catalog, current>>
               /\ Ended("insert", IF accepted THEN "ok" ELSE "failure")
    BY <1>4 DEF Insert, Accepts
  <2>2. ASSUME NEW accepted \in BOOLEAN,
               InDatabase(p), CollectionAt(p).next_id <= MaxRowId,
               databases' = WithObject(p, Stored(CollectionAt(p), accepted)),
               UNCHANGED <<catalog, current>>,
               Ended("insert", IF accepted THEN "ok" ELSE "failure")
        PROVE  TInv'
    <3>1. PICK status \in {"ok", "failure"} : Ended("insert", status)
      BY <2>2
    <3> QED
      BY <1>3, <2>2, <3>1
  <2> QED
    BY <1>2, <2>1, <2>2
<1> QED
  BY <1>1, <1>4

LEMMA NextOK == ASSUME TInv, Next PROVE TInv'
<1>1. CASE OnDatabases
  <2>1. ASSUME NEW op, NEW status \in {"ok", "failure"}, Only(op, status), ~Dropping(op, "ok")
        PROVE  TInv'
    BY <2>1, OnlyOK DEF Statuses, Dropping
  <2>2. ASSUME NEW id, ShowCollections(id) PROVE TInv'
    BY <2>1, <2>2 DEF ShowCollections, Dropping
  <2>3. CASE ShowDatabases
    BY <2>1, <2>3 DEF ShowDatabases, Dropping
  <2>4. CASE ShowCurrentCollections
    BY <2>1, <2>4 DEF ShowCurrentCollections, Dropping
  <2> QED
    BY <1>1, <2>2, <2>3, <2>4, UseOK, CreateDatabaseOK, DropDatabaseOK, CreateCollectionOK
       DEF OnDatabases
<1>2. ASSUME NEW id, OnCollection(id) PROVE TInv'
  <2>1. CASE OnColumns(id)
    BY <2>1, AlterAddColumnOK, AlterDropColumnOK, AlterModifyColumnOK, AlterRenameColumnOK
       DEF OnColumns
  <2>2. CASE OnIndexes(id)
    BY <2>2, CreateIndexOK, DropIndexOK, CreateVIndexOK, DropVIndexOK DEF OnIndexes
  <2>3. CASE Describe(id)
    BY <2>3, OnlyOK DEF Describe, Statuses, Dropping
  <2> QED
    BY <1>2, <2>1, <2>2, <2>3, DropCollectionOK, InsertOK DEF OnCollection
<1>3. CASE UpdateOrDelete \/ ShowIndexes
  BY <1>3, FailureOK DEF UpdateOrDelete, ShowIndexes
<1> QED
  BY <1>1, <1>2, <1>3 DEF Next

LEMMA TypesHold == Spec => []TInv
<1>1. Init => TInv
  <2> SUFFICES ASSUME Init PROVE TInv
    OBVIOUS
  <2>1. CatalogOK(catalog)
    BY EmptyIs DEF Init, CatalogOK
  <2>2. DOMAIN EmptyMap = {}
    BY DEF EmptyMap
  <2>3. DatabasesOK(databases)
    BY <2>2 DEF Init, DatabasesOK
  <2>4. 0 \in 0..MaxDrops
    BY ExecutorAssumption
  <2> QED
    BY <2>1, <2>3, <2>4 DEF Init, TInv, Statuses
<1>2. TInv /\ [Next]_vars => TInv'
  <2>1. ASSUME TInv, UNCHANGED vars PROVE TInv'
    BY <2>1 DEF vars, TInv
  <2> QED
    BY <2>1, NextOK
<1> QED
  BY <1>1, <1>2, PTL DEF Spec

(* The catalog is at all times what its readers take it for.               *)
THEOREM ExecutorTyped == Spec => []TypeOK
BY TypesHold, TInvTypes, PTL

-----------------------------------------------------------------------------
(* Catalogs and databases that fit each other.                             *)

LEMMA FilledEntry ==
  ASSUME Filled, NEW d \in DOMAIN catalog.entries
  PROVE  LET entry == catalog.entries[d] IN
         /\ entry.id \in DOMAIN databases
         /\ entry.own = entry.name /\ databases[entry.id].name = entry.name
         /\ entry.name \in DOMAIN catalog.positions /\ catalog.positions[entry.name] = d
         /\ Placed(entry.collections)
         /\ \A c \in DOMAIN entry.collections.entries :
              entry.collections.entries[c].own = entry.collections.entries[c].name
<1>1. catalog.entries[d].id \in {catalog.entries[e].id : e \in DOMAIN catalog.entries}
  OBVIOUS
<1>2. catalog.entries[d].name \in NamesOf(catalog)
  BY DEF NamesOf
<1> QED
  BY <1>1, <1>2 DEF Filled, Placed

(* Two entries never stand for one database.                               *)
LEMMA OneEntry ==
  ASSUME Filled, NEW d \in DOMAIN catalog.entries, NEW e \in DOMAIN catalog.entries,
         catalog.entries[d].id = catalog.entries[e].id
  PROVE  d = e
<1>1. catalog.entries[d].name = catalog.entries[e].name
  BY FilledEntry
<1> QED
  BY <1>1, FilledEntry

(* The name of the current database leads to its entry.                    *)
LEMMA CurrentListed ==
  ASSUME Filled, HasCurrent
  PROVE  LET d == catalog.positions[Current.name] IN
         /\ Found(catalog, Current.name)
         /\ d \in DOMAIN catalog.entries
         /\ catalog.entries[d].id = current /\ catalog.entries[d].name = Current.name
<1>1. current \in {catalog.entries[e].id : e \in DOMAIN catalog.entries}
  BY DEF Filled, HasCurrent
<1>2. PICK e \in DOMAIN catalog.entries : catalog.entries[e].id = current
  BY <1>1
<1>3. Current.name = catalog.entries[e].name
  BY <1>2, FilledEntry DEF Current
<1>4. catalog.positions[Current.name] = e /\ Current.name \in DOMAIN catalog.positions
  BY <1>3, FilledEntry
<1> QED
  BY <1>2, <1>3, <1>4 DEF Found, Has

(* So does a place whose collection is in the current database.            *)
LEMMA PlaceListed ==
  ASSUME TInv, Filled, NEW p \in Places
  PROVE  /\ p[1] \in DOMAIN catalog.entries /\ p[2] \in DOMAIN Siblings(p).entries
         /\ Placed(Siblings(p)) /\ Own(p) = EntryAt(p).name
         /\ Own(p) \in DOMAIN Siblings(p).positions /\ Siblings(p).positions[Own(p)] = p[2]
         /\ InDatabase(p) =>
              /\ HasCurrent /\ catalog.entries[p[1]].id = current
              /\ Own(p) \in DOMAIN Current.collections
<1>1. /\ p[1] \in DOMAIN catalog.entries /\ p[2] \in DOMAIN Siblings(p).entries
      /\ EntryAt(p) = Siblings(p).entries[p[2]]
  BY PlaceEntry
<1>2. Placed(Siblings(p)) /\ Own(p) = EntryAt(p).name
  BY <1>1, FilledEntry DEF Siblings, Own
<1>3. Own(p) \in NamesOf(Siblings(p))
  BY <1>1, <1>2 DEF NamesOf
<1>4. Own(p) \in DOMAIN Siblings(p).positions /\ Siblings(p).positions[Own(p)] = p[2]
  BY <1>1, <1>2, <1>3 DEF Placed
<1>5. ASSUME InDatabase(p) PROVE HasCurrent /\ catalog.entries[p[1]].id = current
  <2>1. HasCurrent /\ Current.name = catalog.entries[p[1]].name
    BY <1>1, <1>5, FilledEntry DEF InDatabase
  <2>2. catalog.positions[Current.name] = p[1]
    BY <1>1, <2>1, FilledEntry
  <2> QED
    BY <2>1, <2>2, CurrentListed
<1> QED
  BY <1>1, <1>2, <1>4, <1>5 DEF InDatabase

-----------------------------------------------------------------------------
(* What a step writes, entry by entry and collection by collection.        *)

Entry(d, c) == catalog.entries[d].collections.entries[c]

(* The listing of the database at d becomes dir.                           *)
Relisted(d, dir) ==
  /\ DOMAIN catalog'.entries = DOMAIN catalog.entries
  /\ \A e \in DOMAIN catalog.entries :
       /\ catalog'.entries[e].id = catalog.entries[e].id
       /\ catalog'.entries[e].collections = IF e = d THEN dir ELSE catalog.entries[e].collections

LEMMA ListingWritten ==
  ASSUME TInv, NEW d \in DOMAIN catalog.entries, NEW dir,
         catalog' = [catalog EXCEPT !.entries[d].collections = dir]
  PROVE  Relisted(d, dir)
<1> DEFINE old == catalog.entries[d]
           new == [old EXCEPT !.collections = dir]
<1>1. DatabaseOK(old) /\ IsDir(catalog, DatabaseNames)
  BY EntriesOK
<1>2. new.id = old.id /\ new.collections = dir
  BY <1>1 DEF DatabaseOK, DatabaseFields
<1>3. catalog'.entries = [catalog.entries EXCEPT ![d] = new]
  BY <1>1 DEF IsDir
<1> HIDE DEF new
<1> QED
  BY <1>2, <1>3 DEF Relisted

(* The entry at p becomes entry.                                           *)
Reentered(p, entry) ==
  /\ DOMAIN catalog'.entries = DOMAIN catalog.entries
  /\ \A d \in DOMAIN catalog.entries :
       /\ catalog'.entries[d].id = catalog.entries[d].id
       /\ DOMAIN catalog'.entries[d].collections.entries = DOMAIN catalog.entries[d].collections.entries
       /\ \A c \in DOMAIN catalog.entries[d].collections.entries :
            catalog'.entries[d].collections.entries[c] =
              IF d = p[1] /\ c = p[2] THEN entry ELSE catalog.entries[d].collections.entries[c]

LEMMA EntryWritten ==
  ASSUME TInv, NEW p \in Places, NEW entry, catalog' = WithEntry(p, entry)
  PROVE  Reentered(p, entry)
<1> DEFINE d == p[1]
           old == catalog.entries[d].collections
           dir == [old EXCEPT !.entries[p[2]] = entry]
<1>1. d \in DOMAIN catalog.entries /\ ListingOK(old) /\ p[2] \in DOMAIN old.entries
  BY PlaceEntry DEF Siblings
<1>2. catalog' = [catalog EXCEPT !.entries[d].collections = dir]
  BY DEF WithEntry
<1>3. dir.entries = [old.entries EXCEPT ![p[2]] = entry]
  BY <1>1 DEF ListingOK, IsDir
<1> HIDE DEF dir
<1>4. Relisted(d, dir)
  BY <1>1, <1>2, ListingWritten
<1> QED
  BY <1>1, <1>3, <1>4 DEF Relisted, Reentered

(* The collections of the current database become held.                    *)
Reheld(held) ==
  /\ HasCurrent
  /\ DOMAIN databases' = DOMAIN databases
  /\ \A id \in DOMAIN databases :
       databases'[id].collections = IF id = current THEN held ELSE databases[id].collections

LEMMA HeldWritten ==
  ASSUME TInv, HasCurrent, NEW held, databases' = [databases EXCEPT ![current].collections = held]
  PROVE  Reheld(held)
<1> DEFINE new == [Current EXCEPT !.collections = held]
<1>1. current \in DOMAIN databases /\ new.collections = held
  BY HeldIs
<1>2. databases' = [databases EXCEPT ![current] = new]
  BY DEF Current
<1> HIDE DEF new
<1> QED
  BY <1>1, <1>2 DEF Reheld

LEMMA ObjectWritten ==
  ASSUME TInv, NEW p, InDatabase(p), NEW c, databases' = WithObject(p, c)
  PROVE  Reheld([Current.collections EXCEPT ![Own(p)] = c])
<1> DEFINE held == [Current.collections EXCEPT ![Own(p)] = c]
<1>1. databases' = [databases EXCEPT ![current].collections = held]
  BY DEF WithObject, Current
<1>2. HasCurrent
  BY DEF InDatabase
<1> HIDE DEF held
<1>3. Reheld(held)
  BY <1>1, <1>2, HeldWritten
<1> QED
  BY <1>3 DEF held

(* What Agree says of one database.                                        *)
AgreesOn(listed, held) ==
  /\ NamesOf(listed) = DOMAIN held
  /\ \A c \in DOMAIN listed.entries : SaysWhatIs(listed.entries[c], held[listed.entries[c].name])

LEMMA AgreeIs ==
  Agree <=> \A d \in DOMAIN catalog.entries :
              AgreesOn(catalog.entries[d].collections, databases[catalog.entries[d].id].collections)
BY DEF Agree, AgreesOn

LEMMA AgreeNext ==
  ASSUME \A d \in DOMAIN catalog'.entries :
           AgreesOn(catalog'.entries[d].collections, databases'[catalog'.entries[d].id].collections)
  PROVE  Agree'
BY DEF Agree, AgreesOn

LEMMA SameNames ==
  ASSUME NEW listed, NEW new, DOMAIN new.entries = DOMAIN listed.entries,
         \A c \in DOMAIN listed.entries : new.entries[c].name = listed.entries[c].name
  PROVE  NamesOf(new) = NamesOf(listed)
BY DEF NamesOf

LEMMA PlaceAgrees ==
  ASSUME TInv, Filled, Agree, NEW p \in Places, InDatabase(p)
  PROVE  SaysWhatIs(EntryAt(p), CollectionAt(p))
<1>1. /\ p[1] \in DOMAIN catalog.entries /\ p[2] \in DOMAIN Siblings(p).entries
      /\ Own(p) = EntryAt(p).name /\ catalog.entries[p[1]].id = current
  BY PlaceListed
<1> QED
  BY <1>1, AgreeIs DEF AgreesOn, Siblings, EntryAt, CollectionAt, Current

(* The entry at a place and its collection change together.                *)
LEMMA AgreeTouched ==
  ASSUME TInv, Filled, Agree, NEW p \in Places, InDatabase(p), NEW entry, NEW coll,
         entry.name = EntryAt(p).name, SaysWhatIs(entry, coll), Reentered(p, entry),
         Reheld([Current.collections EXCEPT ![Own(p)] = coll])
  PROVE  Agree'
<1> DEFINE held == [Current.collections EXCEPT ![Own(p)] = coll]
<1>1. /\ p[1] \in DOMAIN catalog.entries /\ p[2] \in DOMAIN Siblings(p).entries
      /\ Placed(Siblings(p)) /\ Own(p) = EntryAt(p).name /\ catalog.entries[p[1]].id = current
      /\ Siblings(p).positions[Own(p)] = p[2] /\ Own(p) \in DOMAIN Current.collections
  BY PlaceListed
<1>2. /\ DOMAIN held = DOMAIN Current.collections /\ held[Own(p)] = coll
      /\ \A n \in DOMAIN held \ {Own(p)} : held[n] = Current.collections[n]
  BY <1>1
<1>3. Reheld(held)
  OBVIOUS
<1> HIDE DEF held
<1> SUFFICES ASSUME NEW d \in DOMAIN catalog'.entries
             PROVE  AgreesOn(catalog'.entries[d].collections,
                             databases'[catalog'.entries[d].id].collections)
  BY AgreeNext
<1>4. d \in DOMAIN catalog.entries /\ catalog'.entries[d].id = catalog.entries[d].id
  BY DEF Reentered
<1> DEFINE listed == catalog.entries[d].collections
           new == catalog'.entries[d].collections
<1>5. AgreesOn(listed, databases[catalog.entries[d].id].collections)
  BY <1>4, AgreeIs
<1>6. catalog.entries[d].id \in DOMAIN databases
  BY <1>4, FilledEntry
<1>7. CASE d = p[1]
  <2>1. /\ DOMAIN new.entries = DOMAIN listed.entries
        /\ \A c \in DOMAIN listed.entries :
             new.entries[c] = IF c = p[2] THEN entry ELSE listed.entries[c]
    BY <1>4, <1>7 DEF Reentered
  <2>2. listed = Siblings(p) /\ EntryAt(p) = listed.entries[p[2]]
    BY <1>7 DEF Siblings, EntryAt
  <2>3. databases[catalog.entries[d].id].collections = Current.collections
    BY <1>1, <1>7 DEF Current
  <2>4. databases'[catalog'.entries[d].id].collections = held
    BY <1>1, <1>3, <1>4, <1>6, <1>7 DEF Reheld
  <2> HIDE DEF listed, new
  <2>5. NamesOf(new) = NamesOf(listed)
    BY <2>1, <2>2, SameNames
  <2>6. NamesOf(new) = DOMAIN held
    BY <1>2, <1>5, <2>3, <2>5 DEF AgreesOn
  <2>7. ASSUME NEW c \in DOMAIN new.entries
        PROVE  SaysWhatIs(new.entries[c], held[new.entries[c].name])
    <3>1. CASE c = p[2]
      BY <1>1, <1>2, <2>1, <3>1
    <3>2. CASE c # p[2]
      <4>1. new.entries[c] = listed.entries[c] /\ c \in DOMAIN listed.entries
        BY <2>1, <3>2
      <4>2. listed.entries[c].name # Own(p)
        BY <1>1, <2>2, <3>2, <4>1 DEF Placed
      <4>3. listed.entries[c].name \in DOMAIN held
        BY <2>6, <4>1 DEF NamesOf
      <4>4. held[listed.entries[c].name] = Current.collections[listed.entries[c].name]
        BY <1>2, <4>2, <4>3
      <4> QED
        BY <1>5, <2>3, <4>1, <4>4 DEF AgreesOn
    <3> QED
      BY <3>1, <3>2
  <2> QED
    BY <2>4, <2>6, <2>7 DEF AgreesOn, new
<1>8. CASE d # p[1]
  <2>1. catalog.entries[d].id # current
    BY <1>1, <1>4, <1>8, OneEntry
  <2>2. databases'[catalog'.entries[d].id].collections = databases[catalog.entries[d].id].collections
    BY <1>3, <1>4, <1>6, <2>1 DEF Reheld
  <2>3. /\ DOMAIN new.entries = DOMAIN listed.entries
        /\ \A c \in DOMAIN listed.entries : new.entries[c] = listed.entries[c]
    BY <1>4, <1>8 DEF Reentered
  <2> HIDE DEF listed, new
  <2>4. NamesOf(new) = NamesOf(listed)
    BY <2>3, SameNames
  <2>5. AgreesOn(new, databases[catalog.entries[d].id].collections)
    BY <1>5, <2>3, <2>4 DEF AgreesOn
  <2> QED
    BY <2>2, <2>5 DEF new
<1> QED
  BY <1>7, <1>8

(* The entry alone changes, and says what it said.                         *)
LEMMA AgreeReentered ==
  ASSUME TInv, Filled, Agree, NEW p \in Places, NEW entry,
         entry.name = EntryAt(p).name, entry.columns = EntryAt(p).columns,
         entry.index_entries = EntryAt(p).index_entries, Reentered(p, entry),
         UNCHANGED databases
  PROVE  Agree'
<1> SUFFICES ASSUME NEW d \in DOMAIN catalog'.entries
             PROVE  AgreesOn(catalog'.entries[d].collections,
                             databases'[catalog'.entries[d].id].collections)
  BY AgreeNext
<1> DEFINE listed == catalog.entries[d].collections
           new == catalog'.entries[d].collections
           held == databases[catalog.entries[d].id].collections
<1>1. d \in DOMAIN catalog.entries /\ catalog'.entries[d].id = catalog.entries[d].id
  BY DEF Reentered
<1>2. AgreesOn(listed, held)
  BY <1>1, AgreeIs
<1>3. /\ DOMAIN new.entries = DOMAIN listed.entries
      /\ \A c \in DOMAIN listed.entries :
           /\ new.entries[c].name = listed.entries[c].name
           /\ new.entries[c].columns = listed.entries[c].columns
           /\ new.entries[c].index_entries = listed.entries[c].index_entries
  BY <1>1 DEF Reentered, EntryAt
<1>4. databases'[catalog'.entries[d].id].collections = held
  BY <1>1
<1> HIDE DEF listed, new, held
<1>5. NamesOf(new) = NamesOf(listed)
  BY <1>3, SameNames
<1>6. AgreesOn(new, held)
  BY <1>2, <1>3, <1>5 DEF AgreesOn, SaysWhatIs
<1> QED
  BY <1>4, <1>6 DEF new

-----------------------------------------------------------------------------
(* Databases.                                                              *)

LEMMA CreateDatabaseAgrees ==
  ASSUME TInv, Filled, Agree, Filled', NEW name, CreateDatabase(name)
  PROVE  Agree'
<1>1. CASE UNCHANGED <<catalog, databases>>
  BY <1>1, AgreeIs, AgreeNext
<1>2. CASE ~UNCHANGED <<catalog, databases>>
  <2>1. PICK id \in DatabaseIds, own \in {UnsetName, name} :
          /\ ~Has(catalog, name)
          /\ catalog' = Added(catalog, DatabaseEntry(name, id, own))
          /\ databases' = IF id \in DOMAIN databases THEN databases
                          ELSE Put(databases, id, Database(name))
    BY <1>2 DEF CreateDatabase, Skip, Only, state
  <2> DEFINE entry == DatabaseEntry(name, id, own)
  <2>2. IsDir(catalog, DatabaseNames)
    BY EntriesOK
  <2>3. /\ Len(catalog.entries) \in Nat /\ DOMAIN catalog.entries = 1..Len(catalog.entries)
        /\ catalog.entries \in Seq(Members(catalog.entries))
    BY <2>2, ListFacts DEF IsDir
  <2>4. entry.id = id /\ entry.collections = EmptyDirectory
    BY DEF DatabaseEntry
  <2>5. catalog'.entries = Append(catalog.entries, entry)
    BY <2>1 DEF Added
  <2> HIDE DEF entry
  <2>6. /\ DOMAIN catalog'.entries = 1 .. Len(catalog.entries) + 1
        /\ catalog'.entries[Len(catalog.entries) + 1] = entry
        /\ \A d \in DOMAIN catalog.entries : catalog'.entries[d] = catalog.entries[d]
    BY <2>3, <2>5
  <2>7. id \notin DOMAIN databases
    <3> SUFFICES ASSUME id \in DOMAIN databases PROVE FALSE
      OBVIOUS
    <3>1. databases' = databases /\ Len(catalog'.entries) = Len(catalog.entries) + 1
      BY <2>1, <2>3, <2>5
    <3> QED
      BY <2>3, <3>1 DEF Filled
  <2>8. /\ databases'[id].collections = EmptyMap
        /\ \A i \in DOMAIN databases : databases'[i] = databases[i]
    BY <2>1, <2>7 DEF Put, Database
  <2>9. ASSUME NEW d \in DOMAIN catalog'.entries
        PROVE  AgreesOn(catalog'.entries[d].collections,
                        databases'[catalog'.entries[d].id].collections)
    <3>1. CASE d \in DOMAIN catalog.entries
      BY <2>6, <2>8, <3>1, AgreeIs, FilledEntry
    <3>2. CASE d \notin DOMAIN catalog.entries
      <4>1. d = Len(catalog.entries) + 1
        BY <2>3, <2>6, <3>2
      <4>2. AgreesOn(EmptyDirectory, EmptyMap)
        BY DEF AgreesOn, EmptyDirectory, EmptyMap, NamesOf
      <4> QED
        BY <2>4, <2>6, <2>8, <4>1, <4>2
    <3> QED
      BY <3>1, <3>2
  <2> QED
    BY <2>9, AgreeNext
<1> QED
  BY <1>1, <1>2

LEMMA UnlistedMembers ==
  ASSUME TInv, NEW id, NEW d \in DOMAIN Unlisted(id).entries
  PROVE  \E e \in DOMAIN catalog.entries : Unlisted(id).entries[d] = catalog.entries[e]
<1> DEFINE own == catalog.entries[id + 1].own
<1>1. CASE Unlisted(id) = catalog
  BY <1>1
<1>2. CASE Unlisted(id) = Removed(catalog, own)
  <2>1. IsDir(catalog, DatabaseNames)
    BY EntriesOK
  <2> HIDE DEF own
  <2>2. Members(Unlisted(id).entries) \subseteq Members(catalog.entries)
    BY <1>2, <2>1, RemovedIs
  <2> QED
    BY <2>2 DEF Members
<1> QED
  BY <1>1, <1>2 DEF Unlisted

LEMMA DropDatabaseAgrees ==
  ASSUME TInv, Filled, Agree, Filled', NEW id, DropDatabase(id)
  PROVE  Agree'
<1>1. CASE UNCHANGED <<catalog, databases>>
  BY <1>1, AgreeIs, AgreeNext
<1>2. CASE ~UNCHANGED <<catalog, databases>>
  <2>1. catalog' = Unlisted(id) /\ databases' = Drop(databases, id)
    BY <1>2 DEF DropDatabase, Skip, Crash, Only, state
  <2>2. \A i \in DOMAIN databases' : databases'[i] = databases[i]
    BY <2>1 DEF Drop
  <2>3. ASSUME NEW d \in DOMAIN catalog'.entries
        PROVE  AgreesOn(catalog'.entries[d].collections,
                        databases'[catalog'.entries[d].id].collections)
    <3>1. PICK e \in DOMAIN catalog.entries : catalog'.entries[d] = catalog.entries[e]
      BY <2>1, UnlistedMembers
    <3>2. catalog'.entries[d].id \in {catalog'.entries[f].id : f \in DOMAIN catalog'.entries}
      OBVIOUS
    <3>3. catalog'.entries[d].id \in DOMAIN databases'
      BY <3>2 DEF Filled
    <3> QED
      BY <2>2, <3>1, <3>3, AgreeIs
  <2> QED
    BY <2>3, AgreeNext
<1> QED
  BY <1>1, <1>2

(* The collections of the current database change with the listing of its  *)
(* entry.                                                                  *)
LEMMA AgreeRelisted ==
  ASSUME TInv, Filled, Agree, NEW d \in DOMAIN catalog.entries, catalog.entries[d].id = current,
         NEW dir, NEW held, AgreesOn(dir, held), Relisted(d, dir), Reheld(held)
  PROVE  Agree'
<1> SUFFICES ASSUME NEW e \in DOMAIN catalog'.entries
             PROVE  AgreesOn(catalog'.entries[e].collections,
                             databases'[catalog'.entries[e].id].collections)
  BY AgreeNext
<1>1. e \in DOMAIN catalog.entries /\ catalog'.entries[e].id = catalog.entries[e].id
  BY DEF Relisted
<1>2. catalog.entries[e].id \in DOMAIN databases
  BY <1>1, FilledEntry
<1>3. AgreesOn(catalog.entries[e].collections, databases[catalog.entries[e].id].collections)
  BY <1>1, AgreeIs
<1>4. CASE e = d
  BY <1>1, <1>2, <1>4 DEF Relisted, Reheld
<1>5. CASE e # d
  <2>1. catalog.entries[e].id # current
    BY <1>1, <1>5, OneEntry
  <2> QED
    BY <1>1, <1>2, <1>3, <1>5, <2>1 DEF Relisted, Reheld
<1> QED
  BY <1>4, <1>5

LEMMA NewSays ==
  ASSUME NEW schema, NEW name, NEW id, NEW own
  PROVE  SaysWhatIs([CollectionEntry(name, id, own) EXCEPT !.columns = Columns(schema)],
                    NewCollection(schema))
<1> DEFINE entry == [CollectionEntry(name, id, own) EXCEPT !.columns = Columns(schema)]
           coll == NewCollection(schema)
<1>1. entry.columns = Columns(schema) /\ entry.index_entries = EmptyMap
  BY DEF CollectionEntry
<1>2. coll.schema = schema /\ coll.indexes = EmptyMap
  BY DEF NewCollection
<1>3. EmptyMap = [i \in DOMAIN EmptyMap |-> EmptyMap[i].fields]
  BY DEF EmptyMap
<1> HIDE DEF entry, coll
<1>4. SaysWhatIs(entry, coll)
  BY <1>1, <1>2, <1>3 DEF SaysWhatIs
<1> QED
  BY <1>4 DEF entry, coll

LEMMA AddedAgrees ==
  ASSUME NEW dir, IsDir(dir, CollectionNames), NEW held, AgreesOn(dir, held),
         NEW entry, entry.name \notin DOMAIN held, NEW coll, SaysWhatIs(entry, coll)
  PROVE  AgreesOn(Added(dir, entry), Put(held, entry.name, coll))
<1> DEFINE new == Added(dir, entry)
           put == Put(held, entry.name, coll)
           n == Len(dir.entries)
<1>1. n \in Nat /\ DOMAIN dir.entries = 1..n /\ dir.entries \in Seq(Members(dir.entries))
  BY ListFacts DEF IsDir
<1>2. new.entries = Append(dir.entries, entry)
  BY DEF Added
<1>3. /\ DOMAIN put = DOMAIN held \cup {entry.name} /\ put[entry.name] = coll
      /\ \A x \in DOMAIN held : put[x] = held[x]
  BY DEF Put
<1> HIDE DEF new, put
<1>4. /\ DOMAIN new.entries = 1 .. n + 1 /\ new.entries[n + 1] = entry
      /\ \A c \in DOMAIN dir.entries : new.entries[c] = dir.entries[c]
  BY <1>1, <1>2
<1> HIDE DEF n
<1>5. DOMAIN new.entries = DOMAIN dir.entries \cup {n + 1}
  BY <1>1, <1>4
<1>6. NamesOf(new) = NamesOf(dir) \cup {entry.name}
  <2>1. ASSUME NEW c \in DOMAIN new.entries
        PROVE  new.entries[c].name \in NamesOf(dir) \cup {entry.name}
    BY <1>4, <1>5 DEF NamesOf
  <2>2. ASSUME NEW x \in NamesOf(dir) \cup {entry.name}
        PROVE  \E c \in DOMAIN new.entries : new.entries[c].name = x
    BY <1>4, <1>5 DEF NamesOf
  <2> QED
    BY <2>1, <2>2 DEF NamesOf
<1>7. ASSUME NEW c \in DOMAIN new.entries PROVE SaysWhatIs(new.entries[c], put[new.entries[c].name])
  <2>1. CASE c = n + 1
    BY <1>3, <1>4, <2>1
  <2>2. CASE c # n + 1
    <3>1. c \in DOMAIN dir.entries /\ new.entries[c] = dir.entries[c]
      BY <1>4, <1>5, <2>2
    <3>2. dir.entries[c].name \in DOMAIN held
      BY <3>1 DEF AgreesOn, NamesOf
    <3> QED
      BY <1>3, <3>1, <3>2 DEF AgreesOn
  <2> QED
    BY <2>1, <2>2
<1>8. AgreesOn(new, put)
  BY <1>3, <1>6, <1>7 DEF AgreesOn
<1> QED
  BY <1>8 DEF new, put

(* Where names lead to their entries, removal by name removes the entry of *)
(* that name, and no other.                                                *)
LEMMA RemovedAgrees ==
  ASSUME NEW dir, IsDir(dir, CollectionNames), Placed(dir), NEW held, AgreesOn(dir, held),
         NEW name \in DOMAIN dir.positions
  PROVE  AgreesOn(Removed(dir, name), Drop(held, name))
<1> DEFINE new == Removed(dir, name)
           left == Drop(held, name)
           p == dir.positions[name]
           n == Len(dir.entries)
<1>1. n \in Nat /\ DOMAIN dir.entries = 1..n
  BY ListFacts DEF IsDir
<1>2. p \in 1..n /\ dir.entries[p].name = name
  BY <1>1 DEF Placed, NamesOf
<1>3. /\ DOMAIN new.entries = 1 .. n - 1
      /\ \A c \in 1 .. n - 1 :
           new.entries[c] = IF c < p THEN dir.entries[c] ELSE dir.entries[c + 1]
  BY DEF Removed, Erased
<1>4. DOMAIN left = DOMAIN held \ {name} /\ \A x \in DOMAIN left : left[x] = held[x]
  BY DEF Drop
<1>5. \A c \in DOMAIN dir.entries : dir.entries[c].name = name => c = p
  BY <1>2 DEF Placed
<1> HIDE DEF new, left, n, p
<1>6. ASSUME NEW c \in DOMAIN new.entries
      PROVE  \E e \in DOMAIN dir.entries : e # p /\ new.entries[c] = dir.entries[e]
  <2>1. CASE c < p
    <3>1. c \in DOMAIN dir.entries /\ c # p /\ new.entries[c] = dir.entries[c]
      BY <1>1, <1>2, <1>3, <2>1
    <3> QED
      BY <3>1
  <2>2. CASE ~(c < p)
    <3>1. c + 1 \in DOMAIN dir.entries /\ c + 1 # p /\ new.entries[c] = dir.entries[c + 1]
      BY <1>1, <1>2, <1>3, <2>2
    <3> QED
      BY <3>1
  <2> QED
    BY <2>1, <2>2
<1>7. ASSUME NEW e \in DOMAIN dir.entries, e # p
      PROVE  \E c \in DOMAIN new.entries : new.entries[c] = dir.entries[e]
  <2>1. CASE e < p
    <3>1. e \in DOMAIN new.entries /\ new.entries[e] = dir.entries[e]
      BY <1>1, <1>2, <1>3, <2>1
    <3> QED
      BY <3>1
  <2>2. CASE ~(e < p)
    <3>1. e - 1 \in 1 .. n - 1 /\ ~(e - 1 < p) /\ e - 1 + 1 = e
      BY <1>1, <1>2, <1>7, <2>2
    <3>2. e - 1 \in DOMAIN new.entries /\ new.entries[e - 1] = dir.entries[e]
      BY <1>3, <3>1
    <3> QED
      BY <3>2
  <2> QED
    BY <2>1, <2>2
<1>8. NamesOf(new) = NamesOf(dir) \ {name}
  <2>1. NamesOf(new) \subseteq NamesOf(dir) \ {name}
    BY <1>5, <1>6 DEF NamesOf
  <2>2. NamesOf(dir) \ {name} \subseteq NamesOf(new)
    BY <1>2, <1>7 DEF NamesOf
  <2> QED
    BY <2>1, <2>2
<1>9. NamesOf(new) = DOMAIN left
  BY <1>4, <1>8 DEF AgreesOn
<1>10. ASSUME NEW c \in DOMAIN new.entries
       PROVE  SaysWhatIs(new.entries[c], left[new.entries[c].name])
  <2>1. new.entries[c].name \in DOMAIN left
    BY <1>9 DEF NamesOf
  <2> QED
    BY <1>4, <1>6, <2>1 DEF AgreesOn
<1>11. AgreesOn(new, left)
  BY <1>9, <1>10 DEF AgreesOn
<1> QED
  BY <1>11 DEF new, left

LEMMA CreateCollectionAgrees ==
  ASSUME TInv, Filled, Agree, NEW name \in CollectionNames, NEW schema \in Schemas,
         CreateCollection(name, schema), answer'.status # "throw"
  PROVE  Agree'
<1>1. CASE UNCHANGED <<catalog, databases>>
  BY <1>1, AgreeIs, AgreeNext
<1>2. CASE ~UNCHANGED <<catalog, databases>>
  <2> DEFINE d == catalog.positions[Current.name]
             old == catalog.entries[d].collections
  <2>1. /\ HasCurrent /\ name \notin DOMAIN Current.collections
        /\ databases' = [databases EXCEPT
                           ![current].collections = Put(@, name, NewCollection(schema))]
        /\ \/ ~Found(catalog, Current.name)
           \/ Ended("create_collection", "throw")
           \/ \E id \in CollectionIds, own \in {UnsetName, name} :
                catalog' = [catalog EXCEPT
                  !.entries[d].collections =
                    Added(@, [CollectionEntry(name, id, own) EXCEPT !.columns = Columns(schema)])]
    BY <1>2 DEF CreateCollection, Skip, Only, state
  <2>2. /\ Found(catalog, Current.name) /\ d \in DOMAIN catalog.entries
        /\ catalog.entries[d].id = current
    BY <2>1, CurrentListed
  <2>3. PICK id \in CollectionIds, own \in {UnsetName, name} :
          catalog' = [catalog EXCEPT
            !.entries[d].collections =
              Added(@, [CollectionEntry(name, id, own) EXCEPT !.columns = Columns(schema)])]
    BY <2>1, <2>2, EndedStatus
  <2> DEFINE entry == [CollectionEntry(name, id, own) EXCEPT !.columns = Columns(schema)]
             coll == NewCollection(schema)
             dir == Added(old, entry)
             held == Put(Current.collections, name, coll)
  <2>4. entry.name = name /\ SaysWhatIs(entry, coll)
    BY NewSays DEF CollectionEntry
  <2>5. IsDir(old, CollectionNames)
    BY <2>2, EntriesOK DEF ListingOK
  <2>6. AgreesOn(old, Current.collections)
    BY <2>2, AgreeIs DEF Current
  <2>7. catalog' = [catalog EXCEPT !.entries[d].collections = dir]
    BY <2>3
  <2>8. databases' = [databases EXCEPT ![current].collections = held]
    BY <2>1 DEF Current
  <2> HIDE DEF entry, coll, old
  <2>9. AgreesOn(dir, held)
    BY <2>1, <2>4, <2>5, <2>6, AddedAgrees
  <2> HIDE DEF dir, held, d
  <2>10. Relisted(d, dir) /\ Reheld(held)
    BY <2>1, <2>2, <2>7, <2>8, ListingWritten, HeldWritten
  <2> QED
    BY <2>2, <2>9, <2>10, AgreeRelisted
<1> QED
  BY <1>1, <1>2

LEMMA DropCollectionAgrees ==
  ASSUME TInv, Filled, Agree, NEW id, DropCollection(id)
  PROVE  Agree'
<1>1. CASE UNCHANGED <<catalog, databases>>
  BY <1>1, AgreeIs, AgreeNext
<1>2. CASE ~UNCHANGED <<catalog, databases>>
  <2>1. PICK p \in Located(id) :
          /\ InDatabase(p)
          /\ databases' = [databases EXCEPT ![current].collections = Drop(@, Own(p))]
          /\ catalog' = IF Has(Siblings(p), Own(p))
                        THEN [catalog EXCEPT !.entries[p[1]].collections = Removed(@, Own(p))]
                        ELSE catalog
    BY <1>2 DEF DropCollection, NotFoundSkip, Absent, Crash, Skip, Only, state
  <2>2. p \in Places
    BY LocatedPlaces
  <2> DEFINE d == p[1]
             name == Own(p)
             old == catalog.entries[d].collections
             dir == Removed(old, name)
             held == Drop(Current.collections, name)
  <2>3. /\ d \in DOMAIN catalog.entries /\ Placed(old) /\ name \in DOMAIN old.positions
        /\ catalog.entries[d].id = current /\ HasCurrent
    BY <2>1, <2>2, PlaceListed DEF Siblings
  <2>4. IsDir(old, CollectionNames)
    BY <2>3, EntriesOK DEF ListingOK
  <2>5. AgreesOn(old, Current.collections)
    BY <2>3, AgreeIs DEF Current
  <2>6. catalog' = [catalog EXCEPT !.entries[d].collections = dir]
    BY <2>1, <2>3 DEF Has, Siblings
  <2>7. databases' = [databases EXCEPT ![current].collections = held]
    BY <2>1 DEF Current
  <2> HIDE DEF old, name
  <2>8. AgreesOn(dir, held)
    BY <2>3, <2>4, <2>5, RemovedAgrees
  <2> HIDE DEF dir, held, d
  <2>9. Relisted(d, dir) /\ Reheld(held)
    BY <2>3, <2>6, <2>7, ListingWritten, HeldWritten
  <2> QED
    BY <2>3, <2>8, <2>9, AgreeRelisted
<1> QED
  BY <1>1, <1>2

-----------------------------------------------------------------------------
(* Indexes and rows.                                                       *)

LEMMA WithIndexSays ==
  ASSUME NEW e, EntryOK(e), NEW c, CollectionOK(c), SaysWhatIs(e, c),
         NEW name, NEW fields, NEW ids
  PROVE  /\ SaysWhatIs(WithIndex(e, name, fields), Indexed(c, name, fields, ids))
         /\ WithIndex(e, name, fields).name = e.name
<1> DEFINE new == WithIndex(e, name, fields)
           coll == Indexed(c, name, fields, ids)
           now == [fields |-> fields, ids |-> ids]
<1>1. /\ new.name = e.name /\ new.columns = e.columns
      /\ new.index_entries = Put(e.index_entries, name, fields)
  BY DEF WithIndex, EntryOK, EntryFields
<1>2. coll.schema = c.schema /\ coll.indexes = Put(c.indexes, name, now)
  BY DEF Indexed, CollectionOK, CollectionFields
<1>3. now.fields = fields
  OBVIOUS
<1> HIDE DEF new, coll, now
<1>4. e.index_entries = [i \in DOMAIN c.indexes |-> c.indexes[i].fields]
  BY DEF SaysWhatIs
<1>5. DOMAIN e.index_entries = DOMAIN c.indexes
  BY <1>4
<1>6. \A i \in DOMAIN c.indexes : e.index_entries[i] = c.indexes[i].fields
  BY <1>4
<1>7. Put(e.index_entries, name, fields) =
        [i \in DOMAIN Put(c.indexes, name, now) |-> Put(c.indexes, name, now)[i].fields]
  <2>1. /\ DOMAIN Put(c.indexes, name, now) = DOMAIN c.indexes \cup {name}
        /\ \A i \in DOMAIN c.indexes \cup {name} :
             Put(c.indexes, name, now)[i] = IF i = name THEN now ELSE c.indexes[i]
    BY DEF Put
  <2>2. \A i \in DOMAIN c.indexes \cup {name} :
          (IF i = name THEN fields ELSE e.index_entries[i]) = Put(c.indexes, name, now)[i].fields
    BY <1>3, <1>6, <2>1
  <2>3. Put(e.index_entries, name, fields) =
          [i \in DOMAIN c.indexes \cup {name} |-> IF i = name THEN fields ELSE e.index_entries[i]]
    BY <1>5 DEF Put
  <2> QED
    BY <2>1, <2>2, <2>3
<1>8. SaysWhatIs(new, coll)
  BY <1>1, <1>2, <1>7 DEF SaysWhatIs
<1> QED
  BY <1>1, <1>8 DEF new, coll

LEMMA WithoutIndexSays ==
  ASSUME NEW e, EntryOK(e), NEW c, CollectionOK(c), SaysWhatIs(e, c), NEW name
  PROVE  /\ SaysWhatIs(WithoutIndex(e, name), [c EXCEPT !.indexes = Drop(@, name)])
         /\ WithoutIndex(e, name).name = e.name
<1> DEFINE new == WithoutIndex(e, name)
           coll == [c EXCEPT !.indexes = Drop(@, name)]
<1>1. /\ new.name = e.name /\ new.columns = e.columns
      /\ new.index_entries = Drop(e.index_entries, name)
  BY DEF WithoutIndex, EntryOK, EntryFields
<1>2. coll.schema = c.schema /\ coll.indexes = Drop(c.indexes, name)
  BY DEF CollectionOK, CollectionFields
<1> HIDE DEF new, coll
<1>3. e.index_entries = [i \in DOMAIN c.indexes |-> c.indexes[i].fields]
  BY DEF SaysWhatIs
<1>4. Drop(e.index_entries, name) =
        [i \in DOMAIN Drop(c.indexes, name) |-> Drop(c.indexes, name)[i].fields]
  BY <1>3 DEF Drop
<1>5. SaysWhatIs(new, coll)
  BY <1>1, <1>2, <1>4 DEF SaysWhatIs
<1> QED
  BY <1>1, <1>5 DEF new, coll

LEMMA CreateIndexAgrees ==
  ASSUME TInv, Filled, Agree, NEW id, NEW name, NEW names,
         CreateIndex(id, name, names), answer'.status # "throw"
  PROVE  Agree'
<1>1. CASE UNCHANGED <<catalog, databases>>
  BY <1>1, AgreeIs, AgreeNext
<1>2. CASE ~UNCHANGED <<catalog, databases>>
  <2>1. PICK p \in Located(id) :
          LET fields == Bound(p, names)
              collection == CollectionAt(p)
          IN
          /\ InDatabase(p)
          /\ \/ /\ databases' = WithObject(p, Indexed(collection, name, fields, collection.rows))
                /\ catalog' = WithEntry(p, WithIndex(EntryAt(p), name, fields))
             \/ Ended("create_index", "throw")
    BY <1>2 DEF CreateIndex, NotFound, Skip, Absent, Only, state
  <2> DEFINE fields == Bound(p, names)
             entry == WithIndex(EntryAt(p), name, fields)
             coll == Indexed(CollectionAt(p), name, fields, CollectionAt(p).rows)
  <2>2. databases' = WithObject(p, coll) /\ catalog' = WithEntry(p, entry)
    BY <2>1, EndedStatus
  <2>3. p \in Places
    BY LocatedPlaces
  <2>4. EntryOK(EntryAt(p)) /\ CollectionOK(CollectionAt(p)) /\ SaysWhatIs(EntryAt(p), CollectionAt(p))
    BY <2>1, <2>3, PlaceEntry, ObjectOK, PlaceAgrees
  <2> HIDE DEF fields
  <2>5. SaysWhatIs(entry, coll) /\ entry.name = EntryAt(p).name
    BY <2>4, WithIndexSays
  <2> HIDE DEF entry, coll
  <2>6. /\ Reentered(p, entry)
        /\ Reheld([Current.collections EXCEPT ![Own(p)] = coll])
    BY <2>1, <2>2, <2>3, EntryWritten, ObjectWritten
  <2> QED
    BY <2>1, <2>3, <2>5, <2>6, AgreeTouched
<1> QED
  BY <1>1, <1>2

LEMMA DropIndexAgrees ==
  ASSUME TInv, Filled, Agree, NEW id, NEW name, DropIndex(id, name)
  PROVE  Agree'
<1>1. CASE UNCHANGED <<catalog, databases>>
  BY <1>1, AgreeIs, AgreeNext
<1>2. CASE ~UNCHANGED <<catalog, databases>>
  <2>1. PICK p \in Located(id) : InDatabase(p) /\ Dropped(p, name)
    BY <1>2 DEF DropIndex, NotFoundSkip, Skip, Absent, Only, state
  <2> DEFINE entry == WithoutIndex(EntryAt(p), name)
             coll == [CollectionAt(p) EXCEPT !.indexes = Drop(@, name)]
  <2>2. databases' = WithObject(p, coll) /\ catalog' = WithEntry(p, entry)
    BY <2>1 DEF Dropped
  <2>3. p \in Places
    BY LocatedPlaces
  <2>4. EntryOK(EntryAt(p)) /\ CollectionOK(CollectionAt(p)) /\ SaysWhatIs(EntryAt(p), CollectionAt(p))
    BY <2>1, <2>3, PlaceEntry, ObjectOK, PlaceAgrees
  <2>5. SaysWhatIs(entry, coll) /\ entry.name = EntryAt(p).name
    BY <2>4, WithoutIndexSays
  <2> HIDE DEF entry, coll
  <2>6. /\ Reentered(p, entry)
        /\ Reheld([Current.collections EXCEPT ![Own(p)] = coll])
    BY <2>1, <2>2, <2>3, EntryWritten, ObjectWritten
  <2> QED
    BY <2>1, <2>3, <2>5, <2>6, AgreeTouched
<1> QED
  BY <1>1, <1>2

LEMMA VIndexesAgree ==
  ASSUME TInv, Filled, Agree, NEW id, NEW name, NEW column,
         CreateVIndex(id, name, column) \/ DropVIndex(id, name)
  PROVE  Agree'
<1>1. CASE UNCHANGED <<catalog, databases>>
  BY <1>1, AgreeIs, AgreeNext
<1>2. CASE ~UNCHANGED <<catalog, databases>>
  <2>1. PICK p \in Located(id) :
          /\ \/ catalog' = WithEntry(p, WithVIndex(EntryAt(p), name, Resolved(p, column)))
             \/ catalog' = WithEntry(p, WithoutVIndex(EntryAt(p), name))
          /\ UNCHANGED databases
    BY <1>2 DEF CreateVIndex, DropVIndex, NotFound, NotFoundSkip, Skip, Only, state
  <2>2. p \in Places
    BY LocatedPlaces
  <2>3. EntryOK(EntryAt(p))
    BY <2>2, PlaceEntry
  <2>4. ASSUME NEW entry, catalog' = WithEntry(p, entry), entry.name = EntryAt(p).name,
               entry.columns = EntryAt(p).columns,
               entry.index_entries = EntryAt(p).index_entries
        PROVE  Agree'
    <3>1. Reentered(p, entry)
      BY <2>2, <2>4, EntryWritten
    <3> QED
      BY <2>1, <2>2, <2>4, <3>1, AgreeReentered
  <2> DEFINE added == WithVIndex(EntryAt(p), name, Resolved(p, column))
             removed == WithoutVIndex(EntryAt(p), name)
  <2>5. /\ added.name = EntryAt(p).name /\ added.columns = EntryAt(p).columns
        /\ added.index_entries = EntryAt(p).index_entries
    BY <2>3 DEF WithVIndex, EntryOK, EntryFields
  <2>6. /\ removed.name = EntryAt(p).name /\ removed.columns = EntryAt(p).columns
        /\ removed.index_entries = EntryAt(p).index_entries
    BY <2>3 DEF WithoutVIndex, EntryOK, EntryFields
  <2>7. catalog' = WithEntry(p, added) \/ catalog' = WithEntry(p, removed)
    BY <2>1
  <2> HIDE DEF added, removed
  <2> QED
    BY <2>4, <2>5, <2>6, <2>7
<1> QED
  BY <1>1, <1>2

LEMMA InsertAgrees ==
  ASSUME TInv, Filled, Agree, NEW id, NEW names, Insert(id, names)
  PROVE  Agree'
<1>1. CASE UNCHANGED <<catalog, databases>>
  BY <1>1, AgreeIs, AgreeNext
<1>2. CASE ~UNCHANGED <<catalog, databases>>
  <2>1. PICK p \in Located(id), accepted \in BOOLEAN :
          /\ InDatabase(p) /\ UNCHANGED catalog
          /\ databases' = WithObject(p, Stored(CollectionAt(p), accepted))
    <3>1. PICK p \in Located(id) :
            LET collection == CollectionAt(p)
                fields == {Resolved(p, n) : n \in names}
            IN
            /\ InDatabase(p) /\ UNCHANGED catalog
            /\ \E constants \in BOOLEAN :
                 LET accepted == constants /\ Accepts(collection, fields) IN
                 databases' = WithObject(p, Stored(collection, accepted))
      BY <1>2 DEF Insert, NotFound, Absent, Only, state
    <3> DEFINE fits == Accepts(CollectionAt(p), {Resolved(p, n) : n \in names})
    <3>2. PICK constants \in BOOLEAN :
            databases' = WithObject(p, Stored(CollectionAt(p), constants /\ fits))
      BY <3>1
    <3>3. (constants /\ fits) \in BOOLEAN
      OBVIOUS
    <3> HIDE DEF fits
    <3> QED
      BY <3>1, <3>2, <3>3
  <2> DEFINE coll == Stored(CollectionAt(p), accepted)
             entry == EntryAt(p)
  <2>2. p \in Places
    BY LocatedPlaces
  <2>3. CollectionOK(CollectionAt(p)) /\ SaysWhatIs(entry, CollectionAt(p))
    BY <2>1, <2>2, ObjectOK, PlaceAgrees
  <2>4. coll.schema = CollectionAt(p).schema /\ coll.indexes = CollectionAt(p).indexes
    BY <2>3 DEF Stored, CollectionOK, CollectionFields
  <2>5. databases' = WithObject(p, coll)
    BY <2>1
  <2> HIDE DEF coll
  <2>6. SaysWhatIs(entry, coll)
    BY <2>3, <2>4 DEF SaysWhatIs
  <2>7. Reentered(p, entry)
    BY <2>1, <2>2 DEF Reentered, Places, EntryAt
  <2>8. Reheld([Current.collections EXCEPT ![Own(p)] = coll])
    BY <2>1, <2>5, ObjectWritten
  <2> HIDE DEF entry
  <2> QED
    BY <2>1, <2>2, <2>6, <2>7, <2>8, AgreeTouched DEF entry
<1> QED
  BY <1>1, <1>2

LEMMA ColumnsAlter ==
  ASSUME NEW id, OnColumns(id)
  PROVE  answer'.op \in Alters
<1>1. ASSUME NEW op \in Alters, NEW p, NEW i, NEW columns, AlterAt(op, p, i, columns)
      PROVE  answer'.op \in Alters
  BY <1>1, EndedStatus DEF AlterAt, Absent, Only, Crash
<1>2. ASSUME NEW op \in Alters, NotFound(op, id) PROVE answer'.op \in Alters
  BY <1>2, EndedStatus DEF NotFound, Only
<1>3. "alter_add" \in Alters /\ "alter_drop" \in Alters /\ "alter_modify" \in Alters
        /\ "alter_rename" \in Alters
  BY DEF Alters
<1>4. ASSUME NEW name, AlterDropColumn(id, name) PROVE answer'.op \in Alters
  BY <1>1, <1>2, <1>3, <1>4 DEF AlterDropColumn
<1>5. ASSUME NEW name, NEW type, AlterModifyColumn(id, name, type) PROVE answer'.op \in Alters
  BY <1>1, <1>2, <1>3, <1>5 DEF AlterModifyColumn
<1>6. ASSUME NEW name, NEW new_name, AlterRenameColumn(id, name, new_name)
      PROVE  answer'.op \in Alters
  BY <1>1, <1>2, <1>3, <1>6, EndedStatus DEF AlterRenameColumn, Only
<1>7. ASSUME NEW name, NEW type, AlterAddColumn(id, name, type) PROVE answer'.op \in Alters
  BY <1>2, <1>3, <1>7, EndedStatus DEF AlterAddColumn, Absent, Only
<1> QED
  BY <1>4, <1>5, <1>6, <1>7 DEF OnColumns

LEMMA StepAgrees ==
  ASSUME TInv, Next, answer'.op \notin Alters, answer'.status # "throw", Filled, Agree, Filled'
  PROVE  Agree'
<1>1. CASE UNCHANGED <<catalog, databases>>
  BY <1>1, AgreeIs, AgreeNext
<1>2. CASE OnDatabases /\ ~UNCHANGED <<catalog, databases>>
  BY <1>2, CreateDatabaseAgrees, DropDatabaseAgrees, CreateCollectionAgrees
     DEF OnDatabases, Use, ShowCollections, ShowDatabases, ShowCurrentCollections, Only, state
<1>3. ASSUME NEW id, OnCollection(id), ~UNCHANGED <<catalog, databases>> PROVE Agree'
  <2>1. CASE OnIndexes(id)
    BY <2>1, CreateIndexAgrees, DropIndexAgrees, VIndexesAgree DEF OnIndexes
  <2>2. CASE Describe(id)
    BY <1>3, <2>2 DEF Describe, Only, state
  <2> QED
    BY <1>3, <2>1, <2>2, DropCollectionAgrees, ColumnsAlter, InsertAgrees DEF OnCollection
<1>4. CASE UpdateOrDelete \/ ShowIndexes
  BY <1>1, <1>4 DEF UpdateOrDelete, ShowIndexes, Only, state
<1> QED
  BY <1>1, <1>2, <1>3, <1>4 DEF Next

(* Catalog and databases disagree after an ALTER, which changes the        *)
(* catalog only, and after a CREATE that an exception ends, and after      *)
(* nothing else that the executor does.                                    *)
THEOREM OnlyAlterEverDiverges == Spec => OnlyAlterDiverges
<1>1. ASSUME TInv, [Next]_vars
      PROVE  [ answer'.op \notin Alters /\ answer'.status # "throw" /\ Sound /\ Agree /\ Sound'
                 => Agree' ]_vars
  BY <1>1, StepAgrees DEF Sound
<1> QED
  BY <1>1, TypesHold, PTL DEF Spec, OnlyAlterDiverges

-----------------------------------------------------------------------------
(* Columns and fields.  Where the indexes are the places, a name leads to  *)
(* the field at the position that the map has for it.                      *)

InPlace(columns) == \A i \in DOMAIN columns.entries : columns.entries[i].index = i - 1

Leads(columns, schema) ==
  \A n \in DOMAIN columns.positions :
    LET f == columns.positions[n] IN
    f \in DOMAIN columns.entries /\ f \in DOMAIN schema => schema[f].name = n

Fits(entry, held) ==
  /\ InPlace(entry.columns)
  /\ entry.name \in DOMAIN held => Leads(entry.columns, held[entry.name].schema)

HeldIn(d) == databases[catalog.entries[d].id].collections

Fitting ==
  \A d \in DOMAIN catalog.entries :
    \A c \in DOMAIN catalog.entries[d].collections.entries : Fits(Entry(d, c), HeldIn(d))

LEMMA LeadsIs ==
  ASSUME NEW entry, ColumnsOK(entry.columns), InPlace(entry.columns), NEW coll
  PROVE  KeepsField(entry, coll) <=> Leads(entry.columns, coll.schema)
<1>1. ASSUME NEW n, Found(entry.columns, n)
      PROVE  Get(entry.columns, n).index + 1 = entry.columns.positions[n]
  <2> DEFINE q == entry.columns.positions[n]
  <2>1. DOMAIN entry.columns.entries = 1..Len(entry.columns.entries)
          /\ Len(entry.columns.entries) \in Nat
    BY ListFacts DEF ColumnsOK, IsDir
  <2>2. q \in DOMAIN entry.columns.entries
    BY <1>1 DEF Found
  <2>3. Get(entry.columns, n).index = q - 1
    BY <2>2 DEF Get, InPlace
  <2> HIDE DEF q
  <2>4. q \in Nat
    BY <2>1, <2>2
  <2>5. q - 1 + 1 = q
    BY <2>4
  <2> QED
    BY <2>3, <2>5 DEF q
<1>2. \A n : Found(entry.columns, n) <=> /\ n \in DOMAIN entry.columns.positions
                                         /\ entry.columns.positions[n] \in DOMAIN entry.columns.entries
  BY DEF Found, Has
<1> QED
  BY <1>1, <1>2 DEF KeepsField, Leads

LEMMA FittingIs ==
  ASSUME TInv, FieldsKept, IndexesPlaced
  PROVE  Fitting
<1> SUFFICES ASSUME NEW d \in DOMAIN catalog.entries,
                    NEW c \in DOMAIN catalog.entries[d].collections.entries
             PROVE  Fits(Entry(d, c), HeldIn(d))
  BY DEF Fitting
<1>1. InPlace(Entry(d, c).columns)
  BY DEF IndexesPlaced, ColumnsAt, InPlace, Entry
<1>2. Entry(d, c).name \in DOMAIN HeldIn(d) => KeepsField(Entry(d, c), HeldIn(d)[Entry(d, c).name])
  BY DEF FieldsKept, Entry, HeldIn
<1>3. ColumnsOK(Entry(d, c).columns)
  BY EntriesOK DEF Entry, EntryOK
<1> QED
  BY <1>1, <1>2, <1>3, LeadsIs DEF Fits

LEMMA FittingNext ==
  ASSUME TInv',
         \A d \in DOMAIN catalog'.entries :
           \A c \in DOMAIN catalog'.entries[d].collections.entries :
             Fits(catalog'.entries[d].collections.entries[c],
                  databases'[catalog'.entries[d].id].collections)
  PROVE  FieldsKept' /\ IndexesPlaced'
<1>1. ASSUME NEW d \in DOMAIN catalog'.entries,
             NEW c \in DOMAIN catalog'.entries[d].collections.entries
      PROVE  LET entry == catalog'.entries[d].collections.entries[c]
                 held == databases'[catalog'.entries[d].id].collections
             IN
             /\ InPlace(entry.columns)
             /\ entry.name \in DOMAIN held => KeepsField(entry, held[entry.name])
  <2> DEFINE entry == catalog'.entries[d].collections.entries[c]
             held == databases'[catalog'.entries[d].id].collections
  <2>1. CatalogOK(catalog')
    BY DEF TInv
  <2>2. DatabaseOK(catalog'.entries[d])
    BY <2>1 DEF CatalogOK, Members
  <2>3. EntryOK(entry)
    BY <2>2 DEF DatabaseOK, ListingOK, Members
  <2>4. Fits(entry, held)
    BY <1>1
  <2> HIDE DEF entry, held
  <2>5. InPlace(entry.columns) /\ (entry.name \in DOMAIN held => KeepsField(entry, held[entry.name]))
    BY <2>3, <2>4, LeadsIs DEF Fits, EntryOK
  <2> QED
    BY <2>5 DEF entry, held
<1>2. FieldsKept'
  BY <1>1 DEF FieldsKept
<1>3. IndexesPlaced'
  BY <1>1 DEF IndexesPlaced, ColumnsAt, InPlace
<1> QED
  BY <1>2, <1>3

(* What the collections of the databases are, in what columns they have.   *)
SchemasStay ==
  \A id \in DOMAIN databases :
    /\ DOMAIN databases'[id].collections = DOMAIN databases[id].collections
    /\ \A n \in DOMAIN databases[id].collections :
         databases'[id].collections[n].schema = databases[id].collections[n].schema

LEMMA ObjectsStay ==
  ASSUME NEW p, InDatabase(p), NEW coll, coll.schema = CollectionAt(p).schema,
         Reheld([Current.collections EXCEPT ![Own(p)] = coll])
  PROVE  SchemasStay
<1> DEFINE held == [Current.collections EXCEPT ![Own(p)] = coll]
<1>1. /\ DOMAIN held = DOMAIN Current.collections
      /\ \A n \in DOMAIN held : held[n].schema = Current.collections[n].schema
  BY DEF CollectionAt, InDatabase
<1>2. Reheld(held)
  OBVIOUS
<1> HIDE DEF held
<1> QED
  BY <1>1, <1>2 DEF Reheld, SchemasStay, Current

(* An entry that still fits, and all others as they were.                  *)
LEMMA FitsReentered ==
  ASSUME TInv, TInv', Filled, Fitting, NEW p \in Places, NEW entry, Reentered(p, entry),
         entry.name = EntryAt(p).name, Fits(entry, HeldIn(p[1])), SchemasStay
  PROVE  FieldsKept' /\ IndexesPlaced'
<1>1. ASSUME NEW d \in DOMAIN catalog'.entries,
             NEW c \in DOMAIN catalog'.entries[d].collections.entries
      PROVE  Fits(catalog'.entries[d].collections.entries[c],
                  databases'[catalog'.entries[d].id].collections)
  <2> DEFINE new == catalog'.entries[d].collections.entries[c]
             now == databases'[catalog'.entries[d].id].collections
  <2>1. /\ d \in DOMAIN catalog.entries /\ c \in DOMAIN catalog.entries[d].collections.entries
        /\ catalog'.entries[d].id = catalog.entries[d].id
        /\ new = IF d = p[1] /\ c = p[2] THEN entry ELSE Entry(d, c)
    BY <1>1 DEF Reentered, Entry
  <2>2. Fits(Entry(d, c), HeldIn(d))
    BY <2>1 DEF Fitting
  <2>3. Fits(new, HeldIn(d))
    BY <2>1, <2>2
  <2>4. /\ DOMAIN now = DOMAIN HeldIn(d)
        /\ \A n \in DOMAIN HeldIn(d) : now[n].schema = HeldIn(d)[n].schema
    <3> DEFINE id == catalog.entries[d].id
    <3>1. id \in DOMAIN databases /\ catalog'.entries[d].id = id
      BY <2>1, FilledEntry
    <3>2. now = databases'[id].collections /\ HeldIn(d) = databases[id].collections
      BY <3>1 DEF HeldIn
    <3> HIDE DEF id, now
    <3> QED
      BY <3>1, <3>2 DEF SchemasStay
  <2> HIDE DEF new, now
  <2>5. Fits(new, now)
    BY <2>3, <2>4 DEF Fits
  <2> QED
    BY <2>5 DEF new, now
<1> QED
  BY <1>1, FittingNext

LEMMA PlaceFits ==
  ASSUME TInv, Fitting, NEW p \in Places
  PROVE  Fits(EntryAt(p), HeldIn(p[1]))
BY PlaceEntry DEF Fitting, Entry, Siblings

(* An entry with the same columns fits as the one before it did.           *)
LEMMA FitsAlike ==
  ASSUME TInv, TInv', Filled, Fitting, NEW p \in Places, NEW entry, Reentered(p, entry),
         entry.name = EntryAt(p).name, entry.columns = EntryAt(p).columns, SchemasStay
  PROVE  FieldsKept' /\ IndexesPlaced'
<1>1. Fits(entry, HeldIn(p[1]))
  BY PlaceFits DEF Fits
<1> QED
  BY <1>1, FitsReentered

LEMMA FittingStays ==
  ASSUME TInv, TInv', Fitting, UNCHANGED <<catalog, databases>>
  PROVE  FieldsKept' /\ IndexesPlaced'
BY FittingNext DEF Fitting, Entry, HeldIn

LEMMA CreateDatabaseFits ==
  ASSUME TInv, TInv', Filled, Fitting, NEW name, CreateDatabase(name)
  PROVE  FieldsKept' /\ IndexesPlaced'
<1>1. CASE UNCHANGED <<catalog, databases>>
  BY <1>1, FittingStays
<1>2. CASE ~UNCHANGED <<catalog, databases>>
  <2>1. PICK id \in DatabaseIds, own \in {UnsetName, name} :
          /\ catalog' = Added(catalog, DatabaseEntry(name, id, own))
          /\ databases' = IF id \in DOMAIN databases THEN databases
                          ELSE Put(databases, id, Database(name))
    BY <1>2 DEF CreateDatabase, Skip, Only, state
  <2> DEFINE entry == DatabaseEntry(name, id, own)
  <2>2. IsDir(catalog, DatabaseNames)
    BY EntriesOK
  <2>3. /\ Len(catalog.entries) \in Nat /\ DOMAIN catalog.entries = 1..Len(catalog.entries)
        /\ catalog.entries \in Seq(Members(catalog.entries))
    BY <2>2, ListFacts DEF IsDir
  <2>4. entry.id = id /\ entry.collections = EmptyDirectory
    BY DEF DatabaseEntry
  <2>5. catalog'.entries = Append(catalog.entries, entry)
    BY <2>1 DEF Added
  <2> HIDE DEF entry
  <2>6. /\ DOMAIN catalog'.entries = 1 .. Len(catalog.entries) + 1
        /\ catalog'.entries[Len(catalog.entries) + 1] = entry
        /\ \A d \in DOMAIN catalog.entries : catalog'.entries[d] = catalog.entries[d]
    BY <2>3, <2>5
  <2>7. \A i \in DOMAIN databases : databases'[i] = databases[i]
    BY <2>1 DEF Put
  <2>8. ASSUME NEW d \in DOMAIN catalog'.entries,
               NEW c \in DOMAIN catalog'.entries[d].collections.entries
        PROVE  Fits(catalog'.entries[d].collections.entries[c],
                    databases'[catalog'.entries[d].id].collections)
    <3>1. CASE d \in DOMAIN catalog.entries
      BY <2>6, <2>7, <3>1, FilledEntry DEF Fitting, Entry, HeldIn
    <3>2. CASE d \notin DOMAIN catalog.entries
      <4>1. d = Len(catalog.entries) + 1
        BY <2>3, <2>6, <3>2
      <4>2. DOMAIN EmptyDirectory.entries = {}
        BY DEF EmptyDirectory
      <4> QED
        BY <2>4, <2>6, <4>1, <4>2
    <3> QED
      BY <3>1, <3>2
  <2> QED
    BY <2>8, FittingNext
<1> QED
  BY <1>1, <1>2

LEMMA DropDatabaseFits ==
  ASSUME TInv, TInv', Filled, Filled', Fitting, NEW id, DropDatabase(id)
  PROVE  FieldsKept' /\ IndexesPlaced'
<1>1. CASE UNCHANGED <<catalog, databases>>
  BY <1>1, FittingStays
<1>2. CASE ~UNCHANGED <<catalog, databases>>
  <2>1. catalog' = Unlisted(id) /\ databases' = Drop(databases, id)
    BY <1>2 DEF DropDatabase, Skip, Crash, Only, state
  <2>2. \A i \in DOMAIN databases' : databases'[i] = databases[i]
    BY <2>1 DEF Drop
  <2>3. ASSUME NEW d \in DOMAIN catalog'.entries,
               NEW c \in DOMAIN catalog'.entries[d].collections.entries
        PROVE  Fits(catalog'.entries[d].collections.entries[c],
                    databases'[catalog'.entries[d].id].collections)
    <3>1. PICK e \in DOMAIN catalog.entries : catalog'.entries[d] = catalog.entries[e]
      BY <2>1, UnlistedMembers
    <3>2. catalog'.entries[d].id \in {catalog'.entries[f].id : f \in DOMAIN catalog'.entries}
      OBVIOUS
    <3>3. catalog'.entries[d].id \in DOMAIN databases'
      BY <3>2 DEF Filled
    <3> QED
      BY <2>2, <3>1, <3>3 DEF Fitting, Entry, HeldIn
  <2> QED
    BY <2>3, FittingNext
<1> QED
  BY <1>1, <1>2

(* The listing of the current database and what it holds change together.  *)
LEMMA FitsRelisted ==
  ASSUME TInv, TInv', Filled, Fitting, NEW d \in DOMAIN catalog.entries,
         catalog.entries[d].id = current, NEW dir, NEW held,
         \A entry \in Members(dir.entries) : Fits(entry, held),
         Relisted(d, dir), Reheld(held)
  PROVE  FieldsKept' /\ IndexesPlaced'
<1>1. ASSUME NEW e \in DOMAIN catalog'.entries,
             NEW c \in DOMAIN catalog'.entries[e].collections.entries
      PROVE  Fits(catalog'.entries[e].collections.entries[c],
                  databases'[catalog'.entries[e].id].collections)
  <2>1. e \in DOMAIN catalog.entries /\ catalog'.entries[e].id = catalog.entries[e].id
    BY DEF Relisted
  <2>2. catalog.entries[e].id \in DOMAIN databases
    BY <2>1, FilledEntry
  <2>3. CASE e = d
    <3>1. catalog'.entries[e].collections = dir
      BY <2>1, <2>3 DEF Relisted
    <3>2. dir.entries[c] \in Members(dir.entries)
      BY <3>1 DEF Members
    <3>3. databases'[catalog'.entries[e].id].collections = held
      BY <2>1, <2>2, <2>3 DEF Reheld
    <3> QED
      BY <3>1, <3>2, <3>3
  <2>4. CASE e # d
    <3>1. catalog.entries[e].id # current
      BY <2>1, <2>4, OneEntry
    <3>2. catalog'.entries[e].collections = catalog.entries[e].collections
      BY <2>1, <2>4 DEF Relisted
    <3>3. databases'[catalog'.entries[e].id].collections = HeldIn(e)
      BY <2>1, <2>2, <3>1 DEF Reheld, HeldIn
    <3>4. Fits(Entry(e, c), HeldIn(e))
      BY <2>1, <3>2 DEF Fitting
    <3> QED
      BY <3>2, <3>3, <3>4 DEF Entry
  <2> QED
    BY <2>3, <2>4
<1> QED
  BY <1>1, FittingNext

LEMMA CurrentFits ==
  ASSUME Fitting, NEW d \in DOMAIN catalog.entries, catalog.entries[d].id = current
  PROVE  \A entry \in Members(catalog.entries[d].collections.entries) :
           Fits(entry, Current.collections)
BY DEF Fitting, Members, Entry, HeldIn, Current

LEMMA ColumnsFit ==
  ASSUME NEW schema \in Schemas
  PROVE  InPlace(Columns(schema)) /\ Leads(Columns(schema), schema)
<1> DEFINE cols == Columns(schema)
<1>1. /\ DOMAIN cols.entries = DOMAIN schema
      /\ \A i \in DOMAIN schema : cols.entries[i] = ColumnEntry(schema[i].name, schema[i].type, i - 1)
      /\ DOMAIN cols.positions = {schema[i].name : i \in DOMAIN schema}
      /\ \A n \in DOMAIN cols.positions :
           cols.positions[n] = CHOOSE i \in DOMAIN schema : schema[i].name = n
  BY DEF Columns
<1> HIDE DEF cols
<1>2. InPlace(cols)
  <2>1. \A name, type, i : ColumnEntry(name, type, i).index = i
    BY DEF ColumnEntry
  <2> QED
    BY <1>1, <2>1 DEF InPlace
<1>3. Leads(cols, schema)
  <2>1. ASSUME NEW n \in DOMAIN cols.positions PROVE schema[cols.positions[n]].name = n
    <3>1. \E i \in DOMAIN schema : schema[i].name = n
      BY <1>1
    <3> QED
      BY <1>1, <3>1
  <2> QED
    BY <2>1 DEF Leads
<1> QED
  BY <1>2, <1>3 DEF cols

LEMMA CreateCollectionFits ==
  ASSUME TInv, TInv', Filled, Fitting, NEW name \in CollectionNames, NEW schema \in Schemas,
         CreateCollection(name, schema), answer'.status = "ok"
  PROVE  FieldsKept' /\ IndexesPlaced'
<1>1. CASE UNCHANGED <<catalog, databases>>
  BY <1>1, FittingStays
<1>2. CASE ~UNCHANGED <<catalog, databases>>
  <2> DEFINE d == catalog.positions[Current.name]
             old == catalog.entries[d].collections
  <2>1. /\ HasCurrent
        /\ databases' = [databases EXCEPT
                           ![current].collections = Put(@, name, NewCollection(schema))]
        /\ \/ Ended("create_collection", "failure")
           \/ Ended("create_collection", "throw")
           \/ /\ ~EntryThrows(Get(catalog, Current.name).collections, name, schema)
              /\ \E id \in CollectionIds, own \in {UnsetName, name} :
                   catalog' = [catalog EXCEPT
                     !.entries[d].collections =
                       Added(@, [CollectionEntry(name, id, own) EXCEPT !.columns = Columns(schema)])]
    BY <1>2 DEF CreateCollection, Skip, Only, state
  <2>2. d \in DOMAIN catalog.entries /\ catalog.entries[d].id = current
    BY <2>1, CurrentListed
  <2>3. ~Ended("create_collection", "failure") /\ ~Ended("create_collection", "throw")
    BY EndedStatus
  <2>4. PICK id \in CollectionIds, own \in {UnsetName, name} :
          catalog' = [catalog EXCEPT
            !.entries[d].collections =
              Added(@, [CollectionEntry(name, id, own) EXCEPT !.columns = Columns(schema)])]
    BY <2>1, <2>3
  <2>5. ~EntryThrows(Get(catalog, Current.name).collections, name, schema)
    BY <2>1, <2>3
  <2>6. ~EntryThrows(old, name, schema)
    BY <2>5 DEF Get
  <2> DEFINE entry == [CollectionEntry(name, id, own) EXCEPT !.columns = Columns(schema)]
             coll == NewCollection(schema)
             dir == Added(old, entry)
             held == Put(Current.collections, name, coll)
  <2>7. entry.name = name /\ entry.columns = Columns(schema)
    BY DEF CollectionEntry
  <2>8. coll.schema = schema
    BY DEF NewCollection
  <2>9. IsDir(old, CollectionNames)
    BY <2>2, EntriesOK DEF ListingOK
  <2>10. ~Has(old, name) /\ Placed(old)
    BY <2>2, <2>6, FilledEntry DEF EntryThrows
  <2>11. \A e \in Members(old.entries) : e.name # name
    BY <2>10 DEF Placed, Has, NamesOf, Members
  <2>12. \A e \in Members(old.entries) : Fits(e, Current.collections)
    BY <2>2, CurrentFits
  <2>13. catalog' = [catalog EXCEPT !.entries[d].collections = dir]
    BY <2>4
  <2>14. databases' = [databases EXCEPT ![current].collections = held]
    BY <2>1 DEF Current
  <2> HIDE DEF entry, coll, old
  <2>15. Members(dir.entries) \subseteq Members(old.entries) \cup {entry}
    BY <2>7, <2>9, AddedIs
  <2>16. /\ DOMAIN held = DOMAIN Current.collections \cup {name} /\ held[name] = coll
         /\ \A n \in DOMAIN Current.collections : n # name => held[n] = Current.collections[n]
    BY DEF Put
  <2> HIDE DEF dir, held, d
  <2>17. ASSUME NEW e \in Members(dir.entries) PROVE Fits(e, held)
    <3>1. CASE e = entry
      <4>1. Leads(entry.columns, held[entry.name].schema) /\ InPlace(entry.columns)
        BY <2>7, <2>8, <2>16, ColumnsFit
      <4> QED
        BY <3>1, <4>1 DEF Fits
    <3>2. CASE e \in Members(old.entries)
      BY <2>11, <2>12, <2>16, <3>2 DEF Fits
    <3> QED
      BY <2>15, <3>1, <3>2
  <2>18. Relisted(d, dir) /\ Reheld(held)
    BY <2>1, <2>2, <2>13, <2>14, ListingWritten, HeldWritten
  <2> QED
    BY <2>2, <2>17, <2>18, FitsRelisted
<1> QED
  BY <1>1, <1>2

LEMMA DropCollectionFits ==
  ASSUME TInv, TInv', Filled, Fitting, NEW id, DropCollection(id)
  PROVE  FieldsKept' /\ IndexesPlaced'
<1>1. CASE UNCHANGED <<catalog, databases>>
  BY <1>1, FittingStays
<1>2. CASE ~UNCHANGED <<catalog, databases>>
  <2>1. PICK p \in Located(id) :
          /\ InDatabase(p)
          /\ databases' = [databases EXCEPT ![current].collections = Drop(@, Own(p))]
          /\ catalog' = IF Has(Siblings(p), Own(p))
                        THEN [catalog EXCEPT !.entries[p[1]].collections = Removed(@, Own(p))]
                        ELSE catalog
    BY <1>2 DEF DropCollection, NotFoundSkip, Absent, Crash, Skip, Only, state
  <2>2. p \in Places
    BY LocatedPlaces
  <2> DEFINE d == p[1]
             name == Own(p)
             old == catalog.entries[d].collections
             dir == Removed(old, name)
             held == Drop(Current.collections, name)
  <2>3. /\ d \in DOMAIN catalog.entries /\ name \in DOMAIN old.positions
        /\ catalog.entries[d].id = current /\ HasCurrent
    BY <2>1, <2>2, PlaceListed DEF Siblings
  <2>4. IsDir(old, CollectionNames)
    BY <2>3, EntriesOK DEF ListingOK
  <2>5. \A e \in Members(old.entries) : Fits(e, Current.collections)
    BY <2>3, CurrentFits
  <2>6. catalog' = [catalog EXCEPT !.entries[d].collections = dir]
    BY <2>1, <2>3 DEF Has, Siblings
  <2>7. databases' = [databases EXCEPT ![current].collections = held]
    BY <2>1 DEF Current
  <2>8. \A n \in DOMAIN held : n \in DOMAIN Current.collections /\ held[n] = Current.collections[n]
    BY DEF Drop
  <2> HIDE DEF old, name, held
  <2>9. Members(dir.entries) \subseteq Members(old.entries)
    BY <2>4, RemovedIs
  <2>10. \A e \in Members(dir.entries) : Fits(e, held)
    BY <2>5, <2>8, <2>9 DEF Fits
  <2> HIDE DEF dir, d
  <2>11. Relisted(d, dir) /\ Reheld(held)
    BY <2>3, <2>6, <2>7, ListingWritten, HeldWritten
  <2> QED
    BY <2>3, <2>10, <2>11, FitsRelisted
<1> QED
  BY <1>1, <1>2

(* The calls that change indexes or rows only.                             *)
LEMMA IndexesFit ==
  ASSUME TInv, TInv', Filled, Fitting, NEW id, OnIndexes(id), answer'.status = "ok"
  PROVE  FieldsKept' /\ IndexesPlaced'
<1>1. CASE UNCHANGED <<catalog, databases>>
  BY <1>1, FittingStays
<1>2. ASSUME NEW p \in Places, InDatabase(p), NEW entry, catalog' = WithEntry(p, entry),
             entry.name = EntryAt(p).name, entry.columns = EntryAt(p).columns,
             NEW coll, databases' = WithObject(p, coll), coll.schema = CollectionAt(p).schema
      PROVE  FieldsKept' /\ IndexesPlaced'
  BY <1>2, EntryWritten, ObjectWritten, ObjectsStay, FitsAlike
<1>3. ASSUME NEW p \in Places, NEW entry, catalog' = WithEntry(p, entry),
             entry.name = EntryAt(p).name, entry.columns = EntryAt(p).columns,
             UNCHANGED databases
      PROVE  FieldsKept' /\ IndexesPlaced'
  <2>1. SchemasStay
    BY <1>3 DEF SchemasStay
  <2> QED
    BY <1>3, <2>1, EntryWritten, FitsAlike
<1>4. ASSUME NEW name, NEW names, CreateIndex(id, name, names), ~UNCHANGED <<catalog, databases>>
      PROVE  FieldsKept' /\ IndexesPlaced'
  <2>1. PICK p \in Located(id) :
          LET fields == Bound(p, names)
              collection == CollectionAt(p)
          IN
          /\ InDatabase(p)
          /\ \/ /\ databases' = WithObject(p, Indexed(collection, name, fields, collection.rows))
                /\ catalog' = WithEntry(p, WithIndex(EntryAt(p), name, fields))
             \/ Ended("create_index", "throw")
    BY <1>4 DEF CreateIndex, NotFound, Skip, Absent, Only, state
  <2> DEFINE fields == Bound(p, names)
             entry == WithIndex(EntryAt(p), name, fields)
             coll == Indexed(CollectionAt(p), name, fields, CollectionAt(p).rows)
  <2>2. databases' = WithObject(p, coll) /\ catalog' = WithEntry(p, entry)
    BY <2>1, EndedStatus
  <2>3. p \in Places
    BY LocatedPlaces
  <2>4. entry.name = EntryAt(p).name /\ entry.columns = EntryAt(p).columns
    BY <2>3, PlaceEntry DEF WithIndex, EntryOK, EntryFields
  <2>5. coll.schema = CollectionAt(p).schema
    BY <2>1, ObjectOK DEF Indexed, CollectionOK, CollectionFields
  <2> HIDE DEF entry, coll, fields
  <2> QED
    BY <1>2, <2>1, <2>2, <2>3, <2>4, <2>5
<1>5. ASSUME NEW name, DropIndex(id, name), ~UNCHANGED <<catalog, databases>>
      PROVE  FieldsKept' /\ IndexesPlaced'
  <2>1. PICK p \in Located(id) : InDatabase(p) /\ Dropped(p, name)
    BY <1>5 DEF DropIndex, NotFoundSkip, Skip, Absent, Only, state
  <2> DEFINE entry == WithoutIndex(EntryAt(p), name)
             coll == [CollectionAt(p) EXCEPT !.indexes = Drop(@, name)]
  <2>2. databases' = WithObject(p, coll) /\ catalog' = WithEntry(p, entry)
    BY <2>1 DEF Dropped
  <2>3. p \in Places
    BY LocatedPlaces
  <2>4. entry.name = EntryAt(p).name /\ entry.columns = EntryAt(p).columns
    BY <2>3, PlaceEntry DEF WithoutIndex, EntryOK, EntryFields
  <2>5. coll.schema = CollectionAt(p).schema
    BY <2>1, ObjectOK DEF CollectionOK, CollectionFields
  <2> HIDE DEF entry, coll
  <2> QED
    BY <1>2, <2>1, <2>2, <2>3, <2>4, <2>5
<1>6. ASSUME NEW name, NEW column, CreateVIndex(id, name, column) \/ DropVIndex(id, name),
             ~UNCHANGED <<catalog, databases>>
      PROVE  FieldsKept' /\ IndexesPlaced'
  <2>1. PICK p \in Located(id) :
          /\ \/ catalog' = WithEntry(p, WithVIndex(EntryAt(p), name, Resolved(p, column)))
             \/ catalog' = WithEntry(p, WithoutVIndex(EntryAt(p), name))
          /\ UNCHANGED databases
    BY <1>6 DEF CreateVIndex, DropVIndex, NotFound, NotFoundSkip, Skip, Only, state
  <2>2. p \in Places
    BY LocatedPlaces
  <2> DEFINE added == WithVIndex(EntryAt(p), name, Resolved(p, column))
             removed == WithoutVIndex(EntryAt(p), name)
  <2>3. added.name = EntryAt(p).name /\ added.columns = EntryAt(p).columns
    BY <2>2, PlaceEntry DEF WithVIndex, EntryOK, EntryFields
  <2>4. removed.name = EntryAt(p).name /\ removed.columns = EntryAt(p).columns
    BY <2>2, PlaceEntry DEF WithoutVIndex, EntryOK, EntryFields
  <2>5. catalog' = WithEntry(p, added) \/ catalog' = WithEntry(p, removed)
    BY <2>1
  <2> HIDE DEF added, removed
  <2> QED
    BY <1>3, <2>1, <2>2, <2>3, <2>4, <2>5
<1> QED
  BY <1>1, <1>4, <1>5, <1>6 DEF OnIndexes

LEMMA InsertFits ==
  ASSUME TInv, TInv', Filled, Fitting, NEW id, NEW names, Insert(id, names)
  PROVE  FieldsKept' /\ IndexesPlaced'
<1>1. CASE UNCHANGED <<catalog, databases>>
  BY <1>1, FittingStays
<1>2. CASE ~UNCHANGED <<catalog, databases>>
  <2>1. PICK p \in Located(id) :
          /\ InDatabase(p) /\ UNCHANGED catalog
          /\ \E accepted : databases' = WithObject(p, Stored(CollectionAt(p), accepted))
    BY <1>2 DEF Insert, NotFound, Absent, Only, state
  <2>2. PICK accepted : databases' = WithObject(p, Stored(CollectionAt(p), accepted))
    BY <2>1
  <2> DEFINE coll == Stored(CollectionAt(p), accepted)
             entry == EntryAt(p)
  <2>3. p \in Places
    BY LocatedPlaces
  <2>4. coll.schema = CollectionAt(p).schema
    BY <2>1, ObjectOK DEF Stored, CollectionOK, CollectionFields
  <2>5. databases' = WithObject(p, coll)
    BY <2>2
  <2> HIDE DEF coll
  <2>6. Reentered(p, entry)
    BY <2>1, <2>3 DEF Reentered, Places, EntryAt
  <2>7. SchemasStay
    BY <2>1, <2>4, <2>5, ObjectWritten, ObjectsStay
  <2>8. entry.name = EntryAt(p).name /\ entry.columns = EntryAt(p).columns
    OBVIOUS
  <2> HIDE DEF entry
  <2> QED
    BY <2>3, <2>6, <2>7, <2>8, FitsAlike
<1> QED
  BY <1>1, <1>2

-----------------------------------------------------------------------------
(* ALTER.                                                                  *)

LEMMA AlteredFits ==
  ASSUME TInv, TInv', Filled, Fitting, NEW p \in Places, NEW columns,
         catalog' = WithColumns(p, columns), UNCHANGED databases, InPlace(columns),
         EntryAt(p).name \in DOMAIN HeldIn(p[1]) =>
           Leads(columns, HeldIn(p[1])[EntryAt(p).name].schema)
  PROVE  FieldsKept' /\ IndexesPlaced'
<1> DEFINE entry == [EntryAt(p) EXCEPT !.columns = columns]
<1>1. entry.name = EntryAt(p).name /\ entry.columns = columns
  BY PlaceEntry DEF EntryOK, EntryFields
<1>2. catalog' = WithEntry(p, entry)
  BY DEF WithColumns
<1> HIDE DEF entry
<1>3. Reentered(p, entry) /\ Fits(entry, HeldIn(p[1]))
  BY <1>1, <1>2, EntryWritten DEF Fits
<1>4. SchemasStay
  BY DEF SchemasStay
<1> QED
  BY <1>1, <1>3, <1>4, FitsReentered

(* What ALTER makes of the columns at p, and of no others.                 *)
LEMMA ColumnsWritten ==
  ASSUME TInv, NEW p \in Places, NEW columns, catalog' = WithColumns(p, columns)
  PROVE  /\ p[1] \in DOMAIN catalog.entries
         /\ p[2] \in DOMAIN catalog.entries[p[1]].collections.entries
         /\ ColumnsAt(p[1], p[2]) = EntryAt(p).columns.entries
         /\ ColumnsAt(p[1], p[2])' = columns.entries
<1> DEFINE entry == [EntryAt(p) EXCEPT !.columns = columns]
<1>1. entry.columns = columns
  BY PlaceEntry DEF EntryOK, EntryFields
<1>2. catalog' = WithEntry(p, entry)
  BY DEF WithColumns
<1> HIDE DEF entry
<1>3. Reentered(p, entry)
  BY <1>2, EntryWritten
<1>4. p[1] \in DOMAIN catalog.entries /\ p[2] \in DOMAIN catalog.entries[p[1]].collections.entries
  BY PlaceEntry DEF Siblings
<1>5. catalog'.entries[p[1]].collections.entries[p[2]] = entry
  BY <1>3, <1>4 DEF Reentered
<1> QED
  BY <1>1, <1>4, <1>5 DEF ColumnsAt, EntryAt

LEMMA AddFits ==
  ASSUME TInv, TInv', Filled, Fitting, ~AddsAfterDrop, NEW id, NEW name, NEW type,
         AlterAddColumn(id, name, type), answer'.status = "ok"
  PROVE  FieldsKept' /\ IndexesPlaced'
<1>1. CASE UNCHANGED <<catalog, databases>>
  BY <1>1, FittingStays
<1>2. CASE ~UNCHANGED <<catalog, databases>>
  <2>1. PICK p \in Located(id) :
          LET columns == EntryAt(p).columns IN
          /\ catalog' = WithColumns(p, Added(columns, ColumnEntry(name, type, Len(columns.entries))))
          /\ UNCHANGED databases
          /\ Ended("alter_add", "ok")
    BY <1>2 DEF AlterAddColumn, NotFound, Absent, Only, state
  <2>2. p \in Places
    BY LocatedPlaces
  <2> DEFINE columns == EntryAt(p).columns
             n == Len(columns.entries)
             entry == ColumnEntry(name, type, n)
             new == Added(columns, entry)
             schema == HeldAt(p[1], p[2]).schema
  <2>3. IsDir(columns, ColumnNames)
    BY <2>2, PlaceEntry DEF EntryOK, ColumnsOK
  <2>4. /\ n \in Nat /\ DOMAIN columns.entries = 1..n
        /\ columns.entries \in Seq(Members(columns.entries))
    BY <2>3, ListFacts DEF IsDir
  <2>5. entry.name = name /\ entry.index = n
    BY DEF ColumnEntry
  <2>6. new.entries = Append(columns.entries, entry) /\ new.positions = Put(columns.positions, name, n + 1)
    BY <2>5 DEF Added
  <2>7. catalog' = WithColumns(p, new)
    BY <2>1
  <2> HIDE DEF new, entry
  <2>8. /\ DOMAIN new.entries = 1 .. n + 1 /\ new.entries[n + 1] = entry /\ Len(new.entries) = n + 1
        /\ \A i \in 1..n : new.entries[i] = columns.entries[i]
    BY <2>4, <2>6
  <2>9. Fits(EntryAt(p), HeldIn(p[1])) /\ EntryAt(p) = Entry(p[1], p[2])
    BY <2>2, PlaceFits DEF EntryAt, Entry
  <2>10. new.entries # columns.entries
    BY <2>4, <2>8
  <2>11. ~(n < Len(schema))
    <3>1. /\ p[1] \in DOMAIN catalog.entries
          /\ p[2] \in DOMAIN catalog.entries[p[1]].collections.entries
          /\ ColumnsAt(p[1], p[2]) = columns.entries
          /\ ColumnsAt(p[1], p[2])' = new.entries
      BY <2>2, <2>7, ColumnsWritten
    <3>2. answer'.op = "alter_add"
      BY <2>1, EndedStatus
    <3> HIDE DEF columns, schema
    <3> SUFFICES ASSUME n < Len(schema) PROVE FALSE
      OBVIOUS
    <3>3. /\ ColumnsAt(p[1], p[2])' # ColumnsAt(p[1], p[2])
          /\ Len(ColumnsAt(p[1], p[2])) < Len(HeldAt(p[1], p[2]).schema)
      BY <2>10, <3>1 DEF schema
    <3>4. AddsAfterDrop
      BY <3>1, <3>2, <3>3 DEF AddsAfterDrop, SomeCollection
    <3> QED
      BY <3>4
  <2>12. InPlace(columns)
    BY <2>9 DEF Fits
  <2>13. InPlace(new)
    <3> SUFFICES ASSUME NEW i \in 1 .. n + 1 PROVE new.entries[i].index = i - 1
      BY <2>8 DEF InPlace
    <3> HIDE DEF columns, n
    <3>1. CASE i = n + 1
      <4>1. i - 1 = n
        BY <2>4, <3>1
      <4>2. new.entries[i] = entry
        BY <2>8, <3>1
      <4>3. entry.index = n
        BY <2>5
      <4> QED
        BY <4>1, <4>2, <4>3
    <3>2. CASE i # n + 1
      <4>1. i \in 1..n
        BY <2>4, <3>2
      <4> QED
        BY <2>4, <2>8, <2>12, <4>1 DEF InPlace
    <3> QED
      BY <3>1, <3>2
  <2>14. ASSUME EntryAt(p).name \in DOMAIN HeldIn(p[1])
         PROVE  Leads(new, HeldIn(p[1])[EntryAt(p).name].schema)
    <3>1. HeldIn(p[1])[EntryAt(p).name].schema = schema
      BY <2>9 DEF HeldAt, HeldIn, Entry
    <3>2. Leads(columns, schema)
      BY <2>9, <2>14, <3>1 DEF Fits
    <3>3. CollectionOK(HeldIn(p[1])[EntryAt(p).name])
      <4>1. catalog.entries[p[1]].id \in DOMAIN databases
        BY <2>2, PlaceEntry, FilledEntry
      <4> QED
        BY <2>14, <4>1 DEF TInv, DatabasesOK, HeldOK, HeldIn
    <3>4. schema \in Seq([name : ColumnNames, type : Types, nullable : BOOLEAN])
      BY <3>1, <3>3, ExecutorAssumption DEF CollectionOK
    <3>5. Len(schema) \in Nat /\ DOMAIN schema = 1..Len(schema)
      BY <3>4
    <3> HIDE DEF columns, schema, n
    <3>6. n + 1 \notin DOMAIN schema
      BY <2>4, <2>11, <3>5
    <3>7. /\ DOMAIN new.positions = DOMAIN columns.positions \cup {name}
          /\ new.positions[name] = n + 1
          /\ \A x \in DOMAIN columns.positions : x # name => new.positions[x] = columns.positions[x]
      BY <2>6 DEF Put
    <3>8. ASSUME NEW x \in DOMAIN new.positions, new.positions[x] \in DOMAIN new.entries,
                 new.positions[x] \in DOMAIN schema
          PROVE  schema[new.positions[x]].name = x
      <4>1. x # name
        BY <3>6, <3>7, <3>8
      <4>2. x \in DOMAIN columns.positions /\ new.positions[x] = columns.positions[x]
        BY <3>7, <3>8, <4>1
      <4>3. new.positions[x] # n + 1
        BY <3>6, <3>8
      <4>4. new.positions[x] \in 1..n
        BY <2>4, <2>8, <3>8, <4>3
      <4> QED
        BY <2>4, <3>2, <3>8, <4>2, <4>4 DEF Leads
    <3>9. Leads(new, schema)
      BY <3>8 DEF Leads
    <3> QED
      BY <3>1, <3>9
  <2> HIDE DEF columns, n, schema
  <2> QED
    BY <2>1, <2>2, <2>7, <2>13, <2>14, AlteredFits
<1> QED
  BY <1>1, <1>2

LEMMA DropFits ==
  ASSUME TInv, TInv', Filled, Fitting, ~DropsEarly, NEW id, NEW name,
         AlterDropColumn(id, name), answer'.status = "ok"
  PROVE  FieldsKept' /\ IndexesPlaced'
<1>1. CASE UNCHANGED <<catalog, databases>>
  BY <1>1, FittingStays
<1>2. CASE ~UNCHANGED <<catalog, databases>>
  <2>1. PICK p \in Located(id) :
          LET column_id == Resolved(p, name) IN
          AlterAt("alter_drop", p, column_id, Removed(EntryAt(p).columns, At(p, column_id).name))
    BY <1>2 DEF AlterDropColumn, NotFound, Only, state
  <2> DEFINE columns == EntryAt(p).columns
             gone == At(p, Resolved(p, name)).name
             new == Removed(columns, gone)
             n == Len(columns.entries)
  <2>2. catalog' = WithColumns(p, new) /\ UNCHANGED databases /\ Ended("alter_drop", "ok")
    BY <1>2, <2>1 DEF AlterAt, Absent, Crash, Only, state
  <2>3. p \in Places
    BY LocatedPlaces
  <2>4. IsDir(columns, ColumnNames)
    BY <2>3, PlaceEntry DEF EntryOK, ColumnsOK
  <2>5. n \in Nat /\ DOMAIN columns.entries = 1..n
    BY <2>4, ListFacts DEF IsDir
  <2>6. DOMAIN new.entries = 1 .. n - 1
    BY DEF Removed, Erased
  <2>7. /\ DOMAIN new.positions \subseteq DOMAIN columns.positions
        /\ \A x \in DOMAIN new.positions : new.positions[x] = columns.positions[x]
    BY DEF Removed, Drop
  <2>8. Fits(EntryAt(p), HeldIn(p[1]))
    BY <2>3, PlaceFits
  <2> HIDE DEF gone, new
  <2>9. \A i \in DOMAIN new.entries : new.entries[i] = columns.entries[i]
    <3>1. /\ p[1] \in DOMAIN catalog.entries
          /\ p[2] \in DOMAIN catalog.entries[p[1]].collections.entries
          /\ ColumnsAt(p[1], p[2]) = columns.entries
          /\ ColumnsAt(p[1], p[2])' = new.entries
      BY <2>2, <2>3, ColumnsWritten
    <3>2. answer'.op = "alter_drop"
      BY <2>2, EndedStatus
    <3> HIDE DEF columns
    <3> SUFFICES ASSUME NEW i \in DOMAIN new.entries, new.entries[i] # columns.entries[i]
                 PROVE  FALSE
      OBVIOUS
    <3>3. \E j \in DOMAIN ColumnsAt(p[1], p[2])' :
            ColumnsAt(p[1], p[2])'[j] # ColumnsAt(p[1], p[2])[j]
      BY <3>1
    <3>4. DropsEarly
      BY <3>1, <3>2, <3>3 DEF DropsEarly, SomeCollection
    <3> QED
      BY <3>4
  <2>10. DOMAIN new.entries \subseteq DOMAIN columns.entries
    <3> HIDE DEF columns, n
    <3> QED
      BY <2>5, <2>6
  <2>11. InPlace(new)
    BY <2>8, <2>9, <2>10 DEF Fits, InPlace
  <2>12. EntryAt(p).name \in DOMAIN HeldIn(p[1]) =>
           Leads(new, HeldIn(p[1])[EntryAt(p).name].schema)
    BY <2>7, <2>8, <2>10 DEF Fits, Leads
  <2> HIDE DEF columns, n
  <2> QED
    BY <2>2, <2>3, <2>11, <2>12, AlteredFits
<1> QED
  BY <1>1, <1>2

(* The column at the index that a name resolves to is the one that its own *)
(* name leads to, and a new definition takes its place.                    *)
LEMMA RedefinedFits ==
  ASSUME TInv, TInv', Filled, Fitting, NoneShadowed, NEW p \in Places, NEW name,
         Found(EntryAt(p).columns, name), NEW new_name, NEW type,
         Has(EntryAt(p).columns, At(p, Resolved(p, name)).name),
         catalog' = WithColumns(p, Redefined(p, Resolved(p, name), new_name, type)),
         UNCHANGED databases
  PROVE  FieldsKept' /\ IndexesPlaced'
<1> DEFINE columns == EntryAt(p).columns
           column_id == Resolved(p, name)
           old_name == At(p, column_id).name
           k == columns.positions[name]
           entry == ColumnEntry(new_name, type, column_id)
           new == Redefined(p, column_id, new_name, type)
<1>1. IsDir(columns, ColumnNames)
  BY PlaceEntry DEF EntryOK, ColumnsOK
<1>2. Len(columns.entries) \in Nat /\ DOMAIN columns.entries = 1..Len(columns.entries)
  BY <1>1, ListFacts DEF IsDir
<1>3. Fits(EntryAt(p), HeldIn(p[1]))
  BY PlaceFits
<1>4. InPlace(columns)
  BY <1>3 DEF Fits
<1>5. k \in DOMAIN columns.entries
  BY DEF Found
<1>6. column_id = k - 1
  BY <1>4, <1>5 DEF Resolved, Get, InPlace
<1>7. column_id + 1 = k
  <2> HIDE DEF columns, k, column_id
  <2> QED
    BY <1>2, <1>5, <1>6
<1>8. old_name = columns.entries[k].name
  <2>1. old_name = columns.entries[column_id + 1].name
    BY DEF At
  <2> HIDE DEF columns, k, column_id, old_name
  <2> QED
    BY <1>7, <2>1
<1>9. Has(columns, old_name)
  OBVIOUS
<1>10. columns.positions[old_name] = k
  <2>1. p[1] \in DOMAIN catalog.entries /\ p[2] \in DOMAIN catalog.entries[p[1]].collections.entries
    BY PlaceEntry DEF Siblings
  <2>2. ~Shadowed(columns)
    BY <2>1 DEF NoneShadowed, EntryAt
  <2> HIDE DEF columns, k, old_name
  <2> QED
    BY <1>5, <1>8, <1>9, <2>2 DEF Shadowed
<1>11. new = Modified(columns, old_name, entry)
  BY DEF Redefined
<1>12. entry.index = column_id
  BY DEF ColumnEntry
<1> HIDE DEF columns, k, old_name, entry, new, column_id
<1>13. new = [columns EXCEPT !.entries[k] = entry]
  BY <1>5, <1>9, <1>10, <1>11 DEF Modified, Found
<1>14. /\ DOMAIN new.entries = DOMAIN columns.entries /\ new.positions = columns.positions
       /\ \A i \in DOMAIN new.entries : new.entries[i] = IF i = k THEN entry ELSE columns.entries[i]
  <2>1. columns = [entries |-> columns.entries, positions |-> columns.positions]
    BY <1>1 DEF IsDir
  <2> QED
    BY <1>13, <2>1
<1>15. InPlace(new)
  BY <1>4, <1>6, <1>12, <1>14 DEF InPlace
<1>16. EntryAt(p).name \in DOMAIN HeldIn(p[1]) =>
         Leads(new, HeldIn(p[1])[EntryAt(p).name].schema)
  BY <1>3, <1>14 DEF Fits, Leads, columns
<1>17. catalog' = WithColumns(p, new)
  BY DEF new, column_id
<1> QED
  BY <1>15, <1>16, <1>17, AlteredFits

LEMMA ModifyFits ==
  ASSUME TInv, TInv', Filled, Fitting, NoneShadowed, NEW id, NEW name, NEW type,
         AlterModifyColumn(id, name, type)
  PROVE  FieldsKept' /\ IndexesPlaced'
<1>1. CASE UNCHANGED <<catalog, databases>>
  BY <1>1, FittingStays
<1>2. CASE ~UNCHANGED <<catalog, databases>>
  <2>1. PICK p \in Located(id) :
          LET column_id == Resolved(p, name) IN
          /\ Resolves(p, {name})
          /\ AlterAt("alter_modify", p, column_id, Redefined(p, column_id, name, type))
    BY <1>2 DEF AlterModifyColumn, NotFound, Only, state
  <2>2. /\ catalog' = WithColumns(p, Redefined(p, Resolved(p, name), name, type))
        /\ UNCHANGED databases /\ Has(EntryAt(p).columns, At(p, Resolved(p, name)).name)
    BY <1>2, <2>1 DEF AlterAt, Absent, Crash, Only, state
  <2>3. p \in Places /\ Found(EntryAt(p).columns, name)
    BY <2>1, LocatedPlaces DEF Resolves
  <2> QED
    BY <2>2, <2>3, RedefinedFits
<1> QED
  BY <1>1, <1>2

LEMMA RenameFits ==
  ASSUME TInv, TInv', Filled, Fitting, NoneShadowed, NEW id, NEW name, NEW new_name,
         AlterRenameColumn(id, name, new_name)
  PROVE  FieldsKept' /\ IndexesPlaced'
<1>1. CASE UNCHANGED <<catalog, databases>>
  BY <1>1, FittingStays
<1>2. CASE ~UNCHANGED <<catalog, databases>>
  <2>1. PICK p \in Located(id) :
          LET column_id == Resolved(p, name) IN
          /\ Resolves(p, {name})
          /\ AlterAt("alter_rename", p, column_id,
                     Redefined(p, column_id, new_name, At(p, column_id).type))
    BY <1>2 DEF AlterRenameColumn, NotFound, Only, state
  <2> DEFINE type == At(p, Resolved(p, name)).type
  <2>2. /\ catalog' = WithColumns(p, Redefined(p, Resolved(p, name), new_name, type))
        /\ UNCHANGED databases /\ Has(EntryAt(p).columns, At(p, Resolved(p, name)).name)
    BY <1>2, <2>1 DEF AlterAt, Absent, Crash, Only, state
  <2>3. p \in Places /\ Found(EntryAt(p).columns, name)
    BY <2>1, LocatedPlaces DEF Resolves
  <2> HIDE DEF type
  <2> QED
    BY <2>2, <2>3, RedefinedFits
<1> QED
  BY <1>1, <1>2

LEMMA StepFits ==
  ASSUME TInv, Next, answer'.status = "ok", Filled, Filled', ~DropsEarly, ~AddsAfterDrop,
         FieldsKept, IndexesPlaced, NoneShadowed
  PROVE  FieldsKept' /\ IndexesPlaced'
<1>1. TInv' /\ Fitting
  BY NextOK, FittingIs
<1>2. CASE UNCHANGED <<catalog, databases>>
  BY <1>1, <1>2, FittingStays
<1>3. CASE OnDatabases /\ ~UNCHANGED <<catalog, databases>>
  BY <1>1, <1>3, CreateDatabaseFits, DropDatabaseFits, CreateCollectionFits
     DEF OnDatabases, Use, ShowCollections, ShowDatabases, ShowCurrentCollections, Only, state
<1>4. ASSUME NEW id, OnCollection(id), ~UNCHANGED <<catalog, databases>>
      PROVE  FieldsKept' /\ IndexesPlaced'
  <2>1. CASE OnColumns(id)
    BY <1>1, <2>1, AddFits, DropFits, ModifyFits, RenameFits DEF OnColumns
  <2>2. CASE Describe(id)
    BY <1>4, <2>2 DEF Describe, Only, state
  <2> QED
    BY <1>1, <1>4, <2>1, <2>2, DropCollectionFits, IndexesFit, InsertFits DEF OnCollection
<1>5. CASE UpdateOrDelete \/ ShowIndexes
  BY <1>2, <1>5 DEF UpdateOrDelete, ShowIndexes, Only, state
<1> QED
  BY <1>2, <1>3, <1>4, <1>5 DEF Next

(* A name leads to its own field of the rows, and an entry is at the index *)
(* that it stores, until DROP COLUMN moves one or ADD COLUMN follows one.  *)
THEOREM OnlyDropsEverMoveFields == Spec => OnlyDropsMoveFields
<1>1. ASSUME TInv, [Next]_vars
      PROVE  [ answer'.status = "ok" /\ Filled /\ Filled' /\ ~DropsEarly /\ ~AddsAfterDrop
                 /\ FieldsKept /\ IndexesPlaced /\ NoneShadowed
                 => FieldsKept' /\ IndexesPlaced' ]_vars
  BY <1>1, StepFits
<1> QED
  BY <1>1, TypesHold, PTL DEF Spec, OnlyDropsMoveFields
=============================================================================
