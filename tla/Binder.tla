------------------------------- MODULE Binder -------------------------------
(***************************************************************************)
(* The binder (src/src/binder/binder.cpp): it turns a parsed statement     *)
(* into a bound one by resolving its names in the catalog.  A Binder       *)
(* object keeps a BinderContext between statements: the database chosen by *)
(* USE and the collection that unqualified column references are resolved  *)
(* against.  Statements arrive one at a time, while other sessions create  *)
(* and drop databases and collections in the catalog.                      *)
(*                                                                         *)
(* A bind_* function either returns a bound statement or throws.  An       *)
(* exception leaves the context as it was at the throw.                    *)
(***************************************************************************)
EXTENDS Naturals, Sequences, FiniteSets

CONSTANTS
  DatabaseIds,      \* every database id the catalog ever hands out
  CollectionIds,    \* every collection id the catalog ever hands out
  DatabaseNames,    \* database names
  CollectionNames,  \* collection names
  ColumnNames,      \* column names
  IndexNames,       \* names of scalar and vector indexes
  DatabaseName,     \* the name of a database id
  Home,             \* the database a collection id belongs to
  CollectionName,   \* the name of a collection id
  Columns,          \* the columns of a collection id, in table order
  Indexes,          \* the names of a collection's scalar indexes
  VIndexes,         \* the names of a collection's vector indexes
  Exprs,            \* the expressions statements are made of
  ColumnDefs,       \* the column definitions of CREATE and ALTER
  WithOptions,      \* the options of CREATE VINDEX
  MaxList,          \* bound on the lists of a statement (columns, values, ...)
  NONE              \* std::nullopt

(* A column reference of the grammar: column, collection.column or         *)
(* database.collection.column.                                             *)
ColumnRefs ==
  { r \in [database   : DatabaseNames \cup {NONE},
           collection : CollectionNames \cup {NONE},
           column     : ColumnNames] :
      r.collection = NONE => r.database = NONE }

(* A column_info_t: its id is the position in the table.                   *)
ColumnInfos == [name : ColumnNames, nullable : BOOLEAN]

ASSUME NamesAssumption ==
  /\ NONE \notin DatabaseIds \cup CollectionIds
  /\ NONE \notin DatabaseNames \cup CollectionNames \cup ColumnNames \cup IndexNames
  /\ NONE \notin Exprs
  /\ MaxList \in Nat

ASSUME CatalogAssumption ==
  /\ DatabaseName \in [DatabaseIds -> DatabaseNames]
  /\ Home \in [CollectionIds -> DatabaseIds]
  /\ CollectionName \in [CollectionIds -> CollectionNames]
  /\ Columns \in [CollectionIds -> Seq(ColumnInfos)]
  /\ \A c \in CollectionIds : \A i, j \in DOMAIN Columns[c] :
       Columns[c][i].name = Columns[c][j].name => i = j
  /\ Indexes \in [CollectionIds -> SUBSET IndexNames]
  /\ VIndexes \in [CollectionIds -> SUBSET IndexNames]

(* An expression is what bind_expression tells apart: the column           *)
(* references in it, and whether it is malformed (a vector literal with an *)
(* element that is not a numeric constant).                                *)
ASSUME ExprsAssumption ==
  Exprs \subseteq [refs : SUBSET ColumnRefs, malformed : BOOLEAN]

(* Column definitions: malformed stands for an unknown type, a bad type    *)
(* argument or a repeated modifier; default for the DEFAULT expression.    *)
ASSUME ColumnDefsAssumption ==
  ColumnDefs \subseteq
    [name : ColumnNames, malformed : BOOLEAN, default : Exprs \cup {NONE}]

(* An option of WITH is valid when its value is the right literal: an      *)
(* integer that is not negative, or the name of a metric.                  *)
ASSUME WithOptionsAssumption ==
  WithOptions \subseteq
    [key : {"m", "nlist", "ef_construction", "metric", "unknown"}, valid : BOOLEAN]

VARIABLES
  catalog,   \* which databases and collections exist
  context,   \* Binder::context_
  result     \* what the last bind() returned or threw

vars == <<catalog, context, result>>

Phases == {"future", "live", "dropped"}
Kinds == {"none", "ALTER", "CREATE DATABASE", "CREATE COLLECTION",
          "CREATE INDEX", "CREATE VINDEX", "DELETE", "DESCRIBE",
          "DROP DATABASE", "DROP COLLECTION", "DROP INDEX", "DROP VINDEX",
          "INSERT", "SELECT", "SHOW DATABASES", "SHOW COLLECTIONS",
          "SHOW INDEXES", "SHOW VINDEXES", "UPDATE", "USE"}

(* A bound column reference carries a column id; ref and collection record *)
(* which reference it was made from and where it was found.                *)
BoundRefs == [ref : ColumnRefs, collection : CollectionIds, column : Nat]

(* items: the columns the statement writes, selects or names, each with    *)
(* the position of its value in the VALUES list (0 when it has none).      *)
Results ==
  [status     : {"none", "bound", "error", "aborted"},
   kind       : Kinds,
   database   : DatabaseIds \cup {NONE},
   collection : CollectionIds \cup {NONE},
   items      : SUBSET (Nat \X Nat),
   refs       : SUBSET BoundRefs]

Bound(kind, database, collection, items, refs) ==
  [status |-> "bound", kind |-> kind, database |-> database,
   collection |-> collection, items |-> items, refs |-> refs]

NotBound(status, kind) ==
  [status |-> status, kind |-> kind, database |-> NONE,
   collection |-> NONE, items |-> {}, refs |-> {}]

EmptyContext == [database_name |-> NONE, database_id |-> NONE, collection_id |-> NONE]

Contexts == [database_name : DatabaseNames \cup {NONE},
             database_id   : DatabaseIds \cup {NONE},
             collection_id : CollectionIds \cup {NONE}]

TypeOK ==
  /\ catalog \in [databases : [DatabaseIds -> Phases],
                  collections : [CollectionIds -> Phases]]
  /\ context \in Contexts
  /\ result \in Results

-----------------------------------------------------------------------------
(* The catalog, an interface (CatalogReader) implemented outside the       *)
(* binder.  The operators return NONE for std::nullopt.                    *)

LiveDatabases == {d \in DatabaseIds : catalog.databases[d] = "live"}
LiveCollections == {c \in CollectionIds : catalog.collections[c] = "live"}

Pick(S) == IF S = {} THEN NONE ELSE CHOOSE x \in S : TRUE

resolve_database(name) == Pick({d \in LiveDatabases : DatabaseName[d] = name})

resolve_collection(d, name) ==
  Pick({c \in LiveCollections : Home[c] = d /\ CollectionName[c] = name})

(* The column's position, 0 when the collection or the column is missing.  *)
resolve_column(c, name) ==
  IF c \in LiveCollections /\ \E i \in DOMAIN Columns[c] : Columns[c][i].name = name
  THEN CHOOSE i \in DOMAIN Columns[c] : Columns[c][i].name = name
  ELSE 0

-----------------------------------------------------------------------------
(* bind_expression.                                                        *)

RefDatabase(ref) ==
  IF ref.database = NONE THEN context.database_id ELSE resolve_database(ref.database)

(* Bug: the collection of an earlier statement wins over this one's.       *)
RefCollectionStale(ref, ctx) ==
  IF RefDatabase(ref) = NONE THEN NONE
  ELSE IF ref.collection = NONE
    THEN IF context.collection_id # NONE THEN context.collection_id ELSE ctx
  ELSE resolve_collection(RefDatabase(ref), ref.collection)

(* The collection a reference is looked up in, NONE if that throws; ctx is *)
(* context_.current_collection_id while the expression is being bound.     *)
RefCollection(ref, ctx) ==
  IF RefDatabase(ref) = NONE THEN NONE
  ELSE IF ref.collection = NONE THEN ctx
  ELSE resolve_collection(RefDatabase(ref), ref.collection)

RefBinds(ref, ctx) ==
  /\ RefCollection(ref, ctx) # NONE
  /\ resolve_column(RefCollection(ref, ctx), ref.column) # 0

(* Bug: a reference that does not resolve is bound all the same.           *)
BindsUnresolved(expr, ctx) == ~expr.malformed

(* bind_expression returns (rather than throws).                           *)
Binds(expr, ctx) == ~expr.malformed /\ \A ref \in expr.refs : RefBinds(ref, ctx)

BoundRefsOf(expr, ctx) ==
  { [ref |-> ref, collection |-> RefCollection(ref, ctx),
     column |-> resolve_column(RefCollection(ref, ctx), ref.column)] : ref \in expr.refs }

AllBind(exprs, ctx) == \A e \in exprs : Binds(e, ctx)
AllRefs(exprs, ctx) == UNION {BoundRefsOf(e, ctx) : e \in exprs}

(* An optional expression as the set bind_expression is called on.         *)
Optional(e) == {e} \ {NONE}

-----------------------------------------------------------------------------
(* The shape shared by the handlers.                                       *)

Lists(S) == UNION {[1..n -> S] : n \in 0..MaxList}

(* Nothing is bound any more once an assertion has ended the process.      *)
Running == result.status # "aborted"

(* Bug: the database is left out of the lookup.                            *)
NamedCollectionAnywhere(name) ==
  IF context.database_id = NONE THEN NONE
  ELSE Pick({c \in LiveCollections : CollectionName[c] = name})

(* Bug: the collection of the context is reused without asking the catalog.*)
NamedCollectionCached(name) ==
  LET c == context.collection_id IN
  IF context.database_id = NONE THEN NONE
  ELSE IF c # NONE /\ Home[c] = context.database_id /\ CollectionName[c] = name THEN c
  ELSE resolve_collection(context.database_id, name)

(* A collection named by the statement, in the current database; NONE when *)
(* the database is not set or the name does not resolve (both throw).      *)
NamedCollection(name) ==
  IF context.database_id = NONE THEN NONE
  ELSE resolve_collection(context.database_id, name)

Return(bound) == Running /\ result' = bound /\ UNCHANGED <<catalog, context>>
Throw(kind) == Return(NotBound("error", kind))

(* A throw between setting current_collection_id and restoring it.         *)
ThrowInside(kind, collection) ==
  /\ Running
  /\ result' = NotBound("error", kind)
  /\ context' = [context EXCEPT !.collection_id = collection]
  /\ UNCHANGED catalog

(* Bug: a return that forgets to put old_collection_id back.               *)
ReturnUnrestored(bound) ==
  /\ Running
  /\ result' = bound
  /\ context' = [context EXCEPT !.collection_id = bound.collection]
  /\ UNCHANGED catalog

(* old_collection_id has been put back.                                    *)
ReturnRestored(bound) ==
  /\ Running
  /\ result' = bound
  /\ UNCHANGED <<catalog, context>>

-----------------------------------------------------------------------------
(* SELECT: exprs are the select items, WHERE, GROUP BY, HAVING and ORDER   *)
(* BY expressions; star expands to every column of the collection.         *)
BindSelect(name, star, exprs) ==
  LET c == NamedCollection(name)
      items == IF star THEN {<<i, i>> : i \in DOMAIN Columns[c]} ELSE {}
  IN
  \/ c = NONE /\ Throw("SELECT")
  \/ c # NONE /\ ~AllBind(exprs, c) /\ ThrowInside("SELECT", c)
  \/ /\ c # NONE /\ AllBind(exprs, c)
     /\ ReturnRestored(Bound("SELECT", context.database_id, c, items, AllRefs(exprs, c)))

(* DELETE, with or without WHERE.                                          *)
BindDelete(name, where) ==
  LET c == NamedCollection(name) IN
  \/ c = NONE /\ Throw("DELETE")
  \/ c # NONE /\ ~AllBind(Optional(where), c) /\ ThrowInside("DELETE", c)
  \/ /\ c # NONE /\ AllBind(Optional(where), c)
     /\ ReturnRestored(Bound("DELETE", context.database_id, c, {},
                             AllRefs(Optional(where), c)))

(* UPDATE: targets[i] is assigned values[i].  A column may be assigned     *)
(* once only.                                                              *)
BindUpdate(name, targets, values, where) ==
  LET c == NamedCollection(name)
      exprs == {values[i] : i \in DOMAIN targets} \cup Optional(where)
      column(i) == resolve_column(c, targets[i])
      ok == /\ \A i \in DOMAIN targets : column(i) # 0
            /\ \A i, j \in DOMAIN targets : column(i) = column(j) => i = j
            /\ AllBind(exprs, c)
  IN
  \/ c = NONE /\ Throw("UPDATE")
  \/ c # NONE /\ ~ok /\ ThrowInside("UPDATE", c)
  \/ /\ c # NONE /\ ok
     /\ ReturnRestored(Bound("UPDATE", context.database_id, c,
                             {<<column(i), i>> : i \in DOMAIN targets},
                             AllRefs(exprs, c)))

-----------------------------------------------------------------------------
(* INSERT.                                                                 *)

NotNull(c) == {k \in DOMAIN Columns[c] : ~Columns[c][k].nullable}

(* Bug: the columns of the list are not checked for repetition.            *)
ColumnListRepeats(c, names) ==
  \A i \in DOMAIN names : \E k \in DOMAIN Columns[c] : Columns[c][k].name = names[i]

(* With a column list: no name twice, every name a column.                 *)
ColumnListOk(c, names) ==
  /\ \A i, j \in DOMAIN names : names[i] = names[j] => i = j
  /\ \A i \in DOMAIN names : \E k \in DOMAIN Columns[c] : Columns[c][k].name = names[i]

(* The items of an INSERT with a column list: each listed column, in table *)
(* order, takes the value at the position of its name.                     *)
ListedItems(c, names) ==
  {p \in (DOMAIN Columns[c]) \X (DOMAIN names) : Columns[c][p[1]].name = names[p[2]]}

(* The items of an INSERT without one: n values go to the NOT NULL columns *)
(* when there are n of those, else to all the columns, in table order.     *)
PositionalItems(c, n) ==
  LET taking == IF n = Cardinality(NotNull(c)) THEN NotNull(c) ELSE DOMAIN Columns[c]
  IN  {<<k, Cardinality({j \in taking : j <= k})>> : k \in taking}

ValueCountOk(c, n) == n \in {Cardinality(NotNull(c)), Len(Columns[c])}

(* value_at(position) asserts that the position is one of the values'.     *)
(* Without assertions it reads past the vector: either way the binder does *)
(* not go on.                                                              *)
ValueMissing(item, values) == item[2] \notin DOMAIN values

(* Binding item goes wrong; the first such item in table order decides how.*)
Stops(item, values, c) == ValueMissing(item, values) \/ ~Binds(values[item[2]], c)

Aborts(items, values, c) ==
  \E p \in items : /\ ValueMissing(p, values)
                   /\ \A q \in items : q[1] < p[1] => ~Stops(q, values, c)

InsertItems(c, names, values) ==
  IF names = <<>> THEN PositionalItems(c, Len(values)) ELSE ListedItems(c, names)

InsertShapeOk(c, names, values) ==
  IF names = <<>> THEN ValueCountOk(c, Len(values)) ELSE ColumnListOk(c, names)

(* Every NOT NULL column is given a value; checked after the values are    *)
(* bound.                                                                  *)
CoversNotNull(c, items) == NotNull(c) \subseteq {p[1] : p \in items}

BindInsert(name, names, values) ==
  LET c == NamedCollection(name)
      items == InsertItems(c, names, values)
      shape == InsertShapeOk(c, names, values)
      exprs == {values[p[2]] : p \in items}
      ok == shape /\ (\A p \in items : ~Stops(p, values, c)) /\ CoversNotNull(c, items)
  IN
  \/ c = NONE /\ Throw("INSERT")
  \/ /\ c # NONE /\ shape /\ Aborts(items, values, c)
     /\ Return(NotBound("aborted", "INSERT"))
  \/ /\ c # NONE /\ ~ok /\ ~(shape /\ Aborts(items, values, c))
     /\ ThrowInside("INSERT", c)
  \/ /\ c # NONE /\ ok
     /\ ReturnRestored(Bound("INSERT", context.database_id, c, items, AllRefs(exprs, c)))

-----------------------------------------------------------------------------
DefBinds(def, ctx) == ~def.malformed /\ AllBind(Optional(def.default), ctx)
DefRefs(def, ctx) == AllRefs(Optional(def.default), ctx)

(* ALTER COLLECTION: ok and items are the operation's own, evaluated with  *)
(* the collection in context.                                              *)
BindAlter(c, ok, items, refs) ==
  \/ c = NONE /\ Throw("ALTER")
  \/ c # NONE /\ ~ok /\ ThrowInside("ALTER", c)
  \/ /\ c # NONE /\ ok
     /\ ReturnRestored(Bound("ALTER", context.database_id, c, items, refs))

BindAlterAddColumn(name, def) ==
  LET c == NamedCollection(name)
  IN  BindAlter(c, DefBinds(def, c), {}, DefRefs(def, c))

(* DROP COLUMN and RENAME COLUMN resolve the old name only.                *)
BindAlterColumn(name, column) ==
  LET c == NamedCollection(name)
      k == resolve_column(c, column)
  IN  BindAlter(c, k # 0, {<<k, 1>>}, {})

BindAlterModifyColumn(name, def) ==
  LET c == NamedCollection(name)
      k == resolve_column(c, def.name)
  IN  BindAlter(c, k # 0 /\ DefBinds(def, c), {<<k, 1>>}, DefRefs(def, c))

(* CREATE DATABASE resolves nothing.                                       *)
BindCreateDatabase == Return(Bound("CREATE DATABASE", NONE, NONE, {}, {}))

(* CREATE COLLECTION binds the DEFAULT expressions in whatever context the *)
(* binder is in; it does not look at the current database itself.          *)
BindCreateCollection(defs) ==
  LET ctx == context.collection_id IN
  \/ (\E def \in defs : ~DefBinds(def, ctx)) /\ Throw("CREATE COLLECTION")
  \/ /\ \A def \in defs : DefBinds(def, ctx)
     /\ Return(Bound("CREATE COLLECTION", NONE, NONE, {},
                     UNION {DefRefs(def, ctx) : def \in defs}))

(* CREATE INDEX on the listed columns; typeOk: the index type is known.    *)
BindCreateIndex(name, columns, typeOk) ==
  LET c == NamedCollection(name)
      column(i) == resolve_column(c, columns[i])
      ok == typeOk /\ \A i \in DOMAIN columns : column(i) # 0
  IN
  \/ (c = NONE \/ ~ok) /\ Throw("CREATE INDEX")
  \/ /\ c # NONE /\ ok
     /\ Return(Bound("CREATE INDEX", context.database_id, c,
                     {<<column(i), i>> : i \in DOMAIN columns}, {}))

(* CREATE VINDEX: the WITH options allowed for each vector index type.     *)
AllowedOptions ==
  [FLAT     |-> {"m", "nlist", "ef_construction", "metric"},
   IVF_FLAT |-> {"nlist", "metric"},
   HNSW     |-> {"m", "ef_construction", "metric"}]

(* An unknown key fits no type; a type of "unknown" does not parse.        *)
WithOptionsOk(type, options) ==
  \A i \in DOMAIN options :
    /\ options[i].key \in AllowedOptions[type]
    /\ options[i].valid
    /\ \A j \in DOMAIN options : options[j].key = options[i].key => j = i

BindCreateVIndex(name, column, type, options) ==
  LET c == NamedCollection(name)
      k == resolve_column(c, column)
      ok == /\ k # 0
            /\ type # "unknown"
            /\ WithOptionsOk(type, options)
  IN
  \/ (c = NONE \/ ~ok) /\ Throw("CREATE VINDEX")
  \/ /\ c # NONE /\ ok
     /\ Return(Bound("CREATE VINDEX", context.database_id, c, {<<k, 1>>}, {}))

-----------------------------------------------------------------------------
(* DESCRIBE, DROP, SHOW and USE.                                           *)

BindDescribe(name) ==
  LET c == NamedCollection(name) IN
  \/ c = NONE /\ Throw("DESCRIBE")
  \/ c # NONE /\ Return(Bound("DESCRIBE", context.database_id, c, {}, {}))

(* DROP DATABASE and DROP COLLECTION: with IF EXISTS a missing object      *)
(* binds to nullopt.                                                       *)
BindDropDatabase(name, ifExists) ==
  LET d == resolve_database(name) IN
  \/ d = NONE /\ ~ifExists /\ Throw("DROP DATABASE")
  \/ (d # NONE \/ ifExists) /\ Return(Bound("DROP DATABASE", d, NONE, {}, {}))

BindDropCollection(name, ifExists) ==
  LET c == NamedCollection(name) IN
  \/ /\ c = NONE /\ (context.database_id = NONE \/ ~ifExists)
     /\ Throw("DROP COLLECTION")
  \/ /\ context.database_id # NONE /\ (c # NONE \/ ifExists)
     /\ Return(Bound("DROP COLLECTION", context.database_id, c, {}, {}))

(* DROP INDEX and DROP VINDEX: the names in the collection's own kind of   *)
(* index.  With IF EXISTS a missing index, or collection, binds to nullopt.*)
BindDropNamed(kind, indexes, name, index, ifExists) ==
  LET c == NamedCollection(name)
      found == c # NONE /\ index \in indexes[c]
  IN
  \/ /\ ~found /\ (context.database_id = NONE \/ ~ifExists)
     /\ Throw(kind)
  \/ /\ context.database_id # NONE /\ (found \/ ifExists)
     /\ Return(Bound(kind, context.database_id, IF found THEN c ELSE NONE, {}, {}))

(* SHOW COLLECTIONS without a database name binds to nullopt.              *)
BindShowCollections(database) ==
  LET d == IF database = NONE THEN NONE ELSE resolve_database(database) IN
  \/ database # NONE /\ d = NONE /\ Throw("SHOW COLLECTIONS")
  \/ (database = NONE \/ d # NONE) /\ Return(Bound("SHOW COLLECTIONS", d, NONE, {}, {}))

BindShowDatabases == Return(Bound("SHOW DATABASES", NONE, NONE, {}, {}))

(* SHOW INDEXES and SHOW VINDEXES.                                         *)
BindShowIndexes(kind, database, name) ==
  LET d == IF database = NONE THEN context.database_id ELSE resolve_database(database)
      c == IF d = NONE THEN NONE ELSE resolve_collection(d, name)
  IN
  \/ c = NONE /\ Throw(kind)
  \/ c # NONE /\ Return(Bound(kind, d, c, {}, {}))

(* USE is the only statement that moves the current database.              *)
BindUse(name) ==
  LET d == resolve_database(name) IN
  \/ d = NONE /\ Throw("USE")
  \/ /\ d # NONE /\ Running
     /\ context' = [context EXCEPT !.database_name = name, !.database_id = d]
     /\ result' = Bound("USE", d, NONE, {}, {})
     /\ UNCHANGED catalog

(* Binder::Binder: a new binder, for a new session or after an abort.      *)
NewBinder ==
  /\ context' = EmptyContext
  /\ result' = NotBound("none", "none")
  /\ UNCHANGED catalog

-----------------------------------------------------------------------------
(* Other sessions change the catalog (CatalogWriter).  Ids are not reused; *)
(* names of live objects are unique; dropping a database drops its         *)
(* collections.                                                            *)

CreateDatabase(d) ==
  /\ catalog.databases[d] = "future"
  /\ \A e \in LiveDatabases : DatabaseName[e] # DatabaseName[d]
  /\ catalog' = [catalog EXCEPT !.databases[d] = "live"]
  /\ UNCHANGED <<context, result>>

DropDatabase(d) ==
  /\ d \in LiveDatabases
  /\ catalog' =
       [databases   |-> [catalog.databases EXCEPT ![d] = "dropped"],
        collections |-> [c \in CollectionIds |->
          IF Home[c] = d /\ c \in LiveCollections THEN "dropped"
          ELSE catalog.collections[c]]]
  /\ UNCHANGED <<context, result>>

CreateCollection(c) ==
  /\ catalog.collections[c] = "future"
  /\ Home[c] \in LiveDatabases
  /\ \A e \in LiveCollections :
       Home[e] = Home[c] => CollectionName[e] # CollectionName[c]
  /\ catalog' = [catalog EXCEPT !.collections[c] = "live"]
  /\ UNCHANGED <<context, result>>

DropCollection(c) ==
  /\ c \in LiveCollections
  /\ catalog' = [catalog EXCEPT !.collections[c] = "dropped"]
  /\ UNCHANGED <<context, result>>

-----------------------------------------------------------------------------
Init ==
  /\ catalog = [databases   |-> [d \in DatabaseIds |-> "future"],
                collections |-> [c \in CollectionIds |-> "future"]]
  /\ context = EmptyContext
  /\ result = NotBound("none", "none")

Wheres == Exprs \cup {NONE}

BindData ==
  \E name \in CollectionNames :
    \/ \E star \in BOOLEAN, e \in Exprs, where \in Wheres :
         BindSelect(name, star, {e} \cup Optional(where))
    \/ \E where \in Wheres : BindDelete(name, where)
    \/ \E targets \in Lists(ColumnNames) \ {<<>>}, where \in Wheres :
         \E values \in [DOMAIN targets -> Exprs] :
           BindUpdate(name, targets, values, where)
    \/ \E names \in Lists(ColumnNames), values \in Lists(Exprs) \ {<<>>} :
         BindInsert(name, names, values)

BindAlterOrCreate ==
  \/ \E name \in CollectionNames, def \in ColumnDefs :
       \/ BindAlterAddColumn(name, def)
       \/ BindAlterModifyColumn(name, def)
  \/ \E name \in CollectionNames, column \in ColumnNames : BindAlterColumn(name, column)
  \/ BindCreateDatabase
  \/ \E def1, def2 \in ColumnDefs : BindCreateCollection({def1, def2})
  \/ \E name \in CollectionNames, columns \in Lists(ColumnNames) \ {<<>>}, typeOk \in BOOLEAN :
       BindCreateIndex(name, columns, typeOk)
  \/ \E name \in CollectionNames, column \in ColumnNames,
        type \in {"FLAT", "IVF_FLAT", "HNSW", "unknown"}, options \in Lists(WithOptions) :
       BindCreateVIndex(name, column, type, options)

BindOther ==
  \/ \E name \in CollectionNames : BindDescribe(name)
  \/ \E name \in DatabaseNames, ifExists \in BOOLEAN : BindDropDatabase(name, ifExists)
  \/ \E name \in CollectionNames, ifExists \in BOOLEAN : BindDropCollection(name, ifExists)
  \/ \E name \in CollectionNames, index \in IndexNames, ifExists \in BOOLEAN :
       \/ BindDropNamed("DROP INDEX", Indexes, name, index, ifExists)
       \/ BindDropNamed("DROP VINDEX", VIndexes, name, index, ifExists)
  \/ BindShowDatabases
  \/ \E database \in DatabaseNames \cup {NONE} :
       \/ BindShowCollections(database)
       \/ \E name \in CollectionNames :
            \/ BindShowIndexes("SHOW INDEXES", database, name)
            \/ BindShowIndexes("SHOW VINDEXES", database, name)
  \/ \E name \in DatabaseNames : BindUse(name)

OtherSessions ==
  \/ \E d \in DatabaseIds : CreateDatabase(d) \/ DropDatabase(d)
  \/ \E c \in CollectionIds : CreateCollection(c) \/ DropCollection(c)

Next ==
  \/ BindData
  \/ BindAlterOrCreate
  \/ BindOther
  \/ NewBinder
  \/ OtherSessions

Spec == Init /\ [][Next]_vars

-----------------------------------------------------------------------------
(* Properties.                                                             *)

StatementKinds == {"SELECT", "DELETE", "UPDATE", "INSERT", "ALTER"}

IsBound(kinds) == result.status = "bound" /\ result.kind \in kinds

(* Whatever earlier statements left in the context, a reference without a  *)
(* collection name in a bound SELECT, DELETE, UPDATE, INSERT or ALTER is a *)
(* column of that statement's own collection, and a reference with one is  *)
(* a column of the named collection in the database it names, or else in   *)
(* the current one (bind_expression, binder.cpp).                          *)
RefsInScope ==
  IsBound(StatementKinds) =>
    \A r \in result.refs :
      /\ r.column \in DOMAIN Columns[r.collection]
      /\ Columns[r.collection][r.column].name = r.ref.column
      /\ r.ref.collection = NONE => r.collection = result.collection
      /\ r.ref.collection # NONE => CollectionName[r.collection] = r.ref.collection
      /\ r.ref.database = NONE => Home[r.collection] = result.database
      /\ r.ref.database # NONE => DatabaseName[Home[r.collection]] = r.ref.database

(* A bound INSERT gives every NOT NULL column a value, no column two       *)
(* values and no value to two columns, in all four combinations of column  *)
(* list and value count that bind_insert_statement accepts.                *)
InsertComplete ==
  IsBound({"INSERT"}) =>
    /\ NotNull(result.collection) \subseteq {p[1] : p \in result.items}
    /\ \A p, q \in result.items : p[1] = q[1] <=> p[2] = q[2]

(* A bound statement about a collection is about one in the database that  *)
(* is current when it is bound, and current still afterwards, unless it is *)
(* a SHOW, which may name another database.                                *)
InCurrentDatabase ==
  result.collection # NONE /\ ~IsBound({"SHOW INDEXES", "SHOW VINDEXES"}) =>
    /\ Home[result.collection] = context.database_id
    /\ DatabaseName[context.database_id] = context.database_name

(* Binding never resurrects: at the moment a statement binds, the          *)
(* collections it and its references resolve to exist, even when the       *)
(* context still holds the id of a dropped database or collection.         *)
BindsLive ==
  [][ result' # result /\ result'.status = "bound" =>
        /\ result'.collection # NONE => result'.collection \in LiveCollections
        /\ \A r \in result'.refs : r.collection \in LiveCollections ]_vars

(* The collection of the context is put back by every statement that       *)
(* returns: only an exception (or a new binder) can move it.               *)
OnlyFailuresMoveCollection ==
  [][ context'.collection_id # context.collection_id => result'.status # "bound" ]_vars

=============================================================================
