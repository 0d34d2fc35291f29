----------------------------- MODULE Collection ----------------------------
(***************************************************************************)
(* A collection (src/src/schema/collection.cpp): the rows in its active    *)
(* segment (Segment, MemoryStorage, Entity), the metadata of its scalar    *)
(* indexes, and the indexes themselves, held by an IndexManager.  Storing  *)
(* a row and bringing the indexes up to date are separate calls; callers   *)
(* choose both and their order.                                            *)
(*                                                                         *)
(* The number of fields of a row is fixed when the collection is made.     *)
(* ALTER COLLECTION changes the catalog only (executor.cpp), so CREATE     *)
(* INDEX may name a field that the rows do not have.                       *)
(***************************************************************************)
EXTENDS IndexOps, Functions

CONSTANTS
  FieldCount,   \* schema_.size()
  Values,       \* the values of a field
  IndexNames,   \* names of indexes
  IndexMetas,   \* the index metadata CREATE INDEX is called with
  MaxId,        \* bound on the ids handed out
  MaxAssignments,   \* bound on the assignments of one update
  MaxCount      \* bound on how often an index lists one id

Fields == 1..FieldCount
Rows == [Fields -> Values]
Kinds == {"BTREE", "HASH"}

ASSUME CollectionAssumption ==
  /\ FieldCount \in Nat \ {0}
  /\ MaxId \in Nat /\ MaxAssignments \in Nat /\ MaxCount \in Nat
  /\ Values \subseteq [type : STRING, rank : Int, hash : Nat]
  /\ \A v, w \in Values : v.type = w.type /\ v.rank = w.rank => v = w
  /\ IndexMetas \subseteq
       [name : IndexNames, kind : Kinds, unique : BOOLEAN, fields : Seq(Nat \ {0})]

VARIABLES
  next_id,             \* the id create_entity hands out next
  entity_map,          \* MemoryStorage::entity_map_ of the active segment
  index_meta_map,      \* the metadata of each index, by name
  field_to_index_map,  \* the indexes on each field, with how often it is listed
  indexes,             \* IndexManager::indexes_
  answer               \* the last call and what it returned or threw

vars == <<next_id, entity_map, index_meta_map, field_to_index_map, indexes, answer>>

Ids == 1..MaxId

(* Functions whose domain changes: m with k mapped to v, and without k.    *)
Put(m, k, v) == [x \in DOMAIN m \cup {k} |-> IF x = k THEN v ELSE m[x]]
Drop(m, k) == [x \in DOMAIN m \ {k} |-> m[x]]

Answer(op, id, name, status) == [op |-> op, id |-> id, name |-> name, status |-> status]
NoName == ""

-----------------------------------------------------------------------------
(* Rows: create_entity, insert, remove, update.                            *)

(* The entity it returns has only NULLs; the caller sets them.             *)
CreateEntity ==
  /\ next_id <= MaxId
  /\ next_id' = next_id + 1
  /\ answer' = Answer("create_entity", next_id, NoName, "ok")
  /\ UNCHANGED <<entity_map, index_meta_map, field_to_index_map, indexes>>

HandedOut == 1..(next_id - 1)

RowCall(op, id, status, entities) ==
  /\ entity_map' = entities
  /\ answer' = Answer(op, id, NoName, status)
  /\ UNCHANGED <<next_id, index_meta_map, field_to_index_map, indexes>>

Insert(id, row) ==
  IF id \in DOMAIN entity_map THEN RowCall("insert", id, "failure", entity_map)
  ELSE RowCall("insert", id, "ok", Put(entity_map, id, row))

Remove(id) ==
  IF id \notin DOMAIN entity_map THEN RowCall("remove", id, "failure", entity_map)
  ELSE RowCall("remove", id, "ok", Drop(entity_map, id))

(* Bug: set_value does not check the position of the field.                *)
AssignedUnchecked(row, fields) ==
  [f \in Fields \cup {fields[n][1] : n \in DOMAIN fields} |->
     IF \E n \in DOMAIN fields : fields[n][1] = f
     THEN fields[CHOOSE n \in DOMAIN fields : fields[n][1] = f][2] ELSE row[f]]

(* The assignments are made in order; the first to a field out of range    *)
(* throws, and those before it stay.                                       *)
Assigned(row, fields) ==
  LET made == {n \in DOMAIN fields : \A m \in 1..n : fields[m][1] \in Fields}
      last(f) == {n \in made : fields[n][1] = f /\ \A m \in made : fields[m][1] = f => m <= n}
  IN  [f \in Fields |-> IF last(f) = {} THEN row[f]
                        ELSE fields[CHOOSE n \in last(f) : TRUE][2]]

Update(id, fields) ==
  IF id \notin DOMAIN entity_map THEN RowCall("update", id, "failure", entity_map)
  ELSE RowCall("update", id,
               IF \A n \in DOMAIN fields : fields[n][1] \in Fields THEN "ok" ELSE "throw",
               Put(entity_map, id, Assigned(entity_map[id], fields)))

-----------------------------------------------------------------------------
(* Index metadata.                                                         *)

(* rebuild_field_to_index_map: a field listed twice by an index lists the  *)
(* index twice.                                                            *)
Rebuilt(metas) ==
  [f \in UNION {Range(metas[n].fields) : n \in DOMAIN metas} |->
     [n \in {m \in DOMAIN metas : f \in Range(metas[m].fields)} |->
        Cardinality({i \in DOMAIN metas[n].fields : metas[n].fields[i] = f})]]

FieldsOk(meta) == Range(meta.fields) \subseteq Fields
KeyOf(row, meta) == [i \in DOMAIN meta.fields |-> row[meta.fields[i]]]

(* A call on the index of meta: which of its operations, for which entity, *)
(* with the row the key is made of, and for an update the row before it.   *)
Call(op, meta, id, old, row) ==
  [op |-> op, meta |-> meta, id |-> id, old |-> old, row |-> row]

Outcomes(index, c) ==
  LET key == KeyOf(c.row, c.meta) IN
  CASE c.op = "insert" -> Inserts(index, key, c.id)
    [] c.op = "remove" -> Removes(index, key, c.id)
    [] c.op = "update" -> Updates(index, KeyOf(c.old, c.meta), key, c.id)

After(status, manager) == [status |-> status, manager |-> manager]

(* IndexManager: a call on an index that is not registered, or of another  *)
(* kind than the call is for, returns false.                               *)
Managed(manager, c) ==
  LET name == c.meta.name IN
  IF name \in DOMAIN manager /\ manager[name].kind = c.meta.kind
  THEN {After(IF o.ok THEN "ok" ELSE "failure", Put(manager, name, o.index)) :
          o \in Outcomes(manager[name], c)}
  ELSE {After("failure", manager)}

(* Making the key throws if a field of the index is out of range.          *)
Called(manager, c) ==
  IF FieldsOk(c.meta) THEN Managed(manager, c) ELSE {After("throw", manager)}

(* The calls are made in turn, up to the first that does not succeed.      *)
Loop(calls, manager) ==
  LET after[i \in 0..Len(calls)] ==
        IF i = 0 THEN {After("ok", manager)}
        ELSE UNION {IF o.status = "ok" THEN Called(o.manager, calls[i]) ELSE {o} :
                      o \in after[i - 1]}
  IN  after[Len(calls)]

(* The orders in which a std::unordered_map may list the elements of S.    *)
Orders(S) == {o \in [1..Cardinality(S) -> S] : \A i, j \in DOMAIN o : o[i] = o[j] => i = j}

InsertRow(meta, id) == Call("insert", meta, id, entity_map[id], entity_map[id])

(* Bug: the last row is not reached.                                       *)
ScanButLast(meta, manager) ==
  UNION {LET calls == [i \in DOMAIN order |-> InsertRow(meta, order[i])]
         IN  Loop(SubSeq(calls, 1, Len(calls) - 1), manager) :
           order \in Orders(DOMAIN entity_map)}

(* The scan of create_index: each row of get_all, until an insert fails.   *)
Scan(meta, manager) ==
  UNION {Loop([i \in DOMAIN order |-> InsertRow(meta, order[i])], manager) :
           order \in Orders(DOMAIN entity_map)}

IndexCall(op, id, name, status, metas, manager) ==
  /\ index_meta_map' = metas
  /\ field_to_index_map' = Rebuilt(metas)
  /\ indexes' = manager
  /\ answer' = Answer(op, id, name, status)
  /\ UNCHANGED <<next_id, entity_map>>

Refused(op, name) ==
  /\ answer' = Answer(op, 0, name, "failure")
  /\ UNCHANGED <<next_id, entity_map, index_meta_map, field_to_index_map, indexes>>

(* Bug: the index stays registered.                                        *)
CreateFailedRegistered(meta, metas, manager) ==
  IndexCall("create_index", 0, meta.name, "failure", Drop(metas, meta.name), manager)

CreateFailed(meta, metas, manager) ==
  IndexCall("create_index", 0, meta.name, "failure",
            Drop(metas, meta.name), Drop(manager, meta.name))

(* create_index registers the index, then lists every row in it.  A name   *)
(* without metadata is never registered, but the code rolls that back too. *)
(* When get_value throws, on the first row, nothing is rolled back.        *)
CreateIndex(meta) ==
  LET metas == Put(index_meta_map, meta.name, meta)
      manager == Put(indexes, meta.name, NewIndex(meta.kind, meta.unique))
  IN
  \/ /\ meta.name \in DOMAIN index_meta_map \cup DOMAIN indexes
     /\ Refused("create_index", meta.name)
  \/ /\ meta.name \notin DOMAIN index_meta_map \cup DOMAIN indexes
     /\ \E o \in Scan(meta, manager) :
          \/ /\ o.status \in {"ok", "throw"}
             /\ IndexCall("create_index", 0, meta.name, o.status, metas, o.manager)
          \/ /\ o.status = "failure"
             /\ CreateFailed(meta, metas, o.manager)

(* Bug: the index is not unregistered.                                     *)
RemoveIndexMetadata(name) ==
  /\ name \in DOMAIN index_meta_map
  /\ IndexCall("remove_index", 0, name, "ok", Drop(index_meta_map, name), indexes)

RemoveIndex(name) ==
  \/ /\ name \notin DOMAIN index_meta_map
     /\ Refused("remove_index", name)
  \/ /\ name \in DOMAIN index_meta_map
     /\ IndexCall("remove_index", 0, name, "ok", Drop(index_meta_map, name), Drop(indexes, name))

-----------------------------------------------------------------------------
(* Bringing the indexes of a list up to date.                              *)

(* get_all_index_metadata, find_index_metadata_by_fields and               *)
(* find_index_metadata_by_field, as the lists of names they may return.    *)
AllMetadata == Orders(DOMAIN index_meta_map)

MetadataByFields(fields) ==
  Orders(UNION {DOMAIN field_to_index_map[f] : f \in fields \cap DOMAIN field_to_index_map})

(* An index that lists the field more than once is there as often, in a    *)
(* row: rebuild_field_to_index_map takes one index after the other.        *)
MetadataByField(f) ==
  IF f \notin DOMAIN field_to_index_map THEN {<<>>}
  ELSE LET times == field_to_index_map[f]
           length == Cardinality(UNION {{n} \X (1..times[n]) : n \in DOMAIN times})
       IN  {list \in [1..length -> DOMAIN times] :
              /\ \A n \in DOMAIN times :
                   Cardinality({i \in DOMAIN list : list[i] = n}) = times[n]
              /\ \A i, j \in DOMAIN list :
                   list[i] = list[j] => \A k \in i..j : list[k] = list[i]}

MetadataLists ==
  AllMetadata
  \cup (UNION {MetadataByFields(fields) : fields \in SUBSET (1..FieldCount + 1)})
  \cup (UNION {MetadataByField(f) : f \in 1..FieldCount + 1})

(* Each index of the list in turn.                                         *)
ForEach(op, call, id, old, row, list) ==
  \E o \in Loop([i \in DOMAIN list |-> Call(call, index_meta_map[list[i]], id, old, row)],
                indexes) :
    /\ indexes' = o.manager
    /\ answer' = [op |-> op, id |-> id, row |-> row, list |-> list, status |-> o.status]
    /\ UNCHANGED <<next_id, entity_map, index_meta_map, field_to_index_map>>

UpdateIndexesOnInsert(id, row, list) == ForEach("on_insert", "insert", id, row, row, list)
UpdateIndexesOnRemove(id, row, list) == ForEach("on_remove", "remove", id, row, row, list)
UpdateIndexesOnUpdate(id, old, new, list) == ForEach("on_update", "update", id, old, new, list)

-----------------------------------------------------------------------------
Init ==
  /\ next_id = 1
  /\ entity_map = <<>>
  /\ index_meta_map = <<>>
  /\ field_to_index_map = <<>>
  /\ indexes = <<>>
  /\ answer = Answer("none", 0, NoName, "ok")

(* The updates of one call: fields may be repeated or out of range.        *)
Assignments == UNION {[1..n -> (1..FieldCount + 1) \X Values] : n \in 0..MaxAssignments}

RowCalls ==
  \/ CreateEntity
  \/ \E id \in HandedOut :
       \/ \E row \in Rows : Insert(id, row)
       \/ Remove(id)
       \/ \E fields \in Assignments : Update(id, fields)

IndexCalls ==
  \/ \E meta \in IndexMetas : CreateIndex(meta)
  \/ \E name \in IndexNames : RemoveIndex(name)
  \/ \E list \in MetadataLists, id \in HandedOut, row \in Rows :
       \/ UpdateIndexesOnInsert(id, row, list)
       \/ UpdateIndexesOnRemove(id, row, list)
       \/ \E new \in Rows : UpdateIndexesOnUpdate(id, row, new, list)

(* How often an id is listed in an index.                                  *)
Count(index, id) ==
  Cardinality(UNION {{<<i, j>> : j \in {n \in DOMAIN index.entries[i].ids : index.entries[i].ids[n] = id}} :
                       i \in DOMAIN index.entries})

Bounded == \A n \in DOMAIN indexes : \A id \in Ids : Count(indexes[n], id) <= MaxCount

Next == (RowCalls \/ IndexCalls) /\ Bounded'

Spec == Init /\ [][Next]_vars

-----------------------------------------------------------------------------
(* Properties.                                                             *)

TypeOK ==
  /\ next_id \in 1..MaxId + 1
  /\ DOMAIN entity_map \subseteq HandedOut
  /\ \A id \in DOMAIN entity_map : entity_map[id] \in Rows
  /\ \A n \in DOMAIN index_meta_map : index_meta_map[n] \in IndexMetas
  /\ \A n \in DOMAIN indexes :
       /\ indexes[n].kind \in Kinds
       /\ \A i \in DOMAIN indexes[n].entries :
            /\ \A v \in Range(indexes[n].entries[i].key) : v \in Values
            /\ Range(indexes[n].entries[i].ids) \subseteq Ids
  /\ answer.status \in {"ok", "failure", "throw"}

(* The three tables of the collection agree, whatever was created, refused,*)
(* rolled back, thrown out of or dropped: each index with metadata is      *)
(* registered with the kind and uniqueness the metadata says, no other is, *)
(* and the map from fields lists exactly the indexes on the field.         *)
TablesAgree ==
  /\ DOMAIN indexes = DOMAIN index_meta_map
  /\ \A n \in DOMAIN indexes :
       /\ index_meta_map[n].name = n
       /\ indexes[n].kind = index_meta_map[n].kind
       /\ indexes[n].unique = index_meta_map[n].unique
  /\ \A f \in 1..FieldCount + 1, n \in IndexNames :
       (f \in DOMAIN field_to_index_map /\ n \in DOMAIN field_to_index_map[f]) <=>
       (n \in DOMAIN index_meta_map /\ f \in Range(index_meta_map[n].fields))

(* A unique index, if it is a hash table or a tree on one field, never     *)
(* lists two rows under one key, NULLs or not.  A unique tree on several   *)
(* fields can, when it holds NULLs: (NULL, 1), (0, 2), (1, 0) compare in a *)
(* cycle, and find may miss a key that is there.  No index has an entry    *)
(* that lists no row.                                                      *)
OneField(meta) == meta.kind = "BTREE" => Len(meta.fields) = 1

UniqueListsOne ==
  \A n \in DOMAIN indexes : \A i \in DOMAIN indexes[n].entries :
    /\ indexes[n].entries[i].ids # <<>>
    /\ indexes[n].unique /\ OneField(index_meta_map[n]) =>
         /\ Len(indexes[n].entries[i].ids) = 1
         /\ \A j \in DOMAIN indexes[n].entries :
              indexes[n].entries[i].key = indexes[n].entries[j].key => i = j

(* create_index that returns false changes nothing.                        *)
RefusedCreateLeavesNothing ==
  [][ answer'.op = "create_index" /\ answer'.status = "failure" =>
        UNCHANGED <<entity_map, index_meta_map, field_to_index_map, indexes>> ]_vars

(* Two keys with values of the same types.  Less is an order of these.     *)
SameTypes(a, b) == DOMAIN a = DOMAIN b /\ \A i \in DOMAIN a : a[i].type = b[i].type
Comparable(keys) == \A a, b \in keys : SameTypes(a, b)

(* create_index that returns true has listed every stored row, once, and   *)
(* nothing else; under its own key, when the keys of the rows are          *)
(* comparable: NULL has a type of its own.                                 *)
CreatedIndexListsRows ==
  [][ answer'.op = "create_index" /\ answer'.status = "ok" =>
        LET index == indexes'[answer'.name]
            meta == index_meta_map'[answer'.name]
        IN
        /\ \A id \in Ids : Count(index, id) = IF id \in DOMAIN entity_map THEN 1 ELSE 0
        /\ Comparable({KeyOf(entity_map[id], meta) : id \in DOMAIN entity_map}) =>
             \A i \in DOMAIN index.entries : \A id \in Range(index.entries[i].ids) :
               index.entries[i].key = KeyOf(entity_map[id], meta) ]_vars

(* Bringing the indexes up to date for one entity leaves the listings of   *)
(* every other entity where they were.                                     *)
ListedUnder(index, id) ==
  {index.entries[i].key : i \in {n \in DOMAIN index.entries : id \in Range(index.entries[n].ids)}}

OthersStay ==
  [][ answer'.op \in {"on_insert", "on_remove", "on_update"} =>
        \A n \in DOMAIN indexes : \A id \in Ids \ {answer'.id} :
          ListedUnder(indexes'[n], id) = ListedUnder(indexes[n], id) ]_vars

(* A failed or throwing update costs the entity its listing in one index   *)
(* at most, the one whose unique key was taken: those before it are moved, *)
(* those after it untouched.  A call that succeeds costs it none.          *)
AtMostOneListingLost ==
  [][ answer'.op = "on_update" =>
        LET lost == {n \in DOMAIN indexes :
                       Count(indexes'[n], answer'.id) < Count(indexes[n], answer'.id)}
        IN  (\A n \in DOMAIN indexes : Count(indexes[n], answer'.id) <= 1) =>
              Cardinality(lost) <= IF answer'.status = "failure" THEN 1 ELSE 0 ]_vars

(* A call that returns true has reached every index of its list, however   *)
(* long the list: the entity is listed under its (new) key, or no longer,  *)
(* after a removal.  With a NULL in the index, or in the key, it may be    *)
(* listed elsewhere; and NULLs that are gone may have left a key in two    *)
(* places of a tree, of which a removal reaches one.                       *)
SuccessReachesEveryIndex ==
  [][ answer'.op \in {"on_insert", "on_remove", "on_update"} /\ answer'.status = "ok" =>
        \A i \in DOMAIN answer'.list :
          LET name == answer'.list[i]
              key == KeyOf(answer'.row, index_meta_map[name])
              held == [n \in DOMAIN indexes[name].entries |-> indexes[name].entries[n].key]
          IN  Comparable({key} \cup Range(held)) /\ IsInjective(held) =>
                (key \in ListedUnder(indexes'[name], answer'.id) <=> answer'.op # "on_remove") ]_vars

=============================================================================
