---------------------------- MODULE CatalogProofs ----------------------------
(***************************************************************************)
(* What CatalogEntries says of the catalog, for all names and indexes and  *)
(* without a bound on its size.                                            *)
(*                                                                         *)
(* The invariants are stated as membership: Dir(S) are the directories     *)
(* whose entries are in S, so that what holds of every collection, however *)
(* deep it lies in the catalog, is a set for S.  A lemma about directories *)
(* then serves on all three levels.                                        *)
(***************************************************************************)
EXTENDS CatalogEntries, FiniteSetTheorems, TLAPS

Maps(K, V) == UNION {[D -> V] : D \in SUBSET K}

Dir(S) == [entries : Seq(S), positions : Maps(Names, Nat)]

(* Collections of which the columns are in C, and databases of which the   *)
(* collections are in L.                                                   *)
CollectionRecords(C) ==
  [name : Names, id : {UnsetId}, own : {UnsetName}, columns : C,
   index_entries : Maps(IndexNames, FieldLists),
   field_to_indexes : Maps(Fields, Maps(IndexNames, Nat)),
   vindex_entries : Maps(IndexNames, Fields),
   column_to_vindex : Maps(Fields, IndexNames)]

Agreeing(C) == {coll \in CollectionRecords(C) : FieldsAgree(coll) /\ VIndexesAgree(coll)}

DatabaseRecords(L) == [name : Names, id : {UnsetId}, own : {UnsetName}, collections : L]

Catalogs == Dir(DatabaseRecords(Dir(Agreeing(Dir(ColumnEntries)))))

(* The same with all directories placed.                                   *)
PlacedDir(S) == {dir \in Dir(S) : Placed(dir)}
PlacedCatalogs ==
  PlacedDir(DatabaseRecords(PlacedDir(Agreeing(PlacedDir(ColumnEntries)))))

(* The inductive invariant.                                                *)
IInv == catalog \in Catalogs /\ status \in {"running", "crashed"}

-----------------------------------------------------------------------------
(* Maps.                                                                   *)

LEMMA MapFacts ==
  ASSUME NEW K, NEW V, NEW m
  PROVE  m \in Maps(K, V) <=> DOMAIN m \subseteq K /\ m \in [DOMAIN m -> V]
BY DEF Maps

LEMMA EmptyMapType ==
  ASSUME NEW K, NEW V
  PROVE  EmptyMap \in Maps(K, V)
<1>1. DOMAIN EmptyMap = {} /\ EmptyMap \in [{} -> V]
  BY DEF EmptyMap
<1> QED
  BY <1>1 DEF Maps

LEMMA PutType ==
  ASSUME NEW K, NEW V, NEW m \in Maps(K, V), NEW k \in K, NEW v \in V
  PROVE  Put(m, k, v) \in Maps(K, V)
<1>1. DOMAIN m \subseteq K /\ \A x \in DOMAIN m : m[x] \in V
  BY MapFacts
<1>2. Put(m, k, v) \in [DOMAIN m \cup {k} -> V]
  BY <1>1 DEF Put
<1>3. DOMAIN m \cup {k} \in SUBSET K
  BY <1>1
<1> QED
  BY <1>2, <1>3 DEF Maps

LEMMA DropType ==
  ASSUME NEW K, NEW V, NEW m \in Maps(K, V), NEW k
  PROVE  Drop(m, k) \in Maps(K, V)
<1>1. DOMAIN m \subseteq K /\ \A x \in DOMAIN m : m[x] \in V
  BY MapFacts
<1>2. Drop(m, k) \in [DOMAIN m \ {k} -> V]
  BY <1>1 DEF Drop
<1>3. DOMAIN m \ {k} \in SUBSET K
  BY <1>1
<1> QED
  BY <1>2, <1>3 DEF Maps

-----------------------------------------------------------------------------
(* Directories.                                                            *)

LEMMA DirFacts ==
  ASSUME NEW S, NEW dir \in Dir(S)
  PROVE  /\ dir.entries \in Seq(S) /\ dir.positions \in Maps(Names, Nat)
         /\ dir = [entries |-> dir.entries, positions |-> dir.positions]
         /\ \A name \in DOMAIN dir.positions : name \in Names /\ dir.positions[name] \in Nat
         /\ \A i \in DOMAIN dir.entries : dir.entries[i] \in S
<1>1. dir.entries \in Seq(S) /\ dir.positions \in Maps(Names, Nat)
  BY DEF Dir
<1>2. \A name \in DOMAIN dir.positions : name \in Names /\ dir.positions[name] \in Nat
  BY <1>1, MapFacts
<1> QED
  BY <1>1, <1>2 DEF Dir

LEMMA EmptyDirectoryType ==
  ASSUME NEW S
  PROVE  EmptyDirectory \in Dir(S)
BY EmptyMapType DEF EmptyDirectory, Dir

LEMMA AddedType ==
  ASSUME NEW S, NEW dir \in Dir(S), NEW entry \in S, entry.name \in Names
  PROVE  Added(dir, entry) \in Dir(S)
<1>1. Append(dir.entries, entry) \in Seq(S) /\ Len(dir.entries) + 1 \in Nat
  BY DirFacts
<1>2. Put(dir.positions, entry.name, Len(dir.entries) + 1) \in Maps(Names, Nat)
  BY <1>1, DirFacts, PutType
<1> QED
  BY <1>1, <1>2 DEF Added, Dir

LEMMA ErasedType ==
  ASSUME NEW S, NEW s \in Seq(S), s # <<>>, NEW p \in Nat
  PROVE  /\ Erased(s, p) \in Seq(S)
         /\ Len(Erased(s, p)) = Len(s) - 1
         /\ \A i \in 1 .. Len(s) - 1 : Erased(s, p)[i] = IF i < p THEN s[i] ELSE s[i + 1]
<1>1. Len(s) \in Nat /\ Len(s) >= 1 /\ \A i \in 1..Len(s) : s[i] \in S
  OBVIOUS
<1>2. \A i \in 1 .. Len(s) - 1 : i \in 1..Len(s) /\ i + 1 \in 1..Len(s)
  BY <1>1
<1>3. Erased(s, p) \in [1 .. Len(s) - 1 -> S]
  BY <1>1, <1>2 DEF Erased
<1>4. Len(s) - 1 \in Nat
  BY <1>1
<1> QED
  BY <1>3, <1>4 DEF Erased

LEMMA RemovedType ==
  ASSUME NEW S, NEW dir \in Dir(S), NEW name, Erasable(dir, name)
  PROVE  Removed(dir, name) \in Dir(S)
<1>1. Has(dir, name) /\ dir.entries # <<>>
  BY DEF Erasable
<1>2. Erased(dir.entries, dir.positions[name]) \in Seq(S)
  BY <1>1, DirFacts, ErasedType DEF Has
<1>3. Drop(dir.positions, name) \in Maps(Names, Nat)
  BY DirFacts, DropType
<1> QED
  BY <1>2, <1>3 DEF Removed, Dir

LEMMA RenamedType ==
  ASSUME NEW S, NEW dir \in Dir(S), NEW name, NEW new_name \in Names, Has(dir, name)
  PROVE  Renamed(dir, name, new_name) \in Dir(S)
<1> DEFINE put == Put(dir.positions, new_name, dir.positions[name])
<1>1. dir.positions[name] \in Nat
  BY DirFacts DEF Has
<1>2. put \in Maps(Names, Nat)
  BY <1>1, DirFacts, PutType
<1>3. Drop(put, name) \in Maps(Names, Nat)
  BY <1>2, DropType
<1>4. Renamed(dir, name, new_name) = [entries |-> dir.entries, positions |-> Drop(put, name)]
  BY DirFacts DEF Renamed
<1> QED
  BY <1>3, <1>4, DirFacts DEF Dir

(* One entry of a directory is replaced.                                   *)
LEMMA ReplacedType ==
  ASSUME NEW S, NEW dir \in Dir(S), NEW i \in DOMAIN dir.entries, NEW entry \in S
  PROVE  /\ [dir EXCEPT !.entries[i] = entry] \in Dir(S)
         /\ [dir EXCEPT !.entries[i] = entry] =
              [entries |-> [dir.entries EXCEPT ![i] = entry], positions |-> dir.positions]
<1>1. [dir.entries EXCEPT ![i] = entry] \in Seq(S)
  BY DirFacts
<1>2. [dir EXCEPT !.entries[i] = entry] =
        [entries |-> [dir.entries EXCEPT ![i] = entry], positions |-> dir.positions]
  BY DirFacts
<1> QED
  BY <1>1, <1>2, DirFacts DEF Dir

LEMMA ModifiedType ==
  ASSUME NEW S, NEW dir \in Dir(S), NEW name, NEW entry \in S
  PROVE  Modified(dir, name, entry) \in Dir(S)
BY ReplacedType DEF Modified, Found

-----------------------------------------------------------------------------
(* The maps of the indexes.                                                *)

LEMMA FieldFacts ==
  ASSUME NEW fields \in FieldLists
  PROVE  /\ SeqRange(fields) \subseteq Fields
         /\ \A f : Times(fields, f) \in Nat
<1>1. SeqRange(fields) \subseteq Fields
  BY DEF Fields
<1>2. ASSUME NEW f PROVE Times(fields, f) \in Nat
  <2>1. Len(fields) \in Nat /\ DOMAIN fields = 1 .. Len(fields)
    BY CatalogAssumption
  <2>2. IsFiniteSet(1 .. Len(fields))
    BY <2>1, FS_Interval
  <2>3. {i \in DOMAIN fields : fields[i] = f} \subseteq 1 .. Len(fields)
    BY <2>1
  <2>4. IsFiniteSet({i \in DOMAIN fields : fields[i] = f})
    BY <2>2, <2>3, FS_Subset
  <2> QED
    BY <2>4, FS_CardinalityType DEF Times
<1> QED
  BY <1>1, <1>2

LEMMA RecordFacts ==
  ASSUME NEW C, NEW coll \in CollectionRecords(C)
  PROVE  /\ coll.name \in Names /\ coll.columns \in C
         /\ coll.index_entries \in Maps(IndexNames, FieldLists)
         /\ coll.field_to_indexes \in Maps(Fields, Maps(IndexNames, Nat))
         /\ coll.vindex_entries \in Maps(IndexNames, Fields)
         /\ coll.column_to_vindex \in Maps(Fields, IndexNames)
         /\ \A n \in DOMAIN coll.index_entries :
              n \in IndexNames /\ coll.index_entries[n] \in FieldLists
         /\ \A f \in DOMAIN coll.field_to_indexes :
              f \in Fields /\ coll.field_to_indexes[f] \in Maps(IndexNames, Nat)
         /\ \A n \in DOMAIN coll.vindex_entries :
              n \in IndexNames /\ coll.vindex_entries[n] \in Fields
         /\ \A k \in DOMAIN coll.column_to_vindex :
              k \in Fields /\ coll.column_to_vindex[k] \in IndexNames
<1>1. /\ coll.name \in Names /\ coll.columns \in C
      /\ coll.index_entries \in Maps(IndexNames, FieldLists)
      /\ coll.field_to_indexes \in Maps(Fields, Maps(IndexNames, Nat))
      /\ coll.vindex_entries \in Maps(IndexNames, Fields)
      /\ coll.column_to_vindex \in Maps(Fields, IndexNames)
  BY DEF CollectionRecords
<1>2. \A n \in DOMAIN coll.index_entries :
        n \in IndexNames /\ coll.index_entries[n] \in FieldLists
  BY <1>1, MapFacts
<1>3. \A f \in DOMAIN coll.field_to_indexes :
        f \in Fields /\ coll.field_to_indexes[f] \in Maps(IndexNames, Nat)
  BY <1>1, MapFacts
<1>4. \A n \in DOMAIN coll.vindex_entries :
        n \in IndexNames /\ coll.vindex_entries[n] \in Fields
  BY <1>1, MapFacts
<1>5. \A k \in DOMAIN coll.column_to_vindex :
        k \in Fields /\ coll.column_to_vindex[k] \in IndexNames
  BY <1>1, MapFacts
<1> QED
  BY <1>1, <1>2, <1>3, <1>4, <1>5

LEMMA NewCollectionType ==
  ASSUME NEW C, EmptyDirectory \in C, NEW name \in Names
  PROVE  CollectionEntry(name, UnsetId, UnsetName) \in Agreeing(C)
<1> DEFINE coll == CollectionEntry(name, UnsetId, UnsetName)
<1>1. coll \in CollectionRecords(C)
  BY EmptyMapType DEF CollectionEntry, CollectionRecords
<1>2. DOMAIN EmptyMap = {}
  BY DEF EmptyMap
<1>3. FieldsAgree(coll) /\ VIndexesAgree(coll)
  BY <1>2 DEF CollectionEntry, FieldsAgree, VIndexesAgree
<1> QED
  BY <1>1, <1>3 DEF Agreeing

(* What a field lists, as a map that is empty where there is no list.      *)
LEMMA ListedType ==
  ASSUME NEW C, NEW coll \in CollectionRecords(C), NEW f
  PROVE  /\ Listed(coll, f) \in Maps(IndexNames, Nat)
         /\ \A n \in DOMAIN Listed(coll, f) : f \in DOMAIN coll.field_to_indexes
<1>1. CASE f \in DOMAIN coll.field_to_indexes
  BY <1>1, RecordFacts DEF Listed
<1>2. CASE f \notin DOMAIN coll.field_to_indexes
  BY <1>2, EmptyMapType DEF Listed, EmptyMap
<1> QED
  BY <1>1, <1>2

LEMMA WithIndexAgrees ==
  ASSUME NEW C, NEW coll \in Agreeing(C),
         NEW name \in IndexNames, ~HasIndex(coll, name), NEW fields \in FieldLists
  PROVE  WithIndex(coll, name, fields) \in Agreeing(C)
<1> DEFINE range == SeqRange(fields)
           now(f) == Put(Listed(coll, f), name, Times(fields, f))
           lists == [f \in DOMAIN coll.field_to_indexes \cup range |->
                       IF f \in range THEN now(f) ELSE coll.field_to_indexes[f]]
           entries == Put(coll.index_entries, name, fields)
           after == WithIndex(coll, name, fields)
<1>1. coll \in CollectionRecords(C) /\ FieldsAgree(coll) /\ VIndexesAgree(coll)
  BY DEF Agreeing
<1>2. after = [coll EXCEPT !.index_entries = entries, !.field_to_indexes = lists]
  BY DEF WithIndex
<1>3. /\ entries \in Maps(IndexNames, FieldLists)
      /\ DOMAIN entries = DOMAIN coll.index_entries \cup {name}
      /\ entries[name] = fields
      /\ \A n \in DOMAIN coll.index_entries : n # name /\ entries[n] = coll.index_entries[n]
  <2>1. entries \in Maps(IndexNames, FieldLists)
    BY <1>1, RecordFacts, PutType
  <2> QED
    BY <2>1 DEF Put, HasIndex
<1>4. \A f : /\ now(f) \in Maps(IndexNames, Nat)
             /\ DOMAIN now(f) = DOMAIN Listed(coll, f) \cup {name}
             /\ now(f)[name] = Times(fields, f)
             /\ \A n \in DOMAIN Listed(coll, f) \ {name} : now(f)[n] = Listed(coll, f)[n]
  <2> TAKE f
  <2>1. Listed(coll, f) \in Maps(IndexNames, Nat) /\ Times(fields, f) \in Nat
    BY <1>1, ListedType, FieldFacts
  <2>2. now(f) \in Maps(IndexNames, Nat)
    BY <2>1, PutType
  <2> QED
    BY <2>2 DEF Put
<1>5. lists \in Maps(Fields, Maps(IndexNames, Nat))
  <2>1. DOMAIN lists \subseteq Fields
    BY <1>1, RecordFacts, FieldFacts
  <2>2. \A f \in DOMAIN lists : lists[f] \in Maps(IndexNames, Nat)
    BY <1>1, <1>4, RecordFacts
  <2>3. lists \in [DOMAIN lists -> Maps(IndexNames, Nat)]
    BY <2>2
  <2> HIDE DEF lists
  <2> QED
    BY <2>1, <2>3, MapFacts
<1>6. after \in CollectionRecords(C)
  BY <1>1, <1>2, <1>3, <1>5 DEF CollectionRecords
<1>7. /\ after.index_entries = entries /\ after.field_to_indexes = lists
      /\ after.vindex_entries = coll.vindex_entries
      /\ after.column_to_vindex = coll.column_to_vindex
  BY <1>1, <1>2 DEF CollectionRecords
<1>8. \A f : Listed(after, f) = IF f \in range THEN now(f) ELSE Listed(coll, f)
  BY <1>7 DEF Listed
<1>9. VIndexesAgree(after)
  BY <1>1, <1>7 DEF VIndexesAgree, HasVIndex, ColumnHasVIndex
<1>10. ASSUME NEW f \in DOMAIN lists
       PROVE  /\ lists[f] # EmptyMap
              /\ \A n \in DOMAIN lists[f] : n \in DOMAIN entries /\ f \in SeqRange(entries[n])
  <2>1. CASE f \in range
    <3>1. lists[f] = now(f) /\ name \in DOMAIN now(f)
      BY <2>1, <1>4
    <3>2. lists[f] # EmptyMap
      BY <3>1 DEF EmptyMap
    <3>3. ASSUME NEW n \in DOMAIN now(f), n # name
          PROVE  n \in DOMAIN coll.index_entries /\ f \in SeqRange(coll.index_entries[n])
      <4>1. n \in DOMAIN Listed(coll, f)
        BY <3>3 DEF Put
      <4>2. f \in DOMAIN coll.field_to_indexes
        BY <4>1, <1>1, ListedType
      <4>3. n \in DOMAIN coll.field_to_indexes[f]
        BY <4>1, <4>2 DEF Listed
      <4> QED
        BY <4>2, <4>3, <1>1 DEF FieldsAgree, HasIndex
    <3> QED
      BY <2>1, <3>1, <3>2, <3>3, <1>3
  <2>2. CASE f \notin range
    <3>1. f \in DOMAIN coll.field_to_indexes /\ lists[f] = coll.field_to_indexes[f]
      BY <2>2
    <3> QED
      BY <3>1, <1>1, <1>3 DEF FieldsAgree, HasIndex
  <2> QED
    BY <2>1, <2>2
<1>11. ASSUME NEW n \in DOMAIN entries, NEW f \in SeqRange(entries[n])
       PROVE  n \in DOMAIN Listed(after, f) /\ Listed(after, f)[n] = Times(entries[n], f)
  <2>1. CASE n = name
    <3>1. f \in range /\ entries[n] = fields
      BY <2>1, <1>3
    <3> QED
      BY <2>1, <3>1, <1>4, <1>8
  <2>2. CASE n # name
    <3>1. n \in DOMAIN coll.index_entries /\ entries[n] = coll.index_entries[n]
      BY <2>2, <1>3
    <3>2. n \in DOMAIN Listed(coll, f) /\ Listed(coll, f)[n] = Times(entries[n], f)
      BY <3>1, <1>1 DEF FieldsAgree
    <3> QED
      BY <2>2, <3>2, <1>4, <1>8
  <2> QED
    BY <2>1, <2>2
<1>12. FieldsAgree(after)
  <2> HIDE DEF lists, entries, after
  <2> QED
    BY <1>7, <1>10, <1>11 DEF FieldsAgree, HasIndex
<1> QED
  BY <1>6, <1>9, <1>12 DEF Agreeing

LEMMA WithoutIndexAgrees ==
  ASSUME NEW C, NEW coll \in Agreeing(C), NEW name, HasIndex(coll, name)
  PROVE  WithoutIndex(coll, name) \in Agreeing(C)
<1> DEFINE range == SeqRange(coll.index_entries[name])
           left(f) == IF f \in range THEN Drop(Listed(coll, f), name) ELSE Listed(coll, f)
           kept == {f \in DOMAIN coll.field_to_indexes : f \in range => left(f) # EmptyMap}
           lists == [f \in kept |-> left(f)]
           entries == Drop(coll.index_entries, name)
           after == WithoutIndex(coll, name)
<1>1. coll \in CollectionRecords(C) /\ FieldsAgree(coll) /\ VIndexesAgree(coll)
  BY DEF Agreeing
<1>2. after = [coll EXCEPT !.index_entries = entries, !.field_to_indexes = lists]
  BY DEF WithoutIndex
<1>3. /\ entries \in Maps(IndexNames, FieldLists)
      /\ DOMAIN entries = DOMAIN coll.index_entries \ {name}
      /\ \A n \in DOMAIN entries : entries[n] = coll.index_entries[n]
  <2>1. entries \in Maps(IndexNames, FieldLists)
    BY <1>1, RecordFacts, DropType
  <2> QED
    BY <2>1 DEF Drop
<1>4. \A f : /\ left(f) \in Maps(IndexNames, Nat)
             /\ \A n : /\ n \in DOMAIN left(f) =>
                             n \in DOMAIN Listed(coll, f) /\ (f \in range => n # name)
                       /\ n \in DOMAIN Listed(coll, f) /\ n # name =>
                             n \in DOMAIN left(f) /\ left(f)[n] = Listed(coll, f)[n]
  <2> TAKE f
  <2>1. Listed(coll, f) \in Maps(IndexNames, Nat)
    BY <1>1, ListedType
  <2>2. left(f) \in Maps(IndexNames, Nat)
    BY <2>1, DropType
  <2> QED
    BY <2>2 DEF Drop
<1>5. lists \in Maps(Fields, Maps(IndexNames, Nat))
  <2>1. DOMAIN lists \subseteq Fields
    BY <1>1, RecordFacts
  <2>2. \A f \in DOMAIN lists : lists[f] \in Maps(IndexNames, Nat)
    BY <1>4
  <2>3. lists \in [DOMAIN lists -> Maps(IndexNames, Nat)]
    BY <2>2
  <2> HIDE DEF lists
  <2> QED
    BY <2>1, <2>3, MapFacts
<1>6. after \in CollectionRecords(C)
  BY <1>1, <1>2, <1>3, <1>5 DEF CollectionRecords
<1>7. /\ after.index_entries = entries /\ after.field_to_indexes = lists
      /\ after.vindex_entries = coll.vindex_entries
      /\ after.column_to_vindex = coll.column_to_vindex
  BY <1>1, <1>2 DEF CollectionRecords
<1>8. VIndexesAgree(after)
  BY <1>1, <1>7 DEF VIndexesAgree, HasVIndex, ColumnHasVIndex
<1>9. ASSUME NEW f \in DOMAIN lists
      PROVE  /\ lists[f] # EmptyMap
             /\ \A n \in DOMAIN lists[f] : n \in DOMAIN entries /\ f \in SeqRange(entries[n])
  <2>1. /\ f \in DOMAIN coll.field_to_indexes /\ lists[f] = left(f)
        /\ Listed(coll, f) = coll.field_to_indexes[f]
    BY DEF Listed
  <2>2. lists[f] # EmptyMap
    <3>1. CASE f \in range
      BY <3>1, <2>1
    <3>2. CASE f \notin range
      BY <3>2, <2>1, <1>1 DEF FieldsAgree
    <3> QED
      BY <3>1, <3>2
  <2>3. ASSUME NEW n \in DOMAIN lists[f]
        PROVE  n \in DOMAIN entries /\ f \in SeqRange(entries[n])
    <3>1. n \in DOMAIN coll.field_to_indexes[f] /\ (f \in range => n # name)
      BY <2>1, <1>4
    <3>2. n \in DOMAIN coll.index_entries /\ f \in SeqRange(coll.index_entries[n])
      BY <3>1, <2>1, <1>1 DEF FieldsAgree, HasIndex
    <3>3. n # name
      BY <3>1, <3>2
    <3> QED
      BY <3>2, <3>3, <1>3
  <2> QED
    BY <2>2, <2>3
<1>10. ASSUME NEW n \in DOMAIN entries, NEW f \in SeqRange(entries[n])
       PROVE  n \in DOMAIN Listed(after, f) /\ Listed(after, f)[n] = Times(entries[n], f)
  <2>1. n # name /\ n \in DOMAIN coll.index_entries /\ entries[n] = coll.index_entries[n]
    BY <1>3
  <2>2. n \in DOMAIN Listed(coll, f) /\ Listed(coll, f)[n] = Times(entries[n], f)
    BY <2>1, <1>1 DEF FieldsAgree
  <2>3. n \in DOMAIN left(f) /\ left(f)[n] = Listed(coll, f)[n]
    BY <2>1, <2>2, <1>4
  <2>4. f \in kept
    BY <2>2, <2>3, <1>1, ListedType DEF EmptyMap
  <2>5. Listed(after, f) = left(f)
    BY <2>4, <1>7 DEF Listed
  <2> QED
    BY <2>2, <2>3, <2>5
<1>11. FieldsAgree(after)
  <2> HIDE DEF lists, entries, after
  <2> QED
    BY <1>7, <1>9, <1>10 DEF FieldsAgree, HasIndex
<1> QED
  BY <1>6, <1>8, <1>11 DEF Agreeing

LEMMA WithVIndexAgrees ==
  ASSUME NEW C, NEW coll \in Agreeing(C), NEW name \in IndexNames, NEW column \in Fields,
         ~HasVIndex(coll, name), ~ColumnHasVIndex(coll, column)
  PROVE  WithVIndex(coll, name, column) \in Agreeing(C)
<1> DEFINE entries == Put(coll.vindex_entries, name, column)
           back == Put(coll.column_to_vindex, column, name)
           after == WithVIndex(coll, name, column)
<1>1. coll \in CollectionRecords(C) /\ FieldsAgree(coll) /\ VIndexesAgree(coll)
  BY DEF Agreeing
<1>2. after = [coll EXCEPT !.vindex_entries = entries, !.column_to_vindex = back]
  BY DEF WithVIndex
<1>3. /\ entries \in Maps(IndexNames, Fields)
      /\ DOMAIN entries = DOMAIN coll.vindex_entries \cup {name}
      /\ entries[name] = column
      /\ \A n \in DOMAIN coll.vindex_entries : n # name /\ entries[n] = coll.vindex_entries[n]
  <2>1. entries \in Maps(IndexNames, Fields)
    BY <1>1, RecordFacts, PutType
  <2> QED
    BY <2>1 DEF Put, HasVIndex
<1>4. /\ back \in Maps(Fields, IndexNames)
      /\ DOMAIN back = DOMAIN coll.column_to_vindex \cup {column}
      /\ back[column] = name
      /\ \A k \in DOMAIN coll.column_to_vindex : k # column /\ back[k] = coll.column_to_vindex[k]
  <2>1. back \in Maps(Fields, IndexNames)
    BY <1>1, RecordFacts, PutType
  <2> QED
    BY <2>1 DEF Put, ColumnHasVIndex
<1>5. after \in CollectionRecords(C)
  BY <1>1, <1>2, <1>3, <1>4 DEF CollectionRecords
<1>6. /\ after.vindex_entries = entries /\ after.column_to_vindex = back
      /\ after.index_entries = coll.index_entries
      /\ after.field_to_indexes = coll.field_to_indexes
  BY <1>1, <1>2 DEF CollectionRecords
<1>7. FieldsAgree(after)
  BY <1>1, <1>6 DEF FieldsAgree, HasIndex, Listed
<1>8. VIndexesAgree(after)
  <2> HIDE DEF entries, back, after
  <2> QED
    BY <1>1, <1>3, <1>4, <1>6 DEF VIndexesAgree, HasVIndex, ColumnHasVIndex
<1> QED
  BY <1>5, <1>7, <1>8 DEF Agreeing

LEMMA WithoutVIndexAgrees ==
  ASSUME NEW C, NEW coll \in Agreeing(C), NEW name, HasVIndex(coll, name)
  PROVE  WithoutVIndex(coll, name) \in Agreeing(C)
<1> DEFINE entries == Drop(coll.vindex_entries, name)
           back == Drop(coll.column_to_vindex, coll.vindex_entries[name])
           after == WithoutVIndex(coll, name)
<1>1. coll \in CollectionRecords(C) /\ FieldsAgree(coll) /\ VIndexesAgree(coll)
  BY DEF Agreeing
<1>2. after = [coll EXCEPT !.vindex_entries = entries, !.column_to_vindex = back]
  BY <1>1 DEF WithoutVIndex, CollectionRecords
<1>3. /\ entries \in Maps(IndexNames, Fields)
      /\ DOMAIN entries = DOMAIN coll.vindex_entries \ {name}
      /\ \A n \in DOMAIN entries : entries[n] = coll.vindex_entries[n]
  <2>1. entries \in Maps(IndexNames, Fields)
    BY <1>1, RecordFacts, DropType
  <2> QED
    BY <2>1 DEF Drop
<1>4. /\ back \in Maps(Fields, IndexNames)
      /\ DOMAIN back = DOMAIN coll.column_to_vindex \ {coll.vindex_entries[name]}
      /\ \A k \in DOMAIN back : back[k] = coll.column_to_vindex[k]
  <2>1. back \in Maps(Fields, IndexNames)
    BY <1>1, RecordFacts, DropType
  <2> QED
    BY <2>1 DEF Drop
<1>5. after \in CollectionRecords(C)
  BY <1>1, <1>2, <1>3, <1>4 DEF CollectionRecords
<1>6. /\ after.vindex_entries = entries /\ after.column_to_vindex = back
      /\ after.index_entries = coll.index_entries
      /\ after.field_to_indexes = coll.field_to_indexes
  BY <1>1, <1>2 DEF CollectionRecords
<1>7. FieldsAgree(after)
  BY <1>1, <1>6 DEF FieldsAgree, HasIndex, Listed
<1>8. VIndexesAgree(after)
  <2> HIDE DEF entries, back, after
  <2> QED
    BY <1>1, <1>3, <1>4, <1>6 DEF VIndexesAgree, HasVIndex, ColumnHasVIndex
<1> QED
  BY <1>5, <1>7, <1>8 DEF Agreeing

-----------------------------------------------------------------------------
(* Replacing a part of the catalog.  The lemmas hold for all sets of       *)
(* collections and columns, placed ones among them.                        *)

LEMMA ReplacedPlaced ==
  ASSUME NEW S, NEW dir \in PlacedDir(S), NEW i \in DOMAIN dir.entries,
         NEW entry \in S, entry.name = dir.entries[i].name
  PROVE  [dir EXCEPT !.entries[i] = entry] \in PlacedDir(S)
<1> DEFINE after == [dir EXCEPT !.entries[i] = entry]
<1>1. dir \in Dir(S) /\ Placed(dir)
  BY DEF PlacedDir
<1>2. /\ after \in Dir(S) /\ after.positions = dir.positions
      /\ after.entries = [dir.entries EXCEPT ![i] = entry]
  <2>1. /\ after \in Dir(S)
        /\ after = [entries |-> [dir.entries EXCEPT ![i] = entry], positions |-> dir.positions]
    BY <1>1, ReplacedType
  <2> HIDE DEF after
  <2> QED
    BY <2>1
<1>3. /\ DOMAIN after.entries = DOMAIN dir.entries
      /\ \A j \in DOMAIN dir.entries : after.entries[j].name = dir.entries[j].name
  BY <1>2
<1>4. NamesOf(after) = NamesOf(dir)
  BY <1>3 DEF NamesOf
<1>5. Placed(after)
  <2> HIDE DEF after
  <2> QED
    BY <1>1, <1>2, <1>3, <1>4 DEF Placed
<1> QED
  BY <1>2, <1>5 DEF PlacedDir

LEMMA AddedPlaced ==
  ASSUME NEW S, NEW dir \in PlacedDir(S), NEW entry \in S,
         entry.name \in Names, ~Has(dir, entry.name)
  PROVE  Added(dir, entry) \in PlacedDir(S)
<1> DEFINE after == Added(dir, entry)
<1>1. dir \in Dir(S) /\ Placed(dir) /\ after \in Dir(S)
  BY AddedType DEF PlacedDir
<1>2. dir.entries \in Seq(S)
  BY <1>1, DirFacts
<1>3. /\ DOMAIN after.entries = 1 .. Len(dir.entries) + 1
      /\ after.entries[Len(dir.entries) + 1] = entry
      /\ \A j \in DOMAIN dir.entries : after.entries[j] = dir.entries[j]
      /\ DOMAIN dir.entries = 1 .. Len(dir.entries)
  BY <1>2 DEF Added
<1>4. /\ DOMAIN after.positions = DOMAIN dir.positions \cup {entry.name}
      /\ after.positions[entry.name] = Len(dir.entries) + 1
      /\ \A n \in DOMAIN dir.positions : n # entry.name /\ after.positions[n] = dir.positions[n]
  BY DEF Added, Put, Has
<1>5. Len(dir.entries) \in Nat
  BY <1>2
<1>6. NamesOf(after) = NamesOf(dir) \cup {entry.name}
  <2> HIDE DEF after
  <2> QED
    BY <1>3, <1>5 DEF NamesOf
<1>7. ASSUME NEW j \in DOMAIN after.entries
      PROVE  after.positions[after.entries[j].name] = j
  <2>1. CASE j = Len(dir.entries) + 1
    BY <2>1, <1>3, <1>4
  <2>2. CASE j # Len(dir.entries) + 1
    <3>1. j \in DOMAIN dir.entries /\ after.entries[j] = dir.entries[j]
      BY <2>2, <1>3, <1>5
    <3>2. dir.entries[j].name \in DOMAIN dir.positions /\ dir.positions[dir.entries[j].name] = j
      BY <3>1, <1>1 DEF Placed, NamesOf
    <3> QED
      BY <3>1, <3>2, <1>4
  <2> QED
    BY <2>1, <2>2
<1>8. Placed(after)
  <2> HIDE DEF after
  <2> QED
    BY <1>1, <1>4, <1>6, <1>7 DEF Placed
<1> QED
  BY <1>1, <1>8 DEF PlacedDir

(* In a placed directory a name that is there is found, and the entry has  *)
(* it.                                                                     *)
LEMMA PlacedFinds ==
  ASSUME NEW S, NEW dir \in PlacedDir(S), NEW name, Has(dir, name)
  PROVE  /\ dir.positions[name] \in 1 .. Len(dir.entries)
         /\ Found(dir, name) /\ Get(dir, name).name = name /\ dir.entries # <<>>
<1>1. dir \in Dir(S) /\ Placed(dir) /\ dir.entries \in Seq(S)
  BY DirFacts DEF PlacedDir
<1>2. PICK i \in DOMAIN dir.entries : dir.entries[i].name = name
  BY <1>1 DEF Placed, NamesOf, Has
<1>3. dir.positions[name] = i
  BY <1>1, <1>2 DEF Placed
<1>4. DOMAIN dir.entries = 1 .. Len(dir.entries)
  BY <1>1
<1> QED
  BY <1>1, <1>2, <1>3, <1>4 DEF Found, Get

(* The last entry can be removed without harm.                             *)
LEMMA RemovedPlaced ==
  ASSUME NEW S, NEW dir \in PlacedDir(S), NEW name, Has(dir, name),
         ~(dir.positions[name] < Len(dir.entries))
  PROVE  Removed(dir, name) \in PlacedDir(S)
<1> DEFINE last == Len(dir.entries)
           after == Removed(dir, name)
<1>1. dir \in Dir(S) /\ Placed(dir) /\ dir.entries \in Seq(S) /\ dir.entries # <<>>
  BY DirFacts, PlacedFinds DEF PlacedDir
<1>2. last \in Nat /\ last >= 1 /\ DOMAIN dir.entries = 1 .. last
  BY <1>1
<1>3. dir.positions[name] = last /\ dir.entries[last].name = name
  BY <1>2, PlacedFinds DEF Get
<1>4. after \in Dir(S)
  BY <1>1, RemovedType DEF Erasable
<1>5. /\ DOMAIN after.entries = 1 .. last - 1
      /\ \A j \in 1 .. last - 1 : j \in DOMAIN dir.entries /\ after.entries[j] = dir.entries[j]
  BY <1>2, <1>3 DEF Removed, Erased
<1>6. /\ DOMAIN after.positions = DOMAIN dir.positions \ {name}
      /\ \A n \in DOMAIN dir.positions : n # name => after.positions[n] = dir.positions[n]
  BY DEF Removed, Drop
<1>7. ASSUME NEW j \in 1 .. last - 1
      PROVE  /\ dir.entries[j].name \in DOMAIN dir.positions
             /\ dir.positions[dir.entries[j].name] = j
             /\ dir.entries[j].name # name
  <2>1. j \in DOMAIN dir.entries /\ j # last
    BY <1>2
  <2>2. dir.entries[j].name \in DOMAIN dir.positions /\ dir.positions[dir.entries[j].name] = j
    BY <2>1, <1>1 DEF Placed, NamesOf
  <2> QED
    BY <2>1, <2>2, <1>3
<1>8. ASSUME NEW n \in DOMAIN dir.positions, n # name
      PROVE  n \in NamesOf(after)
  <2>1. PICK j \in DOMAIN dir.entries : dir.entries[j].name = n
    BY <1>1 DEF Placed, NamesOf
  <2>2. j # last
    BY <2>1, <1>3, <1>8
  <2>3. j \in 1 .. last - 1
    BY <2>2, <1>2
  <2>4. j \in DOMAIN after.entries /\ after.entries[j].name = n
    BY <2>1, <2>3, <1>5
  <2> HIDE DEF after
  <2> QED
    BY <2>4 DEF NamesOf
<1>9. Placed(after)
  <2> HIDE DEF after
  <2>1. NamesOf(after) \subseteq DOMAIN after.positions
    BY <1>5, <1>6, <1>7 DEF NamesOf
  <2>2. DOMAIN after.positions \subseteq NamesOf(after)
    BY <1>6, <1>8
  <2>3. \A j \in DOMAIN after.entries : after.positions[after.entries[j].name] = j
    BY <1>5, <1>6, <1>7
  <2> QED
    BY <2>1, <2>2, <2>3 DEF Placed
<1> QED
  BY <1>4, <1>9 DEF PlacedDir

LEMMA EmptyPlaced ==
  ASSUME NEW S
  PROVE  EmptyDirectory \in PlacedDir(S)
<1>1. EmptyDirectory \in Dir(S)
  BY EmptyDirectoryType
<1>2. Placed(EmptyDirectory)
  BY DEF EmptyDirectory, EmptyMap, Placed, NamesOf
<1> QED
  BY <1>1, <1>2 DEF PlacedDir

LEMMA CollectionsType ==
  ASSUME NEW L, NEW cat \in Dir(DatabaseRecords(L)), NEW d \in DOMAIN cat.entries
  PROVE  cat.entries[d].collections \in L
<1>1. cat.entries[d] \in DatabaseRecords(L)
  BY DirFacts
<1> QED
  BY <1>1 DEF DatabaseRecords

LEMMA WithCollectionsType ==
  ASSUME NEW L, NEW cat \in Dir(DatabaseRecords(L)), NEW d \in DOMAIN cat.entries, NEW l \in L
  PROVE  /\ [cat EXCEPT !.entries[d].collections = l] \in Dir(DatabaseRecords(L))
         /\ cat \in PlacedDir(DatabaseRecords(L)) =>
              [cat EXCEPT !.entries[d].collections = l] \in PlacedDir(DatabaseRecords(L))
<1> DEFINE db == [cat.entries[d] EXCEPT !.collections = l]
<1>1. cat.entries[d] \in DatabaseRecords(L)
  BY DirFacts
<1>2. /\ db \in DatabaseRecords(L) /\ db.name = cat.entries[d].name
  BY <1>1 DEF DatabaseRecords
<1>3. [cat EXCEPT !.entries[d].collections = l] = [cat EXCEPT !.entries[d] = db]
  BY DirFacts
<1>4. [cat EXCEPT !.entries[d] = db] \in Dir(DatabaseRecords(L))
  BY <1>2, ReplacedType
<1>5. cat \in PlacedDir(DatabaseRecords(L)) =>
        [cat EXCEPT !.entries[d] = db] \in PlacedDir(DatabaseRecords(L))
  BY <1>2, ReplacedPlaced
<1> QED
  BY <1>2, <1>3, <1>4, <1>5

LEMMA WithColumnsType ==
  ASSUME NEW C, NEW coll \in Agreeing(C), NEW columns \in C
  PROVE  /\ [coll EXCEPT !.columns = columns] \in Agreeing(C)
         /\ [coll EXCEPT !.columns = columns].name = coll.name
<1> DEFINE after == [coll EXCEPT !.columns = columns]
<1>1. coll \in CollectionRecords(C) /\ FieldsAgree(coll) /\ VIndexesAgree(coll)
  BY DEF Agreeing
<1>2. after \in CollectionRecords(C)
  BY <1>1 DEF CollectionRecords
<1>3. /\ after.index_entries = coll.index_entries /\ after.name = coll.name
      /\ after.field_to_indexes = coll.field_to_indexes
      /\ after.vindex_entries = coll.vindex_entries
      /\ after.column_to_vindex = coll.column_to_vindex
  BY <1>1 DEF CollectionRecords
<1>4. FieldsAgree(after) /\ VIndexesAgree(after)
  <2> HIDE DEF after
  <2> QED
    BY <1>1, <1>3
    DEF FieldsAgree, VIndexesAgree, HasIndex, HasVIndex, ColumnHasVIndex, Listed
<1> QED
  BY <1>2, <1>3, <1>4 DEF Agreeing

LEMMA IndexCallsKeepName ==
  ASSUME NEW C, NEW coll \in Agreeing(C), NEW name
  PROVE  /\ \A fields : WithIndex(coll, name, fields).name = coll.name
         /\ WithoutIndex(coll, name).name = coll.name
         /\ \A column : WithVIndex(coll, name, column).name = coll.name
         /\ WithoutVIndex(coll, name).name = coll.name
<1>1. coll \in CollectionRecords(C)
  BY DEF Agreeing
<1>2. \A a, b : /\ [coll EXCEPT !.index_entries = a, !.field_to_indexes = b].name = coll.name
                /\ [coll EXCEPT !.vindex_entries = a, !.column_to_vindex = b].name = coll.name
  BY <1>1 DEF CollectionRecords
<1> QED
  BY <1>1, <1>2 DEF WithIndex, WithoutIndex, WithVIndex, WithoutVIndex, CollectionRecords

LEMMA WithCollectionType ==
  ASSUME catalog \in Catalogs, NEW d \in DatabasesAt, NEW c \in DOMAIN Collections(d).entries
  PROVE  /\ Collections(d) \in Dir(Agreeing(Dir(ColumnEntries)))
         /\ Coll(d, c) \in Agreeing(Dir(ColumnEntries))
         /\ Columns(d, c) \in Dir(ColumnEntries)
         /\ \A coll \in Agreeing(Dir(ColumnEntries)) :
              WithCollection(d, c, coll) \in Catalogs
         /\ \A columns \in Dir(ColumnEntries) : WithColumns(d, c, columns) \in Catalogs
<1> DEFINE A == Agreeing(Dir(ColumnEntries))
<1>1. Collections(d) \in Dir(A)
  BY CollectionsType DEF Catalogs, Collections, DatabasesAt
<1>2. Coll(d, c) \in A
  BY <1>1, DirFacts DEF Coll
<1>3. Columns(d, c) \in Dir(ColumnEntries)
  BY <1>2, RecordFacts DEF Columns, Agreeing
<1>4. ASSUME NEW coll \in A
      PROVE  WithCollection(d, c, coll) \in Catalogs
  <2> DEFINE l == [Collections(d) EXCEPT !.entries[c] = coll]
  <2>1. l \in Dir(A)
    BY <1>1, <1>4, ReplacedType DEF Coll
  <2>2. [catalog EXCEPT !.entries[d].collections = l] \in Catalogs
    BY <2>1, WithCollectionsType DEF Catalogs, DatabasesAt
  <2>3. WithCollection(d, c, coll) = [catalog EXCEPT !.entries[d].collections = l]
    BY DEF WithCollection, Collections
  <2> QED
    BY <2>2, <2>3
<1>5. ASSUME NEW columns \in Dir(ColumnEntries)
      PROVE  WithColumns(d, c, columns) \in Catalogs
  <2> DEFINE coll == [Coll(d, c) EXCEPT !.columns = columns]
  <2>1. coll \in A /\ coll.name = Coll(d, c).name
    BY <1>2, WithColumnsType
  <2>2. WithColumns(d, c, columns) = WithCollection(d, c, coll)
    BY DEF WithColumns, WithCollection, Coll, Collections
  <2> QED
    BY <1>4, <2>1, <2>2
<1> QED
  BY <1>1, <1>2, <1>3, <1>4, <1>5

LEMMA WithCollectionPlaced ==
  ASSUME catalog \in PlacedCatalogs, NEW d \in DatabasesAt, NEW c \in DOMAIN Collections(d).entries
  PROVE  /\ Collections(d) \in PlacedDir(Agreeing(PlacedDir(ColumnEntries)))
         /\ Coll(d, c) \in Agreeing(PlacedDir(ColumnEntries))
         /\ Columns(d, c) \in PlacedDir(ColumnEntries)
         /\ \A coll \in Agreeing(PlacedDir(ColumnEntries)) :
              coll.name = Coll(d, c).name => WithCollection(d, c, coll) \in PlacedCatalogs
         /\ \A columns \in PlacedDir(ColumnEntries) : WithColumns(d, c, columns) \in PlacedCatalogs
<1> DEFINE A == Agreeing(PlacedDir(ColumnEntries))
<1>1. Collections(d) \in PlacedDir(A)
  BY CollectionsType DEF PlacedCatalogs, Collections, DatabasesAt, PlacedDir
<1>2. Coll(d, c) \in A
  BY <1>1, DirFacts DEF Coll, PlacedDir
<1>3. Columns(d, c) \in PlacedDir(ColumnEntries)
  BY <1>2, RecordFacts DEF Columns, Agreeing
<1>4. ASSUME NEW coll \in A, coll.name = Coll(d, c).name
      PROVE  WithCollection(d, c, coll) \in PlacedCatalogs
  <2> DEFINE l == [Collections(d) EXCEPT !.entries[c] = coll]
  <2>1. l \in PlacedDir(A)
    BY <1>1, <1>4, ReplacedPlaced DEF Coll
  <2>2. [catalog EXCEPT !.entries[d].collections = l] \in PlacedCatalogs
    BY <2>1, WithCollectionsType DEF PlacedCatalogs, DatabasesAt, PlacedDir
  <2>3. WithCollection(d, c, coll) = [catalog EXCEPT !.entries[d].collections = l]
    BY DEF WithCollection, Collections
  <2> QED
    BY <2>2, <2>3
<1>5. ASSUME NEW columns \in PlacedDir(ColumnEntries)
      PROVE  WithColumns(d, c, columns) \in PlacedCatalogs
  <2> DEFINE coll == [Coll(d, c) EXCEPT !.columns = columns]
  <2>1. coll \in A /\ coll.name = Coll(d, c).name
    BY <1>2, WithColumnsType
  <2>2. WithColumns(d, c, columns) = WithCollection(d, c, coll)
    BY DEF WithColumns, WithCollection, Coll, Collections
  <2> QED
    BY <1>4, <2>1, <2>2
<1> QED
  BY <1>1, <1>2, <1>3, <1>4, <1>5

-----------------------------------------------------------------------------
(* The invariant.                                                          *)

LEMMA InitHolds == Init => IInv
BY EmptyDirectoryType DEF Init, IInv, Catalogs

(* Every call leaves a catalog of which the index maps agree.              *)
LEMMA StepHolds == IInv /\ [Next]_vars => IInv'
<1> SUFFICES ASSUME IInv, [Next]_vars PROVE IInv'
  OBVIOUS
<1> DEFINE Cols == Dir(ColumnEntries)
           Colls == Dir(Agreeing(Cols))
<1>1. catalog \in Catalogs /\ catalog \in Dir(DatabaseRecords(Colls))
      /\ status \in {"running", "crashed"}
  BY DEF IInv, Catalogs
<1>2. ASSUME NEW c \in Catalogs, Becomes(c) PROVE IInv'
  BY <1>1, <1>2 DEF Becomes, IInv
<1>3. ASSUME NEW dir, NEW name, Crash(dir, name) PROVE IInv'
  BY <1>1, <1>3 DEF Crash, IInv
<1>4. CASE OnCatalog
  <2>1. ASSUME NEW name \in Names, AddDatabase(name) PROVE IInv'
    <3>1. DatabaseEntry(name, UnsetId, UnsetName) \in DatabaseRecords(Colls)
      BY EmptyDirectoryType DEF DatabaseEntry, DatabaseRecords
    <3>2. DatabaseEntry(name, UnsetId, UnsetName).name = name
      BY DEF DatabaseEntry
    <3>3. Added(catalog, DatabaseEntry(name, UnsetId, UnsetName)) \in Catalogs
      BY <1>1, <3>1, <3>2, AddedType DEF Catalogs
    <3> QED
      BY <1>2, <2>1, <3>3 DEF AddDatabase
  <2>2. ASSUME NEW name \in Names, RemoveDatabase(name) PROVE IInv'
    <3>1. Erasable(catalog, name) => Removed(catalog, name) \in Catalogs
      BY <1>1, RemovedType DEF Catalogs
    <3> QED
      BY <1>2, <1>3, <2>2, <3>1 DEF RemoveDatabase
  <2>3. ASSUME NEW name \in Names, NEW new_name \in Names, RenameDatabase(name, new_name)
        PROVE  IInv'
    <3>1. Renamed(catalog, name, new_name) \in Catalogs
      BY <1>1, <2>3, RenamedType DEF Catalogs, RenameDatabase
    <3> QED
      BY <1>2, <2>3, <3>1 DEF RenameDatabase
  <2> QED
    BY <1>4, <2>1, <2>2, <2>3 DEF OnCatalog
<1>5. ASSUME NEW d \in DatabasesAt, OnDatabase(d) PROVE IInv'
  <2>1. Collections(d) \in Colls
    BY <1>1, CollectionsType DEF Collections, DatabasesAt
  <2>2. \A l \in Colls : [catalog EXCEPT !.entries[d].collections = l] \in Catalogs
    BY <1>1, WithCollectionsType DEF DatabasesAt, Catalogs
  <2>3. ASSUME NEW name \in Names, AddCollection(d, name) PROVE IInv'
    <3> DEFINE coll == CollectionEntry(name, UnsetId, UnsetName)
    <3>1. coll \in Agreeing(Cols) /\ coll.name = name
      BY EmptyDirectoryType, NewCollectionType DEF CollectionEntry
    <3>2. Added(Collections(d), coll) \in Colls
      BY <2>1, <3>1, AddedType
    <3>3. [catalog EXCEPT !.entries[d].collections = Added(Collections(d), coll)] \in Catalogs
      BY <2>2, <3>2
    <3> QED
      BY <1>2, <2>3, <3>3 DEF AddCollection, Collections
  <2>4. ASSUME NEW name \in Names, RemoveCollection(d, name) PROVE IInv'
    <3>1. CASE Crash(Collections(d), name)
      BY <1>3, <3>1
    <3>2. CASE Erasable(Collections(d), name)
      <4>1. Removed(Collections(d), name) \in Colls
        BY <2>1, <3>2, RemovedType
      <4>2. [catalog EXCEPT !.entries[d].collections = Removed(Collections(d), name)] \in Catalogs
        BY <2>2, <4>1
      <4>3. Becomes([catalog EXCEPT !.entries[d].collections = Removed(Collections(d), name)])
            \/ Crash(Collections(d), name)
        BY <2>4 DEF RemoveCollection, Collections
      <4> QED
        BY <1>2, <1>3, <4>2, <4>3
    <3> QED
      BY <2>4, <3>1, <3>2 DEF RemoveCollection
  <2>5. ASSUME NEW name \in Names, NEW new_name \in Names, RenameCollection(d, name, new_name)
        PROVE  IInv'
    <3>1. Renamed(Collections(d), name, new_name) \in Colls
      BY <2>1, <2>5, RenamedType DEF RenameCollection
    <3>2. [catalog EXCEPT !.entries[d].collections = Renamed(Collections(d), name, new_name)]
            \in Catalogs
      BY <2>2, <3>1
    <3> QED
      BY <1>2, <2>5, <3>2 DEF RenameCollection, Collections
  <2> QED
    BY <1>5, <2>3, <2>4, <2>5 DEF OnDatabase
<1>6. ASSUME NEW d \in DatabasesAt, NEW c \in DOMAIN Collections(d).entries,
             OnColumns(d, c) \/ OnIndexes(d, c)
      PROVE  IInv'
  <2>1. /\ Coll(d, c) \in Agreeing(Cols) /\ Columns(d, c) \in Cols
        /\ \A coll \in Agreeing(Cols) : WithCollection(d, c, coll) \in Catalogs
        /\ \A columns \in Cols : WithColumns(d, c, columns) \in Catalogs
    BY <1>1, WithCollectionType
  <2>2. ASSUME NEW columns \in Cols, Becomes(WithColumns(d, c, columns)) PROVE IInv'
    BY <1>2, <2>1, <2>2
  <2>3. ASSUME NEW coll \in Agreeing(Cols), Becomes(WithCollection(d, c, coll)) PROVE IInv'
    BY <1>2, <2>1, <2>3
  <2>4. ASSUME NEW name \in Names, RemoveColumn(d, c, name) PROVE IInv'
    <3>1. Erasable(Columns(d, c), name) => Removed(Columns(d, c), name) \in Cols
      BY <2>1, RemovedType
    <3> QED
      BY <1>3, <2>2, <2>4, <3>1 DEF RemoveColumn
  <2>5. ASSUME NEW name \in Names, NEW type \in Types, AddColumn(d, c, name, type) PROVE IInv'
    <3> DEFINE column == ColumnEntry(name, type, Len(Columns(d, c).entries))
    <3>1. column \in ColumnEntries /\ column.name = name
      BY <2>1, DirFacts DEF ColumnEntry, ColumnEntries
    <3>2. Added(Columns(d, c), column) \in Cols
      BY <2>1, <3>1, AddedType
    <3> QED
      BY <2>2, <2>5, <3>2 DEF AddColumn
  <2>6. ASSUME NEW name \in Names, NEW new_name \in Names, NEW type \in Types,
               ModifyColumn(d, c, name, new_name, type)
        PROVE  IInv'
    <3> DEFINE column == ColumnEntry(new_name, type, Columns(d, c).positions[name] - 1)
    <3>1. CASE Crash(Columns(d, c), name)
      BY <1>3, <3>1
    <3>2. CASE Becomes(WithColumns(d, c, Modified(Columns(d, c), name, column)))
      <4>1. CASE Found(Columns(d, c), name)
        <5>1. Columns(d, c).positions[name] - 1 \in Nat
          BY <2>1, <4>1, DirFacts DEF Found
        <5>2. column \in ColumnEntries
          BY <5>1 DEF ColumnEntry, ColumnEntries
        <5> QED
          BY <2>1, <2>2, <3>2, <5>2, ModifiedType
      <4>2. CASE ~Found(Columns(d, c), name)
        BY <2>1, <2>2, <3>2, <4>2 DEF Modified
      <4> QED
        BY <4>1, <4>2
    <3> QED
      BY <2>6, <3>1, <3>2 DEF ModifyColumn
  <2>7. ASSUME NEW name \in IndexNames, NEW fields \in FieldLists, AddIndex(d, c, name, fields)
        PROVE  IInv'
    BY <2>1, <2>3, <2>7, WithIndexAgrees DEF AddIndex
  <2>8. ASSUME NEW name \in IndexNames, RemoveIndex(d, c, name) PROVE IInv'
    BY <2>1, <2>3, <2>8, WithoutIndexAgrees DEF RemoveIndex
  <2>9. ASSUME NEW name \in IndexNames, NEW column \in Fields, AddVIndex(d, c, name, column)
        PROVE  IInv'
    BY <2>1, <2>3, <2>9, WithVIndexAgrees DEF AddVIndex
  <2>10. ASSUME NEW name \in IndexNames, RemoveVIndex(d, c, name) PROVE IInv'
    BY <2>1, <2>3, <2>10, WithoutVIndexAgrees DEF RemoveVIndex
  <2>11. CASE OnColumns(d, c)
    BY <2>4, <2>5, <2>6, <2>11 DEF OnColumns
  <2>12. CASE OnIndexes(d, c)
    BY <2>7, <2>8, <2>9, <2>10, <2>12 DEF OnIndexes
  <2> QED
    BY <1>6, <2>11, <2>12
<1>7. CASE Next
  <2>1. ASSUME NEW p \in CollectionsAt, OnColumns(p[1], p[2]) \/ OnIndexes(p[1], p[2])
        PROVE  IInv'
    <3>1. p[1] \in DatabasesAt /\ p[2] \in DOMAIN Collections(p[1]).entries
      BY DEF CollectionsAt
    <3> QED
      BY <1>6, <2>1, <3>1
  <2> QED
    BY <1>4, <1>5, <1>7, <2>1 DEF Next
<1>8. CASE UNCHANGED vars
  BY <1>1, <1>8 DEF vars, IInv
<1> QED
  BY <1>7, <1>8

LEMMA InvariantHolds == Spec => []IInv
<1>1. Init => IInv
  BY InitHolds
<1>2. IInv /\ [Next]_vars => IInv'
  BY StepHolds
<1> QED
  BY <1>1, <1>2, PTL DEF Spec

LEMMA CollectionIsTyped ==
  ASSUME NEW coll \in CollectionRecords(Dir(ColumnEntries))
  PROVE  IsCollection(coll)
<1>1. coll \in [name : Names, id : {UnsetId}, own : {UnsetName},
                columns : {coll.columns},
                index_entries : {coll.index_entries},
                field_to_indexes : {coll.field_to_indexes},
                vindex_entries : {coll.vindex_entries},
                column_to_vindex : {coll.column_to_vindex}]
  BY DEF CollectionRecords
<1>2. IsColumns(coll.columns)
  BY RecordFacts, DirFacts, MapFacts DEF IsColumns, IsMap
<1>3. /\ IsMap(coll.index_entries, IndexNames, FieldLists)
      /\ IsMap(coll.vindex_entries, IndexNames, Fields)
      /\ IsMap(coll.column_to_vindex, Fields, IndexNames)
  BY RecordFacts, MapFacts DEF IsMap
<1>4. /\ DOMAIN coll.field_to_indexes \subseteq Fields
      /\ \A f \in DOMAIN coll.field_to_indexes :
           IsMap(coll.field_to_indexes[f], IndexNames, Nat)
  BY RecordFacts, MapFacts DEF IsMap
<1> QED
  BY <1>1, <1>2, <1>3, <1>4, RecordFacts DEF IsCollection

LEMMA InvariantIsTyped == IInv => TypeOK
<1> SUFFICES ASSUME IInv PROVE TypeOK
  OBVIOUS
<1> DEFINE Colls == Dir(Agreeing(Dir(ColumnEntries)))
<1>1. catalog \in Dir(DatabaseRecords(Colls)) /\ status \in {"running", "crashed"}
  BY DEF IInv, Catalogs
<1>2. \A S : \A dir \in Dir(S) :
        /\ dir = [entries |-> dir.entries, positions |-> dir.positions]
        /\ dir.entries = [i \in 1 .. Len(dir.entries) |-> dir.entries[i]]
        /\ IsMap(dir.positions, Names, Nat)
        /\ \A i \in DOMAIN dir.entries : dir.entries[i] \in S
  <2> TAKE S
  <2> TAKE dir \in Dir(S)
  <2>1. dir.entries \in Seq(S) /\ dir.positions \in Maps(Names, Nat)
    BY DirFacts
  <2>2. dir.entries = [i \in 1 .. Len(dir.entries) |-> dir.entries[i]]
    BY <2>1
  <2>3. IsMap(dir.positions, Names, Nat)
    BY <2>1, MapFacts DEF IsMap
  <2> QED
    BY <2>2, <2>3, DirFacts
<1>3. ASSUME NEW dir \in Colls PROVE IsCollections(dir)
  <2>1. \A c \in DOMAIN dir.entries : dir.entries[c] \in CollectionRecords(Dir(ColumnEntries))
    BY DirFacts DEF Agreeing
  <2>2. \A c \in DOMAIN dir.entries : IsCollection(dir.entries[c])
    BY <2>1, CollectionIsTyped
  <2> QED
    BY <1>2, <2>2 DEF IsCollections
<1>4. ASSUME NEW db \in DatabaseRecords(Colls) PROVE IsDatabase(db)
  <2>1. db = [DatabaseEntry(db.name, UnsetId, UnsetName) EXCEPT !.collections = db.collections]
    BY DEF DatabaseRecords, DatabaseEntry
  <2>2. db.name \in Names /\ db.collections \in Colls
    BY DEF DatabaseRecords
  <2> QED
    BY <1>3, <2>1, <2>2 DEF IsDatabase
<1> QED
  BY <1>1, <1>2, <1>4 DEF TypeOK, DatabasesAt

LEMMA InvariantAgrees == IInv => IndexMapsAgree
<1> SUFFICES ASSUME IInv, NEW p \in CollectionsAt
             PROVE  FieldsAgree(Coll(p[1], p[2])) /\ VIndexesAgree(Coll(p[1], p[2]))
  BY DEF IndexMapsAgree
<1>1. p[1] \in DatabasesAt /\ p[2] \in DOMAIN Collections(p[1]).entries
  BY DEF CollectionsAt
<1>2. Coll(p[1], p[2]) \in Agreeing(Dir(ColumnEntries))
  BY <1>1, WithCollectionType DEF IInv
<1> QED
  BY <1>2 DEF Agreeing

(* The catalog stays three levels of directories, of records of the        *)
(* entries, whatever is called and however stale the positions are.        *)
THEOREM CatalogTyped == Spec => []TypeOK
<1>1. IInv => TypeOK
  BY InvariantIsTyped
<1> QED
  BY <1>1, InvariantHolds, PTL

(* The maps from columns to indexes agree with the indexes in every        *)
(* collection, for any number of indexes, and field lists of any length    *)
(* with any repetitions: add_index_entry, remove_index_entry and their     *)
(* vector counterparts keep each other's books.                            *)
THEOREM IndexMapsAlwaysAgree == Spec => []IndexMapsAgree
<1>1. IInv => IndexMapsAgree
  BY InvariantAgrees
<1> QED
  BY <1>1, InvariantHolds, PTL

-----------------------------------------------------------------------------
(* What keeps the directories placed.                                      *)

LEMMA PlacedInvariant == IInv /\ AllPlaced => catalog \in PlacedCatalogs
<1> SUFFICES ASSUME IInv, AllPlaced PROVE catalog \in PlacedCatalogs
  OBVIOUS
<1> DEFINE A == Agreeing(PlacedDir(ColumnEntries))
<1>1. catalog \in Dir(DatabaseRecords(Dir(Agreeing(Dir(ColumnEntries))))) /\ Placed(catalog)
  BY DEF IInv, Catalogs, AllPlaced
<1>2. ASSUME NEW d \in DatabasesAt
      PROVE  catalog.entries[d] \in DatabaseRecords(PlacedDir(A))
  <2>1. /\ catalog.entries[d] \in DatabaseRecords(Dir(Agreeing(Dir(ColumnEntries))))
        /\ Collections(d) \in Dir(Agreeing(Dir(ColumnEntries))) /\ Placed(Collections(d))
    BY <1>1, DirFacts, CollectionsType DEF DatabasesAt, Collections, AllPlaced
  <2>2. ASSUME NEW c \in DOMAIN Collections(d).entries PROVE Coll(d, c) \in A
    <3>1. Coll(d, c) \in Agreeing(Dir(ColumnEntries))
      BY <2>1, DirFacts DEF Coll
    <3>2. <<d, c>> \in CollectionsAt
      BY DEF CollectionsAt
    <3>3. Columns(d, c) \in PlacedDir(ColumnEntries)
      BY <3>1, <3>2, RecordFacts DEF AllPlaced, PlacedDir, Columns, Agreeing
    <3> QED
      BY <3>1, <3>3 DEF Agreeing, CollectionRecords, Columns
  <2>3. Collections(d).entries \in Seq(A)
    <3>1. Collections(d).entries \in Seq(Agreeing(Dir(ColumnEntries)))
      BY <2>1, DirFacts
    <3> QED
      BY <2>2, <3>1 DEF Coll
  <2>4. Collections(d) \in PlacedDir(A)
    BY <2>1, <2>3 DEF PlacedDir, Dir
  <2> QED
    BY <2>1, <2>4 DEF DatabaseRecords, Collections
<1>3. catalog.entries \in Seq(DatabaseRecords(PlacedDir(A)))
  <2>1. catalog.entries \in Seq(DatabaseRecords(Dir(Agreeing(Dir(ColumnEntries)))))
    BY <1>1, DirFacts
  <2> QED
    BY <1>2, <2>1 DEF DatabasesAt
<1>4. catalog \in Dir(DatabaseRecords(PlacedDir(A)))
  BY <1>1, <1>3 DEF Dir
<1> QED
  BY <1>1, <1>4 DEF PlacedCatalogs, PlacedDir

LEMMA PlacedCatalogsArePlaced == catalog \in PlacedCatalogs => AllPlaced
<1> SUFFICES ASSUME catalog \in PlacedCatalogs PROVE AllPlaced
  OBVIOUS
<1>1. Placed(catalog)
  BY DEF PlacedCatalogs, PlacedDir
<1>2. ASSUME NEW d \in DatabasesAt PROVE Placed(Collections(d))
  <2> DEFINE L == PlacedDir(Agreeing(PlacedDir(ColumnEntries)))
  <2>1. catalog \in Dir(DatabaseRecords(L))
    BY DEF PlacedCatalogs, PlacedDir
  <2>2. Collections(d) \in L
    BY <2>1, CollectionsType DEF DatabasesAt, Collections
  <2> QED
    BY <2>2 DEF PlacedDir
<1>3. ASSUME NEW p \in CollectionsAt PROVE Placed(Columns(p[1], p[2]))
  <2>1. p[1] \in DatabasesAt /\ p[2] \in DOMAIN Collections(p[1]).entries
    BY DEF CollectionsAt
  <2>2. Columns(p[1], p[2]) \in PlacedDir(ColumnEntries)
    BY <2>1, WithCollectionPlaced
  <2> QED
    BY <2>2 DEF PlacedDir
<1> QED
  BY <1>1, <1>2, <1>3 DEF AllPlaced

(* A step that is none of those of Misplaces keeps everything placed.      *)
LEMMA StepKeepsPlaced ==
  ASSUME IInv, AllPlaced, Next, ~Misplaces
  PROVE  catalog' \in PlacedCatalogs /\ status' = "running"
<1> DEFINE Cols == PlacedDir(ColumnEntries)
           Colls == PlacedDir(Agreeing(Cols))
           Goal == catalog' \in PlacedCatalogs /\ status' = "running"
<1>1. /\ catalog \in PlacedCatalogs /\ catalog \in PlacedDir(DatabaseRecords(Colls))
      /\ catalog \in Dir(DatabaseRecords(Colls)) /\ status = "running"
  BY PlacedInvariant DEF PlacedCatalogs, PlacedDir, Next
<1>2. ASSUME NEW c \in PlacedCatalogs, Becomes(c) PROVE Goal
  BY <1>1, <1>2 DEF Becomes
<1>3. ASSUME NEW S, NEW dir \in PlacedDir(S), NEW name PROVE ~Crash(dir, name)
  BY PlacedFinds DEF Crash, Dangling
<1>4. ASSUME NEW S, NEW dir \in PlacedDir(S), NEW name, Erasable(dir, name), ~Shifts(dir, name)
      PROVE  Removed(dir, name) \in PlacedDir(S)
  BY <1>4, RemovedPlaced DEF Erasable, Shifts
<1>5. CASE OnCatalog
  <2>1. ASSUME NEW name \in Names, AddDatabase(name) PROVE Goal
    <3> DEFINE db == DatabaseEntry(name, UnsetId, UnsetName)
    <3>1. db \in DatabaseRecords(Colls) /\ db.name = name
      BY EmptyPlaced DEF DatabaseEntry, DatabaseRecords
    <3>2. ~Has(catalog, name)
      BY <2>1 DEF AddDatabase
    <3>3. Added(catalog, db) \in PlacedCatalogs
      BY <1>1, <3>1, <3>2, AddedPlaced DEF PlacedCatalogs
    <3> QED
      BY <1>2, <2>1, <3>3 DEF AddDatabase
  <2>2. ASSUME NEW name \in Names, RemoveDatabase(name) PROVE Goal
    <3>1. ~Shifts(catalog, name)
      BY <2>2 DEF Misplaces
    <3>2. Erasable(catalog, name) /\ Becomes(Removed(catalog, name))
      BY <1>1, <1>3, <2>2 DEF RemoveDatabase
    <3>3. Removed(catalog, name) \in PlacedCatalogs
      BY <1>1, <1>4, <3>1, <3>2 DEF PlacedCatalogs
    <3> QED
      BY <1>2, <3>2, <3>3
  <2> QED
    BY <1>5, <2>1, <2>2 DEF OnCatalog, Misplaces
<1>6. ASSUME NEW d \in DatabasesAt, OnDatabase(d) PROVE Goal
  <2>1. Collections(d) \in Colls
    BY <1>1, CollectionsType DEF Collections, DatabasesAt
  <2>2. \A l \in Colls : [catalog EXCEPT !.entries[d].collections = l] \in PlacedCatalogs
    BY <1>1, WithCollectionsType DEF DatabasesAt, PlacedCatalogs
  <2>3. ASSUME NEW name \in Names, AddCollection(d, name) PROVE Goal
    <3> DEFINE coll == CollectionEntry(name, UnsetId, UnsetName)
    <3>1. coll \in Agreeing(Cols) /\ coll.name = name
      BY EmptyPlaced, NewCollectionType DEF CollectionEntry
    <3>2. ~Has(Collections(d), name)
      BY <2>3 DEF AddCollection
    <3>3. Added(Collections(d), coll) \in Colls
      BY <2>1, <3>1, <3>2, AddedPlaced
    <3>4. [catalog EXCEPT !.entries[d].collections = Added(Collections(d), coll)]
            \in PlacedCatalogs
      BY <2>2, <3>3
    <3> QED
      BY <1>2, <2>3, <3>4 DEF AddCollection, Collections
  <2>4. ASSUME NEW name \in Names, RemoveCollection(d, name) PROVE Goal
    <3>1. ~Shifts(Collections(d), name)
      BY <2>4 DEF Misplaces
    <3>2. /\ Erasable(Collections(d), name)
          /\ Becomes([catalog EXCEPT !.entries[d].collections = Removed(Collections(d), name)])
      <4>1. ~Crash(Collections(d), name)
        BY <1>3, <2>1
      <4> QED
        BY <2>4, <4>1 DEF RemoveCollection, Collections
    <3>3. Removed(Collections(d), name) \in Colls
      BY <1>4, <2>1, <3>1, <3>2
    <3>4. [catalog EXCEPT !.entries[d].collections = Removed(Collections(d), name)]
            \in PlacedCatalogs
      BY <2>2, <3>3
    <3> QED
      BY <1>2, <3>2, <3>4
  <2> QED
    BY <1>6, <2>3, <2>4 DEF OnDatabase, Misplaces
<1>7. ASSUME NEW d \in DatabasesAt, NEW c \in DOMAIN Collections(d).entries,
             OnColumns(d, c) \/ OnIndexes(d, c)
      PROVE  Goal
  <2>1. /\ Coll(d, c) \in Agreeing(Cols) /\ Columns(d, c) \in Cols
        /\ \A coll \in Agreeing(Cols) :
             coll.name = Coll(d, c).name => WithCollection(d, c, coll) \in PlacedCatalogs
        /\ \A columns \in Cols : WithColumns(d, c, columns) \in PlacedCatalogs
    BY <1>1, WithCollectionPlaced
  <2>2. ASSUME NEW columns \in Cols, Becomes(WithColumns(d, c, columns)) PROVE Goal
    BY <1>2, <2>1, <2>2
  <2>3. ASSUME NEW coll \in Agreeing(Cols), coll.name = Coll(d, c).name,
               Becomes(WithCollection(d, c, coll))
        PROVE  Goal
    BY <1>2, <2>1, <2>3
  <2>4. <<d, c>> \in CollectionsAt
    BY DEF CollectionsAt
  <2>5. ASSUME NEW name \in Names, RemoveColumn(d, c, name) PROVE Goal
    <3>1. ~Shifts(Columns(d, c), name)
      BY <2>4, <2>5 DEF Misplaces
    <3>2. ~Crash(Columns(d, c), name)
      BY <1>3, <2>1
    <3>3. /\ Erasable(Columns(d, c), name)
          /\ Becomes(WithColumns(d, c, Removed(Columns(d, c), name)))
      BY <2>5, <3>2 DEF RemoveColumn
    <3> QED
      BY <1>4, <2>1, <2>2, <3>1, <3>3
  <2>6. ASSUME NEW name \in Names, NEW type \in Types, AddColumn(d, c, name, type) PROVE Goal
    <3> DEFINE column == ColumnEntry(name, type, Len(Columns(d, c).entries))
    <3>1. column \in ColumnEntries /\ column.name = name
      BY <2>1, DirFacts DEF ColumnEntry, ColumnEntries, PlacedDir
    <3>2. Added(Columns(d, c), column) \in Cols
      BY <2>1, <2>6, <3>1, AddedPlaced DEF AddColumn
    <3> QED
      BY <2>2, <2>6, <3>2 DEF AddColumn
  <2>7. ASSUME NEW name \in Names, NEW new_name \in Names, NEW type \in Types,
               ModifyColumn(d, c, name, new_name, type)
        PROVE  Goal
    <3> DEFINE p == Columns(d, c).positions[name]
               column == ColumnEntry(new_name, type, p - 1)
    <3>1. new_name = name
      BY <2>4, <2>7 DEF Misplaces
    <3>2. ~Crash(Columns(d, c), name)
      BY <1>3, <2>1
    <3>3. /\ Has(Columns(d, c), name)
          /\ Becomes(WithColumns(d, c, Modified(Columns(d, c), name, column)))
      BY <2>7, <3>2 DEF ModifyColumn
    <3>4. /\ p \in 1 .. Len(Columns(d, c).entries) /\ Found(Columns(d, c), name)
          /\ Columns(d, c).entries[p].name = name
      BY <2>1, <3>3, PlacedFinds DEF Get
    <3>5. column \in ColumnEntries /\ column.name = name
      BY <3>1, <3>4 DEF ColumnEntry, ColumnEntries
    <3>6. Modified(Columns(d, c), name, column) \in Cols
      BY <2>1, <3>4, <3>5, ReplacedPlaced DEF Modified, Found
    <3> QED
      BY <2>2, <3>3, <3>6
  <2>8. ASSUME NEW name \in IndexNames, NEW fields \in FieldLists, AddIndex(d, c, name, fields)
        PROVE  Goal
    <3>1. WithIndex(Coll(d, c), name, fields) \in Agreeing(Cols)
      BY <2>1, <2>8, WithIndexAgrees DEF AddIndex
    <3>2. WithIndex(Coll(d, c), name, fields).name = Coll(d, c).name
      BY <2>1, IndexCallsKeepName
    <3>3. Becomes(WithCollection(d, c, WithIndex(Coll(d, c), name, fields)))
      BY <2>8 DEF AddIndex
    <3> QED
      BY <2>3, <3>1, <3>2, <3>3
  <2>9. ASSUME NEW name \in IndexNames, RemoveIndex(d, c, name) PROVE Goal
    <3>1. WithoutIndex(Coll(d, c), name) \in Agreeing(Cols)
      BY <2>1, <2>9, WithoutIndexAgrees DEF RemoveIndex
    <3>2. WithoutIndex(Coll(d, c), name).name = Coll(d, c).name
      BY <2>1, IndexCallsKeepName
    <3>3. Becomes(WithCollection(d, c, WithoutIndex(Coll(d, c), name)))
      BY <2>9 DEF RemoveIndex
    <3> QED
      BY <2>3, <3>1, <3>2, <3>3
  <2>10. ASSUME NEW name \in IndexNames, NEW column \in Fields, AddVIndex(d, c, name, column)
         PROVE  Goal
    <3>1. WithVIndex(Coll(d, c), name, column) \in Agreeing(Cols)
      BY <2>1, <2>10, WithVIndexAgrees DEF AddVIndex
    <3>2. WithVIndex(Coll(d, c), name, column).name = Coll(d, c).name
      BY <2>1, IndexCallsKeepName
    <3>3. Becomes(WithCollection(d, c, WithVIndex(Coll(d, c), name, column)))
      BY <2>10 DEF AddVIndex
    <3> QED
      BY <2>3, <3>1, <3>2, <3>3
  <2>11. ASSUME NEW name \in IndexNames, RemoveVIndex(d, c, name) PROVE Goal
    <3>1. WithoutVIndex(Coll(d, c), name) \in Agreeing(Cols)
      BY <2>1, <2>11, WithoutVIndexAgrees DEF RemoveVIndex
    <3>2. WithoutVIndex(Coll(d, c), name).name = Coll(d, c).name
      BY <2>1, IndexCallsKeepName
    <3>3. Becomes(WithCollection(d, c, WithoutVIndex(Coll(d, c), name)))
      BY <2>11 DEF RemoveVIndex
    <3> QED
      BY <2>3, <3>1, <3>2, <3>3
  <2>12. CASE OnColumns(d, c)
    BY <2>5, <2>6, <2>7, <2>12 DEF OnColumns
  <2>13. CASE OnIndexes(d, c)
    BY <2>8, <2>9, <2>10, <2>11, <2>13 DEF OnIndexes
  <2> QED
    BY <1>7, <2>12, <2>13
<1>8. ASSUME NEW p \in CollectionsAt, OnColumns(p[1], p[2]) \/ OnIndexes(p[1], p[2])
      PROVE  Goal
  <2>1. p[1] \in DatabasesAt /\ p[2] \in DOMAIN Collections(p[1]).entries
    BY DEF CollectionsAt
  <2> QED
    BY <1>7, <1>8, <2>1
<1> QED
  BY <1>5, <1>6, <1>8 DEF Next

(* In a catalog of any size, no call but a removal in front of other       *)
(* entries, a rename, or a modify_column that changes the name, can make   *)
(* the lookups differ from the listings or be undefined.                   *)
THEOREM OnlyShiftsEverMisplace == Spec => OnlyShiftsMisplace
<1>1. ASSUME IInv, [Next]_vars
      PROVE  [AllPlaced /\ ~Misplaces => AllPlaced' /\ status' = "running"]_vars
  <2>1. CASE UNCHANGED vars
    BY <2>1
  <2>2. CASE Next
    <3> SUFFICES ASSUME AllPlaced, ~Misplaces PROVE AllPlaced' /\ status' = "running"
      OBVIOUS
    <3>1. catalog' \in PlacedCatalogs /\ status' = "running"
      BY <1>1, <2>2, StepKeepsPlaced
    <3>2. (catalog \in PlacedCatalogs => AllPlaced)'
      BY PlacedCatalogsArePlaced, PTL
    <3> QED
      BY <3>1, <3>2
  <2> QED
    BY <1>1, <2>1, <2>2
<1> QED
  BY <1>1, InvariantHolds, PTL DEF Spec, OnlyShiftsMisplace
=============================================================================
