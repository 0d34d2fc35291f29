-------------------------------- MODULE Index -------------------------------
(***************************************************************************)
(* One index of the IndexManager (src/src/index/index_manager.cpp) through *)
(* its life: a BTreeIndex or a HashIndex, unique or not, on which ids are  *)
(* inserted, removed and moved to another key in any order.                *)
(***************************************************************************)
EXTENDS IndexOps

CONSTANTS
  Keys,       \* the keys: sequences of values, one per indexed field
  Ids,        \* the ids of entities
  MaxListed   \* bound on the ids listed in the index

ASSUME KeysAssumption ==
  /\ Keys \subseteq Seq([type : STRING, rank : Int, hash : Nat])
  /\ \A a, b \in Keys : Len(a) = Len(b)
  /\ MaxListed \in Nat

(* The values of every field but the last are of one type: only the last    *)
(* can hold NULL beside values.  Then the comparison of keys is transitive. *)
Sortable ==
  \A a, b \in Keys : \A i \in DOMAIN a : i < Len(a) => a[i].type = b[i].type

(* A find of an index of the kind comes upon a key that is there: a tree's *)
(* only if the order of the entries tells where to look.                   *)
Reliable(kind) == kind = "HASH" \/ Sortable

(* The two keys are one to an index of the kind.                           *)
Matches(kind, a, b) == Equal(a, b) /\ (kind = "HASH" => Hash(a) = Hash(b))

VARIABLES
  index,    \* its kind, uniqueness and entries
  answer    \* what the last operation was, and whether it returned true

vars == <<index, answer>>

Kinds == {"BTREE", "HASH"}
Entries == [key : Keys, ids : Seq(Ids) \ {<<>>}]

Answer(op, keys, id, ok) == [op |-> op, keys |-> keys, id |-> id, ok |-> ok]

(* The places in the index where id is listed under key.                   *)
Listings(key, id) ==
  UNION {{<<i, j>> : j \in {n \in DOMAIN index.entries[i].ids : index.entries[i].ids[n] = id}} :
           i \in {n \in DOMAIN index.entries : index.entries[n].key = key}}

Size == Cardinality(UNION {Listings(k, i) : k \in Keys, i \in Ids})

-----------------------------------------------------------------------------
Init ==
  /\ \E kind \in Kinds, unique \in BOOLEAN : index = NewIndex(kind, unique)
  /\ answer = [op |-> "none"]

Do(op, keys, id, outcomes) ==
  /\ \E o \in outcomes :
       /\ index' = o.index
       /\ answer' = Answer(op, keys, id, o.ok)
  /\ Size' <= MaxListed

Insert(key, id) == Do("insert", <<key>>, id, Inserts(index, key, id))
Remove(key, id) == Do("remove", <<key>>, id, Removes(index, key, id))
Update(old, new, id) == Do("update", <<old, new>>, id, Updates(index, old, new, id))

Next ==
  \E id \in Ids, key \in Keys :
    \/ Insert(key, id)
    \/ Remove(key, id)
    \/ \E new \in Keys : Update(key, new, id)

Spec == Init /\ [][Next]_vars

-----------------------------------------------------------------------------
(* Properties.                                                             *)

(* No entry lists no id.  Where a find is reliable, no two entries match,  *)
(* the entries of the std::map are in strictly increasing order of keys,   *)
(* and an entry of a unique index lists one id (insert, remove and update  *)
(* of BTreeIndex and HashIndex); a tree on several fields that finds NULL  *)
(* in front of the last promises none of the three.                        *)
WellFormed ==
  /\ index.entries \in Seq(Entries)
  /\ Reliable(index.kind) =>
       /\ \A i, j \in DOMAIN index.entries : i < j =>
            /\ ~Matches(index.kind, index.entries[i].key, index.entries[j].key)
            /\ index.kind = "BTREE" => Less(index.entries[i].key, index.entries[j].key)
       /\ \A i \in DOMAIN index.entries :
            index.unique => Len(index.entries[i].ids) = 1

(* search_equal visits one entry that matches the key, and none only if    *)
(* there is none, or if the tree is not reliable.  Whatever the shape of a *)
(* reliable tree, each range search visits exactly the entries whose keys  *)
(* are in its range, and search_between the intersection of                *)
(* search_greater_equal and search_less_equal when its bounds are ordered. *)
SearchesExact ==
  LET entries == index.entries
      Where(P(_)) == {{i \in DOMAIN entries : P(entries[i].key)}}
  IN
  \A key \in Keys :
    /\ \A visited \in SearchEqual(index, key) :
         \/ \E i \in DOMAIN entries : visited = {i} /\ Matches(index.kind, entries[i].key, key)
         \/ /\ visited = {}
            /\ Reliable(index.kind) =>
                 \A i \in DOMAIN entries : ~Matches(index.kind, entries[i].key, key)
    /\ index.kind = "BTREE" /\ Sortable =>
         /\ SearchGreaterThan(entries, key) = Where(LAMBDA k : Less(key, k))
         /\ SearchLessThan(entries, key) = Where(LAMBDA k : Less(k, key))
         /\ SearchGreaterEqual(entries, key) = Where(LAMBDA k : ~Less(k, key))
         /\ SearchLessEqual(entries, key) = Where(LAMBDA k : ~Less(key, k))
         /\ \A right \in Keys : ~Less(right, key) =>
              SearchBetween(entries, key, right) =
                Where(LAMBDA k : ~Less(k, key) /\ ~Less(right, k))

(* The index implements KeyedIds: every operation returns what the         *)
(* listings call for, and changes the listings of its id only, under the   *)
(* key it is given or one that compares equal.  A tree that is not         *)
(* reliable may miss a key, and still changes no other listing.            *)
Listed == [p \in Keys \X Ids |-> Cardinality(Listings(p[1], p[2]))]
KI == INSTANCE KeyedIds WITH
        kind <- index.kind, unique <- index.unique, listed <- Listed,
        Same <- [k \in Kinds |-> {p \in Keys \X Keys : Matches(k, p[1], p[2])}],
        Erring <- {k \in Kinds : ~Reliable(k)}
ImplementsKeyedIds == KI!Spec

=============================================================================
