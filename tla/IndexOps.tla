------------------------------ MODULE IndexOps ------------------------------
(***************************************************************************)
(* Scalar indexes: the keys (src/src/index/index_key.cpp) and the two kinds *)
(* of index over them, BTreeIndex (a std::map) and HashIndex (a            *)
(* std::unordered_map).  Each maps a key to the list of the ids that were  *)
(* inserted under it.                                                      *)
(*                                                                         *)
(* A value is what the comparison and the hash tell apart: the alternative *)
(* of the variant it holds (NULL is one), its rank among the values of     *)
(* that alternative, and its hash.  A key is the sequence of the values of *)
(* the indexed fields.                                                     *)
(*                                                                         *)
(* Values of different types compare equal, so the comparison need not be  *)
(* an order, and where a std::map then puts or finds a key depends on the  *)
(* shape of its tree.  The operations return the set of what can happen,   *)
(* over every shape, taken anew at each lookup; where all the types agree, *)
(* it has one element.                                                     *)
(***************************************************************************)
EXTENDS Integers, Sequences, FiniteSets

Seqs == INSTANCE SequencesExt

(* compare_field_values is not 0.                                          *)
ValuesDiffer(v, w) == v.type = w.type /\ v.rank # w.rank

Differences(a, b) == {i \in DOMAIN a \cap DOMAIN b : ValuesDiffer(a[i], b[i])}

(* IndexKey::compare is negative: the first difference decides, then the   *)
(* length.                                                                 *)
Less(a, b) ==
  \/ \E i \in Differences(a, b) :
       /\ a[i].rank < b[i].rank
       /\ \A j \in Differences(a, b) : i <= j
  \/ Differences(a, b) = {} /\ Len(a) < Len(b)

(* IndexKey::equals, the same as compare = 0.                              *)
Equal(a, b) == Differences(a, b) = {} /\ Len(a) = Len(b)

(* IndexKey::hash; how the hashes of the values are combined is left out.  *)
Hash(a) == [i \in DOMAIN a |-> a[i].hash]

-----------------------------------------------------------------------------
(* An index is its kind, whether it is unique, and its entries: for a      *)
(* BTREE in the order of the tree; the order of a HASH index's entries     *)
(* means nothing.                                                          *)
NewIndex(kind, unique) == [kind |-> kind, unique |-> unique, entries |-> <<>>]

Outcome(ok, index) == [ok |-> ok, index |-> index]

(* Where a descent of the tree can end that goes right at the keys P holds *)
(* of: a gap (before entry i) with P just left of it and ~P just right.    *)
Gaps(entries, P(_)) ==
  {i \in 1..Len(entries) + 1 :
     /\ i > 1 => P(entries[i - 1].key)
     /\ i <= Len(entries) => ~P(entries[i].key)}

LowerBounds(entries, key) == Gaps(entries, LAMBDA k : Less(k, key))
UpperBounds(entries, key) == Gaps(entries, LAMBDA k : ~Less(key, k))

(* index_map_.find(key): an entry's position, or 0 for end().              *)
TreeFinds(entries, key) ==
  {IF i > Len(entries) \/ Less(key, entries[i].key) THEN 0 ELSE i :
     i \in LowerBounds(entries, key)}

HashFinds(entries, key) ==
  LET found == {i \in DOMAIN entries :
                  Hash(entries[i].key) = Hash(key) /\ Equal(entries[i].key, key)}
  IN  IF found = {} THEN {0} ELSE found

Finds(index, key) ==
  IF index.kind = "BTREE" THEN TreeFinds(index.entries, key)
  ELSE HashFinds(index.entries, key)

(* emplace(key), then push_back(id) to the entry it made or found.         *)
(* A std::map may look for the place as lower_bound or as upper_bound does.*)
TreeEmplaces(entries, key, id) ==
  LET Join(i) == [entries EXCEPT ![i].ids = Append(@, id)]
      New(i) == Seqs!InsertAt(entries, i, [key |-> key, ids |-> <<id>>])
  IN
  {IF i <= Len(entries) /\ ~Less(key, entries[i].key) THEN Join(i) ELSE New(i) :
     i \in LowerBounds(entries, key)}
  \cup
  {IF i > 1 /\ ~Less(entries[i - 1].key, key) THEN Join(i - 1) ELSE New(i) :
     i \in UpperBounds(entries, key)}

HashEmplaces(entries, key, id) ==
  {IF i = 0 THEN Append(entries, [key |-> key, ids |-> <<id>>])
   ELSE [entries EXCEPT ![i].ids = Append(@, id)] :
     i \in HashFinds(entries, key)}

Emplaces(index, key, id) ==
  IF index.kind = "BTREE" THEN TreeEmplaces(index.entries, key, id)
  ELSE HashEmplaces(index.entries, key, id)

(* Bug: is_unique_ is not looked at.                                       *)
InsertsAlways(index, key, id) ==
  {Outcome(TRUE, [index EXCEPT !.entries = e]) : e \in Emplaces(index, key, id)}

(* Bug: a refused key is reported as a success.                            *)
InsertsRefusedOk(index, key, id) ==
  LET found == Finds(index, key) IN
  {Outcome(TRUE, index) : i \in {j \in found : index.unique /\ j # 0}}
  \cup {Outcome(TRUE, [index EXCEPT !.entries = e]) :
          e \in {f \in Emplaces(index, key, id) : ~index.unique \/ 0 \in found}}

(* insert: a unique index refuses a key it can find.                       *)
Inserts(index, key, id) ==
  LET found == Finds(index, key) IN
  {Outcome(FALSE, index) : i \in {j \in found : index.unique /\ j # 0}}
  \cup {Outcome(TRUE, [index EXCEPT !.entries = e]) :
          e \in {f \in Emplaces(index, key, id) : ~index.unique \/ 0 \in found}}

(* Bug: the whole entry goes, with the other ids it lists.                 *)
WithoutEntry(entries, i, id) == Seqs!RemoveAt(entries, i)

(* std::remove, then erase: the ids that stay are in the order they were   *)
(* in; the n-th of them is the one with n that stay up to its place.       *)
Staying(ids, id) == {m \in DOMAIN ids : ids[m] # id}
Left(ids, id) ==
  LET stay == Staying(ids, id)
  IN  [n \in 1..Cardinality(stay) |->
         ids[CHOOSE m \in stay : Cardinality(stay \cap (1..m)) = n]]

(* Entry i without the id; an entry whose list is empty goes away.         *)
Without(entries, i, id) ==
  LET left == Left(entries[i].ids, id)
  IN  IF left = <<>> THEN Seqs!RemoveAt(entries, i) ELSE [entries EXCEPT ![i].ids = left]

(* remove: every copy of the id in the entry; true even if there is none.  *)
Removes(index, key, id) ==
  {IF i = 0 THEN Outcome(FALSE, index)
   ELSE Outcome(TRUE, [index EXCEPT !.entries = Without(@, i, id)]) :
     i \in Finds(index, key)}

(* Bug: the old key is removed under the new one.                          *)
UpdatesWrongKey(index, old, new, id) ==
  UNION {IF r.ok THEN Inserts(r.index, new, id) ELSE {r} : r \in Removes(index, new, id)}

(* Bug: what insert returned is not looked at.                             *)
UpdatesIgnoringInsert(index, old, new, id) ==
  UNION {IF r.ok THEN {Outcome(TRUE, o.index) : o \in Inserts(r.index, new, id)} ELSE {r} :
           r \in Removes(index, old, id)}

(* update: remove, then insert; nothing is put back when the insert fails. *)
Updates(index, old, new, id) ==
  UNION {IF r.ok THEN Inserts(r.index, new, id) ELSE {r} : r \in Removes(index, old, id)}

-----------------------------------------------------------------------------
(* The searches, as the sets of positions whose lists they concatenate.    *)

SearchEqual(index, key) == {{i} \ {0} : i \in Finds(index, key)}

(* The range searches of a BTREE index.                                    *)
SearchGreaterThan(entries, key) == {i..Len(entries) : i \in UpperBounds(entries, key)}
SearchLessThan(entries, key) == {1..(i - 1) : i \in LowerBounds(entries, key)}
SearchGreaterEqual(entries, key) == {i..Len(entries) : i \in LowerBounds(entries, key)}
(* Bug: lower_bound instead of upper_bound.                                *)
SearchLessEqualLower(entries, key) == {1..(i - 1) : i \in LowerBounds(entries, key)}
SearchLessEqual(entries, key) == {1..(i - 1) : i \in UpperBounds(entries, key)}

(* Defined only if the right bound is not before the left one: the loop    *)
(* looks for it from the left one on.                                      *)
SearchBetween(entries, left, right) ==
  {lo..(hi - 1) : lo \in LowerBounds(entries, left), hi \in UpperBounds(entries, right)}

=============================================================================
