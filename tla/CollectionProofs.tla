-------------------------- MODULE CollectionProofs --------------------------
(***************************************************************************)
(* Proofs about Collection, for every number of fields, values, index      *)
(* metadata and rows, NULLs and repeated or missing fields included.       *)
(*                                                                         *)
(* The indexes are a loop of calls away from each other, and each call may *)
(* fail or throw.  So the proofs go from the inside out: what an operation *)
(* of one index can touch (Touches); what a call of the IndexManager can   *)
(* (CalledFacts); that what each call keeps, a loop of any number of them  *)
(* keeps (LoopKeeps); and last the steps of the collection.                *)
(***************************************************************************)
EXTENDS Collection, IndexOpsProofs

(* The entries and the indexes of the model: no entry lists nothing.       *)
EntryTypes == [key : Seq(Values), ids : Seq(Ids) \ {<<>>}]
IndexTypes == [kind : Kinds, unique : BOOLEAN, entries : Seq(EntryTypes)]

NewEntry(key, ids) == [key |-> key, ids |-> ids]
Relisted(es, i, ids) == [es EXCEPT ![i].ids = ids]

(* The keys under which the entries es list x.                             *)
KeysOf(es, x) == {es[i].key : i \in {n \in DOMAIN es : x \in Range(es[n].ids)}}

(* es2 lists every id but one as es does.                                  *)
OthersIn(es, es2, id) == \A x : x # id => KeysOf(es2, x) = KeysOf(es, x)

(* What an entry of a typed list of entries is.                            *)
LEMMA EntryFacts ==
  ASSUME NEW es \in Seq(EntryTypes)
  PROVE  /\ DOMAIN es = 1..Len(es) /\ Len(es) \in Nat
         /\ \A i \in DOMAIN es : /\ es[i] \in EntryTypes
                                 /\ es[i].key \in Seq(Values)
                                 /\ es[i].ids \in Seq(Ids) /\ es[i].ids # <<>>
                                 /\ es[i] = [key |-> es[i].key, ids |-> es[i].ids]
<1>1. \A i \in 1..Len(es) : es[i] \in EntryTypes
  OBVIOUS
<1> QED
  BY <1>1 DEF EntryTypes

(* A typed index, field by field.                                          *)
LEMMA IndexFacts ==
  ASSUME NEW ix \in IndexTypes
  PROVE  /\ ix = [kind |-> ix.kind, unique |-> ix.unique, entries |-> ix.entries]
         /\ ix.kind \in Kinds /\ ix.unique \in BOOLEAN /\ ix.entries \in Seq(EntryTypes)
BY DEF IndexTypes

(* An index with other entries, as each operation returns it.              *)
LEMMA IndexWith ==
  ASSUME NEW ix \in IndexTypes, NEW e \in Seq(EntryTypes)
  PROVE  LET ix2 == [ix EXCEPT !.entries = e] IN
         ix2 \in IndexTypes /\ ix2.kind = ix.kind /\ ix2.unique = ix.unique /\ ix2.entries = e
BY DEF IndexTypes

(* find answers end() or a place in the index, whatever the comparison     *)
(* makes of the keys.                                                      *)
LEMMA FindsWithin ==
  ASSUME NEW ix \in IndexTypes, NEW key, NEW f \in Finds(ix, key)
  PROVE  f = 0 \/ f \in DOMAIN ix.entries
<1> DEFINE es == ix.entries
<1>1. DOMAIN es = 1..Len(es) /\ Len(es) \in Nat
  BY IndexFacts, EntryFacts
<1>2. CASE ix.kind = "BTREE"
  <2>1. PICK i \in LowerBounds(es, key) :
          f = IF i > Len(es) \/ Less(key, es[i].key) THEN 0 ELSE i
    BY <1>2 DEF Finds, TreeFinds
  <2>2. i \in 1..Len(es) + 1
    BY <2>1, BoundsAre
  <2> HIDE DEF es
  <2> QED
    BY <1>1, <2>1, <2>2 DEF es
<1>3. CASE ix.kind # "BTREE"
  BY <1>3 DEF Finds, HashFinds
<1> QED
  BY <1>2, <1>3

(* emplace and push_back lengthen the list of one entry or put a new entry *)
(* between two: nothing else, in a tree of any shape and in a hash table.  *)
LEMMA EmplacesWithin ==
  ASSUME NEW ix \in IndexTypes, NEW key, NEW id, NEW e \in Emplaces(ix, key, id)
  PROVE  \/ \E i \in DOMAIN ix.entries :
              e = Relisted(ix.entries, i, Append(ix.entries[i].ids, id))
         \/ \E i \in 1..Len(ix.entries) + 1 :
              e = Seqs!InsertAt(ix.entries, i, NewEntry(key, <<id>>))
<1> DEFINE es == ix.entries
           Join(i) == [es EXCEPT ![i].ids = Append(@, id)]
           New(i) == Seqs!InsertAt(es, i, [key |-> key, ids |-> <<id>>])
<1>1. DOMAIN es = 1..Len(es) /\ Len(es) \in Nat /\ es \in Seq(EntryTypes)
  BY IndexFacts, EntryFacts
<1>5. SUFFICES \/ \E i \in DOMAIN es : e = Join(i)
               \/ \E i \in 1..Len(es) + 1 : e = New(i)
  BY DEF Relisted, NewEntry
<1>2. CASE ix.kind = "BTREE"
  <2>1. \/ \E i \in LowerBounds(es, key) :
             e = IF i <= Len(es) /\ ~Less(key, es[i].key) THEN Join(i) ELSE New(i)
        \/ \E i \in UpperBounds(es, key) :
             e = IF i > 1 /\ ~Less(es[i - 1].key, key) THEN Join(i - 1) ELSE New(i)
    BY <1>2 DEF Emplaces, TreeEmplaces
  <2>2. LowerBounds(es, key) \subseteq 1..Len(es) + 1 /\ UpperBounds(es, key) \subseteq 1..Len(es) + 1
    BY BoundsAre
  <2>3. \A i \in 1..Len(es) + 1 : /\ i <= Len(es) => i \in DOMAIN es
                                  /\ i > 1 => i - 1 \in DOMAIN es
    BY <1>1
  <2> HIDE DEF es, Join, New
  <2>4. CASE \E i \in LowerBounds(es, key) :
               e = IF i <= Len(es) /\ ~Less(key, es[i].key) THEN Join(i) ELSE New(i)
    BY <2>2, <2>3, <2>4
  <2>5. CASE \E i \in UpperBounds(es, key) :
               e = IF i > 1 /\ ~Less(es[i - 1].key, key) THEN Join(i - 1) ELSE New(i)
    BY <2>2, <2>3, <2>5
  <2> QED
    BY <2>1, <2>4, <2>5
<1>3. CASE ix.kind # "BTREE"
  <2>1. PICK i \in HashFinds(es, key) :
          e = IF i = 0 THEN Append(es, [key |-> key, ids |-> <<id>>]) ELSE Join(i)
    BY <1>3 DEF Emplaces, HashEmplaces
  <2>2. i = 0 \/ i \in DOMAIN es
    BY <2>1 DEF HashFinds
  <2>3. Len(es) + 1 \in 1..Len(es) + 1
    BY <1>1
  <2>4. New(Len(es) + 1) = Append(es, [key |-> key, ids |-> <<id>>])
    BY <1>1, InsertAtEnd
  <2> QED
    BY <1>1, <2>1, <2>2, <2>3, <2>4
<1> QED
  BY <1>2, <1>3

(* Entry i with another list: typed, and only what the lists of entry i    *)
(* differ in moves.                                                        *)
LEMMA RelistedFacts ==
  ASSUME NEW es \in Seq(EntryTypes), NEW i \in DOMAIN es, NEW ids \in Seq(Ids), ids # <<>>
  PROVE  LET e == Relisted(es, i, ids) IN
         /\ e \in Seq(EntryTypes) /\ DOMAIN e = DOMAIN es
         /\ \A j \in DOMAIN es : /\ e[j].key = es[j].key
                                 /\ e[j].ids = IF j = i THEN ids ELSE es[j].ids
<1> DEFINE x == [es[i] EXCEPT !.ids = ids]
           e == [es EXCEPT ![i] = x]
<1>1. x = [key |-> es[i].key, ids |-> ids]
  BY EntryFacts
<1>2. x \in EntryTypes /\ x.key = es[i].key /\ x.ids = ids
  BY <1>1, EntryFacts DEF EntryTypes
<1>3. Relisted(es, i, ids) = e
  BY DEF Relisted
<1> HIDE DEF x
<1>4. e \in Seq(EntryTypes) /\ DOMAIN e = DOMAIN es
  BY <1>2
<1>5. \A j \in DOMAIN es : e[j] = IF j = i THEN x ELSE es[j]
  OBVIOUS
<1> HIDE DEF e
<1> QED
  BY <1>2, <1>3, <1>4, <1>5

(* If the lists differ in id only, the other ids are listed where they     *)
(* were.                                                                   *)
LEMMA RelistedOthers ==
  ASSUME NEW es \in Seq(EntryTypes), NEW i \in DOMAIN es, NEW ids \in Seq(Ids), ids # <<>>, NEW id,
         \A x : x # id => (x \in Range(ids) <=> x \in Range(es[i].ids))
  PROVE  OthersIn(es, Relisted(es, i, ids), id)
<1> DEFINE e == Relisted(es, i, ids)
<1>1. /\ DOMAIN e = DOMAIN es
      /\ \A j \in DOMAIN es : /\ e[j].key = es[j].key
                              /\ e[j].ids = IF j = i THEN ids ELSE es[j].ids
  BY RelistedFacts
<1> HIDE DEF e
<1>2. \A x : x # id => \A j \in DOMAIN es : x \in Range(e[j].ids) <=> x \in Range(es[j].ids)
  BY <1>1
<1>3. \A x : x # id => KeysOf(e, x) = KeysOf(es, x)
  BY <1>1, <1>2 DEF KeysOf
<1> QED
  BY <1>3 DEF OthersIn, e

(* A list with an id behind it lists the id.                               *)
LEMMA AppendedFacts ==
  ASSUME NEW ids \in Seq(Ids), NEW id \in Ids
  PROVE  LET more == Append(ids, id) IN more \in Seq(Ids) /\ more # <<>> /\ id \in Range(more)
<1> DEFINE more == Append(ids, id)
<1>1. Len(ids) \in Nat /\ Len(ids) + 1 \in 1..Len(ids) + 1
  OBVIOUS
<1>2. /\ more \in Seq(Ids) /\ more # <<>> /\ Len(more) = Len(ids) + 1
      /\ more[Len(ids) + 1] = id
  BY AppendProperties
<1>3. Len(ids) + 1 \in DOMAIN more
  BY <1>1, <1>2
<1> HIDE DEF more
<1> QED
  BY <1>2, <1>3 DEF Range, more

(* A new entry lists one id.                                               *)
LEMMA NewEntryFacts ==
  ASSUME NEW key \in Seq(Values), NEW id \in Ids
  PROVE  LET x == NewEntry(key, <<id>>) IN
         /\ x \in EntryTypes /\ x.key = key /\ Range(x.ids) = {id}
         /\ DOMAIN x.ids = {1} /\ x.ids[1] = id
<1> DEFINE x == NewEntry(key, <<id>>)
<1>1. x.ids = <<id>> /\ x.key = key /\ <<id>> \in Seq(Ids) /\ <<id>> # <<>>
  BY DEF NewEntry
<1>2. Range(<<id>>) = {id} /\ DOMAIN <<id>> = {1} /\ <<id>>[1] = id
  BY DEF Range
<1> QED
  BY <1>1, <1>2 DEF EntryTypes, NewEntry

(* A new entry that lists id moves no listing of another.                  *)
LEMMA InsertedFacts ==
  ASSUME NEW es \in Seq(EntryTypes), NEW i \in 1..Len(es) + 1, NEW key \in Seq(Values), NEW id \in Ids
  PROVE  LET e == Seqs!InsertAt(es, i, NewEntry(key, <<id>>)) IN
         e \in Seq(EntryTypes) /\ OthersIn(es, e, id)
<1> DEFINE x == NewEntry(key, <<id>>)
           e == Seqs!InsertAt(es, i, x)
           N == Len(es)
<1>1. x \in EntryTypes /\ Range(x.ids) = {id}
  BY NewEntryFacts
<1> HIDE DEF x
<1>2. e \in Seq(EntryTypes) /\ Len(e) = N + 1
      /\ \A j \in 1..N + 1 : e[j] = IF j < i THEN es[j] ELSE IF j = i THEN x ELSE es[j - 1]
  BY <1>1, InsertAtFacts
<1>3. DOMAIN es = 1..N /\ N \in Nat /\ DOMAIN e = 1..N + 1 /\ i \in 1..N + 1
  BY <1>2, EntryFacts
<1> HIDE DEF e, N
<1>4. \A j \in DOMAIN es : \E n \in DOMAIN e : e[n] = es[j]
  <2> SUFFICES ASSUME NEW j \in DOMAIN es PROVE \E n \in DOMAIN e : e[n] = es[j]
    OBVIOUS
  <2>1. CASE j < i
    <3>1. j \in 1..N + 1 /\ e[j] = es[j]
      BY <1>2, <1>3, <2>1
    <3> QED
      BY <1>3, <3>1
  <2>2. CASE j >= i
    <3>1. j + 1 \in 1..N + 1 /\ e[j + 1] = es[j]
      BY <1>2, <1>3, <2>2
    <3> QED
      BY <1>3, <3>1
  <2> QED
    BY <1>3, <2>1, <2>2
<1>5. \A n \in DOMAIN e : e[n] = x \/ \E j \in DOMAIN es : e[n] = es[j]
  <2> SUFFICES ASSUME NEW n \in 1..N + 1, n # i PROVE \E j \in DOMAIN es : e[n] = es[j]
    BY <1>2, <1>3
  <2>1. CASE n < i
    BY <1>2, <1>3, <2>1
  <2>2. CASE n > i
    <3>1. n - 1 \in 1..N /\ e[n] = es[n - 1]
      BY <1>2, <1>3, <2>2
    <3> QED
      BY <1>3, <3>1
  <2> QED
    BY <1>3, <2>1, <2>2
<1>6. ASSUME NEW y, y # id PROVE KeysOf(e, y) = KeysOf(es, y)
  <2>1. \A k : (\E n \in DOMAIN e : y \in Range(e[n].ids) /\ e[n].key = k)
                 <=> \E j \in DOMAIN es : y \in Range(es[j].ids) /\ es[j].key = k
    BY <1>1, <1>4, <1>5, <1>6
  <2> QED
    BY <2>1 DEF KeysOf
<1> QED
  BY <1>2, <1>6 DEF OthersIn, e, x

(* Neither does taking out an entry that lists nothing but id.             *)
LEMMA RemovedFacts ==
  ASSUME NEW es \in Seq(EntryTypes), NEW i \in DOMAIN es, NEW id,
         \A n \in DOMAIN es[i].ids : es[i].ids[n] = id
  PROVE  LET e == Seqs!RemoveAt(es, i) IN
         e \in Seq(EntryTypes) /\ OthersIn(es, e, id)
<1> DEFINE e == Seqs!RemoveAt(es, i)
           N == Len(es)
<1>1. DOMAIN es = 1..N /\ N \in Nat /\ i \in 1..N
  BY EntryFacts
<1>2. e \in Seq(EntryTypes) /\ Len(e) = N - 1
      /\ \A j \in 1..N - 1 : e[j] = IF j < i THEN es[j] ELSE es[j + 1]
  BY <1>1, RemoveAtFacts
<1>3. DOMAIN e = 1..N - 1
  BY <1>2
<1> HIDE DEF e, N
<1>4. \A j \in DOMAIN es : j # i => \E n \in DOMAIN e : e[n] = es[j]
  <2> SUFFICES ASSUME NEW j \in DOMAIN es, j # i PROVE \E n \in DOMAIN e : e[n] = es[j]
    OBVIOUS
  <2>1. CASE j < i
    <3>1. j \in 1..N - 1 /\ e[j] = es[j]
      BY <1>1, <1>2, <2>1
    <3> QED
      BY <1>3, <3>1
  <2>2. CASE j > i
    <3>1. j - 1 \in 1..N - 1 /\ e[j - 1] = es[j]
      BY <1>1, <1>2, <2>2
    <3> QED
      BY <1>3, <3>1
  <2> QED
    BY <1>1, <2>1, <2>2
<1>5. \A n \in DOMAIN e : \E j \in DOMAIN es : e[n] = es[j]
  <2> SUFFICES ASSUME NEW n \in 1..N - 1 PROVE \E j \in DOMAIN es : e[n] = es[j]
    BY <1>3
  <2>1. n \in 1..N /\ n + 1 \in 1..N /\ (e[n] = es[n] \/ e[n] = es[n + 1])
    BY <1>1, <1>2
  <2> QED
    BY <1>1, <2>1
<1>6. ASSUME NEW y, y # id PROVE KeysOf(e, y) = KeysOf(es, y)
  <2>1. y \notin Range(es[i].ids)
    BY <1>6 DEF Range
  <2>2. \A k : (\E n \in DOMAIN e : y \in Range(e[n].ids) /\ e[n].key = k)
                 <=> \E j \in DOMAIN es : y \in Range(es[j].ids) /\ es[j].key = k
    BY <1>4, <1>5, <2>1
  <2> QED
    BY <2>2 DEF KeysOf
<1> QED
  BY <1>2, <1>6 DEF OthersIn, e

(* ix2 is ix with listings of id only changed.                             *)
Touches(ix, ix2, id) ==
  /\ ix2 \in IndexTypes /\ ix2.kind = ix.kind /\ ix2.unique = ix.unique
  /\ OthersIn(ix.entries, ix2.entries, id)

(* BTreeIndex::insert and HashIndex::insert change listings of the id      *)
(* inserted only, whether they succeed or not and whatever order the tree  *)
(* is in.                                                                  *)
LEMMA InsertsTouch ==
  ASSUME NEW ix \in IndexTypes, NEW key \in Seq(Values), NEW id \in Ids,
         NEW o \in Inserts(ix, key, id)
  PROVE  o.ok \in BOOLEAN /\ Touches(ix, o.index, id)
<1> DEFINE es == ix.entries
<1>1. es \in Seq(EntryTypes)
  BY IndexFacts
<1>2. CASE o = Outcome(FALSE, ix)
  BY <1>2 DEF Outcome, Touches, OthersIn
<1>3. ASSUME NEW e \in Emplaces(ix, key, id), o = Outcome(TRUE, [ix EXCEPT !.entries = e])
      PROVE  o.ok \in BOOLEAN /\ Touches(ix, o.index, id)
  <2>1. e \in Seq(EntryTypes) /\ OthersIn(es, e, id)
    <3>1. CASE \E i \in DOMAIN es : e = Relisted(es, i, Append(es[i].ids, id))
      <4>1. PICK i \in DOMAIN es : e = Relisted(es, i, Append(es[i].ids, id))
        BY <3>1
      <4> DEFINE ids == Append(es[i].ids, id)
      <4>2. es[i].ids \in Seq(Ids)
        BY <1>1, EntryFacts
      <4>3. ids \in Seq(Ids) /\ ids # <<>>
        BY <4>2, AppendProperties
      <4>4. \A x : x # id => (x \in Range(ids) <=> x \in Range(es[i].ids))
        BY <4>2, AppendMembers DEF Range
      <4> HIDE DEF es, ids
      <4>5. e = Relisted(es, i, ids)
        BY <4>1 DEF ids
      <4> QED
        BY <1>1, <4>3, <4>4, <4>5, RelistedFacts, RelistedOthers
    <3>2. CASE \E i \in 1..Len(es) + 1 : e = Seqs!InsertAt(es, i, NewEntry(key, <<id>>))
      <4> HIDE DEF es
      <4> QED
        BY <1>1, <3>2, InsertedFacts
    <3> QED
      BY <3>1, <3>2, EmplacesWithin
  <2> DEFINE ix2 == [ix EXCEPT !.entries = e]
  <2>2. ix2 \in IndexTypes /\ ix2.kind = ix.kind /\ ix2.unique = ix.unique /\ ix2.entries = e
    BY <2>1, IndexWith
  <2> HIDE DEF ix2
  <2>3. o.ok = TRUE /\ o.index = ix2
    BY <1>3 DEF Outcome, ix2
  <2> QED
    BY <2>1, <2>2, <2>3 DEF Touches
<1> QED
  BY <1>2, <1>3 DEF Inserts

(* remove changes listings of the id removed only: it may erase an entry,  *)
(* but one that listed nothing else.                                       *)
LEMMA RemovesTouch ==
  ASSUME NEW ix \in IndexTypes, NEW key, NEW id \in Ids, NEW o \in Removes(ix, key, id)
  PROVE  o.ok \in BOOLEAN /\ Touches(ix, o.index, id)
<1> DEFINE es == ix.entries
<1>1. es \in Seq(EntryTypes)
  BY IndexFacts
<1>2. PICK i \in Finds(ix, key) :
        o = IF i = 0 THEN Outcome(FALSE, ix)
            ELSE Outcome(TRUE, [ix EXCEPT !.entries = Without(@, i, id)])
  BY DEF Removes
<1>3. CASE i = 0
  BY <1>2, <1>3 DEF Outcome, Touches, OthersIn
<1>4. CASE i # 0
  <2> DEFINE left == Left(es[i].ids, id)
             e == Without(es, i, id)
  <2>1. i \in DOMAIN es
    BY <1>4, FindsWithin
  <2>2. es[i].ids \in Seq(Ids)
    BY <1>1, <2>1, EntryFacts
  <2>3. left \in Seq(Ids) /\ (left = <<>> <=> \A n \in DOMAIN es[i].ids : es[i].ids[n] = id)
    BY <2>2, LeftFacts
  <2>4. e \in Seq(EntryTypes) /\ OthersIn(es, e, id)
    <3>1. CASE left = <<>>
      <4>1. e = Seqs!RemoveAt(es, i)
        BY <3>1 DEF Without
      <4> HIDE DEF e, es, left
      <4> QED
        BY <1>1, <2>1, <2>3, <3>1, <4>1, RemovedFacts
    <3>2. CASE left # <<>>
      <4>1. e = Relisted(es, i, left)
        BY <3>2 DEF Without, Relisted
      <4>2. \A x : x # id => (x \in Range(left) <=> x \in Range(es[i].ids))
        <5> DEFINE ids == es[i].ids
        <5>1. ids \in Seq(Ids)
          BY <2>2
        <5> HIDE DEF ids
        <5>2. \A x : x # id => LET l == Left(ids, id) IN
                x \in {l[n] : n \in DOMAIN l} <=> x \in {ids[n] : n \in DOMAIN ids}
          BY <5>1, LeftMembers
        <5> QED
          BY <5>2 DEF Range, ids
      <4> HIDE DEF e, es, left
      <4> QED
        BY <1>1, <2>1, <2>3, <3>2, <4>1, <4>2, RelistedFacts, RelistedOthers
    <3> QED
      BY <3>1, <3>2
  <2> DEFINE ix2 == [ix EXCEPT !.entries = e]
  <2>5. o.ok = TRUE /\ o.index = ix2
    BY <1>2, <1>4 DEF Outcome
  <2> HIDE DEF e
  <2>6. ix2 \in IndexTypes /\ ix2.kind = ix.kind /\ ix2.unique = ix.unique /\ ix2.entries = e
    BY <2>4, IndexWith
  <2> HIDE DEF ix2
  <2> QED
    BY <2>4, <2>5, <2>6 DEF Touches
<1> QED
  BY <1>3, <1>4

(* update changes listings of the id updated only, also when the insert    *)
(* after the removal is refused.                                           *)
LEMMA UpdatesTouch ==
  ASSUME NEW ix \in IndexTypes, NEW old, NEW key \in Seq(Values), NEW id \in Ids,
         NEW o \in Updates(ix, old, key, id)
  PROVE  o.ok \in BOOLEAN /\ Touches(ix, o.index, id)
<1>1. PICK r \in Removes(ix, old, id) : o \in IF r.ok THEN Inserts(r.index, key, id) ELSE {r}
  BY DEF Updates
<1>2. r.ok \in BOOLEAN /\ Touches(ix, r.index, id)
  BY RemovesTouch
<1>3. CASE r.ok
  <2>1. r.index \in IndexTypes
    BY <1>2 DEF Touches
  <2>2. o.ok \in BOOLEAN /\ Touches(r.index, o.index, id)
    BY <1>1, <1>3, <2>1, InsertsTouch
  <2> QED
    BY <1>2, <2>2 DEF Touches, OthersIn
<1>4. CASE ~r.ok
  BY <1>1, <1>2, <1>4
<1> QED
  BY <1>3, <1>4

-----------------------------------------------------------------------------

(* The results that the calls up to the i-th, from those up to the one     *)
(* before it.                                                              *)
NextResults(results, c) ==
  UNION {IF o.status = "ok" THEN Called(o.manager, c) ELSE {o} : o \in results}

(* The recursive function of Loop exists: one that is right up to a call   *)
(* can be made right up to the next.                                       *)
LEMMA LoopRuns ==
  ASSUME NEW calls, Len(calls) \in Nat, NEW manager
  PROVE  \E after : /\ after[0] = {After("ok", manager)}
                    /\ \A i \in 1..Len(calls) : after[i] = NextResults(after[i - 1], calls[i])
                    /\ Loop(calls, manager) = after[Len(calls)]
<1> DEFINE N == Len(calls)
           Step(f, i) == IF i = 0 THEN {After("ok", manager)} ELSE NextResults(f[i - 1], calls[i])
           Right(f, k) == \A i \in 0..k : f[i] = Step(f, i)
           Bad == {k \in 0..N : ~\E f : Right(f, k)}
<1>1. N \in Nat
  OBVIOUS
<1>2. Bad = {}
  <2> SUFFICES ASSUME Bad # {} PROVE FALSE
    OBVIOUS
  <2>1. PICK k \in Bad : \A j \in Bad : k <= j
    <3>1. Bad \in SUBSET Nat
      BY <1>1
    <3> HIDE DEF Bad
    <3> QED
      BY <3>1, LeastExists
  <2>2. CASE k = 0
    <3> DEFINE f == [i \in {0} |-> {After("ok", manager)}]
    <3>1. Right(f, 0)
      OBVIOUS
    <3> QED
      BY <2>2, <3>1
  <2>3. CASE k # 0
    <3>1. k \in 0..N /\ k - 1 \in 0..N /\ k - 1 \notin Bad
      <4>1. k \in 0..N
        BY <2>1
      <4> HIDE DEF Bad, N
      <4>2. k - 1 \in 0..N /\ ~(k <= k - 1)
        BY <1>1, <2>3, <4>1
      <4> QED
        BY <2>1, <4>1, <4>2
    <3>2. PICK f : Right(f, k - 1)
      BY <3>1
    <3> DEFINE g == [i \in 0..k |-> IF i = k THEN Step(f, k) ELSE f[i]]
    <3>3. \A i \in 0..k : g[i] = IF i = k THEN Step(f, k) ELSE f[i]
      OBVIOUS
    <3> HIDE DEF g
    <3>4. ASSUME NEW i \in 0..k PROVE g[i] = Step(g, i)
      <4>1. i # 0 => i - 1 \in 0..k /\ i - 1 # k
        BY <1>1, <3>1
      <4>2. Step(g, i) = Step(f, i)
        BY <3>3, <4>1
      <4>3. i # k => i \in 0..(k - 1)
        BY <3>1
      <4>4. i # k => f[i] = Step(f, i)
        BY <3>2, <4>3
      <4> HIDE DEF Step
      <4> QED
        BY <3>3, <4>2, <4>4
    <3>5. Right(g, k)
      BY <3>4
    <3>6. k \notin Bad
      <4> HIDE DEF Right
      <4> QED
        BY <3>5
    <3> QED
      BY <2>1, <3>6
  <2> QED
    BY <2>2, <2>3
<1>3. PICK f : Right(f, N)
  <2> HIDE DEF Right
  <2>1. N \in 0..N /\ N \notin Bad
    BY <1>1, <1>2
  <2> QED
    BY <2>1
<1> DEFINE g == [i \in 0..N |-> f[i]]
           Body(h) == [i \in 0..N |-> Step(h, i)]
<1>4. g = Body(g)
  <2>1. \A i \in 0..N : f[i] = Step(g, i)
    <3> SUFFICES ASSUME NEW i \in 0..N PROVE f[i] = Step(g, i)
      OBVIOUS
    <3>1. i # 0 => i - 1 \in 0..N
      BY <1>1
    <3>2. Step(f, i) = Step(g, i)
      BY <3>1
    <3> HIDE DEF Step, g
    <3> QED
      BY <1>3, <3>2
  <2> HIDE DEF Step
  <2> QED
    BY <2>1
<1> DEFINE after == CHOOSE h : h = Body(h)
<1>5. after = Body(after)
  <2>1. \E h : h = Body(h)
    <3> HIDE DEF g, Body
    <3> QED
      BY <1>4
  <2> HIDE DEF Body
  <2> QED
    BY <2>1
<1>6. Loop(calls, manager) = after[N]
  BY DEF Loop, NextResults
<1> HIDE DEF after
<1>7. \A i \in 0..N : after[i] = Step(after, i)
  BY <1>5
<1>8. after[0] = {After("ok", manager)} /\ \A i \in 1..N : after[i] = NextResults(after[i - 1], calls[i])
  BY <1>1, <1>7
<1> QED
  BY <1>6, <1>8

(* What holds after the i-th call, if it does before, holds when they are    *)
(* done.                                                                   *)
LEMMA LoopReaches ==
  ASSUME NEW calls, Len(calls) \in Nat, NEW manager, NEW Good,
         After("ok", manager) \in Good[0],
         \A i \in 1..Len(calls) : \A o \in Good[i - 1] :
           /\ o.status = "ok" => Called(o.manager, calls[i]) \subseteq Good[i]
           /\ o.status # "ok" => o \in Good[i]
  PROVE  Loop(calls, manager) \subseteq Good[Len(calls)]
<1> DEFINE N == Len(calls)
<1>1. PICK after : /\ after[0] = {After("ok", manager)}
                   /\ \A i \in 1..N : after[i] = NextResults(after[i - 1], calls[i])
                   /\ Loop(calls, manager) = after[N]
  BY LoopRuns
<1> DEFINE Bad == {k \in 0..N : ~(after[k] \subseteq Good[k])}
<1>2. Bad = {}
  <2> SUFFICES ASSUME Bad # {} PROVE FALSE
    OBVIOUS
  <2>1. PICK k \in Bad : \A j \in Bad : k <= j
    <3>1. Bad \in SUBSET Nat
      OBVIOUS
    <3> HIDE DEF Bad
    <3> QED
      BY <3>1, LeastExists
  <2>2. CASE k = 0
    BY <1>1, <2>1, <2>2
  <2>3. CASE k # 0
    <3>1. k \in 1..N /\ k - 1 \in 0..N /\ k - 1 \notin Bad
      BY <2>1, <2>3
    <3>2. after[k - 1] \subseteq Good[k - 1]
      BY <3>1
    <3>3. after[k] = NextResults(after[k - 1], calls[k])
      BY <1>1, <3>1
    <3>4. after[k] \subseteq Good[k]
      BY <3>1, <3>2, <3>3 DEF NextResults
    <3> QED
      BY <2>1, <3>4
  <2> QED
    BY <2>2, <2>3
<1>3. N \in 0..N /\ N \notin Bad
  BY <1>2
<1> QED
  BY <1>1, <1>3

(* What the calls keep holds when they are done.                           *)
LEMMA LoopKeeps ==
  ASSUME NEW calls, Len(calls) \in Nat, NEW manager, NEW Good,
         After("ok", manager) \in Good,
         \A o \in Good : \A i \in 1..Len(calls) :
           o.status = "ok" => Called(o.manager, calls[i]) \subseteq Good
  PROVE  Loop(calls, manager) \subseteq Good
<1> DEFINE N == Len(calls)
           same == [i \in 0..N |-> Good]
<1>1. \A i \in 0..N : same[i] = Good
  OBVIOUS
<1>2. 0 \in 0..N /\ N \in 0..N /\ \A i \in 1..N : i - 1 \in 0..N /\ i \in 0..N
  OBVIOUS
<1> HIDE DEF same
<1>3. After("ok", manager) \in same[0]
  BY <1>1, <1>2
<1>4. \A i \in 1..N : \A o \in same[i - 1] :
        /\ o.status = "ok" => Called(o.manager, calls[i]) \subseteq same[i]
        /\ o.status # "ok" => o \in same[i]
  BY <1>1, <1>2
<1>5. Loop(calls, manager) \subseteq same[N]
  BY <1>3, <1>4, LoopReaches
<1> QED
  BY <1>1, <1>2, <1>5

-----------------------------------------------------------------------------

Statuses == {"ok", "failure", "throw"}
Calls == [op : {"insert", "remove", "update"}, meta : IndexMetas, id : Ids, old : Rows, row : Rows]

(* The managers that hold the indexes of the metadata and no other.        *)
Managers(metas) ==
  {m \in [DOMAIN metas -> IndexTypes] :
     \A n \in DOMAIN metas : m[n].kind = metas[n].kind /\ m[n].unique = metas[n].unique}

Results(metas) == [status : Statuses, manager : Managers(metas)]

(* Calls on one index, and calls for one entity.                           *)
AllOn(calls, name) == \A i \in 1..Len(calls) : calls[i].meta.name = name
AllFor(calls, id) == \A i \in 1..Len(calls) : calls[i].id = id

(* The parts of the metadata of an index.                                  *)
LEMMA MetaFacts ==
  ASSUME NEW meta \in IndexMetas
  PROVE  /\ meta.name \in IndexNames /\ meta.kind \in Kinds /\ meta.unique \in BOOLEAN
         /\ meta.fields \in Seq(Nat \ {0})
BY CollectionAssumption

(* The parts of a call on an index.                                        *)
LEMMA CallFacts ==
  ASSUME NEW c \in Calls
  PROVE  /\ c.op \in {"insert", "remove", "update"} /\ c.meta \in IndexMetas
         /\ c.id \in Ids /\ c.old \in Rows /\ c.row \in Rows
BY DEF Calls

(* The key made of a row is a sequence of values, when the fields are in   *)
(* range (otherwise get_value throws).                                     *)
LEMMA KeyTyped ==
  ASSUME NEW row \in Rows, NEW meta \in IndexMetas, FieldsOk(meta)
  PROVE  KeyOf(row, meta) \in Seq(Values)
<1>1. meta.fields \in Seq(Nat \ {0})
  BY MetaFacts
<1>2. Len(meta.fields) \in Nat /\ DOMAIN meta.fields = 1..Len(meta.fields)
  BY <1>1
<1>3. \A i \in 1..Len(meta.fields) : meta.fields[i] \in Fields
  BY <1>2 DEF FieldsOk, Range
<1>4. \A i \in 1..Len(meta.fields) : row[meta.fields[i]] \in Values
  BY <1>3 DEF Rows
<1>5. KeyOf(row, meta) = [i \in 1..Len(meta.fields) |-> row[meta.fields[i]]]
  BY <1>2 DEF KeyOf
<1> QED
  BY <1>2, <1>4, <1>5, IsASeq

(* Each of the three operations changes listings of its id only.           *)
LEMMA OutcomesTouch ==
  ASSUME NEW ix \in IndexTypes, NEW c \in Calls, FieldsOk(c.meta), NEW o \in Outcomes(ix, c)
  PROVE  o.ok \in BOOLEAN /\ Touches(ix, o.index, c.id)
<1>1. KeyOf(c.row, c.meta) \in Seq(Values) /\ c.id \in Ids
  BY CallFacts, KeyTyped
<1>2. CASE c.op = "insert"
  <2>1. o \in Inserts(ix, KeyOf(c.row, c.meta), c.id)
    BY <1>2 DEF Outcomes
  <2> QED
    BY <1>1, <2>1, InsertsTouch
<1>3. CASE c.op = "remove"
  <2>1. o \in Removes(ix, KeyOf(c.row, c.meta), c.id)
    BY <1>3 DEF Outcomes
  <2> QED
    BY <1>1, <2>1, RemovesTouch
<1>4. CASE c.op = "update"
  <2>1. o \in Updates(ix, KeyOf(c.old, c.meta), KeyOf(c.row, c.meta), c.id)
    BY <1>4 DEF Outcomes
  <2> QED
    BY <1>1, <2>1, UpdatesTouch
<1> QED
  BY <1>2, <1>3, <1>4, CallFacts

(* A call of the IndexManager keeps the indexes those of the metadata, and *)
(* changes the listings of its id in its index only.                       *)
LEMMA CalledFacts ==
  ASSUME NEW metas, NEW m \in Managers(metas), NEW c \in Calls, NEW o \in Called(m, c)
  PROVE  /\ o \in Results(metas)
         /\ \A n \in DOMAIN metas : OthersIn(m[n].entries, o.manager[n].entries, c.id)
         /\ \A n \in DOMAIN metas : n # c.meta.name => o.manager[n] = m[n]
<1> DEFINE name == c.meta.name
<1>1. DOMAIN m = DOMAIN metas /\ \A n \in DOMAIN metas : m[n] \in IndexTypes
  BY DEF Managers
<1>2. CASE \E status \in Statuses : o = After(status, m)
  BY <1>2 DEF After, Results, OthersIn
<1>3. CASE FieldsOk(c.meta) /\ name \in DOMAIN m /\ m[name].kind = c.meta.kind
  <2>1. PICK p \in Outcomes(m[name], c) :
          o = After(IF p.ok THEN "ok" ELSE "failure", Put(m, name, p.index))
    BY <1>3 DEF Called, Managed
  <2>2. Touches(m[name], p.index, c.id)
    BY <1>1, <1>3, OutcomesTouch
  <2> DEFINE m2 == Put(m, name, p.index)
             status == IF p.ok THEN "ok" ELSE "failure"
  <2>3. m2 = [n \in DOMAIN metas |-> IF n = name THEN p.index ELSE m[n]]
    BY <1>1, <1>3 DEF Put
  <2>4. status \in Statuses
    BY DEF Statuses
  <2> HIDE DEF m2, status, name
  <2>5. o.manager = m2 /\ o = [status |-> status, manager |-> m2]
    BY <2>1 DEF After, m2, status
  <2>6. m2 \in Managers(metas)
    <3>1. \A n \in DOMAIN metas : m2[n] \in IndexTypes /\ m2[n].kind = m[n].kind /\ m2[n].unique = m[n].unique
      BY <1>1, <2>2, <2>3 DEF Touches
    <3>2. \A n \in DOMAIN metas : m[n].kind = metas[n].kind /\ m[n].unique = metas[n].unique
      BY DEF Managers
    <3> QED
      BY <2>3, <3>1, <3>2 DEF Managers
  <2>7. \A n \in DOMAIN metas : OthersIn(m[n].entries, m2[n].entries, c.id)
    BY <2>2, <2>3 DEF Touches, OthersIn
  <2> QED
    BY <2>3, <2>4, <2>5, <2>6, <2>7 DEF Results, name
<1>4. CASE ~(FieldsOk(c.meta) /\ name \in DOMAIN m /\ m[name].kind = c.meta.kind)
  BY <1>2, <1>4 DEF Called, Managed, Statuses
<1> QED
  BY <1>3, <1>4

(* The calls of a list leave every other index, or every other entity, as  *)
(* it was.                                                                 *)
LEMMA LoopTyped ==
  ASSUME NEW metas, NEW m \in Managers(metas), NEW calls \in Seq(Calls)
  PROVE  Loop(calls, m) \subseteq Results(metas)
<1>1. Len(calls) \in Nat /\ \A i \in 1..Len(calls) : calls[i] \in Calls
  OBVIOUS
<1>2. After("ok", m) \in Results(metas)
  BY DEF After, Results, Statuses
<1>3. \A o \in Results(metas) : \A i \in 1..Len(calls) : Called(o.manager, calls[i]) \subseteq Results(metas)
  BY <1>1, CalledFacts DEF Results
<1> QED
  BY <1>1, <1>2, <1>3, LoopKeeps

LEMMA LoopOnOne ==
  ASSUME NEW metas, NEW m \in Managers(metas), NEW calls \in Seq(Calls), NEW name,
         AllOn(calls, name),
         NEW o \in Loop(calls, m), NEW n \in DOMAIN metas, n # name
  PROVE  o.manager[n] = m[n]
<1> DEFINE Good == {r \in Results(metas) : r.manager[n] = m[n]}
<1>1. Len(calls) \in Nat /\ \A i \in 1..Len(calls) : calls[i] \in Calls
  OBVIOUS
<1>2. After("ok", m) \in Good
  BY DEF After, Results, Statuses
<1>3. \A r \in Good : \A i \in 1..Len(calls) : Called(r.manager, calls[i]) \subseteq Good
  <2> SUFFICES ASSUME NEW r \in Good, NEW i \in 1..Len(calls), NEW p \in Called(r.manager, calls[i])
               PROVE  p \in Good
    OBVIOUS
  <2>1. calls[i] \in Calls /\ r.manager \in Managers(metas) /\ calls[i].meta.name # n
    BY <1>1 DEF Results, AllOn
  <2>2. p \in Results(metas) /\ p.manager[n] = r.manager[n]
    BY <2>1, CalledFacts
  <2> QED
    BY <2>2
<1>4. Loop(calls, m) \subseteq Good
  <2> HIDE DEF Good
  <2> QED
    BY <1>1, <1>2, <1>3, LoopKeeps
<1> QED
  BY <1>4

LEMMA LoopForOne ==
  ASSUME NEW metas, NEW m \in Managers(metas), NEW calls \in Seq(Calls), NEW id,
         AllFor(calls, id),
         NEW o \in Loop(calls, m), NEW n \in DOMAIN metas
  PROVE  OthersIn(m[n].entries, o.manager[n].entries, id)
<1> DEFINE Good == {r \in Results(metas) : OthersIn(m[n].entries, r.manager[n].entries, id)}
<1>1. Len(calls) \in Nat /\ \A i \in 1..Len(calls) : calls[i] \in Calls
  OBVIOUS
<1>2. After("ok", m) \in Good
  BY DEF After, Results, Statuses, OthersIn
<1>3. \A r \in Good : \A i \in 1..Len(calls) : Called(r.manager, calls[i]) \subseteq Good
  <2> SUFFICES ASSUME NEW r \in Good, NEW i \in 1..Len(calls), NEW p \in Called(r.manager, calls[i])
               PROVE  p \in Good
    OBVIOUS
  <2>1. calls[i] \in Calls /\ r.manager \in Managers(metas) /\ calls[i].id = id
    BY <1>1 DEF Results, AllFor
  <2>2. p \in Results(metas) /\ OthersIn(r.manager[n].entries, p.manager[n].entries, id)
    BY <2>1, CalledFacts
  <2> QED
    BY <2>2 DEF OthersIn
<1>4. Loop(calls, m) \subseteq Good
  <2> HIDE DEF Good
  <2> QED
    BY <1>1, <1>2, <1>3, LoopKeeps
<1> QED
  BY <1>4

-----------------------------------------------------------------------------

MetasOK(metas) ==
  /\ metas \in [DOMAIN metas -> IndexMetas]
  /\ IsFiniteSet(DOMAIN metas)
  /\ \A n \in DOMAIN metas : metas[n].name = n

(* The inductive invariant.                                                *)
Inv ==
  /\ next_id \in 1..MaxId + 1
  /\ DOMAIN entity_map \subseteq HandedOut /\ entity_map \in [DOMAIN entity_map -> Rows]
  /\ MetasOK(index_meta_map)
  /\ field_to_index_map = Rebuilt(index_meta_map)
  /\ indexes \in Managers(index_meta_map)
  /\ answer.status \in Statuses

(* The orders of a finite set are sequences of its elements.               *)
LEMMA OrdersTyped ==
  ASSUME NEW S, IsFiniteSet(S), NEW o \in Orders(S)
  PROVE  o \in Seq(S)
<1>1. Cardinality(S) \in Nat
  BY FS_CardinalityType
<1>2. o \in [1..Cardinality(S) -> S]
  BY DEF Orders
<1> QED
  BY <1>1, <1>2

(* field_to_index_map lists indexes that have metadata, each a number of   *)
(* times.                                                                  *)
LEMMA ListedTimes ==
  ASSUME NEW metas, MetasOK(metas), NEW f \in DOMAIN Rebuilt(metas)
  PROVE  LET times == Rebuilt(metas)[f] IN
         DOMAIN times \subseteq DOMAIN metas /\ \A n \in DOMAIN times : times[n] \in Nat
<1> DEFINE times == Rebuilt(metas)[f]
           places(n) == {i \in DOMAIN metas[n].fields : metas[n].fields[i] = f}
<1>1. times = [n \in {m \in DOMAIN metas : f \in Range(metas[m].fields)} |-> Cardinality(places(n))]
  BY DEF Rebuilt
<1>2. ASSUME NEW n \in DOMAIN times PROVE times[n] \in Nat
  <2>1. n \in DOMAIN metas /\ times[n] = Cardinality(places(n))
    BY <1>1
  <2>2. metas[n].fields \in Seq(Nat \ {0})
    BY <2>1, MetaFacts DEF MetasOK
  <2>3. places(n) \subseteq 1..Len(metas[n].fields) /\ IsFiniteSet(1..Len(metas[n].fields))
    <3>1. Len(metas[n].fields) \in Nat /\ DOMAIN metas[n].fields = 1..Len(metas[n].fields)
      BY <2>2
    <3>2. IsFiniteSet(1..Len(metas[n].fields))
      BY <3>1, FS_Interval
    <3> QED
      BY <3>1, <3>2
  <2>4. Cardinality(places(n)) \in Nat
    BY <2>3, FS_Subset, FS_CardinalityType
  <2> QED
    BY <2>1, <2>4
<1> QED
  BY <1>1, <1>2

(* The length of the list a field has in it.                               *)
LEMMA TimesFinite ==
  ASSUME NEW times, IsFiniteSet(DOMAIN times), \A n \in DOMAIN times : times[n] \in Nat
  PROVE  Cardinality(UNION {{n} \X (1..times[n]) : n \in DOMAIN times}) \in Nat
<1> DEFINE D == DOMAIN times
           rows == {{n} \X (1..times[n]) : n \in D}
           row == [n \in D |-> {n} \X (1..times[n])]
<1>1. row \in Surjection(D, rows)
  BY DEF Surjection
<1>2. IsFiniteSet(rows)
  <2> HIDE DEF row, rows, D
  <2> QED
    BY <1>1, FS_Surjection DEF D
<1>3. ASSUME NEW n \in D PROVE IsFiniteSet({n} \X (1..times[n]))
  <2>1. IsFiniteSet({n}) /\ IsFiniteSet(1..times[n])
    <3>1. times[n] \in Nat
      OBVIOUS
    <3>2. IsFiniteSet(1..times[n])
      BY <3>1, FS_Interval
    <3>3. IsFiniteSet({n})
      BY FS_Singleton
    <3> QED
      BY <3>2, <3>3
  <2> QED
    BY <2>1, FS_Product
<1>4. IsFiniteSet(UNION rows)
  <2>1. \A r \in rows : IsFiniteSet(r)
    BY <1>3
  <2> HIDE DEF rows
  <2> QED
    BY <1>2, <2>1, FS_UNION
<1> QED
  BY <1>4, FS_CardinalityType

(* The lists of metadata that the three finders return name indexes that   *)
(* are there.                                                              *)
LEMMA ListsTyped ==
  ASSUME Inv, NEW list \in MetadataLists
  PROVE  list \in Seq(DOMAIN index_meta_map)
<1> DEFINE names == DOMAIN index_meta_map
<1>1. IsFiniteSet(names) /\ MetasOK(index_meta_map)
  BY DEF Inv, MetasOK
<1>2. \A f \in DOMAIN field_to_index_map :
        /\ DOMAIN field_to_index_map[f] \subseteq names
        /\ \A n \in DOMAIN field_to_index_map[f] : field_to_index_map[f][n] \in Nat
  BY <1>1, ListedTimes DEF Inv
<1>3. CASE list \in AllMetadata
  BY <1>1, <1>3, OrdersTyped DEF AllMetadata
<1>4. ASSUME NEW fields, list \in MetadataByFields(fields)
      PROVE  list \in Seq(names)
  <2> DEFINE S == UNION {DOMAIN field_to_index_map[f] : f \in fields \cap DOMAIN field_to_index_map}
  <2>1. S \subseteq names
    BY <1>2
  <2>2. IsFiniteSet(S)
    BY <1>1, <2>1, FS_Subset
  <2>3. list \in Orders(S)
    BY <1>4 DEF MetadataByFields
  <2> HIDE DEF S
  <2>4. list \in Seq(S)
    BY <2>2, <2>3, OrdersTyped
  <2> QED
    BY <2>1, <2>4
<1>5. ASSUME NEW f, list \in MetadataByField(f)
      PROVE  list \in Seq(names)
  <2>1. CASE f \notin DOMAIN field_to_index_map
    BY <1>5, <2>1 DEF MetadataByField
  <2>2. CASE f \in DOMAIN field_to_index_map
    <3> DEFINE times == field_to_index_map[f]
               length == Cardinality(UNION {{n} \X (1..times[n]) : n \in DOMAIN times})
    <3>1. DOMAIN times \subseteq names /\ \A n \in DOMAIN times : times[n] \in Nat
      BY <1>2, <2>2
    <3>2. IsFiniteSet(DOMAIN times)
      BY <1>1, <3>1, FS_Subset
    <3>3. length \in Nat
      BY <3>1, <3>2, TimesFinite
    <3>4. list \in [1..length -> DOMAIN times]
      BY <1>5, <2>2 DEF MetadataByField
    <3> HIDE DEF length, times
    <3>5. list \in [1..length -> names]
      BY <3>1, <3>4
    <3> QED
      BY <3>3, <3>5
  <2> QED
    BY <2>1, <2>2
<1> QED
  BY <1>3, <1>4, <1>5 DEF MetadataLists

(* The calls that bring the indexes of a list up to date.                  *)
LEMMA ForEachCalls ==
  ASSUME Inv, NEW call \in {"insert", "remove", "update"}, NEW id \in HandedOut, NEW old \in Rows, NEW row \in Rows,
         NEW list \in MetadataLists
  PROVE  LET calls == [i \in DOMAIN list |-> Call(call, index_meta_map[list[i]], id, old, row)] IN
         calls \in Seq(Calls) /\ id \in Ids /\ AllFor(calls, id)
<1> DEFINE calls == [i \in DOMAIN list |-> Call(call, index_meta_map[list[i]], id, old, row)]
           N == Len(list)
<1>1. N \in Nat /\ DOMAIN list = 1..N /\ \A i \in 1..N : list[i] \in DOMAIN index_meta_map
  BY ListsTyped
<1>2. id \in Ids
  BY CollectionAssumption DEF Inv, HandedOut, Ids
<1>3. \A i \in 1..N : index_meta_map[list[i]] \in IndexMetas
  BY <1>1 DEF Inv, MetasOK
<1>4. calls = [i \in 1..N |-> Call(call, index_meta_map[list[i]], id, old, row)]
  BY <1>1
<1>5. \A i \in 1..N : calls[i] \in Calls /\ calls[i].id = id
  BY <1>2, <1>3, <1>4 DEF Call, Calls
<1> HIDE DEF calls, N
<1>6. calls \in Seq(Calls) /\ Len(calls) = N
  <2>1. calls = [i \in 1..N |-> calls[i]]
    BY <1>4
  <2>2. calls \in Seq(Calls)
    BY <1>1, <1>5, <2>1, IsASeq
  <2>3. DOMAIN calls = 1..N
    BY <2>1
  <2> QED
    BY <1>1, <2>2, <2>3
<1> QED
  BY <1>2, <1>5, <1>6 DEF calls, AllFor

(* The calls that the scan of create_index makes.                          *)
LEMMA ScanCalls ==
  ASSUME Inv, NEW meta \in IndexMetas, NEW order \in Orders(DOMAIN entity_map)
  PROVE  LET calls == [i \in DOMAIN order |-> InsertRow(meta, order[i])] IN
         /\ calls \in Seq(Calls)
         /\ \A i \in 1..Len(calls) : calls[i].meta = meta
<1> DEFINE calls == [i \in DOMAIN order |-> InsertRow(meta, order[i])]
           N == Len(order)
<1>1. DOMAIN entity_map \subseteq Ids /\ IsFiniteSet(DOMAIN entity_map)
  <2>1. DOMAIN entity_map \subseteq Ids
    BY CollectionAssumption DEF Inv, HandedOut, Ids
  <2>2. IsFiniteSet(Ids)
    BY CollectionAssumption, FS_Interval DEF Ids
  <2> QED
    BY <2>1, <2>2, FS_Subset
<1>2. N \in Nat /\ DOMAIN order = 1..N /\ \A i \in 1..N : order[i] \in DOMAIN entity_map
  BY <1>1, OrdersTyped
<1>3. \A i \in 1..N : order[i] \in Ids /\ entity_map[order[i]] \in Rows
  BY <1>1, <1>2 DEF Inv
<1>4. calls = [i \in 1..N |-> InsertRow(meta, order[i])]
  BY <1>2
<1>5. \A i \in 1..N : calls[i] \in Calls /\ calls[i].meta = meta
  BY <1>3, <1>4 DEF InsertRow, Call, Calls
<1> HIDE DEF calls, N
<1>6. calls \in Seq(Calls) /\ Len(calls) = N
  <2>1. calls = [i \in 1..N |-> calls[i]]
    BY <1>4
  <2>2. calls \in Seq(Calls)
    BY <1>2, <1>5, <2>1, IsASeq
  <2>3. DOMAIN calls = 1..N
    BY <2>1
  <2> QED
    BY <1>2, <2>2, <2>3
<1> QED
  BY <1>5, <1>6 DEF calls

-----------------------------------------------------------------------------

(* What was put is gone when it is dropped.                                *)
LEMMA DropPut ==
  ASSUME NEW R, NEW f, f \in [DOMAIN f -> R], NEW k, k \notin DOMAIN f,
         NEW g, g = [x \in DOMAIN f \cup {k} |-> g[x]], \A x \in DOMAIN f : g[x] = f[x]
  PROVE  Drop(g, k) = f
<1>1. DOMAIN g = DOMAIN f \cup {k}
  OBVIOUS
<1>2. DOMAIN g \ {k} = DOMAIN f
  BY <1>1
<1>3. Drop(g, k) = [x \in DOMAIN f |-> g[x]]
  BY <1>2 DEF Drop
<1>4. Drop(g, k) = [x \in DOMAIN f |-> f[x]]
  BY <1>3
<1>5. f = [x \in DOMAIN f |-> f[x]]
  OBVIOUS
<1> QED
  BY <1>4, <1>5

(* The tables with a new index, and the same without it again: what the    *)
(* rollback of create_index has to undo.                                   *)
LEMMA NewTables ==
  ASSUME Inv, NEW meta \in IndexMetas, meta.name \notin DOMAIN index_meta_map
  PROVE  LET metas == Put(index_meta_map, meta.name, meta)
             manager == Put(indexes, meta.name, NewIndex(meta.kind, meta.unique))
         IN
         /\ MetasOK(metas) /\ DOMAIN metas = DOMAIN index_meta_map \cup {meta.name}
         /\ manager \in Managers(metas)
         /\ Drop(metas, meta.name) = index_meta_map
<1> DEFINE name == meta.name
           ix == NewIndex(meta.kind, meta.unique)
           metas == Put(index_meta_map, name, meta)
           manager == Put(indexes, name, ix)
           names == DOMAIN index_meta_map
<1>1. metas = [x \in names \cup {name} |-> IF x = name THEN meta ELSE index_meta_map[x]]
  BY DEF Put
<1>2. MetasOK(index_meta_map) /\ indexes \in Managers(index_meta_map)
  BY DEF Inv
<1>3. DOMAIN indexes = names /\ \A n \in names : /\ indexes[n] \in IndexTypes
                                                 /\ indexes[n].kind = index_meta_map[n].kind
                                                 /\ indexes[n].unique = index_meta_map[n].unique
  BY <1>2 DEF Managers
<1>4. manager = [x \in names \cup {name} |-> IF x = name THEN ix ELSE indexes[x]]
  BY <1>3 DEF Put
<1>5. ix \in IndexTypes /\ ix.kind = meta.kind /\ ix.unique = meta.unique
  <2>1. meta.kind \in Kinds /\ meta.unique \in BOOLEAN /\ <<>> \in Seq(EntryTypes)
    BY MetaFacts
  <2> QED
    BY <2>1 DEF NewIndex, IndexTypes
<1>6. DOMAIN metas = names \cup {name}
  BY <1>1
<1>7. MetasOK(metas)
  <2>1. metas \in [DOMAIN metas -> IndexMetas]
    BY <1>1, <1>2 DEF MetasOK
  <2>2. IsFiniteSet(DOMAIN metas)
    BY <1>2, <1>6, FS_AddElement DEF MetasOK
  <2>3. \A n \in DOMAIN metas : metas[n].name = n
    BY <1>1, <1>2 DEF MetasOK
  <2> QED
    BY <2>1, <2>2, <2>3 DEF MetasOK
<1>8. manager \in Managers(metas)
  <2> HIDE DEF ix, metas, manager, names
  <2>1. \A n \in names \cup {name} : /\ manager[n] \in IndexTypes
                                     /\ manager[n].kind = metas[n].kind
                                     /\ manager[n].unique = metas[n].unique
    BY <1>1, <1>3, <1>4, <1>5
  <2>2. manager \in [names \cup {name} -> IndexTypes]
    BY <1>4, <2>1
  <2> QED
    BY <1>6, <2>1, <2>2 DEF Managers
<1>9. Drop(metas, name) = index_meta_map
  <2> HIDE DEF metas, name
  <2>1. metas = [x \in names \cup {name} |-> metas[x]] /\ \A x \in names : metas[x] = index_meta_map[x]
    BY <1>1 DEF name
  <2>2. index_meta_map \in [names -> IndexMetas] /\ name \notin names
    BY <1>2 DEF MetasOK, name
  <2> QED
    BY <2>1, <2>2, DropPut
<1> QED
  BY <1>6, <1>7, <1>8, <1>9

(* However the scan ends, the indexes that were there before it are as     *)
(* they were.                                                              *)
LEMMA ScanFacts ==
  ASSUME Inv, NEW meta \in IndexMetas, meta.name \notin DOMAIN index_meta_map,
         NEW o \in Scan(meta, Put(indexes, meta.name, NewIndex(meta.kind, meta.unique)))
  PROVE  /\ o \in Results(Put(index_meta_map, meta.name, meta))
         /\ Drop(o.manager, meta.name) = indexes
<1> DEFINE name == meta.name
           ix == NewIndex(meta.kind, meta.unique)
           metas == Put(index_meta_map, name, meta)
           manager == Put(indexes, name, ix)
           names == DOMAIN index_meta_map
<1>1. manager \in Managers(metas) /\ DOMAIN metas = names \cup {name}
  BY NewTables
<1>2. PICK order \in Orders(DOMAIN entity_map) :
        o \in Loop([i \in DOMAIN order |-> InsertRow(meta, order[i])], manager)
  BY DEF Scan
<1> DEFINE calls == [i \in DOMAIN order |-> InsertRow(meta, order[i])]
<1>3. calls \in Seq(Calls) /\ \A i \in 1..Len(calls) : calls[i].meta = meta
  BY ScanCalls
<1>4. DOMAIN indexes = names /\ indexes \in [names -> IndexTypes]
  BY DEF Inv, Managers
<1>5. \A n \in names : manager[n] = indexes[n]
  BY <1>4 DEF Put
<1> HIDE DEF calls, manager, metas, names
<1>6. o \in Results(metas)
  BY <1>1, <1>2, <1>3, LoopTyped DEF calls
<1>7. \A n \in names : o.manager[n] = manager[n]
  <2>1. AllOn(calls, name)
    BY <1>3 DEF AllOn
  <2>2. \A n \in names : n # name
    BY DEF names
  <2>3. o \in Loop(calls, manager)
    BY <1>2 DEF calls
  <2> HIDE DEF name
  <2> QED
    <3> SUFFICES ASSUME NEW n \in names PROVE o.manager[n] = manager[n]
      OBVIOUS
    <3>1. n \in DOMAIN metas /\ n # name
      BY <1>1, <2>2
    <3>2. calls \in Seq(Calls) /\ manager \in Managers(metas)
      BY <1>1, <1>3
    <3> QED
      BY <2>1, <2>3, <3>1, <3>2, LoopOnOne
<1>8. Drop(o.manager, name) = indexes
  <2>1. o.manager = [x \in names \cup {name} |-> o.manager[x]]
    BY <1>1, <1>6 DEF Results, Managers
  <2>2. name \notin names
    BY DEF names
  <2> HIDE DEF name
  <2> QED
    BY <1>4, <1>5, <1>7, <2>1, <2>2, DropPut
<1> QED
  BY <1>6, <1>8 DEF metas, name

(* A new collection satisfies the invariant.                               *)
LEMMA InitInv == Init => Inv
<1> SUFFICES ASSUME Init PROVE Inv
  OBVIOUS
<1>1. /\ next_id = 1 /\ entity_map = <<>> /\ index_meta_map = <<>>
      /\ field_to_index_map = <<>> /\ indexes = <<>> /\ answer.status = "ok"
  BY DEF Init, Answer
<1>2. DOMAIN <<>> = {} /\ \A S : <<>> \in [{} -> S]
  OBVIOUS
<1>3. Rebuilt(<<>>) = <<>>
  <2>1. DOMAIN Rebuilt(<<>>) = {} /\ Rebuilt(<<>>) = [f \in DOMAIN Rebuilt(<<>>) |-> Rebuilt(<<>>)[f]]
    BY <1>2 DEF Rebuilt
  <2> QED
    BY <1>2, <2>1
<1>4. MetasOK(<<>>)
  BY <1>2, FS_EmptySet DEF MetasOK
<1>5. <<>> \in Managers(<<>>)
  BY <1>2 DEF Managers
<1>6. 1 \in 1..MaxId + 1
  BY CollectionAssumption
<1> QED
  BY <1>1, <1>2, <1>3, <1>4, <1>5, <1>6 DEF Inv, Statuses

-----------------------------------------------------------------------------

(* create_entity, insert, remove and update keep the invariant: they touch *)
(* no index, and an update keeps the shape of the row even when it throws  *)
(* half-way.                                                               *)
LEMMA RowsStay ==
  ASSUME Inv, RowCalls
  PROVE  Inv'
<1>1. MaxId \in Nat /\ next_id \in 1..MaxId + 1 /\ next_id \in Int
  BY CollectionAssumption DEF Inv
<1>2. ASSUME NEW op, NEW id, NEW status \in Statuses, NEW entities, RowCall(op, id, status, entities),
             DOMAIN entities \subseteq HandedOut, entities \in [DOMAIN entities -> Rows]
      PROVE  Inv'
  <2>1. /\ entity_map' = entities /\ answer'.status = status /\ next_id' = next_id
        /\ index_meta_map' = index_meta_map /\ field_to_index_map' = field_to_index_map
        /\ indexes' = indexes
    BY <1>2 DEF RowCall, Answer
  <2>2. HandedOut' = HandedOut
    BY <2>1 DEF HandedOut
  <2> QED
    BY <1>2, <2>1, <2>2 DEF Inv
<1>3. DOMAIN entity_map \subseteq HandedOut /\ entity_map \in [DOMAIN entity_map -> Rows]
  BY DEF Inv
<1>4. ASSUME NEW id \in HandedOut, NEW row \in Rows
      PROVE  LET entities == Put(entity_map, id, row) IN
             DOMAIN entities \subseteq HandedOut /\ entities \in [DOMAIN entities -> Rows]
  BY <1>3 DEF Put
<1>5. {"ok", "failure", "throw"} \subseteq Statuses
  BY DEF Statuses
<1>6. CASE CreateEntity
  <2>1. /\ next_id <= MaxId /\ next_id' = next_id + 1 /\ answer'.status = "ok"
        /\ entity_map' = entity_map /\ index_meta_map' = index_meta_map
        /\ field_to_index_map' = field_to_index_map /\ indexes' = indexes
    BY <1>6 DEF CreateEntity, Answer
  <2>2. next_id' \in 1..MaxId + 1
    BY <1>1, <2>1
  <2>3. HandedOut \subseteq HandedOut'
    BY <1>1, <2>1 DEF HandedOut
  <2> QED
    BY <1>3, <1>5, <2>1, <2>2, <2>3 DEF Inv
<1>7. ASSUME NEW id \in HandedOut, NEW row \in Rows, Insert(id, row) PROVE Inv'
  <2>1. CASE id \in DOMAIN entity_map
    BY <1>2, <1>3, <1>5, <1>7, <2>1 DEF Insert
  <2>2. CASE id \notin DOMAIN entity_map
    BY <1>2, <1>4, <1>5, <1>7, <2>2 DEF Insert
  <2> QED
    BY <2>1, <2>2
<1>8. ASSUME NEW id \in HandedOut, Remove(id) PROVE Inv'
  <2>1. CASE id \notin DOMAIN entity_map
    BY <1>2, <1>3, <1>5, <1>8, <2>1 DEF Remove
  <2>2. CASE id \in DOMAIN entity_map
    <3>1. LET entities == Drop(entity_map, id) IN
          DOMAIN entities \subseteq HandedOut /\ entities \in [DOMAIN entities -> Rows]
      BY <1>3 DEF Drop
    <3> QED
      BY <1>2, <1>5, <1>8, <2>2, <3>1 DEF Remove
  <2> QED
    BY <2>1, <2>2
<1>9. ASSUME NEW id \in HandedOut, NEW fields \in Assignments, Update(id, fields) PROVE Inv'
  <2>1. CASE id \notin DOMAIN entity_map
    BY <1>2, <1>3, <1>5, <1>9, <2>1 DEF Update
  <2>2. CASE id \in DOMAIN entity_map
    <3> DEFINE row == entity_map[id]
               made == {n \in DOMAIN fields : \A m \in 1..n : fields[m][1] \in Fields}
               last(f) == {n \in made : fields[n][1] = f /\ \A m \in made : fields[m][1] = f => m <= n}
               status == IF \A n \in DOMAIN fields : fields[n][1] \in Fields THEN "ok" ELSE "throw"
    <3>1. row \in Rows
      BY <1>3, <2>2
    <3>2. \A n \in DOMAIN fields : fields[n][2] \in Values
      BY DEF Assignments
    <3>3. \A f \in Fields : (IF last(f) = {} THEN row[f] ELSE fields[CHOOSE n \in last(f) : TRUE][2]) \in Values
      <4> SUFFICES ASSUME NEW f \in Fields
                   PROVE (IF last(f) = {} THEN row[f] ELSE fields[CHOOSE n \in last(f) : TRUE][2]) \in Values
        OBVIOUS
      <4>1. CASE last(f) = {}
        BY <3>1, <4>1 DEF Rows
      <4>2. CASE last(f) # {}
        <5> DEFINE n == CHOOSE n \in last(f) : TRUE
        <5>1. n \in last(f)
          <6> HIDE DEF last
          <6> QED
            BY <4>2
        <5>2. n \in DOMAIN fields
          BY <5>1
        <5> HIDE DEF n, last
        <5> QED
          BY <3>2, <4>2, <5>2 DEF n
      <4> QED
        BY <4>1, <4>2
    <3>4. Assigned(row, fields) \in Rows
      BY <3>3 DEF Assigned, Rows
    <3>5. RowCall("update", id, status, Put(entity_map, id, Assigned(row, fields)))
      BY <1>9, <2>2 DEF Update
    <3>6. status \in Statuses
      BY <1>5
    <3> HIDE DEF status, row
    <3> QED
      BY <1>2, <1>4, <3>4, <3>5, <3>6
  <2> QED
    BY <2>1, <2>2
<1> QED
  BY <1>6, <1>7, <1>8, <1>9 DEF RowCalls

(* A call that leaves index metadata, and the indexes of that metadata,    *)
(* keeps the invariant.                                                    *)
LEMMA CallStays ==
  ASSUME Inv, NEW op, NEW name, NEW status \in Statuses, NEW metas, NEW manager,
         MetasOK(metas), manager \in Managers(metas), IndexCall(op, 0, name, status, metas, manager)
  PROVE  Inv'
<1>1. /\ index_meta_map' = metas /\ field_to_index_map' = Rebuilt(metas) /\ indexes' = manager
      /\ answer'.status = status /\ next_id' = next_id /\ entity_map' = entity_map
  BY DEF IndexCall, Answer
<1>2. HandedOut' = HandedOut
  BY <1>1 DEF HandedOut
<1>3. /\ next_id' \in 1..MaxId + 1
      /\ DOMAIN entity_map' \subseteq HandedOut' /\ entity_map' \in [DOMAIN entity_map' -> Rows]
  BY <1>1, <1>2 DEF Inv
<1>4. MetasOK(index_meta_map') /\ indexes' \in Managers(index_meta_map')
      /\ field_to_index_map' = Rebuilt(index_meta_map')
  BY <1>1
<1> QED
  BY <1>1, <1>3, <1>4 DEF Inv

(* So does one that is refused.                                            *)
LEMMA RefusedStays ==
  ASSUME Inv, NEW op, NEW name, Refused(op, name)
  PROVE  Inv'
<1>1. /\ next_id' = next_id /\ entity_map' = entity_map /\ index_meta_map' = index_meta_map
      /\ field_to_index_map' = field_to_index_map /\ indexes' = indexes
      /\ answer'.status = "failure"
  BY DEF Refused, Answer
<1>2. HandedOut' = HandedOut
  BY <1>1 DEF HandedOut
<1> QED
  BY <1>1, <1>2 DEF Inv, Statuses

(* create_index keeps the invariant, whether it ends well, is rolled back, *)
(* or throws without a rollback.                                           *)
LEMMA CreateStays ==
  ASSUME Inv, NEW meta \in IndexMetas, CreateIndex(meta)
  PROVE  Inv'
<1> DEFINE name == meta.name
           metas == Put(index_meta_map, name, meta)
           manager == Put(indexes, name, NewIndex(meta.kind, meta.unique))
<1>1. CASE Refused("create_index", name)
  BY <1>1, RefusedStays
<1>2. ASSUME name \notin DOMAIN index_meta_map, NEW o \in Scan(meta, manager),
             o.status \in {"ok", "throw"}, IndexCall("create_index", 0, name, o.status, metas, o.manager)
      PROVE  Inv'
  <2>1. o \in Results(metas) /\ MetasOK(metas)
    BY <1>2, ScanFacts, NewTables
  <2>2. o.status \in Statuses /\ o.manager \in Managers(metas)
    BY <2>1 DEF Results
  <2> HIDE DEF metas, manager
  <2> QED
    BY <1>2, <2>1, <2>2, CallStays
<1>3. ASSUME name \notin DOMAIN index_meta_map, NEW o \in Scan(meta, manager),
             CreateFailed(meta, metas, o.manager)
      PROVE  Inv'
  <2>1. Drop(metas, name) = index_meta_map /\ Drop(o.manager, name) = indexes
    BY <1>3, ScanFacts, NewTables
  <2>2. IndexCall("create_index", 0, name, "failure", index_meta_map, indexes)
    BY <1>3, <2>1 DEF CreateFailed
  <2>3. "failure" \in Statuses /\ MetasOK(index_meta_map) /\ indexes \in Managers(index_meta_map)
    BY DEF Statuses, Inv
  <2> QED
    BY <2>2, <2>3, CallStays
<1> QED
  BY <1>1, <1>2, <1>3 DEF CreateIndex

(* remove_index keeps the invariant.                                       *)
LEMMA RemoveStays ==
  ASSUME Inv, NEW name, RemoveIndex(name)
  PROVE  Inv'
<1>1. CASE Refused("remove_index", name)
  BY <1>1, RefusedStays
<1>2. CASE IndexCall("remove_index", 0, name, "ok", Drop(index_meta_map, name), Drop(indexes, name))
  <2> DEFINE metas == Drop(index_meta_map, name)
             manager == Drop(indexes, name)
             names == DOMAIN index_meta_map \ {name}
  <2>1. MetasOK(index_meta_map) /\ indexes \in Managers(index_meta_map)
    BY DEF Inv
  <2>2. metas = [n \in names |-> index_meta_map[n]] /\ manager = [n \in names |-> indexes[n]]
    BY <2>1 DEF Drop, Managers
  <2> HIDE DEF metas, manager
  <2>3. MetasOK(metas)
    <3>1. IsFiniteSet(names)
      BY <2>1, FS_RemoveElement DEF MetasOK
    <3>2. DOMAIN metas = names
      BY <2>2
    <3>3. metas \in [DOMAIN metas -> IndexMetas] /\ \A n \in DOMAIN metas : metas[n].name = n
      BY <2>1, <2>2 DEF MetasOK
    <3> QED
      BY <3>1, <3>2, <3>3 DEF MetasOK
  <2>4. manager \in Managers(metas)
    BY <2>1, <2>2 DEF Managers
  <2>5. "ok" \in Statuses
    BY DEF Statuses
  <2> QED
    BY <1>2, <2>3, <2>4, <2>5, CallStays DEF metas, manager
<1> QED
  BY <1>1, <1>2 DEF RemoveIndex

(* One of the three calls that bring the indexes up to date.               *)
LEMMA ForEachFacts ==
  ASSUME Inv, NEW op, NEW call \in {"insert", "remove", "update"}, NEW id \in HandedOut,
         NEW old \in Rows, NEW row \in Rows, NEW list \in MetadataLists,
         ForEach(op, call, id, old, row, list)
  PROVE  /\ Inv'
         /\ answer'.op = op /\ answer'.id = id /\ id \in Ids
         /\ \A n \in DOMAIN indexes : OthersIn(indexes[n].entries, indexes'[n].entries, id)
<1> DEFINE calls == [i \in DOMAIN list |-> Call(call, index_meta_map[list[i]], id, old, row)]
<1>1. PICK o \in Loop(calls, indexes) :
        /\ indexes' = o.manager
        /\ answer' = [op |-> op, id |-> id, row |-> row, list |-> list, status |-> o.status]
        /\ next_id' = next_id /\ entity_map' = entity_map /\ index_meta_map' = index_meta_map
        /\ field_to_index_map' = field_to_index_map
  BY DEF ForEach
<1>2. calls \in Seq(Calls) /\ id \in Ids /\ AllFor(calls, id)
  BY ForEachCalls
<1> HIDE DEF calls
<1>3. indexes \in Managers(index_meta_map) /\ DOMAIN indexes = DOMAIN index_meta_map
  BY DEF Inv, Managers
<1>4. o \in Results(index_meta_map)
  BY <1>2, <1>3, LoopTyped
<1>5. \A n \in DOMAIN indexes : OthersIn(indexes[n].entries, o.manager[n].entries, id)
  BY <1>2, <1>3, LoopForOne
<1>6. o.status \in Statuses /\ o.manager \in Managers(index_meta_map)
  BY <1>4 DEF Results
<1>7. HandedOut' = HandedOut
  BY <1>1 DEF HandedOut
<1>8. Inv'
  BY <1>1, <1>6, <1>7 DEF Inv
<1> QED
  BY <1>1, <1>2, <1>5, <1>8

(* The three ways to bring the indexes up to date are calls of ForEach.    *)
LEMMA UpdatingIs ==
  ASSUME NEW list \in MetadataLists, NEW id \in HandedOut, NEW row \in Rows,
         \/ UpdateIndexesOnInsert(id, row, list)
         \/ UpdateIndexesOnRemove(id, row, list)
         \/ \E new \in Rows : UpdateIndexesOnUpdate(id, row, new, list)
  PROVE  \E op \in {"on_insert", "on_remove", "on_update"}, call \in {"insert", "remove", "update"},
            new \in Rows : ForEach(op, call, id, row, new, list)
BY DEF UpdateIndexesOnInsert, UpdateIndexesOnRemove, UpdateIndexesOnUpdate

(* What the calls about indexes are.                                       *)
LEMMA IndexCallsAre ==
  ASSUME IndexCalls
  PROVE  \/ \E meta \in IndexMetas : CreateIndex(meta)
         \/ \E name \in IndexNames : RemoveIndex(name)
         \/ \E op \in {"on_insert", "on_remove", "on_update"}, call \in {"insert", "remove", "update"},
               list \in MetadataLists, id \in HandedOut, old \in Rows, row \in Rows :
               ForEach(op, call, id, old, row, list)
<1>1. CASE \E list \in MetadataLists, id \in HandedOut, row \in Rows :
             \/ UpdateIndexesOnInsert(id, row, list)
             \/ UpdateIndexesOnRemove(id, row, list)
             \/ \E new \in Rows : UpdateIndexesOnUpdate(id, row, new, list)
  <2>1. PICK list \in MetadataLists, id \in HandedOut, row \in Rows :
             \/ UpdateIndexesOnInsert(id, row, list)
             \/ UpdateIndexesOnRemove(id, row, list)
             \/ \E new \in Rows : UpdateIndexesOnUpdate(id, row, new, list)
    BY <1>1
  <2> QED
    BY <2>1, UpdatingIs
<1> QED
  BY <1>1 DEF IndexCalls

(* Every step keeps the invariant.                                         *)
LEMMA StepInv == Inv /\ [Next]_vars => Inv'
<1> SUFFICES ASSUME Inv, [Next]_vars PROVE Inv'
  OBVIOUS
<1>1. CASE RowCalls
  BY <1>1, RowsStay
<1>2. CASE IndexCalls
  BY <1>2, IndexCallsAre, CreateStays, RemoveStays, ForEachFacts
<1>3. CASE UNCHANGED vars
  BY <1>3 DEF vars, Inv, HandedOut
<1> QED
  BY <1>1, <1>2, <1>3 DEF Next

(* The invariant holds in every state of the collection.                   *)
LEMMA CollectionInvariant == Spec => []Inv
BY InitInv, StepInv, PTL DEF Spec

(* Ids, rows, metadata and indexes are always of their types: in           *)
(* particular an index only ever lists ids that create_entity handed out,  *)
(* under keys of values, whatever collection.cpp was interrupted in.       *)
THEOREM CollectionTyped == Spec => []TypeOK
<1>1. Inv => TypeOK
  <2> SUFFICES ASSUME Inv PROVE TypeOK
    OBVIOUS
  <2>1. indexes \in Managers(index_meta_map)
    BY DEF Inv
  <2>2. ASSUME NEW n \in DOMAIN indexes
        PROVE  /\ indexes[n].kind \in Kinds
               /\ \A i \in DOMAIN indexes[n].entries :
                    /\ \A v \in Range(indexes[n].entries[i].key) : v \in Values
                    /\ Range(indexes[n].entries[i].ids) \subseteq Ids
    <3>1. indexes[n] \in IndexTypes
      BY <2>1 DEF Managers
    <3>2. indexes[n].kind \in Kinds /\ indexes[n].entries \in Seq(EntryTypes)
      BY <3>1, IndexFacts
    <3>3. \A i \in DOMAIN indexes[n].entries :
            indexes[n].entries[i].key \in Seq(Values) /\ indexes[n].entries[i].ids \in Seq(Ids)
      BY <3>2, EntryFacts
    <3>4. ASSUME NEW S, NEW s \in Seq(S) PROVE Range(s) \subseteq S
      BY DEF Range
    <3> QED
      BY <3>2, <3>3, <3>4
  <2>3. \A n \in DOMAIN index_meta_map : index_meta_map[n] \in IndexMetas
    BY DEF Inv, MetasOK
  <2>4. \A id \in DOMAIN entity_map : entity_map[id] \in Rows
    BY DEF Inv
  <2> QED
    BY <2>2, <2>3, <2>4 DEF Inv, TypeOK, Statuses
<1> QED
  BY <1>1, CollectionInvariant, PTL

(* index_meta_map_, field_to_index_map_ and the IndexManager always agree  *)
(* on which indexes there are, of which kind and on which fields, through  *)
(* every create_index that is refused, rolled back or thrown out of, and   *)
(* every remove_index.                                                     *)
THEOREM TablesAlwaysAgree == Spec => []TablesAgree
<1>1. Inv => TablesAgree
  <2> SUFFICES ASSUME Inv PROVE TablesAgree
    OBVIOUS
  <2>1. /\ DOMAIN indexes = DOMAIN index_meta_map
        /\ \A n \in DOMAIN indexes : /\ index_meta_map[n].name = n
                                     /\ indexes[n].kind = index_meta_map[n].kind
                                     /\ indexes[n].unique = index_meta_map[n].unique
    BY DEF Inv, MetasOK, Managers
  <2>2. ASSUME NEW f, NEW n
        PROVE  (f \in DOMAIN field_to_index_map /\ n \in DOMAIN field_to_index_map[f]) <=>
               (n \in DOMAIN index_meta_map /\ f \in Range(index_meta_map[n].fields))
    BY DEF Inv, Rebuilt
  <2> QED
    BY <2>1, <2>2 DEF TablesAgree
<1> QED
  BY <1>1, CollectionInvariant, PTL

(* The calls about rows are not those about indexes.                       *)
LEMMA RowCallAnswers ==
  ASSUME RowCalls
  PROVE  answer'.op \in {"create_entity", "insert", "remove", "update"}
BY DEF RowCalls, CreateEntity, Insert, Remove, Update, RowCall, Answer

(* A create_index that returns false, be it refused at once or rolled back *)
(* after any number of rows, leaves rows and indexes as they were.         *)
THEOREM RefusedCreatesLeaveNothing == Spec => RefusedCreateLeavesNothing
<1> DEFINE tables == <<entity_map, index_meta_map, field_to_index_map, indexes>>
           Untouched == answer'.op = "create_index" /\ answer'.status = "failure" => UNCHANGED tables
<1>1. ASSUME Inv, [Next]_vars PROVE [Untouched]_vars
  <2>1. CASE RowCalls
    BY <2>1, RowCallAnswers
  <2>2. ASSUME NEW meta \in IndexMetas, CreateIndex(meta) PROVE Untouched
    <3> DEFINE name == meta.name
               metas == Put(index_meta_map, name, meta)
               manager == Put(indexes, name, NewIndex(meta.kind, meta.unique))
    <3>1. CASE Refused("create_index", name)
      BY <3>1 DEF Refused
    <3>2. ASSUME NEW o, o.status \in {"ok", "throw"},
                 IndexCall("create_index", 0, name, o.status, metas, o.manager)
          PROVE  Untouched
      BY <3>2 DEF IndexCall, Answer
    <3>3. ASSUME name \notin DOMAIN index_meta_map, NEW o \in Scan(meta, manager),
                 CreateFailed(meta, metas, o.manager)
          PROVE  Untouched
      <4>1. Drop(metas, name) = index_meta_map /\ Drop(o.manager, name) = indexes
        BY <1>1, <3>3, ScanFacts, NewTables
      <4>2. IndexCall("create_index", 0, name, "failure", index_meta_map, indexes)
        BY <3>3, <4>1 DEF CreateFailed
      <4> QED
        BY <1>1, <4>2 DEF IndexCall, Inv
    <3> QED
      BY <2>2, <3>1, <3>2, <3>3 DEF CreateIndex
  <2>3. ASSUME NEW name, RemoveIndex(name) PROVE Untouched
    BY <2>3 DEF RemoveIndex, Refused, IndexCall, Answer
  <2>4. ASSUME NEW op \in {"on_insert", "on_remove", "on_update"}, NEW call, NEW list, NEW id, NEW old, NEW row,
               ForEach(op, call, id, old, row, list)
        PROVE  Untouched
    BY <2>4 DEF ForEach
  <2> HIDE DEF Untouched
  <2>5. CASE IndexCalls
    BY <2>2, <2>3, <2>4, <2>5, IndexCallsAre
  <2> QED
    BY <1>1, <2>1, <2>5 DEF Next
<1> QED
  BY <1>1, CollectionInvariant, PTL DEF Spec, RefusedCreateLeavesNothing

(* update_indexes_on_insert, _on_remove and _on_update never move, add or  *)
(* lose a listing of an entity they are not called for, through lists of   *)
(* any length, failures and exceptions half-way, and trees that NULLs have *)
(* put out of order.                                                       *)
THEOREM OthersAlwaysStay == Spec => OthersStay
<1> DEFINE Stay == answer'.op \in {"on_insert", "on_remove", "on_update"} =>
             \A n \in DOMAIN indexes : \A id \in Ids \ {answer'.id} :
               ListedUnder(indexes'[n], id) = ListedUnder(indexes[n], id)
<1>1. ASSUME Inv, [Next]_vars PROVE [Stay]_vars
  <2>1. CASE RowCalls
    BY <2>1, RowCallAnswers
  <2>2. ASSUME NEW meta, CreateIndex(meta) PROVE Stay
    BY <2>2 DEF CreateIndex, Refused, CreateFailed, IndexCall, Answer
  <2>3. ASSUME NEW name, RemoveIndex(name) PROVE Stay
    BY <2>3 DEF RemoveIndex, Refused, IndexCall, Answer
  <2>4. ASSUME NEW op \in {"on_insert", "on_remove", "on_update"}, NEW call \in {"insert", "remove", "update"},
               NEW list \in MetadataLists, NEW id \in HandedOut, NEW old \in Rows, NEW row \in Rows,
               ForEach(op, call, id, old, row, list)
        PROVE  Stay
    <3>1. answer'.id = id /\ \A n \in DOMAIN indexes : OthersIn(indexes[n].entries, indexes'[n].entries, id)
      BY <1>1, <2>4, ForEachFacts
    <3>2. \A ix, x : ListedUnder(ix, x) = KeysOf(ix.entries, x)
      BY DEF ListedUnder, KeysOf
    <3> QED
      BY <3>1, <3>2 DEF OthersIn
  <2> HIDE DEF Stay
  <2>5. CASE IndexCalls
    BY <2>2, <2>3, <2>4, <2>5, IndexCallsAre
  <2> QED
    BY <1>1, <2>1, <2>5 DEF Next
<1> QED
  BY <1>1, CollectionInvariant, PTL DEF Spec, OthersStay

-----------------------------------------------------------------------------

(* What a unique index has to keep: one id in each entry; in a hash table, *)
(* each key once; in a tree, keys of one value, all of one type and in     *)
(* strict order, so that find and emplace look in the same place.          *)
InStrictOrder(es) ==
  \A i \in DOMAIN es :
    /\ Len(es[i].key) = 1
    /\ \A j \in DOMAIN es : i < j => /\ es[i].key[1].type = es[j].key[1].type
                                     /\ es[i].key[1].rank < es[j].key[1].rank

ListsOneEach(es) == \A i \in DOMAIN es : Len(es[i].ids) = 1

KeysOnce(es) == \A i, j \in DOMAIN es : es[i].key = es[j].key => i = j

Tight(ix) == ix.unique => /\ ListsOneEach(ix.entries)
                          /\ ix.kind = "BTREE" => InStrictOrder(ix.entries)
                          /\ ix.kind # "BTREE" => KeysOnce(ix.entries)

(* The one value of a key.                                                 *)
LEMMA ValueFacts ==
  ASSUME NEW a \in Seq(Values), Len(a) = 1
  PROVE  DOMAIN a = {1} /\ a[1] \in Values /\ a[1].rank \in Int
<1>1. DOMAIN a = 1..1 /\ a[1] \in Values
  OBVIOUS
<1>2. a[1].rank \in Int
  BY <1>1, CollectionAssumption
<1> QED
  BY <1>1, <1>2

(* Keys in strict order are there once each.                               *)
LEMMA StrictOnce ==
  ASSUME NEW es \in Seq(EntryTypes), InStrictOrder(es)
  PROVE  KeysOnce(es)
<1> SUFFICES ASSUME NEW i \in DOMAIN es, NEW j \in DOMAIN es, i < j, es[i].key = es[j].key
             PROVE  FALSE
  BY EntryFacts DEF KeysOnce
<1>1. es[i].key \in Seq(Values) /\ Len(es[i].key) = 1
  BY EntryFacts DEF InStrictOrder
<1>2. es[i].key[1].rank \in Int
  BY <1>1, ValueFacts
<1>3. es[i].key[1].rank < es[i].key[1].rank
  BY DEF InStrictOrder
<1> QED
  BY <1>2, <1>3

(* Keys of one value are in order if their types agree and their ranks     *)
(* differ.                                                                 *)
LEMMA LessOfOne ==
  ASSUME NEW a \in Seq(Values), NEW b \in Seq(Values), Len(a) = 1, Len(b) = 1
  PROVE  Less(a, b) <=> a[1].type = b[1].type /\ a[1].rank < b[1].rank
<1>1. DOMAIN a = {1} /\ DOMAIN b = {1} /\ a[1].rank \in Int /\ b[1].rank \in Int
  BY ValueFacts
<1>2. Differences(a, b) = IF ValuesDiffer(a[1], b[1]) THEN {1} ELSE {}
  BY <1>1 DEF Differences
<1>3. CASE ValuesDiffer(a[1], b[1])
  <2>1. Differences(a, b) = {1}
    BY <1>2, <1>3
  <2>2. Less(a, b) <=> a[1].rank < b[1].rank
    BY <2>1 DEF Less
  <2> QED
    BY <1>3, <2>2 DEF ValuesDiffer
<1>4. CASE ~ValuesDiffer(a[1], b[1])
  <2>1. ~Less(a, b)
    BY <1>2, <1>4 DEF Less
  <2> QED
    BY <1>1, <1>4, <2>1 DEF ValuesDiffer
<1> QED
  BY <1>3, <1>4

(* Where a tree in strict order does not find a key, it puts it as a new   *)
(* entry, in order.                                                        *)
LEMMA EmplacesInOrder ==
  ASSUME NEW es \in Seq(EntryTypes), ListsOneEach(es), InStrictOrder(es),
         NEW key \in Seq(Values), Len(key) = 1, NEW id \in Ids,
         0 \in TreeFinds(es, key), NEW e \in TreeEmplaces(es, key, id)
  PROVE  ListsOneEach(e) /\ InStrictOrder(e)
<1> DEFINE N == Len(es)
           x == NewEntry(key, <<id>>)
           T(k) == k[1].type
           R(k) == k[1].rank
<1>1. /\ DOMAIN es = 1..N /\ N \in Nat
      /\ \A i \in 1..N : es[i] \in EntryTypes /\ es[i].key \in Seq(Values) /\ Len(es[i].key) = 1
  BY EntryFacts DEF InStrictOrder
<1>2. \A i \in 1..N : R(es[i].key) \in Int
  BY <1>1, ValueFacts
<1>3. R(key) \in Int
  BY ValueFacts
<1>4. \A i \in 1..N : /\ Less(es[i].key, key) <=> T(es[i].key) = T(key) /\ R(es[i].key) < R(key)
                      /\ Less(key, es[i].key) <=> T(es[i].key) = T(key) /\ R(key) < R(es[i].key)
  BY <1>1, LessOfOne
<1>5. \A i, j \in 1..N : i < j => T(es[i].key) = T(es[j].key) /\ R(es[i].key) < R(es[j].key)
  BY <1>1 DEF InStrictOrder
<1>6. PICK p \in LowerBounds(es, key) : p > N \/ Less(key, es[p].key)
  <2>1. PICK p \in LowerBounds(es, key) :
          0 = IF p > N \/ Less(key, es[p].key) THEN 0 ELSE p
    BY DEF TreeFinds
  <2>2. p \in 1..N + 1
    BY BoundsAre
  <2> QED
    BY <1>1, <2>1, <2>2
<1>7. p \in 1..N + 1 /\ (p > 1 => Less(es[p - 1].key, key))
  BY <1>6, BoundsAre
<1> HIDE DEF N, T, R
<1>8. \A i \in 1..N : T(es[i].key) = T(key)
  <2> SUFFICES ASSUME NEW i \in 1..N PROVE T(es[i].key) = T(key)
    OBVIOUS
  <2>1. CASE p > 1
    <3>1. p - 1 \in 1..N /\ T(es[p - 1].key) = T(key)
      BY <1>1, <1>4, <1>7, <2>1
    <3>2. i < p - 1 \/ i = p - 1 \/ p - 1 < i
      BY <1>1, <1>7
    <3> QED
      BY <1>5, <3>1, <3>2
  <2>2. CASE p = 1
    <3>1. 1 \in 1..N /\ T(es[1].key) = T(key)
      BY <1>1, <1>4, <1>6, <2>2
    <3>2. i = 1 \/ 1 < i
      BY <1>1
    <3> QED
      BY <1>5, <3>1, <3>2
  <2> QED
    BY <1>1, <1>7, <2>1, <2>2
<1>9. \A i \in 1..N : /\ i < p => R(es[i].key) < R(key)
                      /\ i >= p => R(key) < R(es[i].key)
  <2> SUFFICES ASSUME NEW i \in 1..N
               PROVE  /\ i < p => R(es[i].key) < R(key)
                      /\ i >= p => R(key) < R(es[i].key)
    OBVIOUS
  <2>1. ASSUME i < p PROVE R(es[i].key) < R(key)
    <3>1. p - 1 \in 1..N /\ R(es[p - 1].key) < R(key) /\ (i = p - 1 \/ i < p - 1)
      BY <1>1, <1>4, <1>7, <2>1
    <3> QED
      BY <1>2, <1>3, <1>5, <3>1
  <2>2. ASSUME i >= p PROVE R(key) < R(es[i].key)
    <3>1. p \in 1..N /\ R(key) < R(es[p].key) /\ (i = p \/ p < i)
      BY <1>1, <1>4, <1>6, <1>7, <2>2
    <3> QED
      BY <1>2, <1>3, <1>5, <3>1
  <2> QED
    BY <2>1, <2>2
<1>10. \A i \in 1..N : /\ i < p => Less(es[i].key, key) /\ ~Less(key, es[i].key)
                       /\ i >= p => Less(key, es[i].key) /\ ~Less(es[i].key, key)
  BY <1>2, <1>3, <1>4, <1>8, <1>9
<1>11. e = Seqs!InsertAt(es, p, x)
  <2> DEFINE New(i) == Seqs!InsertAt(es, i, [key |-> key, ids |-> <<id>>])
             Join(i) == [es EXCEPT ![i].ids = Append(@, id)]
  <2>1. \/ \E i \in LowerBounds(es, key) :
             e = IF i <= N /\ ~Less(key, es[i].key) THEN Join(i) ELSE New(i)
        \/ \E i \in UpperBounds(es, key) :
             e = IF i > 1 /\ ~Less(es[i - 1].key, key) THEN Join(i - 1) ELSE New(i)
    BY DEF TreeEmplaces, N
  <2> HIDE DEF New, Join
  <2>2. \A i \in LowerBounds(es, key) : i = p
    <3> SUFFICES ASSUME NEW i \in 1..N + 1, i > 1 => Less(es[i - 1].key, key),
                        i <= N => ~Less(es[i].key, key)
                 PROVE  i = p
      BY BoundsAre DEF N
    <3>1. ~(i < p)
      BY <1>1, <1>7, <1>10
    <3>2. i > p => i - 1 \in 1..N /\ i - 1 >= p /\ i > 1
      BY <1>1, <1>7
    <3> QED
      BY <1>1, <1>7, <1>10, <3>1, <3>2
  <2>3. \A i \in UpperBounds(es, key) : i = p
    <3> SUFFICES ASSUME NEW i \in 1..N + 1, i > 1 => ~Less(key, es[i - 1].key),
                        i <= N => Less(key, es[i].key)
                 PROVE  i = p
      BY BoundsAre DEF N
    <3>1. ~(i < p)
      BY <1>1, <1>7, <1>10
    <3>2. i > p => i - 1 \in 1..N /\ i - 1 >= p /\ i > 1
      BY <1>1, <1>7
    <3> QED
      BY <1>1, <1>7, <1>10, <3>1, <3>2
  <2>4. e = New(p)
    <3>1. p <= N => Less(key, es[p].key)
      BY <1>1, <1>7, <1>10
    <3>2. p > 1 => Less(es[p - 1].key, key)
      BY <1>7
    <3> QED
      BY <2>1, <2>2, <2>3, <3>1, <3>2
  <2> QED
    BY <2>4 DEF New, NewEntry
<1>12. /\ Len(e) = N + 1 /\ DOMAIN e = 1..N + 1
       /\ \A j \in 1..N + 1 : e[j] = IF j < p THEN es[j] ELSE IF j = p THEN x ELSE es[j - 1]
  <2>1. x \in EntryTypes
    BY DEF EntryTypes, NewEntry
  <2> HIDE DEF x
  <2>2. /\ Seqs!InsertAt(es, p, x) \in Seq(EntryTypes) /\ Len(Seqs!InsertAt(es, p, x)) = N + 1
        /\ \A j \in 1..N + 1 :
             Seqs!InsertAt(es, p, x)[j] = IF j < p THEN es[j] ELSE IF j = p THEN x ELSE es[j - 1]
    <3>1. p \in 1..Len(es) + 1
      BY <1>7 DEF N
    <3> QED
      BY <2>1, <3>1, InsertAtFacts DEF N
  <2>3. e \in Seq(EntryTypes)
    BY <1>11, <2>2
  <2>4. Len(e) = N + 1
    BY <1>11, <2>2
  <2>5. DOMAIN e = 1..N + 1
    BY <2>3, <2>4
  <2> QED
    BY <1>11, <2>2, <2>4, <2>5
<1>13. x.key = key /\ x.ids = <<id>> /\ Len(x.ids) = 1
  BY DEF NewEntry
<1> HIDE DEF x
<1>14. \A j \in 1..N + 1 : \/ j < p /\ j \in 1..N
                           \/ j = p
                           \/ j > p /\ j - 1 \in 1..N /\ j - 1 >= p
  <2>1. N \in Nat /\ p \in 1..N + 1
    BY <1>1, <1>7
  <2> QED
    BY <2>1
<1>15. ListsOneEach(e)
  <2>1. \A j \in 1..N : Len(es[j].ids) = 1
    BY <1>1 DEF ListsOneEach
  <2>2. \A j \in 1..N + 1 : Len(e[j].ids) = 1
    <3> SUFFICES ASSUME NEW j \in 1..N + 1 PROVE Len(e[j].ids) = 1
      OBVIOUS
    <3>1. e[j] = x \/ \E k \in 1..N : e[j] = es[k]
      BY <1>7, <1>12, <1>14
    <3> QED
      BY <1>13, <2>1, <3>1
  <2> QED
    BY <1>12, <2>2 DEF ListsOneEach
<1>16. \A j \in 1..N + 1 : Len(e[j].key) = 1 /\ T(e[j].key) = T(key)
  <2>1. \A j \in 1..N : Len(es[j].key) = 1
    BY <1>1
  <2> SUFFICES ASSUME NEW j \in 1..N + 1
               PROVE  Len(e[j].key) = 1 /\ T(e[j].key) = T(key)
    OBVIOUS
  <2>2. e[j] = x \/ \E k \in 1..N : e[j] = es[k]
    BY <1>7, <1>12, <1>14
  <2> QED
    BY <1>8, <1>13, <2>1, <2>2
<1>17. ASSUME NEW i \in 1..N + 1, NEW j \in 1..N + 1, i < j
       PROVE  R(e[i].key) < R(e[j].key)
  <2>1. CASE j < p
    BY <1>5, <1>7, <1>12, <1>14, <1>17, <2>1
  <2>2. CASE j = p
    BY <1>9, <1>12, <1>13, <1>14, <1>17, <2>2
  <2>3. CASE j > p /\ i < p
    <3>1. i \in 1..N /\ j - 1 \in 1..N /\ i < j - 1 /\ e[i] = es[i] /\ e[j] = es[j - 1]
      BY <1>7, <1>12, <1>14, <2>3
    <3> QED
      BY <1>5, <3>1
  <2>4. CASE j > p /\ i = p
    BY <1>9, <1>12, <1>13, <1>14, <1>17, <2>4
  <2>5. CASE j > p /\ i > p
    <3>1. i - 1 \in 1..N /\ j - 1 \in 1..N /\ i - 1 < j - 1 /\ e[i] = es[i - 1] /\ e[j] = es[j - 1]
      BY <1>7, <1>12, <1>14, <1>17, <2>5
    <3> QED
      BY <1>5, <3>1
  <2> QED
    BY <1>7, <2>1, <2>2, <2>3, <2>4, <2>5
<1> QED
  BY <1>12, <1>15, <1>16, <1>17 DEF InStrictOrder, T, R

(* insert keeps an index tight: a unique one refuses a key that it finds.  *)
LEMMA InsertsTight ==
  ASSUME NEW ix \in IndexTypes, Tight(ix), NEW key \in Seq(Values), NEW id \in Ids,
         ix.unique /\ ix.kind = "BTREE" => Len(key) = 1,
         NEW o \in Inserts(ix, key, id)
  PROVE  Tight(o.index)
<1> DEFINE es == ix.entries
<1>1. es \in Seq(EntryTypes) /\ ix.kind \in Kinds /\ DOMAIN es = 1..Len(es) /\ Len(es) \in Nat
  BY IndexFacts, EntryFacts
<1>2. CASE o = Outcome(FALSE, ix)
  BY <1>2 DEF Outcome
<1>3. ASSUME NEW e \in Emplaces(ix, key, id), ~ix.unique \/ 0 \in Finds(ix, key),
             o = Outcome(TRUE, [ix EXCEPT !.entries = e])
      PROVE  Tight(o.index)
  <2>1. /\ o.index.unique = ix.unique /\ o.index.kind = ix.kind /\ o.index.entries = e
    BY <1>3 DEF Outcome, IndexTypes
  <2>2. CASE ~ix.unique
    BY <2>1, <2>2 DEF Tight
  <2>3. CASE ix.unique /\ ix.kind = "BTREE"
    <3>1. /\ ListsOneEach(es) /\ InStrictOrder(es) /\ Len(key) = 1
          /\ 0 \in TreeFinds(es, key) /\ e \in TreeEmplaces(es, key, id)
      BY <1>3, <2>3 DEF Tight, Finds, Emplaces
    <3>2. ListsOneEach(e) /\ InStrictOrder(e)
      BY <1>1, <3>1, EmplacesInOrder
    <3> QED
      BY <2>1, <2>3, <3>2 DEF Tight
  <2>4. CASE ix.unique /\ ix.kind # "BTREE"
    <3>1. HashFinds(es, key) = {0}
      <4>1. 0 \in HashFinds(es, key) /\ 0 \notin DOMAIN es
        BY <1>1, <1>3, <2>4 DEF Finds
      <4> QED
        BY <4>1 DEF HashFinds
    <3>2. e = Append(es, NewEntry(key, <<id>>))
      BY <2>4, <3>1 DEF Emplaces, HashEmplaces, NewEntry
    <3>3. ListsOneEach(es) /\ KeysOnce(es)
      BY <2>4 DEF Tight
    <3>4. NewEntry(key, <<id>>).ids = <<id>> /\ NewEntry(key, <<id>>).key = key
      BY DEF NewEntry
    <3>5. NewEntry(key, <<id>>) \in EntryTypes
      BY DEF NewEntry, EntryTypes
    <3> DEFINE x == NewEntry(key, <<id>>)
    <3> HIDE DEF x
    <3>6. DOMAIN Append(es, x) = 1..Len(es) + 1 /\ Append(es, x)[Len(es) + 1] = x
          /\ \A i \in 1..Len(es) : Append(es, x)[i] = es[i]
      BY <1>1, <3>5, AppendProperties DEF x
    <3>7. \A i \in 1..Len(es) + 1 : i \in 1..Len(es) \/ i = Len(es) + 1
      BY <1>1
    <3>8. Len(x.ids) = 1
      BY <3>4 DEF x
    <3>9. ListsOneEach(Append(es, x))
      BY <1>1, <3>3, <3>6, <3>7, <3>8 DEF ListsOneEach
    <3>10. \A i \in 1..Len(es) : es[i].key # key
      <4>1. {i \in DOMAIN es : Hash(es[i].key) = Hash(key) /\ Equal(es[i].key, key)} = {}
        BY <1>1, <3>1 DEF HashFinds
      <4>2. Equal(key, key)
        <5>1. \A i \in DOMAIN key : ~(key[i].rank # key[i].rank)
          OBVIOUS
        <5> QED
          BY <5>1 DEF Equal, Differences, ValuesDiffer
      <4> QED
        BY <1>1, <4>1, <4>2
    <3>11. KeysOnce(Append(es, x))
      <4>1. x.key = key
        BY <3>4 DEF x
      <4> QED
        BY <1>1, <3>3, <3>6, <3>7, <3>10, <4>1 DEF KeysOnce
    <3> QED
      BY <2>1, <2>4, <3>2, <3>9, <3>11 DEF Tight, x
  <2> QED
    BY <2>2, <2>3, <2>4
<1> QED
  BY <1>2, <1>3 DEF Inserts

(* An index without one of its entries stays tight.                        *)
LEMMA ShorterTight ==
  ASSUME NEW es \in Seq(EntryTypes), NEW i \in DOMAIN es, NEW strict \in BOOLEAN,
         ListsOneEach(es), strict => InStrictOrder(es), ~strict => KeysOnce(es)
  PROVE  LET e == Seqs!RemoveAt(es, i) IN
         ListsOneEach(e) /\ (strict => InStrictOrder(e)) /\ (~strict => KeysOnce(e))
<1> DEFINE e == Seqs!RemoveAt(es, i)
           N == Len(es)
<1>1. DOMAIN es = 1..N /\ N \in Nat /\ i \in 1..N
  BY EntryFacts
<1>2. /\ e \in Seq(EntryTypes) /\ Len(e) = N - 1
      /\ \A j \in 1..N - 1 : e[j] = IF j < i THEN es[j] ELSE es[j + 1]
  BY <1>1, RemoveAtFacts
<1> HIDE DEF e, N
<1>3. DOMAIN e = 1..N - 1
  BY <1>2
<1> DEFINE Was(j) == IF j < i THEN j ELSE j + 1
<1>4. \A j \in 1..N - 1 : Was(j) \in 1..N /\ e[j] = es[Was(j)]
  BY <1>1, <1>2
<1>5. \A j, k \in 1..N - 1 : j < k => Was(j) < Was(k)
  BY <1>1
<1> HIDE DEF Was
<1>6. ListsOneEach(e)
  BY <1>1, <1>3, <1>4 DEF ListsOneEach
<1>7. ASSUME strict PROVE InStrictOrder(e)
  <2>1. InStrictOrder(es)
    BY <1>7
  <2> QED
    BY <1>1, <1>3, <1>4, <1>5, <2>1 DEF InStrictOrder
<1>8. ASSUME ~strict PROVE KeysOnce(e)
  <2>1. KeysOnce(es)
    BY <1>8
  <2> SUFFICES ASSUME NEW j \in 1..N - 1, NEW k \in 1..N - 1, j < k, e[j].key = e[k].key
               PROVE  FALSE
    BY <1>1, <1>3 DEF KeysOnce
  <2>2. Was(j) < Was(k) /\ Was(j) \in 1..N /\ Was(k) \in 1..N
    BY <1>4, <1>5
  <2>3. es[Was(j)].key = es[Was(k)].key
    BY <1>4
  <2>4. Was(j) = Was(k)
    BY <1>1, <2>1, <2>2, <2>3 DEF KeysOnce
  <2> QED
    BY <1>1, <2>2, <2>4
<1> QED
  BY <1>6, <1>7, <1>8 DEF e

(* remove keeps an index tight: of one id nothing is left, or all.         *)
LEMMA RemovesTight ==
  ASSUME NEW ix \in IndexTypes, Tight(ix), NEW key, NEW id \in Ids, NEW o \in Removes(ix, key, id)
  PROVE  Tight(o.index)
<1> DEFINE es == ix.entries
<1>1. es \in Seq(EntryTypes)
  BY IndexFacts
<1>2. PICK i \in Finds(ix, key) :
        o = IF i = 0 THEN Outcome(FALSE, ix)
            ELSE Outcome(TRUE, [ix EXCEPT !.entries = Without(@, i, id)])
  BY DEF Removes
<1>3. CASE i = 0
  BY <1>2, <1>3 DEF Outcome
<1>4. CASE i # 0
  <2> DEFINE ids == es[i].ids
             left == Left(ids, id)
             e == Without(es, i, id)
  <2>1. i \in DOMAIN es
    BY <1>4, FindsWithin
  <2>2. ids \in Seq(Ids)
    BY <1>1, <2>1, EntryFacts
  <2>3. o.index.unique = ix.unique /\ o.index.kind = ix.kind /\ o.index.entries = e
    BY <1>2, <1>4 DEF Outcome, IndexTypes
  <2>4. ASSUME ix.unique
        PROVE  /\ ListsOneEach(e) /\ (ix.kind = "BTREE" => InStrictOrder(e))
               /\ ix.kind # "BTREE" => KeysOnce(e)
    <3>1. /\ ListsOneEach(es) /\ (ix.kind = "BTREE" => InStrictOrder(es))
          /\ ix.kind # "BTREE" => KeysOnce(es)
      BY <2>4 DEF Tight
    <3>2. Len(ids) = 1
      BY <2>1, <3>1 DEF ListsOneEach
    <3>3. left \in Seq(Ids) /\ Len(left) <= Len(ids)
      BY <2>2, LeftFacts
    <3>4. CASE left = <<>>
      <4>1. e = Seqs!RemoveAt(es, i)
        BY <3>4 DEF Without
      <4> DEFINE strict == ix.kind = "BTREE"
      <4>2. strict \in BOOLEAN /\ (strict => InStrictOrder(es)) /\ (~strict => KeysOnce(es))
        BY <3>1
      <4>3. /\ ListsOneEach(Seqs!RemoveAt(es, i))
            /\ strict => InStrictOrder(Seqs!RemoveAt(es, i))
            /\ ~strict => KeysOnce(Seqs!RemoveAt(es, i))
        <5> HIDE DEF strict, es
        <5> QED
          BY <1>1, <2>1, <3>1, <4>2, ShorterTight
      <4> QED
        BY <4>1, <4>3
    <3>5. CASE left # <<>>
      <4>1. Len(left) = 1
        <5> HIDE DEF left, ids
        <5> QED
          BY <2>2, <3>2, <3>3, <3>5, ShortLists
      <4>2. e = Relisted(es, i, left)
        BY <3>5 DEF Without, Relisted
      <4>3. DOMAIN e = DOMAIN es /\ \A j \in DOMAIN es : /\ e[j].key = es[j].key
                                                         /\ e[j].ids = IF j = i THEN left ELSE es[j].ids
        <5> HIDE DEF e, es, left
        <5> QED
          BY <1>1, <2>1, <3>3, <3>5, <4>2, RelistedFacts
      <4> HIDE DEF e, es, left
      <4>4. ListsOneEach(e)
        BY <3>1, <4>1, <4>3 DEF ListsOneEach
      <4>5. InStrictOrder(es) => InStrictOrder(e)
        BY <4>3 DEF InStrictOrder
      <4>6. KeysOnce(es) => KeysOnce(e)
        BY <4>3 DEF KeysOnce
      <4> QED
        BY <3>1, <4>4, <4>5, <4>6
    <3> QED
      BY <3>4, <3>5
  <2> HIDE DEF e
  <2> QED
    BY <2>3, <2>4 DEF Tight
<1> QED
  BY <1>3, <1>4

(* So does each of the operations on it.                                   *)
LEMMA OutcomesTight ==
  ASSUME NEW ix \in IndexTypes, Tight(ix), NEW c \in Calls, FieldsOk(c.meta),
         ix.unique /\ ix.kind = "BTREE" => Len(c.meta.fields) = 1,
         NEW o \in Outcomes(ix, c)
  PROVE  Tight(o.index)
<1> DEFINE key == KeyOf(c.row, c.meta)
<1>1. key \in Seq(Values) /\ c.id \in Ids
  BY CallFacts, KeyTyped
<1>2. Len(key) = Len(c.meta.fields)
  <2>1. c.meta.fields \in Seq(Nat \ {0})
    BY CallFacts, MetaFacts
  <2>2. DOMAIN key = 1..Len(c.meta.fields) /\ Len(c.meta.fields) \in Nat
    BY <2>1 DEF KeyOf
  <2>3. DOMAIN key = 1..Len(key) /\ Len(key) \in Nat
    BY <1>1
  <2> HIDE DEF key
  <2> QED
    BY <2>2, <2>3
<1>3. CASE c.op = "insert"
  <2>1. o \in Inserts(ix, key, c.id)
    BY <1>3 DEF Outcomes
  <2> HIDE DEF key
  <2> QED
    BY <1>1, <1>2, <2>1, InsertsTight
<1>4. CASE c.op = "remove"
  <2>1. o \in Removes(ix, key, c.id)
    BY <1>4 DEF Outcomes
  <2> HIDE DEF key
  <2> QED
    BY <1>1, <2>1, RemovesTight
<1>5. CASE c.op = "update"
  <2>1. o \in Updates(ix, KeyOf(c.old, c.meta), key, c.id)
    BY <1>5 DEF Outcomes
  <2>2. PICK r \in Removes(ix, KeyOf(c.old, c.meta), c.id) :
          o \in IF r.ok THEN Inserts(r.index, key, c.id) ELSE {r}
    BY <2>1 DEF Updates
  <2>3. Tight(r.index) /\ Touches(ix, r.index, c.id)
    BY <1>1, <2>2, RemovesTight, RemovesTouch
  <2>4. CASE r.ok
    <3>1. o \in Inserts(r.index, key, c.id)
      BY <2>2, <2>4
    <3>2. r.index \in IndexTypes /\ (r.index.unique /\ r.index.kind = "BTREE" => Len(key) = 1)
      BY <1>2, <2>3 DEF Touches
    <3> HIDE DEF key
    <3> QED
      BY <1>1, <2>3, <3>1, <3>2, InsertsTight
  <2>5. CASE ~r.ok
    BY <2>2, <2>3, <2>5
  <2> QED
    BY <2>4, <2>5
<1> QED
  BY <1>3, <1>4, <1>5, CallFacts

(* The calls are on indexes whose metadata it is.                          *)
AllRegistered(calls, metas) ==
  \A i \in 1..Len(calls) : LET meta == calls[i].meta IN
    meta.name \in DOMAIN metas => metas[meta.name] = meta

(* Every index is tight that is not a tree on several fields.              *)
AllTight(m, metas) == \A n \in DOMAIN m : OneField(metas[n]) => Tight(m[n])

(* A call of the IndexManager keeps every index tight.                     *)
LEMMA CalledTight ==
  ASSUME NEW metas, NEW m \in Managers(metas), AllTight(m, metas), NEW c \in Calls,
         c.meta.name \in DOMAIN metas => metas[c.meta.name] = c.meta,
         NEW o \in Called(m, c)
  PROVE  AllTight(o.manager, metas)
<1> DEFINE name == c.meta.name
<1>1. DOMAIN m = DOMAIN metas /\ \A n \in DOMAIN metas : m[n] \in IndexTypes /\ m[n].unique = metas[n].unique
  BY DEF Managers
<1>2. CASE \E status \in Statuses : o = After(status, m)
  BY <1>2 DEF After
<1>3. CASE FieldsOk(c.meta) /\ name \in DOMAIN m /\ m[name].kind = c.meta.kind
  <2>1. PICK p \in Outcomes(m[name], c) :
          o = After(IF p.ok THEN "ok" ELSE "failure", Put(m, name, p.index))
    BY <1>3 DEF Called, Managed
  <2>2. metas[name] = c.meta /\ m[name] \in IndexTypes
    BY <1>1, <1>3
  <2>3. OneField(c.meta) => Tight(m[name]) /\ (m[name].kind = "BTREE" => Len(c.meta.fields) = 1)
    BY <1>1, <1>3, <2>2 DEF AllTight, OneField
  <2>4. OneField(metas[name]) => Tight(p.index)
    BY <1>3, <2>1, <2>2, <2>3, OutcomesTight
  <2>5. o.manager = [n \in DOMAIN m |-> IF n = name THEN p.index ELSE m[n]]
    BY <1>3, <2>1 DEF After, Put
  <2> QED
    BY <2>4, <2>5 DEF AllTight
<1>4. o = After("failure", m) \/ o = After("throw", m) \/ (FieldsOk(c.meta) /\ name \in DOMAIN m /\ m[name].kind = c.meta.kind)
  BY DEF Called, Managed
<1> QED
  BY <1>2, <1>3, <1>4 DEF Statuses

(* The same for a loop of them.                                            *)
LEMMA LoopTight ==
  ASSUME NEW metas, NEW m \in Managers(metas), AllTight(m, metas), NEW calls \in Seq(Calls),
         AllRegistered(calls, metas), NEW o \in Loop(calls, m)
  PROVE  AllTight(o.manager, metas)
<1> DEFINE Good == {r \in Results(metas) : AllTight(r.manager, metas)}
<1>1. Len(calls) \in Nat /\ \A i \in 1..Len(calls) : calls[i] \in Calls
  OBVIOUS
<1>2. After("ok", m) \in Good
  BY DEF After, Results, Statuses
<1>3. \A r \in Good : \A i \in 1..Len(calls) : Called(r.manager, calls[i]) \subseteq Good
  <2> SUFFICES ASSUME NEW r \in Good, NEW i \in 1..Len(calls), NEW p \in Called(r.manager, calls[i])
               PROVE  p \in Good
    OBVIOUS
  <2>1. calls[i] \in Calls /\ r.manager \in Managers(metas) /\ AllTight(r.manager, metas)
    BY <1>1 DEF Results
  <2>2. p \in Results(metas)
    BY <2>1, CalledFacts
  <2> DEFINE c == calls[i]
  <2>3. c.meta.name \in DOMAIN metas => metas[c.meta.name] = c.meta
    BY DEF AllRegistered
  <2>4. c \in Calls /\ p \in Called(r.manager, c)
    BY <2>1
  <2> HIDE DEF c
  <2>5. AllTight(p.manager, metas)
    BY <2>1, <2>3, <2>4, CalledTight
  <2> QED
    BY <2>2, <2>5
<1>4. Loop(calls, m) \subseteq Good
  <2> HIDE DEF Good
  <2> QED
    BY <1>1, <1>2, <1>3, LoopKeeps
<1> QED
  BY <1>4

(* Every index that is unique stays so through a call about indexes.       *)
LEMMA TightStays ==
  ASSUME Inv, AllTight(indexes, index_meta_map), Next
  PROVE  AllTight(indexes', index_meta_map')
<1>1. CASE RowCalls
  BY <1>1 DEF RowCalls, CreateEntity, Insert, Remove, Update, RowCall, AllTight
<1>2. indexes \in Managers(index_meta_map) /\ MetasOK(index_meta_map)
  BY DEF Inv
<1>3. DOMAIN indexes = DOMAIN index_meta_map /\ DOMAIN entity_map \subseteq HandedOut
  BY <1>2 DEF Managers, Inv
<1>4. ASSUME NEW meta \in IndexMetas, CreateIndex(meta)
      PROVE  AllTight(indexes', index_meta_map')
  <2> DEFINE name == meta.name
             metas == Put(index_meta_map, name, meta)
             manager == Put(indexes, name, NewIndex(meta.kind, meta.unique))
  <2>1. CASE UNCHANGED <<indexes, index_meta_map>>
    BY <2>1 DEF AllTight
  <2>2. ASSUME name \notin DOMAIN index_meta_map, NEW o \in Scan(meta, manager),
               \/ indexes' = o.manager /\ index_meta_map' = metas
               \/ indexes' = Drop(o.manager, name) /\ index_meta_map' = Drop(metas, name)
        PROVE  AllTight(indexes', index_meta_map')
    <3>1. /\ Drop(o.manager, name) = indexes /\ Drop(metas, name) = index_meta_map
          /\ o \in Results(metas)
      BY <2>2, ScanFacts, NewTables
    <3>2. CASE indexes' = Drop(o.manager, name) /\ index_meta_map' = Drop(metas, name)
      <4> HIDE DEF metas, manager
      <4> QED
        BY <3>1, <3>2 DEF AllTight
    <3>3. CASE indexes' = o.manager /\ index_meta_map' = metas
      <4>1. PICK order \in Orders(DOMAIN entity_map) :
              o \in Loop([i \in DOMAIN order |-> InsertRow(meta, order[i])], manager)
        BY <2>2 DEF Scan
      <4> DEFINE calls == [i \in DOMAIN order |-> InsertRow(meta, order[i])]
      <4>2. calls \in Seq(Calls) /\ \A i \in 1..Len(calls) : calls[i].meta = meta
        BY ScanCalls
      <4>3. metas[name] = meta
        BY DEF Put
      <4>4. AllRegistered(calls, metas)
        <5> HIDE DEF calls, metas
        <5> QED
          BY <4>2, <4>3 DEF AllRegistered
      <4>5. manager \in Managers(metas)
        BY <2>2, NewTables
      <4>6. AllTight(manager, metas)
        <5>1. Tight(NewIndex(meta.kind, meta.unique))
          BY DEF Tight, NewIndex, ListsOneEach, InStrictOrder, KeysOnce
        <5> QED
          BY <1>3, <5>1 DEF AllTight, Put
      <4>7. o \in Loop(calls, manager)
        BY <4>1
      <4> HIDE DEF calls, metas, manager
      <4>8. AllTight(o.manager, metas)
        BY <4>2, <4>4, <4>5, <4>6, <4>7, LoopTight
      <4> QED
        BY <3>3, <4>8
    <3> QED
      BY <2>2, <3>2, <3>3
  <2> QED
    BY <1>3, <1>4, <2>1, <2>2 DEF CreateIndex, Refused, IndexCall, CreateFailed
<1>5. ASSUME NEW name, RemoveIndex(name) PROVE AllTight(indexes', index_meta_map')
  BY <1>3, <1>5 DEF RemoveIndex, Refused, IndexCall, AllTight, Drop
<1>6. ASSUME NEW op, NEW call \in {"insert", "remove", "update"}, NEW list \in MetadataLists,
             NEW id \in HandedOut, NEW old \in Rows, NEW row \in Rows,
             ForEach(op, call, id, old, row, list)
      PROVE  AllTight(indexes', index_meta_map')
  <2> DEFINE calls == [i \in DOMAIN list |-> Call(call, index_meta_map[list[i]], id, old, row)]
  <2>1. calls \in Seq(Calls)
    BY ForEachCalls
  <2>2. PICK o \in Loop(calls, indexes) : indexes' = o.manager /\ index_meta_map' = index_meta_map
    BY <1>6 DEF ForEach
  <2>3. list \in Seq(DOMAIN index_meta_map)
    BY ListsTyped
  <2>4. \A i \in 1..Len(calls) : \E n \in DOMAIN index_meta_map : calls[i].meta = index_meta_map[n]
    <3>1. DOMAIN calls = DOMAIN list /\ DOMAIN calls = 1..Len(calls)
      BY <2>1
    <3>2. \A i \in DOMAIN list : calls[i].meta = index_meta_map[list[i]] /\ list[i] \in DOMAIN index_meta_map
      BY <2>3 DEF Call
    <3> QED
      BY <3>1, <3>2
  <2> HIDE DEF calls
  <2>5. AllRegistered(calls, index_meta_map)
    <3>1. \A n \in DOMAIN index_meta_map : index_meta_map[n].name = n
      BY <1>2 DEF MetasOK
    <3> QED
      BY <2>4, <3>1 DEF AllRegistered
  <2> QED
    BY <1>2, <2>1, <2>2, <2>5, LoopTight
<1>7. CASE IndexCalls
  BY <1>4, <1>5, <1>6, <1>7, IndexCallsAre
<1> QED
  BY <1>1, <1>7 DEF Next

(* A unique index, if it is a hash table or a tree on one field, never     *)
(* lists two rows under one key, NULL or not, whatever is inserted,        *)
(* updated or rolled back; and no index keeps an entry that lists none.    *)
THEOREM UniqueAlwaysListsOne == Spec => []UniqueListsOne
<1> DEFINE Tights == AllTight(indexes, index_meta_map)
<1>1. Init => Tights
  BY DEF Init, AllTight
<1>2. Inv /\ Tights /\ [Next]_vars => Tights'
  <2>1. CASE UNCHANGED vars
    BY <2>1 DEF vars, AllTight
  <2> QED
    BY <2>1, TightStays
<1>3. Inv /\ Tights => UniqueListsOne
  <2> SUFFICES ASSUME Inv, Tights, NEW n \in DOMAIN indexes, NEW i \in DOMAIN indexes[n].entries
               PROVE  /\ indexes[n].entries[i].ids # <<>>
                      /\ indexes[n].unique /\ OneField(index_meta_map[n]) =>
                           /\ Len(indexes[n].entries[i].ids) = 1
                           /\ \A j \in DOMAIN indexes[n].entries :
                                indexes[n].entries[i].key = indexes[n].entries[j].key => i = j
    BY DEF UniqueListsOne
  <2>1. indexes[n] \in IndexTypes /\ (OneField(index_meta_map[n]) => Tight(indexes[n]))
    BY DEF Inv, Managers, AllTight
  <2>2. indexes[n].entries \in Seq(EntryTypes)
    BY <2>1, IndexFacts
  <2>3. indexes[n].entries[i].ids # <<>>
    BY <2>2, EntryFacts
  <2>4. InStrictOrder(indexes[n].entries) => KeysOnce(indexes[n].entries)
    BY <2>2, StrictOnce
  <2> QED
    BY <2>1, <2>3, <2>4 DEF Tight, ListsOneEach, KeysOnce
<1> QED
  BY <1>1, <1>2, <1>3, CollectionInvariant, PTL DEF Spec

-----------------------------------------------------------------------------
(* What is listed, and what a loop of updates can lose.                    *)

(* The index lists the id, under some key.                                 *)
Lists(ix, id) == \E i \in DOMAIN ix.entries : id \in Range(ix.entries[i].ids)

(* How often is a number, and 0 if the id is not listed.                   *)
LEMMA CountIs ==
  ASSUME NEW ix \in IndexTypes, NEW id
  PROVE  Count(ix, id) \in Nat /\ (Count(ix, id) = 0 <=> ~Lists(ix, id))
<1> DEFINE es == ix.entries
           D == DOMAIN es
           Row(i) == {<<i, j>> : j \in {n \in DOMAIN es[i].ids : es[i].ids[n] = id}}
           row == [i \in D |-> Row(i)]
           rows == {Row(i) : i \in D}
<1>1. es \in Seq(EntryTypes) /\ D = 1..Len(es) /\ Len(es) \in Nat
  BY IndexFacts, EntryFacts
<1>2. IsFiniteSet(rows)
  <2>1. row \in Surjection(D, rows)
    BY DEF Surjection
  <2>2. IsFiniteSet(1..Len(es))
    <3>1. Len(es) \in Nat
      BY <1>1
    <3> HIDE DEF es
    <3> QED
      BY <3>1, FS_Interval
  <2>3. IsFiniteSet(D)
    BY <1>1, <2>2
  <2> HIDE DEF row, rows, D
  <2> QED
    BY <2>1, <2>3, FS_Surjection
<1>3. ASSUME NEW i \in D PROVE IsFiniteSet(Row(i))
  <2> DEFINE N == Len(es[i].ids)
  <2>1. es[i].ids \in Seq(Ids)
    BY <1>1, EntryFacts
  <2>2. N \in Nat /\ DOMAIN es[i].ids = 1..N
    BY <2>1
  <2>3. Row(i) \in SUBSET ({i} \X (1..N))
    BY <2>2
  <2> HIDE DEF N, Row
  <2>4. IsFiniteSet(1..N)
    BY <2>2, FS_Interval
  <2>5. IsFiniteSet({i})
    BY FS_Singleton
  <2>6. IsFiniteSet({i} \X (1..N))
    BY <2>4, <2>5, FS_Product
  <2> QED
    BY <2>3, <2>6, FS_Subset
<1>4. IsFiniteSet(UNION rows)
  <2>1. \A r \in rows : IsFiniteSet(r)
    BY <1>3
  <2> HIDE DEF rows
  <2> QED
    BY <1>2, <2>1, FS_UNION
<1>5. UNION rows = {} <=> ~Lists(ix, id)
  <2>1. \A i \in D : Row(i) = {} <=> id \notin Range(es[i].ids)
    BY DEF Range
  <2>2. UNION rows = {} <=> \A i \in D : Row(i) = {}
    <3> HIDE DEF Row, D
    <3> QED
      OBVIOUS
  <2> HIDE DEF rows, Row
  <2> QED
    BY <2>1, <2>2 DEF Lists
<1>6. Count(ix, id) = Cardinality(UNION rows)
  BY DEF Count
<1> HIDE DEF rows
<1> QED
  BY <1>4, <1>5, <1>6, FS_CardinalityType, FS_EmptySet

(* What insert lists is listed; when it is refused, all is as it was.      *)
LEMMA InsertsList ==
  ASSUME NEW ix \in IndexTypes, NEW key \in Seq(Values), NEW id \in Ids,
         NEW o \in Inserts(ix, key, id)
  PROVE  IF o.ok THEN Lists(o.index, id) ELSE o.index = ix
<1> DEFINE es == ix.entries
<1>1. es \in Seq(EntryTypes)
  BY IndexFacts
<1>2. CASE o = Outcome(FALSE, ix)
  BY <1>2 DEF Outcome
<1>3. ASSUME NEW e \in Emplaces(ix, key, id), o = Outcome(TRUE, [ix EXCEPT !.entries = e])
      PROVE  o.ok /\ Lists(o.index, id)
  <2>1. e \in Seq(EntryTypes) /\ \E i \in DOMAIN e : id \in Range(e[i].ids)
    <3>1. ASSUME NEW i \in DOMAIN es, e = Relisted(es, i, Append(es[i].ids, id))
          PROVE  e \in Seq(EntryTypes) /\ \E j \in DOMAIN e : id \in Range(e[j].ids)
      <4> DEFINE ids == Append(es[i].ids, id)
      <4>1. es[i].ids \in Seq(Ids)
        BY <1>1, EntryFacts
      <4>2. ids \in Seq(Ids) /\ ids # <<>> /\ id \in Range(ids)
        BY <4>1, AppendedFacts
      <4> HIDE DEF es, ids
      <4>3. e = Relisted(es, i, ids)
        BY <3>1 DEF ids
      <4>4. e \in Seq(EntryTypes) /\ i \in DOMAIN e /\ e[i].ids = ids
        BY <1>1, <4>2, <4>3, RelistedFacts
      <4> QED
        BY <4>2, <4>4
    <3>2. ASSUME NEW i \in 1..Len(es) + 1, e = Seqs!InsertAt(es, i, NewEntry(key, <<id>>))
          PROVE  e \in Seq(EntryTypes) /\ \E j \in DOMAIN e : id \in Range(e[j].ids)
      <4> DEFINE x == NewEntry(key, <<id>>)
      <4>1. x \in EntryTypes /\ Range(x.ids) = {id}
        BY NewEntryFacts
      <4> HIDE DEF x
      <4>2. e = Seqs!InsertAt(es, i, x)
        BY <3>2 DEF x
      <4>3. Len(es) \in Nat
        BY <1>1
      <4> HIDE DEF es
      <4>4. e \in Seq(EntryTypes) /\ Len(e) = Len(es) + 1 /\ e[i] = x
        BY <1>1, <4>1, <4>2, <4>3, InsertAtFacts
      <4>5. i \in DOMAIN e
        BY <4>4, EntryFacts
      <4> QED
        BY <4>1, <4>4, <4>5
    <3> QED
      BY <3>1, <3>2, EmplacesWithin
  <2> DEFINE ix2 == [ix EXCEPT !.entries = e]
  <2>2. ix2.entries = e
    BY <2>1, IndexWith
  <2> HIDE DEF ix2
  <2>3. o.ok = TRUE /\ o.index = ix2
    BY <1>3 DEF Outcome, ix2
  <2> QED
    BY <2>1, <2>2, <2>3 DEF Lists
<1> QED
  BY <1>2, <1>3 DEF Inserts

(* So is what update lists, when it succeeds.                              *)
LEMMA UpdatesList ==
  ASSUME NEW ix \in IndexTypes, NEW old, NEW key \in Seq(Values), NEW id \in Ids,
         NEW o \in Updates(ix, old, key, id), o.ok
  PROVE  Lists(o.index, id)
<1>1. PICK r \in Removes(ix, old, id) : o \in IF r.ok THEN Inserts(r.index, key, id) ELSE {r}
  BY DEF Updates
<1>2. r.ok \in BOOLEAN /\ Touches(ix, r.index, id)
  BY RemovesTouch
<1>3. r.index \in IndexTypes
  BY <1>2 DEF Touches
<1>4. CASE r.ok
  <2>1. o \in Inserts(r.index, key, id)
    BY <1>1, <1>4
  <2> QED
    BY <1>3, <2>1, InsertsList
<1>5. CASE ~r.ok
  BY <1>1, <1>5
<1> QED
  BY <1>4, <1>5

(* A call to update that succeeds lists the id in its index; one that      *)
(* throws changes nothing.                                                 *)
LEMMA CalledLists ==
  ASSUME NEW metas, NEW m \in Managers(metas), NEW c \in Calls, c.op = "update", NEW o \in Called(m, c)
  PROVE  /\ o.status = "ok" => Lists(o.manager[c.meta.name], c.id)
         /\ o.status = "throw" => o.manager = m
<1> DEFINE name == c.meta.name
<1>1. DOMAIN m = DOMAIN metas /\ \A n \in DOMAIN metas : m[n] \in IndexTypes
  BY DEF Managers
<1>2. CASE FieldsOk(c.meta) /\ name \in DOMAIN m /\ m[name].kind = c.meta.kind
  <2>1. PICK p \in Outcomes(m[name], c) :
          o = After(IF p.ok THEN "ok" ELSE "failure", Put(m, name, p.index))
    BY <1>2 DEF Called, Managed
  <2>2. p \in Updates(m[name], KeyOf(c.old, c.meta), KeyOf(c.row, c.meta), c.id)
    BY <2>1 DEF Outcomes
  <2>3. KeyOf(c.row, c.meta) \in Seq(Values) /\ c.id \in Ids
    BY <1>2, CallFacts, KeyTyped
  <2>4. p.ok => Lists(p.index, c.id)
    BY <1>1, <1>2, <2>2, <2>3, UpdatesList
  <2>5. o.manager[name] = p.index
    BY <1>2, <2>1 DEF After, Put
  <2>6. o.status = "ok" => p.ok
    BY <2>1 DEF After
  <2>7. o.status # "throw"
    BY <2>1 DEF After
  <2> QED
    BY <2>4, <2>5, <2>6, <2>7
<1>3. CASE ~(FieldsOk(c.meta) /\ name \in DOMAIN m /\ m[name].kind = c.meta.kind)
  BY <1>3 DEF Called, Managed, After
<1> QED
  BY <1>2, <1>3

(* The indexes that have lost their listing of the id.                     *)
Lost(m, m2, id) == {n \in DOMAIN m : Lists(m[n], id) /\ ~Lists(m2[n], id)}

(* Calls of one operation.                                                 *)
AllAre(calls, op) == \A i \in 1..Len(calls) : calls[i].op = op

(* A loop of updates loses the listing in one index at most, and none if   *)
(* it does not fail.                                                       *)
LEMMA LoopLosesOne ==
  ASSUME NEW metas, NEW m \in Managers(metas), NEW calls \in Seq(Calls), NEW id,
         AllFor(calls, id), AllAre(calls, "update"),
         NEW o \in Loop(calls, m)
  PROVE  /\ \E n : Lost(m, o.manager, id) \subseteq {n}
         /\ o.status # "failure" => Lost(m, o.manager, id) = {}
<1> DEFINE Good == {r \in Results(metas) :
                      /\ \E n : Lost(m, r.manager, id) \subseteq {n}
                      /\ r.status # "failure" => Lost(m, r.manager, id) = {}}
<1>1. Len(calls) \in Nat /\ \A i \in 1..Len(calls) : calls[i] \in Calls
  OBVIOUS
<1>2. After("ok", m) \in Good
  <2>1. Lost(m, m, id) = {}
    BY DEF Lost
  <2> QED
    BY <2>1 DEF After, Results, Statuses
<1>3. \A r \in Good : \A i \in 1..Len(calls) : r.status = "ok" => Called(r.manager, calls[i]) \subseteq Good
  <2> SUFFICES ASSUME NEW r \in Good, NEW i \in 1..Len(calls), r.status = "ok", NEW p \in Called(r.manager, calls[i])
               PROVE  p \in Good
    OBVIOUS
  <2> DEFINE c == calls[i]
             name == c.meta.name
  <2>1. c \in Calls /\ r.manager \in Managers(metas) /\ c.id = id /\ c.op = "update"
    BY <1>1 DEF Results, AllFor, AllAre
  <2>2. p \in Called(r.manager, c)
    OBVIOUS
  <2>3. Lost(m, r.manager, id) = {}
    OBVIOUS
  <2> HIDE DEF c
  <2>4. p \in Results(metas) /\ \A n \in DOMAIN metas : n # name => p.manager[n] = r.manager[n]
    BY <2>1, <2>2, CalledFacts
  <2>5. /\ p.status = "ok" => Lists(p.manager[name], id)
        /\ p.status = "throw" => p.manager = r.manager
    BY <2>1, <2>2, CalledLists
  <2>6. DOMAIN m = DOMAIN metas
    BY DEF Managers
  <2>7. Lost(m, p.manager, id) \subseteq {name}
    BY <2>3, <2>4, <2>6 DEF Lost
  <2>8. p.status = "ok" => name \notin Lost(m, p.manager, id)
    BY <2>5 DEF Lost
  <2>9. p.status \in Statuses
    BY <2>4 DEF Results
  <2>10. p.status # "failure" => Lost(m, p.manager, id) = {}
    BY <2>3, <2>5, <2>7, <2>8, <2>9 DEF Statuses
  <2> QED
    BY <2>4, <2>7, <2>10
<1>4. Loop(calls, m) \subseteq Good
  <2> HIDE DEF Good
  <2> QED
    BY <1>1, <1>2, <1>3, LoopKeeps
<1> QED
  BY <1>4

(* The calls that bring the indexes up to date, with what they call.       *)
OnOp(call) ==
  CASE call = "insert" -> "on_insert" [] call = "remove" -> "on_remove" [] call = "update" -> "on_update"

(* The steps that bring the indexes up to date are these calls.            *)
LEMMA UpdatesAre ==
  ASSUME Next, answer'.op \in {"on_insert", "on_remove", "on_update"}
  PROVE  \E call \in {"insert", "remove", "update"}, list \in MetadataLists, id \in HandedOut,
            old \in Rows, row \in Rows : ForEach(OnOp(call), call, id, old, row, list)
<1>1. ~RowCalls
  BY RowCallAnswers
<1>2. ASSUME NEW meta, CreateIndex(meta) PROVE FALSE
  BY <1>2 DEF CreateIndex, Refused, CreateFailed, IndexCall, Answer
<1>3. ASSUME NEW name, RemoveIndex(name) PROVE FALSE
  BY <1>3 DEF RemoveIndex, Refused, IndexCall, Answer
<1>4. PICK list \in MetadataLists, id \in HandedOut, row \in Rows :
             \/ UpdateIndexesOnInsert(id, row, list)
             \/ UpdateIndexesOnRemove(id, row, list)
             \/ \E new \in Rows : UpdateIndexesOnUpdate(id, row, new, list)
  BY <1>1, <1>2, <1>3 DEF Next, IndexCalls
<1> QED
  BY <1>4 DEF UpdateIndexesOnInsert, UpdateIndexesOnRemove, UpdateIndexesOnUpdate, OnOp

(* update_indexes_on_update that fails half-way costs the entity its       *)
(* listing in one index at most, however many are in the list and however  *)
(* often; one that succeeds or throws, in none.  No tree need be in order. *)
THEOREM OneListingLostAtMost == Spec => AtMostOneListingLost
<1> DEFINE Lose == answer'.op = "on_update" =>
             LET lost == {n \in DOMAIN indexes :
                            Count(indexes'[n], answer'.id) < Count(indexes[n], answer'.id)}
             IN  (\A n \in DOMAIN indexes : Count(indexes[n], answer'.id) <= 1) =>
                   Cardinality(lost) <= IF answer'.status = "failure" THEN 1 ELSE 0
<1>1. ASSUME Inv, [Next]_vars PROVE [Lose]_vars
  <2> SUFFICES ASSUME Next, answer'.op = "on_update",
                      \A n \in DOMAIN indexes : Count(indexes[n], answer'.id) <= 1
               PROVE  Cardinality({n \in DOMAIN indexes :
                            Count(indexes'[n], answer'.id) < Count(indexes[n], answer'.id)})
                      <= IF answer'.status = "failure" THEN 1 ELSE 0
    BY <1>1
  <2> DEFINE id == answer'.id
             lost == {n \in DOMAIN indexes : Count(indexes'[n], id) < Count(indexes[n], id)}
  <2>1. PICK call \in {"insert", "remove", "update"}, list \in MetadataLists, x \in HandedOut,
             old \in Rows, row \in Rows : ForEach(OnOp(call), call, x, old, row, list)
    BY UpdatesAre
  <2> DEFINE calls == [i \in DOMAIN list |-> Call(call, index_meta_map[list[i]], x, old, row)]
  <2>2. PICK o \in Loop(calls, indexes) :
          /\ indexes' = o.manager
          /\ answer' = [op |-> OnOp(call), id |-> x, row |-> row, list |-> list, status |-> o.status]
    BY <2>1 DEF ForEach
  <2>3. call = "update" /\ x = id /\ answer'.status = o.status
    BY <2>2 DEF OnOp
  <2>4. calls \in Seq(Calls) /\ AllFor(calls, x)
    BY <1>1, ForEachCalls
  <2>5. AllAre(calls, "update")
    <3>1. DOMAIN calls = 1..Len(calls)
      <4>1. calls \in Seq(Calls)
        BY <2>4
      <4> HIDE DEF calls
      <4> QED
        BY <4>1
    <3>2. DOMAIN calls = DOMAIN list
      OBVIOUS
    <3>3. \A i \in DOMAIN calls : calls[i].op = "update"
      BY <2>3 DEF Call
    <3> HIDE DEF calls
    <3> QED
      BY <3>1, <3>3 DEF AllAre
  <2>6. indexes \in Managers(index_meta_map)
    BY <1>1 DEF Inv
  <2> HIDE DEF calls
  <2>7. /\ \E n : Lost(indexes, indexes', id) \subseteq {n}
        /\ o.status # "failure" => Lost(indexes, indexes', id) = {}
    BY <2>2, <2>3, <2>4, <2>5, <2>6, LoopLosesOne
  <2>8. o \in Results(index_meta_map)
    BY <2>4, <2>6, LoopTyped
  <2>9. \A n \in DOMAIN indexes : indexes[n] \in IndexTypes /\ indexes'[n] \in IndexTypes
    BY <2>2, <2>6, <2>8 DEF Results, Managers
  <2>10. lost \subseteq Lost(indexes, indexes', id)
    <3> SUFFICES ASSUME NEW n \in DOMAIN indexes, Count(indexes'[n], id) < Count(indexes[n], id)
                 PROVE  Lists(indexes[n], id) /\ ~Lists(indexes'[n], id)
      BY DEF Lost
    <3>1. /\ Count(indexes[n], id) \in Nat /\ (Count(indexes[n], id) = 0 <=> ~Lists(indexes[n], id))
          /\ Count(indexes'[n], id) \in Nat /\ (Count(indexes'[n], id) = 0 <=> ~Lists(indexes'[n], id))
      BY <2>9, CountIs
    <3>2. Count(indexes[n], id) <= 1
      OBVIOUS
    <3> HIDE DEF id
    <3> QED
      BY <3>1, <3>2
  <2>11. Cardinality(lost) <= 1
    <3>1. PICK n : lost \subseteq {n}
      BY <2>7, <2>10
    <3>2. lost = {} \/ lost = {n}
      BY <3>1
    <3>3. Cardinality({}) = 0 /\ Cardinality({n}) = 1
      BY FS_EmptySet, FS_Singleton
    <3> HIDE DEF lost
    <3> QED
      BY <3>2, <3>3
  <2>12. o.status # "failure" => Cardinality(lost) = 0
    <3>1. o.status # "failure" => lost = {}
      BY <2>7, <2>10
    <3> HIDE DEF lost
    <3> QED
      BY <3>1, FS_EmptySet
  <2> HIDE DEF lost
  <2>13. Cardinality(lost) <= IF o.status = "failure" THEN 1 ELSE 0
    BY <2>11, <2>12
  <2> QED
    BY <2>3, <2>13 DEF lost
<1> QED
  BY <1>1, CollectionInvariant, PTL DEF Spec, AtMostOneListingLost

-----------------------------------------------------------------------------
(* Where the keys of an index are comparable, its operations work on the   *)
(* key itself, and a loop that ends well has done all its calls.           *)

(* Of keys with values of the same types, two that compare equal are one.  *)
LEMMA SameKey ==
  ASSUME NEW a \in Seq(Values), NEW b \in Seq(Values), SameTypes(a, b), Differences(a, b) = {}
  PROVE  a = b
<1> DEFINE N == Len(a)
<1>1. N \in Nat /\ DOMAIN a = 1..N /\ DOMAIN b = 1..N /\ Len(b) = N
  BY DEF SameTypes
<1>2. \A i \in 1..N : a[i] \in Values /\ b[i] \in Values
  <2> HIDE DEF N
  <2> QED
    BY <1>1
<1>3. \A i \in 1..N : a[i].type = b[i].type /\ a[i].rank = b[i].rank
  BY <1>1 DEF SameTypes, Differences, ValuesDiffer
<1>4. \A i \in 1..N : a[i] = b[i]
  BY <1>2, <1>3, CollectionAssumption
<1> HIDE DEF N
<1> QED
  BY <1>1, <1>4, SeqEqual

(* And so are two of which neither is less.                                *)
LEMMA NeitherLess ==
  ASSUME NEW a \in Seq(Values), NEW b \in Seq(Values), SameTypes(a, b), ~Less(a, b), ~Less(b, a)
  PROVE  a = b
<1> DEFINE D == Differences(a, b)
           N == Len(a)
<1>1. N \in Nat /\ DOMAIN a = 1..N /\ DOMAIN b = 1..N
  BY DEF SameTypes
<1>2. \A i \in 1..N : a[i] \in Values /\ b[i] \in Values
  <2> HIDE DEF N
  <2> QED
    BY <1>1
<1>3. \A i \in 1..N : a[i].rank \in Int /\ b[i].rank \in Int
  BY <1>2, CollectionAssumption
<1>4. Differences(b, a) = D /\ D \in SUBSET Nat /\ D \subseteq 1..N
  BY <1>1 DEF Differences, ValuesDiffer
<1>5. D = {}
  <2> SUFFICES ASSUME D # {} PROVE FALSE
    OBVIOUS
  <2> HIDE DEF D
  <2>1. PICK i \in D : \A j \in D : i <= j
    BY <1>4, LeastExists
  <2>2. a[i].rank \in Int /\ b[i].rank \in Int
    BY <1>3, <1>4
  <2>3. a[i].rank # b[i].rank
    BY DEF D, Differences, ValuesDiffer
  <2>4. a[i].rank < b[i].rank \/ b[i].rank < a[i].rank
    BY <2>2, <2>3
  <2> QED
    BY <1>4, <2>1, <2>4 DEF Less, D
<1> QED
  BY <1>5, SameKey

(* The entries' keys are comparable with the key.                          *)
Alike(es, key) == \A i \in DOMAIN es : SameTypes(key, es[i].key)

(* What find finds is the key.                                             *)
LEMMA FindsKey ==
  ASSUME NEW ix \in IndexTypes, NEW key \in Seq(Values), Alike(ix.entries, key),
         NEW f \in Finds(ix, key), f # 0
  PROVE  f \in DOMAIN ix.entries /\ ix.entries[f].key = key
<1> DEFINE es == ix.entries
<1>1. es \in Seq(EntryTypes) /\ DOMAIN es = 1..Len(es) /\ Len(es) \in Nat
  BY IndexFacts, EntryFacts
<1>2. f \in DOMAIN es
  BY FindsWithin
<1>3. es[f].key \in Seq(Values) /\ SameTypes(key, es[f].key)
  BY <1>1, <1>2, EntryFacts DEF Alike
<1>4. CASE ix.kind = "BTREE"
  <2>1. PICK i \in LowerBounds(es, key) :
          f = IF i > Len(es) \/ Less(key, es[i].key) THEN 0 ELSE i
    BY <1>4 DEF Finds, TreeFinds
  <2>2. f = i /\ ~Less(key, es[f].key)
    BY <2>1
  <2>3. f <= Len(es) => ~Less(es[f].key, key)
    BY <2>1, <2>2, BoundsAre
  <2> HIDE DEF es
  <2>4. ~Less(es[f].key, key)
    BY <1>1, <1>2, <2>3
  <2> QED
    BY <1>2, <1>3, <2>2, <2>4, NeitherLess DEF es
<1>5. CASE ix.kind # "BTREE"
  <2>1. Equal(es[f].key, key)
    BY <1>5 DEF Finds, HashFinds
  <2>2. Differences(key, es[f].key) = {}
    BY <2>1 DEF Equal, Differences, ValuesDiffer
  <2> HIDE DEF es
  <2> QED
    BY <1>2, <1>3, <2>2, SameKey DEF es
<1> QED
  BY <1>4, <1>5

(* emplace and push_back put the id under the key.                         *)
LEMMA EmplacesUnder ==
  ASSUME NEW ix \in IndexTypes, NEW key \in Seq(Values), NEW id, Alike(ix.entries, key),
         NEW e \in Emplaces(ix, key, id)
  PROVE  \/ \E i \in DOMAIN ix.entries :
              /\ ix.entries[i].key = key
              /\ e = Relisted(ix.entries, i, Append(ix.entries[i].ids, id))
         \/ \E i \in 1..Len(ix.entries) + 1 :
              e = Seqs!InsertAt(ix.entries, i, NewEntry(key, <<id>>))
<1> DEFINE es == ix.entries
           Join(i) == [es EXCEPT ![i].ids = Append(@, id)]
           New(i) == Seqs!InsertAt(es, i, [key |-> key, ids |-> <<id>>])
<1>1. DOMAIN es = 1..Len(es) /\ Len(es) \in Nat /\ es \in Seq(EntryTypes)
  BY IndexFacts, EntryFacts
<1>2. SUFFICES \/ \E i \in DOMAIN es : es[i].key = key /\ e = Join(i)
               \/ \E i \in 1..Len(es) + 1 : e = New(i)
  BY DEF Relisted, NewEntry
<1>3. \A i \in DOMAIN es : ~Less(key, es[i].key) /\ ~Less(es[i].key, key) => es[i].key = key
  BY <1>1, EntryFacts, NeitherLess DEF Alike
<1>4. CASE ix.kind = "BTREE"
  <2>1. \/ \E i \in LowerBounds(es, key) :
             e = IF i <= Len(es) /\ ~Less(key, es[i].key) THEN Join(i) ELSE New(i)
        \/ \E i \in UpperBounds(es, key) :
             e = IF i > 1 /\ ~Less(es[i - 1].key, key) THEN Join(i - 1) ELSE New(i)
    BY <1>4 DEF Emplaces, TreeEmplaces
  <2>2. /\ LowerBounds(es, key) \subseteq 1..Len(es) + 1 /\ UpperBounds(es, key) \subseteq 1..Len(es) + 1
        /\ \A i \in LowerBounds(es, key) : i <= Len(es) => ~Less(es[i].key, key)
        /\ \A i \in UpperBounds(es, key) : i > 1 => ~Less(key, es[i - 1].key)
    BY BoundsAre
  <2>3. \A i \in 1..Len(es) + 1 : /\ i <= Len(es) => i \in DOMAIN es
                                  /\ i > 1 => i - 1 \in DOMAIN es
    BY <1>1
  <2> HIDE DEF es, Join, New
  <2>4. CASE \E i \in LowerBounds(es, key) :
               e = IF i <= Len(es) /\ ~Less(key, es[i].key) THEN Join(i) ELSE New(i)
    BY <1>3, <2>2, <2>3, <2>4
  <2>5. CASE \E i \in UpperBounds(es, key) :
               e = IF i > 1 /\ ~Less(es[i - 1].key, key) THEN Join(i - 1) ELSE New(i)
    BY <1>3, <2>2, <2>3, <2>5
  <2> QED
    BY <2>1, <2>4, <2>5
<1>5. CASE ix.kind # "BTREE"
  <2>1. PICK i \in HashFinds(es, key) :
          e = IF i = 0 THEN Append(es, [key |-> key, ids |-> <<id>>]) ELSE Join(i)
    BY <1>5 DEF Emplaces, HashEmplaces
  <2>2. i = 0 \/ (i \in DOMAIN es /\ es[i].key = key)
    <3>1. i \in Finds(ix, key)
      BY <1>5, <2>1 DEF Finds
    <3> QED
      BY <3>1, FindsKey
  <2>3. Len(es) + 1 \in 1..Len(es) + 1
    BY <1>1
  <2>4. New(Len(es) + 1) = Append(es, [key |-> key, ids |-> <<id>>])
    BY <1>1, InsertAtEnd
  <2> QED
    BY <2>1, <2>2, <2>3, <2>4
<1> QED
  BY <1>4, <1>5

(* The keys of a list of entries, and that it has each once.               *)
KeysHeld(es) == {es[i].key : i \in DOMAIN es}
OnceEach(es) == \A i, j \in DOMAIN es : es[i].key = es[j].key => i = j

(* insert lists the id under the key, and under no other that is new.      *)
LEMMA InsertsReach ==
  ASSUME NEW ix \in IndexTypes, NEW key \in Seq(Values), NEW id \in Ids, Alike(ix.entries, key),
         NEW o \in Inserts(ix, key, id), o.ok
  PROVE  /\ key \in KeysOf(o.index.entries, id)
         /\ KeysHeld(o.index.entries) \subseteq KeysHeld(ix.entries) \cup {key}
         /\ KeysOf(o.index.entries, id) \subseteq KeysOf(ix.entries, id) \cup {key}
<1> DEFINE es == ix.entries
           Right(e) == /\ e \in Seq(EntryTypes) /\ key \in KeysOf(e, id)
                       /\ KeysHeld(e) \subseteq KeysHeld(es) \cup {key}
                       /\ KeysOf(e, id) \subseteq KeysOf(es, id) \cup {key}
<1>1. es \in Seq(EntryTypes)
  BY IndexFacts
<1>2. PICK e \in Emplaces(ix, key, id) : o = Outcome(TRUE, [ix EXCEPT !.entries = e])
  BY DEF Inserts, Outcome
<1>3. ASSUME NEW i \in DOMAIN es, es[i].key = key, e = Relisted(es, i, Append(es[i].ids, id))
      PROVE  Right(e)
  <2> DEFINE ids == Append(es[i].ids, id)
  <2>1. es[i].ids \in Seq(Ids)
    BY <1>1, EntryFacts
  <2>2. ids \in Seq(Ids) /\ ids # <<>> /\ id \in Range(ids)
    BY <2>1, AppendedFacts
  <2> HIDE DEF es, ids
  <2>3. e = Relisted(es, i, ids)
    BY <1>3 DEF ids
  <2>4. /\ e \in Seq(EntryTypes) /\ DOMAIN e = DOMAIN es /\ e[i].ids = ids
        /\ \A j \in DOMAIN es : e[j].key = es[j].key /\ (j # i => e[j].ids = es[j].ids)
    BY <1>1, <2>2, <2>3, RelistedFacts
  <2> QED
    BY <1>3, <2>2, <2>4, ZenonT(30) DEF KeysOf, KeysHeld
<1>4. ASSUME NEW i \in 1..Len(es) + 1, e = Seqs!InsertAt(es, i, NewEntry(key, <<id>>))
      PROVE  Right(e)
  <2> DEFINE x == NewEntry(key, <<id>>)
             N == Len(es)
  <2>1. x \in EntryTypes /\ x.key = key /\ Range(x.ids) = {id}
    <3>1. LET y == NewEntry(key, <<id>>) IN
          /\ y \in EntryTypes /\ y.key = key /\ Range(y.ids) = {id}
          /\ DOMAIN y.ids = {1} /\ y.ids[1] = id
      BY NewEntryFacts, ZenonT(30)
    <3> QED
      BY <3>1
  <2> HIDE DEF x
  <2>2. e = Seqs!InsertAt(es, i, x)
    BY <1>4 DEF x
  <2>3. N \in Nat /\ DOMAIN es = 1..N
    BY <1>1, EntryFacts
  <2> HIDE DEF es
  <2>4. /\ e \in Seq(EntryTypes) /\ Len(e) = N + 1
        /\ \A j \in 1..N + 1 : e[j] = IF j < i THEN es[j] ELSE IF j = i THEN x ELSE es[j - 1]
    <3>1. /\ Seqs!InsertAt(es, i, x) \in Seq(EntryTypes)
          /\ Len(Seqs!InsertAt(es, i, x)) = Len(es) + 1
          /\ \A j \in 1..Len(es) + 1 :
               Seqs!InsertAt(es, i, x)[j] = IF j < i THEN es[j] ELSE IF j = i THEN x ELSE es[j - 1]
      BY <1>1, <2>1, InsertAtFacts
    <3> QED
      BY <2>2, <3>1
  <2>5. DOMAIN e = 1..N + 1
    BY <2>3, <2>4
  <2> HIDE DEF N
  <2>6. \A j \in 1..N + 1 : e[j].key = key \/ \E k \in 1..N : e[j] = es[k]
    <3> SUFFICES ASSUME NEW j \in 1..N + 1 PROVE e[j].key = key \/ \E k \in 1..N : e[j] = es[k]
      OBVIOUS
    <3>0. i \in 1..N + 1
      BY DEF N
    <3>1. CASE j < i
      BY <2>3, <2>4, <3>0, <3>1
    <3>2. CASE j = i
      BY <2>1, <2>4, <3>2
    <3>3. CASE j > i
      <4>1. j - 1 \in 1..N /\ e[j] = es[j - 1]
        BY <2>3, <2>4, <3>0, <3>3
      <4> QED
        BY <4>1
    <3> QED
      BY <2>3, <3>0, <3>1, <3>2, <3>3
  <2>7. i \in DOMAIN e /\ e[i] = x
    BY <2>4, <2>5 DEF N
  <2> QED
    BY <2>1, <2>3, <2>4, <2>5, <2>6, <2>7 DEF KeysOf, KeysHeld
<1>5. Right(e)
  BY <1>3, <1>4, EmplacesUnder
<1> DEFINE ix2 == [ix EXCEPT !.entries = e]
<1>6. ix2.entries = e
  BY <1>5, IndexWith
<1> HIDE DEF ix2
<1>7. o.index = ix2
  BY <1>2 DEF Outcome, ix2
<1> QED
  BY <1>5, <1>6, <1>7

(* remove makes no keys.  It takes the id from under the key, if that is   *)
(* there once.                                                             *)
LEMMA RemovesReach ==
  ASSUME NEW ix \in IndexTypes, NEW key, NEW id \in Ids, NEW o \in Removes(ix, key, id)
  PROVE  /\ KeysHeld(o.index.entries) \subseteq KeysHeld(ix.entries)
         /\ OnceEach(ix.entries) => OnceEach(o.index.entries)
         /\ o.ok /\ key \in Seq(Values) /\ Alike(ix.entries, key) /\ OnceEach(ix.entries)
              => key \notin KeysOf(o.index.entries, id)
<1> DEFINE es == ix.entries
           Fits == o.ok /\ key \in Seq(Values) /\ Alike(ix.entries, key) /\ OnceEach(ix.entries)
<1>1. es \in Seq(EntryTypes)
  BY IndexFacts
<1>2. PICK i \in Finds(ix, key) :
        o = IF i = 0 THEN Outcome(FALSE, ix)
            ELSE Outcome(TRUE, [ix EXCEPT !.entries = Without(@, i, id)])
  BY DEF Removes
<1>3. CASE i = 0
  BY <1>2, <1>3 DEF Outcome
<1>4. CASE i # 0
  <2> DEFINE left == Left(es[i].ids, id)
             e == Without(es, i, id)
  <2>1. i \in DOMAIN es
    BY <1>4, FindsWithin
  <2>2. Fits => es[i].key = key
    BY <1>4, FindsKey
  <2>3. es[i].ids \in Seq(Ids)
    BY <1>1, <2>1, EntryFacts
  <2>4. left \in Seq(Ids) /\ (left = <<>> <=> \A n \in DOMAIN es[i].ids : es[i].ids[n] = id)
    BY <2>3, LeftFacts
  <2>5. id \notin Range(left)
    <3>1. Times(left, id) = 0
      BY <2>3, LeftFacts
    <3> HIDE DEF left
    <3>2. id \notin {left[n] : n \in DOMAIN left}
      BY <2>4, <3>1, ListMembers
    <3> QED
      BY <3>2 DEF Range
  <2>6. /\ e \in Seq(EntryTypes) /\ KeysHeld(e) \subseteq KeysHeld(es)
        /\ OnceEach(es) => OnceEach(e)
        /\ Fits => key \notin KeysOf(e, id)
    <3>1. CASE left = <<>>
      <4> DEFINE N == Len(es)
      <4>1. e = Seqs!RemoveAt(es, i)
        BY <3>1 DEF Without
      <4>2. DOMAIN es = 1..N /\ N \in Nat /\ i \in 1..N
        BY <1>1, <2>1, EntryFacts
      <4> HIDE DEF e, es, left, Fits
      <4>3. e \in Seq(EntryTypes) /\ Len(e) = N - 1
            /\ \A j \in 1..N - 1 : e[j] = IF j < i THEN es[j] ELSE es[j + 1]
        BY <1>1, <4>1, <4>2, RemoveAtFacts
      <4>4. DOMAIN e = 1..N - 1
        BY <4>2, <4>3
      <4> HIDE DEF N
      <4> DEFINE at(j) == IF j < i THEN j ELSE j + 1
      <4>5. \A j \in 1..N - 1 : at(j) \in 1..N /\ at(j) # i /\ e[j] = es[at(j)]
        BY <4>2, <4>3
      <4>6. \A j, k \in 1..N - 1 : at(j) = at(k) => j = k
        BY <4>2
      <4> HIDE DEF at
      <4>7. KeysHeld(e) \subseteq KeysHeld(es)
        BY <4>2, <4>4, <4>5 DEF KeysHeld
      <4>8. OnceEach(es) => OnceEach(e)
        BY <4>2, <4>4, <4>5, <4>6 DEF OnceEach
      <4>9. Fits => \A j \in 1..N - 1 : e[j].key # key
        <5> SUFFICES ASSUME Fits, NEW j \in 1..N - 1 PROVE e[j].key # key
          OBVIOUS
        <5>1. OnceEach(es)
          BY DEF Fits, es
        <5> QED
          BY <2>2, <4>2, <4>5, <5>1 DEF OnceEach
      <4> QED
        BY <4>3, <4>4, <4>7, <4>8, <4>9 DEF KeysOf
    <3>2. CASE left # <<>>
      <4>1. e = Relisted(es, i, left)
        BY <3>2 DEF Without, Relisted
      <4> HIDE DEF e, es, left, Fits
      <4>2. /\ e \in Seq(EntryTypes) /\ DOMAIN e = DOMAIN es
            /\ \A j \in DOMAIN es : e[j].key = es[j].key /\ (j = i => e[j].ids = left)
        BY <1>1, <2>1, <2>4, <3>2, <4>1, RelistedFacts
      <4>3. KeysHeld(e) \subseteq KeysHeld(es) /\ (OnceEach(es) => OnceEach(e))
        BY <4>2 DEF KeysHeld, OnceEach
      <4>4. Fits => key \notin KeysOf(e, id)
        <5>1. Fits => OnceEach(es)
          BY DEF Fits, es
        <5> QED
          BY <2>1, <2>2, <2>5, <4>2, <5>1 DEF KeysOf, OnceEach
      <4> QED
        BY <4>2, <4>3, <4>4
    <3> QED
      BY <3>1, <3>2
  <2> DEFINE ix2 == [ix EXCEPT !.entries = e]
  <2>7. o.index = ix2
    BY <1>2, <1>4 DEF Outcome
  <2> HIDE DEF e
  <2>8. ix2.entries = e
    BY <2>6, IndexWith
  <2> HIDE DEF ix2
  <2> QED
    BY <2>6, <2>7, <2>8
<1> QED
  BY <1>3, <1>4

(* update lists the id under the new key.                                  *)
LEMMA UpdatesReach ==
  ASSUME NEW ix \in IndexTypes, NEW old, NEW key \in Seq(Values), NEW id \in Ids, Alike(ix.entries, key),
         NEW o \in Updates(ix, old, key, id), o.ok
  PROVE  /\ key \in KeysOf(o.index.entries, id)
         /\ KeysHeld(o.index.entries) \subseteq KeysHeld(ix.entries) \cup {key}
<1>1. PICK r \in Removes(ix, old, id) : o \in IF r.ok THEN Inserts(r.index, key, id) ELSE {r}
  BY DEF Updates
<1>2. r.ok \in BOOLEAN /\ r.index \in IndexTypes
  BY RemovesTouch DEF Touches
<1>3. KeysHeld(r.index.entries) \subseteq KeysHeld(ix.entries)
  BY RemovesReach
<1>4. Alike(r.index.entries, key)
  BY <1>3 DEF Alike, KeysHeld
<1>5. r.ok /\ o \in Inserts(r.index, key, id)
  BY <1>1, <1>2
<1> QED
  BY <1>2, <1>3, <1>4, <1>5, InsertsReach

(* What a call needs of its index, and what it does to it.                 *)
Ready(ix, key, op) == Alike(ix.entries, key) /\ (op = "remove" => OnceEach(ix.entries))
Reached(ix, key, id, op) == key \in KeysOf(ix.entries, id) <=> op # "remove"

(* A call that succeeds has reached its index, which stays ready for more. *)
LEMMA CalledReaches ==
  ASSUME NEW metas, NEW m \in Managers(metas), NEW c \in Calls, NEW o \in Called(m, c),
         o.status = "ok", NEW key, key = KeyOf(c.row, c.meta), Ready(m[c.meta.name], key, c.op)
  PROVE  /\ Ready(o.manager[c.meta.name], key, c.op)
         /\ Reached(o.manager[c.meta.name], key, c.id, c.op)
<1> DEFINE name == c.meta.name
           ix == m[name]
<1>1. DOMAIN m = DOMAIN metas /\ \A n \in DOMAIN metas : m[n] \in IndexTypes
  BY DEF Managers
<1>2. FieldsOk(c.meta) /\ name \in DOMAIN m
  BY DEF Called, Managed, After
<1>3. PICK p \in Outcomes(ix, c) :
        o = After(IF p.ok THEN "ok" ELSE "failure", Put(m, name, p.index))
  BY DEF Called, Managed, After
<1>4. p.ok /\ o.manager[name] = p.index
  BY <1>2, <1>3 DEF After, Put
<1>5. key \in Seq(Values) /\ c.id \in Ids /\ ix \in IndexTypes /\ Alike(ix.entries, key)
  BY <1>1, <1>2, CallFacts, KeyTyped DEF Ready
<1> HIDE DEF ix
<1>6. Ready(p.index, key, c.op) /\ Reached(p.index, key, c.id, c.op)
  <2>1. ASSUME KeysHeld(p.index.entries) \subseteq KeysHeld(ix.entries) \cup {key}
        PROVE  Alike(p.index.entries, key)
    <3>1. SameTypes(key, key)
      BY DEF SameTypes
    <3> QED
      BY <1>5, <2>1, <3>1 DEF Alike, KeysHeld
  <2>2. CASE c.op = "insert"
    <3>1. p \in Inserts(ix, key, c.id)
      BY <1>3, <2>2 DEF Outcomes
    <3>2. /\ key \in KeysOf(p.index.entries, c.id)
          /\ KeysHeld(p.index.entries) \subseteq KeysHeld(ix.entries) \cup {key}
      <4>1. p.ok
        BY <1>4
      <4> QED
        BY <1>5, <3>1, <4>1, InsertsReach, SMTT(30)
    <3> QED
      BY <2>1, <2>2, <3>2 DEF Ready, Reached
  <2>3. CASE c.op = "remove"
    <3>1. p \in Removes(ix, key, c.id)
      BY <1>3, <2>3 DEF Outcomes
    <3>2. OnceEach(ix.entries)
      BY <2>3 DEF Ready, ix
    <3>3. /\ KeysHeld(p.index.entries) \subseteq KeysHeld(ix.entries)
          /\ OnceEach(ix.entries) => OnceEach(p.index.entries)
          /\ p.ok /\ key \in Seq(Values) /\ Alike(ix.entries, key) /\ OnceEach(ix.entries)
               => key \notin KeysOf(p.index.entries, c.id)
      BY <1>5, <3>1, RemovesReach
    <3> QED
      BY <1>4, <1>5, <2>1, <2>3, <3>2, <3>3 DEF Ready, Reached
  <2>4. CASE c.op = "update"
    <3> DEFINE before == KeyOf(c.old, c.meta)
    <3>1. p \in Updates(ix, before, key, c.id)
      BY <1>3, <2>4 DEF Outcomes
    <3> HIDE DEF before
    <3>2. /\ key \in KeysOf(p.index.entries, c.id)
          /\ KeysHeld(p.index.entries) \subseteq KeysHeld(ix.entries) \cup {key}
      <4>1. p.ok
        BY <1>4
      <4> DEFINE at == c.id
      <4>2. key \in Seq(Values) /\ at \in Ids /\ ix \in IndexTypes /\ Alike(ix.entries, key)
            /\ p \in Updates(ix, before, key, at)
        BY <1>5, <3>1
      <4> HIDE DEF at
      <4>3. /\ key \in KeysOf(p.index.entries, at)
            /\ KeysHeld(p.index.entries) \subseteq KeysHeld(ix.entries) \cup {key}
        BY <4>1, <4>2, UpdatesReach
      <4> QED
        BY <4>3 DEF at
    <3> QED
      BY <2>1, <2>4, <3>2 DEF Ready, Reached
  <2> QED
    BY <2>2, <2>3, <2>4, CallFacts
<1> QED
  BY <1>4, <1>6

(* Calls of one operation for one entity and row, on indexes that have     *)
(* metadata.                                                               *)
Uniform(calls, metas, op, id, row) ==
  \A i \in 1..Len(calls) :
    LET c == calls[i] IN
    /\ c.op = op /\ c.id = id /\ c.row = row
    /\ c.meta.name \in DOMAIN metas /\ c.meta = metas[c.meta.name]

(* A loop that ends well has reached the index of each of its calls: what  *)
(* one has done, none of the others undoes.                                *)
LEMMA LoopReachesAll ==
  ASSUME NEW metas, NEW m \in Managers(metas), NEW calls \in Seq(Calls), NEW op, NEW id, NEW row,
         Uniform(calls, metas, op, id, row),
         NEW o \in Loop(calls, m), o.status = "ok",
         NEW k \in 1..Len(calls), NEW key, key = KeyOf(row, calls[k].meta),
         Ready(m[calls[k].meta.name], key, op)
  PROVE  Reached(o.manager[calls[k].meta.name], key, id, op)
<1> DEFINE name == calls[k].meta.name
           N == Len(calls)
           Fine(i, r) == /\ Ready(r.manager[name], key, op)
                         /\ i >= k => Reached(r.manager[name], key, id, op)
           Set(i) == {r \in Results(metas) : r.status = "ok" => Fine(i, r)}
           Good == [i \in 0..N |-> Set(i)]
<1>1. N \in Nat /\ k \in 1..N /\ \A i \in 1..N : calls[i] \in Calls
  OBVIOUS
<1>2. After("ok", m) \in Good[0]
  <2>1. After("ok", m) \in Results(metas) /\ After("ok", m).manager = m
    BY DEF After, Results, Statuses
  <2>2. ~(0 >= k) /\ 0 \in 0..N
    BY <1>1
  <2>3. Fine(0, After("ok", m))
    BY <2>1, <2>2
  <2> HIDE DEF Fine, N
  <2> QED
    BY <2>1, <2>2, <2>3
<1>3. ASSUME NEW i \in 1..N, NEW r \in Set(i - 1)
      PROVE  /\ r.status = "ok" => Called(r.manager, calls[i]) \subseteq Set(i)
             /\ r.status # "ok" => r \in Set(i)
  <2>1. CASE r.status # "ok"
    BY <2>1
  <2>2. ASSUME r.status = "ok", NEW p \in Called(r.manager, calls[i])
        PROVE  p \in Set(i)
    <3> DEFINE c == calls[i]
    <3>1. /\ c \in Calls /\ p \in Called(r.manager, c) /\ r.manager \in Managers(metas)
          /\ c.op = op /\ c.id = id /\ c.row = row /\ c.meta = metas[c.meta.name]
      BY <1>1 DEF Results, Uniform
    <3>2. Ready(r.manager[name], key, op) /\ (i - 1 >= k => Reached(r.manager[name], key, id, op))
      BY <2>2
    <3>3. name \in DOMAIN metas /\ calls[k].meta = metas[name] /\ (i = k => c.meta.name = name)
      BY DEF Uniform
    <3> HIDE DEF c
    <3>4. p \in Results(metas) /\ \A n \in DOMAIN metas : n # c.meta.name => p.manager[n] = r.manager[n]
      BY <3>1, CalledFacts
    <3>5. CASE c.meta.name = name
      <4>1. key = KeyOf(c.row, c.meta)
        BY <3>1, <3>3, <3>5
      <4>2. p.status = "ok" => Ready(p.manager[name], key, op) /\ Reached(p.manager[name], key, id, op)
        <5> HIDE DEF name
        <5> QED
          BY <3>1, <3>2, <3>5, <4>1, CalledReaches
      <4> QED
        BY <3>4, <4>2
    <3>6. CASE c.meta.name # name
      <4>1. p.manager[name] = r.manager[name]
        BY <3>3, <3>4, <3>6
      <4>2. i >= k => i - 1 >= k
        BY <1>1, <3>3, <3>6
      <4> HIDE DEF name
      <4> QED
        BY <3>2, <3>4, <4>1, <4>2
    <3> QED
      BY <3>5, <3>6
  <2> HIDE DEF Set
  <2> QED
    BY <2>1, <2>2
<1>4. \A i \in 0..N : Good[i] = Set(i)
  <2> HIDE DEF Set
  <2> QED
    OBVIOUS
<1>5. \A i \in 1..N : i - 1 \in 0..N /\ i \in 0..N
  BY <1>1
<1>6. o \in Set(N)
  <2> HIDE DEF Set, Good
  <2>1. \A i \in 1..N : \A r \in Good[i - 1] :
          /\ r.status = "ok" => Called(r.manager, calls[i]) \subseteq Good[i]
          /\ r.status # "ok" => r \in Good[i]
    BY <1>3, <1>4, <1>5
  <2>2. Loop(calls, m) \subseteq Good[N]
    BY <1>1, <1>2, <2>1, LoopReaches
  <2>3. N \in 0..N
    BY <1>1
  <2> QED
    BY <1>4, <2>2, <2>3
<1> QED
  BY <1>1, <1>6

(* When update_indexes_on_insert, _on_remove or _on_update returns true,   *)
(* the entity is listed under its key, or no longer, in every index of the *)
(* list, whatever its length and order.                                    *)
THEOREM SuccessAlwaysReaches == Spec => SuccessReachesEveryIndex
<1> DEFINE Reaches == answer'.op \in {"on_insert", "on_remove", "on_update"} /\ answer'.status = "ok" =>
        \A i \in DOMAIN answer'.list :
          LET name == answer'.list[i]
              key == KeyOf(answer'.row, index_meta_map[name])
              held == [n \in DOMAIN indexes[name].entries |-> indexes[name].entries[n].key]
          IN  Comparable({key} \cup Range(held)) /\ IsInjective(held) =>
                (key \in ListedUnder(indexes'[name], answer'.id) <=> answer'.op # "on_remove")
<1>1. ASSUME Inv, [Next]_vars PROVE [Reaches]_vars
  <2> SUFFICES ASSUME Next, answer'.op \in {"on_insert", "on_remove", "on_update"}, answer'.status = "ok",
                      NEW k \in DOMAIN answer'.list
               PROVE  LET name == answer'.list[k]
                          key == KeyOf(answer'.row, index_meta_map[name])
                          held == [n \in DOMAIN indexes[name].entries |-> indexes[name].entries[n].key]
                      IN  Comparable({key} \cup Range(held)) /\ IsInjective(held) =>
                            (key \in ListedUnder(indexes'[name], answer'.id) <=> answer'.op # "on_remove")
    BY <1>1
  <2>1. PICK call \in {"insert", "remove", "update"}, list \in MetadataLists, id \in HandedOut,
             old \in Rows, row \in Rows : ForEach(OnOp(call), call, id, old, row, list)
    BY UpdatesAre
  <2> DEFINE calls == [i \in DOMAIN list |-> Call(call, index_meta_map[list[i]], id, old, row)]
             N == Len(list)
  <2>2. PICK o \in Loop(calls, indexes) :
          /\ indexes' = o.manager
          /\ answer' = [op |-> OnOp(call), id |-> id, row |-> row, list |-> list, status |-> o.status]
    BY <2>1 DEF ForEach
  <2>3. /\ answer'.op = OnOp(call) /\ answer'.id = id /\ answer'.row = row /\ answer'.list = list
        /\ o.status = "ok"
    BY <2>2
  <2>4. calls \in Seq(Calls)
    BY <1>1, ForEachCalls
  <2>5. indexes \in Managers(index_meta_map) /\ MetasOK(index_meta_map)
    BY <1>1 DEF Inv
  <2>6. N \in Nat /\ DOMAIN list = 1..N /\ \A i \in 1..N : list[i] \in DOMAIN index_meta_map
    BY <1>1, ListsTyped
  <2>7. DOMAIN calls = 1..N
    BY <2>6
  <2>8. Len(calls) = N
    <3> HIDE DEF calls
    <3> QED
      BY <2>4, <2>6, <2>7
  <2>9. \A i \in 1..N : /\ calls[i].op = call /\ calls[i].id = id /\ calls[i].row = row
                        /\ calls[i].meta = index_meta_map[list[i]]
    BY <2>6 DEF Call
  <2>10. \A i \in 1..N : calls[i].meta.name = list[i]
    BY <2>5, <2>6, <2>9 DEF MetasOK
  <2> HIDE DEF calls, N
  <2>11. Uniform(calls, index_meta_map, call, id, row)
    BY <2>6, <2>8, <2>9, <2>10 DEF Uniform
  <2> DEFINE name == list[k]
             key == KeyOf(row, index_meta_map[name])
             es == indexes[name].entries
             held == [n \in DOMAIN es |-> es[n].key]
  <2>12. k \in 1..N /\ calls[k].meta.name = name /\ key = KeyOf(row, calls[k].meta)
    BY <2>3, <2>6, <2>9, <2>10
  <2> SUFFICES ASSUME Comparable({key} \cup Range(held)), IsInjective(held)
               PROVE  key \in ListedUnder(indexes'[name], id) <=> OnOp(call) # "on_remove"
    BY <2>3
  <2>13. Ready(indexes[name], key, call)
    <3>1. \A n \in DOMAIN es : es[n].key \in Range(held)
      BY DEF Range
    <3>2. Alike(es, key)
      <4> HIDE DEF held, es, key
      <4> QED
        BY <3>1 DEF Alike, Comparable
    <3>3. OnceEach(es)
      BY DEF OnceEach, IsInjective
    <3> QED
      BY <3>2, <3>3 DEF Ready
  <2> HIDE DEF key, name
  <2>14. Reached(o.manager[name], key, id, call)
    <3>1. key = KeyOf(row, calls[k].meta) /\ Ready(indexes[calls[k].meta.name], key, call)
      BY <2>12, <2>13
    <3>2. k \in 1..Len(calls)
      BY <2>8, <2>12
    <3>3. Reached(o.manager[calls[k].meta.name], key, id, call)
      BY <2>2, <2>3, <2>4, <2>5, <2>11, <3>1, <3>2, LoopReachesAll
    <3> QED
      BY <2>12, <3>3
  <2>15. ListedUnder(indexes'[name], id) = KeysOf(o.manager[name].entries, id)
    BY <2>2 DEF ListedUnder, KeysOf
  <2>16. call = "remove" <=> OnOp(call) = "on_remove"
    BY DEF OnOp
  <2> QED
    BY <2>14, <2>15, <2>16 DEF Reached
<1> QED
  BY <1>1, CollectionInvariant, PTL DEF Spec, SuccessReachesEveryIndex

-----------------------------------------------------------------------------
(* The scan of create_index.                                               *)

(* The id is listed at one place.                                          *)
ListedOnce(es, id) ==
  \E i \in DOMAIN es : \E j \in DOMAIN es[i].ids :
    /\ es[i].ids[j] = id
    /\ \A m \in DOMAIN es : \A n \in DOMAIN es[m].ids : es[m].ids[n] = id => m = i /\ n = j

(* Then its count is 1.                                                    *)
LEMMA CountOnce ==
  ASSUME NEW ix, NEW id, ListedOnce(ix.entries, id)
  PROVE  Count(ix, id) = 1
<1> DEFINE es == ix.entries
           places == UNION {{<<i, j>> : j \in {n \in DOMAIN es[i].ids : es[i].ids[n] = id}} : i \in DOMAIN es}
<1> DEFINE Only(i, j) ==
             /\ es[i].ids[j] = id
             /\ \A m \in DOMAIN es : \A n \in DOMAIN es[m].ids : es[m].ids[n] = id => m = i /\ n = j
<1>5. PICK i \in DOMAIN es : \E j \in DOMAIN es[i].ids : Only(i, j)
  BY DEF ListedOnce
<1>1. PICK j \in DOMAIN es[i].ids : Only(i, j)
  BY <1>5
<1>2. \A p : p \in places <=> p = <<i, j>>
  BY <1>1
<1>3. places = {<<i, j>>}
  <2> HIDE DEF places
  <2> QED
    BY <1>2
<1>4. Count(ix, id) = Cardinality(places)
  BY DEF Count
<1> HIDE DEF places
<1> QED
  BY <1>3, <1>4, FS_Singleton

(* insert lists its id once more, and every other as often as before.      *)
LEMMA InsertsOnce ==
  ASSUME NEW ix \in IndexTypes, NEW key \in Seq(Values), NEW id \in Ids,
         NEW o \in Inserts(ix, key, id), o.ok
  PROVE  /\ ~Lists(ix, id) => ListedOnce(o.index.entries, id)
         /\ \A x : x # id /\ ListedOnce(ix.entries, x) => ListedOnce(o.index.entries, x)
<1> DEFINE es == ix.entries
           Right(e) == /\ e \in Seq(EntryTypes)
                       /\ ~Lists(ix, id) => ListedOnce(e, id)
                       /\ \A x : x # id /\ ListedOnce(es, x) => ListedOnce(e, x)
<1>1. es \in Seq(EntryTypes)
  BY IndexFacts
<1>2. PICK e \in Emplaces(ix, key, id) : o = Outcome(TRUE, [ix EXCEPT !.entries = e])
  BY DEF Inserts, Outcome
<1>3. \A m \in DOMAIN es : es[m].ids \in Seq(Ids)
  BY <1>1, EntryFacts
<1>4. ~Lists(ix, id) => \A m \in DOMAIN es : \A n \in DOMAIN es[m].ids : es[m].ids[n] # id
  BY DEF Lists, Range
<1>5. ASSUME NEW i \in DOMAIN es, e = Relisted(es, i, Append(es[i].ids, id))
      PROVE  Right(e)
  <2> DEFINE ids == Append(es[i].ids, id)
             N == Len(es[i].ids)
  <2>1. N \in Nat /\ DOMAIN es[i].ids = 1..N
    BY <1>3
  <2>2. ids \in Seq(Ids) /\ ids # <<>> /\ Len(ids) = N + 1 /\ ids[N + 1] = id
        /\ \A j \in 1..N : ids[j] = es[i].ids[j]
    BY <1>3, AppendProperties
  <2>3. DOMAIN ids = 1..N + 1
    <3> HIDE DEF ids
    <3> QED
      BY <2>1, <2>2
  <2>4. e = Relisted(es, i, ids)
    BY <1>5
  <2> HIDE DEF es, ids, N
  <2>5. /\ e \in Seq(EntryTypes) /\ DOMAIN e = DOMAIN es
        /\ \A j \in DOMAIN es : e[j].ids = IF j = i THEN ids ELSE es[j].ids
    BY <1>1, <2>2, <2>4, RelistedFacts
  <2>6. ASSUME ~Lists(ix, id) PROVE ListedOnce(e, id)
    <3>1. N + 1 \in DOMAIN e[i].ids /\ e[i].ids[N + 1] = id
      BY <2>1, <2>2, <2>3, <2>5
    <3>2. ASSUME NEW m \in DOMAIN e, NEW n \in DOMAIN e[m].ids, e[m].ids[n] = id
          PROVE  m = i /\ n = N + 1
      <4>1. CASE m = i
        <5>1. n \in 1..N + 1 /\ ids[n] = id
          BY <2>3, <2>5, <3>2, <4>1
        <5>2. n \notin 1..N
          BY <1>4, <2>1, <2>2, <2>6, <5>1
        <5> QED
          BY <2>1, <4>1, <5>1, <5>2
      <4>2. CASE m # i
        BY <1>4, <2>5, <2>6, <3>2, <4>2
      <4> QED
        BY <4>1, <4>2
    <3> QED
      BY <2>5, <3>1, <3>2 DEF ListedOnce
  <2>7. ASSUME NEW x, x # id, ListedOnce(es, x) PROVE ListedOnce(e, x)
    <3> DEFINE Only(a, b) ==
                 /\ es[a].ids[b] = x
                 /\ \A m \in DOMAIN es : \A n \in DOMAIN es[m].ids : es[m].ids[n] = x => m = a /\ n = b
    <3>4. PICK a \in DOMAIN es : \E b \in DOMAIN es[a].ids : Only(a, b)
      BY <2>7 DEF ListedOnce
    <3>1. PICK b \in DOMAIN es[a].ids : Only(a, b)
      BY <3>4
    <3>2. b \in DOMAIN e[a].ids /\ e[a].ids[b] = x
      <4>1. CASE a = i
        <5>1. b \in 1..N /\ es[i].ids[b] = x
          BY <2>1, <3>1, <4>1
        <5>2. b \in 1..N + 1
          BY <2>1, <5>1
        <5>3. e[a].ids = ids
          BY <2>5, <4>1
        <5> HIDE DEF Only
        <5> QED
          BY <2>2, <2>3, <5>1, <5>2, <5>3
      <4>2. CASE a # i
        BY <2>5, <3>1, <4>2
      <4> QED
        BY <4>1, <4>2
    <3>3. ASSUME NEW m \in DOMAIN e, NEW n \in DOMAIN e[m].ids, e[m].ids[n] = x
          PROVE  m = a /\ n = b
      <4>1. CASE m = i
        <5>1. n \in 1..N + 1 /\ ids[n] = x
          BY <2>3, <2>5, <3>3, <4>1
        <5>2. n # N + 1
          BY <2>2, <2>7, <5>1
        <5>3. n \in 1..N
          BY <2>1, <5>1, <5>2
        <5>4. n \in DOMAIN es[m].ids /\ es[m].ids[n] = x
          BY <2>1, <2>2, <4>1, <5>1, <5>3
        <5> QED
          BY <2>5, <3>1, <5>4
      <4>2. CASE m # i
        BY <2>5, <3>1, <3>3, <4>2
      <4> QED
        BY <4>1, <4>2
    <3> QED
      BY <2>5, <3>1, <3>2, <3>3 DEF ListedOnce
  <2> QED
    BY <2>5, <2>6, <2>7 DEF es
<1>6. ASSUME NEW i \in 1..Len(es) + 1, e = Seqs!InsertAt(es, i, NewEntry(key, <<id>>))
      PROVE  Right(e)
  <2> DEFINE x == NewEntry(key, <<id>>)
             N == Len(es)
  <2>1. x \in EntryTypes /\ DOMAIN x.ids = {1} /\ x.ids[1] = id
    BY NewEntryFacts
  <2> HIDE DEF x
  <2>2. e = Seqs!InsertAt(es, i, x)
    BY <1>6 DEF x
  <2>3. N \in Nat /\ DOMAIN es = 1..N
    BY <1>1, EntryFacts
  <2> HIDE DEF es
  <2>4. /\ e \in Seq(EntryTypes) /\ Len(e) = N + 1
        /\ \A j \in 1..N + 1 : e[j] = IF j < i THEN es[j] ELSE IF j = i THEN x ELSE es[j - 1]
    <3>1. /\ Seqs!InsertAt(es, i, x) \in Seq(EntryTypes)
          /\ Len(Seqs!InsertAt(es, i, x)) = Len(es) + 1
          /\ \A j \in 1..Len(es) + 1 :
               Seqs!InsertAt(es, i, x)[j] = IF j < i THEN es[j] ELSE IF j = i THEN x ELSE es[j - 1]
      BY <1>1, <2>1, InsertAtFacts
    <3> QED
      BY <2>2, <3>1
  <2>5. DOMAIN e = 1..N + 1 /\ i \in 1..N + 1
    BY <2>3, <2>4
  <2> HIDE DEF N
  <2> DEFINE from(j) == IF j < i THEN j ELSE j - 1
             to(k) == IF k < i THEN k ELSE k + 1
  <2>6. \A j \in 1..N + 1 : j # i => from(j) \in 1..N /\ e[j] = es[from(j)] /\ j = to(from(j))
    BY <2>3, <2>4, <2>5
  <2>7. \A k \in 1..N : to(k) \in 1..N + 1 /\ to(k) # i /\ e[to(k)] = es[k]
    BY <2>3, <2>4, <2>5
  <2>8. e[i] = x
    BY <2>3, <2>4, <2>5
  <2> HIDE DEF from, to
  <2>9. ASSUME ~Lists(ix, id) PROVE ListedOnce(e, id)
    <3>1. ASSUME NEW m \in DOMAIN e, NEW n \in DOMAIN e[m].ids, e[m].ids[n] = id
          PROVE  m = i /\ n = 1
      <4>1. CASE m # i
        BY <1>4, <2>3, <2>5, <2>6, <2>9, <3>1, <4>1
      <4>2. CASE m = i
        BY <2>1, <2>8, <3>1, <4>2
      <4> QED
        BY <4>1, <4>2
    <3> QED
      BY <2>1, <2>5, <2>8, <3>1 DEF ListedOnce
  <2>10. ASSUME NEW y, y # id, ListedOnce(es, y) PROVE ListedOnce(e, y)
    <3> DEFINE Only(a, b) ==
                 /\ es[a].ids[b] = y
                 /\ \A m \in DOMAIN es : \A n \in DOMAIN es[m].ids : es[m].ids[n] = y => m = a /\ n = b
    <3>4. PICK a \in DOMAIN es : \E b \in DOMAIN es[a].ids : Only(a, b)
      BY <2>10 DEF ListedOnce
    <3>1. PICK b \in DOMAIN es[a].ids : Only(a, b)
      BY <3>4
    <3>2. to(a) \in DOMAIN e /\ b \in DOMAIN e[to(a)].ids /\ e[to(a)].ids[b] = y
      BY <2>3, <2>5, <2>7, <3>1
    <3>3. ASSUME NEW m \in DOMAIN e, NEW n \in DOMAIN e[m].ids, e[m].ids[n] = y
          PROVE  m = to(a) /\ n = b
      <4>1. m # i
        BY <2>1, <2>8, <2>10, <3>3
      <4>2. from(m) \in DOMAIN es /\ e[m] = es[from(m)] /\ m = to(from(m))
        BY <2>3, <2>5, <2>6, <4>1
      <4>3. from(m) = a /\ n = b
        BY <3>1, <3>3, <4>2
      <4> QED
        BY <4>2, <4>3
    <3> QED
      BY <3>2, <3>3 DEF ListedOnce
  <2> QED
    BY <2>4, <2>9, <2>10 DEF es
<1>7. Right(e)
  BY <1>5, <1>6, EmplacesWithin
<1> DEFINE ix2 == [ix EXCEPT !.entries = e]
<1>8. ix2.entries = e
  BY <1>7, IndexWith
<1> HIDE DEF ix2
<1>9. o.index = ix2
  BY <1>2 DEF Outcome, ix2
<1> QED
  BY <1>7, <1>8, <1>9

(* An order of a finite set reaches all of it.                             *)
LEMMA OrdersReach ==
  ASSUME NEW S, IsFiniteSet(S), NEW o \in Orders(S), NEW x \in S
  PROVE  \E i \in DOMAIN o : o[i] = x
<1> DEFINE n == Cardinality(S)
<1>1. n \in Nat
  BY FS_CardinalityType
<1>2. o \in [1..n -> S] /\ \A i, j \in DOMAIN o : o[i] = o[j] => i = j
  BY DEF Orders
<1> HIDE DEF n
<1>3. o \in Injection(1..n, S)
  BY <1>2 DEF Injection, IsInjective
<1>4. IsFiniteSet(1..n) /\ Cardinality(1..n) = n
  BY <1>1, FS_Interval
<1>5. o \in Surjection(1..n, S)
  BY <1>3, <1>4, FS_Injection DEF n
<1> QED
  BY <1>5 DEF Surjection

(* A call to insert that succeeds has inserted.                            *)
LEMMA CalledInserts ==
  ASSUME NEW metas, NEW m \in Managers(metas), NEW c \in Calls, c.op = "insert",
         NEW o \in Called(m, c), o.status = "ok"
  PROVE  LET name == c.meta.name
             key == KeyOf(c.row, c.meta)
         IN
         /\ m[name] \in IndexTypes /\ key \in Seq(Values)
         /\ \E p \in Inserts(m[name], key, c.id) : p.ok /\ o.manager[name] = p.index
<1> DEFINE name == c.meta.name
           ix == m[name]
<1>1. DOMAIN m = DOMAIN metas /\ \A n \in DOMAIN metas : m[n] \in IndexTypes
  BY DEF Managers
<1>2. FieldsOk(c.meta) /\ name \in DOMAIN m
  BY DEF Called, Managed, After
<1>3. PICK p \in Outcomes(ix, c) :
        o = After(IF p.ok THEN "ok" ELSE "failure", Put(m, name, p.index))
  BY DEF Called, Managed, After
<1>4. p.ok /\ o.manager[name] = p.index
  BY <1>2, <1>3 DEF After, Put
<1>5. p \in Inserts(ix, KeyOf(c.row, c.meta), c.id)
  BY <1>3 DEF Outcomes
<1>6. KeyOf(c.row, c.meta) \in Seq(Values)
  BY <1>2, CallFacts, KeyTyped
<1> QED
  BY <1>1, <1>2, <1>4, <1>5, <1>6

(* The keys of the rows that are stored.                                   *)
RowKey(id, meta) == KeyOf(entity_map[id], meta)
RowKeys(meta) == {RowKey(id, meta) : id \in DOMAIN entity_map}

(* The index lists these ids and no other, each once; and, if the keys are *)
(* comparable, under the key of its row.                                   *)
ListsEach(ix, ids) == \A x : IF x \in ids THEN ListedOnce(ix.entries, x) ELSE ~Lists(ix, x)
ListsUnderOwn(ix, meta) ==
  /\ KeysHeld(ix.entries) \subseteq RowKeys(meta)
  /\ \A x \in DOMAIN entity_map : KeysOf(ix.entries, x) \subseteq {RowKey(x, meta)}

(* One more row.                                                           *)
LEMMA RowInserted ==
  ASSUME NEW meta, NEW ix \in IndexTypes, NEW id \in Ids, id \in DOMAIN entity_map,
         RowKey(id, meta) \in Seq(Values), NEW o \in Inserts(ix, RowKey(id, meta), id), o.ok
  PROVE  /\ \A ids : id \notin ids /\ ListsEach(ix, ids) => ListsEach(o.index, ids \cup {id})
         /\ Comparable(RowKeys(meta)) /\ ListsUnderOwn(ix, meta) => ListsUnderOwn(o.index, meta)
<1> DEFINE key == RowKey(id, meta)
<1>1. key \in RowKeys(meta)
  BY DEF RowKeys
<1> HIDE DEF key
<1>2. key \in Seq(Values) /\ o \in Inserts(ix, key, id)
  BY DEF key
<1>3. OthersIn(ix.entries, o.index.entries, id)
  BY <1>2, InsertsTouch DEF Touches
<1>4. \A j, x : Lists(j, x) <=> KeysOf(j.entries, x) # {}
  BY DEF Lists, KeysOf
<1>5. \A x : x # id => (Lists(o.index, x) <=> Lists(ix, x))
  BY <1>3, <1>4 DEF OthersIn
<1>6. /\ ~Lists(ix, id) => ListedOnce(o.index.entries, id)
      /\ \A x : x # id /\ ListedOnce(ix.entries, x) => ListedOnce(o.index.entries, x)
  BY <1>2, InsertsOnce
<1>7. ASSUME NEW ids, id \notin ids, ListsEach(ix, ids) PROVE ListsEach(o.index, ids \cup {id})
  BY <1>5, <1>6, <1>7 DEF ListsEach
<1>8. ASSUME Comparable(RowKeys(meta)), ListsUnderOwn(ix, meta) PROVE ListsUnderOwn(o.index, meta)
  <2>1. Alike(ix.entries, key)
    BY <1>1, <1>8 DEF Alike, Comparable, ListsUnderOwn, KeysHeld
  <2>2. /\ KeysHeld(o.index.entries) \subseteq KeysHeld(ix.entries) \cup {key}
        /\ KeysOf(o.index.entries, id) \subseteq KeysOf(ix.entries, id) \cup {key}
    BY <1>2, <2>1, InsertsReach
  <2>3. KeysHeld(o.index.entries) \subseteq RowKeys(meta)
    BY <1>1, <1>8, <2>2 DEF ListsUnderOwn
  <2>4. \A x \in DOMAIN entity_map : KeysOf(o.index.entries, x) \subseteq {RowKey(x, meta)}
    BY <1>3, <1>8, <2>2 DEF ListsUnderOwn, OthersIn, key
  <2> QED
    BY <2>3, <2>4 DEF ListsUnderOwn
<1> QED
  BY <1>7, <1>8

(* A scan that ends well has listed every row, once, and nothing else.     *)
LEMMA ScanLists ==
  ASSUME Inv, NEW meta \in IndexMetas, meta.name \notin DOMAIN index_meta_map,
         NEW o \in Scan(meta, Put(indexes, meta.name, NewIndex(meta.kind, meta.unique))), o.status = "ok"
  PROVE  /\ o.manager[meta.name] \in IndexTypes
         /\ ListsEach(o.manager[meta.name], DOMAIN entity_map)
         /\ Comparable(RowKeys(meta)) => ListsUnderOwn(o.manager[meta.name], meta)
<1> DEFINE name == meta.name
           new == NewIndex(meta.kind, meta.unique)
           metas == Put(index_meta_map, name, meta)
           manager == Put(indexes, name, new)
           stored == DOMAIN entity_map
<1>1. manager \in Managers(metas) /\ name \in DOMAIN metas /\ manager[name] = new
  <2>1. manager \in Managers(metas) /\ name \in DOMAIN metas
    BY NewTables
  <2> QED
    BY <2>1 DEF Put
<1>2. PICK order \in Orders(stored) : o \in Loop([i \in DOMAIN order |-> InsertRow(meta, order[i])], manager)
  BY DEF Scan
<1>3. IsFiniteSet(stored) /\ stored \subseteq Ids
  <2>1. stored \subseteq Ids
    BY CollectionAssumption DEF Inv, HandedOut, Ids
  <2>2. IsFiniteSet(Ids)
    BY CollectionAssumption, FS_Interval DEF Ids
  <2> QED
    BY <2>1, <2>2, FS_Subset
<1> DEFINE calls == [i \in DOMAIN order |-> InsertRow(meta, order[i])]
           N == Len(order)
<1>4. N \in Nat /\ DOMAIN order = 1..N /\ \A i \in 1..N : order[i] \in stored
  BY <1>3, OrdersTyped
<1>5. calls \in Seq(Calls) /\ Len(calls) = N
  <2>1. calls \in Seq(Calls)
    BY ScanCalls
  <2>2. DOMAIN calls = 1..N
    BY <1>4
  <2> HIDE DEF calls, N
  <2> QED
    BY <1>4, <2>1, <2>2
<1>6. \A i \in 1..N : calls[i] = InsertRow(meta, order[i])
  BY <1>4
<1> HIDE DEF calls, N, metas, manager
<1> DEFINE Seen(i) == {order[j] : j \in 1..i}
           Fine(i, r) == /\ ListsEach(r.manager[name], Seen(i))
                         /\ Comparable(RowKeys(meta)) => ListsUnderOwn(r.manager[name], meta)
           Set(i) == {r \in Results(metas) : r.status = "ok" => Fine(i, r)}
           Good == [i \in 0..N |-> Set(i)]
<1>7. After("ok", manager) \in Set(0)
  <2>1. After("ok", manager) \in Results(metas) /\ After("ok", manager).manager = manager
    BY <1>1 DEF After, Results, Statuses
  <2>2. new.entries = <<>> /\ DOMAIN <<>> = {} /\ Seen(0) = {}
    BY DEF NewIndex
  <2>3. ListsEach(new, {}) /\ ListsUnderOwn(new, meta)
    BY <2>2 DEF ListsEach, Lists, ListsUnderOwn, KeysHeld, KeysOf
  <2>4. Fine(0, After("ok", manager))
    BY <1>1, <2>1, <2>2, <2>3
  <2> HIDE DEF Fine
  <2> QED
    BY <2>1, <2>4
<1>8. ASSUME NEW i \in 1..N, NEW r \in Set(i - 1)
      PROVE  /\ r.status = "ok" => Called(r.manager, calls[i]) \subseteq Set(i)
             /\ r.status # "ok" => r \in Set(i)
  <2>1. CASE r.status # "ok"
    BY <2>1
  <2>2. ASSUME r.status = "ok", NEW p \in Called(r.manager, calls[i]) PROVE p \in Set(i)
    <3> DEFINE c == calls[i]
               id == order[i]
    <3>1. c \in Calls /\ c.op = "insert" /\ c.meta = meta /\ c.id = id /\ c.row = entity_map[id]
      <4>1. calls[i] \in Calls
        BY <1>5
      <4>2. c = InsertRow(meta, id)
        BY <1>6
      <4>3. LET d == InsertRow(meta, id) IN
              d.op = "insert" /\ d.meta = meta /\ d.id = id /\ d.row = entity_map[id]
        BY DEF InsertRow, Call
      <4> HIDE DEF id
      <4> QED
        BY <4>1, <4>2, <4>3
    <3>2. p \in Called(r.manager, c) /\ r.manager \in Managers(metas)
      BY DEF Results
    <3>3. Fine(i - 1, r)
      BY <2>2
    <3>4. id \in stored /\ id \in Ids
      BY <1>3, <1>4
    <3>5. id \notin Seen(i - 1) /\ Seen(i) = Seen(i - 1) \cup {id}
      <4>1. \A j \in 1..(i - 1) : j \in 1..N /\ j # i
        BY <1>4
      <4>2. \A j \in 1..N : order[j] = order[i] => j = i
        BY <1>2, <1>4 DEF Orders
      <4>3. 1..i = 1..(i - 1) \cup {i}
        BY <1>4
      <4> QED
        BY <4>1, <4>2, <4>3
    <3> HIDE DEF c, Fine
    <3>6. p \in Results(metas)
      BY <3>1, <3>2, CalledFacts
    <3>7. ASSUME p.status = "ok" PROVE Fine(i, p)
      <4>1. /\ r.manager[c.meta.name] \in IndexTypes /\ KeyOf(c.row, c.meta) \in Seq(Values)
            /\ \E q \in Inserts(r.manager[c.meta.name], KeyOf(c.row, c.meta), c.id) :
                 q.ok /\ p.manager[c.meta.name] = q.index
        BY <3>1, <3>2, <3>7, CalledInserts
      <4>2. /\ r.manager[name] \in IndexTypes /\ RowKey(id, meta) \in Seq(Values)
            /\ \E q \in Inserts(r.manager[name], RowKey(id, meta), id) : q.ok /\ p.manager[name] = q.index
        BY <3>1, <4>1 DEF RowKey
      <4>3. PICK q \in Inserts(r.manager[name], RowKey(id, meta), id) : q.ok /\ p.manager[name] = q.index
        BY <4>2
      <4> HIDE DEF id, name, Seen
      <4> DEFINE ix == r.manager[name]
      <4>4. ix \in IndexTypes /\ q \in Inserts(ix, RowKey(id, meta), id) /\ q.ok
        BY <4>2, <4>3
      <4> HIDE DEF ix
      <4>5. /\ \A ids : id \notin ids /\ ListsEach(ix, ids) => ListsEach(q.index, ids \cup {id})
            /\ Comparable(RowKeys(meta)) /\ ListsUnderOwn(ix, meta) => ListsUnderOwn(q.index, meta)
        BY <3>4, <4>2, <4>4, RowInserted
      <4> QED
        BY <3>3, <3>5, <4>3, <4>5 DEF Fine, ix
    <3> QED
      BY <3>6, <3>7
  <2> HIDE DEF Set
  <2> QED
    BY <2>1, <2>2
<1>9. o \in Set(N)
  <2> HIDE DEF Set
  <2>1. \A i \in 0..N : Good[i] = Set(i)
    OBVIOUS
  <2>2. \A i \in 1..N : i - 1 \in 0..N /\ i \in 0..N
    BY <1>4
  <2>3. 0 \in 0..N /\ N \in 0..N
    BY <1>4
  <2> HIDE DEF Good
  <2>4. \A i \in 1..N : \A r \in Good[i - 1] :
          /\ r.status = "ok" => Called(r.manager, calls[i]) \subseteq Good[i]
          /\ r.status # "ok" => r \in Good[i]
    BY <1>8, <2>1, <2>2
  <2>5. After("ok", manager) \in Good[0]
    BY <1>7, <2>1, <2>3
  <2>6. Loop(calls, manager) \subseteq Good[Len(calls)]
    BY <1>4, <1>5, <2>4, <2>5, LoopReaches
  <2>7. o \in Loop(calls, manager)
    BY <1>2 DEF calls, manager
  <2> QED
    BY <1>5, <2>1, <2>3, <2>6, <2>7
<1>10. Seen(N) = stored
  <2>1. \A x \in stored : \E i \in DOMAIN order : order[i] = x
    BY <1>3, OrdersReach
  <2> QED
    BY <1>4, <2>1
<1>11. o.manager[name] \in IndexTypes
  BY <1>1, <1>9 DEF Results, Managers
<1> QED
  BY <1>9, <1>10, <1>11

(* When create_index returns true, the index lists every stored row once,  *)
(* whatever order the rows were scanned in, and no other id.               *)
THEOREM CreatedAlwaysListsRows == Spec => CreatedIndexListsRows
<1> DEFINE Listed == answer'.op = "create_index" /\ answer'.status = "ok" =>
        LET index == indexes'[answer'.name]
            meta == index_meta_map'[answer'.name]
        IN
        /\ \A id \in Ids : Count(index, id) = IF id \in DOMAIN entity_map THEN 1 ELSE 0
        /\ Comparable({KeyOf(entity_map[id], meta) : id \in DOMAIN entity_map}) =>
             \A i \in DOMAIN index.entries : \A id \in Range(index.entries[i].ids) :
               index.entries[i].key = KeyOf(entity_map[id], meta)
<1>1. ASSUME Inv, [Next]_vars PROVE [Listed]_vars
  <2> SUFFICES ASSUME Next, answer'.op = "create_index", answer'.status = "ok"
               PROVE  Listed
    BY <1>1
  <2>1. ~RowCalls
    BY RowCallAnswers
  <2>2. ASSUME NEW name, RemoveIndex(name) PROVE FALSE
    BY <2>2 DEF RemoveIndex, Refused, IndexCall, Answer
  <2>3. ASSUME NEW op \in {"on_insert", "on_remove", "on_update"}, NEW call, NEW list, NEW id, NEW old, NEW row,
               ForEach(op, call, id, old, row, list)
        PROVE  FALSE
    BY <2>3 DEF ForEach
  <2>4. PICK meta \in IndexMetas : CreateIndex(meta)
    BY <2>1, <2>2, <2>3, IndexCallsAre DEF Next
  <2> DEFINE name == meta.name
             manager == Put(indexes, name, NewIndex(meta.kind, meta.unique))
             metas == Put(index_meta_map, name, meta)
  <2>5. /\ name \notin DOMAIN index_meta_map
        /\ \E o \in Scan(meta, manager) :
             o.status = "ok" /\ IndexCall("create_index", 0, name, "ok", metas, o.manager)
    BY <2>4 DEF CreateIndex, Refused, CreateFailed, IndexCall, Answer
  <2>6. PICK o \in Scan(meta, manager) :
             o.status = "ok" /\ IndexCall("create_index", 0, name, "ok", metas, o.manager)
    BY <2>5
  <2>7. answer'.name = name /\ indexes' = o.manager /\ index_meta_map'[name] = meta
    BY <2>6 DEF IndexCall, Answer, Put
  <2> DEFINE ix == o.manager[name]
  <2>8. /\ ix \in IndexTypes /\ ListsEach(ix, DOMAIN entity_map)
        /\ Comparable(RowKeys(meta)) => ListsUnderOwn(ix, meta)
    BY <1>1, <2>5, <2>6, ScanLists
  <2>9. indexes'[answer'.name] = ix /\ index_meta_map'[answer'.name] = meta
    BY <2>7
  <2> HIDE DEF ix, manager, metas
  <2>10. ASSUME NEW id PROVE Count(ix, id) = IF id \in DOMAIN entity_map THEN 1 ELSE 0
    <3>1. CASE id \in DOMAIN entity_map
      BY <2>8, <3>1, CountOnce DEF ListsEach
    <3>2. CASE id \notin DOMAIN entity_map
      BY <2>8, <3>2, CountIs DEF ListsEach
    <3> QED
      BY <3>1, <3>2
  <2>11. ASSUME Comparable(RowKeys(meta)), NEW i \in DOMAIN ix.entries, NEW id \in Range(ix.entries[i].ids)
         PROVE  ix.entries[i].key = RowKey(id, meta)
    <3>1. id \in DOMAIN entity_map
      BY <2>8 DEF ListsEach, Lists
    <3>2. ix.entries[i].key \in KeysOf(ix.entries, id)
      BY DEF KeysOf
    <3> QED
      BY <2>8, <2>11, <3>1, <3>2 DEF ListsUnderOwn
  <2> QED
    BY <2>9, <2>10, <2>11 DEF RowKeys, RowKey
<1> QED
  BY <1>1, CollectionInvariant, PTL DEF Spec, CreatedIndexListsRows

=============================================================================
