---------------------------- MODULE IndexProofs -----------------------------
(***************************************************************************)
(* One index, for every number of ids, entries and fields of a key, and    *)
(* for every mixture of types in a field: what WellFormed and              *)
(* SearchesExact say of it holds, and it implements KeyedIds.              *)
(*                                                                         *)
(* Two keys are ordered, or equal, or neither less; that a key less than   *)
(* another is less than all the other is less than (LessChains) takes      *)
(* Sortable. Where it fails, a std::map may miss a key it holds, and what  *)
(* is proved of it is what it leaves alone.                                *)
(***************************************************************************)
EXTENDS Index, IndexOpsProofs

(* Two keys have the same fields, and differ where their values do.        *)
LEMMA KeyFacts ==
  ASSUME NEW a \in Keys, NEW b \in Keys
  PROVE  /\ Len(a) = Len(b) /\ DOMAIN a = 1..Len(a) /\ DOMAIN b = 1..Len(a) /\ Len(a) \in Nat
         /\ \A i \in 1..Len(a) : a[i].rank \in Int /\ b[i].rank \in Int
         /\ Differences(a, b) = {i \in 1..Len(a) : ValuesDiffer(a[i], b[i])}
<1> DEFINE T == [type : STRING, rank : Int, hash : Nat]
<1>1. a \in Seq(T) /\ b \in Seq(T) /\ Len(a) = Len(b)
  BY KeysAssumption
<1>2. DOMAIN a = 1..Len(a) /\ DOMAIN b = 1..Len(a) /\ Len(a) \in Nat
  BY <1>1
<1>3. \A i \in 1..Len(a) : a[i] \in T /\ b[i] \in T
  <2> HIDE DEF T
  <2> QED
    BY <1>1
<1>4. \A i \in 1..Len(a) : a[i].rank \in Int /\ b[i].rank \in Int
  BY <1>3
<1>5. Differences(a, b) = {i \in 1..Len(a) : ValuesDiffer(a[i], b[i])}
  BY <1>2 DEF Differences
<1> QED
  BY <1>1, <1>2, <1>4, <1>5

(* One key is less than another if the first value in which they differ is.*)
LEMMA LessIs ==
  ASSUME NEW a \in Keys, NEW b \in Keys
  PROVE  Less(a, b) <=> \E i \in 1..Len(a) :
                          /\ ValuesDiffer(a[i], b[i]) /\ a[i].rank < b[i].rank
                          /\ \A j \in 1..(i - 1) : ~ValuesDiffer(a[j], b[j])
<1>1. Less(a, b) <=> \E i \in Differences(a, b) : a[i].rank < b[i].rank /\ \A j \in Differences(a, b) : i <= j
  BY KeyFacts DEF Less
<1>2. ASSUME NEW i \in 1..Len(a)
      PROVE  (\A j \in Differences(a, b) : i <= j) <=> \A j \in 1..(i - 1) : ~ValuesDiffer(a[j], b[j])
  <2> DEFINE D == Differences(a, b)
  <2>1. Len(a) \in Nat
    BY KeyFacts
  <2>2. /\ \A j \in 1..Len(a) : j \in D <=> ValuesDiffer(a[j], b[j])
        /\ \A j \in D : j \in 1..Len(a)
    BY KeyFacts
  <2> HIDE DEF D
  <2>3. \A j \in 1..(i - 1) : j \in 1..Len(a) /\ ~(i <= j)
    BY <2>1
  <2>4. \A j \in 1..Len(a) : ~(i <= j) => j \in 1..(i - 1)
    BY <2>1
  <2> QED
    BY <2>2, <2>3, <2>4 DEF D
<1>3. Differences(a, b) = {i \in 1..Len(a) : ValuesDiffer(a[i], b[i])}
  BY KeyFacts
<1> QED
  BY <1>1, <1>2, <1>3

(* Of two keys one is less, or they are equal, and never both.             *)
LEMMA LessOrders ==
  ASSUME NEW a \in Keys, NEW b \in Keys
  PROVE  /\ Less(a, b) => ~Less(b, a)
         /\ Equal(a, b) <=> ~Less(a, b) /\ ~Less(b, a)
<1>1. /\ Len(a) = Len(b) /\ Len(a) \in Nat
      /\ \A n \in 1..Len(a) : a[n].rank \in Int /\ b[n].rank \in Int
  BY KeyFacts
<1>2. \A n : ValuesDiffer(a[n], b[n]) <=> ValuesDiffer(b[n], a[n])
  BY DEF ValuesDiffer
<1>3. \A n : ValuesDiffer(a[n], b[n]) => a[n].rank # b[n].rank
  BY DEF ValuesDiffer
<1>4. Less(a, b) => ~Less(b, a)
  <2> SUFFICES ASSUME Less(a, b), Less(b, a) PROVE FALSE
    OBVIOUS
  <2>1. PICK i \in 1..Len(a) : /\ ValuesDiffer(a[i], b[i]) /\ a[i].rank < b[i].rank
                               /\ \A j \in 1..(i - 1) : ~ValuesDiffer(a[j], b[j])
    BY LessIs
  <2>2. PICK k \in 1..Len(b) : /\ ValuesDiffer(b[k], a[k]) /\ b[k].rank < a[k].rank
                               /\ \A j \in 1..(k - 1) : ~ValuesDiffer(b[j], a[j])
    BY LessIs
  <2>3. CASE i < k
    <3>1. i \in 1..(k - 1)
      BY <1>1, <2>3
    <3> QED
      BY <1>2, <2>1, <2>2, <3>1
  <2>4. CASE k < i
    <3>1. k \in 1..(i - 1)
      BY <1>1, <2>4
    <3> QED
      BY <1>2, <2>1, <2>2, <3>1
  <2>5. CASE i = k
    BY <1>1, <2>1, <2>2, <2>5
  <2> QED
    BY <1>1, <2>3, <2>4, <2>5
<1>5. Less(a, b) \/ Less(b, a) => ~Equal(a, b)
  <2>1. Less(a, b) => ~Equal(a, b)
    BY <1>1 DEF Less, Equal
  <2>2. Differences(b, a) = Differences(a, b)
    BY <1>2 DEF Differences
  <2>3. Less(b, a) => ~Equal(a, b)
    BY <1>1, <2>2 DEF Less, Equal
  <2> QED
    BY <2>1, <2>3
<1>6. ~Equal(a, b) => Less(a, b) \/ Less(b, a)
  <2> SUFFICES ASSUME ~Equal(a, b) PROVE Less(a, b) \/ Less(b, a)
    OBVIOUS
  <2>1. Differences(a, b) # {} /\ Differences(a, b) \in SUBSET Nat
    BY <1>1, KeyFacts DEF Equal
  <2>2. PICK i \in Differences(a, b) : \A j \in Differences(a, b) : i <= j
    BY <2>1, LeastExists
  <2>3. i \in 1..Len(a) /\ ValuesDiffer(a[i], b[i])
    BY <2>2, KeyFacts
  <2>4. \A j \in 1..(i - 1) : ~ValuesDiffer(a[j], b[j])
    <3> SUFFICES ASSUME NEW j \in 1..(i - 1), ValuesDiffer(a[j], b[j]) PROVE FALSE
      OBVIOUS
    <3>1. j \in 1..Len(a) /\ ~(i <= j)
      BY <1>1, <2>3
    <3>2. j \in Differences(a, b)
      BY <3>1, KeyFacts
    <3> QED
      BY <2>2, <3>1, <3>2
  <2>5. a[i].rank < b[i].rank \/ b[i].rank < a[i].rank
    BY <1>1, <1>3, <2>3
  <2>6. CASE a[i].rank < b[i].rank
    BY <2>3, <2>4, <2>6, LessIs
  <2>7. CASE b[i].rank < a[i].rank
    <3>1. i \in 1..Len(b) /\ ValuesDiffer(b[i], a[i]) /\ \A j \in 1..(i - 1) : ~ValuesDiffer(b[j], a[j])
      BY <1>1, <1>2, <2>3, <2>4
    <3> QED
      BY <2>7, <3>1, LessIs
  <2> QED
    BY <2>5, <2>6, <2>7
<1> QED
  BY <1>4, <1>5, <1>6

(* Where all fields but the last are of one type, the order of the keys is *)
(* transitive.                                                             *)
LEMMA LessChains ==
  ASSUME Sortable, NEW a \in Keys, NEW b \in Keys, NEW c \in Keys, Less(a, b), Less(b, c)
  PROVE  Less(a, c)
<1> DEFINE Differs(x, y, n) == ValuesDiffer(x[n], y[n])
<1>1. PICK i \in 1..Len(a) : /\ Differs(a, b, i) /\ a[i].rank < b[i].rank
                             /\ \A j \in 1..(i - 1) : ~Differs(a, b, j)
  BY LessIs
<1>2. PICK k \in 1..Len(b) : /\ Differs(b, c, k) /\ b[k].rank < c[k].rank
                             /\ \A j \in 1..(k - 1) : ~Differs(b, c, j)
  BY LessIs
<1>3. /\ Len(a) = Len(b) /\ Len(b) = Len(c) /\ Len(a) \in Nat
      /\ \A n \in 1..Len(a) : a[n].rank \in Int /\ b[n].rank \in Int /\ c[n].rank \in Int
  BY KeyFacts
<1>4. ASSUME NEW n \in 1..Len(a), n < Len(a)
      PROVE  /\ Differs(a, b, n) <=> a[n].rank # b[n].rank
             /\ Differs(b, c, n) <=> b[n].rank # c[n].rank
             /\ Differs(a, c, n) <=> a[n].rank # c[n].rank
  <2>1. n \in DOMAIN a /\ n \in DOMAIN b /\ n < Len(b)
    BY <1>3, <1>4, KeyFacts
  <2>2. a[n].type = b[n].type /\ b[n].type = c[n].type
    BY <1>4, <2>1 DEF Sortable
  <2> QED
    BY <2>2 DEF ValuesDiffer
<1>5. \A n : Differs(a, b, n) => a[n].type = b[n].type
  BY DEF ValuesDiffer
<1>6. \A n : Differs(b, c, n) => b[n].type = c[n].type
  BY DEF ValuesDiffer
<1>7. \A n : a[n].type = c[n].type /\ a[n].rank # c[n].rank => Differs(a, c, n)
  BY DEF ValuesDiffer
<1> HIDE DEF Differs
<1>8. SUFFICES \E n \in 1..Len(a) : /\ Differs(a, c, n) /\ a[n].rank < c[n].rank
                                    /\ \A j \in 1..(n - 1) : ~Differs(a, c, j)
  BY LessIs DEF Differs
<1>9. CASE i < k
  <2>1. \A j \in 1..i : j \in 1..Len(a) /\ j < Len(a) /\ j \in 1..(k - 1)
    BY <1>3, <1>9
  <2>2. \A j \in 1..i : b[j].rank = c[j].rank
    BY <1>2, <1>4, <2>1
  <2>3. \A j \in 1..(i - 1) : j \in 1..i /\ a[j].rank = b[j].rank
    BY <1>1, <1>3, <1>4, <2>1
  <2>4. i \in 1..i
    BY <1>3
  <2> QED
    BY <1>1, <1>3, <1>4, <2>1, <2>2, <2>3, <2>4
<1>10. CASE k < i
  <2>1. \A j \in 1..k : j \in 1..Len(a) /\ j < Len(a) /\ j \in 1..(i - 1)
    BY <1>3, <1>10
  <2>2. \A j \in 1..k : a[j].rank = b[j].rank
    BY <1>1, <1>4, <2>1
  <2>3. \A j \in 1..(k - 1) : j \in 1..k /\ b[j].rank = c[j].rank
    BY <1>2, <1>3, <1>4, <2>1
  <2>4. k \in 1..k /\ k \in 1..Len(a)
    BY <1>3
  <2> QED
    BY <1>2, <1>3, <1>4, <2>1, <2>2, <2>3, <2>4
<1>11. CASE i = k
  <2>1. \A j \in 1..(i - 1) : j \in 1..Len(a) /\ j < Len(a)
    BY <1>3
  <2>2. \A j \in 1..(i - 1) : a[j].rank = b[j].rank /\ b[j].rank = c[j].rank
    BY <1>1, <1>2, <1>4, <1>11, <2>1
  <2>3. \A j \in 1..(i - 1) : ~Differs(a, c, j)
    BY <1>4, <2>1, <2>2
  <2>4. a[i].rank < c[i].rank /\ a[i].type = c[i].type
    BY <1>1, <1>2, <1>3, <1>5, <1>6, <1>11
  <2>5. Differs(a, c, i)
    <3>1. a[i].rank \in Int /\ c[i].rank \in Int
      BY <1>3, <1>5
    <3>2. a[i].rank # c[i].rank
      BY <2>4, <3>1
    <3> QED
      BY <1>3, <1>7, <2>4, <3>2
  <2> QED
    BY <2>3, <2>4, <2>5
<1> QED
  BY <1>3, <1>9, <1>10, <1>11

(* A key matches itself, a match goes both ways, and in a tree it is that  *)
(* neither key is less.                                                    *)
LEMMA MatchIs ==
  ASSUME NEW kind \in Kinds, NEW a \in Keys, NEW b \in Keys
  PROVE  /\ Matches(kind, a, a)
         /\ Matches(kind, a, b) => Matches(kind, b, a)
         /\ kind = "BTREE" => (Matches(kind, a, b) <=> ~Less(a, b) /\ ~Less(b, a))
<1>1. ~Less(a, a)
  BY LessOrders
<1>2. Equal(a, a)
  BY <1>1, LessOrders
<1>3. Equal(a, b) => Equal(b, a)
  BY LessOrders
<1> QED
  BY <1>2, <1>3, LessOrders DEF Matches

-----------------------------------------------------------------------------

(* The lists of ids of an entry.                                           *)
Lists == Seq(Ids) \ {<<>>}

(* No two entries match, and those of a tree are in the order of its keys. *)
Ordered(kind, es) ==
  \A i, j \in DOMAIN es : i < j =>
    /\ ~Matches(kind, es[i].key, es[j].key)
    /\ kind = "BTREE" => Less(es[i].key, es[j].key)

(* The inductive invariant, of any index.                                  *)
IsIndex(ix) ==
  /\ ix = [kind |-> ix.kind, unique |-> ix.unique, entries |-> ix.entries]
  /\ ix.kind \in Kinds /\ ix.unique \in BOOLEAN
  /\ ix.entries \in Seq(Entries)
  /\ Reliable(ix.kind) =>
       /\ Ordered(ix.kind, ix.entries)
       /\ ix.unique => \A i \in DOMAIN ix.entries : Len(ix.entries[i].ids) = 1

(* The index holds a key that matches.                                     *)
HasMatch(kind, es, key) == \E i \in DOMAIN es : Matches(kind, es[i].key, key)

LEMMA EntryFacts ==
  ASSUME NEW es \in Seq(Entries)
  PROVE  /\ DOMAIN es = 1..Len(es) /\ Len(es) \in Nat
         /\ \A i \in DOMAIN es : /\ es[i] \in Entries
                                 /\ es[i].key \in Keys /\ es[i].ids \in Lists
                                 /\ es[i] = [key |-> es[i].key, ids |-> es[i].ids]
<1>1. \A i \in 1..Len(es) : es[i] \in Entries
  OBVIOUS
<1> QED
  BY <1>1 DEF Entries, Lists

(* An index with other entries is still the record of an index.            *)
LEMMA WithEntries ==
  ASSUME NEW ix, IsIndex(ix), NEW e
  PROVE  [ix EXCEPT !.entries = e] = [kind |-> ix.kind, unique |-> ix.unique, entries |-> e]
BY DEF IsIndex

(* Entry i with another list, and a new entry.                             *)
Relisted(es, i, ids) == [es EXCEPT ![i].ids = ids]

NewEntry(key, ids) == [key |-> key, ids |-> ids]

(* A new list in an entry leaves the rest of the entries.                  *)
LEMMA JoinFacts ==
  ASSUME NEW es \in Seq(Entries), NEW i \in DOMAIN es, NEW ids \in Lists
  PROVE  LET f == Relisted(es, i, ids) IN
         /\ f = [es EXCEPT ![i] = NewEntry(es[i].key, ids)]
         /\ f \in Seq(Entries) /\ Len(f) = Len(es) /\ DOMAIN f = DOMAIN es
         /\ \A j \in DOMAIN es : f[j].key = es[j].key /\ f[j].ids = IF j = i THEN ids ELSE es[j].ids
<1> DEFINE e == NewEntry(es[i].key, ids)
           f == [es EXCEPT ![i] = e]
<1>1. e = [es[i] EXCEPT !.ids = ids]
  BY EntryFacts DEF NewEntry
<1>2. e \in Entries /\ e.key = es[i].key /\ e.ids = ids
  BY EntryFacts DEF Entries, Lists, NewEntry
<1>3. Relisted(es, i, ids) = f
  BY <1>1 DEF Relisted
<1> HIDE DEF e
<1>4. f \in Seq(Entries) /\ Len(f) = Len(es) /\ DOMAIN f = DOMAIN es
  BY <1>2
<1>5. \A j \in DOMAIN es : f[j] = IF j = i THEN e ELSE es[j]
  OBVIOUS
<1>6. \A j \in DOMAIN es : f[j].key = es[j].key /\ f[j].ids = IF j = i THEN ids ELSE es[j].ids
  <2> HIDE DEF f
  <2> QED
    BY <1>2, <1>5
<1> QED
  BY <1>3, <1>4, <1>6 DEF e

(* A new list in an entry keeps the order.                                 *)
LEMMA JoinOrdered ==
  ASSUME NEW kind, NEW es \in Seq(Entries), Ordered(kind, es), NEW i \in DOMAIN es, NEW ids \in Lists
  PROVE  Ordered(kind, Relisted(es, i, ids))
<1> DEFINE f == Relisted(es, i, ids)
<1>1. DOMAIN f = DOMAIN es /\ \A j \in DOMAIN es : f[j].key = es[j].key
  BY JoinFacts
<1> HIDE DEF f
<1>2. Ordered(kind, f)
  BY <1>1 DEF Ordered
<1> QED
  BY <1>2 DEF f

(* Where a new key goes in the order of a tree.                            *)
Fits(kind, es, i, key) ==
  kind = "BTREE" => /\ \A j \in DOMAIN es : j < i => Less(es[j].key, key)
                    /\ \A j \in DOMAIN es : j >= i => Less(key, es[j].key)

(* A new entry is the only one that is not one of before.                  *)
LEMMA NewFacts ==
  ASSUME NEW es \in Seq(Entries), NEW i \in 1..Len(es) + 1, NEW e \in Entries
  PROVE  LET f == Seqs!InsertAt(es, i, e) IN
         /\ f \in Seq(Entries)
         /\ \A n \in DOMAIN f : f[n] = e \/ \E m \in DOMAIN es : f[n] = es[m]
<1> DEFINE f == Seqs!InsertAt(es, i, e)
           N == Len(es)
<1>1. f \in Seq(Entries) /\ Len(f) = N + 1
      /\ \A j \in 1..N + 1 : f[j] = IF j < i THEN es[j] ELSE IF j = i THEN e ELSE es[j - 1]
  BY InsertAtFacts
<1>2. DOMAIN es = 1..N /\ N \in Nat /\ DOMAIN f = 1..N + 1 /\ i \in 1..N + 1
  BY <1>1, EntryFacts
<1> HIDE DEF f, N
<1>3. ASSUME NEW n \in DOMAIN f PROVE f[n] = e \/ \E m \in DOMAIN es : f[n] = es[m]
  <2>1. CASE n < i
    <3>1. n \in DOMAIN es /\ f[n] = es[n]
      BY <1>1, <1>2, <2>1
    <3> QED
      BY <3>1
  <2>2. CASE n = i
    BY <1>1, <1>2, <2>2
  <2>3. CASE n > i
    <3>1. n - 1 \in DOMAIN es /\ f[n] = es[n - 1]
      BY <1>1, <1>2, <2>3
    <3> QED
      BY <3>1
  <2> QED
    BY <1>2, <2>1, <2>2, <2>3
<1> QED
  BY <1>1, <1>3 DEF f

(* A new entry that matches none, in the place that fits, keeps the order. *)
LEMMA NewOrdered ==
  ASSUME NEW kind \in Kinds, NEW es \in Seq(Entries), Ordered(kind, es), NEW i \in 1..Len(es) + 1,
         NEW key \in Keys, NEW ids \in Lists, ~HasMatch(kind, es, key), Fits(kind, es, i, key)
  PROVE  Ordered(kind, Seqs!InsertAt(es, i, NewEntry(key, ids)))
<1> DEFINE e == NewEntry(key, ids)
           f == Seqs!InsertAt(es, i, e)
           Old(j) == IF j < i THEN j ELSE j - 1
           N == Len(es)
<1>1. e \in Entries /\ e.key = key
  BY DEF Entries, Lists, NewEntry
<1> HIDE DEF e
<1>2. f \in Seq(Entries) /\ Len(f) = N + 1
      /\ \A j \in 1..N + 1 : f[j] = IF j < i THEN es[j] ELSE IF j = i THEN e ELSE es[j - 1]
  BY <1>1, InsertAtFacts
<1>3. DOMAIN es = 1..N /\ N \in Nat /\ DOMAIN f = 1..N + 1 /\ i \in 1..N + 1
  BY <1>2, EntryFacts
<1> HIDE DEF f, N
<1>4. ASSUME NEW j \in 1..N + 1, j # i PROVE Old(j) \in 1..N /\ f[j] = es[Old(j)]
  BY <1>2, <1>3, <1>4
<1>5. f[i] = e
  BY <1>2, <1>3
<1>6. \A j \in DOMAIN es : ~Matches(kind, es[j].key, key) /\ ~Matches(kind, key, es[j].key)
  <2> TAKE j \in DOMAIN es
  <2>1. es[j].key \in Keys /\ ~Matches(kind, es[j].key, key)
    BY EntryFacts DEF HasMatch
  <2> QED
    BY <2>1, MatchIs
<1>7. ASSUME NEW a \in 1..N + 1, NEW b \in 1..N + 1, a < b
      PROVE  ~Matches(kind, f[a].key, f[b].key) /\ (kind = "BTREE" => Less(f[a].key, f[b].key))
  <2>1. CASE a = i
    <3>1. b # i /\ Old(b) >= i
      BY <1>3, <1>7, <2>1
    <3>2. f[b] = es[Old(b)] /\ Old(b) \in DOMAIN es
      BY <1>3, <1>4, <3>1
    <3> HIDE DEF Old
    <3> QED
      BY <1>1, <1>5, <1>6, <2>1, <3>1, <3>2 DEF Fits
  <2>2. CASE b = i
    <3>1. a # i /\ Old(a) < i
      BY <1>3, <1>7, <2>2
    <3>2. f[a] = es[Old(a)] /\ Old(a) \in DOMAIN es
      BY <1>3, <1>4, <3>1
    <3> HIDE DEF Old
    <3> QED
      BY <1>1, <1>5, <1>6, <2>2, <3>1, <3>2 DEF Fits
  <2>3. CASE a # i /\ b # i
    <3>1. Old(a) < Old(b)
      BY <1>3, <1>7, <2>3
    <3>2. f[a] = es[Old(a)] /\ Old(a) \in DOMAIN es /\ f[b] = es[Old(b)] /\ Old(b) \in DOMAIN es
      BY <1>3, <1>4, <2>3
    <3> HIDE DEF Old
    <3> QED
      BY <3>1, <3>2 DEF Ordered
  <2> QED
    BY <2>1, <2>2, <2>3
<1>8. Ordered(kind, f)
  BY <1>3, <1>7 DEF Ordered
<1> QED
  BY <1>8 DEF f, e

(* What is left when an entry is taken away are the others.                *)
LEMMA RemovedFacts ==
  ASSUME NEW es \in Seq(Entries), NEW i \in DOMAIN es
  PROVE  LET f == Seqs!RemoveAt(es, i) IN
         /\ f \in Seq(Entries) /\ Len(f) = Len(es) - 1
         /\ \A n \in DOMAIN f : \E m \in DOMAIN es : m # i /\ f[n] = es[m]
<1> DEFINE f == Seqs!RemoveAt(es, i)
           N == Len(es)
<1>1. i \in 1..N /\ f \in Seq(Entries) /\ Len(f) = N - 1
      /\ \A j \in 1..N - 1 : f[j] = IF j < i THEN es[j] ELSE es[j + 1]
  BY RemoveAtFacts, EntryFacts
<1>2. DOMAIN es = 1..N /\ N \in Nat /\ DOMAIN f = 1..N - 1 /\ i \in 1..N
  BY <1>1, EntryFacts
<1> HIDE DEF f, N
<1>3. ASSUME NEW n \in DOMAIN f PROVE \E m \in DOMAIN es : m # i /\ f[n] = es[m]
  <2>1. CASE n < i
    <3>1. n \in DOMAIN es /\ n # i /\ f[n] = es[n]
      BY <1>1, <1>2, <2>1
    <3> QED
      BY <3>1
  <2>2. CASE ~(n < i)
    <3>1. n + 1 \in DOMAIN es /\ n + 1 # i /\ f[n] = es[n + 1]
      BY <1>1, <1>2, <2>2
    <3> QED
      BY <3>1
  <2> QED
    BY <2>1, <2>2
<1> QED
  BY <1>1, <1>3 DEF f, N

(* Taking an entry away keeps the order.                                   *)
LEMMA RemovedOrdered ==
  ASSUME NEW kind, NEW es \in Seq(Entries), Ordered(kind, es), NEW i \in DOMAIN es
  PROVE  Ordered(kind, Seqs!RemoveAt(es, i))
<1> DEFINE f == Seqs!RemoveAt(es, i)
           Old(j) == IF j < i THEN j ELSE j + 1
           N == Len(es)
<1>1. i \in 1..N /\ f \in Seq(Entries) /\ Len(f) = N - 1
      /\ \A j \in 1..N - 1 : f[j] = IF j < i THEN es[j] ELSE es[j + 1]
  BY RemoveAtFacts, EntryFacts
<1>2. DOMAIN es = 1..N /\ N \in Nat /\ DOMAIN f = 1..N - 1 /\ i \in 1..N
  BY <1>1, EntryFacts
<1> HIDE DEF f, N
<1>3. ASSUME NEW j \in 1..N - 1 PROVE Old(j) \in 1..N /\ f[j] = es[Old(j)]
  BY <1>1, <1>2
<1>4. ASSUME NEW a \in 1..N - 1, NEW b \in 1..N - 1, a < b
      PROVE  ~Matches(kind, f[a].key, f[b].key) /\ (kind = "BTREE" => Less(f[a].key, f[b].key))
  <2>1. Old(a) < Old(b)
    BY <1>2, <1>4
  <2>2. f[a] = es[Old(a)] /\ Old(a) \in DOMAIN es /\ f[b] = es[Old(b)] /\ Old(b) \in DOMAIN es
    BY <1>2, <1>3
  <2> HIDE DEF Old
  <2> QED
    BY <2>1, <2>2 DEF Ordered
<1>5. Ordered(kind, f)
  BY <1>2, <1>4 DEF Ordered
<1> QED
  BY <1>5 DEF f

-----------------------------------------------------------------------------

(* lower_bound: what is before it is less than the key, what is not before *)
(* it is not, on every tree that is in order.                              *)
LEMMA LowerBoundSplits ==
  ASSUME Sortable, NEW es \in Seq(Entries), Ordered("BTREE", es), NEW key \in Keys,
         NEW i \in LowerBounds(es, key)
  PROVE  /\ i \in 1..Len(es) + 1
         /\ \A j \in DOMAIN es : j < i <=> Less(es[j].key, key)
<1>1. /\ i \in 1..Len(es) + 1
      /\ i > 1 => Less(es[i - 1].key, key)
      /\ i <= Len(es) => ~Less(es[i].key, key)
  BY BoundsAre
<1>2. DOMAIN es = 1..Len(es) /\ Len(es) \in Nat /\ \A j \in DOMAIN es : es[j].key \in Keys
  BY EntryFacts
<1>3. ASSUME NEW j \in DOMAIN es, j < i PROVE Less(es[j].key, key)
  <2>1. i - 1 \in DOMAIN es /\ Less(es[i - 1].key, key) /\ (j = i - 1 \/ j < i - 1)
    BY <1>1, <1>2, <1>3
  <2>2. CASE j < i - 1
    <3>1. Less(es[j].key, es[i - 1].key)
      BY <2>1, <2>2 DEF Ordered
    <3> QED
      BY <1>2, <2>1, <3>1, LessChains
  <2> QED
    BY <2>1, <2>2
<1>4. ASSUME NEW j \in DOMAIN es, ~(j < i), Less(es[j].key, key) PROVE FALSE
  <2>1. i \in DOMAIN es /\ ~Less(es[i].key, key) /\ (i = j \/ i < j)
    BY <1>1, <1>2, <1>4
  <2>2. CASE i < j
    <3>1. Less(es[i].key, es[j].key)
      BY <2>1, <2>2 DEF Ordered
    <3> QED
      BY <1>2, <1>4, <2>1, <3>1, LessChains
  <2> QED
    BY <1>4, <2>1, <2>2
<1> QED
  BY <1>1, <1>3, <1>4

(* upper_bound: what is before it is not greater than the key, what is not *)
(* before it is.                                                           *)
LEMMA UpperBoundSplits ==
  ASSUME Sortable, NEW es \in Seq(Entries), Ordered("BTREE", es), NEW key \in Keys,
         NEW i \in UpperBounds(es, key)
  PROVE  /\ i \in 1..Len(es) + 1
         /\ \A j \in DOMAIN es : j < i <=> ~Less(key, es[j].key)
<1>1. /\ i \in 1..Len(es) + 1
      /\ i > 1 => ~Less(key, es[i - 1].key)
      /\ i <= Len(es) => Less(key, es[i].key)
  BY BoundsAre
<1>2. DOMAIN es = 1..Len(es) /\ Len(es) \in Nat /\ \A j \in DOMAIN es : es[j].key \in Keys
  BY EntryFacts
<1>3. ASSUME NEW j \in DOMAIN es, j < i, Less(key, es[j].key) PROVE FALSE
  <2>1. i - 1 \in DOMAIN es /\ ~Less(key, es[i - 1].key) /\ (j = i - 1 \/ j < i - 1)
    BY <1>1, <1>2, <1>3
  <2>2. CASE j < i - 1
    <3>1. Less(es[j].key, es[i - 1].key)
      BY <2>1, <2>2 DEF Ordered
    <3> QED
      BY <1>2, <1>3, <2>1, <3>1, LessChains
  <2> QED
    BY <1>3, <2>1, <2>2
<1>4. ASSUME NEW j \in DOMAIN es, ~(j < i) PROVE Less(key, es[j].key)
  <2>1. i \in DOMAIN es /\ Less(key, es[i].key) /\ (i = j \/ i < j)
    BY <1>1, <1>2, <1>4
  <2>2. CASE i < j
    <3>1. Less(es[i].key, es[j].key)
      BY <2>1, <2>2 DEF Ordered
    <3> QED
      BY <1>2, <2>1, <3>1, LessChains
  <2> QED
    BY <2>1, <2>2
<1> QED
  BY <1>1, <1>3, <1>4

(* A descent of the tree ends somewhere: at the first entry that is not    *)
(* less, or that is greater.                                               *)
LEMMA BoundsExist ==
  ASSUME NEW es \in Seq(Entries), NEW key
  PROVE  LowerBounds(es, key) # {} /\ UpperBounds(es, key) # {}
<1> DEFINE N == Len(es)
           From(P) == {i \in 1..N + 1 : i <= N => i \in P}
<1>1. N \in Nat
  BY EntryFacts
<1>2. ASSUME NEW P
      PROVE  \E i \in 1..N + 1 : (i <= N => i \in P) /\ (i > 1 => i - 1 \notin P)
  <2>1. From(P) \in SUBSET Nat /\ N + 1 \in From(P)
    BY <1>1
  <2>2. PICK i \in From(P) : \A j \in From(P) : i <= j
    <3> HIDE DEF From
    <3> QED
      BY <2>1, LeastExists
  <2>3. i > 1 => i - 1 \notin P
    <3>1. i - 1 \notin From(P)
      BY <1>1, <2>2
    <3> QED
      BY <1>1, <2>2, <3>1
  <2> QED
    BY <2>2, <2>3
<1> HIDE DEF From
<1>3. LowerBounds(es, key) # {}
  <2> DEFINE P == {i \in 1..N : ~Less(es[i].key, key)}
  <2>1. PICK i \in 1..N + 1 : (i <= N => i \in P) /\ (i > 1 => i - 1 \notin P)
    BY <1>2
  <2>2. /\ i > 1 => Less(es[i - 1].key, key)
        /\ i <= N => ~Less(es[i].key, key)
    BY <1>1, <2>1
  <2> HIDE DEF P
  <2>3. i \in LowerBounds(es, key)
    BY <2>2, BoundsAre
  <2> QED
    BY <2>3
<1>4. UpperBounds(es, key) # {}
  <2> DEFINE P == {i \in 1..N : Less(key, es[i].key)}
  <2>1. PICK i \in 1..N + 1 : (i <= N => i \in P) /\ (i > 1 => i - 1 \notin P)
    BY <1>2
  <2>2. /\ i > 1 => ~Less(key, es[i - 1].key)
        /\ i <= N => Less(key, es[i].key)
    BY <1>1, <2>1
  <2> HIDE DEF P
  <2>3. i \in UpperBounds(es, key)
    BY <2>2, BoundsAre
  <2> QED
    BY <2>3
<1> QED
  BY <1>3, <1>4

(* find returns an entry that matches the key, or end(), and end() from a  *)
(* reliable index only if there is none.                                   *)
LEMMA FindsExact ==
  ASSUME NEW ix, IsIndex(ix), NEW key \in Keys, NEW f \in Finds(ix, key)
  PROVE  \/ f = 0 /\ (Reliable(ix.kind) => ~HasMatch(ix.kind, ix.entries, key))
         \/ f \in DOMAIN ix.entries /\ Matches(ix.kind, ix.entries[f].key, key)
<1> DEFINE es == ix.entries
<1>1. ix.kind \in Kinds /\ es \in Seq(Entries) /\ (Reliable(ix.kind) => Ordered(ix.kind, es))
  BY DEF IsIndex
<1>2. DOMAIN es = 1..Len(es) /\ Len(es) \in Nat /\ \A j \in DOMAIN es : es[j].key \in Keys
  BY <1>1, EntryFacts
<1>3. CASE ix.kind = "BTREE"
  <2>1. PICK i \in LowerBounds(es, key) :
          f = IF i > Len(es) \/ Less(key, es[i].key) THEN 0 ELSE i
    BY <1>3 DEF Finds, TreeFinds
  <2> HIDE DEF es
  <2>2. i \in 1..Len(es) + 1 /\ (i <= Len(es) => ~Less(es[i].key, key))
    BY <2>1, BoundsAre
  <2>3. CASE i > Len(es) \/ Less(key, es[i].key)
    <3>1. f = 0
      BY <2>1, <2>3
    <3>2. ASSUME Reliable(ix.kind), NEW j \in DOMAIN es, Matches(ix.kind, es[j].key, key) PROVE FALSE
      <4>1. Sortable /\ Ordered("BTREE", es)
        BY <1>1, <1>3, <3>2 DEF Reliable
      <4>2. j < i <=> Less(es[j].key, key)
        BY <1>1, <4>1, LowerBoundSplits
      <4>3. es[j].key \in Keys /\ ~Less(es[j].key, key) /\ ~Less(key, es[j].key)
        BY <1>1, <1>2, <1>3, <3>2, MatchIs
      <4>4. i \in DOMAIN es /\ Less(key, es[i].key) /\ (i = j \/ i < j)
        BY <1>2, <2>2, <2>3, <4>2, <4>3
      <4>5. CASE i < j
        <5>1. Less(es[i].key, es[j].key)
          BY <4>1, <4>4, <4>5 DEF Ordered
        <5> QED
          BY <1>2, <4>1, <4>3, <4>4, <5>1, LessChains
      <4> QED
        BY <4>3, <4>4, <4>5
    <3> QED
      BY <3>1, <3>2 DEF HasMatch, es
  <2>4. CASE i <= Len(es) /\ ~Less(key, es[i].key)
    <3>1. i \in DOMAIN es /\ f = i
      BY <1>2, <2>1, <2>2, <2>4
    <3>2. Matches(ix.kind, es[i].key, key)
      BY <1>1, <1>2, <1>3, <2>2, <2>4, <3>1, MatchIs
    <3> QED
      BY <3>1, <3>2 DEF es
  <2> QED
    BY <1>2, <2>2, <2>3, <2>4
<1>4. CASE ix.kind = "HASH"
  <2> DEFINE found == {i \in DOMAIN es : Hash(es[i].key) = Hash(key) /\ Equal(es[i].key, key)}
  <2>1. f \in IF found = {} THEN {0} ELSE found
    BY <1>4 DEF Finds, HashFinds
  <2>2. found = {i \in DOMAIN es : Matches("HASH", es[i].key, key)}
    BY DEF Matches
  <2> HIDE DEF found, es
  <2> QED
    BY <1>4, <2>1, <2>2 DEF HasMatch, es
<1> QED
  BY <1>1, <1>3, <1>4 DEF Kinds

(* emplace joins an entry that matches the key, or puts a new one, which a *)
(* reliable index does only if there is none, where it fits.               *)
LEMMA EmplacesExact ==
  ASSUME NEW ix, IsIndex(ix), NEW key \in Keys, NEW id, NEW e \in Emplaces(ix, key, id)
  PROVE  \/ \E i \in DOMAIN ix.entries :
              /\ Matches(ix.kind, ix.entries[i].key, key)
              /\ e = [ix.entries EXCEPT ![i].ids = Append(@, id)]
         \/ \E i \in 1..Len(ix.entries) + 1 :
              /\ e = Seqs!InsertAt(ix.entries, i, [key |-> key, ids |-> <<id>>])
              /\ Reliable(ix.kind) => /\ ~HasMatch(ix.kind, ix.entries, key)
                                      /\ Fits(ix.kind, ix.entries, i, key)
<1> DEFINE es == ix.entries
           kind == ix.kind
           Join(i) == [es EXCEPT ![i].ids = Append(@, id)]
           New(i) == Seqs!InsertAt(es, i, [key |-> key, ids |-> <<id>>])
           Goal == \/ \E k \in DOMAIN es : Matches(kind, es[k].key, key) /\ e = Join(k)
                   \/ \E k \in 1..Len(es) + 1 :
                        e = New(k) /\ (Reliable(kind) => ~HasMatch(kind, es, key) /\ Fits(kind, es, k, key))
<1>1. kind \in Kinds /\ es \in Seq(Entries) /\ (Reliable(kind) => Ordered(kind, es))
  BY DEF IsIndex
<1>2. DOMAIN es = 1..Len(es) /\ Len(es) \in Nat /\ \A j \in DOMAIN es : es[j].key \in Keys
  BY <1>1, EntryFacts
<1>3. ASSUME kind = "BTREE" PROVE Goal
  <2>1. \/ \E i \in LowerBounds(es, key) :
             e = IF i <= Len(es) /\ ~Less(key, es[i].key) THEN Join(i) ELSE New(i)
        \/ \E i \in UpperBounds(es, key) :
             e = IF i > 1 /\ ~Less(es[i - 1].key, key) THEN Join(i - 1) ELSE New(i)
    BY <1>3 DEF Emplaces, TreeEmplaces
  <2> HIDE DEF es, New, Join, kind
  <2>2. ASSUME NEW i \in 1..Len(es) + 1,
               \A j \in DOMAIN es : j < i => Less(es[j].key, key),
               \A j \in DOMAIN es : j >= i => Less(key, es[j].key)
        PROVE  ~HasMatch(kind, es, key) /\ Fits(kind, es, i, key)
    <3>1. \A j \in DOMAIN es : j < i \/ j >= i
      BY <1>2
    <3>2. \A j \in DOMAIN es : ~Matches(kind, es[j].key, key)
      <4> TAKE j \in DOMAIN es
      <4>1. es[j].key \in Keys /\ (Less(es[j].key, key) \/ Less(key, es[j].key))
        BY <1>2, <2>2, <3>1
      <4> QED
        BY <1>1, <1>3, <4>1, MatchIs
    <3> QED
      BY <2>2, <3>2 DEF HasMatch, Fits
  <2>3. ASSUME NEW k \in DOMAIN es, ~Less(es[k].key, key), ~Less(key, es[k].key)
        PROVE  Matches(kind, es[k].key, key)
    BY <1>1, <1>2, <1>3, <2>3, MatchIs
  <2>4. ASSUME Reliable(kind) PROVE Sortable /\ Ordered("BTREE", es)
    BY <1>1, <1>3, <2>4 DEF Reliable
  <2>5. ASSUME NEW i \in LowerBounds(es, key),
               e = IF i <= Len(es) /\ ~Less(key, es[i].key) THEN Join(i) ELSE New(i)
        PROVE  Goal
    <3>1. i \in 1..Len(es) + 1 /\ (i <= Len(es) => ~Less(es[i].key, key))
      BY BoundsAre
    <3>2. CASE i <= Len(es) /\ ~Less(key, es[i].key)
      <4>1. i \in DOMAIN es /\ ~Less(es[i].key, key)
        BY <1>2, <3>1, <3>2
      <4> QED
        BY <2>3, <2>5, <3>2, <4>1
    <3>3. CASE ~(i <= Len(es) /\ ~Less(key, es[i].key))
      <4>1. ASSUME Reliable(kind)
            PROVE  ~HasMatch(kind, es, key) /\ Fits(kind, es, i, key)
        <5>1. Sortable /\ Ordered("BTREE", es)
          BY <2>4, <4>1
        <5>2. \A j \in DOMAIN es : j < i <=> Less(es[j].key, key)
          BY <1>1, <5>1, LowerBoundSplits
        <5>3. ASSUME NEW j \in DOMAIN es, j >= i PROVE Less(key, es[j].key)
          <6>1. i \in DOMAIN es /\ Less(key, es[i].key) /\ (i = j \/ i < j)
            BY <1>2, <3>1, <3>3, <5>3
          <6>2. CASE i < j
            <7>1. Less(es[i].key, es[j].key)
              BY <5>1, <6>1, <6>2 DEF Ordered
            <7> QED
              BY <1>2, <5>1, <6>1, <7>1, LessChains
          <6> QED
            BY <6>1, <6>2
        <5> QED
          BY <2>2, <3>1, <5>2, <5>3
      <4>2. e = New(i)
        BY <2>5, <3>3
      <4> QED
        BY <3>1, <4>1, <4>2
    <3> QED
      BY <3>2, <3>3
  <2>6. ASSUME NEW i \in UpperBounds(es, key),
               e = IF i > 1 /\ ~Less(es[i - 1].key, key) THEN Join(i - 1) ELSE New(i)
        PROVE  Goal
    <3>1. i \in 1..Len(es) + 1 /\ (i > 1 => ~Less(key, es[i - 1].key))
      BY BoundsAre
    <3>2. CASE i > 1 /\ ~Less(es[i - 1].key, key)
      <4>1. i - 1 \in DOMAIN es /\ ~Less(key, es[i - 1].key)
        BY <1>2, <3>1, <3>2
      <4>2. Matches(kind, es[i - 1].key, key)
        BY <2>3, <3>2, <4>1
      <4>3. e = Join(i - 1)
        BY <2>6, <3>2
      <4> QED
        BY <4>1, <4>2, <4>3
    <3>3. CASE ~(i > 1 /\ ~Less(es[i - 1].key, key))
      <4>1. ASSUME Reliable(kind)
            PROVE  ~HasMatch(kind, es, key) /\ Fits(kind, es, i, key)
        <5>1. Sortable /\ Ordered("BTREE", es)
          BY <2>4, <4>1
        <5>2. \A j \in DOMAIN es : j < i <=> ~Less(key, es[j].key)
          BY <1>1, <5>1, UpperBoundSplits
        <5>3. ASSUME NEW j \in DOMAIN es, j < i PROVE Less(es[j].key, key)
          <6>1. i - 1 \in DOMAIN es /\ Less(es[i - 1].key, key) /\ (j = i - 1 \/ j < i - 1)
            BY <1>2, <3>1, <3>3, <5>3
          <6>2. CASE j < i - 1
            <7>1. Less(es[j].key, es[i - 1].key)
              BY <5>1, <6>1, <6>2 DEF Ordered
            <7> QED
              BY <1>2, <5>1, <6>1, <7>1, LessChains
          <6> QED
            BY <6>1, <6>2
        <5>4. \A j \in DOMAIN es : j >= i => Less(key, es[j].key)
          BY <1>2, <3>1, <5>2
        <5> QED
          BY <2>2, <3>1, <5>3, <5>4
      <4>2. e = New(i)
        BY <2>6, <3>3
      <4> QED
        BY <3>1, <4>1, <4>2
    <3> QED
      BY <3>2, <3>3
  <2> QED
    BY <2>1, <2>5, <2>6
<1>4. ASSUME kind = "HASH" PROVE Goal
  <2>1. PICK i \in HashFinds(es, key) :
          e = IF i = 0 THEN Append(es, [key |-> key, ids |-> <<id>>]) ELSE Join(i)
    BY <1>4 DEF Emplaces, HashEmplaces
  <2>2. \/ i = 0 /\ (Reliable(kind) => ~HasMatch(kind, es, key))
        \/ i \in DOMAIN es /\ Matches(kind, es[i].key, key)
    <3>1. i \in Finds(ix, key)
      BY <1>4, <2>1 DEF Finds
    <3> QED
      BY <3>1, FindsExact
  <2>3. CASE i = 0 /\ (Reliable(kind) => ~HasMatch(kind, es, key))
    <3>1. New(Len(es) + 1) = Append(es, [key |-> key, ids |-> <<id>>])
      BY <1>1, InsertAtEnd
    <3>2. Fits(kind, es, Len(es) + 1, key)
      BY <1>4 DEF Fits
    <3>3. Len(es) + 1 \in 1..Len(es) + 1
      BY <1>2
    <3> HIDE DEF New, es, kind
    <3>4. e = New(Len(es) + 1)
      BY <2>1, <2>3, <3>1
    <3> QED
      BY <2>3, <3>2, <3>3, <3>4
  <2>4. CASE i \in DOMAIN es /\ Matches(kind, es[i].key, key)
    <3>1. i # 0
      BY <1>2, <2>4
    <3> HIDE DEF New, Join, es, kind
    <3> QED
      BY <2>1, <2>4, <3>1
  <2> QED
    BY <2>2, <2>3, <2>4
<1>5. Goal
  BY <1>1, <1>3, <1>4 DEF Kinds
<1> QED
  BY <1>5

-----------------------------------------------------------------------------

(* The places in the entries where the id is listed under the key: what    *)
(* Listings is, of any entries.                                            *)
Spread(es, key, id) ==
  UNION {{<<i, j>> : j \in {n \in DOMAIN es[i].ids : es[i].ids[n] = id}} :
           i \in {n \in DOMAIN es : es[n].key = key}}

Count(es, key, id) == Cardinality(Spread(es, key, id))

ListedIn(ix) == [p \in Keys \X Ids |-> Count(ix.entries, p[1], p[2])]

(* How often an entry lists the id under the key.                          *)
Own(e, key, id) == IF e.key = key THEN Times(e.ids, id) ELSE 0

LEMMA SpreadIs ==
  ASSUME NEW es, NEW key, NEW id, NEW p
  PROVE  p \in Spread(es, key, id) <=>
           \E n \in DOMAIN es : es[n].key = key /\ \E j \in Spots(es[n].ids, id) : p = <<n, j>>
BY DEF Spread, Spots

(* They are finitely many.                                                 *)
LEMMA SpreadFinite ==
  ASSUME NEW es \in Seq(Entries), NEW key, NEW id
  PROVE  IsFiniteSet(Spread(es, key, id)) /\ Count(es, key, id) \in Nat
<1> DEFINE D == {n \in DOMAIN es : es[n].key = key}
           At(i) == {<<i, j>> : j \in Spots(es[i].ids, id)}
           f == [i \in D |-> At(i)]
           S == {At(i) : i \in D}
<1>1. IsFiniteSet(D)
  <2>1. DOMAIN es = 1..Len(es) /\ Len(es) \in Nat
    BY EntryFacts
  <2>2. IsFiniteSet(1..Len(es))
    BY <2>1, FS_Interval
  <2> QED
    BY <2>1, <2>2, FS_Subset
<1>2. ASSUME NEW i \in D PROVE IsFiniteSet(At(i))
  <2> DEFINE T == Spots(es[i].ids, id)
             g == [j \in T |-> <<i, j>>]
  <2>1. IsFiniteSet(T)
    <3>1. es[i].ids \in Seq(Ids)
      BY EntryFacts DEF Lists
    <3> QED
      BY <3>1, SpotsFinite
  <2> HIDE DEF T
  <2>2. g \in Surjection(T, {<<i, j>> : j \in T})
    BY DEF Surjection
  <2>3. IsFiniteSet({<<i, j>> : j \in T})
    BY <2>1, <2>2, FS_Surjection
  <2> QED
    BY <2>3 DEF T
<1>3. Spread(es, key, id) = UNION S
  BY DEF Spread, Spots
<1> HIDE DEF D, At
<1>4. f \in Surjection(D, S)
  BY DEF Surjection
<1>5. IsFiniteSet(S)
  <2> HIDE DEF S, f
  <2> QED
    BY <1>1, <1>4, FS_Surjection
<1>6. \A T \in S : IsFiniteSet(T)
  BY <1>2
<1> HIDE DEF S
<1>7. IsFiniteSet(UNION S)
  BY <1>5, <1>6, FS_UNION
<1> QED
  BY <1>3, <1>7, FS_CardinalityType DEF Count

(* A new entry adds what it lists itself.                                  *)
LEMMA CountOfInsertAt ==
  ASSUME NEW es \in Seq(Entries), NEW i \in 1..Len(es) + 1, NEW e \in Entries, NEW key, NEW id
  PROVE  Count(Seqs!InsertAt(es, i, e), key, id) = Count(es, key, id) + Own(e, key, id)
<1> DEFINE f == Seqs!InsertAt(es, i, e)
           N == Len(es)
           Up(n) == IF n < i THEN n ELSE n + 1
           S == Spread(es, key, id)
           B == IF e.key = key THEN Spots(e.ids, id) ELSE {}
           up == [p \in S |-> <<Up(p[1]), p[2]>>]
           own == [j \in B |-> <<i, j>>]
           SA == {<<Up(p[1]), p[2]>> : p \in S}
           BA == {<<i, j>> : j \in B}
<1>1. f \in Seq(Entries) /\ Len(f) = N + 1
      /\ \A j \in 1..N + 1 : f[j] = IF j < i THEN es[j] ELSE IF j = i THEN e ELSE es[j - 1]
  BY InsertAtFacts
<1>2. DOMAIN es = 1..N /\ N \in Nat /\ DOMAIN f = 1..N + 1 /\ i \in 1..N + 1
  BY <1>1, EntryFacts
<1>3. IsFiniteSet(S) /\ Count(es, key, id) = Cardinality(S) /\ Cardinality(S) \in Nat
  BY SpreadFinite DEF Count
<1>4. IsFiniteSet(B) /\ Own(e, key, id) = Cardinality(B) /\ Cardinality(B) \in Nat
  <2>1. e.ids \in Seq(Ids)
    BY DEF Entries
  <2> QED
    BY <2>1, SpotsFinite, FS_EmptySet DEF Own
<1>5. \A p \in S : p = <<p[1], p[2]>> /\ p[1] \in 1..N /\ es[p[1]].key = key /\ p[2] \in Spots(es[p[1]].ids, id)
  BY <1>2, SpreadIs
<1>6. Spread(f, key, id) = SA \cup BA
  <2> HIDE DEF f, N
  <2>1. ASSUME NEW q \in Spread(f, key, id) PROVE q \in SA \cup BA
    <3>1. PICK n \in DOMAIN f : f[n].key = key /\ \E j \in Spots(f[n].ids, id) : q = <<n, j>>
      BY <2>1, SpreadIs
    <3>2. PICK j \in Spots(f[n].ids, id) : q = <<n, j>>
      BY <3>1
    <3>3. CASE n = i
      <4>1. f[n] = e
        BY <1>1, <1>2, <3>3
      <4>2. j \in B
        BY <3>1, <3>2, <4>1
      <4> QED
        BY <3>2, <3>3, <4>2
    <3>4. CASE n # i
      <4> DEFINE m == IF n < i THEN n ELSE n - 1
      <4>1. m \in 1..N /\ Up(m) = n /\ f[n] = es[m]
        BY <1>1, <1>2, <3>1, <3>4
      <4> HIDE DEF m, Up
      <4>2. <<m, j>> \in S
        BY <1>2, <3>1, <3>2, <4>1, SpreadIs
      <4>3. q = <<Up(<<m, j>>[1]), <<m, j>>[2]>>
        BY <3>2, <4>1
      <4> HIDE DEF S
      <4> QED
        BY <4>2, <4>3
    <3> QED
      BY <3>3, <3>4
  <2>2. ASSUME NEW p \in S PROVE <<Up(p[1]), p[2]>> \in Spread(f, key, id)
    <3>1. p[1] \in 1..N /\ es[p[1]].key = key /\ p[2] \in Spots(es[p[1]].ids, id)
      BY <1>5
    <3>2. Up(p[1]) \in DOMAIN f /\ f[Up(p[1])] = es[p[1]]
      BY <1>1, <1>2, <3>1
    <3> HIDE DEF Up
    <3> QED
      BY <3>1, <3>2, SpreadIs
  <2>3. ASSUME NEW j \in B PROVE <<i, j>> \in Spread(f, key, id)
    <3>1. i \in DOMAIN f /\ f[i] = e
      BY <1>1, <1>2
    <3> QED
      BY <3>1, SpreadIs
  <2> HIDE DEF Up, S, B
  <2> QED
    BY <2>1, <2>2, <2>3
<1>7. SA \cap BA = {}
  <2>1. \A p \in S : Up(p[1]) # i
    BY <1>2, <1>5
  <2> HIDE DEF Up, S, B
  <2> QED
    BY <2>1
<1>8. IsFiniteSet(SA) /\ Cardinality(SA) = Cardinality(S)
  <2>1. \A p, q \in S : Up(p[1]) = Up(q[1]) => p[1] = q[1]
    BY <1>2, <1>5
  <2>2. \A p, q \in S : p[1] = q[1] /\ p[2] = q[2] => p = q
    BY <1>5
  <2> HIDE DEF Up, S
  <2>3. up \in Bijection(S, SA)
    BY <2>1, <2>2 DEF Bijection, Injection, IsInjective, Surjection
  <2>4. ExistsBijection(S, SA)
    BY <2>3 DEF ExistsBijection
  <2> HIDE DEF SA
  <2> QED
    BY <1>3, <2>4, FS_Bijection
<1>9. IsFiniteSet(BA) /\ Cardinality(BA) = Cardinality(B)
  <2> HIDE DEF B
  <2>1. own \in Bijection(B, BA)
    BY DEF Bijection, Injection, IsInjective, Surjection
  <2>2. ExistsBijection(B, BA)
    BY <2>1 DEF ExistsBijection
  <2> HIDE DEF BA
  <2> QED
    BY <1>4, <2>2, FS_Bijection
<1> HIDE DEF SA, BA, S, B, f
<1>10. Cardinality(SA \cup BA) = Cardinality(SA) + Cardinality(BA)
  <2>1. Cardinality(SA \cup BA) = Cardinality(SA) + Cardinality(BA) - Cardinality(SA \cap BA)
    BY <1>8, <1>9, FS_Union
  <2>2. Cardinality(SA \cap BA) = 0
    BY <1>7, FS_EmptySet
  <2> QED
    BY <1>3, <1>4, <1>8, <1>9, <2>1, <2>2
<1> QED
  BY <1>3, <1>4, <1>6, <1>8, <1>9, <1>10 DEF Count, f

(* Another entry in a place is one put in where one was taken away.        *)
LEMMA PutBack ==
  ASSUME NEW es \in Seq(Entries), NEW i \in DOMAIN es, NEW e \in Entries
  PROVE  /\ i \in 1..Len(Seqs!RemoveAt(es, i)) + 1
         /\ Seqs!InsertAt(Seqs!RemoveAt(es, i), i, e) = [es EXCEPT ![i] = e]
<1> DEFINE f == Seqs!RemoveAt(es, i)
           g == Seqs!InsertAt(f, i, e)
           N == Len(es)
           h == [es EXCEPT ![i] = e]
<1>1. i \in 1..N /\ N \in Nat
  BY EntryFacts
<1>2. f \in Seq(Entries) /\ Len(f) = N - 1
      /\ \A j \in 1..N - 1 : f[j] = IF j < i THEN es[j] ELSE es[j + 1]
  BY <1>1, RemoveAtFacts
<1> HIDE DEF f
<1>3. i \in 1..Len(f) + 1
  BY <1>1, <1>2
<1>4. g \in Seq(Entries) /\ Len(g) = Len(f) + 1
      /\ \A j \in 1..Len(f) + 1 : g[j] = IF j < i THEN f[j] ELSE IF j = i THEN e ELSE f[j - 1]
  <2>1. ASSUME NEW s \in Seq(Entries), NEW n \in 1..Len(s) + 1
        PROVE  LET t == Seqs!InsertAt(s, n, e) IN
               /\ t \in Seq(Entries) /\ Len(t) = Len(s) + 1
               /\ \A j \in 1..Len(s) + 1 : t[j] = IF j < n THEN s[j] ELSE IF j = n THEN e ELSE s[j - 1]
    BY InsertAtFacts
  <2>2. f \in Seq(Entries)
    BY <1>2
  <2> HIDE DEF N, h
  <2> QED
    BY <1>3, <2>1, <2>2
<1> HIDE DEF g
<1>5. h \in Seq(Entries) /\ Len(h) = N /\ \A j \in 1..N : h[j] = IF j = i THEN e ELSE es[j]
  BY <1>1, EntryFacts
<1> HIDE DEF h, N
<1>6. \A j \in 1..N : g[j] = h[j]
  <2> TAKE j \in 1..N
  <2>1. CASE j < i
    <3>1. g[j] = f[j] /\ j \in 1..N - 1
      BY <1>1, <1>2, <1>4, <2>1
    <3> QED
      BY <1>1, <1>2, <1>5, <2>1, <3>1
  <2>2. CASE j = i
    BY <1>1, <1>2, <1>4, <1>5, <2>2
  <2>3. CASE j > i
    <3>1. g[j] = f[j - 1] /\ j - 1 \in 1..N - 1 /\ ~(j - 1 < i)
      BY <1>1, <1>2, <1>4, <2>3
    <3>2. f[j - 1] = es[(j - 1) + 1] /\ (j - 1) + 1 = j
      BY <1>1, <1>2, <3>1
    <3> QED
      BY <1>5, <2>3, <3>1, <3>2
  <2> QED
    BY <1>1, <2>1, <2>2, <2>3
<1>7. Len(g) = N
  BY <1>1, <1>2, <1>4
<1> QED
  BY <1>3, <1>4, <1>5, <1>6, <1>7, SeqEqual DEF f, g, h

(* What the others list, without an entry and with another in its place.   *)
LEMMA CountOfRemoveAt ==
  ASSUME NEW es \in Seq(Entries), NEW i \in DOMAIN es, NEW key, NEW id
  PROVE  Count(es, key, id) = Count(Seqs!RemoveAt(es, i), key, id) + Own(es[i], key, id)
<1> DEFINE f == Seqs!RemoveAt(es, i)
<1>1. es[i] \in Entries /\ [es EXCEPT ![i] = es[i]] = es
  BY EntryFacts
<1>2. f \in Seq(Entries) /\ i \in 1..Len(f) + 1 /\ Seqs!InsertAt(f, i, es[i]) = es
  BY <1>1, PutBack, RemovedFacts
<1> HIDE DEF f
<1>3. Count(Seqs!InsertAt(f, i, es[i]), key, id) = Count(f, key, id) + Own(es[i], key, id)
  BY <1>1, <1>2, CountOfInsertAt
<1> QED
  BY <1>2, <1>3 DEF f

LEMMA CountOfRelisted ==
  ASSUME NEW es \in Seq(Entries), NEW i \in DOMAIN es, NEW ids \in Lists, NEW key, NEW id
  PROVE  Count(Relisted(es, i, ids), key, id) =
           Count(Seqs!RemoveAt(es, i), key, id) + Own(NewEntry(es[i].key, ids), key, id)
<1> DEFINE f == Seqs!RemoveAt(es, i)
           e == NewEntry(es[i].key, ids)
<1>1. e \in Entries
  BY EntryFacts DEF NewEntry, Entries, Lists
<1>2. Relisted(es, i, ids) = [es EXCEPT ![i] = e]
  BY JoinFacts
<1> HIDE DEF e
<1>3. f \in Seq(Entries) /\ i \in 1..Len(f) + 1
  BY <1>1, PutBack, RemovedFacts
<1>4. Seqs!InsertAt(f, i, e) = [es EXCEPT ![i] = e]
  BY <1>1, PutBack
<1> HIDE DEF f
<1>5. Count(Seqs!InsertAt(f, i, e), key, id) = Count(f, key, id) + Own(e, key, id)
  BY <1>1, <1>3, CountOfInsertAt
<1> QED
  BY <1>2, <1>4, <1>5 DEF f, e

(* Without the entry of its key, a reliable index does not list the key.   *)
LEMMA RestIsOther ==
  ASSUME NEW kind \in Kinds, NEW es \in Seq(Entries), Ordered(kind, es), NEW i \in DOMAIN es, NEW id
  PROVE  Count(Seqs!RemoveAt(es, i), es[i].key, id) = 0
<1> DEFINE f == Seqs!RemoveAt(es, i)
<1>1. \A n \in DOMAIN f : \E m \in DOMAIN es : m # i /\ f[n] = es[m]
  BY RemovedFacts
<1> HIDE DEF f
<1>2. ASSUME NEW m \in DOMAIN es, m # i PROVE es[m].key # es[i].key
  <2>1. m < i \/ i < m
    BY <1>2, EntryFacts
  <2>2. ~Matches(kind, es[m].key, es[i].key) \/ ~Matches(kind, es[i].key, es[m].key)
    BY <2>1 DEF Ordered
  <2>3. es[i].key \in Keys
    BY EntryFacts
  <2>4. Matches(kind, es[i].key, es[i].key)
    BY <2>3, MatchIs
  <2> QED
    BY <2>2, <2>4
<1>3. \A n \in DOMAIN f : f[n].key # es[i].key
  BY <1>1, <1>2
<1>4. Spread(f, es[i].key, id) = {}
  BY <1>3, SpreadIs
<1> QED
  BY <1>4, FS_EmptySet DEF Count, f

(* A key is present if it has an entry.                                    *)
LEMMA PresentIs ==
  ASSUME NEW ix, IsIndex(ix), NEW key \in Keys
  PROVE  KI!Present(ListedIn(ix), key) <=> \E i \in DOMAIN ix.entries : ix.entries[i].key = key
<1> DEFINE es == ix.entries
           l == ListedIn(ix)
<1>1. es \in Seq(Entries)
  BY DEF IsIndex
<1>2. \A id \in Ids : l[<<key, id>>] = Count(es, key, id)
  BY DEF ListedIn
<1>3. \A id \in Ids : Count(es, key, id) \in Nat /\ (Count(es, key, id) = 0 <=> Spread(es, key, id) = {})
  BY <1>1, SpreadFinite, FS_EmptySet DEF Count
<1> HIDE DEF l, es
<1>4. \A id \in Ids : l[<<key, id>>] > 0 <=> Spread(es, key, id) # {}
  <2> SUFFICES ASSUME NEW id \in Ids PROVE l[<<key, id>>] > 0 <=> Spread(es, key, id) # {}
    OBVIOUS
  <2>1. l[<<key, id>>] = Count(es, key, id)
    BY <1>2
  <2>2. Count(es, key, id) \in Nat /\ (Count(es, key, id) = 0 <=> Spread(es, key, id) = {})
    BY <1>3
  <2> QED
    BY <2>1, <2>2
<1>5. KI!Present(l, key) <=> \E id \in Ids : Spread(es, key, id) # {}
  BY <1>4 DEF KI!Present
<1>6. ASSUME NEW id \in Ids, Spread(es, key, id) # {} PROVE \E i \in DOMAIN es : es[i].key = key
  BY <1>6, SpreadIs
<1>7. ASSUME NEW i \in DOMAIN es, es[i].key = key PROVE \E id \in Ids : Spread(es, key, id) # {}
  <2>1. es[i].ids \in Lists
    BY <1>1, EntryFacts
  <2>2. 1 \in DOMAIN es[i].ids /\ es[i].ids[1] \in Ids
    BY <2>1 DEF Lists
  <2>3. 1 \in Spots(es[i].ids, es[i].ids[1])
    BY <2>2 DEF Spots
  <2>4. <<i, 1>> \in Spread(es, key, es[i].ids[1])
    BY <1>7, <2>3, SpreadIs
  <2> QED
    BY <2>2, <2>4
<1> QED
  BY <1>5, <1>6, <1>7 DEF l, es

-----------------------------------------------------------------------------

(* The index with other entries, if they are in order.                     *)
WithOthers(ix, es) == [kind |-> ix.kind, unique |-> ix.unique, entries |-> es]

LEMMA OthersIndex ==
  ASSUME NEW ix, IsIndex(ix), NEW es \in Seq(Entries),
         Reliable(ix.kind) => /\ Ordered(ix.kind, es)
                              /\ ix.unique => \A n \in DOMAIN es : Len(es[n].ids) = 1
  PROVE  LET o == WithOthers(ix, es) IN
         /\ o = [ix EXCEPT !.entries = es]
         /\ o.kind = ix.kind /\ o.unique = ix.unique /\ o.entries = es
         /\ IsIndex(o)
<1> DEFINE o == WithOthers(ix, es)
<1>1. o = [ix EXCEPT !.entries = es]
  BY WithEntries DEF WithOthers
<1>2. o.kind = ix.kind /\ o.unique = ix.unique /\ o.entries = es /\ o = WithOthers(o, es)
  BY DEF WithOthers
<1>3. IsIndex(o)
  <2> HIDE DEF o
  <2>1. o = [kind |-> o.kind, unique |-> o.unique, entries |-> o.entries]
    BY <1>2 DEF WithOthers
  <2>2. o.kind \in Kinds /\ o.unique \in BOOLEAN /\ o.entries \in Seq(Entries)
    BY <1>2 DEF IsIndex
  <2>3. Reliable(o.kind) => /\ Ordered(o.kind, o.entries)
                            /\ o.unique => \A n \in DOMAIN o.entries : Len(o.entries[n].ids) = 1
    BY <1>2
  <2> QED
    BY <2>1, <2>2, <2>3 DEF IsIndex
<1> QED
  BY <1>1, <1>2, <1>3

(* If entries count as others do but for one key and id, they list it n    *)
(* times.                                                                  *)
LEMMA RelistedIs ==
  ASSUME NEW ix, NEW ix2, NEW k \in Keys, NEW id \in Ids, NEW n,
         \A k2 \in Keys : \A id2 \in Ids :
           Count(ix2.entries, k2, id2) = IF k2 = k /\ id2 = id THEN n ELSE Count(ix.entries, k2, id2)
  PROVE  ListedIn(ix2) = KI!Relisted(ListedIn(ix), k, id, n)
<1> SUFFICES ASSUME NEW p \in Keys \X Ids
             PROVE  Count(ix2.entries, p[1], p[2]) = IF p = <<k, id>> THEN n ELSE ListedIn(ix)[p]
  BY DEF ListedIn, KI!Relisted
<1>1. p[1] \in Keys /\ p[2] \in Ids /\ (p = <<k, id>> <=> p[1] = k /\ p[2] = id)
  OBVIOUS
<1>2. ListedIn(ix)[p] = Count(ix.entries, p[1], p[2])
  BY DEF ListedIn
<1> QED
  BY <1>1, <1>2

(* push_back to an entry lists the id once more under its key.             *)
LEMMA Joins ==
  ASSUME NEW ix, IsIndex(ix), NEW i \in DOMAIN ix.entries, NEW id \in Ids,
         ix.unique => ~Reliable(ix.kind)
  PROVE  LET k == ix.entries[i].key
             o == WithOthers(ix, Relisted(ix.entries, i, Append(ix.entries[i].ids, id)))
         IN  /\ IsIndex(o) /\ o = [ix EXCEPT !.entries = Relisted(ix.entries, i, Append(ix.entries[i].ids, id))]
             /\ ListedIn(o) = KI!Relisted(ListedIn(ix), k, id, ListedIn(ix)[<<k, id>>] + 1)
<1> DEFINE es == ix.entries
           k == es[i].key
           ids == Append(es[i].ids, id)
           f == Relisted(es, i, ids)
           o == WithOthers(ix, f)
           rest == Seqs!RemoveAt(es, i)
<1>1. es \in Seq(Entries) /\ (Reliable(ix.kind) => Ordered(ix.kind, es))
  BY DEF IsIndex
<1> HIDE DEF es
<1>2. i \in DOMAIN es /\ k \in Keys /\ es[i].ids \in Seq(Ids)
  BY <1>1, EntryFacts DEF Lists, es
<1>3. ids \in Lists /\ \A x : Times(ids, x) = IF x = id THEN Times(es[i].ids, x) + 1 ELSE Times(es[i].ids, x)
  BY <1>2, TimesOfAppend, AppendProperties DEF Lists
<1>4. \A x : Times(es[i].ids, x) \in Nat
  BY <1>2, SpotsFinite
<1> HIDE DEF ids
<1>5. f \in Seq(Entries) /\ (Reliable(ix.kind) => Ordered(ix.kind, f))
  BY <1>1, <1>2, <1>3, JoinFacts, JoinOrdered
<1>6. IsIndex(o) /\ o.entries = f /\ o = [ix EXCEPT !.entries = f]
  <2> HIDE DEF f
  <2> QED
    BY <1>5, OthersIndex
<1>7. ASSUME NEW k2 \in Keys, NEW id2 \in Ids
      PROVE  Count(f, k2, id2) = IF k2 = k /\ id2 = id THEN Count(es, k, id) + 1 ELSE Count(es, k2, id2)
  <2> HIDE DEF f
  <2>1. Count(f, k2, id2) = Count(rest, k2, id2) + Own(NewEntry(k, ids), k2, id2)
    BY <1>1, <1>2, <1>3, CountOfRelisted DEF f
  <2>2. Count(es, k2, id2) = Count(rest, k2, id2) + Own(es[i], k2, id2)
    BY <1>1, <1>2, CountOfRemoveAt
  <2>3. Own(NewEntry(k, ids), k2, id2) = IF k2 = k THEN Times(ids, id2) ELSE 0
    BY DEF Own, NewEntry
  <2>4. Own(es[i], k2, id2) = IF k2 = k THEN Times(es[i].ids, id2) ELSE 0
    BY DEF Own
  <2>5. Count(rest, k2, id2) \in Nat
    BY <1>1, <1>2, RemovedFacts, SpreadFinite
  <2>6. Times(es[i].ids, id2) \in Nat
    BY <1>4
  <2>7. Times(ids, id2) = IF id2 = id THEN Times(es[i].ids, id2) + 1 ELSE Times(es[i].ids, id2)
    BY <1>3
  <2> HIDE DEF rest, k
  <2> QED
    BY <2>1, <2>2, <2>3, <2>4, <2>5, <2>6, <2>7
<1>8. ListedIn(ix)[<<k, id>>] = Count(es, k, id)
  BY <1>2 DEF ListedIn, es
<1> HIDE DEF o, k, f
<1>9. ListedIn(o) = KI!Relisted(ListedIn(ix), k, id, Count(es, k, id) + 1)
  <2> DEFINE n == Count(es, k, id) + 1
  <2>1. \A k2 \in Keys : \A id2 \in Ids :
          Count(o.entries, k2, id2) = IF k2 = k /\ id2 = id THEN n ELSE Count(ix.entries, k2, id2)
    BY <1>6, <1>7 DEF es
  <2> HIDE DEF n
  <2>2. ListedIn(o) = KI!Relisted(ListedIn(ix), k, id, n)
    BY <1>2, <2>1, RelistedIs
  <2> QED
    BY <2>2 DEF n
<1> QED
  BY <1>6, <1>8, <1>9 DEF o, k, f, ids, es

(* A new entry lists the id once more under the key.                       *)
LEMMA Makes ==
  ASSUME NEW ix, IsIndex(ix), NEW key \in Keys, NEW id \in Ids, NEW i \in 1..Len(ix.entries) + 1,
         Reliable(ix.kind) => ~HasMatch(ix.kind, ix.entries, key) /\ Fits(ix.kind, ix.entries, i, key)
  PROVE  LET f == Seqs!InsertAt(ix.entries, i, NewEntry(key, <<id>>))
             o == WithOthers(ix, f)
         IN  /\ IsIndex(o) /\ o = [ix EXCEPT !.entries = f]
             /\ ListedIn(o) = KI!Relisted(ListedIn(ix), key, id, ListedIn(ix)[<<key, id>>] + 1)
<1> DEFINE es == ix.entries
           ids == <<id>>
           e == NewEntry(key, ids)
           f == Seqs!InsertAt(es, i, e)
           o == WithOthers(ix, f)
<1>1. /\ es \in Seq(Entries) /\ ix.kind \in Kinds
      /\ Reliable(ix.kind) => /\ Ordered(ix.kind, es)
                              /\ ix.unique => \A n \in DOMAIN es : Len(es[n].ids) = 1
  BY DEF IsIndex
<1>2. ids \in Lists /\ Len(ids) = 1 /\ ids \in Seq(Ids) /\ \A x : Times(ids, x) = IF x = id THEN 1 ELSE 0
  <2>1. ids \in Lists /\ Len(ids) = 1 /\ ids \in Seq(Ids)
    BY DEF Lists
  <2>2. \A x : Spots(ids, x) = IF x = id THEN {1} ELSE {}
    BY DEF Spots
  <2>3. Cardinality({1}) = 1 /\ Cardinality({}) = 0
    BY FS_Singleton, FS_EmptySet
  <2> QED
    BY <2>1, <2>2, <2>3 DEF Times
<1> HIDE DEF ids
<1>3. e \in Entries /\ e.key = key /\ e.ids = ids
  BY <1>2 DEF NewEntry, Entries, Lists
<1>4. f \in Seq(Entries) /\ \A n \in DOMAIN f : f[n] = e \/ \E m \in DOMAIN es : f[n] = es[m]
  <2> HIDE DEF e
  <2> QED
    BY <1>1, <1>3, NewFacts
<1>5. Reliable(ix.kind) => Ordered(ix.kind, f)
  BY <1>1, <1>2, NewOrdered
<1> HIDE DEF e, f, es
<1>6. ASSUME Reliable(ix.kind), ix.unique, NEW n \in DOMAIN f PROVE Len(f[n].ids) = 1
  BY <1>1, <1>2, <1>3, <1>4, <1>6
<1>7. IsIndex(o) /\ o.entries = f /\ o = [ix EXCEPT !.entries = f]
  BY <1>4, <1>5, <1>6, OthersIndex
<1>8. ASSUME NEW k2 \in Keys, NEW id2 \in Ids
      PROVE  Count(f, k2, id2) = IF k2 = key /\ id2 = id THEN Count(es, key, id) + 1 ELSE Count(es, k2, id2)
  <2>1. Count(f, k2, id2) = Count(es, k2, id2) + Own(e, k2, id2)
    <3>1. i \in 1..Len(es) + 1
      BY DEF es
    <3> QED
      BY <1>1, <1>3, <3>1, CountOfInsertAt DEF f
  <2>2. Own(e, k2, id2) = IF k2 = key /\ id2 = id THEN 1 ELSE 0
    BY <1>2, <1>3 DEF Own
  <2>3. Count(es, k2, id2) \in Nat
    BY <1>1, SpreadFinite
  <2> QED
    BY <2>1, <2>2, <2>3
<1>9. ListedIn(ix)[<<key, id>>] = Count(es, key, id)
  BY DEF ListedIn, es
<1> HIDE DEF o
<1>10. ListedIn(o) = KI!Relisted(ListedIn(ix), key, id, Count(es, key, id) + 1)
  <2> DEFINE n == Count(es, key, id) + 1
  <2>1. \A k2 \in Keys : \A id2 \in Ids :
          Count(o.entries, k2, id2) = IF k2 = key /\ id2 = id THEN n ELSE Count(ix.entries, k2, id2)
    BY <1>7, <1>8 DEF es
  <2> HIDE DEF n
  <2>2. ListedIn(o) = KI!Relisted(ListedIn(ix), key, id, n)
    BY <2>1, RelistedIs
  <2> QED
    BY <2>2 DEF n
<1> QED
  BY <1>7, <1>9, <1>10 DEF o, f, e, ids, es

(* An entry without the id, or gone: none of its listings is there in a    *)
(* reliable index, and no more than before in another.                     *)
LEMMA Drops ==
  ASSUME NEW ix, IsIndex(ix), NEW i \in DOMAIN ix.entries, NEW id \in Ids
  PROVE  LET k == ix.entries[i].key
             o == WithOthers(ix, Without(ix.entries, i, id))
         IN  /\ IsIndex(o) /\ o = [ix EXCEPT !.entries = Without(ix.entries, i, id)]
             /\ \E n \in 0..ListedIn(ix)[<<k, id>>] :
                  /\ Reliable(ix.kind) => n = 0
                  /\ ListedIn(o) = KI!Relisted(ListedIn(ix), k, id, n)
<1> DEFINE es == ix.entries
           k == es[i].key
           left == Left(es[i].ids, id)
           f == Without(es, i, id)
           o == WithOthers(ix, f)
           rest == Seqs!RemoveAt(es, i)
           n == Count(rest, k, id)
<1>1. /\ es \in Seq(Entries) /\ ix.kind \in Kinds
      /\ Reliable(ix.kind) => /\ Ordered(ix.kind, es)
                              /\ ix.unique => \A m \in DOMAIN es : Len(es[m].ids) = 1
  BY DEF IsIndex
<1> HIDE DEF es
<1>2. i \in DOMAIN es /\ k \in Keys /\ es[i].ids \in Seq(Ids)
  BY <1>1, EntryFacts DEF Lists, es
<1>3. /\ left \in Seq(Ids) /\ Len(left) <= Len(es[i].ids)
      /\ \A x : Times(left, x) = IF x = id THEN 0 ELSE Times(es[i].ids, x)
  BY <1>2, LeftFacts
<1>4. f = IF left = <<>> THEN rest ELSE Relisted(es, i, left)
  BY DEF Without, Relisted
<1>5. rest \in Seq(Entries) /\ \A m \in DOMAIN rest : \E j \in DOMAIN es : rest[m] = es[j]
  BY <1>1, <1>2, RemovedFacts
<1>6. \A k2, id2 : Count(rest, k2, id2) \in Nat
  BY <1>5, SpreadFinite
<1>7. \A x : Times(es[i].ids, x) \in Nat
  BY <1>2, SpotsFinite
<1>8. Reliable(ix.kind) => n = 0
  BY <1>1, <1>2, RestIsOther
<1>9. \A k2, id2 : Count(es, k2, id2) = Count(rest, k2, id2) + Own(es[i], k2, id2)
  BY <1>1, <1>2, CountOfRemoveAt
<1>10. /\ f \in Seq(Entries)
       /\ Reliable(ix.kind) => /\ Ordered(ix.kind, f)
                               /\ ix.unique => \A m \in DOMAIN f : Len(f[m].ids) = 1
       /\ \A k2, id2 : Count(f, k2, id2) = Count(rest, k2, id2) + IF k2 = k THEN Times(left, id2) ELSE 0
  <2>1. CASE left = <<>>
    <3>1. f = rest
      BY <1>4, <2>1
    <3>2. \A x : Times(left, x) = 0
      BY <2>1, FS_EmptySet DEF Times, Spots
    <3>3. Reliable(ix.kind) => Ordered(ix.kind, rest)
      BY <1>1, <1>2, RemovedOrdered
    <3> HIDE DEF rest, left, f, k
    <3>4. ASSUME Reliable(ix.kind), ix.unique, NEW m \in DOMAIN rest PROVE Len(rest[m].ids) = 1
      BY <1>1, <1>5, <3>4
    <3> QED
      BY <1>5, <1>6, <3>1, <3>2, <3>3, <3>4
  <2>2. CASE left # <<>>
    <3>1. f = Relisted(es, i, left) /\ left \in Lists
      BY <1>3, <1>4, <2>2 DEF Lists
    <3>2. Reliable(ix.kind) => Ordered(ix.kind, Relisted(es, i, left))
      BY <1>1, <1>2, <3>1, JoinOrdered
    <3>3. \A k2, id2 : Count(Relisted(es, i, left), k2, id2) = Count(rest, k2, id2) + Own(NewEntry(k, left), k2, id2)
      BY <1>1, <1>2, <3>1, CountOfRelisted
    <3>4. \A k2, id2 : Own(NewEntry(k, left), k2, id2) = IF k2 = k THEN Times(left, id2) ELSE 0
      BY DEF Own, NewEntry
    <3> HIDE DEF left, f, rest
    <3>5. /\ f \in Seq(Entries) /\ DOMAIN f = DOMAIN es
          /\ \A j \in DOMAIN es : f[j].ids = IF j = i THEN left ELSE es[j].ids
      BY <1>1, <1>2, <3>1, JoinFacts
    <3>6. ASSUME Reliable(ix.kind), ix.unique, NEW m \in DOMAIN f PROVE Len(f[m].ids) = 1
      <4>1. \A j \in DOMAIN es : Len(es[j].ids) = 1
        BY <1>1, <3>6
      <4>2. Len(left) = 1
        BY <1>2, <1>3, <2>2, <4>1, ShortLists
      <4> QED
        BY <3>5, <4>1, <4>2
    <3> QED
      BY <3>1, <3>2, <3>3, <3>4, <3>5, <3>6
  <2> QED
    BY <2>1, <2>2
<1> HIDE DEF f, left, rest
<1>11. IsIndex(o) /\ o.entries = f /\ o = [ix EXCEPT !.entries = f]
  BY <1>10, OthersIndex
<1>12. ASSUME NEW k2 \in Keys, NEW id2 \in Ids
       PROVE  Count(f, k2, id2) = IF k2 = k /\ id2 = id THEN n ELSE Count(es, k2, id2)
  <2>1. Count(f, k2, id2) = Count(rest, k2, id2) + IF k2 = k THEN Times(left, id2) ELSE 0
    BY <1>10
  <2>2. Count(es, k2, id2) = Count(rest, k2, id2) + IF k2 = k THEN Times(es[i].ids, id2) ELSE 0
    BY <1>9 DEF Own
  <2>3. Times(left, id2) = IF id2 = id THEN 0 ELSE Times(es[i].ids, id2)
    BY <1>3
  <2>4. Count(rest, k2, id2) \in Nat /\ Times(es[i].ids, id2) \in Nat
    BY <1>6, <1>7
  <2> HIDE DEF k
  <2> QED
    BY <2>1, <2>2, <2>3, <2>4
<1>13. n \in 0..ListedIn(ix)[<<k, id>>]
  <2>1. ListedIn(ix)[<<k, id>>] = Count(es, k, id)
    BY <1>2 DEF ListedIn, es
  <2>2. Count(es, k, id) = n + Times(es[i].ids, id)
    BY <1>9 DEF Own
  <2>3. n \in Nat /\ Times(es[i].ids, id) \in Nat
    BY <1>6, <1>7
  <2> HIDE DEF n, k
  <2> QED
    BY <2>1, <2>2, <2>3
<1> HIDE DEF n, o, k
<1>14. ListedIn(o) = KI!Relisted(ListedIn(ix), k, id, n)
  <2>1. \A k2 \in Keys : \A id2 \in Ids :
          Count(o.entries, k2, id2) = IF k2 = k /\ id2 = id THEN n ELSE Count(ix.entries, k2, id2)
    BY <1>11, <1>12 DEF es
  <2> QED
    BY <1>2, <2>1, RelistedIs
<1> QED
  BY <1>8, <1>11, <1>13, <1>14 DEF o, k, f, es

-----------------------------------------------------------------------------

(* Which keys KeyedIds has an operation act on, in terms of the entries.   *)
LEMMA MatchingIs ==
  ASSUME NEW ix, IsIndex(ix), ix.kind = index.kind, NEW key \in Keys
  PROVE  LET l == ListedIn(ix) IN
         /\ \A i \in DOMAIN ix.entries :
              Matches(ix.kind, ix.entries[i].key, key) => ix.entries[i].key \in KI!Matching(l, key)
         /\ (Reliable(ix.kind) => ~HasMatch(ix.kind, ix.entries, key)) => KI!Misses(l, key)
         /\ \A k \in Keys : \A id : KI!Staying(l, k, id) = IF Reliable(ix.kind) THEN {0} ELSE 0..l[<<k, id>>]
<1> DEFINE l == ListedIn(ix)
           es == ix.entries
<1>1. ix.kind \in Kinds /\ es \in Seq(Entries)
  BY DEF IsIndex
<1>2. \A k \in Keys : KI!Present(l, k) <=> \E i \in DOMAIN es : es[i].key = k
  BY PresentIs
<1>3. \A i \in DOMAIN es : es[i].key \in Keys
  BY <1>1, EntryFacts
<1> HIDE DEF l, es
<1>4. \A k \in Keys : k \in KI!Matching(l, key) <=> KI!Present(l, k) /\ Matches(ix.kind, k, key)
  BY <1>1 DEF KI!Matching
<1>5. \A i \in DOMAIN es : Matches(ix.kind, es[i].key, key) => es[i].key \in KI!Matching(l, key)
  BY <1>2, <1>3, <1>4
<1>6. ASSUME ~HasMatch(ix.kind, es, key) PROVE KI!Matching(l, key) = {}
  <2>1. \A k \in KI!Matching(l, key) : k \in Keys
    BY DEF KI!Matching
  <2> QED
    BY <1>2, <1>4, <1>6, <2>1 DEF HasMatch
<1>7. (Reliable(ix.kind) => ~HasMatch(ix.kind, es, key)) => KI!Misses(l, key)
  BY <1>1, <1>6 DEF KI!Misses
<1>8. \A k \in Keys : \A id : KI!Staying(l, k, id) = IF Reliable(ix.kind) THEN {0} ELSE 0..l[<<k, id>>]
  BY <1>1 DEF KI!Staying
<1> QED
  BY <1>5, <1>7, <1>8 DEF l, es

(* The outcome of an operation on ix is one of what KeyedIds allows.       *)
Maps(ix, o, outcomes) ==
  /\ IsIndex(o.index) /\ o.index.kind = ix.kind /\ o.index.unique = ix.unique
  /\ o.ok \in BOOLEAN
  /\ KI!Outcome(o.ok, ListedIn(o.index)) \in outcomes

(* insert: refused by a unique index that has found a match, and otherwise *)
(* the id is listed once more under a match or the key.                    *)
LEMMA InsertMaps ==
  ASSUME NEW ix, IsIndex(ix), ix.kind = index.kind, ix.unique = index.unique,
         NEW key \in Keys, NEW id \in Ids, NEW o \in Inserts(ix, key, id)
  PROVE  Maps(ix, o, KI!Inserts(ListedIn(ix), key, id))
<1> DEFINE l == ListedIn(ix)
           es == ix.entries
           K == KI!Matching(l, key)
           more(k) == KI!Relisted(l, k, id, l[<<k, id>>] + 1)
<1>1. /\ ix.kind \in Kinds /\ ix.unique \in BOOLEAN
      /\ ix = [kind |-> ix.kind, unique |-> ix.unique, entries |-> es]
      /\ es \in Seq(Entries) /\ (Reliable(ix.kind) => Ordered(ix.kind, es))
  BY DEF IsIndex
<1>2. DOMAIN es = 1..Len(es) /\ Len(es) \in Nat /\ \A i \in DOMAIN es : es[i].key \in Keys
  BY <1>1, EntryFacts
<1>3. /\ \A i \in DOMAIN es : Matches(ix.kind, es[i].key, key) => es[i].key \in K
      /\ (Reliable(ix.kind) => ~HasMatch(ix.kind, es, key)) => KI!Misses(l, key)
  BY MatchingIs
<1>4. ASSUME NEW f \in Finds(ix, key), ix.unique, f # 0, o = Outcome(FALSE, ix)
      PROVE  Maps(ix, o, KI!Inserts(l, key, id))
  <2>1. f \in DOMAIN es /\ Matches(ix.kind, es[f].key, key)
    BY <1>4, FindsExact
  <2>2. es[f].key \in K /\ index.unique
    BY <1>3, <1>4, <2>1
  <2>3. KI!Outcome(FALSE, l) \in KI!Inserts(l, key, id)
    <3> HIDE DEF l
    <3> QED
      BY <2>2 DEF KI!Inserts
  <2> QED
    BY <1>4, <2>3 DEF Maps, Outcome
<1>5. ASSUME NEW e \in Emplaces(ix, key, id), ~ix.unique \/ 0 \in Finds(ix, key),
             o = Outcome(TRUE, [ix EXCEPT !.entries = e])
      PROVE  Maps(ix, o, KI!Inserts(l, key, id))
  <2>1. ASSUME ix.unique PROVE Reliable(ix.kind) => ~HasMatch(ix.kind, es, key)
    <3>1. 0 \in Finds(ix, key) /\ 0 \notin DOMAIN es
      BY <1>2, <1>5, <2>1
    <3> QED
      BY <3>1, FindsExact
  <2>2. SUFFICES ASSUME NEW k \in Keys,
                        \/ k \in K /\ (~ix.unique \/ KI!Misses(l, key))
                        \/ k = key /\ KI!Misses(l, key),
                        NEW x, IsIndex(x), x = WithOthers(ix, e), x = [ix EXCEPT !.entries = e],
                        ListedIn(x) = more(k)
                 PROVE  Maps(ix, o, KI!Inserts(l, key, id))
    <3>1. CASE \E i \in DOMAIN es : /\ Matches(ix.kind, es[i].key, key)
                                    /\ e = [es EXCEPT ![i].ids = Append(@, id)]
      <4>1. PICK i \in DOMAIN es : /\ Matches(ix.kind, es[i].key, key)
                                   /\ e = [es EXCEPT ![i].ids = Append(@, id)]
        BY <3>1
      <4>2. e = Relisted(es, i, Append(es[i].ids, id))
        BY <4>1 DEF Relisted
      <4>3. es[i].key \in K /\ es[i].key \in Keys
        BY <1>2, <1>3, <4>1
      <4>4. ~ix.unique \/ KI!Misses(l, key)
        BY <1>3, <2>1
      <4>5. ix.unique => ~Reliable(ix.kind)
        BY <2>1, <4>1 DEF HasMatch
      <4> DEFINE x == WithOthers(ix, e)
      <4>6. IsIndex(x) /\ x = [ix EXCEPT !.entries = e] /\ ListedIn(x) = more(es[i].key)
        BY <4>2, <4>5, Joins
      <4> HIDE DEF x, more, K, l
      <4> QED
        BY <2>2, <4>3, <4>4, <4>6 DEF x
    <3>2. CASE \E i \in 1..Len(es) + 1 :
                 /\ e = Seqs!InsertAt(es, i, [key |-> key, ids |-> <<id>>])
                 /\ Reliable(ix.kind) => ~HasMatch(ix.kind, es, key) /\ Fits(ix.kind, es, i, key)
      <4>1. PICK i \in 1..Len(es) + 1 :
                 /\ e = Seqs!InsertAt(es, i, [key |-> key, ids |-> <<id>>])
                 /\ Reliable(ix.kind) => ~HasMatch(ix.kind, es, key) /\ Fits(ix.kind, es, i, key)
        BY <3>2
      <4>2. e = Seqs!InsertAt(es, i, NewEntry(key, <<id>>))
        BY <4>1 DEF NewEntry
      <4>3. KI!Misses(l, key)
        BY <1>3, <4>1
      <4> DEFINE x == WithOthers(ix, e)
      <4>4. IsIndex(x) /\ x = [ix EXCEPT !.entries = e] /\ ListedIn(x) = more(key)
        BY <4>1, <4>2, Makes
      <4> HIDE DEF x, more, K, l
      <4> QED
        BY <2>2, <4>3, <4>4 DEF x
    <3> QED
      BY <3>1, <3>2, EmplacesExact
  <2>3. o.ok = TRUE /\ o.index = x
    BY <1>5, <2>2 DEF Outcome
  <2>4. x.kind = ix.kind /\ x.unique = ix.unique
    BY <2>2 DEF WithOthers
  <2>5. KI!Outcome(TRUE, more(k)) \in KI!Inserts(l, key, id)
    <3> HIDE DEF l
    <3> QED
      BY <2>2 DEF KI!Inserts
  <2> HIDE DEF l, more
  <2> QED
    BY <2>2, <2>3, <2>4, <2>5 DEF Maps
<1>6. \/ \E f \in Finds(ix, key) : ix.unique /\ f # 0 /\ o = Outcome(FALSE, ix)
      \/ \E e \in Emplaces(ix, key, id) : /\ ~ix.unique \/ 0 \in Finds(ix, key)
                                          /\ o = Outcome(TRUE, [ix EXCEPT !.entries = e])
  BY DEF Inserts
<1> QED
  BY <1>4, <1>5, <1>6

(* remove: false if no match is found, and otherwise the id is no longer   *)
(* listed under a match.                                                   *)
LEMMA RemoveMaps ==
  ASSUME NEW ix, IsIndex(ix), ix.kind = index.kind, ix.unique = index.unique,
         NEW key \in Keys, NEW id \in Ids, NEW o \in Removes(ix, key, id)
  PROVE  Maps(ix, o, KI!Removes(ListedIn(ix), key, id))
<1> DEFINE l == ListedIn(ix)
           es == ix.entries
<1>1. PICK f \in Finds(ix, key) :
        o = IF f = 0 THEN Outcome(FALSE, ix)
            ELSE Outcome(TRUE, [ix EXCEPT !.entries = Without(@, f, id)])
  BY DEF Removes
<1>2. es \in Seq(Entries) /\ \A i \in DOMAIN es : es[i].key \in Keys /\ i # 0
  BY EntryFacts DEF IsIndex
<1>3. CASE f = 0 /\ (Reliable(ix.kind) => ~HasMatch(ix.kind, es, key))
  <2>1. KI!Misses(l, key)
    BY <1>3, MatchingIs
  <2>2. KI!Outcome(FALSE, l) \in KI!Removes(l, key, id)
    <3> HIDE DEF l
    <3> QED
      BY <2>1 DEF KI!Removes
  <2> QED
    BY <1>1, <1>3, <2>2 DEF Maps, Outcome
<1>4. CASE f \in DOMAIN es /\ Matches(ix.kind, es[f].key, key)
  <2> DEFINE k == es[f].key
             e == Without(es, f, id)
             x == WithOthers(ix, e)
  <2>1. k \in KI!Matching(l, key) /\ k \in Keys
    BY <1>2, <1>4, MatchingIs
  <2>2. IsIndex(x) /\ x = [ix EXCEPT !.entries = e]
    BY <1>4, Drops
  <2>3. PICK n \in 0..l[<<k, id>>] : (Reliable(ix.kind) => n = 0) /\ ListedIn(x) = KI!Relisted(l, k, id, n)
    BY <1>4, Drops
  <2>4. n \in KI!Staying(l, k, id)
    <3>1. KI!Staying(l, k, id) = IF Reliable(ix.kind) THEN {0} ELSE 0..l[<<k, id>>]
      BY <2>1, MatchingIs
    <3> HIDE DEF l, k
    <3> QED
      BY <2>3, <3>1
  <2>5. o = Outcome(TRUE, [ix EXCEPT !.entries = e])
    BY <1>1, <1>2, <1>4
  <2>6. o.ok = TRUE /\ o.index = x
    BY <2>2, <2>5 DEF Outcome
  <2>7. x.kind = ix.kind /\ x.unique = ix.unique
    BY DEF WithOthers
  <2> HIDE DEF l, k, x
  <2>8. KI!Outcome(TRUE, KI!Relisted(l, k, id, n)) \in KI!Removes(l, key, id)
    <3> DEFINE S == {KI!Outcome(TRUE, KI!Relisted(l, k, id, m)) : m \in KI!Staying(l, k, id)}
    <3>1. KI!Outcome(TRUE, KI!Relisted(l, k, id, n)) \in S
      BY <2>4
    <3>2. S \subseteq KI!Removes(l, key, id)
      BY <2>1 DEF KI!Removes
    <3> QED
      BY <3>1, <3>2
  <2> QED
    BY <2>2, <2>3, <2>6, <2>7, <2>8 DEF Maps, l
<1> QED
  BY <1>3, <1>4, FindsExact

(* update: remove, and then insert what remove has left.                   *)
LEMMA UpdateMaps ==
  ASSUME NEW ix, IsIndex(ix), ix.kind = index.kind, ix.unique = index.unique,
         NEW old \in Keys, NEW new \in Keys, NEW id \in Ids, NEW o \in Updates(ix, old, new, id)
  PROVE  Maps(ix, o, KI!Updates(ListedIn(ix), old, new, id))
<1> DEFINE l == ListedIn(ix)
<1>1. PICK r \in Removes(ix, old, id) : o \in IF r.ok THEN Inserts(r.index, new, id) ELSE {r}
  BY DEF Updates
<1>2. Maps(ix, r, KI!Removes(l, old, id))
  BY RemoveMaps
<1> DEFINE a == KI!Outcome(r.ok, ListedIn(r.index))
<1>3. a \in KI!Removes(l, old, id) /\ r.ok \in BOOLEAN /\ a.ok = r.ok /\ a.listed = ListedIn(r.index)
  BY <1>2 DEF Maps, KI!Outcome
<1> HIDE DEF l, a
<1>4. CASE r.ok
  <2>1. Maps(r.index, o, KI!Inserts(ListedIn(r.index), new, id))
    BY <1>1, <1>2, <1>4, InsertMaps DEF Maps
  <2>2. KI!Inserts(a.listed, new, id) \subseteq KI!Updates(l, old, new, id)
    BY <1>3, <1>4 DEF KI!Updates
  <2> QED
    BY <1>2, <1>3, <2>1, <2>2 DEF Maps, l
<1>5. CASE ~r.ok
  <2>1. o = r
    BY <1>1, <1>5
  <2>2. a \in KI!Updates(l, old, new, id)
    BY <1>3, <1>5 DEF KI!Updates
  <2> QED
    BY <1>2, <2>1, <2>2 DEF Maps, l, a
<1> QED
  BY <1>3, <1>4, <1>5

LEMMA InitIsIndex == Init => IsIndex(index)
<1> SUFFICES ASSUME Init PROVE IsIndex(index)
  OBVIOUS
<1>1. PICK kind \in Kinds, unique \in BOOLEAN : index = NewIndex(kind, unique)
  BY DEF Init
<1>2. index = [kind |-> kind, unique |-> unique, entries |-> <<>>]
  BY <1>1 DEF NewIndex
<1>3. <<>> \in Seq(Entries) /\ DOMAIN <<>> = {}
  OBVIOUS
<1>4. Ordered(kind, <<>>)
  BY <1>3 DEF Ordered
<1> QED
  BY <1>2, <1>3, <1>4 DEF IsIndex

LEMMA InitMaps == Init => KI!Init
<1> SUFFICES ASSUME Init PROVE KI!Init
  OBVIOUS
<1>1. PICK kind \in Kinds, unique \in BOOLEAN : index = NewIndex(kind, unique)
  BY DEF Init
<1>2. index.kind \in Kinds /\ index.unique \in BOOLEAN /\ index.entries = <<>>
  BY <1>1 DEF NewIndex
<1>3. \A p \in Keys \X Ids : Listings(p[1], p[2]) = {}
  BY <1>2 DEF Listings
<1>4. Listed = [p \in Keys \X Ids |-> 0]
  BY <1>3, FS_EmptySet DEF Listed
<1> QED
  BY <1>2, <1>4 DEF Init, KI!Init

(* Every step keeps the invariant, and is a step of KeyedIds.              *)
LEMMA StepMaps ==
  IsIndex(index) /\ [Next]_vars => IsIndex(index)' /\ [KI!Next]_(KI!vars)
<1> SUFFICES ASSUME IsIndex(index), [Next]_vars PROVE IsIndex(index') /\ [KI!Next]_(KI!vars)
  OBVIOUS
<1>1. Listed = ListedIn(index) /\ Listed' = ListedIn(index')
  BY DEF Listed, ListedIn, Listings, Count, Spread
<1>2. ASSUME NEW op, NEW keys, NEW id, NEW outcomes, NEW allowed, Do(op, keys, id, outcomes),
             \A o \in outcomes : Maps(index, o, allowed)
      PROVE  IsIndex(index') /\ KI!Do(op, keys, id, allowed)
  <2>1. PICK o \in outcomes : index' = o.index /\ answer' = Answer(op, keys, id, o.ok)
    BY <1>2 DEF Do
  <2>2. /\ IsIndex(index') /\ index'.kind = index.kind /\ index'.unique = index.unique
        /\ o.ok \in BOOLEAN /\ KI!Outcome(o.ok, Listed') \in allowed
    BY <1>1, <1>2, <2>1 DEF Maps
  <2>3. answer' = KI!Answer(op, keys, id, o.ok)
    BY <2>1 DEF Answer, KI!Answer
  <2> QED
    BY <2>2, <2>3 DEF KI!Do
<1>3. ASSUME NEW id \in Ids, NEW key \in Keys, Insert(key, id)
      PROVE  IsIndex(index') /\ KI!Insert(key, id)
  <2>1. \A o \in Inserts(index, key, id) : Maps(index, o, KI!Inserts(Listed, key, id))
    BY <1>1, InsertMaps
  <2> QED
    BY <1>2, <1>3, <2>1 DEF Insert, KI!Insert
<1>4. ASSUME NEW id \in Ids, NEW key \in Keys, Remove(key, id)
      PROVE  IsIndex(index') /\ KI!Remove(key, id)
  <2>1. \A o \in Removes(index, key, id) : Maps(index, o, KI!Removes(Listed, key, id))
    BY <1>1, RemoveMaps
  <2> QED
    BY <1>2, <1>4, <2>1 DEF Remove, KI!Remove
<1>5. ASSUME NEW id \in Ids, NEW key \in Keys, NEW new \in Keys, Update(key, new, id)
      PROVE  IsIndex(index') /\ KI!Update(key, new, id)
  <2>1. \A o \in Updates(index, key, new, id) : Maps(index, o, KI!Updates(Listed, key, new, id))
    BY <1>1, UpdateMaps
  <2> QED
    BY <1>2, <1>5, <2>1 DEF Update, KI!Update
<1>6. CASE Next
  BY <1>3, <1>4, <1>5, <1>6 DEF Next, KI!Next
<1>7. CASE UNCHANGED vars
  BY <1>1, <1>7 DEF vars, KI!vars
<1> QED
  BY <1>6, <1>7

(* IsIndex is an invariant: Init implies it, and every step keeps it.      *)
LEMMA IndexInvariant == Spec => []IsIndex(index)
<1>1. Init => IsIndex(index)
  BY InitIsIndex
<1>2. IsIndex(index) /\ [Next]_vars => IsIndex(index)'
  BY StepMaps
<1> QED
  BY <1>1, <1>2, PTL DEF Spec

-----------------------------------------------------------------------------

(* No list of BTreeIndex and HashIndex is empty; where a find is reliable, *)
(* no two entries match, those of a tree are in order, and a unique index  *)
(* lists one id per entry. For every mixture of types in the keys: a hash  *)
(* index is always reliable, a tree when only the last field mixes them.   *)
THEOREM IndexesWellFormed == Spec => []WellFormed
<1>1. IsIndex(index) => WellFormed
  BY DEF IsIndex, Ordered, WellFormed
<1> QED
  BY <1>1, IndexInvariant, PTL

(* Where each search of a tree starts and stops.                           *)
LEMMA TreeSearches ==
  ASSUME Sortable, NEW es \in Seq(Entries), Ordered("BTREE", es), NEW key \in Keys
  PROVE  /\ SearchGreaterThan(es, key) = {{i \in DOMAIN es : Less(key, es[i].key)}}
         /\ SearchLessThan(es, key) = {{i \in DOMAIN es : Less(es[i].key, key)}}
         /\ SearchGreaterEqual(es, key) = {{i \in DOMAIN es : ~Less(es[i].key, key)}}
         /\ SearchLessEqual(es, key) = {{i \in DOMAIN es : ~Less(key, es[i].key)}}
         /\ \A right \in Keys :
              SearchBetween(es, key, right) =
                {{i \in DOMAIN es : ~Less(es[i].key, key) /\ ~Less(right, es[i].key)}}
<1> DEFINE N == Len(es)
<1>1. DOMAIN es = 1..N /\ N \in Nat
  BY EntryFacts
<1>2. \A i \in LowerBounds(es, key) : i \in 1..N + 1 /\ \A j \in 1..N : j < i <=> Less(es[j].key, key)
  BY <1>1, LowerBoundSplits
<1>3. \A k \in Keys : \A i \in UpperBounds(es, k) :
        i \in 1..N + 1 /\ \A j \in 1..N : j < i <=> ~Less(k, es[j].key)
  BY <1>1, UpperBoundSplits
<1>4. LowerBounds(es, key) # {} /\ \A k \in Keys : UpperBounds(es, k) # {}
  BY BoundsExist
<1> HIDE DEF N
<1>5. \A i \in LowerBounds(es, key) : /\ i..N = {j \in 1..N : ~Less(es[j].key, key)}
                                      /\ 1..(i - 1) = {j \in 1..N : Less(es[j].key, key)}
  BY <1>1, <1>2
<1>6. \A i \in UpperBounds(es, key) : /\ i..N = {j \in 1..N : Less(key, es[j].key)}
                                      /\ 1..(i - 1) = {j \in 1..N : ~Less(key, es[j].key)}
  BY <1>1, <1>3
<1>7. \A right \in Keys : \A lo \in LowerBounds(es, key) : \A hi \in UpperBounds(es, right) :
        lo..(hi - 1) = {j \in 1..N : ~Less(es[j].key, key) /\ ~Less(right, es[j].key)}
  BY <1>1, <1>2, <1>3
<1>8. SearchGreaterThan(es, key) = {{i \in 1..N : Less(key, es[i].key)}}
  BY <1>4, <1>6 DEF SearchGreaterThan, N
<1>9. SearchLessThan(es, key) = {{i \in 1..N : Less(es[i].key, key)}}
  BY <1>4, <1>5 DEF SearchLessThan
<1>10. SearchGreaterEqual(es, key) = {{i \in 1..N : ~Less(es[i].key, key)}}
  BY <1>4, <1>5 DEF SearchGreaterEqual, N
<1>11. SearchLessEqual(es, key) = {{i \in 1..N : ~Less(key, es[i].key)}}
  BY <1>4, <1>6 DEF SearchLessEqual
<1>12. \A right \in Keys :
         SearchBetween(es, key, right) =
           {{i \in 1..N : ~Less(es[i].key, key) /\ ~Less(right, es[i].key)}}
  <2> SUFFICES ASSUME NEW right \in Keys
               PROVE  SearchBetween(es, key, right) =
                        {{i \in 1..N : ~Less(es[i].key, key) /\ ~Less(right, es[i].key)}}
    OBVIOUS
  <2> DEFINE Los == LowerBounds(es, key)
             His == UpperBounds(es, right)
             W == {i \in 1..N : ~Less(es[i].key, key) /\ ~Less(right, es[i].key)}
  <2>1. \A lo \in Los : \A hi \in His : lo..(hi - 1) = W
    BY <1>7
  <2>2. \E lo \in Los : \E hi \in His : TRUE
    BY <1>4
  <2>3. SearchBetween(es, key, right) = {lo..(hi - 1) : lo \in Los, hi \in His}
    BY DEF SearchBetween
  <2> HIDE DEF Los, His, W
  <2>4. SearchBetween(es, key, right) = {W}
    BY <2>1, <2>2, <2>3
  <2> QED
    BY <2>4 DEF W
<1> QED
  BY <1>1, <1>8, <1>9, <1>10, <1>11, <1>12

(* search_equal visits one match, and none only if there is none to find.  *)
LEMMA SearchEqualExact ==
  ASSUME NEW ix, IsIndex(ix), NEW key \in Keys, NEW visited \in SearchEqual(ix, key)
  PROVE  \/ \E i \in DOMAIN ix.entries : visited = {i} /\ Matches(ix.kind, ix.entries[i].key, key)
         \/ /\ visited = {}
            /\ Reliable(ix.kind) =>
                 \A i \in DOMAIN ix.entries : ~Matches(ix.kind, ix.entries[i].key, key)
<1>1. PICK f \in Finds(ix, key) : visited = {f} \ {0}
  BY DEF SearchEqual
<1>2. 0 \notin DOMAIN ix.entries
  BY EntryFacts DEF IsIndex
<1>3. CASE f = 0 /\ (Reliable(ix.kind) => ~HasMatch(ix.kind, ix.entries, key))
  BY <1>1, <1>3 DEF HasMatch
<1>4. CASE f \in DOMAIN ix.entries /\ Matches(ix.kind, ix.entries[f].key, key)
  <2>1. visited = {f}
    BY <1>1, <1>2, <1>4
  <2> QED
    BY <1>4, <2>1
<1> QED
  BY <1>3, <1>4, FindsExact

(* search_equal visits what matches the key, one entry of a reliable index *)
(* that has one; the range searches of a tree whose keys are sortable      *)
(* visit exactly the entries in their range (BTreeIndex and HashIndex,     *)
(* search_equal to search_between).                                        *)
THEOREM SearchesAlwaysExact == Spec => []SearchesExact
<1>1. IsIndex(index) => SearchesExact
  <2> SUFFICES ASSUME IsIndex(index) PROVE SearchesExact
    OBVIOUS
  <2>1. \A key \in Keys : \A visited \in SearchEqual(index, key) :
          \/ \E i \in DOMAIN index.entries : visited = {i} /\ Matches(index.kind, index.entries[i].key, key)
          \/ /\ visited = {}
             /\ Reliable(index.kind) =>
                  \A i \in DOMAIN index.entries : ~Matches(index.kind, index.entries[i].key, key)
    BY SearchEqualExact
  <2>2. ASSUME index.kind = "BTREE", Sortable
        PROVE  index.entries \in Seq(Entries) /\ Ordered("BTREE", index.entries)
    BY <2>2 DEF IsIndex, Reliable
  <2> QED
    BY <2>1, <2>2, TreeSearches DEF SearchesExact
<1> QED
  BY <1>1, IndexInvariant, PTL

(* insert, remove and update of BTreeIndex and HashIndex implement those   *)
(* of KeyedIds, for keys of any types: each returns what the listings call *)
(* for, and changes the listings of its id under the key, or one that      *)
(* compares equal, only.                                                   *)
THEOREM IndexImplementsKeyedIds == Spec => ImplementsKeyedIds
<1>1. Init => KI!Init
  BY InitMaps
<1>2. IsIndex(index) /\ [Next]_vars => [KI!Next]_(KI!vars)
  BY StepMaps
<1> QED
  BY <1>1, <1>2, IndexInvariant, PTL DEF Spec, ImplementsKeyedIds, KI!Spec

=============================================================================
