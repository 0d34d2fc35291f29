--------------------------- MODULE IndexOpsProofs ---------------------------
(***************************************************************************)
(* What the operators of IndexOps do to a sequence, whatever it holds:     *)
(* used by the proofs about one index and by those about a collection's.   *)
(***************************************************************************)
EXTENDS IndexOps, FiniteSetTheorems, SequenceTheorems, TLAPS

(* The places of id in a list, and their number.                           *)
Spots(ids, id) == {n \in DOMAIN ids : ids[n] = id}

Times(ids, id) == Cardinality(Spots(ids, id))

(* A list has finitely many places.                                        *)
LEMMA SpotsFinite ==
  ASSUME NEW S, NEW ids \in Seq(S), NEW id
  PROVE  IsFiniteSet(Spots(ids, id)) /\ Times(ids, id) = Cardinality(Spots(ids, id)) /\ Times(ids, id) \in Nat
<1>1. IsFiniteSet(1..Len(ids))
  BY FS_Interval
<1>2. Spots(ids, id) \subseteq 1..Len(ids)
  BY DEF Spots
<1>3. IsFiniteSet(Spots(ids, id))
  BY <1>1, <1>2, FS_Subset
<1> QED
  BY <1>3, FS_CardinalityType DEF Times, Spots

(* push_back lists its id once more.                                       *)
LEMMA TimesOfAppend ==
  ASSUME NEW S, NEW ids \in Seq(S), NEW id \in S, NEW x
  PROVE  Times(Append(ids, id), x) = IF x = id THEN Times(ids, x) + 1 ELSE Times(ids, x)
<1> DEFINE more == Append(ids, id)
           N == Len(ids)
<1>1. N \in Nat /\ DOMAIN ids = 1..N /\ DOMAIN more = 1..N + 1
  BY AppendProperties
<1>2. more[N + 1] = id /\ \A i \in 1..N : more[i] = ids[i]
  BY AppendProperties
<1>3. IsFiniteSet(Spots(ids, x)) /\ Times(ids, x) = Cardinality(Spots(ids, x))
  BY SpotsFinite
<1>4. Times(more, x) = Cardinality(Spots(more, x))
  BY DEF Times, Spots
<1> HIDE DEF more, N
<1>5. CASE x = id
  <2>1. Spots(more, x) = Spots(ids, x) \cup {N + 1} /\ N + 1 \notin Spots(ids, x)
    BY <1>1, <1>2, <1>5 DEF Spots
  <2> QED
    BY <1>3, <1>4, <1>5, <2>1, FS_AddElement DEF more
<1>6. CASE x # id
  <2>1. Spots(more, x) = Spots(ids, x)
    BY <1>1, <1>2, <1>6 DEF Spots
  <2> QED
    BY <1>3, <1>4, <1>6, <2>1 DEF more
<1> QED
  BY <1>5, <1>6

(* What std::remove and erase leave: no copy of the id, every copy of the  *)
(* others.                                                                 *)
LEMMA LeftFacts ==
  ASSUME NEW S, NEW ids \in Seq(S), NEW id
  PROVE  /\ Left(ids, id) \in Seq(S)
         /\ (Left(ids, id) = <<>>) <=> (\A n \in DOMAIN ids : ids[n] = id)
         /\ Len(Left(ids, id)) <= Len(ids)
         /\ \A x : Times(Left(ids, id), x) = IF x = id THEN 0 ELSE Times(ids, x)
<1> DEFINE stay == Staying(ids, id)
           rank == [m \in stay |-> Cardinality(stay \cap (1..m))]
           C == Cardinality(stay)
           left == Left(ids, id)
<1>1. stay \subseteq 1..Len(ids)
  BY DEF Staying
<1>2. IsFiniteSet(stay) /\ C \in Nat
  <2>1. IsFiniteSet(1..Len(ids))
    BY FS_Interval
  <2> QED
    BY <1>1, <2>1, FS_Subset, FS_CardinalityType
<1>3. \A m \in stay : IsFiniteSet(stay \cap (1..m)) /\ Cardinality(stay \cap (1..m)) <= C
  BY <1>2, FS_Subset
<1>14. \A m \in stay : rank[m] \in Int /\ rank[m] \in 1..C
  <2> SUFFICES ASSUME NEW m \in stay
               PROVE  rank[m] \in Int /\ rank[m] \in 1..C
    OBVIOUS
  <2> DEFINE c == Cardinality(stay \cap (1..m))
  <2>1. m \in stay \cap (1..m)
    BY <1>1
  <2>2. c \in Nat /\ c # 0
    BY <1>3, <2>1, FS_CardinalityType, FS_EmptySet
  <2>3. c <= C /\ rank[m] = c
    BY <1>3
  <2>4. C \in Nat
    BY <1>2
  <2> HIDE DEF c, C, rank
  <2> QED
    BY <2>2, <2>3, <2>4
<1>4. ASSUME NEW m \in stay, NEW n \in stay, m < n PROVE rank[m] < rank[n]
  <2>1. stay \cap (1..m) \subseteq stay \cap (1..n)
    BY <1>1, <1>4
  <2>2. n \in stay \cap (1..n) /\ n \notin stay \cap (1..m)
    BY <1>1, <1>4
  <2>3. rank[m] <= rank[n] /\ rank[m] # rank[n]
    BY <1>3, <2>1, <2>2, FS_Subset
  <2> HIDE DEF rank, stay, C
  <2>4. rank[m] \in Int /\ rank[n] \in Int
    BY <1>14
  <2> QED
    BY <2>3, <2>4
<1>5. rank \in Injection(stay, 1..C)
  <2>1. rank \in [stay -> 1..C]
    BY <1>14
  <2>2. \A m, n \in stay : rank[m] = rank[n] => m = n
    <3> HIDE DEF rank, stay, C
    <3>1. \A m \in stay : rank[m] \in Int /\ m \in Int
      BY <1>1, <1>14
    <3> QED
      BY <3>1, <1>4
  <2> HIDE DEF rank, stay, C
  <2> QED
    BY <2>1, <2>2 DEF Injection, IsInjective
<1>6. rank \in Surjection(stay, 1..C)
  <2>1. IsFiniteSet(1..C) /\ Cardinality(1..C) = C
    BY <1>2, FS_Interval
  <2> HIDE DEF rank, stay
  <2> QED
    BY <1>5, <2>1, FS_Injection
<1>7. \A n \in 1..C : \E m \in stay : rank[m] = n
  <2> HIDE DEF rank, stay, C
  <2> QED
    BY <1>6 DEF Surjection
<1>8. \A m \in stay : left[rank[m]] = ids[m]
  <2> TAKE m \in stay
  <2> DEFINE k == CHOOSE k \in stay : Cardinality(stay \cap (1..k)) = rank[m]
  <2>1. left[rank[m]] = ids[k]
    BY <1>14 DEF Left
  <2>2. k \in stay /\ rank[k] = rank[m]
    OBVIOUS
  <2>3. k = m
    <3> HIDE DEF k, rank, stay
    <3> QED
      BY <2>2, <1>5 DEF Injection, IsInjective
  <2> QED
    BY <2>1, <2>3
<1>9. DOMAIN left = 1..C
  BY DEF Left
<1>10. \A n \in 1..C : \E m \in stay : rank[m] = n /\ left[n] = ids[m]
  BY <1>7, <1>8
<1>11. left \in Seq(S)
  <2>1. \A n \in 1..C : left[n] \in S
    <3> HIDE DEF rank, stay, C, left
    <3> QED
      BY <1>10, <1>1
  <2>2. left = [n \in 1..C |-> left[n]]
    BY DEF Left
  <2> HIDE DEF left, C
  <2> QED
    BY <2>1, <2>2, <1>2, IsASeq
<1>12. (left = <<>>) <=> (\A n \in DOMAIN ids : ids[n] = id)
  <2>1. left = <<>> <=> C = 0
    <3> HIDE DEF left, C
    <3> QED
      BY <1>2, <1>9, <1>11
  <2>2. C = 0 <=> stay = {}
    BY <1>2, FS_EmptySet
  <2> QED
    BY <2>1, <2>2 DEF Staying
<1>13. ASSUME NEW x PROVE Times(left, x) = IF x = id THEN 0 ELSE Times(ids, x)
  <2>1. CASE x = id
    <3>1. Spots(left, x) = {}
      <4> HIDE DEF rank
      <4> QED
        BY <1>9, <1>10, <2>1 DEF Spots, Staying
    <3> QED
      BY <3>1, <2>1, FS_EmptySet DEF Times, Spots
  <2>2. CASE x # id
    <3> DEFINE f == [m \in Spots(ids, x) |-> rank[m]]
    <3>1. Spots(ids, x) \subseteq stay
      BY <2>2 DEF Spots, Staying
    <3> HIDE DEF rank, stay, left, C
    <3>2. f \in [Spots(ids, x) -> Spots(left, x)]
      BY <3>1, <1>14, <1>8, <1>9 DEF Spots
    <3>3. \A m, n \in Spots(ids, x) : f[m] = f[n] => m = n
      BY <3>1, <1>5 DEF Injection, IsInjective
    <3>4. \A n \in Spots(left, x) : \E m \in Spots(ids, x) : f[m] = n
      <4> TAKE n \in Spots(left, x)
      <4>1. PICK m \in stay : rank[m] = n /\ left[n] = ids[m]
        BY <1>9, <1>10 DEF Spots
      <4>2. m \in Spots(ids, x)
        BY <4>1, <1>1 DEF Spots
      <4> QED
        BY <4>1, <4>2
    <3>5. f \in Bijection(Spots(ids, x), Spots(left, x))
      <4> HIDE DEF f
      <4> QED
        BY <3>2, <3>3, <3>4 DEF Bijection, Injection, IsInjective, Surjection
    <3>6. Cardinality(Spots(left, x)) = Cardinality(Spots(ids, x))
      <4>1. ExistsBijection(Spots(ids, x), Spots(left, x))
        BY <3>5 DEF ExistsBijection
      <4> QED
        BY <4>1, SpotsFinite, FS_Bijection
    <3> QED
      BY <2>2, <3>6 DEF Times, Spots
  <2> QED
    BY <2>1, <2>2
<1>15. Len(left) <= Len(ids)
  <2>1. C <= Len(ids)
    <3>1. IsFiniteSet(1..Len(ids)) /\ Cardinality(1..Len(ids)) = Len(ids)
      <4>1. Len(ids) \in Nat
        OBVIOUS
      <4> QED
        BY <4>1, FS_Interval
    <3> QED
      BY <1>1, <3>1, FS_Subset
  <2>2. Len(left) = C
    <3> HIDE DEF left, C
    <3> QED
      BY <1>2, <1>9, <1>11
  <2> QED
    BY <2>1, <2>2
<1> QED
  BY <1>11, <1>12, <1>13, <1>15

(* An id is in a list if it is there at least once.                        *)
LEMMA ListMembers ==
  ASSUME NEW S, NEW ids \in Seq(S), NEW x
  PROVE  Times(ids, x) \in Nat /\ (Times(ids, x) # 0 <=> x \in {ids[n] : n \in DOMAIN ids})
<1>1. /\ IsFiniteSet(Spots(ids, x)) /\ Times(ids, x) = Cardinality(Spots(ids, x))
      /\ Times(ids, x) \in Nat
  BY SpotsFinite
<1>2. Times(ids, x) = 0 <=> Spots(ids, x) = {}
  BY <1>1, FS_EmptySet
<1> QED
  BY <1>1, <1>2 DEF Spots

(* push_back adds its id to those of the list, and what is left when one   *)
(* is removed are the others.                                              *)
LEMMA AppendMembers ==
  ASSUME NEW S, NEW ids \in Seq(S), NEW id \in S, NEW x, x # id
  PROVE  LET more == Append(ids, id) IN
         x \in {more[n] : n \in DOMAIN more} <=> x \in {ids[n] : n \in DOMAIN ids}
<1> DEFINE more == Append(ids, id)
<1>1. more \in Seq(S) /\ Times(more, x) = Times(ids, x)
  BY TimesOfAppend, AppendProperties
<1> HIDE DEF more
<1>2. x \in {more[n] : n \in DOMAIN more} <=> x \in {ids[n] : n \in DOMAIN ids}
  BY <1>1, ListMembers
<1> QED
  BY <1>2 DEF more

LEMMA LeftMembers ==
  ASSUME NEW S, NEW ids \in Seq(S), NEW id, NEW x, x # id
  PROVE  LET left == Left(ids, id) IN
         x \in {left[n] : n \in DOMAIN left} <=> x \in {ids[n] : n \in DOMAIN ids}
<1> DEFINE left == Left(ids, id)
<1>1. left \in Seq(S) /\ Times(left, x) = Times(ids, x)
  BY LeftFacts
<1> HIDE DEF left
<1>2. x \in {left[n] : n \in DOMAIN left} <=> x \in {ids[n] : n \in DOMAIN ids}
  BY <1>1, ListMembers
<1> QED
  BY <1>2 DEF left

(* A nonempty list no longer than one of length 1 has length 1.            *)
LEMMA ShortLists ==
  ASSUME NEW S, NEW a \in Seq(S), NEW b \in Seq(S), a # <<>>, Len(a) <= Len(b), Len(b) = 1
  PROVE  Len(a) = 1
<1>1. Len(a) \in Nat /\ Len(a) # 0
  BY EmptySeq
<1> QED
  BY <1>1

(* Every nonempty set of naturals has a least element. Induction over the  *)
(* naturals is a use of it: a claim that fails somewhere fails somewhere   *)
(* first.                                                                  *)
LEMMA LeastExists ==
  ASSUME NEW T \in SUBSET Nat, T # {} PROVE \E x \in T : \A y \in T : x <= y
<1> DEFINE Below(x) == T \cap (0..x)
           U == {Below(x) : x \in T}
<1>1. ASSUME NEW x \in T PROVE Below(x) \in FiniteSubsetsOf(T)
  <2>1. IsFiniteSet(0..x)
    BY FS_Interval
  <2>2. IsFiniteSet(Below(x))
    BY <2>1, FS_Intersection
  <2> QED
    BY <2>2 DEF FiniteSubsetsOf
<1>2. U \subseteq FiniteSubsetsOf(T) /\ U # {}
  BY <1>1
<1>3. PICK u \in U : \A v \in U : <<v, u>> \notin StrictSubsetOrdering(T)
  <2> HIDE DEF U
  <2> QED
    BY <1>2, FS_StrictSubsetOrderingWellFounded, WFMin
<1>4. PICK x \in T : u = Below(x)
  OBVIOUS
<1>5. ASSUME NEW y \in T, y < x PROVE FALSE
  <2>1. Below(y) \subseteq u /\ x \in u /\ x \notin Below(y)
    BY <1>4, <1>5
  <2>3. Below(y) \in U
    OBVIOUS
  <2>2. <<Below(y), u>> \in StrictSubsetOrdering(T)
    BY <2>1, <1>4 DEF StrictSubsetOrdering
  <2> QED
    BY <2>2, <2>3, <1>3
<1> QED
  BY <1>5

(* The three parts of a sequence with an element put in.                   *)
LEMMA InsertAtFacts ==
  ASSUME NEW S, NEW s \in Seq(S), NEW i \in 1..Len(s) + 1, NEW e \in S
  PROVE  /\ Seqs!InsertAt(s, i, e) \in Seq(S)
         /\ Len(Seqs!InsertAt(s, i, e)) = Len(s) + 1
         /\ \A j \in 1..Len(s) + 1 :
              Seqs!InsertAt(s, i, e)[j] = IF j < i THEN s[j] ELSE IF j = i THEN e ELSE s[j - 1]
<1> DEFINE a == SubSeq(s, 1, i - 1)
           c == SubSeq(s, i, Len(s))
<1>1. a \in Seq(S) /\ Len(a) = i - 1 /\ \A j \in 1..(i - 1) : a[j] = s[j]
  BY SubSeqProperties
<1>2. c \in Seq(S) /\ Len(c) = Len(s) - i + 1 /\ \A j \in 1..(Len(s) - i + 1) : c[j] = s[i + j - 1]
  BY SubSeqProperties
<1> DEFINE b == a \o <<e>>
<1>3. b \in Seq(S) /\ Len(b) = i /\ b[i] = e /\ \A j \in 1..(i - 1) : b[j] = s[j]
  <2> HIDE DEF a
  <2>1. b = Append(a, e)
    BY <1>1, AppendIsConcat
  <2>2. Len(b) = Len(a) + 1 /\ b \in Seq(S)
    BY <1>1, <2>1
  <2> QED
    BY <1>1, <2>1, <2>2, AppendProperties
<1> DEFINE t == b \o c
<1>4. t = Seqs!InsertAt(s, i, e)
  BY DEF Seqs!InsertAt
<1>7. i \in Int /\ Len(s) \in Nat
  OBVIOUS
<1>5. t \in Seq(S) /\ Len(t) = Len(s) + 1
  <2> HIDE DEF b, c
  <2>1. t \in Seq(S) /\ Len(t) = Len(b) + Len(c)
    BY <1>2, <1>3, ConcatProperties
  <2> QED
    BY <1>2, <1>3, <1>7, <2>1
<1>6. \A j \in 1..Len(s) + 1 : t[j] = IF j < i THEN s[j] ELSE IF j = i THEN e ELSE s[j - 1]
  <2> HIDE DEF b, c
  <2> SUFFICES ASSUME NEW j \in 1..Len(s) + 1
               PROVE  t[j] = IF j < i THEN s[j] ELSE IF j = i THEN e ELSE s[j - 1]
    OBVIOUS
  <2>1. t[j] = IF j <= Len(b) THEN b[j] ELSE c[j - Len(b)]
    <3>1. j \in 1..Len(b) + Len(c)
      BY <1>2, <1>3, <1>7
    <3> QED
      BY <1>2, <1>3, <3>1, ConcatProperties
  <2>2. CASE j <= i
    BY <1>3, <2>1, <2>2
  <2>3. CASE j > i
    <3>1. t[j] = c[j - i] /\ j - i \in 1..(Len(s) - i + 1)
      BY <1>3, <2>1, <2>3
    <3>2. c[j - i] = s[j - 1]
      BY <1>2, <3>1
    <3> QED
      BY <2>3, <3>1, <3>2
  <2>4. j <= i \/ j > i
    BY <1>7
  <2> QED
    BY <2>2, <2>3, <2>4
<1> HIDE DEF t
<1> QED
  BY <1>4, <1>5, <1>6

(* An element put in after the last one is appended.                       *)
LEMMA InsertAtEnd ==
  ASSUME NEW S, NEW s \in Seq(S), NEW x
  PROVE  Seqs!InsertAt(s, Len(s) + 1, x) = Append(s, x)
<1>1. Len(s) \in Nat /\ Len(s) + 1 - 1 = Len(s)
  OBVIOUS
<1>2. SubSeq(s, 1, Len(s)) = s /\ SubSeq(s, Len(s) + 1, Len(s)) = <<>>
  BY <1>1, SubSeqFull, SubSeqEmpty
<1>3. s \o <<x>> \o <<>> = Append(s, x)
  OBVIOUS
<1>4. Seqs!InsertAt(s, Len(s) + 1, x) =
        SubSeq(s, 1, Len(s) + 1 - 1) \o <<x>> \o SubSeq(s, Len(s) + 1, Len(s))
  BY DEF Seqs!InsertAt
<1> QED
  BY <1>1, <1>2, <1>3, <1>4

(* The two parts of a sequence with an element taken out.                  *)
LEMMA RemoveAtFacts ==
  ASSUME NEW S, NEW s \in Seq(S), NEW i \in 1..Len(s)
  PROVE  /\ Seqs!RemoveAt(s, i) \in Seq(S)
         /\ Len(Seqs!RemoveAt(s, i)) = Len(s) - 1
         /\ \A j \in 1..Len(s) - 1 : Seqs!RemoveAt(s, i)[j] = IF j < i THEN s[j] ELSE s[j + 1]
<1> DEFINE a == SubSeq(s, 1, i - 1)
           c == SubSeq(s, i + 1, Len(s))
<1>1. a \in Seq(S) /\ Len(a) = i - 1 /\ \A j \in 1..(i - 1) : a[j] = s[j]
  BY SubSeqProperties
<1>2. c \in Seq(S) /\ Len(c) = Len(s) - i /\ \A j \in 1..(Len(s) - i) : c[j] = s[i + j]
  BY SubSeqProperties
<1> DEFINE t == a \o c
<1>3. t = Seqs!RemoveAt(s, i)
  BY DEF Seqs!RemoveAt
<1> HIDE DEF a, c
<1>6. i \in Int /\ Len(s) \in Nat
  OBVIOUS
<1>4. t \in Seq(S) /\ Len(t) = Len(s) - 1
  <2>1. t \in Seq(S) /\ Len(t) = Len(a) + Len(c)
    BY <1>1, <1>2, ConcatProperties
  <2> QED
    BY <1>1, <1>2, <1>6, <2>1
<1>5. \A j \in 1..Len(s) - 1 : t[j] = IF j < i THEN s[j] ELSE s[j + 1]
  <2> SUFFICES ASSUME NEW j \in 1..Len(s) - 1
               PROVE  t[j] = IF j < i THEN s[j] ELSE s[j + 1]
    OBVIOUS
  <2>1. t[j] = IF j <= Len(a) THEN a[j] ELSE c[j - Len(a)]
    <3>1. j \in 1..Len(a) + Len(c)
      BY <1>1, <1>2, <1>6
    <3> QED
      BY <1>1, <1>2, <3>1, ConcatProperties
  <2>2. CASE j < i
    BY <1>1, <2>1, <2>2
  <2>3. CASE j >= i
    <3>1. t[j] = c[j - (i - 1)] /\ j - (i - 1) \in 1..(Len(s) - i)
      BY <1>1, <2>1, <2>3
    <3>2. c[j - (i - 1)] = s[j + 1]
      BY <1>2, <3>1
    <3> QED
      BY <2>3, <3>1, <3>2
  <2>4. j < i \/ j >= i
    BY <1>6
  <2> QED
    BY <2>2, <2>3, <2>4
<1> HIDE DEF t
<1> QED
  BY <1>3, <1>4, <1>5

(* The bounds with the comparison written out.                             *)
LEMMA BoundsAre ==
  ASSUME NEW es, NEW key
  PROVE  /\ LowerBounds(es, key) =
              {i \in 1..Len(es) + 1 : /\ i > 1 => Less(es[i - 1].key, key)
                                      /\ i <= Len(es) => ~Less(es[i].key, key)}
         /\ UpperBounds(es, key) =
              {i \in 1..Len(es) + 1 : /\ i > 1 => ~Less(key, es[i - 1].key)
                                      /\ i <= Len(es) => Less(key, es[i].key)}
BY DEF LowerBounds, UpperBounds, Gaps

=============================================================================
